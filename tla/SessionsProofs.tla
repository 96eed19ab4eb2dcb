--------------------------- MODULE SessionsProofs ---------------------------
(* How stale the identity cache can be, for every set of users, sessions,  *)
(* goroutines and roles, and all times.                                    *)
EXTENDS SessionsTypeProofs

(* What makes the cache trustworthy for TTL: the time that a fill stamps   *)
(* its entry with was read before its session and user rows were.          *)

Filling == {"check", "identity", "put"}

Clock ==
    /\ \A p \in Procs : loc[p].t0 <= now
    /\ \A s \in Sids : cache[s] # Absent => cache[s].cacheExpires <= now + TTL

(* A fill that holds an overtaken identity began before it was overtaken.  *)
FillKnowsUser ==
    \A p \in Procs : pc[p] = "put" =>
        LET i == loc[p].id
        IN  i.ver < Ver(i.user) => changes[i.user][i.ver + 1] >= loc[p].t0

(* A fill for a session that is gone began before it went.                 *)
FillKnowsSession ==
    \A p \in Procs : pc[p] \in Filling /\ sessions[loc[p].sid] = Absent =>
        goneAt[loc[p].sid] # Absent /\ goneAt[loc[p].sid] >= loc[p].t0

Gone == \A s \in Sids : goneAt[s] # Absent => sessions[s] = Absent

Fresh ==
    /\ Clock /\ FillKnowsUser /\ FillKnowsSession /\ Gone
    /\ StaleEntryBounded /\ RevokedEntryBounded

(* The steps that neither fill nor read what a fill is made of: rows only  *)
(* go, entries only leave, goroutines only start or give up.               *)
RowsGo ==
    \A s \in Sids :
        \/ (sessions'[s] = Absent <=> sessions[s] = Absent) /\ goneAt'[s] = goneAt[s]
        \/ sessions[s] # Absent /\ sessions'[s] = Absent /\ goneAt'[s] = now

EntriesLeave ==
    \A s \in Sids : cache'[s] # Absent =>
        /\ cache[s] # Absent
        /\ cache'[s].id = cache[s].id /\ cache'[s].cacheExpires = cache[s].cacheExpires

NobodyFills ==
    \A q \in Procs : \/ pc'[q] = pc[q] /\ loc'[q] = loc[q]
                     \/ pc'[q] \notin Filling /\ loc'[q].t0 <= now

LEMMA QuietFresh ==
    ASSUME Typed, Typed', Fresh, now' = now, changes' = changes, RowsGo, EntriesLeave, NobodyFills
    PROVE  Fresh'
<1> USE AbsentAssumption, TimesAssumption
<1>1. \A q \in Procs : /\ loc[q].t0 \in Nat /\ loc'[q].t0 \in Nat
                       /\ pc[q] \in Filling => loc[q].sid \in Sids
  BY DEF Typed, TypeOK, Local, LocalsOK, Filling
<1>2. now \in Nat /\ \A s \in Sids : /\ goneAt[s] \in Nat \cup {Absent}
                                     /\ cache[s] # Absent => cache[s].cacheExpires \in Nat
  BY DEF Typed, TypeOK, CacheEntry
<1>3. Clock'
  BY DEF Fresh, Clock, EntriesLeave, NobodyFills
<1>4. FillKnowsUser'
  BY DEF Fresh, FillKnowsUser, NobodyFills, Filling, Ver
<1>5. FillKnowsSession'
  <2> SUFFICES ASSUME NEW q \in Procs, pc'[q] \in Filling, sessions'[loc'[q].sid] = Absent
               PROVE  goneAt'[loc'[q].sid] # Absent /\ goneAt'[loc'[q].sid] >= loc'[q].t0
    BY DEF FillKnowsSession
  <2>1. pc'[q] = pc[q] /\ loc'[q] = loc[q] /\ loc[q].sid \in Sids
    BY <1>1 DEF NobodyFills
  <2>2. loc[q].t0 <= now
    BY DEF Fresh, Clock
  <2> QED BY <1>1, <1>2, <2>1, <2>2 DEF Fresh, FillKnowsSession, RowsGo
<1>6. Gone'
  BY DEF Fresh, Gone, RowsGo
<1>7. StaleEntryBounded'
  BY DEF Fresh, StaleEntryBounded, EntriesLeave, Ver
<1>8. RevokedEntryBounded'
  <2> SUFFICES ASSUME NEW s \in Sids, cache'[s] # Absent, sessions'[s] = Absent
               PROVE  goneAt'[s] # Absent /\ goneAt'[s] + TTL >= cache'[s].cacheExpires
    BY DEF RevokedEntryBounded
  <2>1. cache[s] # Absent /\ cache'[s].cacheExpires = cache[s].cacheExpires
    BY DEF EntriesLeave
  <2>2. cache[s].cacheExpires <= now + TTL
    BY <2>1 DEF Fresh, Clock
  <2> QED BY <1>2, <2>1, <2>2 DEF Fresh, RevokedEntryBounded, RowsGo
<1> QED BY <1>3, <1>4, <1>5, <1>6, <1>7, <1>8 DEF Fresh

LEMMA InitFresh == Init => Fresh
BY NoLocalsType DEF Init, Fresh, Clock, FillKnowsUser, FillKnowsSession, Gone, Filling,
                    StaleEntryBounded, RevokedEntryBounded

(* A row of u changes: what was read before is overtaken now.              *)
LEMMA WriteUserFresh ==
    ASSUME Typed, Typed', Fresh, NEW p \in Procs, pc[p] = "ops", loc[p].user \in Users,
           NEW r, WriteUser(p, r)
    PROVE  Fresh'
<1> USE AbsentAssumption, TimesAssumption
<1> DEFINE u == loc[p].user
<1>1. changes[u] \in Seq(Nat) /\ now \in Nat /\ Len(changes[u]) \in Nat
  BY DEF Typed, TypeOK
<1>2. /\ changes' = [changes EXCEPT ![u] = Append(changes[u], now)]
      /\ UNCHANGED <<now, sessions, cache, pc, goneAt>>
  BY DEF WriteUser, memory
<1>3. \A q \in Procs : q # p => loc'[q] = loc[q]
  BY DEF WriteUser, Typed, TypeOK
<1>4. loc'[p].t0 = loc[p].t0
  BY DEF WriteUser, Typed, TypeOK, Local
<1>5. /\ Len(Append(changes[u], now)) = Len(changes[u]) + 1
      /\ \A n \in Nat : n < Len(changes[u]) => Append(changes[u], now)[n + 1] = changes[u][n + 1]
      /\ Append(changes[u], now)[Len(changes[u]) + 1] = now
  BY SMTT(20), <1>1
<1>6. ASSUME NEW v \in Users, NEW n \in Nat, n < Ver(v)'
      PROVE  (n < Ver(v) /\ changes'[v][n + 1] = changes[v][n + 1]) \/ changes'[v][n + 1] = now
  <2>1. CASE v # u
    <3>1. changes'[v] = changes[v]
      BY <1>2, <2>1 DEF Typed, TypeOK
    <3> QED BY <1>6, <3>1 DEF Ver
  <2>2. CASE v = u
    <3>1. changes'[v] = Append(changes[u], now)
      BY <1>2, <2>2 DEF Typed, TypeOK
    <3>2. n < Len(changes[u]) + 1
      BY <1>5, <1>6, <3>1 DEF Ver
    <3>3. n < Len(changes[u]) \/ n = Len(changes[u])
      BY <1>1, <3>2
    <3> QED BY <1>5, <2>2, <3>1, <3>3 DEF Ver
  <2> QED BY <2>1, <2>2
<1>7. Clock'
  BY <1>2, <1>3, <1>4 DEF Fresh, Clock
<1>8. FillKnowsUser'
  <2> SUFFICES ASSUME NEW q \in Procs, pc'[q] = "put", loc'[q].id.ver < Len(changes'[loc'[q].id.user])
               PROVE  changes'[loc'[q].id.user][loc'[q].id.ver + 1] >= loc'[q].t0
    BY DEF FillKnowsUser, Ver
  <2>1. q # p /\ pc[q] = "put" /\ loc'[q] = loc[q]
    BY <1>2, <1>3
  <2>2. loc[q].id \in Identity /\ loc[q].t0 \in Nat /\ loc[q].t0 <= now
    BY <2>1 DEF Typed, TypeOK, LocalsOK, Fresh, Clock, Local
  <2>3. loc[q].id.user \in Users /\ loc[q].id.ver \in Nat
    BY <2>2 DEF Identity
  <2>4. loc[q].id.ver < Ver(loc[q].id.user) =>
          changes[loc[q].id.user][loc[q].id.ver + 1] >= loc[q].t0
    BY <2>1 DEF Fresh, FillKnowsUser
  <2>5. PICK v \in Users, n \in Nat : v = loc[q].id.user /\ n = loc[q].id.ver
    BY <2>3
  <2>6. n < Ver(v)'
    BY <2>1, <2>5 DEF Ver
  <2>7. (n < Ver(v) /\ changes'[v][n + 1] = changes[v][n + 1]) \/ changes'[v][n + 1] = now
    BY <1>6, <2>6
  <2> QED BY <1>1, <2>1, <2>2, <2>4, <2>5, <2>7
<1>9. FillKnowsSession'
  BY <1>2, <1>3 DEF Fresh, FillKnowsSession, Filling
<1>10. Gone' /\ RevokedEntryBounded'
  BY <1>2 DEF Fresh, Gone, RevokedEntryBounded
<1>11. StaleEntryBounded'
  <2> SUFFICES ASSUME NEW s \in Sids, cache[s] # Absent, cache[s].id.ver < Ver(cache[s].id.user)'
               PROVE  changes'[cache[s].id.user][cache[s].id.ver + 1] + TTL >= cache[s].cacheExpires
    BY Zenon, <1>2 DEF StaleEntryBounded, Ver
  <2>1. cache[s] \in CacheEntry
    BY DEF Typed, TypeOK
  <2>2. cache[s].id.user \in Users /\ cache[s].id.ver \in Nat /\ cache[s].cacheExpires \in Nat
    BY <2>1 DEF CacheEntry, Identity
  <2>3. cache[s].cacheExpires <= now + TTL
    BY DEF Fresh, Clock
  <2>4. cache[s].id.ver < Ver(cache[s].id.user) =>
          changes[cache[s].id.user][cache[s].id.ver + 1] + TTL >= cache[s].cacheExpires
    BY DEF Fresh, StaleEntryBounded
  <2>5. PICK v \in Users, n \in Nat : v = cache[s].id.user /\ n = cache[s].id.ver
    BY <2>2
  <2>6. n < Ver(v)'
    BY <1>2, <2>5 DEF Ver
  <2>7. (n < Ver(v) /\ changes'[v][n + 1] = changes[v][n + 1]) \/ changes'[v][n + 1] = now
    BY <1>6, <2>6
  <2> QED BY Zenon, <1>1, <2>2, <2>3, <2>4, <2>5, <2>7
<1> QED BY <1>7, <1>8, <1>9, <1>10, <1>11 DEF Fresh

LEMMA ElementType == ASSUME NEW q \in Seq(Nat), NEW n \in 1 .. Len(q) PROVE q[n] \in Nat
OBVIOUS

(* The goroutine p alone moves, to l, and fills nothing.                   *)
LEMMA OneMoves ==
    ASSUME Typed, Fresh, NEW p \in Procs,
           \A q \in Procs : q # p => pc'[q] = pc[q] /\ loc'[q] = loc[q],
           pc'[p] \notin Filling, loc'[p].t0 = loc[p].t0 \/ loc'[p].t0 = 0 \/ loc'[p].t0 = now
    PROVE  NobodyFills
BY DEF Fresh, Clock, NobodyFills, Typed, TypeOK

LEMMA FinishQuiet == ASSUME Typed, Fresh, NEW p \in Procs, Finish(p) PROVE NobodyFills
<1>1. /\ \A q \in Procs : q # p => pc'[q] = pc[q] /\ loc'[q] = loc[q]
      /\ pc'[p] = "idle" /\ loc'[p].t0 = 0
  BY NoLocalsType DEF Finish, Goto, Typed, TypeOK
<1> QED BY <1>1, OneMoves DEF Filling

LEMMA RunQuiet ==
    ASSUME Typed, Fresh, NEW p \in Procs, NEW ops, Run(p, ops),
           \A q \in Procs : q # p => loc'[q] = loc[q],
           loc'[p].t0 = loc[p].t0 \/ loc'[p].t0 = 0
    PROVE  NobodyFills
<1>1. (\A q \in Procs : q # p => pc'[q] = pc[q]) /\ pc'[p] = "ops"
  BY DEF Run, Goto, Typed, TypeOK
<1> QED BY <1>1, OneMoves DEF Filling

LEMMA RevokeQuiet == ASSUME Typed, Fresh, NEW p \in Procs, Revoke(p) PROVE NobodyFills
BY RevokeLocals, RunQuiet

LEMMA AdvanceQuiet == ASSUME Typed, Fresh, NEW p \in Procs, Advance(p) PROVE NobodyFills
BY FinishQuiet DEF Advance, NobodyFills

LEMMA SameRows == ASSUME UNCHANGED <<sessions, goneAt>> PROVE RowsGo
BY DEF RowsGo

LEMMA SameEntries == ASSUME UNCHANGED cache PROVE EntriesLeave
BY DEF EntriesLeave

LEMMA DropRows == ASSUME Typed, NEW S, DropSessions(S) PROVE RowsGo
BY DEF DropSessions, RowsGo, Typed, TypeOK

LEMMA EvictEntries == ASSUME Typed, NEW S, Evict(S) PROVE EntriesLeave
BY DEF Evict, EntriesLeave, Typed, TypeOK

LEMMA StampPast ==
    ASSUME Typed, Fresh, NEW p \in Procs
    PROVE  now \in Nat /\ loc[p].t0 \in Nat /\ loc[p].t0 <= now
BY DEF Typed, TypeOK, Local, Fresh, Clock

LEMMA LoginLocalFresh ==
    ASSUME Typed, Typed', Fresh, NEW p \in Procs, NEW u \in Users, LoginLocal(p, u)
    PROVE  Fresh'
<1> USE AbsentAssumption, TimesAssumption
<1>1. /\ \A q \in Procs : q # p => pc'[q] = pc[q] /\ loc'[q] = loc[q]
      /\ pc'[p] = "issue" /\ loc'[p].t0 = 0
  BY NoLocalsType DEF LoginLocal, Goto, Typed, TypeOK, Local
<1> QED BY <1>1, OneMoves, SameRows, SameEntries, QuietFresh
        DEF LoginLocal, Filling, tables, memory, hist

LEMMA IssueFresh ==
    ASSUME Typed, Typed', Fresh, NEW p \in Procs, NEW s \in Sids, Issue(p, s)
    PROVE  Fresh'
<1> USE AbsentAssumption, TimesAssumption
<1>1. /\ sessions[s] = Absent /\ goneAt[s] = Absent
      /\ \A t \in Sids : t # s => sessions'[t] = sessions[t]
      /\ UNCHANGED <<now, cache, changes, goneAt>>
  BY DEF Issue, Typed, TypeOK, memory, hist
<1>2. NobodyFills
  BY FinishQuiet DEF Issue
<1>3. cache[s] = Absent
  BY <1>1 DEF Fresh, RevokedEntryBounded
<1>4. Clock' /\ FillKnowsUser' /\ StaleEntryBounded'
  BY <1>1, <1>2 DEF Fresh, Clock, FillKnowsUser, StaleEntryBounded, NobodyFills, Filling, Ver
<1>5. FillKnowsSession'
  <2> SUFFICES ASSUME NEW q \in Procs, pc'[q] \in Filling, sessions'[loc'[q].sid] = Absent
               PROVE  goneAt'[loc'[q].sid] # Absent /\ goneAt'[loc'[q].sid] >= loc'[q].t0
    BY DEF FillKnowsSession
  <2>1. pc[q] \in Filling /\ loc'[q] = loc[q] /\ loc[q].sid \in Sids
    BY <1>2 DEF NobodyFills, Typed, LocalsOK, Filling
  <2>2. sessions[loc[q].sid] = Absent
    BY <1>1, <2>1
  <2> QED BY <1>1, <2>1, <2>2 DEF Fresh, FillKnowsSession
<1>6. Gone' /\ RevokedEntryBounded'
  BY <1>1, <1>3 DEF Fresh, Gone, RevokedEntryBounded
<1> QED BY <1>4, <1>5, <1>6 DEF Fresh

LEMMA IssueFailsFresh ==
    ASSUME Typed, Typed', Fresh, NEW p \in Procs, IssueFails(p) \/ Serve(p)
    PROVE  Fresh'
BY AbsentAssumption, TimesAssumption, FinishQuiet, SameRows, SameEntries, QuietFresh
   DEF IssueFails, Serve, tables, memory, hist

LEMMA AttachStartFresh ==
    ASSUME Typed, Typed', Fresh, NEW p \in Procs, NEW s \in Sids, AttachStart(p, s)
    PROVE  Fresh'
<1> USE AbsentAssumption, TimesAssumption
<1>1. /\ \A q \in Procs : q # p => pc'[q] = pc[q] /\ loc'[q] = loc[q]
      /\ pc'[p] = "get" /\ loc'[p].t0 = now
  BY NoLocalsType DEF AttachStart, Goto, Typed, TypeOK, Local
<1> QED BY <1>1, OneMoves, SameRows, SameEntries, QuietFresh
        DEF AttachStart, Filling, tables, memory, hist

LEMMA CacheGetFresh == ASSUME Typed, Typed', Fresh, NEW p \in Procs, CacheGet(p) PROVE Fresh'
<1> USE AbsentAssumption, TimesAssumption
<1>1. loc[p].sid \in Sids
  BY DEF CacheGet, Typed, LocalsOK
<1>2. EntriesLeave
  <2>1. CASE cache' = cache
    BY <2>1, SameEntries
  <2>2. CASE /\ cache[loc[p].sid] # Absent
             /\ cache' = [cache EXCEPT ![loc[p].sid].lastSeen = loc[p].t0]
    BY ZenonT(30), <1>1, <2>2 DEF EntriesLeave, Typed, TypeOK, CacheEntry
  <2> QED BY <2>1, <2>2 DEF CacheGet
<1>3. /\ \A q \in Procs : q # p => pc'[q] = pc[q] /\ loc'[q] = loc[q]
      /\ pc'[p] \in {"hit", "hitTouch", "resolve"} /\ loc'[p] = loc[p]
  BY DEF CacheGet, Goto, Typed, TypeOK
<1>4. NobodyFills
  BY <1>3, OneMoves DEF Filling
<1> QED BY <1>2, <1>4, SameRows, QuietFresh DEF CacheGet, tables, hist

LEMMA CacheHitFresh == ASSUME Typed, Typed', Fresh, NEW p \in Procs, CacheHit(p) PROVE Fresh'
<1> USE AbsentAssumption, TimesAssumption
<1>1. PICK i \in Identity : loc' = [loc EXCEPT ![p].id = i]
  BY Zenon, TornType DEF CacheHit, Typed, TypeOK
<1>2. /\ \A q \in Procs : q # p => pc'[q] = pc[q] /\ loc'[q] = loc[q]
      /\ pc'[p] = "serve" /\ loc'[p].t0 = loc[p].t0
  BY <1>1, SetId DEF CacheHit, Goto, Typed, TypeOK
<1> QED BY <1>2, OneMoves, SameRows, SameEntries, QuietFresh
        DEF CacheHit, Filling, tables, hist

LEMMA GetSessionFresh ==
    ASSUME Typed, Typed', Fresh, NEW p \in Procs, GetSession(p)
    PROVE  Fresh'
<1> USE AbsentAssumption, TimesAssumption
<1>1. UNCHANGED <<now, sessions, cache, changes, goneAt>>
  BY DEF GetSession, tables, memory, hist
<1>2. CASE Finish(p)
  BY <1>1, <1>2, FinishQuiet, SameRows, SameEntries, QuietFresh
<1>3. CASE /\ sessions[loc[p].sid] # Absent
           /\ loc' = [loc EXCEPT ![p].row = sessions[loc[p].sid]]
           /\ Goto(p, "check")
  <2>1. sessions[loc[p].sid] \in Session
    BY <1>3 DEF GetSession, Typed, TypeOK, LocalsOK
  <2>2. /\ \A q \in Procs : q # p => pc'[q] = pc[q] /\ loc'[q] = loc[q]
        /\ pc'[p] = "check" /\ loc'[p].t0 = loc[p].t0 /\ loc'[p].sid = loc[p].sid
    BY SMTT(20), <1>3, <2>1, SetRow DEF Goto, Typed, TypeOK
  <2>3. Clock' /\ FillKnowsUser' /\ StaleEntryBounded' /\ Gone' /\ RevokedEntryBounded'
    BY <1>1, <2>2 DEF Fresh, Clock, FillKnowsUser, StaleEntryBounded, Gone,
                      RevokedEntryBounded, Ver
  <2>4. FillKnowsSession'
    BY <1>1, <1>3, <2>2 DEF Fresh, FillKnowsSession
  <2> QED BY <2>3, <2>4 DEF Fresh
<1> QED BY <1>2, <1>3 DEF GetSession

LEMMA ResolveCheckFresh ==
    ASSUME Typed, Typed', Fresh, NEW p \in Procs, ResolveCheck(p)
    PROVE  Fresh'
<1> USE AbsentAssumption, TimesAssumption
<1>1. UNCHANGED <<now, sessions, cache, changes, goneAt>>
  BY DEF ResolveCheck, tables, hist
<1>2. CASE Revoke(p)
  BY <1>1, <1>2, RevokeQuiet, SameRows, SameEntries, QuietFresh
<1>3. CASE Goto(p, "identity")
  <2>1. /\ \A q \in Procs : q # p => pc'[q] = pc[q] /\ loc'[q] = loc[q]
        /\ pc'[p] = "identity" /\ pc[p] = "check"
        /\ loc'[p].t0 = loc[p].t0 /\ loc'[p].sid = loc[p].sid
    BY SMTT(20), <1>3 DEF ResolveCheck, Revoke, Run, Goto, Typed, TypeOK, Local
  <2>2. Clock' /\ FillKnowsUser' /\ StaleEntryBounded' /\ Gone' /\ RevokedEntryBounded'
    BY <1>1, <2>1 DEF Fresh, Clock, FillKnowsUser, StaleEntryBounded, Gone,
                      RevokedEntryBounded, Ver
  <2>3. FillKnowsSession'
    BY <1>1, <2>1 DEF Fresh, FillKnowsSession, Filling
  <2> QED BY <2>2, <2>3 DEF Fresh
<1> QED BY <1>2, <1>3 DEF ResolveCheck

LEMMA ResolveIdentityFresh ==
    ASSUME Typed, Typed', Fresh, NEW p \in Procs, ResolveIdentity(p)
    PROVE  Fresh'
<1> USE AbsentAssumption, TimesAssumption
<1>1. UNCHANGED <<now, sessions, cache, changes, goneAt>>
  BY DEF ResolveIdentity, tables, memory, hist
<1>2. CASE Revoke(p)
  BY <1>1, <1>2, RevokeQuiet, SameRows, SameEntries, QuietFresh
<1>3. CASE Goto(p, "put")
  <2> DEFINE r == loc[p].row
             u == users[r.user]
             i == [user |-> r.user, role |-> u.role, must |-> r.must, ver |-> Ver(r.user)]
  <2>1. loc' = [loc EXCEPT ![p].id = i] /\ pc[p] = "identity" /\ pc'[p] = "put"
    BY <1>3 DEF ResolveIdentity, Revoke, Run, Goto, Typed, TypeOK
  <2>2. i.ver = Ver(i.user)
    OBVIOUS
  <2> HIDE DEF i
  <2>3. /\ \A q \in Procs : q # p => pc'[q] = pc[q] /\ loc'[q] = loc[q]
        /\ loc'[p].t0 = loc[p].t0 /\ loc'[p].sid = loc[p].sid /\ loc'[p].id = i
    BY <1>3, <2>1 DEF Goto, Typed, TypeOK, Local
  <2>4. Clock' /\ StaleEntryBounded' /\ Gone' /\ RevokedEntryBounded'
    BY <1>1, <2>1, <2>3 DEF Fresh, Clock, StaleEntryBounded, Gone, RevokedEntryBounded, Ver
  <2>5. FillKnowsSession'
    BY <1>1, <2>1, <2>3 DEF Fresh, FillKnowsSession, Filling
  <2>6. FillKnowsUser'
    <3>1. ASSUME NEW q \in Procs, pc'[q] = "put", q # p
          PROVE  loc'[q].id.ver < Len(changes'[loc'[q].id.user]) =>
                   changes'[loc'[q].id.user][loc'[q].id.ver + 1] >= loc'[q].t0
      BY <1>1, <2>3, <3>1 DEF Fresh, FillKnowsUser, Ver
    <3>3. ~(loc'[p].id.ver < Len(changes'[loc'[p].id.user]))
      <4>1. loc'[p].id \in Identity
        BY <2>1 DEF Typed, LocalsOK
      <4>2. loc'[p].id.ver \in Nat
        BY <4>1 DEF Identity
      <4> QED BY <1>1, <2>2, <2>3, <4>2 DEF Ver
    <3> QED BY <3>1, <3>3 DEF FillKnowsUser, Ver
  <2> QED BY <2>4, <2>5, <2>6 DEF Fresh
<1> QED BY <1>2, <1>3 DEF ResolveIdentity

LEMMA CachePutFresh == ASSUME Typed, Typed', Fresh, NEW p \in Procs, CachePut(p) PROVE Fresh'
<1> USE AbsentAssumption, TimesAssumption
<1>0. PICK s \in Sids : s = loc[p].sid
  BY DEF CachePut, Typed, LocalsOK
<1>1. /\ UNCHANGED <<now, sessions, changes, goneAt>>
      /\ pc[p] = "put" /\ pc' = [pc EXCEPT ![p] = "serve"]
  BY SMTT(20) DEF CachePut, Goto, tables, hist
<1>8. /\ \A q \in Procs : q # p => loc'[q] = loc[q] /\ pc'[q] = pc[q]
      /\ loc'[p].t0 = 0 /\ pc'[p] = "serve"
  <2>1. /\ [loc[p] EXCEPT !.t0 = 0, !.row = Absent] \in Local
        /\ [loc[p] EXCEPT !.t0 = 0, !.row = Absent].t0 = 0
    BY PutLocals
  <2>2. (\A q \in Procs : q # p => loc'[q] = loc[q]) /\ loc'[p].t0 = 0
    BY Zenon, <2>1, SetLocals DEF CachePut
  <2> QED BY <1>1, <2>2 DEF Typed, TypeOK
<1>2. \A t \in Sids : t # s => cache'[t] = cache[t]
  BY ZenonT(30), <1>0 DEF CachePut, Typed, TypeOK
<1>3. cache'[s].id = loc[p].id /\ cache'[s].cacheExpires = loc[p].t0 + TTL
  BY Zenon, <1>0 DEF CachePut, Typed, TypeOK
<1>4. Clock'
  BY SMTT(20), StampPast, <1>1, <1>2, <1>3, <1>8 DEF Fresh, Clock
<1>5. FillKnowsUser' /\ FillKnowsSession' /\ Gone'
  BY ZenonT(30), <1>1, <1>8
     DEF Fresh, FillKnowsUser, FillKnowsSession, Gone, Filling, Ver
<1>6. StaleEntryBounded'
  <2>1. loc[p].id.ver < Ver(loc[p].id.user) =>
          changes[loc[p].id.user][loc[p].id.ver + 1] >= loc[p].t0
    BY <1>1 DEF Fresh, FillKnowsUser
  <2>2. loc[p].id \in Identity
    BY <1>1 DEF Typed, LocalsOK
  <2>3. loc[p].id.user \in Users /\ loc[p].id.ver \in Nat
    BY <2>2 DEF Identity
  <2>4. loc[p].id.ver < Ver(loc[p].id.user) =>
          changes[loc[p].id.user][loc[p].id.ver + 1] \in Nat
    <3> SUFFICES ASSUME loc[p].id.ver < Ver(loc[p].id.user)
                 PROVE  changes[loc[p].id.user][loc[p].id.ver + 1] \in Nat
      OBVIOUS
    <3>1. changes[loc[p].id.user] \in Seq(Nat)
      BY <2>3 DEF Typed, TypeOK
    <3>2. loc[p].id.ver + 1 \in 1 .. Len(changes[loc[p].id.user])
      BY SMTT(20), <2>3, <3>1 DEF Ver
    <3> QED BY <3>1, <3>2, ElementType
  <2>5. loc[p].id.ver < Ver(loc[p].id.user) =>
          changes[loc[p].id.user][loc[p].id.ver + 1] + TTL >= loc[p].t0 + TTL
    BY StampPast, <2>1, <2>4
  <2> QED BY ZenonT(30), <1>1, <1>2, <1>3, <2>5 DEF Fresh, StaleEntryBounded, Ver
<1>7. RevokedEntryBounded'
  <2>1. sessions[s] = Absent => goneAt[s] # Absent /\ goneAt[s] >= loc[p].t0
    BY <1>0, <1>1 DEF Fresh, FillKnowsSession, Filling
  <2>2. goneAt[s] \in Nat \cup {Absent}
    BY SMTT(20) DEF Typed, TypeOK
  <2> QED BY StampPast, <1>1, <1>2, <1>3, <2>1, <2>2 DEF Fresh, RevokedEntryBounded
<1> QED BY SMTT(20), <1>4, <1>5, <1>6, <1>7 DEF Fresh

LEMMA LogoutFresh == ASSUME Typed, Typed', Fresh, NEW p \in Procs, Logout(p) PROVE Fresh'
BY AbsentAssumption, TimesAssumption, RevokeQuiet, SameRows, SameEntries, QuietFresh
   DEF Logout, tables, memory, hist

LEMMA ChangeOwnPasswordFresh ==
    ASSUME Typed, Typed', Fresh, NEW p \in Procs, ChangeOwnPassword(p)
    PROVE  Fresh'
<1> USE AbsentAssumption, TimesAssumption
<1>1. /\ loc[p].id.user \in Users
      /\ loc[p].sid \in Sids \cup {Absent}
  BY DEF ChangeOwnPassword, Typed, TypeOK, Local, LocalsOK, Identity
<1>2. (\A q \in Procs : q # p => loc'[q] = loc[q]) /\ loc'[p].t0 = 0
  <2>1. PICK s \in Sids \cup {Absent}, u \in Users : s = loc[p].sid /\ u = loc[p].id.user
    BY <1>1
  <2>2. loc' = [loc EXCEPT ![p] = [NoLocals EXCEPT !.sid = s, !.user = u]]
    BY Zenon, <2>1 DEF ChangeOwnPassword
  <2>3. /\ [NoLocals EXCEPT !.sid = s, !.user = u] \in Local
        /\ [NoLocals EXCEPT !.sid = s, !.user = u].t0 = 0
    BY Zenon, HandlerLocals
  <2> QED BY Zenon, <2>2, <2>3, SetLocals
<1> QED BY <1>2, RunQuiet, SameRows, SameEntries, QuietFresh
        DEF ChangeOwnPassword, tables, memory, hist

LEMMA RequestFresh == ASSUME Typed, Typed', Fresh, NEW p \in Procs, Request(p) PROVE Fresh'
BY LoginLocalFresh, IssueFresh, IssueFailsFresh, AttachStartFresh, CacheGetFresh,
   CacheHitFresh, GetSessionFresh, ResolveCheckFresh, ResolveIdentityFresh,
   CachePutFresh, LogoutFresh, ChangeOwnPasswordFresh
   DEF Request

LEMMA AdminFresh == ASSUME Typed, Typed', Fresh, NEW p \in Procs, Admin(p) PROVE Fresh'
<1>0. PICK u \in Users : \E ops : AdminHandler(p, u, ops)
  BY DEF Admin, PatchUser, ResetPassword, RemoveUser
<1>1. PICK ops : AdminHandler(p, u, ops)
  BY <1>0
<1>2. [NoLocals EXCEPT !.user = u].t0 = 0
  BY DEF NoLocals
<1>3. (\A q \in Procs : q # p => loc'[q] = loc[q]) /\ loc'[p].t0 = 0
  BY <1>1, <1>2 DEF AdminHandler, Typed, TypeOK
<1> QED BY <1>1, <1>3, RunQuiet, SameRows, SameEntries, QuietFresh
        DEF AdminHandler, tables, memory, hist

LEMMA UserNotFoundFresh ==
    ASSUME Typed, Typed', Fresh, NEW p \in Procs, UserNotFound(p)
    PROVE  Fresh'
BY AbsentAssumption, FinishQuiet, SameRows, SameEntries, QuietFresh
   DEF UserNotFound, tables, memory, hist

LEMMA UpdateUserFresh ==
    ASSUME Typed, Typed', Fresh, NEW p \in Procs, UpdateUser(p)
    PROVE  Fresh'
BY AbsentAssumption, UserCall, WriteUserFresh DEF UpdateUser, RevokeCalls, Calls

LEMMA DeleteUserFresh ==
    ASSUME Typed, Typed', Fresh, NEW p \in Procs, DeleteUser(p)
    PROVE  Fresh'
BY AbsentAssumption, UserCall, WriteUserFresh DEF DeleteUser, RevokeCalls, Calls

LEMMA SetPasswordHashFresh ==
    ASSUME Typed, Typed', Fresh, NEW p \in Procs, SetPasswordHash(p)
    PROVE  Fresh'
<1> USE AbsentAssumption
<1>1. /\ \A q \in Procs : q # p => pc'[q] = pc[q] /\ loc'[q] = loc[q]
      /\ pc'[p] = "ops" /\ loc'[p].t0 = loc[p].t0
  BY DEF SetPasswordHash, Calls, Typed, TypeOK, Local
<1>2. NobodyFills
  BY <1>1, OneMoves DEF Filling
<1> QED BY <1>2, SameRows, SameEntries, QuietFresh DEF SetPasswordHash, memory, hist

LEMMA DeleteSessionFresh ==
    ASSUME Typed, Typed', Fresh, NEW p \in Procs,
           DeleteSession(p) \/ DeleteUserSessions(p) \/ DeleteOtherSessions(p)
    PROVE  Fresh'
<1> USE AbsentAssumption DEF DeleteSession, DeleteUserSessions, DeleteOtherSessions
<1>1. RowsGo
  BY DropRows
<1> QED BY <1>1, AdvanceQuiet, SameEntries, QuietFresh DEF memory

LEMMA ClearSessionFlagsFresh ==
    ASSUME Typed, Typed', Fresh, NEW p \in Procs, ClearSessionFlags(p)
    PROVE  Fresh'
<1> USE AbsentAssumption
<1>1. \A r \in Session : [r EXCEPT !.must = FALSE] # Absent
  BY Zenon DEF Session
<1>2. RowsGo
  BY <1>1 DEF ClearSessionFlags, RowsGo, Typed, TypeOK, hist
<1> QED BY <1>2, AdvanceQuiet, SameEntries, QuietFresh DEF ClearSessionFlags, memory, hist

LEMMA InvalidateFresh ==
    ASSUME Typed, Typed', Fresh, NEW p \in Procs, Invalidate(p) \/ InvalidateUser(p)
    PROVE  Fresh'
<1> USE AbsentAssumption
<1>1. EntriesLeave
  BY EvictEntries DEF Invalidate, InvalidateUser
<1> QED BY <1>1, AdvanceQuiet, SameRows, QuietFresh
        DEF Invalidate, InvalidateUser, tables, hist

LEMMA StoreErrorFresh ==
    ASSUME Typed, Typed', Fresh, NEW p \in Procs, StoreError(p)
    PROVE  Fresh'
BY AbsentAssumption, AdvanceQuiet, FinishQuiet, SameRows, SameEntries, QuietFresh
   DEF StoreError, tables, memory, hist

LEMMA CallFresh == ASSUME Typed, Typed', Fresh, NEW p \in Procs, Call(p) PROVE Fresh'
BY UserNotFoundFresh, UpdateUserFresh, DeleteUserFresh, SetPasswordHashFresh,
   DeleteSessionFresh, ClearSessionFlagsFresh, InvalidateFresh,
   StoreErrorFresh
   DEF Call

LEMMA NobodyMoves == ASSUME UNCHANGED locals PROVE NobodyFills
BY SMTT(20) DEF locals, NobodyFills

LEMMA TickFresh == ASSUME Typed, Typed', Fresh, Tick PROVE Fresh'
<1> USE AbsentAssumption, TimesAssumption
<1>1. now' = now + 1 /\ UNCHANGED <<sessions, cache, changes, goneAt, pc, loc>>
  BY DEF Tick, tables, memory, locals, hist
<1>2. now \in Nat /\ \A p \in Procs : loc[p].t0 \in Nat
  BY DEF Typed, TypeOK, Local
<1>3. \A s \in Sids : cache[s] # Absent => cache[s].cacheExpires \in Nat
  BY Zenon DEF Typed, TypeOK, CacheEntry
<1>4. Clock'
  BY <1>1, <1>2, <1>3 DEF Fresh, Clock
<1> QED BY <1>1, <1>4 DEF Fresh, FillKnowsUser, FillKnowsSession, Gone, StaleEntryBounded,
                          RevokedEntryBounded, Ver

LEMMA FlushSwapFresh == ASSUME Typed, Typed', Fresh, FlushSwap PROVE Fresh'
BY AbsentAssumption, TimesAssumption, NobodyMoves, SameRows, SameEntries, QuietFresh
   DEF FlushSwap, tables, hist

LEMMA TouchSessionFresh ==
    ASSUME Typed, Typed', Fresh, NEW s \in Sids, TouchSession(s)
    PROVE  Fresh'
<1> USE AbsentAssumption, TimesAssumption
<1>1. \A t \in Sids : sessions'[t] = Absent <=> sessions[t] = Absent
  <2>1. \A t \in Sids : t # s => sessions'[t] = sessions[t]
    BY DEF TouchSession, Typed, TypeOK
  <2>2. sessions[s] = Absent => sessions'[s] = Absent
    BY DEF TouchSession
  <2>3. ASSUME sessions[s] # Absent PROVE sessions'[s] # Absent
    <3>1. CASE UNCHANGED sessions
      BY <2>3, <3>1
    <3>2. CASE sessions' = [sessions EXCEPT ![s].lastSeen = batch[s].at,
                                            ![s].expires = batch[s].expires]
      <4>1. sessions[s] \in Session /\ batch[s] \in Touch
        BY <2>3 DEF TouchSession, Typed, TypeOK
      <4>2. batch[s].at \in Nat /\ batch[s].expires \in Nat
        BY <4>1 DEF Touch
      <4>3. sessions'[s] =
              [sessions[s] EXCEPT !.lastSeen = batch[s].at, !.expires = batch[s].expires]
        BY <3>2 DEF Typed, TypeOK
      <4>4. [sessions[s] EXCEPT !.lastSeen = batch[s].at, !.expires = batch[s].expires] \in Session
        BY Zenon, <4>1, <4>2, SessionUpdate
      <4> QED BY <4>3, <4>4
    <3> QED BY <2>3, <3>1, <3>2 DEF TouchSession
  <2> QED BY <2>1, <2>2, <2>3
<1>2. RowsGo
  BY <1>1 DEF TouchSession, RowsGo, hist
<1> QED BY <1>2, NobodyMoves, SameEntries, QuietFresh DEF TouchSession, hist

LEMMA PurgeExpiredSessionsFresh ==
    ASSUME Typed, Typed', Fresh, PurgeExpiredSessions
    PROVE  Fresh'
<1> USE AbsentAssumption, TimesAssumption
<1>1. RowsGo
  BY DropRows DEF PurgeExpiredSessions
<1> QED BY <1>1, NobodyMoves, SameEntries, QuietFresh DEF PurgeExpiredSessions, memory

LEMMA ReapFresh == ASSUME Typed, Typed', Fresh, Reap PROVE Fresh'
<1> USE AbsentAssumption, TimesAssumption
<1>1. EntriesLeave
  BY EvictEntries DEF Reap
<1> QED BY <1>1, NobodyMoves, SameRows, QuietFresh DEF Reap, tables, hist

LEMMA RestartFresh == ASSUME Typed, Typed', Fresh, Restart PROVE Fresh'
<1> USE AbsentAssumption, TimesAssumption
<1>1. NobodyFills
  BY NoLocalsType DEF Restart, NobodyFills, Filling, Typed, TypeOK
<1>2. EntriesLeave
  BY DEF Restart, EntriesLeave
<1> QED BY SMTT(20), <1>1, <1>2, SameRows, QuietFresh DEF Restart, tables, hist

LEMMA BackgroundFresh == ASSUME Typed, Typed', Fresh, Background PROVE Fresh'
BY TickFresh, FlushSwapFresh, TouchSessionFresh, PurgeExpiredSessionsFresh, ReapFresh,
   RestartFresh
   DEF Background

LEMMA StepFresh == ASSUME Typed, Fresh, [Next]_vars PROVE Fresh'
<1>1. Typed'
  BY StepTyped
<1>2. CASE UNCHANGED vars
  <2>1. now' = now /\ changes' = changes /\ UNCHANGED <<sessions, goneAt, cache, locals>>
    BY <1>2 DEF vars, tables, memory, locals, reads, hist
  <2> QED BY <1>1, <2>1, NobodyMoves, SameRows, SameEntries, QuietFresh
<1> QED BY <1>1, <1>2, RequestFresh, AdminFresh, CallFresh, BackgroundFresh DEF Next

LEMMA Invariance == Spec => [](Typed /\ Fresh)
<1>1. Init => Typed /\ Fresh
  BY InitTyped, InitFresh
<1>2. Typed /\ Fresh /\ [Next]_vars => (Typed /\ Fresh)'
  BY StepTyped, StepFresh
<1> QED BY <1>1, <1>2, PTL DEF Spec

(* A cache entry outlives a change of its user by at most TTL, however     *)
(* long the request that filled it was stalled.                            *)
THEOREM StalenessIsBounded == Spec => []StaleEntryBounded
<1>1. Typed /\ Fresh => StaleEntryBounded
  BY DEF Fresh
<1> QED BY Invariance, <1>1, PTL

(* A cache entry outlives its session by at most TTL.                      *)
THEOREM RevocationIsBounded == Spec => []RevokedEntryBounded
<1>1. Typed /\ Fresh => RevokedEntryBounded
  BY DEF Fresh
<1> QED BY Invariance, <1>1, PTL

LEMMA DropKeepsGone ==
    ASSUME Typed, NEW S, DropSessions(S), NEW s \in Sids, goneAt[s] # Absent
    PROVE  goneAt'[s] # Absent
BY AbsentAssumption DEF DropSessions, Typed, TypeOK

LEMMA StepGone ==
    ASSUME Typed, [Next]_vars, NEW s \in Sids, goneAt[s] # Absent PROVE goneAt'[s] # Absent
<1>1. CASE UNCHANGED goneAt
  BY <1>1
<1>2. ASSUME NEW p \in Procs, Request(p) \/ Admin(p) PROVE UNCHANGED goneAt
  BY Zenon, <1>2
     DEF Request, Admin, LoginLocal, Issue, AttachStart, IssueFails, CacheGet,
         CacheHit,
              GetSession, ResolveCheck, ResolveIdentity, CachePut, Serve, Logout,
              ChangeOwnPassword, PatchUser, ResetPassword, RemoveUser, AdminHandler, hist
<1>3. ASSUME NEW p \in Procs, Call(p), goneAt' # goneAt PROVE goneAt'[s] # Absent
  <2>1. DeleteSession(p) \/ DeleteUserSessions(p) \/ DeleteOtherSessions(p)
    BY Zenon, <1>3 DEF Call, UserNotFound, UpdateUser, DeleteUser, WriteUser, SetPasswordHash,
                ClearSessionFlags, Invalidate, InvalidateUser, StoreError, hist
  <2> QED BY <2>1, DropKeepsGone DEF DeleteSession, DeleteUserSessions, DeleteOtherSessions
<1>4. ASSUME Background, goneAt' # goneAt PROVE goneAt'[s] # Absent
  BY Zenon, <1>4, DropKeepsGone
     DEF Background, Tick, FlushSwap, TouchSession, PurgeExpiredSessions,
                             Reap, Restart, hist
<1> QED BY <1>1, <1>2, <1>3, <1>4 DEF Next, vars, hist

(* A session that was revoked or purged never comes back.                  *)
THEOREM RevocationIsPermanent == Spec => RevokedStaysRevoked
<1>1. Typed /\ Fresh /\ [Next]_vars =>
        [\A s \in Sids : goneAt[s] # Absent => sessions'[s] = Absent]_vars
  <2> SUFFICES ASSUME Typed, Fresh, [Next]_vars, NEW s \in Sids, goneAt[s] # Absent
               PROVE  sessions'[s] = Absent
    OBVIOUS
  <2>1. Gone'
    BY StepFresh DEF Fresh
  <2> QED BY <2>1, StepGone DEF Gone
<1> QED BY Invariance, <1>1, PTL DEF Spec, RevokedStaysRevoked
=============================================================================
