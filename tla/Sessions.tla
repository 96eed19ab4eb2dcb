------------------------------ MODULE Sessions ------------------------------
(***************************************************************************)
(* Dashboard sessions: the sessions and users tables, the in-memory        *)
(* IdentityCache, the TouchBatcher, and the handlers that read or change   *)
(* them (internal/auth, internal/store/sqlstore, internal/api).            *)
(*                                                                         *)
(* A process of Procs is a goroutine of the HTTP server; it runs one       *)
(* request at a time.  One step is one call on shared state: a SQL         *)
(* statement, one call on the cache, one Enqueue.  A handler that has      *)
(* decided to change something is the sequence of the calls it still has   *)
(* to make, todo[p].  The administrator's own session is outside the       *)
(* model: an admin handler may start at any time.  So is the OIDC          *)
(* callback, which writes the role of an existing row at each sign-in and  *)
(* does not call InvalidateUser.                                           *)
(***************************************************************************)
EXTENDS Integers, FiniteSets, Sequences

CONSTANTS
    Users,        \* user ids
    Sids,         \* session ids RandomToken can return
    Procs,        \* request goroutines
    Roles,        \* values of users.role
    Lifetime,     \* SessionManager.Lifetime
    IdleTimeout,  \* SessionManager.IdleTimeout
    TTL,          \* IdentityCache.ttl
    MaxTime,      \* bound: the clock stops here
    MaxChanges,   \* bound: number of user-changing handlers started
    Absent        \* no row, no cache entry, no pending touch, never

ASSUME TimesAssumption ==
    /\ Lifetime \in Nat /\ IdleTimeout \in Nat /\ TTL \in Nat
    /\ MaxTime \in Nat /\ MaxChanges \in Nat

VARIABLES
    now,        \* time.Now(), shared by every goroutine
    users,      \* table users: [role, enabled, must] or Absent
    sessions,   \* table sessions: [user, must, lastSeen, expires] or Absent
    cache,      \* IdentityCache.entries
    pending,    \* TouchBatcher.pending
    batch,      \* the map TouchBatcher.flush swapped out and is writing
    pc,         \* where each goroutine is
    loc,        \* its local variables
    todo,       \* the calls its handler still has to make
    seen,       \* identities an unlocked read of a cache entry may return
    held,       \* the entry it reads from is still the one in the map
    started,    \* number of changes of users started (for MaxChanges)
    changes,    \* history: times at which role, enabled or existence changed
    goneAt,     \* history: when the session row was deleted
    settled     \* history: newest change whose handler has returned

locals  == <<pc, loc, todo>>
reads   == <<seen, held>>
tables  == <<users, sessions>>
memory  == <<cache, pending, batch>>
hist    == <<changes, goneAt, settled>>
vars    == <<now, tables, memory, locals, reads, started, hist>>

IdleHalf == IdleTimeout \div 2

(* The number of changes made so far to what ResolveIdentity reads of u.   *)
Ver(u) == Len(changes[u])

(* What Attach puts in the request context.  ver is the version of the     *)
(* users row that role was read from; it is not in the code.               *)
Identity   == [user : Users, role : Roles \cup {"garbled"}, must : BOOLEAN, ver : Nat]
UserRow    == [role : Roles, enabled : BOOLEAN, must : BOOLEAN]
Session    == [user : Users, must : BOOLEAN, lastSeen : Nat, expires : Nat]
CacheEntry == [id : Identity, cacheExpires : Nat, sessionExpiry : Nat, lastSeen : Nat]
Touch      == [at : Nat, expires : Nat]

ASSUME AbsentAssumption == Absent \notin Nat /\ Absent \notin Session

(* The local variables of a request: the time Attach read first, the       *)
(* cookie, the session row, the identity, the user a handler is about and, *)
(* as history, the change it has written and those settled when Attach     *)
(* began.                                                                  *)
Local == [t0 : Nat, sid : Sids \cup {Absent}, row : Session \cup {Absent},
          id : Identity \cup {Absent}, user : Users \cup {Absent}, wrote : Nat,
          floor : [Users -> Nat]]
NoLocals == [t0 |-> 0, sid |-> Absent, row |-> Absent, id |-> Absent,
             user |-> Absent, wrote |-> 0, floor |-> [u \in Users |-> 0]]

-----------------------------------------------------------------------------
(* The calls that a handler makes on the store and the cache once it has   *)
(* passed its checks, in the order of the source.  An administrator who    *)
(* resets their own password keeps their session and makes the calls of    *)
(* ChangeOwnOps instead of ResetOps, so ChangeOwnPassword stands for it.   *)

RevokeOps     == <<"DeleteSession", "Invalidate">>
PatchUserOps  == <<"UpdateUser", "InvalidateUser">>
ResetOps      == <<"SetPasswordHashMust", "DeleteUserSessions", "InvalidateUser">>
DeleteUserOps == <<"DeleteUser", "DropUserSessions", "InvalidateUser">>
ChangeOwnOps  == <<"SetPasswordHash", "DeleteOtherSessions", "ClearSessionFlags", "InvalidateUser">>

CacheOps == {"Invalidate", "InvalidateUser"}
(* Store calls whose error the handler ignores; an error of any other      *)
(* store call makes the handler return early.  DropUserSessions is         *)
(* DeleteUserSessions as handleDeleteUser calls it.                        *)
Ignored  == {"DeleteSession", "DropUserSessions", "ClearSessionFlags"}
StoreOps == Ignored \cup {"UpdateUser", "SetPasswordHashMust", "SetPasswordHash",
                          "DeleteUser", "DeleteUserSessions", "DeleteOtherSessions"}

Goto(p, l) == pc' = [pc EXCEPT ![p] = l]

(* The request is over.                                                    *)
Finish(p) ==
    /\ Goto(p, "idle")
    /\ loc' = [loc EXCEPT ![p] = NoLocals]
    /\ todo' = [todo EXCEPT ![p] = <<>>]

(* p goes on with the calls ops.                                           *)
Run(p, ops) ==
    /\ Goto(p, "ops")
    /\ todo' = [todo EXCEPT ![p] = ops]

(* SessionManager.Revoke, of the session whose cookie p has.               *)
Revoke(p) ==
    /\ Run(p, RevokeOps)
    /\ loc' = [loc EXCEPT ![p] = [NoLocals EXCEPT !.sid = loc[p].sid]]

(* The call at the head of todo[p] is done.                                *)
Advance(p) ==
    IF Len(todo[p]) > 1
    THEN todo' = [todo EXCEPT ![p] = Tail(@)] /\ UNCHANGED <<pc, loc>>
    ELSE Finish(p)

Calls(p, op) == pc[p] = "ops" /\ todo[p] # <<>> /\ Head(todo[p]) = op

-----------------------------------------------------------------------------
Init ==
    /\ now = 0
    /\ \E r \in Roles : users = [u \in Users |-> [role |-> r, enabled |-> TRUE, must |-> TRUE]]
    /\ sessions = [s \in Sids |-> Absent]
    /\ cache = [s \in Sids |-> Absent]
    /\ pending = [s \in Sids |-> Absent]
    /\ batch = [s \in Sids |-> Absent]
    /\ pc = [p \in Procs |-> "idle"]
    /\ loc = [p \in Procs |-> NoLocals]
    /\ todo = [p \in Procs |-> <<>>]
    /\ seen = [p \in Procs |-> {}]
    /\ held = [p \in Procs |-> FALSE]
    /\ started = 0
    /\ changes = [u \in Users |-> <<>>]
    /\ goneAt = [s \in Sids |-> Absent]
    /\ settled = [u \in Users |-> 0]

Tick ==
    /\ now < MaxTime
    /\ now' = now + 1
    /\ UNCHANGED <<tables, memory, locals, reads, started, hist>>

-----------------------------------------------------------------------------
(* LoginLocal followed by Issue.  The password is checked against the row  *)
(* that was read; the session is inserted later, with the flags of that    *)
(* row.                                                                    *)

LoginLocal(p, u) ==
    /\ pc[p] = "idle"
    /\ users[u] # Absent /\ users[u].enabled
    /\ loc' = [loc EXCEPT ![p] =
         [NoLocals EXCEPT !.user = u,
            !.row = [user |-> u, must |-> users[u].must, lastSeen |-> 0, expires |-> 0]]]
    /\ Goto(p, "issue")
    /\ UNCHANGED <<now, tables, memory, todo, reads, started, hist>>

(* The id is a fresh random token.                                         *)
Issue(p, s) ==
    /\ pc[p] = "issue"
    /\ sessions[s] = Absent /\ goneAt[s] = Absent
    /\ sessions' = [sessions EXCEPT ![s] =
         [loc[p].row EXCEPT !.lastSeen = now, !.expires = now + Lifetime]]
    /\ Finish(p)
    /\ UNCHANGED <<now, users, memory, reads, started, hist>>

IssueFails(p) ==
    /\ pc[p] = "issue"
    /\ Finish(p)
    /\ UNCHANGED <<now, tables, memory, reads, started, hist>>

-----------------------------------------------------------------------------
(* Attach.  The clock is read first; every later step uses that reading.   *)

AttachStart(p, s) ==
    /\ pc[p] = "idle"
    /\ sessions[s] # Absent \/ goneAt[s] # Absent
    /\ loc' = [loc EXCEPT ![p] = [NoLocals EXCEPT !.t0 = now, !.sid = s, !.floor = settled]]
    /\ Goto(p, "get")
    /\ UNCHANGED <<now, tables, memory, todo, reads, started, hist>>

Due(t, lastSeen) == t - lastSeen > IdleHalf

(* IdentityCache.Get up to the copy of e.id: look the entry up, compare    *)
(* its expiries, bump lastSeen when a touch is due.                        *)
CacheGet(p) ==
    LET s == loc[p].sid
        t == loc[p].t0
        e == cache[s]
        fresh == e # Absent /\ ~(t > e.cacheExpires) /\ ~(t > e.sessionExpiry)
        touch == IdleHalf > 0 /\ Due(t, e.lastSeen)
    IN  /\ pc[p] = "get"
        /\ \/ /\ fresh
              /\ cache' = IF touch THEN [cache EXCEPT ![s].lastSeen = t] ELSE cache
              /\ Goto(p, IF touch THEN "hitTouch" ELSE "hit")
              /\ seen' = [seen EXCEPT ![p] = {e.id}]
              /\ held' = [held EXCEPT ![p] = TRUE]
           \/ /\ ~fresh
              /\ Goto(p, "resolve")
              /\ UNCHANGED <<cache, reads>>
        /\ UNCHANGED <<now, tables, pending, batch, loc, todo, started, hist>>

(* Get returns e.id after releasing the lock, while Put writes e.id in     *)
(* place: the copy can mix the fields of the identities it overlaps, and a *)
(* string read half-written equals no role.                                *)
Torn(ids) ==
    {[i EXCEPT !.must = j.must] : i, j \in ids}
      \cup {[i EXCEPT !.role = "garbled"] : i \in {k \in ids : \E j \in ids : j.role # k.role}}

(* The end of Get, and the touch that Attach enqueues after a hit.         *)
CacheHit(p) ==
    /\ pc[p] \in {"hit", "hitTouch"}
    /\ \E i \in Torn(seen[p]) : loc' = [loc EXCEPT ![p].id = i]
    /\ pending' = IF pc[p] = "hitTouch"
                  THEN [pending EXCEPT ![loc[p].sid] =
                          [at |-> loc[p].t0, expires |-> loc[p].t0 + Lifetime]]
                  ELSE pending
    /\ Goto(p, "serve")
    /\ seen' = [seen EXCEPT ![p] = {}]
    /\ held' = [held EXCEPT ![p] = FALSE]
    /\ UNCHANGED <<now, tables, cache, batch, todo, started, hist>>

(* Resolve: GetSession.  No row, or an error, serves the request without   *)
(* an identity.                                                            *)
GetSession(p) ==
    /\ pc[p] = "resolve"
    /\ \/ /\ sessions[loc[p].sid] # Absent
          /\ loc' = [loc EXCEPT ![p].row = sessions[loc[p].sid]]
          /\ Goto(p, "check")
          /\ UNCHANGED todo
       \/ Finish(p)
    /\ UNCHANGED <<now, tables, memory, reads, started, hist>>

(* Resolve: an expired session is deleted and evicted, one not seen for    *)
(* half the idle timeout is touched and extended.                          *)
ResolveCheck(p) ==
    LET s == loc[p].sid
        r == loc[p].row
        exp == now + Lifetime
    IN  /\ pc[p] = "check"
        /\ \/ /\ now > r.expires
              /\ Revoke(p)
              /\ UNCHANGED pending
           \/ /\ ~(now > r.expires)
              /\ Due(now, r.lastSeen)
              /\ pending' = [pending EXCEPT ![s] = [at |-> now, expires |-> exp]]
              /\ loc' = [loc EXCEPT ![p].row = [r EXCEPT !.lastSeen = now, !.expires = exp]]
              /\ Goto(p, "identity")
              /\ UNCHANGED todo
           \/ /\ ~(now > r.expires)
              /\ ~Due(now, r.lastSeen)
              /\ Goto(p, "identity")
              /\ UNCHANGED <<loc, pending, todo>>
        /\ UNCHANGED <<now, tables, cache, batch, reads, started, hist>>

(* ResolveIdentity; on any error Attach revokes the session.  The error    *)
(* may be one of the store and not of the user.  The sessions of the       *)
(* static administrator, whose identity is configured and read from no     *)
(* row, are left out: nothing changes it while the process runs.           *)
ResolveIdentity(p) ==
    LET r == loc[p].row
        u == users[r.user]
    IN  /\ pc[p] = "identity"
        /\ \/ /\ u # Absent /\ u.enabled
              /\ loc' = [loc EXCEPT ![p].id =
                   [user |-> r.user, role |-> u.role, must |-> r.must, ver |-> Ver(r.user)]]
              /\ Goto(p, "put")
              /\ UNCHANGED todo
           \/ Revoke(p)
        /\ UNCHANGED <<now, tables, memory, reads, started, hist>>

(* Mutant: the entry's TTL is counted from the Put instead of from the     *)
(* time Attach read first.                                                 *)
CachePutLate(p) ==
    LET s == loc[p].sid
    IN  /\ pc[p] = "put"
        /\ cache' = [cache EXCEPT ![s] =
             [id |-> loc[p].id, cacheExpires |-> now + TTL,
              sessionExpiry |-> loc[p].row.expires, lastSeen |-> loc[p].row.lastSeen]]
        /\ Goto(p, "serve")
        /\ UNCHANGED <<now, tables, pending, batch, loc, todo, reads, started, hist>>

(* IdentityCache.Put.  An entry already in the map is overwritten in place,*)
(* under the eyes of the readers that hold it.                             *)
CachePut(p) ==
    LET s == loc[p].sid
    IN  /\ pc[p] = "put"
        /\ cache' = [cache EXCEPT ![s] =
             [id |-> loc[p].id, cacheExpires |-> loc[p].t0 + TTL,
              sessionExpiry |-> loc[p].row.expires, lastSeen |-> loc[p].row.lastSeen]]
        /\ seen' = [q \in Procs |->
             IF held[q] /\ loc[q].sid = s THEN seen[q] \cup {loc[p].id} ELSE seen[q]]
        /\ Goto(p, "serve")
        /\ loc' = [loc EXCEPT ![p] = [@ EXCEPT !.t0 = 0, !.row = Absent]]
        /\ UNCHANGED <<now, tables, pending, batch, todo, held, started, hist>>

(* The handler behind Attach: one that changes nothing, logout, or a       *)
(* change of the caller's own password that got past its checks.           *)
Serve(p) ==
    /\ pc[p] = "serve"
    /\ Finish(p)
    /\ UNCHANGED <<now, tables, memory, reads, started, hist>>

Logout(p) ==
    /\ pc[p] = "serve"
    /\ Revoke(p)
    /\ UNCHANGED <<now, tables, memory, reads, started, hist>>

(* The bound on changes.                                                   *)
Counted == started < MaxChanges /\ started' = started + 1

ChangeOwnPassword(p) ==
    /\ pc[p] = "serve"
    /\ users[loc[p].id.user] # Absent
    /\ Counted
    /\ loc' = [loc EXCEPT ![p] = [NoLocals EXCEPT !.sid = loc[p].sid, !.user = loc[p].id.user]]
    /\ Run(p, ChangeOwnOps)
    /\ UNCHANGED <<now, tables, memory, reads, hist>>

-----------------------------------------------------------------------------
(* The admin handlers, past the checks on the target.  A removal that      *)
(* fails leaves everything as it was and one that succeeds is the last, so *)
(* removals need no bound.                                                 *)

AdminHandler(p, u, ops) ==
    /\ pc[p] = "idle"
    /\ users[u] # Absent
    /\ loc' = [loc EXCEPT ![p] = [NoLocals EXCEPT !.user = u]]
    /\ Run(p, ops)
    /\ UNCHANGED <<now, tables, memory, reads, hist>>

PatchUser(p, u)     == AdminHandler(p, u, PatchUserOps) /\ Counted
ResetPassword(p, u) == AdminHandler(p, u, ResetOps) /\ Counted
RemoveUser(p, u)    == AdminHandler(p, u, DeleteUserOps) /\ UNCHANGED started

-----------------------------------------------------------------------------
(* The calls themselves.                                                   *)

Row(p) == users[loc[p].user]

(* ErrUserNotFound: the handler returns.                                   *)
UserNotFound(p) ==
    /\ \E op \in {"UpdateUser", "SetPasswordHash", "SetPasswordHashMust", "DeleteUser"} : Calls(p, op)
    /\ Row(p) = Absent
    /\ Finish(p)
    /\ UNCHANGED <<now, tables, memory, reads, started, hist>>

(* The row that ResolveIdentity reads becomes r.                           *)
WriteUser(p, r) ==
    /\ users' = [users EXCEPT ![loc[p].user] = r]
    /\ changes' = [changes EXCEPT ![loc[p].user] = Append(@, now)]
    /\ loc' = [loc EXCEPT ![p].wrote = Ver(loc[p].user) + 1]
    /\ todo' = [todo EXCEPT ![p] = Tail(@)]
    /\ UNCHANGED <<now, sessions, memory, pc, reads, started, goneAt, settled>>

UpdateUser(p) ==
    /\ Calls(p, "UpdateUser")
    /\ Row(p) # Absent
    /\ \E r \in Roles, b \in BOOLEAN :
         /\ <<r, b>> # <<Row(p).role, Row(p).enabled>>
         /\ WriteUser(p, [Row(p) EXCEPT !.role = r, !.enabled = b])

DeleteUser(p) ==
    /\ Calls(p, "DeleteUser")
    /\ Row(p) # Absent
    /\ WriteUser(p, Absent)

SetPasswordHash(p) ==
    /\ \E op \in {"SetPasswordHash", "SetPasswordHashMust"} : Calls(p, op)
    /\ Row(p) # Absent
    /\ users' = [users EXCEPT ![loc[p].user].must = Calls(p, "SetPasswordHashMust")]
    /\ todo' = [todo EXCEPT ![p] = Tail(@)]
    /\ UNCHANGED <<now, sessions, memory, pc, loc, reads, started, hist>>

(* The rows of S are deleted.                                              *)
DropSessions(S) ==
    /\ sessions' = [s \in Sids |-> IF s \in S THEN Absent ELSE sessions[s]]
    /\ goneAt' = [s \in Sids |-> IF s \in S /\ sessions[s] # Absent THEN now ELSE goneAt[s]]

UserSessions(u) == {s \in Sids : sessions[s] # Absent /\ sessions[s].user = u}

DeleteSession(p) ==
    /\ Calls(p, "DeleteSession")
    /\ DropSessions({loc[p].sid})
    /\ Advance(p)
    /\ UNCHANGED <<now, users, memory, reads, started, changes, settled>>

DeleteUserSessions(p) ==
    /\ \E op \in {"DeleteUserSessions", "DropUserSessions"} : Calls(p, op)
    /\ DropSessions(UserSessions(loc[p].user))
    /\ Advance(p)
    /\ UNCHANGED <<now, users, memory, reads, started, changes, settled>>

(* DeleteUserSessions with keepID.                                         *)
DeleteOtherSessions(p) ==
    /\ Calls(p, "DeleteOtherSessions")
    /\ DropSessions(UserSessions(loc[p].user) \ {loc[p].sid})
    /\ Advance(p)
    /\ UNCHANGED <<now, users, memory, reads, started, changes, settled>>

(* Mutant: an upsert where the code has an UPDATE.                         *)
ClearSessionFlagsUpsert(p) ==
    /\ Calls(p, "ClearSessionFlags")
    /\ sessions' = IF sessions[loc[p].sid] = Absent
                   THEN [sessions EXCEPT ![loc[p].sid] = [must |-> FALSE]]
                   ELSE [sessions EXCEPT ![loc[p].sid].must = FALSE]
    /\ Advance(p)
    /\ UNCHANGED <<now, users, memory, reads, started, hist>>

ClearSessionFlags(p) ==
    /\ Calls(p, "ClearSessionFlags")
    /\ sessions' = IF sessions[loc[p].sid] = Absent THEN sessions
                   ELSE [sessions EXCEPT ![loc[p].sid].must = FALSE]
    /\ Advance(p)
    /\ UNCHANGED <<now, users, memory, reads, started, hist>>

(* The entries of S leave the map; who still reads one has the only        *)
(* pointer to it.                                                          *)
Evict(S) ==
    /\ cache' = [s \in Sids |-> IF s \in S THEN Absent ELSE cache[s]]
    /\ held' = [q \in Procs |-> held[q] /\ loc[q].sid \notin S]

Invalidate(p) ==
    /\ Calls(p, "Invalidate")
    /\ Evict({loc[p].sid})
    /\ Advance(p)
    /\ UNCHANGED <<now, tables, pending, batch, seen, started, hist>>

Newest(a, b) == IF a > b THEN a ELSE b

InvalidateUser(p) ==
    LET u == loc[p].user
    IN  /\ Calls(p, "InvalidateUser")
        /\ Evict({s \in Sids : cache[s] # Absent /\ cache[s].id.user = u})
        /\ settled' = [settled EXCEPT ![u] = Newest(@, loc[p].wrote)]
        /\ Advance(p)
        /\ UNCHANGED <<now, tables, pending, batch, seen, started, changes, goneAt>>

(* A store call fails: nothing is written, and the handler returns unless  *)
(* it ignores the error.                                                   *)
StoreError(p) ==
    /\ \E op \in StoreOps :
         Calls(p, op) /\ (IF op \in Ignored THEN Advance(p) ELSE Finish(p))
    /\ UNCHANGED <<now, tables, memory, reads, started, hist>>

-----------------------------------------------------------------------------
(* Background goroutines and the process itself.                           *)

NoTouches == [s \in Sids |-> Absent]

(* TouchBatcher.flush swaps the map under the mutex ...                    *)
FlushSwap ==
    /\ batch = NoTouches
    /\ pending # NoTouches
    /\ batch' = pending
    /\ pending' = NoTouches
    /\ UNCHANGED <<now, tables, cache, locals, reads, started, hist>>

(* Mutant: an upsert where the code has an UPDATE.                         *)
TouchSessionUpsert(s) ==
    /\ batch[s] # Absent
    /\ batch' = [batch EXCEPT ![s] = Absent]
    /\ sessions' = IF sessions[s] = Absent
                   THEN [sessions EXCEPT ![s] = [lastSeen |-> batch[s].at, expires |-> batch[s].expires]]
                   ELSE [sessions EXCEPT ![s].lastSeen = batch[s].at,
                                         ![s].expires = batch[s].expires]
    /\ UNCHANGED <<now, users, cache, pending, locals, reads, started, hist>>

(* ... and then writes it row by row: UPDATE ... WHERE id = ?, ignoring    *)
(* errors.                                                                 *)
TouchSession(s) ==
    /\ batch[s] # Absent
    /\ batch' = [batch EXCEPT ![s] = Absent]
    /\ \/ sessions' = IF sessions[s] = Absent THEN sessions
                      ELSE [sessions EXCEPT ![s].lastSeen = batch[s].at,
                                            ![s].expires = batch[s].expires]
       \/ UNCHANGED sessions
    /\ UNCHANGED <<now, users, cache, pending, locals, reads, started, hist>>

PurgeExpiredSessions ==
    LET S == {s \in Sids : sessions[s] # Absent /\ sessions[s].expires < now}
    IN  /\ S # {}
        /\ DropSessions(S)
        /\ UNCHANGED <<now, users, memory, locals, reads, started, changes, settled>>

Reap ==
    LET S == {s \in Sids : /\ cache[s] # Absent
                           /\ now > cache[s].cacheExpires \/ now > cache[s].sessionExpiry}
    IN  /\ S # {}
        /\ Evict(S)
        /\ UNCHANGED <<now, tables, pending, batch, locals, seen, started, hist>>

(* The process dies and comes back: the tables survive, nothing else.      *)
Restart ==
    /\ cache' = [s \in Sids |-> Absent]
    /\ pending' = NoTouches
    /\ batch' = NoTouches
    /\ pc' = [p \in Procs |-> "idle"]
    /\ loc' = [p \in Procs |-> NoLocals]
    /\ todo' = [p \in Procs |-> <<>>]
    /\ seen' = [p \in Procs |-> {}]
    /\ held' = [p \in Procs |-> FALSE]
    /\ UNCHANGED <<now, tables, started, hist>>

-----------------------------------------------------------------------------
Request(p) ==
    \/ \E u \in Users : LoginLocal(p, u)
    \/ \E s \in Sids : Issue(p, s) \/ AttachStart(p, s)
    \/ IssueFails(p) \/ CacheGet(p) \/ CacheHit(p) \/ GetSession(p) \/ ResolveCheck(p)
    \/ ResolveIdentity(p) \/ CachePut(p) \/ Serve(p) \/ Logout(p) \/ ChangeOwnPassword(p)

Admin(p) == \E u \in Users : PatchUser(p, u) \/ ResetPassword(p, u) \/ RemoveUser(p, u)

Call(p) ==
    \/ UserNotFound(p) \/ UpdateUser(p) \/ DeleteUser(p) \/ SetPasswordHash(p)
    \/ DeleteSession(p) \/ DeleteUserSessions(p) \/ DeleteOtherSessions(p)
    \/ ClearSessionFlags(p) \/ Invalidate(p) \/ InvalidateUser(p) \/ StoreError(p)

Background ==
    Tick \/ FlushSwap \/ (\E s \in Sids : TouchSession(s)) \/ PurgeExpiredSessions \/ Reap \/ Restart

Next == (\E p \in Procs : Request(p) \/ Admin(p) \/ Call(p)) \/ Background

Spec == Init /\ [][Next]_vars

-----------------------------------------------------------------------------
Labels == {"idle", "issue", "get", "hit", "hitTouch", "resolve", "check", "identity",
           "put", "serve", "ops"}

(* Shape of the tables, the cache and the touches.                         *)
TypeOK ==
    /\ now \in Nat
    /\ users \in [Users -> UserRow \cup {Absent}]
    /\ sessions \in [Sids -> Session \cup {Absent}]
    /\ cache \in [Sids -> CacheEntry \cup {Absent}]
    /\ pending \in [Sids -> Touch \cup {Absent}]
    /\ batch \in [Sids -> Touch \cup {Absent}]
    /\ pc \in [Procs -> Labels]
    /\ loc \in [Procs -> Local]
    /\ todo \in [Procs -> Seq(StoreOps \cup CacheOps)]
    /\ held \in [Procs -> BOOLEAN]
    /\ seen \in [Procs -> SUBSET Identity]
    /\ started \in Nat
    /\ changes \in [Users -> Seq(Nat)]
    /\ settled \in [Users -> Nat]
    /\ goneAt \in [Sids -> Nat \cup {Absent}]

(* Bounded staleness (internal/auth/cache.go, the comment on IdentityCache *)
(* and Put's use of the time Attach read first): a cache entry that no     *)
(* longer says what the users row says was overtaken no earlier than TTL   *)
(* before the entry expires, however long the request that filled it was   *)
(* stalled between its reads and its Put.                                  *)
StaleEntryBounded ==
    \A s \in Sids : cache[s] # Absent =>
        LET i == cache[s].id
        IN  i.ver < Ver(i.user) => changes[i.user][i.ver + 1] + TTL >= cache[s].cacheExpires

(* The same for a session row that is gone (Revoke, DeleteUserSessions,    *)
(* PurgeExpiredSessions): its cache entry was filled by a request that     *)
(* started before the deletion, and expires within TTL of it.              *)
RevokedEntryBounded ==
    \A s \in Sids : cache[s] # Absent /\ sessions[s] = Absent =>
        /\ goneAt[s] # Absent
        /\ goneAt[s] + TTL >= cache[s].cacheExpires

(* A session that was revoked or purged never comes back: not by a touch   *)
(* queued before and flushed after (TouchSession is an UPDATE), not by a   *)
(* late Clear of its flags.                                                *)
RevokedStaysRevoked == [][\A s \in Sids : goneAt[s] # Absent => sessions'[s] = Absent]_vars

(* admin_users.go: "Role / enabled / email changes need to take effect     *)
(* immediately on the target's next request, regardless of cache TTL".     *)
ChangeSeenByNextRequest ==
    \A p \in Procs : pc[p] = "serve" =>
        loc[p].id.ver >= loc[p].floor[loc[p].id.user]
=============================================================================
