------------------------------- MODULE Shares -------------------------------
(***************************************************************************)
(* Public share links: the shares table, shares.Service, and the HTTP      *)
(* handlers of internal/api/shares.go.  A client of Clients is one         *)
(* connection (a recipient's, or the one an owner revokes through); its    *)
(* handler takes one step per call on the table.  Objects and their bytes  *)
(* are not modelled: a backend call either works or does not.              *)
(***************************************************************************)
EXTENDS Integers, FiniteSets

CONSTANTS
    Codes,       \* share codes (a code and its share id are one here)
    Clients,     \* connections
    UnlockTTL,   \* unlockTTL
    MaxTime,     \* bound: the clock stops here
    MaxCap,      \* bound: largest max_downloads an owner asks for
    MaxRestarts, \* bound: number of restarts
    MaxStarts,   \* bound: no request opens the object after so many downloads
    Never,       \* expires_at IS NULL
    Absent       \* no row, no cookie

ASSUME SharesAssumption ==
    /\ UnlockTTL \in Nat /\ MaxTime \in Nat /\ MaxCap \in Nat /\ MaxRestarts \in Nat
    /\ MaxStarts \in Nat
    /\ Never \notin Nat

VARIABLES
    now,      \* the clock
    shares,   \* table shares
    epoch,    \* which process runs: each one has its own unlockSigner secret
    cookies,  \* unlock cookies each client has been given
    started,  \* history: downloads whose bytes began to flow, per share
    pc,       \* where each handler is
    loc       \* its local variables

vars == <<now, shares, epoch, cookies, started, pc, loc>>

(* max = 0 stands for max_downloads IS NULL.                               *)
Share  == [protected : BOOLEAN, max : Nat, expires : Nat \cup {Never},
           count : Nat, revoked : BOOLEAN]
Cookie == [code : Codes, epoch : Nat, expires : Nat]

ASSUME AbsentAssumption == Absent \notin Share

(* t0: when the request began; cookie: what it presented; at: the time     *)
(* RecordAccess read.                                                      *)
Local  == [code : Codes \cup {Absent}, t0 : Nat, cookie : Cookie \cup {Absent}, at : Nat]
Idle   == [code |-> Absent, t0 |-> 0, cookie |-> Absent, at |-> 0]

After(expires, t) == expires # Never => expires > t

Goto(c, l) == pc' = [pc EXCEPT ![c] = l]
Finish(c)  == Goto(c, "idle") /\ loc' = [loc EXCEPT ![c] = Idle]

Init ==
    /\ now = 0
    /\ shares = [s \in Codes |-> Absent]
    /\ epoch = 0
    /\ cookies = [c \in Clients |-> {}]
    /\ started = [s \in Codes |-> 0]
    /\ pc = [c \in Clients |-> "idle"]
    /\ loc = [c \in Clients |-> Idle]

Tick == now < MaxTime /\ now' = now + 1 /\ UNCHANGED <<shares, epoch, cookies, started, pc, loc>>

-----------------------------------------------------------------------------
(* Create: validate, HEAD the object, insert under a fresh code.  The time *)
(* t that validate read may be long past when the row is inserted.         *)
Create(s) ==
    /\ shares[s] = Absent
    /\ \E p \in BOOLEAN, m \in 0 .. MaxCap, e \in (1 .. MaxTime) \cup {Never} :
         /\ \E t \in 0 .. now : After(e, t)
         /\ shares' = [shares EXCEPT ![s] =
              [protected |-> p, max |-> m, expires |-> e, count |-> 0, revoked |-> FALSE]]
    /\ UNCHANGED <<now, epoch, cookies, started, pc, loc>>

(* Revoke reads the row, checks the actor, and then updates it.            *)
RevokeRead(c, s) ==
    /\ pc[c] = "idle"
    /\ shares[s] # Absent /\ ~shares[s].revoked
    /\ loc' = [loc EXCEPT ![c] = [Idle EXCEPT !.code = s, !.t0 = now]]
    /\ Goto(c, "revoke")
    /\ UNCHANGED <<now, shares, epoch, cookies, started>>

RevokeShare(c) ==
    /\ pc[c] = "revoke"
    /\ shares' = [shares EXCEPT ![loc[c].code].revoked = TRUE]
    /\ Finish(c)
    /\ UNCHANGED <<now, epoch, cookies, started>>

-----------------------------------------------------------------------------
(* Lookup: every gate but the password.                                    *)
Lookup(s) ==
    /\ shares[s] # Absent
    /\ ~shares[s].revoked
    /\ After(shares[s].expires, now)
    /\ shares[s].max > 0 => shares[s].count < shares[s].max

(* Mutant: every process signs with the same secret.                       *)
VerifyAnyProcess(k, s) == k # Absent /\ k.code = s /\ ~(k.expires < now)

(* unlockSigner.verify: the signature is made with this process's secret   *)
(* over the code and the expiry.                                           *)
Verify(k, s) == k # Absent /\ k.code = s /\ k.epoch = epoch /\ ~(k.expires < now)

(* handleShareUnlock for a client that knows the password (another is sent *)
(* away and nothing changes): Resolve succeeds whenever Lookup does, and   *)
(* the cookie is minted in a later step.                                   *)
Unlock(c, s) ==
    /\ pc[c] = "idle"
    /\ Lookup(s)
    /\ loc' = [loc EXCEPT ![c] = [Idle EXCEPT !.code = s, !.t0 = now]]
    /\ Goto(c, "unlock")
    /\ UNCHANGED <<now, shares, epoch, cookies, started>>

IssueCookie(c) ==
    /\ pc[c] = "unlock"
    /\ cookies' = [cookies EXCEPT ![c] = @ \cup
         {[code |-> loc[c].code, epoch |-> epoch, expires |-> now + UnlockTTL]}]
    /\ Finish(c)
    /\ UNCHANGED <<now, shares, epoch, started>>

(* handleShareRaw begins; the request may carry any cookie of the client.  *)
RawStart(c, s) ==
    /\ pc[c] = "idle"
    /\ shares[s] # Absent
    /\ \E k \in cookies[c] \cup {Absent} :
         loc' = [loc EXCEPT ![c] = [Idle EXCEPT !.code = s, !.t0 = now, !.cookie = k]]
    /\ Goto(c, "verify")
    /\ UNCHANGED <<now, shares, epoch, cookies, started>>

(* resolveWithCookie, first half: with a valid cookie the password is not  *)
(* asked for again.                                                        *)
RawVerify(c) ==
    /\ pc[c] = "verify"
    /\ Goto(c, IF Verify(loc[c].cookie, loc[c].code) THEN "lookup" ELSE "resolve")
    /\ UNCHANGED <<now, shares, epoch, cookies, started, loc>>

(* resolveWithCookie, second half: Lookup, or Resolve with no password,    *)
(* which also refuses a protected share.                                   *)
RawResolve(c) ==
    LET s == loc[c].code
        ok == Lookup(s) /\ (pc[c] = "resolve" => ~shares[s].protected)
    IN  /\ pc[c] \in {"lookup", "resolve"}
        /\ \/ ok /\ Goto(c, "open") /\ UNCHANGED loc
           \/ ~ok /\ Finish(c)
        /\ UNCHANGED <<now, shares, epoch, cookies, started>>

(* Mutant: an object that cannot be opened gives the download back.        *)
RawOpenRefunds(c) ==
    /\ pc[c] = "open"
    /\ \/ started[loc[c].code] < MaxStarts /\ Goto(c, "record") /\ loc' = [loc EXCEPT ![c].at = now]
          /\ UNCHANGED shares
       \/ Finish(c) /\ shares' = [shares EXCEPT ![loc[c].code].count = @ - 1]
    /\ UNCHANGED <<now, epoch, cookies, started>>

(* The range check and OpenTarget, which may fail (and do, in the model,   *)
(* after MaxStarts downloads); RecordAccess then reads the clock.          *)
RawOpen(c) ==
    /\ pc[c] = "open"
    /\ \/ started[loc[c].code] < MaxStarts /\ Goto(c, "record") /\ loc' = [loc EXCEPT ![c].at = now]
       \/ Finish(c)
    /\ UNCHANGED <<now, shares, epoch, cookies, started>>

(* Mutants: the UPDATE trusts Lookup for the cap, the revocation or the    *)
(* expiry.                                                                 *)
AdmitsUncapped(s, at) == ~shares[s].revoked /\ After(shares[s].expires, at)
AdmitsRevoked(s, at) ==
    /\ shares[s].max > 0 => shares[s].count < shares[s].max
    /\ After(shares[s].expires, at)
AdmitsExpired(s, at) ==
    /\ ~shares[s].revoked
    /\ shares[s].max > 0 => shares[s].count < shares[s].max

(* IncrementShareAccess: one conditional UPDATE, all gates over again.  No  *)
(* row, or an error of the store, and the client gets 410.                 *)
Admits(s, at) ==
    /\ ~shares[s].revoked
    /\ shares[s].max > 0 => shares[s].count < shares[s].max
    /\ After(shares[s].expires, at)

RawRecord(c) ==
    LET s == loc[c].code
    IN  /\ pc[c] = "record"
        /\ \/ /\ Admits(s, loc[c].at)
              /\ shares' = [shares EXCEPT ![s].count = @ + 1]
              /\ started' = [started EXCEPT ![s] = @ + 1]
              /\ Goto(c, "stream")
              /\ UNCHANGED loc
           \/ Finish(c) /\ UNCHANGED <<shares, started>>
        /\ UNCHANGED <<now, epoch, cookies>>

(* io.Copy ends, or the recipient goes away.  Nothing is refunded.         *)
StreamEnd(c) ==
    /\ pc[c] = "stream"
    /\ Finish(c)
    /\ UNCHANGED <<now, shares, epoch, cookies, started>>

(* The process restarts: handlers are gone, the secret is a new one.       *)
Restart ==
    /\ epoch < MaxRestarts
    /\ epoch' = epoch + 1
    /\ pc' = [c \in Clients |-> "idle"]
    /\ loc' = [c \in Clients |-> Idle]
    /\ UNCHANGED <<now, shares, cookies, started>>

Next ==
    \/ Tick \/ Restart
    \/ \E s \in Codes : Create(s)
    \/ \E c \in Clients, s \in Codes : RevokeRead(c, s) \/ Unlock(c, s) \/ RawStart(c, s)
    \/ \E c \in Clients : RevokeShare(c) \/ IssueCookie(c) \/ RawVerify(c) \/ RawResolve(c)
                            \/ RawOpen(c) \/ RawRecord(c) \/ StreamEnd(c)

Spec == Init /\ [][Next]_vars

-----------------------------------------------------------------------------
Labels == {"idle", "revoke", "unlock", "verify", "lookup", "resolve", "open", "record", "stream"}

(* Shape of the table, the cookies and the handlers.                       *)
TypeOK ==
    /\ now \in Nat
    /\ shares \in [Codes -> Share \cup {Absent}]
    /\ epoch \in Nat
    /\ cookies \in [Clients -> SUBSET Cookie]
    /\ started \in [Codes -> Nat]
    /\ pc \in [Clients -> Labels]
    /\ loc \in [Clients -> Local]

(* The download cap (docs/self-host/sharing/semantics.md, "Two parallel    *)
(* downloads can't both squeeze through the last allowed slot"): however   *)
(* the resolvers interleave, and across restarts, no more downloads start  *)
(* than the owner allowed, and each one that started is counted.           *)
CapHolds ==
    \A s \in Codes :
        IF shares[s] = Absent THEN started[s] = 0
        ELSE /\ started[s] = shares[s].count
             /\ shares[s].max > 0 => started[s] <= shares[s].max

Revoked(s) == shares[s] # Absent /\ shares[s].revoked

(* Once the row says revoked no further download starts, whatever requests *)
(* were past Lookup by then (handleShareRaw, IncrementShareAccess), and    *)
(* the share stays revoked.                                                *)
RevokedIsFinal ==
    [][\A s \in Codes : Revoked(s) => Revoked(s)' /\ started'[s] = started[s]]_vars

(* The clock is past expires_at.  The code refuses at that very instant    *)
(* too, where docs/self-host/sharing/semantics.md has "The check is        *)
(* `now() > expires_at`"; nothing here depends on the instant itself.      *)
Expired(s) == shares[s] # Absent /\ shares[s].expires # Never /\ now > shares[s].expires

(* Request c has read the clock in RecordAccess, and not after s expired.  *)
ReadInTime(c, s) ==
    pc[c] = "record" /\ loc[c].code = s /\ loc[c].at <= shares[s].expires

(* Once a share has expired no download starts but for a request that was  *)
(* already in RecordAccess (api/shares.go) with a time from before: one    *)
(* that Lookup let through and whose share expired while it opened the     *)
(* object gets its 410 from IncrementShareAccess.                          *)
ExpiryIsFinal ==
    [][\A s \in Codes : Expired(s) /\ started'[s] # started[s] =>
           \E c \in Clients : ReadInTime(c, s)]_vars

(* A protected share only streams to a request that showed a cookie for    *)
(* this very share, minted by this very process and not yet expired when   *)
(* the request began (resolveWithCookie, unlockSigner; a restart           *)
(* invalidates outstanding cookies).                                       *)
UnlockedHere ==
    \A c \in Clients : pc[c] = "stream" /\ shares[loc[c].code].protected =>
        LET k == loc[c].cookie
        IN  k # Absent /\ k.code = loc[c].code /\ k.epoch = epoch /\ loc[c].t0 <= k.expires
=============================================================================
