---------------------------- MODULE SharesProofs ----------------------------
(* Theorems about Shares, for every set of codes and clients.              *)
EXTENDS Shares, TLAPS

(* A handler past its first step is about a share that exists, and did not *)
(* begin later than now.                                                   *)
HandlersOK ==
    \A c \in Clients : pc[c] # "idle" =>
        /\ loc[c].code \in Codes
        /\ shares[loc[c].code] \in Share
        /\ loc[c].t0 <= now

(* Where a handler past verify stands with the cookie it showed.           *)
Checked(c) ==
    LET k == loc[c].cookie
    IN  k # Absent /\ k.code = loc[c].code /\ k.epoch = epoch /\ loc[c].t0 <= k.expires

CookiesOK ==
    \A c \in Clients :
        /\ pc[c] = "lookup" => Checked(c)
        /\ pc[c] \in {"open", "record", "stream"} /\ shares[loc[c].code].protected => Checked(c)

IInv == TypeOK /\ HandlersOK /\ CookiesOK /\ CapHolds

LEMMA InitIInv == Init => IInv
BY SharesAssumption
   DEF Init, IInv, TypeOK, HandlersOK, CookiesOK, CapHolds, Idle, Local, Labels

LEMMA StepIInv == ASSUME IInv, [Next]_vars PROVE IInv'
<1> USE SharesAssumption, AbsentAssumption DEF IInv
<1>0. CASE UNCHANGED vars
  BY <1>0 DEF vars, TypeOK, HandlersOK, CookiesOK, Checked, CapHolds
<1>1. CASE Tick
  BY <1>1 DEF Tick, TypeOK, HandlersOK, CookiesOK, Checked, CapHolds, Local, Cookie
<1>2. CASE Restart
  BY <1>2 DEF Restart, TypeOK, HandlersOK, CookiesOK, CapHolds, Idle, Local, Labels
<1>3. ASSUME NEW s \in Codes, Create(s) PROVE IInv'
  <2>1. PICK p \in BOOLEAN, m \in 0 .. MaxCap, e \in (1 .. MaxTime) \cup {Never} :
          shares' = [shares EXCEPT ![s] =
              [protected |-> p, max |-> m, expires |-> e, count |-> 0, revoked |-> FALSE]]
    BY <1>3, Zenon DEF Create
  <2>2. m \in Nat /\ e \in Nat \cup {Never}
    OBVIOUS
  <2>6. TypeOK'
    BY <1>3, <2>1, <2>2 DEF Create, TypeOK, Share
  <2>3. \A c \in Clients : pc[c] # "idle" => loc[c].code # s
    BY <1>3 DEF Create, HandlersOK
  <2>4. HandlersOK' /\ CookiesOK'
    BY <1>3, <2>1, <2>3 DEF Create, HandlersOK, CookiesOK, Checked, TypeOK
  <2>5. CapHolds'
    BY <1>3, <2>1 DEF Create, CapHolds, TypeOK
  <2> QED BY <2>4, <2>5, <2>6
<1>4. ASSUME NEW c \in Clients, NEW s \in Codes, RevokeRead(c, s) \/ Unlock(c, s) PROVE IInv'
  <2>1. shares[s] \in Share
    BY <1>4 DEF RevokeRead, Unlock, Lookup, TypeOK
  <2>2. PICK l \in {"revoke", "unlock"} :
          /\ pc' = [pc EXCEPT ![c] = l]
          /\ loc' = [loc EXCEPT ![c] = [Idle EXCEPT !.code = s, !.t0 = now]]
          /\ UNCHANGED <<now, shares, epoch, cookies, started>>
    BY <1>4, Zenon DEF RevokeRead, Unlock, Goto
  <2>3. TypeOK'
    BY <2>2 DEF TypeOK, Idle, Local, Labels
  <2>4. HandlersOK' /\ CookiesOK' /\ CapHolds'
    BY <2>1, <2>2 DEF TypeOK, Idle, HandlersOK, CookiesOK, Checked, CapHolds
  <2> QED BY <2>3, <2>4
<1>5. ASSUME NEW c \in Clients, NEW s \in Codes, RawStart(c, s) PROVE IInv'
  <2>1. shares[s] \in Share
    BY <1>5 DEF RawStart, TypeOK
  <2>2. PICK k \in Cookie \cup {Absent} :
          loc' = [loc EXCEPT ![c] = [Idle EXCEPT !.code = s, !.t0 = now, !.cookie = k]]
    BY <1>5 DEF RawStart, TypeOK
  <2>3. TypeOK'
    BY <1>5, <2>2 DEF RawStart, TypeOK, Idle, Local, Goto, Labels
  <2>4. HandlersOK' /\ CookiesOK' /\ CapHolds'
    BY <1>5, <2>1, <2>2 DEF RawStart, TypeOK, Idle, Goto, HandlersOK, CookiesOK, Checked, CapHolds
  <2> QED BY <2>3, <2>4
<1>6. ASSUME NEW c \in Clients, RevokeShare(c) PROVE IInv'
  <2>1. /\ loc[c].code \in Codes
        /\ shares[loc[c].code] \in Share
    BY <1>6 DEF RevokeShare, HandlersOK
  <2>2. /\ shares'[loc[c].code] \in Share
        /\ shares'[loc[c].code] = [shares[loc[c].code] EXCEPT !.revoked = TRUE]
        /\ \A s \in Codes : s # loc[c].code => shares'[s] = shares[s]
        /\ shares' \in [Codes -> Share \cup {Absent}]
    BY <1>6, <2>1 DEF RevokeShare, TypeOK, Share
  <2>3. TypeOK'
    BY <1>6, <2>2 DEF RevokeShare, Finish, TypeOK, Idle, Local, Goto, Labels
  <2>4. \A s \in Codes : shares[s] \in Share =>
          /\ shares'[s] \in Share
          /\ shares'[s].protected = shares[s].protected
          /\ shares'[s].expires = shares[s].expires
          /\ shares'[s].count = shares[s].count
          /\ shares'[s].max = shares[s].max
    BY <2>2 DEF Share
  <2>7. /\ UNCHANGED <<now, epoch, cookies, started>>
        /\ pc' = [pc EXCEPT ![c] = "idle"]
        /\ loc' = [loc EXCEPT ![c] = Idle]
    BY <1>6 DEF RevokeShare, Finish, Goto
  <2>5. CapHolds'
    <3> SUFFICES ASSUME NEW s \in Codes
                 PROVE  (IF shares[s] = Absent THEN started[s] = 0
                         ELSE /\ started[s] = shares[s].count
                              /\ shares[s].max > 0 => started[s] <= shares[s].max)'
      BY DEF CapHolds
    <3>1. CASE s = loc[c].code
      BY <2>1, <2>2, <2>4, <2>7, <3>1 DEF CapHolds
    <3>2. CASE s # loc[c].code
      BY <2>2, <2>7, <3>2 DEF CapHolds
    <3> QED BY <3>1, <3>2
  <2>6. HandlersOK' /\ CookiesOK'
    BY <2>4, <2>7 DEF TypeOK, HandlersOK, CookiesOK, Checked
  <2> QED BY <2>3, <2>5, <2>6
<1>7. ASSUME NEW c \in Clients, IssueCookie(c) PROVE IInv'
  <2>1. loc[c].code \in Codes
    BY <1>7 DEF IssueCookie, HandlersOK
  <2> DEFINE k == [code |-> loc[c].code, epoch |-> epoch, expires |-> now + UnlockTTL]
  <2>5. k \in Cookie
    BY <2>1 DEF Cookie, TypeOK
  <2>6. cookies' = [cookies EXCEPT ![c] = @ \cup {k}]
    BY <1>7 DEF IssueCookie
  <2> HIDE DEF k
  <2>2. cookies' \in [Clients -> SUBSET Cookie]
    BY <2>5, <2>6 DEF TypeOK
  <2>3. TypeOK'
    BY <1>7, <2>2 DEF IssueCookie, Finish, Goto, TypeOK, Idle, Local, Labels
  <2>4. HandlersOK' /\ CookiesOK' /\ CapHolds'
    BY <1>7 DEF IssueCookie, Finish, Goto, TypeOK, HandlersOK, CookiesOK, Checked, CapHolds
  <2> QED BY <2>3, <2>4
<1>8. ASSUME NEW c \in Clients, RawVerify(c) PROVE IInv'
  <2>1. TypeOK'
    BY <1>8 DEF RawVerify, Goto, TypeOK, Labels
  <2>2. pc'[c] = "lookup" => Checked(c)
    BY <1>8 DEF RawVerify, Goto, TypeOK, Verify, Checked, HandlersOK, Cookie, Local
  <2>3. HandlersOK' /\ CookiesOK' /\ CapHolds'
    BY <1>8, <2>2 DEF RawVerify, Goto, TypeOK, HandlersOK, CookiesOK, Checked, CapHolds
  <2> QED BY <2>1, <2>3
<1>9. ASSUME NEW c \in Clients, RawResolve(c) PROVE IInv'
  <2>1. CASE pc'[c] = "open"
    <3>1. /\ pc[c] = "resolve" => ~shares[loc[c].code].protected
          /\ pc' = [pc EXCEPT ![c] = "open"] /\ loc' = loc
      BY <1>9, <2>1 DEF RawResolve, Finish, Goto, TypeOK
    <3>2. TypeOK'
      BY <1>9, <3>1 DEF RawResolve, TypeOK, Labels
    <3>3. HandlersOK' /\ CookiesOK' /\ CapHolds'
      BY <1>9, <3>1 DEF RawResolve, TypeOK, HandlersOK, CookiesOK, Checked, CapHolds
    <3> QED BY <3>2, <3>3
  <2>2. CASE pc'[c] # "open"
    <3>1. Finish(c)
      BY <1>9, <2>2 DEF RawResolve, Goto, TypeOK
    <3>2. TypeOK'
      BY <1>9, <3>1 DEF RawResolve, Finish, Goto, TypeOK, Labels, Idle, Local
    <3>3. HandlersOK' /\ CookiesOK' /\ CapHolds'
      BY <1>9, <3>1 DEF RawResolve, Finish, Goto, TypeOK, HandlersOK, CookiesOK, Checked, CapHolds
    <3> QED BY <3>2, <3>3
  <2> QED BY <2>1, <2>2
<1>10. ASSUME NEW c \in Clients, RawOpen(c) PROVE IInv'
  <2>1. CASE Goto(c, "record") /\ loc' = [loc EXCEPT ![c].at = now]
    <3>1. TypeOK'
      BY <1>10, <2>1 DEF RawOpen, Goto, TypeOK, Labels, Local
    <3>2. /\ loc'[c].at = now /\ loc'[c].t0 = loc[c].t0
          /\ loc'[c].code = loc[c].code /\ loc'[c].cookie = loc[c].cookie
      BY <1>10, <2>1 DEF TypeOK, Local
    <3>3. HandlersOK' /\ CookiesOK' /\ CapHolds'
      BY <1>10, <2>1, <3>2 DEF RawOpen, Goto, TypeOK, HandlersOK, CookiesOK, Checked, CapHolds
    <3> QED BY <3>1, <3>3
  <2>2. CASE Finish(c)
    <3>1. TypeOK'
      BY <1>10, <2>2 DEF RawOpen, Finish, Goto, TypeOK, Labels, Idle, Local
    <3>2. HandlersOK' /\ CookiesOK' /\ CapHolds'
      BY <1>10, <2>2 DEF RawOpen, Finish, Goto, TypeOK, HandlersOK, CookiesOK, Checked, CapHolds
    <3> QED BY <3>1, <3>2
  <2> QED BY <1>10, <2>1, <2>2 DEF RawOpen
<1>11. ASSUME NEW c \in Clients, RawRecord(c) PROVE IInv'
  <2> DEFINE s == loc[c].code
  <2>1. s \in Codes /\ shares[s] \in Share
    BY <1>11 DEF RawRecord, HandlersOK
  <2>2. CASE Finish(c) /\ UNCHANGED <<shares, started>>
    <3>1. TypeOK'
      BY <1>11, <2>2 DEF RawRecord, Finish, Goto, TypeOK, Labels, Idle, Local
    <3>2. HandlersOK' /\ CookiesOK' /\ CapHolds'
      BY <1>11, <2>2 DEF RawRecord, Finish, Goto, TypeOK, HandlersOK, CookiesOK, Checked, CapHolds
    <3> QED BY <3>1, <3>2
  <2>3. CASE /\ Admits(s, loc[c].at)
             /\ shares' = [shares EXCEPT ![s].count = @ + 1]
             /\ started' = [started EXCEPT ![s] = @ + 1]
             /\ Goto(c, "stream")
             /\ UNCHANGED loc
    <3>1. /\ shares'[s] = [shares[s] EXCEPT !.count = @ + 1]
          /\ shares'[s] \in Share
          /\ \A t \in Codes : t # s => shares'[t] = shares[t]
          /\ shares' \in [Codes -> Share \cup {Absent}]
      BY <2>1, <2>3 DEF TypeOK, Share
    <3>2. \A t \in Codes : shares[t] \in Share =>
            /\ shares'[t] \in Share
            /\ shares'[t].protected = shares[t].protected
            /\ shares'[t].expires = shares[t].expires
            /\ shares'[t].max = shares[t].max
      BY <3>1 DEF Share
    <3>3. TypeOK'
      BY <1>11, <2>1, <2>3, <3>1 DEF RawRecord, Goto, TypeOK, Labels
    <3>4. CapHolds'
      <4>1. shares[s] # Absent /\ shares'[s] # Absent
        BY <2>1, <3>1
      <4>2. /\ started[s] \in Nat /\ started'[s] = started[s] + 1
            /\ shares[s].count \in Nat /\ shares'[s].count = shares[s].count + 1
            /\ shares[s].max \in Nat /\ shares'[s].max = shares[s].max
        BY <2>1, <2>3, <3>1 DEF TypeOK, Share
      <4>3. started'[s] = shares'[s].count /\ (shares'[s].max > 0 => started'[s] <= shares'[s].max)
        BY <2>1, <2>3, <4>1, <4>2 DEF CapHolds, Admits
      <4> QED BY <2>3, <3>1, <4>1, <4>3 DEF CapHolds, TypeOK
    <3>5. HandlersOK' /\ CookiesOK'
      BY <1>11, <2>1, <2>3, <3>2 DEF RawRecord, Goto, TypeOK, HandlersOK, CookiesOK, Checked
    <3> QED BY <3>3, <3>4, <3>5
  <2> QED BY <1>11, <2>2, <2>3 DEF RawRecord
<1>12. ASSUME NEW c \in Clients, StreamEnd(c) PROVE IInv'
  <2>1. TypeOK'
    BY <1>12 DEF StreamEnd, Finish, Goto, TypeOK, Labels, Idle, Local
  <2>2. HandlersOK' /\ CookiesOK' /\ CapHolds'
    BY <1>12 DEF StreamEnd, Finish, Goto, TypeOK, HandlersOK, CookiesOK, Checked, CapHolds
  <2> QED BY <2>1, <2>2
<1> QED
  BY <1>0, <1>1, <1>2, <1>3, <1>4, <1>5, <1>6, <1>7, <1>8, <1>9, <1>10, <1>11, <1>12 DEF Next

LEMMA Invariance == Spec => []IInv
BY InitIInv, StepIInv, PTL DEF Spec

(* However many resolvers race for it, no share is downloaded more often   *)
(* than its owner allowed (IncrementShareAccess), restarts included.       *)
THEOREM CapIsRespected == Spec => []CapHolds
<1>1. IInv => CapHolds
  BY DEF IInv
<1> QED BY Invariance, <1>1, PTL

(* A protected share streams only to who unlocked it with this process.    *)
THEOREM PasswordIsRespected == Spec => []UnlockedHere
<1>1. IInv => UnlockedHere
  BY DEF IInv, CookiesOK, Checked, UnlockedHere
<1> QED BY Invariance, <1>1, PTL

LEMMA StepRevoked ==
    ASSUME IInv, [Next]_vars, NEW s \in Codes, Revoked(s)
    PROVE  Revoked(s)' /\ started'[s] = started[s]
<1> USE AbsentAssumption DEF IInv
<1>1. shares[s] \in Share /\ shares[s] # Absent
  BY DEF Revoked, TypeOK
<1>2. CASE UNCHANGED <<shares, started>>
  BY <1>2 DEF Revoked
<1>3. ASSUME NEW t \in Codes, Create(t) PROVE Revoked(s)' /\ started'[s] = started[s]
  <2>1. t # s /\ shares'[s] = shares[s] /\ started' = started
    BY <1>1, <1>3 DEF Create, TypeOK
  <2> QED BY <2>1 DEF Revoked
<1>4. ASSUME NEW c \in Clients, RevokeShare(c) PROVE Revoked(s)' /\ started'[s] = started[s]
  <2>1. shares'[s] \in Share /\ shares'[s].revoked = shares[s].revoked /\ started' = started
    BY <1>1, <1>4 DEF RevokeShare, Revoked, TypeOK, Share
  <2> QED BY <2>1 DEF Revoked
<1>5. ASSUME NEW c \in Clients, RawRecord(c) PROVE Revoked(s)' /\ started'[s] = started[s]
  <2>1. CASE UNCHANGED <<shares, started>>
    BY <2>1 DEF Revoked
  <2>2. CASE /\ Admits(loc[c].code, loc[c].at)
             /\ shares' = [shares EXCEPT ![loc[c].code].count = @ + 1]
             /\ started' = [started EXCEPT ![loc[c].code] = @ + 1]
    <3>1. loc[c].code # s
      BY <2>2 DEF Admits, Revoked
    <3>2. shares'[s] = shares[s] /\ started'[s] = started[s]
      BY <2>2, <3>1 DEF TypeOK
    <3> QED BY <3>2 DEF Revoked
  <2> QED BY <1>5, <2>1, <2>2 DEF RawRecord
<1> QED
  BY <1>2, <1>3, <1>4, <1>5
     DEF Next, vars, Tick, Restart, RevokeRead, Unlock, RawStart, IssueCookie, RawVerify,
         RawResolve, RawOpen, StreamEnd

(* A revoked share stays revoked and starts no further download, whatever  *)
(* requests had passed Lookup before.                                      *)
THEOREM RevocationIsFinal == Spec => RevokedIsFinal
<1>1. IInv /\ [Next]_vars =>
        [\A s \in Codes : Revoked(s) => Revoked(s)' /\ started'[s] = started[s]]_vars
  BY StepRevoked
<1> QED BY Invariance, <1>1, PTL DEF Spec, RevokedIsFinal

LEMMA StepExpired ==
    ASSUME IInv, [Next]_vars, NEW s \in Codes, Expired(s), started'[s] # started[s]
    PROVE  \E c \in Clients : ReadInTime(c, s)
<1> USE DEF IInv
<1>1. PICK c \in Clients : RawRecord(c)
  BY DEF Next, vars, Tick, Restart, Create, RevokeRead, RevokeShare, Unlock, RawStart,
         IssueCookie, RawVerify, RawResolve, RawOpen, StreamEnd
<1>2. /\ Admits(loc[c].code, loc[c].at)
      /\ started' = [started EXCEPT ![loc[c].code] = @ + 1]
  BY <1>1 DEF RawRecord
<1>3. loc[c].code = s
  BY <1>2 DEF TypeOK
<1>4. loc[c].at \in Nat /\ shares[s].expires \in Nat
  BY DEF TypeOK, Expired, Local, Share
<1>5. loc[c].at <= shares[s].expires
  BY <1>2, <1>3, <1>4 DEF Admits, After, Expired
<1> QED BY <1>1, <1>3, <1>5 DEF RawRecord, ReadInTime

(* After its expiry a share starts downloads for no request but one whose  *)
(* RecordAccess had read the clock before, whatever passed Lookup in time. *)
THEOREM ExpiryIsRespected == Spec => ExpiryIsFinal
<1>1. IInv /\ [Next]_vars =>
        [\A s \in Codes : Expired(s) /\ started'[s] # started[s] =>
             \E c \in Clients : ReadInTime(c, s)]_vars
  BY StepExpired
<1> QED BY Invariance, <1>1, PTL DEF Spec, ExpiryIsFinal
=============================================================================
