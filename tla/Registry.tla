------------------------------ MODULE Registry ------------------------------
(***************************************************************************)
(* The backend registry (internal/backend/registry.go) and its three       *)
(* owners, for one backend id: config.yaml, read at startup; the backends  *)
(* table behind the admin API (internal/api/admin_backends.go); and the    *)
(* S3Backend of that name, mirrored by RegistryReconciler                  *)
(* (internal/operator/controller/registry_controller.go).  A driver is     *)
(* the number of the last change to what it was built from.  A step is one *)
(* call on the registry, the table or the API server.  Probe results are   *)
(* not modelled, and a call on the API server that fails is only repeated. *)
(***************************************************************************)
EXTENDS Integers, FiniteSetsExt

CONSTANTS
    Admins,       \* goroutines of admin handlers
    MaxVer,       \* bound: changes, each numbered
    MaxRestarts   \* bound: restarts

ASSUME RegistryAssumption == MaxVer \in Nat /\ MaxRestarts \in Nat

VARIABLES
    inFile,      \* config.yaml has an entry of this id
    row,         \* the row of table backends
    cr, creds,   \* the S3Backend and its Secret: 0 if there is none, or none that resolves
    entry,       \* Registry.entries[id]
    pc, loc,     \* the admin handlers
    rpc, built,  \* the reconciler, and what it has of the driver
    queued,      \* the reconciler's work queue has the id
    ver,         \* the number of the last change
    restarts,
    crSeen       \* history: an S3Backend existed while this process ran

admin  == <<pc, loc>>
mirror == <<rpc, built, queued>>
cluster == <<cr, creds, crSeen>>
vars == <<inFile, row, cluster, entry, admin, mirror, ver, restarts>>

FileDriver == 1
NoRow    == [ver |-> 0, enabled |-> FALSE]
NoEntry  == [driver |-> 0, source |-> "none"]
Idle     == [row |-> NoRow, cols |-> {}, registered |-> FALSE]

Goto(a, l) == pc' = [pc EXCEPT ![a] = l]
Finish(a)  == Goto(a, "idle") /\ loc' = [loc EXCEPT ![a] = Idle]

-----------------------------------------------------------------------------
(* The registry's methods.  Each holds the mutex for all of it, and stores *)
(* the snapshot that Get reads before it gives the mutex back              *)
(* (publishFast), so entry is what both hold.                              *)
RegisterWithSource(d, s) == entry' = IF entry = NoEntry THEN [driver |-> d, source |-> s] ELSE entry

(* Mutant: the source of what was there stays behind.                      *)
UnregisterInPart == entry' = [entry EXCEPT !.driver = 0]

Unregister == entry' = NoEntry

(* The source stays what it is.                                            *)
Replace(d) == entry' = IF entry = NoEntry THEN entry ELSE [entry EXCEPT !.driver = d]

(* Mutant: only an S3Backend is guarded.                                   *)
ReadOnlyK8s == entry.source = "k8s"

(* Source().IsReadOnly().                                                  *)
ReadOnly == entry.source \in {"config", "k8s"}

(* buildRegistry and hydrateFromStore: the file first, then enabled rows.  *)
Hydrated(file) ==
    IF file THEN [driver |-> FileDriver, source |-> "config"]
    ELSE IF row.enabled THEN [driver |-> row.ver, source |-> "db"] ELSE NoEntry

Init ==
    /\ inFile \in BOOLEAN /\ row = NoRow /\ cr = 0 /\ creds = FileDriver
    /\ entry = Hydrated(inFile)
    /\ pc = [a \in Admins |-> "idle"] /\ loc = [a \in Admins |-> Idle]
    /\ rpc = "idle" /\ built = 0 /\ queued = FALSE
    /\ ver = FileDriver /\ restarts = 0 /\ crSeen = FALSE

-----------------------------------------------------------------------------
(* handleAdminCreateBackend: the source, the row, the registry; the row is *)
(* taken back when the id is registered by then.                           *)
CreateCheck(a, on) ==
    /\ pc[a] = "idle" /\ ~ReadOnly /\ ver < MaxVer
    /\ ver' = ver + 1
    /\ loc' = [loc EXCEPT ![a] = [Idle EXCEPT !.row = [ver |-> ver + 1, enabled |-> on]]]
    /\ Goto(a, "insert")
    /\ UNCHANGED <<inFile, row, cluster, entry, mirror, restarts>>

CreateBackend(a) ==
    /\ pc[a] = "insert"
    /\ row' = IF row = NoRow THEN loc[a].row ELSE row
    /\ IF row = NoRow /\ loc[a].row.enabled THEN Goto(a, "register") /\ UNCHANGED loc ELSE Finish(a)
    /\ UNCHANGED <<inFile, cluster, entry, mirror, ver, restarts>>

CreateRegister(a) ==
    /\ pc[a] = "register"
    /\ RegisterWithSource(loc[a].row.ver, "db")
    /\ IF entry = NoEntry THEN Finish(a) ELSE Goto(a, "rollback") /\ UNCHANGED loc
    /\ UNCHANGED <<inFile, row, cluster, mirror, ver, restarts>>

CreateRollback(a) ==
    /\ pc[a] = "rollback"
    /\ row' = NoRow
    /\ Finish(a)
    /\ UNCHANGED <<inFile, cluster, entry, mirror, ver, restarts>>

(* A row overlaid with the columns cols of another.                        *)
Patched(old, cols, new) ==
    [ver     |-> IF "config" \in cols THEN new.ver ELSE old.ver,
     enabled |-> IF "enabled" \in cols THEN new.enabled ELSE old.enabled]

(* handleAdminPatchBackend: the source, the row, the update of the columns *)
(* that are patched, Get, and the registry.                                *)
PatchCheck(a) ==
    /\ pc[a] = "idle" /\ ~ReadOnly
    /\ Goto(a, "load")
    /\ UNCHANGED <<inFile, row, cluster, entry, loc, mirror, ver, restarts>>

PatchLoad(a) ==
    /\ pc[a] = "load"
    /\ \/ row = NoRow /\ Finish(a) /\ UNCHANGED ver
       \/ \E cols \in SUBSET {"config", "enabled"}, on \in BOOLEAN :
          /\ row # NoRow /\ ver < MaxVer
          /\ ver' = ver + 1
          /\ loc' = [loc EXCEPT ![a].row = Patched(row, cols, [ver |-> ver + 1, enabled |-> on]),
                                ![a].cols = cols]
          /\ Goto(a, "update")
    /\ UNCHANGED <<inFile, row, cluster, entry, mirror, restarts>>

(* A patch of no column succeeds without a look at the table.              *)
PatchUpdate(a) ==
    LET l == loc[a]
        missed == row = NoRow /\ l.cols # {}
    IN  /\ pc[a] = "update"
        /\ row' = IF row = NoRow THEN row ELSE Patched(row, l.cols, l.row)
        /\ IF missed THEN Finish(a) ELSE Goto(a, "get") /\ UNCHANGED loc
        /\ UNCHANGED <<inFile, cluster, entry, mirror, ver, restarts>>

PatchGet(a) ==
    /\ pc[a] = "get"
    /\ loc' = [loc EXCEPT ![a].registered = (entry # NoEntry)]
    /\ Goto(a, "reflect")
    /\ UNCHANGED <<inFile, row, cluster, entry, mirror, ver, restarts>>

(* Mutant: a disabled backend stays registered.                            *)
PatchReflectKeeps(a) ==
    LET l == loc[a]
    IN  /\ pc[a] = "reflect"
        /\ IF l.registered THEN Replace(l.row.ver)
           ELSE IF l.row.enabled THEN RegisterWithSource(l.row.ver, "db")
           ELSE UNCHANGED entry
        /\ Finish(a)
        /\ UNCHANGED <<inFile, row, cluster, mirror, ver, restarts>>

PatchReflect(a) ==
    LET l == loc[a]
    IN  /\ pc[a] = "reflect"
        /\ \/ l.registered /\ l.row.enabled /\ Replace(l.row.ver)
           \/ l.registered /\ ~l.row.enabled /\ Unregister
           \/ ~l.registered /\ l.row.enabled /\ RegisterWithSource(l.row.ver, "db")
           \/ ~l.registered /\ ~l.row.enabled /\ UNCHANGED entry
        /\ Finish(a)
        /\ UNCHANGED <<inFile, row, cluster, mirror, ver, restarts>>

(* handleAdminDeleteBackend: the source, the row, the registry.            *)
DeleteCheck(a) ==
    /\ pc[a] = "idle" /\ ~ReadOnly
    /\ Goto(a, "delete")
    /\ UNCHANGED <<inFile, row, cluster, entry, loc, mirror, ver, restarts>>

DeleteBackend(a) ==
    /\ pc[a] = "delete"
    /\ row' = NoRow
    /\ IF row = NoRow THEN Finish(a) ELSE Goto(a, "unregister") /\ UNCHANGED loc
    /\ UNCHANGED <<inFile, cluster, entry, mirror, ver, restarts>>

DeleteUnregister(a) ==
    /\ pc[a] = "unregister"
    /\ Unregister
    /\ Finish(a)
    /\ UNCHANGED <<inFile, row, cluster, mirror, ver, restarts>>

(* A call on the store fails, with no effect; the handler returns.         *)
StoreFails(a) ==
    /\ pc[a] \in {"insert", "rollback", "load", "update", "delete"}
    /\ Finish(a)
    /\ UNCHANGED <<inFile, row, cluster, entry, mirror, ver, restarts>>

-----------------------------------------------------------------------------
(* The cluster: the S3Backend is applied or deleted, its Secret changes.   *)
(* Each is an event for the reconciler.                                    *)
SetCR(v) ==
    /\ ver < MaxVer /\ v # cr
    /\ ver' = ver + 1
    /\ cr' = v /\ crSeen' = TRUE /\ queued' = TRUE
    /\ UNCHANGED <<inFile, row, creds, entry, admin, rpc, built, restarts>>

ChangeSecret ==
    /\ ver < MaxVer
    /\ ver' = ver + 1
    /\ creds' \in {0, ver + 1} \ {creds}
    /\ queued' = (queued \/ cr # 0)
    /\ UNCHANGED <<inFile, row, cr, crSeen, entry, admin, rpc, built, restarts>>

(* Reconcile, for an event, a retry or a resync, which only sees what is   *)
(* there.  It gets the S3Backend ...                                       *)
Reconcile ==
    /\ rpc = "idle" /\ (queued \/ cr # 0)
    /\ queued' = FALSE
    /\ built' = cr
    /\ rpc' = IF cr = 0 THEN "owned" ELSE "resolve"
    /\ UNCHANGED <<inFile, row, cluster, entry, admin, ver, restarts>>

(* Mutant: credentials that do not resolve leave the entry alone.          *)
ResolveStale ==
    /\ rpc = "resolve"
    /\ IF creds = 0 THEN rpc' = "idle" /\ queued' = TRUE /\ UNCHANGED built
       ELSE rpc' = "source" /\ built' = Max({built, creds}) /\ UNCHANGED queued
    /\ UNCHANGED <<inFile, row, cluster, entry, admin, ver, restarts>>

(* ... resolves its credentials, which may have changed since, and builds  *)
(* the driver; if either fails the entry goes and it tries again.          *)
Resolve ==
    /\ rpc = "resolve"
    /\ IF creds = 0 THEN rpc' = "owned" /\ queued' = TRUE /\ UNCHANGED built
       ELSE rpc' = "source" /\ built' = Max({built, creds}) /\ UNCHANGED queued
    /\ UNCHANGED <<inFile, row, cluster, entry, admin, ver, restarts>>

(* unregisterIfK8sOwned: Source, then Unregister.                          *)
CheckOwned ==
    /\ rpc = "owned"
    /\ rpc' = IF entry.source = "k8s" THEN "drop" ELSE "idle"
    /\ UNCHANGED <<inFile, row, cluster, entry, admin, built, queued, ver, restarts>>

Drop ==
    /\ rpc = "drop"
    /\ Unregister
    /\ rpc' = "idle"
    /\ UNCHANGED <<inFile, row, cluster, admin, built, queued, ver, restarts>>

CheckSource ==
    /\ rpc = "source"
    /\ \/ entry = NoEntry /\ rpc' = "register"
       \/ entry.source = "k8s" /\ rpc' = "replace"
       \/ entry.source \in {"config", "db"} /\ rpc' = "idle"
    /\ UNCHANGED <<inFile, row, cluster, entry, admin, built, queued, ver, restarts>>

(* Whichever of the two it is, it may come too late, and is tried again.   *)
Mirror ==
    /\ \/ rpc = "register" /\ RegisterWithSource(built, "k8s") /\ queued' = (queued \/ entry # NoEntry)
       \/ rpc = "replace" /\ Replace(built) /\ queued' = (queued \/ entry = NoEntry)
    /\ rpc' = "idle"
    /\ UNCHANGED <<inFile, row, cluster, admin, built, ver, restarts>>

(* The process restarts, with the file as it is by then.                   *)
Restart ==
    /\ restarts < MaxRestarts
    /\ restarts' = restarts + 1
    /\ inFile' \in BOOLEAN
    /\ entry' = Hydrated(inFile')
    /\ pc' = [a \in Admins |-> "idle"] /\ loc' = [a \in Admins |-> Idle]
    /\ rpc' = "idle" /\ built' = 0 /\ queued' = (cr # 0)
    /\ crSeen' = (cr # 0)
    /\ UNCHANGED <<row, cr, creds, ver>>

Handler(a) ==
    \/ CreateBackend(a) \/ CreateRegister(a) \/ CreateRollback(a)
    \/ PatchLoad(a) \/ PatchUpdate(a) \/ PatchGet(a) \/ PatchReflect(a)
    \/ DeleteBackend(a) \/ DeleteUnregister(a) \/ StoreFails(a)

Reconciler == Reconcile \/ Resolve \/ CheckOwned \/ Drop \/ CheckSource \/ Mirror

Next ==
    \/ \E a \in Admins : Handler(a) \/ PatchCheck(a) \/ DeleteCheck(a)
                           \/ (\E on \in BOOLEAN : CreateCheck(a, on))
    \/ SetCR(ver + 1) \/ SetCR(0) \/ ChangeSecret
    \/ Reconciler \/ Restart

Spec == Init /\ [][Next]_vars

FairSpec == Spec /\ WF_vars(Reconciler) /\ \A a \in Admins : WF_vars(Handler(a))

-----------------------------------------------------------------------------
(* The registry's entry and where the goroutines are.                      *)
TypeOK ==
    /\ row \in [ver : 0 .. ver, enabled : BOOLEAN] /\ {cr, creds} \subseteq 0 .. ver
    /\ entry \in [driver : 1 .. ver, source : {"config", "db", "k8s"}] \cup {NoEntry}
    /\ built \in 0 .. ver
    /\ rpc \in {"idle", "resolve", "owned", "drop", "source", "register", "replace"}

(* "YAML wins on id collisions" (hydrateFromStore), and nobody takes it    *)
(* away while the process runs: not a handler, not the reconciler.         *)
ConfigWins == inFile => entry = Hydrated(TRUE)

(* With nobody but one administrator about, and whenever the process is    *)
(* restarted, the registry holds what the table holds once the handler has *)
(* returned (the handlers' order: row first, registry last), unless a call *)
(* on the store took effect and yet failed.                                *)
RowFollowed ==
    ~inFile /\ ~crSeen /\ (\A a \in Admins : pc[a] = "idle") => entry = Hydrated(FALSE)

(* When changes end, whatever handlers raced with the reconciler, an       *)
(* S3Backend whose credentials resolve has an entry of its id, its own     *)
(* unless the id is taken; and an entry marked as Kubernetes' is of an     *)
(* S3Backend that exists, with its latest configuration and credentials    *)
(* (Reconcile, unregisterIfK8sOwned).  It says nothing of an entry marked  *)
(* as the table's: handlers that looked at the source earlier may take the *)
(* entry away and put the table's in its place between Source and Replace; *)
(* Replace then leaves the S3Backend's driver there under that mark, and   *)
(* no later reconcile touches it.                                          *)
Mirrored ==
    <>[](/\ cr # 0 /\ creds # 0 => entry # NoEntry
         /\ entry.source = "k8s" => cr # 0 /\ creds # 0 /\ entry.driver = Max({cr, creds}))
=============================================================================
