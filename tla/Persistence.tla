------------------------------ MODULE Persistence ------------------------------
(***************************************************************************)
(* What the server keeps on disk and what it keeps in memory: the file     *)
(* storage (storage/storage.go), the user store (auth/filestore.go), the   *)
(* certificate store (credentials/cert_store.go), the API handlers that    *)
(* change them, the deploy handler, start-up with the OPC UA migration,    *)
(* graceful shutdown, and a crash of the process at any moment.            *)
(*                                                                         *)
(* Every request is served by a goroutine; the ones that write a file take *)
(* the mutex of their store first and then the mutex of the file storage.  *)
(***************************************************************************)
EXTENDS Naturals, FiniteSets

CONSTANTS
    Jobs,       \* goroutines that serve requests
    Users,      \* user names; users are never deleted, so a name is an ID
    Installer,  \* the first admin of an installation that was set up before
    Certs,      \* certificate IDs
    OpcCert,    \* the ID the migration gives the legacy OPC UA key pair
    Workspaces, \* the workspaces clients deploy
    Traffic,    \* sets of request kinds; a behaviour sends those of one set
    Free,       \* nobody: a mutex that is not held, a request without an ID
    Absent,     \* no record under this ID
    Torn        \* a file whose writer died in the middle: it cannot be parsed

VARIABLES
    disk,     \* file -> content
    mem,      \* the in-memory copies of the user and certificate store
    fsMu,     \* FileStorage.mu, held for writing
    storeMu,  \* FileStore.mu and CertStore.mu, held for writing
    setupMu,  \* authDeps.setupMu
    srv,      \* where the process stands
    engine,   \* whether the flow engine runs, and which workspace
    job,      \* the request a goroutine serves and how far it has come
    traffic,  \* the kinds of requests of this behaviour
    founders, \* history: users whose record a setup request wrote
    deleted,  \* history: certificates a request deleted
    orderly   \* history: since start-up no two deploys overlapped, none failed
              \* after its save

vars == <<disk, mem, fsMu, storeMu, setupMu, srv, engine, job, traffic,
          founders, deleted, orderly>>

store == <<fsMu, storeMu, setupMu>>

history == <<founders, deleted, orderly>>

--------------------------------------------------------------------------------
(* Contents.  A workspace is what the stores have to do with it: the         *)
(* certificates named in "tls" blocks, and whether an OPC UA configuration   *)
(* has legacy key paths or a certRef.                                        *)

Workspace == [tls : SUBSET Certs, opc : {"none", "legacy", "ref"}]

Empty == [tls |-> {}, opc |-> "none"]

Account == [admin : BOOLEAN, disabled : BOOLEAN]

Entry == [version : {1, 2}]

ASSUME PersistenceAssumption ==
    /\ Free \notin Jobs \cup Users \cup Certs
    /\ Absent \notin Account \cup Entry
    /\ OpcCert \in Certs
    /\ Workspaces \subseteq Workspace
    /\ Installer \in Users

UserTable == [Users -> Account \cup {Absent}]

CertTable == [Certs -> Entry \cup {Absent}]

NoUsers == [u \in Users |-> Absent]

NoCerts == [c \in Certs |-> Absent]

ActiveAdmins(t) ==
    {u \in Users : t[u] # Absent /\ t[u].admin /\ ~t[u].disabled}

DeployOps == {"deploy", "restart"}

UserOps == {"setup", "create", "update"}

CertOps == {"cert store", "cert update", "cert delete"}

(* The file a request writes.                                                *)
File(op) ==
    IF op \in DeployOps THEN "flows" ELSE IF op \in UserOps THEN "users" ELSE "certs"

PCs == {"idle", "setup lock", "setup count", "scan", "store lock", "fs lock", "temp",
        "rename", "saved", "failed", "stop", "start", "deploy"}

Ops == DeployOps \cup UserOps \cup CertOps \cup {"none"}

Value == Workspace \cup Account \cup Entry \cup {Absent}

(* A goroutine: where it stands, the kind of its request, the user or        *)
(* certificate it is about and the value it carries.                         *)
Requests == [pc : PCs, op : Ops, id : Users \cup Certs \cup {Free}, val : Value]

Idle == [pc |-> "idle", op |-> "none", id |-> Free, val |-> Absent]

At(j, pc) == job[j].pc = pc

(* The goroutine goes on at pc; the handler returns.                         *)
Goto(j, pc) == job' = [job EXCEPT ![j].pc = pc]

Return(j) == job' = [job EXCEPT ![j] = Idle]

Init ==
    /\ disk \in [flows : {Empty},
                 users : {NoUsers,
                          [NoUsers EXCEPT ![Installer] = [admin |-> TRUE, disabled |-> FALSE]]},
                 certs : {NoCerts}]
    /\ mem = [users |-> NoUsers, certs |-> NoCerts]
    /\ fsMu = Free
    /\ storeMu = [users |-> Free, certs |-> Free]
    /\ setupMu = Free
    /\ srv = "down"
    /\ engine = [running |-> FALSE, ws |-> Empty]
    /\ job = [j \in Jobs |-> Idle]
    /\ traffic \in Traffic
    /\ founders = ActiveAdmins(disk.users)
    /\ deleted = {}
    /\ orderly = TRUE

--------------------------------------------------------------------------------
(* Start-up, shutdown, crash.                                                *)

(* server.New: the certificate store is loaded.  A torn file ends start-up. *)
BootLoadCerts ==
    /\ srv = "down"
    /\ Torn \notin {disk.flows, disk.users, disk.certs}
    /\ mem' = [mem EXCEPT !.certs = disk.certs]
    /\ srv' = IF disk.flows.opc = "legacy" THEN "migrate" ELSE "users"
    /\ UNCHANGED <<disk, store, engine, job, traffic, history>>

(* migrateOpcuaCertConfigs: the legacy key pair is stored, an entry of an    *)
(* earlier attempt is reused, or the migration is given up for this time.    *)
MigrateCert ==
    /\ srv = "migrate"
    /\ \/ /\ mem.certs[OpcCert] = Absent
          /\ mem' = [mem EXCEPT !.certs[OpcCert] = [version |-> 1]]
          /\ disk' = [disk EXCEPT !.certs = mem'.certs]
          /\ srv' = "migrated"
       \/ /\ mem.certs[OpcCert] # Absent
          /\ srv' = "migrated"
          /\ UNCHANGED <<mem, disk>>
       \/ /\ mem.certs[OpcCert] = Absent
          /\ srv' = "users"
          /\ UNCHANGED <<mem, disk>>
    /\ UNCHANGED <<store, engine, job, traffic, history>>

(* The rewritten workspace is saved, or that fails and is only logged.       *)
MigrateSave ==
    /\ srv = "migrated"
    /\ srv' = "users"
    /\ \/ disk' = [disk EXCEPT !.flows.opc = "ref"]
       \/ UNCHANGED disk
    /\ UNCHANGED <<mem, store, engine, job, traffic, history>>

BootLoadUsers ==
    /\ srv = "users"
    /\ mem' = [mem EXCEPT !.users = disk.users]
    /\ srv' = "start"
    /\ UNCHANGED <<disk, store, engine, job, traffic, history>>

(* Server.Start: the engine starts, the saved workspace is deployed, then    *)
(* the server listens.                                                       *)
BootStart ==
    /\ srv = "start"
    /\ engine' = [running |-> TRUE, ws |-> disk.flows]
    /\ srv' = "up"
    /\ orderly' = TRUE
    /\ UNCHANGED <<disk, mem, store, job, traffic, founders, deleted>>

(* Server.Shutdown: the engine is stopped, then requests in flight may       *)
(* finish.                                                                   *)
Shutdown ==
    /\ srv = "up"
    /\ srv' = "draining"
    /\ engine' = [running |-> FALSE, ws |-> Empty]
    /\ UNCHANGED <<disk, mem, store, job, traffic, history>>

(* The process is gone, and with it memory, locks and requests.              *)
ProcessEnds ==
    /\ srv' = "down"
    /\ mem' = [users |-> NoUsers, certs |-> NoCerts]
    /\ fsMu' = Free
    /\ storeMu' = [users |-> Free, certs |-> Free]
    /\ setupMu' = Free
    /\ engine' = [running |-> FALSE, ws |-> Empty]
    /\ job' = [j \in Jobs |-> Idle]
    /\ UNCHANGED <<disk, traffic, history>>

(* All requests are answered: httpServer.Shutdown returns and main ends.     *)
Exit ==
    /\ srv = "draining"
    /\ \A j \in Jobs : job[j] = Idle
    /\ ProcessEnds

(* A crash, or the end of the grace period of a shutdown.                    *)
Crash ==
    /\ srv # "down"
    /\ ProcessEnds

--------------------------------------------------------------------------------
(* Requests.  All but setup pass RequireSetupComplete, which reads the user  *)
(* store under its read lock.                                                *)

Accept(j, op, id, val, pc) ==
    /\ srv = "up"
    /\ job[j] = Idle
    /\ op \in traffic
    /\ job' = [job EXCEPT ![j] = [pc |-> pc, op |-> op, id |-> id, val |-> val]]

SetupComplete ==
    /\ storeMu.users = Free
    /\ ActiveAdmins(mem.users) # {}

Deploying(j) == job[j].op \in DeployOps

(* POST /flows.                                                              *)
handleDeployFlows(j) ==
    /\ SetupComplete
    /\ \E op \in DeployOps, ws \in Workspaces : Accept(j, op, Free, ws, "fs lock")
    /\ orderly' = (orderly /\ \A k \in Jobs : ~Deploying(k))
    /\ UNCHANGED <<disk, mem, store, srv, engine, traffic, founders, deleted>>

(* POST /setup: waits for setupMu, then counts the active admins.            *)
handleSetup(j) ==
    /\ \E u \in Users :
           Accept(j, "setup", u, [admin |-> TRUE, disabled |-> FALSE], "setup lock")
    /\ UNCHANGED <<disk, mem, store, srv, engine, traffic, history>>

SetupLock(j) ==
    /\ At(j, "setup lock")
    /\ setupMu = Free
    /\ setupMu' = j
    /\ Goto(j, "setup count")
    /\ UNCHANGED <<disk, mem, fsMu, storeMu, srv, engine, traffic, history>>

SetupCount(j) ==
    /\ At(j, "setup count")
    /\ storeMu.users = Free
    /\ \/ /\ ActiveAdmins(mem.users) = {}
          /\ Goto(j, "store lock")
          /\ UNCHANGED setupMu
       \/ /\ ActiveAdmins(mem.users) # {}
          /\ Return(j)
          /\ setupMu' = Free
    /\ UNCHANGED <<disk, mem, fsMu, storeMu, srv, engine, traffic, history>>

(* POST /users.                                                              *)
handleCreateUser(j) ==
    /\ SetupComplete
    /\ \E u \in Users, a \in BOOLEAN :
           Accept(j, "create", u, [admin |-> a, disabled |-> FALSE], "store lock")
    /\ UNCHANGED <<disk, mem, store, srv, engine, traffic, history>>

(* PATCH /users/{id}: role, disabled or both are changed in a copy that was  *)
(* read under the read lock; the copy is written back later.                 *)
handleUpdateUser(j) ==
    /\ SetupComplete
    /\ \E u \in Users, a \in BOOLEAN, d \in BOOLEAN :
           /\ mem.users[u] # Absent
           /\ Accept(j, "update", u, [admin |-> a, disabled |-> d], "store lock")
    /\ UNCHANGED <<disk, mem, store, srv, engine, traffic, history>>

(* POST /users/{id}/password: role and disabled go back as they were read.   *)
handleSetPassword(j) ==
    /\ SetupComplete
    /\ \E u \in Users :
           /\ mem.users[u] # Absent
           /\ Accept(j, "update", u, mem.users[u], "store lock")
    /\ UNCHANGED <<disk, mem, store, srv, engine, traffic, history>>

(* POST /certs and PUT /certs/{id}.                                          *)
handleSaveCert(j) ==
    /\ SetupComplete
    /\ \E op \in {"cert store", "cert update"}, c \in Certs, e \in Entry :
           Accept(j, op, c, e, "store lock")
    /\ UNCHANGED <<disk, mem, store, srv, engine, traffic, history>>

(* DELETE /certs/{id}: the saved workspace is scanned for references first.  *)
handleDeleteCert(j) ==
    /\ SetupComplete
    /\ \E c \in Certs : Accept(j, "cert delete", c, Absent, "scan")
    /\ UNCHANGED <<disk, mem, store, srv, engine, traffic, history>>

ScanCertReferences(j) ==
    /\ At(j, "scan")
    /\ fsMu = Free
    /\ \/ job[j].id \notin disk.flows.tls /\ Goto(j, "store lock")
       \/ job[j].id \in disk.flows.tls /\ Return(j)
    /\ UNCHANGED <<disk, mem, store, srv, engine, traffic, history>>

--------------------------------------------------------------------------------
(* The stores.  The mutex is held from the check to the commit.              *)

(* A plausible slip: the record to be changed is counted among the others.   *)
LosesLastAdminCountsSelf(u, new) ==
    /\ u \in ActiveAdmins(mem.users)
    /\ ~(new.admin /\ ~new.disabled)
    /\ ActiveAdmins(mem.users) = {}

(* FileStore.Update: the record loses the last active admin.                 *)
LosesLastAdmin(u, new) ==
    /\ u \in ActiveAdmins(mem.users)
    /\ ~(new.admin /\ ~new.disabled)
    /\ ActiveAdmins(mem.users) \ {u} = {}

(* FileStore.Create, Update and CertStore.Store, Update, Delete refuse.      *)
Refused(r) ==
    \/ r.op \in {"setup", "create"} /\ mem.users[r.id] # Absent
    \/ r.op = "update" /\ LosesLastAdmin(r.id, r.val)
    \/ r.op = "cert store" /\ mem.certs[r.id] # Absent
    \/ r.op \in {"cert update", "cert delete"} /\ mem.certs[r.id] = Absent

StoreRefuses(j) ==
    /\ At(j, "store lock")
    /\ storeMu[File(job[j].op)] = Free
    /\ Refused(job[j])
    /\ Return(j)
    /\ setupMu' = IF setupMu = j THEN Free ELSE setupMu
    /\ UNCHANGED <<disk, mem, fsMu, storeMu, srv, engine, traffic, history>>

(* The user store persists before it changes memory.                         *)
UserStoreLock(j) ==
    /\ At(j, "store lock")
    /\ job[j].op \in UserOps
    /\ storeMu.users = Free
    /\ ~Refused(job[j])
    /\ storeMu' = [storeMu EXCEPT !.users = j]
    /\ Goto(j, "fs lock")
    /\ UNCHANGED <<disk, mem, fsMu, setupMu, srv, engine, traffic, history>>

(* The certificate store changes memory first and keeps the old entry for    *)
(* the rollback.                                                             *)
CertStoreLock(j) ==
    /\ At(j, "store lock")
    /\ job[j].op \in CertOps
    /\ storeMu.certs = Free
    /\ ~Refused(job[j])
    /\ storeMu' = [storeMu EXCEPT !.certs = j]
    /\ mem' = [mem EXCEPT !.certs[job[j].id] = job[j].val]
    /\ job' = [job EXCEPT ![j].pc = "fs lock", ![j].val = mem.certs[job[j].id]]
    /\ UNCHANGED <<disk, fsMu, setupMu, srv, engine, traffic, history>>

--------------------------------------------------------------------------------
(* FileStorage: SaveWorkspace, SaveUsers, SaveCredentials.                   *)

(* What the request writes to its file.                                      *)
Data(r) ==
    IF r.op \in DeployOps THEN r.val
    ELSE IF r.op \in UserOps THEN [mem.users EXCEPT ![r.id] = r.val]
    ELSE mem.certs

FsLock(j) ==
    /\ At(j, "fs lock")
    /\ fsMu = Free
    /\ fsMu' = j
    /\ Goto(j, "temp")
    /\ UNCHANGED <<disk, mem, storeMu, setupMu, srv, engine, traffic, history>>

(* A plausible slip: the file is opened for writing in place.                *)
WriteInPlace(j) ==
    /\ At(j, "temp")
    /\ Goto(j, "rename")
    /\ disk' = [disk EXCEPT ![File(job[j].op)] = Torn]
    /\ UNCHANGED <<mem, store, srv, engine, traffic, history>>

(* atomicWriteFile up to Close: a temporary file that nobody reads.          *)
WriteTemp(j) ==
    /\ At(j, "temp")
    /\ Goto(j, "rename")
    /\ UNCHANGED <<disk, mem, store, srv, engine, traffic, history>>

(* os.Rename: from now on the file is the new one.                           *)
Rename(j) ==
    /\ At(j, "rename")
    /\ disk' = [disk EXCEPT ![File(job[j].op)] = Data(job[j])]
    /\ fsMu' = Free
    /\ Goto(j, "saved")
    /\ founders' = founders \cup {u \in {job[j].id} : job[j].op = "setup"}
    /\ deleted' = deleted \cup {c \in {job[j].id} : job[j].op = "cert delete"}
    /\ UNCHANGED <<mem, storeMu, setupMu, srv, engine, traffic, orderly>>

(* Any step of atomicWriteFile fails; the temporary file is removed.         *)
WriteFails(j) ==
    /\ job[j].pc \in {"temp", "rename"}
    /\ fsMu' = Free
    /\ Goto(j, "failed")
    /\ UNCHANGED <<disk, mem, storeMu, setupMu, srv, engine, traffic, history>>

--------------------------------------------------------------------------------
(* What follows the save.                                                    *)

Unlock(j) ==
    /\ storeMu' = [storeMu EXCEPT ![File(job[j].op)] = Free]
    /\ setupMu' = IF setupMu = j THEN Free ELSE setupMu

(* FileStore.Create and Update, setup: memory follows the file.              *)
UserSaved(j) ==
    /\ At(j, "saved")
    /\ job[j].op \in UserOps
    /\ mem' = [mem EXCEPT !.users[job[j].id] = job[j].val]
    /\ Unlock(j)
    /\ Return(j)
    /\ UNCHANGED <<disk, fsMu, srv, engine, traffic, history>>

(* A plausible slip: the error path returns without unlocking.               *)
UserNotSavedLocked(j) ==
    /\ At(j, "failed")
    /\ job[j].op \in UserOps
    /\ Return(j)
    /\ UNCHANGED <<disk, mem, store, srv, engine, traffic, history>>

UserNotSaved(j) ==
    /\ At(j, "failed")
    /\ job[j].op \in UserOps
    /\ Unlock(j)
    /\ Return(j)
    /\ UNCHANGED <<disk, mem, fsMu, srv, engine, traffic, history>>

CertSaved(j) ==
    /\ At(j, "saved")
    /\ job[j].op \in CertOps
    /\ Unlock(j)
    /\ Return(j)
    /\ UNCHANGED <<disk, mem, fsMu, srv, engine, traffic, history>>

(* A plausible slip: the failed entry stays in the cache.                    *)
CertNotSavedKept(j) ==
    /\ At(j, "failed")
    /\ job[j].op \in CertOps
    /\ Unlock(j)
    /\ Return(j)
    /\ UNCHANGED <<disk, mem, fsMu, srv, engine, traffic, history>>

(* CertStore: the cache goes back to what it was.                            *)
CertNotSaved(j) ==
    /\ At(j, "failed")
    /\ job[j].op \in CertOps
    /\ mem' = [mem EXCEPT !.certs[job[j].id] = job[j].val]
    /\ Unlock(j)
    /\ Return(j)
    /\ UNCHANGED <<disk, fsMu, srv, engine, traffic, history>>

(* The deploy handler goes on to the engine only after a save.               *)
DeploySaved(j) ==
    /\ At(j, "saved")
    /\ Deploying(j)
    /\ Goto(j, IF job[j].op = "restart" THEN "stop" ELSE "deploy")
    /\ UNCHANGED <<disk, mem, store, srv, engine, traffic, history>>

(* A plausible slip: a failed save is only logged.                           *)
DeployNotSavedGoesOn(j) ==
    /\ At(j, "failed")
    /\ Deploying(j)
    /\ Goto(j, "deploy")
    /\ UNCHANGED <<disk, mem, store, srv, engine, traffic, history>>

DeployNotSaved(j) ==
    /\ At(j, "failed")
    /\ Deploying(j)
    /\ Return(j)
    /\ UNCHANGED <<disk, mem, store, srv, engine, traffic, history>>

(* Engine.Stop, Engine.Start and Engine.Deploy, each under the engine lock.  *)
EngineStop(j) ==
    /\ At(j, "stop")
    /\ engine' = [running |-> FALSE, ws |-> Empty]
    /\ Goto(j, "start")
    /\ UNCHANGED <<disk, mem, store, srv, traffic, history>>

EngineStart(j) ==
    /\ At(j, "start")
    /\ \/ /\ ~engine.running
          /\ engine' = [running |-> TRUE, ws |-> Empty]
          /\ Goto(j, "deploy")
          /\ UNCHANGED orderly
       \/ /\ engine.running
          /\ Return(j)
          /\ orderly' = FALSE
          /\ UNCHANGED engine
    /\ UNCHANGED <<disk, mem, store, srv, traffic, founders, deleted>>

EngineDeploy(j) ==
    /\ At(j, "deploy")
    /\ Return(j)
    /\ \/ /\ engine.running
          /\ engine' = [engine EXCEPT !.ws = job[j].val]
          /\ UNCHANGED orderly
       \/ /\ ~engine.running
          /\ orderly' = FALSE
          /\ UNCHANGED engine
    /\ UNCHANGED <<disk, mem, store, srv, traffic, founders, deleted>>

--------------------------------------------------------------------------------
Request(j) ==
    \/ handleDeployFlows(j) \/ handleSetup(j) \/ handleCreateUser(j)
    \/ handleUpdateUser(j) \/ handleSetPassword(j)
    \/ handleSaveCert(j) \/ handleDeleteCert(j)

Step(j) ==
    \/ SetupLock(j) \/ SetupCount(j) \/ ScanCertReferences(j)
    \/ StoreRefuses(j) \/ UserStoreLock(j) \/ CertStoreLock(j)
    \/ FsLock(j) \/ WriteTemp(j) \/ Rename(j) \/ WriteFails(j)
    \/ UserSaved(j) \/ UserNotSaved(j) \/ CertSaved(j) \/ CertNotSaved(j)
    \/ DeploySaved(j) \/ DeployNotSaved(j)
    \/ EngineStop(j) \/ EngineStart(j) \/ EngineDeploy(j)

Process ==
    \/ BootLoadCerts \/ MigrateCert \/ MigrateSave \/ BootLoadUsers \/ BootStart
    \/ Shutdown \/ Exit \/ Crash

Next ==
    \/ Process
    \/ \E j \in Jobs : Request(j) \/ Step(j)

(* A goroutine goes on, and Go's mutexes starve nobody: one that waits gets  *)
(* its turn if the mutex is released again and again.                        *)
Spec ==
    /\ Init
    /\ [][Next]_vars
    /\ \A j \in Jobs : SF_vars(Step(j))

--------------------------------------------------------------------------------
(* The type invariant.  Every file holds, at every moment and so after every *)
(* crash, a complete content: atomicWriteFile never exposes a half-written   *)
(* one.                                                                      *)
TypeOK ==
    /\ disk \in [flows : Workspace, users : UserTable, certs : CertTable]
    /\ mem \in [users : UserTable, certs : CertTable]
    /\ fsMu \in Jobs \cup {Free}
    /\ storeMu \in [users : Jobs \cup {Free}, certs : Jobs \cup {Free}]
    /\ setupMu \in Jobs \cup {Free}
    /\ srv \in {"down", "migrate", "migrated", "users", "start", "up", "draining"}
    /\ engine \in [running : BOOLEAN, ws : Workspace]
    /\ job \in [Jobs -> Requests]
    /\ traffic \in Traffic
    /\ founders \subseteq Users
    /\ deleted \subseteq Certs
    /\ orderly \in BOOLEAN

(* A store whose mutex is free answers from memory what the file says, after *)
(* failed saves, rollbacks and restarts too.                                 *)
MemoryMatchesDisk ==
    srv \in {"up", "draining"} =>
        \A f \in {"users", "certs"} : storeMu[f] = Free => mem[f] = disk[f]

(* The migration writes a certRef only when its certificate is on disk, so a *)
(* crash or a failed save in the middle leaves nothing dangling.  What a     *)
(* client deploys is the client's: no handler resolves its references.       *)
MigratedRefResolves ==
    disk.flows.opc = "ref" /\ disk.flows \notin Workspaces /\ OpcCert \notin deleted =>
        disk.certs[OpcCert] # Absent

(* "If any node still references the cert, the request is rejected with 409  *)
(* Conflict" (handleDeleteCert): a certificate is deleted only while the     *)
(* saved workspace does not name it.  Refuted: the scan does not look at the *)
(* certRef of OPC UA nodes, and a deploy may come between scan and delete.   *)
DeletedUnreferenced ==
    [][\A c \in deleted' \ deleted :
          c \notin disk.flows.tls /\ (c = OpcCert => disk.flows.opc # "ref")]_vars

(* Memory, files and the references between files agree (CertStore and       *)
(* FileStore commit and roll back as a whole; migrateOpcuaCertConfigs stores *)
(* the certificate first).                                                   *)
StoresAgree == MemoryMatchesDisk /\ MigratedRefResolves

(* Concurrent setup requests make one first admin (setupMu), and from then   *)
(* on there is always an active admin, in the file and in a running server's *)
(* memory, whatever stale copies the update handlers write back              *)
(* (FileStore.Update).                                                       *)
AdminRule ==
    /\ Cardinality(founders) <= 1
    /\ founders # {} => ActiveAdmins(disk.users) # {}
    /\ founders # {} /\ srv \in {"up", "draining"} /\ storeMu.users = Free =>
           ActiveAdmins(mem.users) # {}

(* As long as deploys came one after the other and none failed half-way, the *)
(* engine runs the workspace the next start would load: a restart changes    *)
(* nothing (handleDeployFlows, Server.Start).                                *)
RunningIsSaved ==
    srv = "up" /\ orderly /\ (\A j \in Jobs : ~Deploying(j)) =>
        engine.running /\ engine.ws = disk.flows

(* What the process serves and runs is what a restart would load, after any  *)
(* crash and any save that failed (FileStore, CertStore, handleDeployFlows). *)
ServesWhatIsStored == StoresAgree /\ RunningIsSaved

(* Every request is answered, unless the process ends: the mutexes are taken *)
(* in one order and released on every path.                                  *)
RequestReturns == \A j \in Jobs : ~At(j, "idle") ~> At(j, "idle")

================================================================================
