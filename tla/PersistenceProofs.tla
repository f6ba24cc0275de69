--------------------------- MODULE PersistenceProofs ---------------------------
(***************************************************************************)
(* Proofs about Persistence, for any number of concurrent requests, users, *)
(* certificates and workspaces.                                            *)
(***************************************************************************)
EXTENDS Persistence, FiniteSetTheorems, TLAPS

--------------------------------------------------------------------------------
(* The requests.                                                             *)

(* A request carries the ID and the value its kind calls for, and is where   *)
(* its kind may be.                                                          *)
Shape(r) ==
    /\ r.op \in DeployOps => r.val \in Workspace
    /\ r.op \in UserOps => r.id \in Users /\ r.val \in Account
    /\ r.op \in CertOps => r.id \in Certs /\ r.val \in Entry \cup {Absent}
    /\ r.op = "setup" => r.val.admin /\ ~r.val.disabled
    /\ r.pc \in {"stop", "start", "deploy"} => r.op \in DeployOps
    /\ r.pc \in {"setup lock", "setup count"} => r.op = "setup"
    /\ r.pc = "scan" => r.op = "cert delete"
    /\ (r.pc = "idle") <=> (r.op = "none")

JobsOK == job \in [Jobs -> Requests] /\ \A j \in Jobs : Shape(job[j])

(* A goroutine without a request is well-formed.                             *)
LEMMA IdleOK == Idle \in Requests /\ Shape(Idle)
BY DEF Idle, Requests, Shape, PCs, Ops, Value, DeployOps, UserOps, CertOps

(* A goroutine may take any well-formed request.                             *)
LEMMA SetRequest ==
    ASSUME JobsOK, NEW j \in Jobs, NEW r \in Requests, Shape(r),
           job' = [job EXCEPT ![j] = r]
    PROVE  JobsOK'
BY DEF JobsOK

(* A handler may return.                                                     *)
LEMMA ReturnOK == ASSUME JobsOK, NEW j \in Jobs, Return(j) PROVE JobsOK'
BY IdleOK, SetRequest DEF Return

(* A handler may accept a well-formed request.                               *)
LEMMA AcceptOK ==
    ASSUME JobsOK, NEW j \in Jobs, NEW op, NEW id, NEW val, NEW pc,
           Accept(j, op, id, val, pc),
           [pc |-> pc, op |-> op, id |-> id, val |-> val] \in Requests,
           Shape([pc |-> pc, op |-> op, id |-> id, val |-> val])
    PROVE  JobsOK'
BY SetRequest DEF Accept

(* A goroutine may go on to pc if its kind of request may be there.          *)
LEMMA GotoOK ==
    ASSUME JobsOK, NEW j \in Jobs, NEW pc \in PCs, Goto(j, pc),
           Shape([job[j] EXCEPT !.pc = pc])
    PROVE  JobsOK'
<1> DEFINE r == [job[j] EXCEPT !.pc = pc]
<1>1. r \in Requests
  BY DEF JobsOK, Requests
<1>2. job' = [job EXCEPT ![j] = r]
  BY DEF Goto
<1> QED
  BY <1>1, <1>2, SetRequest

(* Every kind of request may take the store lock and write a file.           *)
LEMMA GoOn ==
    ASSUME JobsOK, NEW j \in Jobs, job[j].pc # "idle",
           NEW pc \in {"store lock", "fs lock", "temp", "rename", "saved", "failed"},
           Goto(j, pc)
    PROVE  JobsOK'
<1>1. Shape([job[j] EXCEPT !.pc = pc])
  BY DEF JobsOK, Shape, Requests
<1> QED
  BY <1>1, GotoOK DEF PCs

(* A deploy may go on to the engine.                                         *)
LEMMA ToEngine ==
    ASSUME JobsOK, NEW j \in Jobs, job[j].op \in DeployOps,
           NEW pc \in {"stop", "start", "deploy"}, Goto(j, pc)
    PROVE  JobsOK'
<1>1. Shape([job[j] EXCEPT !.pc = pc])
  BY DEF JobsOK, Shape, Requests, DeployOps
<1> QED
  BY <1>1, GotoOK DEF PCs

(* A setup request that gets setupMu goes on to count the admins.            *)
LEMMA SetupLockOK == ASSUME JobsOK, NEW j \in Jobs, SetupLock(j) PROVE JobsOK'
<1>1. Shape([job[j] EXCEPT !.pc = "setup count"])
  BY DEF SetupLock, At, JobsOK, Shape, Requests, DeployOps
<1> QED
  BY <1>1, GotoOK DEF SetupLock, PCs

(* The certificate store keeps the old entry in the request.                 *)
LEMMA CertLockOK ==
    ASSUME TypeOK, JobsOK, NEW j \in Jobs, CertStoreLock(j)
    PROVE  JobsOK'
<1> DEFINE r == [job[j] EXCEPT !.pc = "fs lock", !.val = mem.certs[job[j].id]]
<1>1. job[j].id \in Certs
  BY DEF JobsOK, Shape, CertStoreLock
<1>2. mem.certs[job[j].id] \in Entry \cup {Absent}
  BY <1>1 DEF TypeOK, CertTable
<1>3. r \in Requests
  <2>1. job[j] \in Requests
    BY DEF JobsOK
  <2>2. mem.certs[job[j].id] \in Value /\ "fs lock" \in PCs
    BY <1>2 DEF Value, PCs
  <2> QED
    BY <2>1, <2>2 DEF Requests
<1>4. Shape(r)
  BY <1>1, <1>2, <1>3 DEF JobsOK, Shape, Requests, CertStoreLock, At, CertOps, UserOps,
     DeployOps
<1>5. job' = [job EXCEPT ![j] = r]
  BY DEF CertStoreLock
<1> QED
  BY <1>3, <1>4, <1>5, SetRequest

(* Every step leaves well-formed requests.                                   *)
LEMMA JobsNext == TypeOK /\ JobsOK /\ [Next]_vars => JobsOK'
<1> SUFFICES ASSUME TypeOK, JobsOK, [Next]_vars PROVE JobsOK'
  OBVIOUS
<1>0. mem.users \in UserTable
  BY DEF TypeOK
<1>1. CASE BootLoadCerts
  BY <1>1
     DEF BootLoadCerts, JobsOK
<1>2. CASE MigrateCert
  BY <1>2
     DEF MigrateCert, JobsOK
<1>3. CASE MigrateSave
  BY <1>3
     DEF MigrateSave, JobsOK
<1>4. CASE BootLoadUsers
  BY <1>4
     DEF BootLoadUsers, JobsOK
<1>5. CASE BootStart
  BY <1>5
     DEF BootStart, JobsOK
<1>6. CASE Shutdown
  BY <1>6
     DEF Shutdown, JobsOK
<1>7. CASE Exit
  BY <1>7, IdleOK
     DEF Exit, ProcessEnds, JobsOK
<1>8. CASE Crash
  BY <1>8, IdleOK
     DEF Crash, ProcessEnds, JobsOK
<1>9. ASSUME NEW j \in Jobs, handleDeployFlows(j) PROVE JobsOK'
  BY <1>9, AcceptOK, PersistenceAssumption
     DEF handleDeployFlows, Requests, Shape, PCs, Ops, Value, DeployOps, UserOps,
         CertOps, Account
<1>10. ASSUME NEW j \in Jobs, handleSetup(j) PROVE JobsOK'
  BY <1>10, AcceptOK, PersistenceAssumption
     DEF handleSetup, Requests, Shape, PCs, Ops, Value, DeployOps, UserOps, CertOps,
         Account
<1>11. ASSUME NEW j \in Jobs, handleCreateUser(j) PROVE JobsOK'
  BY <1>11, AcceptOK, PersistenceAssumption
     DEF handleCreateUser, Requests, Shape, PCs, Ops, Value, DeployOps, UserOps,
         CertOps, Account
<1>12. ASSUME NEW j \in Jobs, handleUpdateUser(j) PROVE JobsOK'
  BY <1>12, AcceptOK, PersistenceAssumption
     DEF handleUpdateUser, Requests, Shape, PCs, Ops, Value, DeployOps, UserOps,
         CertOps, Account
<1>13. ASSUME NEW j \in Jobs, handleSetPassword(j) PROVE JobsOK'
  BY <1>13, AcceptOK, PersistenceAssumption, <1>0
     DEF handleSetPassword, Requests, Shape, PCs, Ops, Value, DeployOps, UserOps,
         CertOps, Account, UserTable
<1>14. ASSUME NEW j \in Jobs, handleSaveCert(j) PROVE JobsOK'
  BY <1>14, AcceptOK, PersistenceAssumption
     DEF handleSaveCert, Requests, Shape, PCs, Ops, Value, DeployOps, UserOps,
         CertOps, Account
<1>15. ASSUME NEW j \in Jobs, handleDeleteCert(j) PROVE JobsOK'
  BY <1>15, AcceptOK, PersistenceAssumption
     DEF handleDeleteCert, Requests, Shape, PCs, Ops, Value, DeployOps, UserOps,
         CertOps, Account
<1>16. ASSUME NEW j \in Jobs, SetupLock(j) PROVE JobsOK'
  BY <1>16, SetupLockOK
     DEF SetupLock
<1>17. ASSUME NEW j \in Jobs, SetupCount(j) PROVE JobsOK'
  BY <1>17, GoOn, ReturnOK
     DEF SetupCount, At
<1>18. ASSUME NEW j \in Jobs, ScanCertReferences(j) PROVE JobsOK'
  BY <1>18, GoOn, ReturnOK
     DEF ScanCertReferences, At
<1>19. ASSUME NEW j \in Jobs, StoreRefuses(j) PROVE JobsOK'
  BY <1>19, ReturnOK
     DEF StoreRefuses
<1>20. ASSUME NEW j \in Jobs, UserStoreLock(j) PROVE JobsOK'
  BY <1>20, GoOn
     DEF UserStoreLock, At
<1>21. ASSUME NEW j \in Jobs, CertStoreLock(j) PROVE JobsOK'
  BY <1>21, CertLockOK
     DEF CertStoreLock
<1>22. ASSUME NEW j \in Jobs, FsLock(j) PROVE JobsOK'
  BY <1>22, GoOn
     DEF FsLock, At
<1>23. ASSUME NEW j \in Jobs, WriteTemp(j) PROVE JobsOK'
  BY <1>23, GoOn
     DEF WriteTemp, At
<1>24. ASSUME NEW j \in Jobs, Rename(j) PROVE JobsOK'
  BY <1>24, GoOn
     DEF Rename, At
<1>25. ASSUME NEW j \in Jobs, WriteFails(j) PROVE JobsOK'
  BY <1>25, GoOn
     DEF WriteFails, At
<1>26. ASSUME NEW j \in Jobs, UserSaved(j) PROVE JobsOK'
  BY <1>26, ReturnOK
     DEF UserSaved
<1>27. ASSUME NEW j \in Jobs, UserNotSaved(j) PROVE JobsOK'
  BY <1>27, ReturnOK
     DEF UserNotSaved
<1>28. ASSUME NEW j \in Jobs, CertSaved(j) PROVE JobsOK'
  BY <1>28, ReturnOK
     DEF CertSaved
<1>29. ASSUME NEW j \in Jobs, CertNotSaved(j) PROVE JobsOK'
  BY <1>29, ReturnOK
     DEF CertNotSaved
<1>30. ASSUME NEW j \in Jobs, DeploySaved(j) PROVE JobsOK'
  BY <1>30, ToEngine, ReturnOK
     DEF DeploySaved, At, Deploying, JobsOK, Shape, DeployOps
<1>31. ASSUME NEW j \in Jobs, DeployNotSaved(j) PROVE JobsOK'
  BY <1>31, ReturnOK
     DEF DeployNotSaved
<1>32. ASSUME NEW j \in Jobs, EngineStop(j) PROVE JobsOK'
  BY <1>32, ToEngine, ReturnOK
     DEF EngineStop, At, Deploying, JobsOK, Shape, DeployOps
<1>33. ASSUME NEW j \in Jobs, EngineStart(j) PROVE JobsOK'
  BY <1>33, ToEngine, ReturnOK
     DEF EngineStart, At, Deploying, JobsOK, Shape, DeployOps
<1>34. ASSUME NEW j \in Jobs, EngineDeploy(j) PROVE JobsOK'
  BY <1>34, ReturnOK
     DEF EngineDeploy
<1>35. CASE UNCHANGED vars
  BY <1>35
     DEF vars, JobsOK
<1> QED
  BY <1>1, <1>2, <1>3, <1>4, <1>5, <1>6, <1>7, <1>8, <1>9, <1>10, <1>11, <1>12,
       <1>13, <1>14, <1>15, <1>16, <1>17, <1>18, <1>19, <1>20, <1>21, <1>22, <1>23,
       <1>24, <1>25, <1>26, <1>27, <1>28, <1>29, <1>30, <1>31, <1>32, <1>33, <1>34,
       <1>35
     DEF Next, Process, Request, Step

--------------------------------------------------------------------------------
(* Going on changes the place of one goroutine and nothing else.             *)
LEMMA GotoEffect ==
    ASSUME JobsOK, NEW j \in Jobs, NEW pc, Goto(j, pc)
    PROVE  /\ job'[j].pc = pc /\ job'[j].op = job[j].op
           /\ job'[j].id = job[j].id /\ job'[j].val = job[j].val
           /\ \A k \in Jobs \ {j} : job'[k] = job[k]
BY DEF Goto, JobsOK, Requests

(* Returning leaves one goroutine without a request.                         *)
LEMMA ReturnEffect ==
    ASSUME JobsOK, NEW j \in Jobs, Return(j)
    PROVE  /\ job'[j] = Idle /\ job'[j].pc = "idle" /\ job'[j].op = "none"
           /\ \A k \in Jobs \ {j} : job'[k] = job[k]
BY DEF Return, JobsOK, Idle

(* A request goes to a goroutine that has none.                              *)
LEMMA AcceptEffect ==
    ASSUME JobsOK, NEW j \in Jobs, NEW op, NEW id, NEW val, NEW pc,
           Accept(j, op, id, val, pc)
    PROVE  /\ srv = "up" /\ job[j].pc = "idle" /\ job[j].op = "none"
           /\ job'[j].pc = pc /\ job'[j].op = op
           /\ job'[j].id = id /\ job'[j].val = val
           /\ \A k \in Jobs \ {j} : job'[k] = job[k]
BY DEF Accept, JobsOK, Idle

(* The certificate store keeps the kind of the request.                      *)
LEMMA CertLockEffect ==
    ASSUME JobsOK, NEW j \in Jobs, CertStoreLock(j)
    PROVE  /\ job'[j].pc = "fs lock" /\ job'[j].op = job[j].op
           /\ \A k \in Jobs \ {j} : job'[k] = job[k]
BY DEF CertStoreLock, JobsOK, Requests

(* A request of one kind is not of another.                                  *)
LEMMA Kinds ==
    /\ UserOps \cap CertOps = {} /\ UserOps \cap DeployOps = {}
    /\ CertOps \cap DeployOps = {}
    /\ UserOps = {"setup", "create", "update"}
    /\ "none" \notin UserOps \cup CertOps \cup DeployOps
BY DEF UserOps, CertOps, DeployOps


(* What TypeOK says of the rest of the state.                                *)
StateOK ==
    /\ disk \in [flows : Workspace, users : UserTable, certs : CertTable]
    /\ mem \in [users : UserTable, certs : CertTable]
    /\ fsMu \in Jobs \cup {Free}
    /\ storeMu \in [users : Jobs \cup {Free}, certs : Jobs \cup {Free}]
    /\ setupMu \in Jobs \cup {Free}
    /\ srv \in {"down", "migrate", "migrated", "users", "start", "up", "draining"}
    /\ engine \in [running : BOOLEAN, ws : Workspace]
    /\ traffic \in Traffic
    /\ founders \subseteq Users
    /\ deleted \subseteq Certs
    /\ orderly \in BOOLEAN

(* The workspace of a new installation is one.                               *)
LEMMA EmptyOK == Empty \in Workspace
BY DEF Empty, Workspace

(* The new content of a file has the type of the file.                        *)
LEMMA RenameOK ==
    ASSUME StateOK, JobsOK, NEW j \in Jobs, Rename(j), job[j].op # "none"
    PROVE  StateOK'
<1>0. Shape(job[j]) /\ job[j].op \in Ops
  BY DEF JobsOK, Requests
<1>1. CASE job[j].op \in DeployOps
  BY <1>0, <1>1, Kinds DEF Rename, StateOK, File, Data, Shape, DeployOps
<1>2. CASE job[j].op \in UserOps
  <2>1. [mem.users EXCEPT ![job[j].id] = job[j].val] \in UserTable
    BY <1>0, <1>2 DEF StateOK, UserTable, Shape
  <2>2. /\ File(job[j].op) = "users"
        /\ Data(job[j]) = [mem.users EXCEPT ![job[j].id] = job[j].val]
    BY <1>2, Kinds DEF File, Data
  <2>3. founders' \subseteq Users /\ deleted' \subseteq Certs
    BY <1>0, <1>2 DEF Rename, StateOK, Shape, UserOps
  <2> QED
    BY <2>1, <2>2, <2>3 DEF Rename, StateOK
<1>3. CASE job[j].op \in CertOps
  <2>1. File(job[j].op) = "certs" /\ Data(job[j]) = mem.certs
    BY <1>3, Kinds DEF File, Data
  <2>2. founders' \subseteq Users /\ deleted' \subseteq Certs
    BY <1>0, <1>3 DEF Rename, StateOK, Shape, CertOps
  <2> QED
    BY <2>1, <2>2 DEF Rename, StateOK
<1> QED
  BY <1>0, <1>1, <1>2, <1>3 DEF Ops

(* Every step keeps the types of the files, stores and mutexes.              *)
LEMMA StateNext == StateOK /\ JobsOK /\ [Next]_vars => StateOK'
<1> SUFFICES ASSUME StateOK, JobsOK, [Next]_vars PROVE StateOK'
  OBVIOUS
<1>0. ASSUME NEW j \in Jobs
      PROVE  /\ job[j].pc # "idle" => job[j].op # "none"
             /\ job[j].pc \in {"stop", "start", "deploy"} => job[j].val \in Workspace
             /\ job[j].op \in UserOps => job[j].id \in Users /\ job[j].val \in Account
             /\ job[j].op \in CertOps => /\ job[j].id \in Certs
                                         /\ job[j].val \in Entry \cup {Absent}
  BY DEF JobsOK, Shape
<1>1. CASE BootLoadCerts
  BY <1>1
     DEF BootLoadCerts, StateOK, store, history
<1>2. CASE MigrateCert
  BY <1>2, PersistenceAssumption
     DEF MigrateCert, StateOK, store, history, CertTable, Entry
<1>3. CASE MigrateSave
  BY <1>3
     DEF MigrateSave, StateOK, store, history, Workspace
<1>4. CASE BootLoadUsers
  BY <1>4
     DEF BootLoadUsers, StateOK, store, history
<1>5. CASE BootStart
  BY <1>5
     DEF BootStart, StateOK, store, history
<1>6. CASE Shutdown
  BY <1>6, EmptyOK
     DEF Shutdown, StateOK, store, history
<1>7. CASE Exit
  BY <1>7
     DEF Exit, StateOK, store, history, ProcessEnds, NoUsers, NoCerts, UserTable,
         CertTable, Empty, Workspace
<1>8. CASE Crash
  BY <1>8
     DEF Crash, StateOK, store, history, ProcessEnds, NoUsers, NoCerts, UserTable,
         CertTable, Empty, Workspace
<1>9. ASSUME NEW j \in Jobs, handleDeployFlows(j) PROVE StateOK'
  BY <1>9
     DEF handleDeployFlows, StateOK, store, history, Accept
<1>10. ASSUME NEW j \in Jobs, handleSetup(j) PROVE StateOK'
  BY <1>10
     DEF handleSetup, StateOK, store, history, Accept
<1>11. ASSUME NEW j \in Jobs, handleCreateUser(j) PROVE StateOK'
  BY <1>11
     DEF handleCreateUser, StateOK, store, history, Accept
<1>12. ASSUME NEW j \in Jobs, handleUpdateUser(j) PROVE StateOK'
  BY <1>12
     DEF handleUpdateUser, StateOK, store, history, Accept
<1>13. ASSUME NEW j \in Jobs, handleSetPassword(j) PROVE StateOK'
  BY <1>13
     DEF handleSetPassword, StateOK, store, history, Accept
<1>14. ASSUME NEW j \in Jobs, handleSaveCert(j) PROVE StateOK'
  BY <1>14
     DEF handleSaveCert, StateOK, store, history, Accept
<1>15. ASSUME NEW j \in Jobs, handleDeleteCert(j) PROVE StateOK'
  BY <1>15
     DEF handleDeleteCert, StateOK, store, history, Accept
<1>16. ASSUME NEW j \in Jobs, SetupLock(j) PROVE StateOK'
  BY <1>16
     DEF SetupLock, StateOK, store, history
<1>17. ASSUME NEW j \in Jobs, SetupCount(j) PROVE StateOK'
  BY <1>17
     DEF SetupCount, StateOK, store, history
<1>18. ASSUME NEW j \in Jobs, ScanCertReferences(j) PROVE StateOK'
  BY <1>18
     DEF ScanCertReferences, StateOK, store, history
<1>19. ASSUME NEW j \in Jobs, StoreRefuses(j) PROVE StateOK'
  BY <1>19
     DEF StoreRefuses, StateOK, store, history
<1>20. ASSUME NEW j \in Jobs, UserStoreLock(j) PROVE StateOK'
  BY <1>20
     DEF UserStoreLock, StateOK, store, history
<1>21. ASSUME NEW j \in Jobs, CertStoreLock(j) PROVE StateOK'
  BY <1>21, <1>0
     DEF CertStoreLock, StateOK, store, history, CertTable
<1>22. ASSUME NEW j \in Jobs, FsLock(j) PROVE StateOK'
  BY <1>22
     DEF FsLock, StateOK, store, history
<1>23. ASSUME NEW j \in Jobs, WriteTemp(j) PROVE StateOK'
  BY <1>23
     DEF WriteTemp, StateOK, store, history
<1>24. ASSUME NEW j \in Jobs, Rename(j) PROVE StateOK'
  BY <1>24, <1>0, RenameOK
     DEF Rename, At
<1>25. ASSUME NEW j \in Jobs, WriteFails(j) PROVE StateOK'
  BY <1>25
     DEF WriteFails, StateOK, store, history
<1>26. ASSUME NEW j \in Jobs, UserSaved(j) PROVE StateOK'
  BY <1>26, <1>0
     DEF UserSaved, StateOK, store, history, Unlock, UserTable, File
<1>27. ASSUME NEW j \in Jobs, UserNotSaved(j) PROVE StateOK'
  BY <1>27
     DEF UserNotSaved, StateOK, store, history, Unlock, File
<1>28. ASSUME NEW j \in Jobs, CertSaved(j) PROVE StateOK'
  BY <1>28
     DEF CertSaved, StateOK, store, history, Unlock, File
<1>29. ASSUME NEW j \in Jobs, CertNotSaved(j) PROVE StateOK'
  BY <1>29, <1>0
     DEF CertNotSaved, StateOK, store, history, Unlock, CertTable, File
<1>30. ASSUME NEW j \in Jobs, DeploySaved(j) PROVE StateOK'
  BY <1>30
     DEF DeploySaved, StateOK, store, history
<1>31. ASSUME NEW j \in Jobs, DeployNotSaved(j) PROVE StateOK'
  BY <1>31
     DEF DeployNotSaved, StateOK, store, history
<1>32. ASSUME NEW j \in Jobs, EngineStop(j) PROVE StateOK'
  BY <1>32, EmptyOK
     DEF EngineStop, StateOK, store, history
<1>33. ASSUME NEW j \in Jobs, EngineStart(j) PROVE StateOK'
  <2>1. engine' \in [running : BOOLEAN, ws : Workspace]
    <3>1. engine' = [running |-> TRUE, ws |-> Empty] \/ engine' = engine
      BY <1>33 DEF EngineStart
    <3>2. engine \in [running : BOOLEAN, ws : Workspace]
      BY DEF StateOK
    <3>3. [running |-> TRUE, ws |-> Empty] \in [running : BOOLEAN, ws : Workspace]
      BY EmptyOK
    <3> QED
      BY <3>1, <3>2, <3>3, Zenon
  <2>2. orderly' \in BOOLEAN
    BY <1>33 DEF EngineStart, StateOK
  <2>3. UNCHANGED <<disk, mem, fsMu, storeMu, setupMu, srv, traffic, founders, deleted>>
    BY <1>33 DEF EngineStart, store
  <2> QED
    BY <2>1, <2>2, <2>3 DEF StateOK
<1>34. ASSUME NEW j \in Jobs, EngineDeploy(j) PROVE StateOK'
  BY <1>34, <1>0
     DEF EngineDeploy, StateOK, store, history, At
<1>35. CASE UNCHANGED vars
  BY <1>35
     DEF vars, StateOK, store, history
<1> QED
  BY <1>1, <1>2, <1>3, <1>4, <1>5, <1>6, <1>7, <1>8, <1>9, <1>10, <1>11, <1>12,
       <1>13, <1>14, <1>15, <1>16, <1>17, <1>18, <1>19, <1>20, <1>21, <1>22, <1>23,
       <1>24, <1>25, <1>26, <1>27, <1>28, <1>29, <1>30, <1>31, <1>32, <1>33, <1>34,
       <1>35
     DEF Next, Process, Request, Step

(* The initial state has its types.                                          *)
LEMMA StateInit == Init => StateOK /\ JobsOK
<1> SUFFICES ASSUME Init PROVE StateOK /\ JobsOK
  OBVIOUS
<1>1. JobsOK
  BY IdleOK DEF Init, JobsOK
<1>2. /\ NoUsers \in UserTable
      /\ [NoUsers EXCEPT ![Installer] = [admin |-> TRUE, disabled |-> FALSE]] \in UserTable
      /\ NoCerts \in CertTable
  BY PersistenceAssumption DEF NoUsers, NoCerts, UserTable, CertTable, Account
<1>3. StateOK
  BY <1>2, EmptyOK DEF Init, StateOK, ActiveAdmins
<1> QED
  BY <1>1, <1>3

(* The files, stores, mutexes and requests always have their types.  In      *)
(* particular a file is complete at every moment: atomicWriteFile never      *)
(* exposes a half-written one, whatever fails or crashes.                    *)
THEOREM TypeCorrect == Spec => []TypeOK
<1>1. TypeOK <=> StateOK /\ job \in [Jobs -> Requests]
  BY DEF TypeOK, StateOK
<1>2. JobsOK => job \in [Jobs -> Requests]
  BY DEF JobsOK
<1>3. StateOK /\ JobsOK /\ [Next]_vars => (StateOK /\ JobsOK)'
  BY <1>1, <1>2, StateNext, JobsNext
<1>4. StateOK /\ JobsOK => TypeOK
  BY <1>1, <1>2
<1> QED
  BY <1>3, <1>4, StateInit, PTL DEF Spec

--------------------------------------------------------------------------------
(* The user store.                                                           *)

Serving == srv \in {"up", "draining"}

(* Nobody serves requests while the process starts or is down.               *)
NobodyServes == ~Serving => \A j \in Jobs : job[j] = Idle

(* The request of j has the user store locked.                               *)
Holds(j) ==
    /\ job[j].op \in UserOps
    /\ job[j].pc \in {"fs lock", "temp", "rename", "saved", "failed"}

(* It has, and the file is written already.                                  *)
Written(j) == job[j].op \in UserOps /\ job[j].pc = "saved"

(* The mutexes are held by the requests that stand between their lock and    *)
(* their unlock.                                                             *)
UserLocks ==
    /\ \A j \in Jobs : Holds(j) <=> storeMu.users = j
    /\ \A j \in Jobs : (job[j].op = "setup" /\ job[j].pc # "setup lock") <=> setupMu = j

(* Memory is the file, but for the record of a request whose file is written.*)
UsersAgree ==
    /\ srv \in {"start", "up", "draining"} /\ (\A j \in Jobs : ~Written(j)) =>
           mem.users = disk.users
    /\ \A j \in Jobs : Written(j) =>
           disk.users = [mem.users EXCEPT ![job[j].id] = job[j].val]

(* What a request that holds the lock was admitted for is still true.        *)
Admitted ==
    \A j \in Jobs : Holds(j) /\ ~Written(j) =>
        /\ job[j].op \in {"setup", "create"} => mem.users[job[j].id] = Absent
        /\ job[j].op = "update" => ~LosesLastAdmin(job[j].id, job[j].val)

(* Before the first admin there are no users and no other user requests, and *)
(* a setup that has counted the admins is before the first admin.            *)
BeforeFirst ==
    /\ founders = {} =>
           /\ disk.users = NoUsers
           /\ \A j \in Jobs : job[j].op \notin {"create", "update"}
    /\ \A j \in Jobs : job[j].op = "setup"
                       /\ job[j].pc \in {"store lock", "fs lock", "temp", "rename"} =>
           founders = {}

(* There is at most one first admin, and after it always an active one.      *)
OneFounder ==
    /\ founders = {} \/ \E u \in Users : founders = {u}
    /\ founders # {} => ActiveAdmins(disk.users) # {}

AdminInv == UserLocks /\ UsersAgree /\ Admitted /\ BeforeFirst /\ OneFounder

(* r and s are the same request as far as the user store goes.               *)
SameForUsers(r, s) ==
    \/ s = r
    \/ r.op \notin UserOps /\ s.op \notin UserOps
    \/ /\ s.op = r.op /\ s.id = r.id /\ s.val = r.val
       /\ r.pc \in {"fs lock", "temp", "rename"} /\ s.pc \in {"temp", "rename", "failed"}

(* A step that does not touch the users.                                     *)
Quiet ==
    /\ disk'.users = disk.users /\ mem'.users = mem.users
    /\ storeMu'.users = storeMu.users /\ setupMu' = setupMu /\ founders' = founders
    /\ srv' \in {"start", "up", "draining"} => srv \in {"start", "up", "draining"}
    /\ \A k \in Jobs : SameForUsers(job[k], job'[k])

(* It keeps the invariant.                                                   *)
LEMMA QuietKeeps == ASSUME AdminInv, Quiet PROVE AdminInv'
<1> USE DEF Quiet, AdminInv
<1>1. \A k \in Jobs : /\ Holds(k)' <=> Holds(k)
                      /\ Written(k)' <=> Written(k)
                      /\ Holds(k) => /\ job'[k].op = job[k].op /\ job'[k].id = job[k].id
                                     /\ job'[k].val = job[k].val
  BY DEF SameForUsers, Holds, Written, UserOps
<1>2. UserLocks'
  <2>1. \A k \in Jobs : (job'[k].op = "setup" /\ job'[k].pc # "setup lock")
                           <=> (job[k].op = "setup" /\ job[k].pc # "setup lock")
    BY DEF SameForUsers, UserOps
  <2> QED
    BY <1>1, <2>1 DEF UserLocks
<1>3. UsersAgree'
  <2>1. \A k \in Jobs : Written(k) => Holds(k)
    BY DEF Holds, Written
  <2>2. ASSUME NEW k \in Jobs, Written(k)'
        PROVE  disk'.users = [mem'.users EXCEPT ![job'[k].id] = job'[k].val]
    <3>1. Written(k) /\ job'[k].id = job[k].id /\ job'[k].val = job[k].val
      BY <1>1, <2>1, <2>2
    <3> QED
      BY <3>1 DEF UsersAgree
  <2>3. ASSUME srv' \in {"start", "up", "draining"}, \A k \in Jobs : ~Written(k)'
        PROVE  mem'.users = disk'.users
    BY <1>1, <2>3 DEF UsersAgree
  <2> QED
    BY <2>2, <2>3 DEF UsersAgree
<1>4. Admitted'
  BY <1>1 DEF Admitted, LosesLastAdmin, ActiveAdmins
<1>5. BeforeFirst'
  BY DEF BeforeFirst, SameForUsers, UserOps
<1>6. OneFounder'
  BY DEF OneFounder, ActiveAdmins
<1> QED
  BY <1>2, <1>3, <1>4, <1>5, <1>6

(* What the types say of the parts of the state the user store works with.   *)
LEMMA Parts ==
    ASSUME StateOK
    PROVE  /\ disk = [flows |-> disk.flows, users |-> disk.users, certs |-> disk.certs]
           /\ mem = [users |-> mem.users, certs |-> mem.certs]
           /\ storeMu = [users |-> storeMu.users, certs |-> storeMu.certs]
           /\ mem.users \in UserTable /\ disk.users \in UserTable
BY DEF StateOK

(* The process starts or is shut down without touching the users.            *)
LEMMA ProcessQuiet ==
    ASSUME StateOK,
           BootLoadCerts \/ MigrateCert \/ MigrateSave \/ BootStart \/ Shutdown
             \/ UNCHANGED vars
    PROVE  Quiet
<1> USE Parts DEF Quiet, SameForUsers, store, history
<1>1. CASE BootLoadCerts
  BY <1>1 DEF BootLoadCerts
<1>2. CASE MigrateCert
  BY <1>2 DEF MigrateCert
<1>3. CASE MigrateSave
  BY <1>3 DEF MigrateSave
<1>4. CASE BootStart
  BY <1>4 DEF BootStart
<1>5. CASE Shutdown
  BY <1>5 DEF Shutdown
<1>6. CASE UNCHANGED vars
  BY <1>6 DEF vars
<1> QED
  BY <1>1, <1>2, <1>3, <1>4, <1>5, <1>6

(* The other handlers accept requests that are not about users.              *)
LEMMA RequestQuiet ==
    ASSUME StateOK, JobsOK, NEW j \in Jobs,
           handleDeployFlows(j) \/ handleSaveCert(j) \/ handleDeleteCert(j)
    PROVE  Quiet
<1>1. UNCHANGED <<disk, mem, storeMu, setupMu, srv, founders>>
  BY DEF handleDeployFlows, handleSaveCert, handleDeleteCert, store, history
<1>2. \E op \in DeployOps \cup CertOps : \E id, val, pc : Accept(j, op, id, val, pc)
  BY DEF handleDeployFlows, handleSaveCert, handleDeleteCert, CertOps
<1>3. PICK op \in DeployOps \cup CertOps : \E id, val, pc : Accept(j, op, id, val, pc)
  BY <1>2
<1>4. PICK id, val, pc : Accept(j, op, id, val, pc)
  BY <1>3
<1>5. job[j].op = "none" /\ job'[j].op = op /\ \A k \in Jobs \ {j} : job'[k] = job[k]
  BY <1>4, AcceptEffect
<1> QED
  BY <1>1, <1>5, Kinds DEF Quiet, SameForUsers

(* A request that is not about users stays one, and setupMu is not its.      *)
LEMMA OtherJob ==
    ASSUME JobsOK, UserLocks, NEW j \in Jobs, job[j].op \notin UserOps
    PROVE  setupMu # j /\ (job[j].op \in CertOps => File(job[j].op) = "certs")
BY Kinds DEF UserLocks, File

(* Its steps do not touch the users.                                         *)
LEMMA StepQuiet ==
    ASSUME StateOK, JobsOK, UserLocks, NEW j \in Jobs, job[j].op \notin UserOps, Step(j)
    PROVE  Quiet
<1>1. job'[j].op \notin UserOps /\ \A k \in Jobs \ {j} : job'[k] = job[k]
  <2>1. CASE Return(j)
    BY <2>1, ReturnEffect, Kinds
  <2>2. CASE \E pc : Goto(j, pc)
    BY <2>2, GotoEffect
  <2>3. CASE CertStoreLock(j)
    BY <2>3, CertLockEffect
  <2> QED
    BY <2>1, <2>2, <2>3 DEF Step, SetupLock, SetupCount, ScanCertReferences, StoreRefuses,
       UserStoreLock, FsLock, WriteTemp, Rename, WriteFails, UserSaved, UserNotSaved,
       CertSaved, CertNotSaved, DeploySaved, DeployNotSaved, EngineStop, EngineStart,
       EngineDeploy
<1>2. ~SetupLock(j) /\ ~SetupCount(j) /\ ~UserStoreLock(j) /\ ~UserSaved(j) /\ ~UserNotSaved(j)
  BY DEF SetupLock, SetupCount, UserStoreLock, UserSaved, UserNotSaved, At, JobsOK, Shape,
     UserOps
<1>3. srv' = srv
  BY <1>2 DEF Step, ScanCertReferences, StoreRefuses, CertStoreLock, FsLock, WriteTemp,
     Rename, WriteFails, CertSaved, CertNotSaved, DeploySaved, DeployNotSaved, EngineStop,
     EngineStart, EngineDeploy
<1>4. setupMu' = setupMu /\ storeMu'.users = storeMu.users
  BY <1>2, OtherJob, Parts DEF Step, ScanCertReferences, StoreRefuses, CertStoreLock,
     FsLock, WriteTemp, Rename, WriteFails, CertSaved, CertNotSaved, DeploySaved,
     DeployNotSaved, EngineStop, EngineStart, EngineDeploy, store, Unlock
<1>5. mem'.users = mem.users
  BY <1>2, Parts DEF Step, ScanCertReferences, StoreRefuses, CertStoreLock,
     FsLock, WriteTemp, Rename, WriteFails, CertSaved, CertNotSaved, DeploySaved,
     DeployNotSaved, EngineStop, EngineStart, EngineDeploy
<1>6. disk'.users = disk.users /\ founders' = founders
  <2>1. CASE Rename(j)
    BY <2>1, Parts DEF Rename, File, UserOps
  <2>2. CASE ~Rename(j)
    BY <1>2, <2>2 DEF Step, ScanCertReferences, StoreRefuses, CertStoreLock,
       FsLock, WriteTemp, WriteFails, CertSaved, CertNotSaved, DeploySaved,
       DeployNotSaved, EngineStop, EngineStart, EngineDeploy, history
  <2> QED
    BY <2>1, <2>2
<1> QED
  BY <1>1, <1>3, <1>4, <1>5, <1>6 DEF Quiet, SameForUsers

(* A request on its way to the file does not touch the users before the      *)
(* rename.                                                                   *)
LEMMA WayQuiet ==
    ASSUME StateOK, JobsOK, NEW j \in Jobs, FsLock(j) \/ WriteTemp(j) \/ WriteFails(j)
    PROVE  Quiet
<1>1. UNCHANGED <<disk, mem, storeMu, setupMu, srv, founders>>
  BY DEF FsLock, WriteTemp, WriteFails, store, history
<1>2. /\ job[j].pc \in {"fs lock", "temp", "rename"}
      /\ Goto(j, "temp") \/ Goto(j, "rename") \/ Goto(j, "failed")
  BY DEF FsLock, WriteTemp, WriteFails, At
<1>3. /\ job'[j].op = job[j].op /\ job'[j].id = job[j].id /\ job'[j].val = job[j].val
      /\ job'[j].pc \in {"temp", "rename", "failed"}
      /\ \A k \in Jobs \ {j} : job'[k] = job[k]
  BY <1>2, GotoEffect
<1>4. \A k \in Jobs : SameForUsers(job[k], job'[k])
  BY <1>2, <1>3 DEF SameForUsers
<1> QED
  BY <1>1, <1>4 DEF Quiet

(* While nobody has the user store locked, a serving process has the file in *)
(* memory, and an active admin there means that the first admin was made.    *)
LEMMA FreeStore ==
    ASSUME AdminInv, storeMu.users = Free
    PROVE  /\ \A k \in Jobs : ~Holds(k) /\ ~Written(k)
           /\ srv \in {"start", "up", "draining"} => mem.users = disk.users
BY PersistenceAssumption DEF AdminInv, UserLocks, UsersAgree, Holds, Written

(* A step that leaves the files, the memory and the store mutex alone.       *)
LEMMA Untouched ==
    ASSUME AdminInv, NEW j \in Jobs, UNCHANGED <<disk, mem, storeMu, srv, founders>>,
           ~Holds(j), ~Holds(j)', \A k \in Jobs \ {j} : job'[k] = job[k]
    PROVE  /\ \A k \in Jobs : Holds(k)' <=> Holds(k)
           /\ \A k \in Jobs : Holds(k)' <=> storeMu'.users = k
           /\ UsersAgree' /\ Admitted' /\ OneFounder'
<1>1. \A k \in Jobs : /\ Holds(k)' <=> Holds(k)
                      /\ Written(k)' <=> Written(k)
                      /\ Holds(k) => job'[k] = job[k]
  BY DEF Holds, Written
<1>2. UsersAgree'
  BY <1>1 DEF AdminInv, UsersAgree, Holds, Written
<1>3. Admitted'
  BY <1>1 DEF AdminInv, Admitted, LosesLastAdmin, ActiveAdmins
<1> QED
  BY <1>1, <1>2, <1>3 DEF AdminInv, UserLocks, OneFounder, ActiveAdmins

(* A goroutine that has a request belongs to a process that serves.          *)
LEMMA BusyServes ==
    ASSUME NobodyServes, NEW j \in Jobs, job[j].pc # "idle" PROVE Serving
<1>1. Idle.pc = "idle"
  BY DEF Idle
<1> QED
  BY <1>1 DEF NobodyServes

(* A setup request arrives.                                                  *)
LEMMA SetupArrives ==
    ASSUME StateOK, JobsOK, AdminInv, NEW j \in Jobs, handleSetup(j)
    PROVE  AdminInv'
<1>1. UNCHANGED <<disk, mem, storeMu, setupMu, srv, founders>>
  BY DEF handleSetup, store, history
<1>2. /\ job[j].pc = "idle" /\ job[j].op = "none"
      /\ job'[j].pc = "setup lock" /\ job'[j].op = "setup"
      /\ \A k \in Jobs \ {j} : job'[k] = job[k]
  <2>1. PICK id, val : Accept(j, "setup", id, val, "setup lock")
    BY DEF handleSetup
  <2> QED
    BY <2>1, AcceptEffect
<1>3. ~Holds(j) /\ ~Holds(j)'
  BY <1>2 DEF Holds
<1>4. UserLocks'
  BY <1>1, <1>2, <1>3, Untouched DEF AdminInv, UserLocks
<1>5. BeforeFirst'
  BY <1>1, <1>2 DEF AdminInv, BeforeFirst
<1> QED
  BY <1>1, <1>2, <1>3, <1>4, <1>5, Untouched DEF AdminInv

(* A request for a user arrives: the setup is complete.                      *)
LEMMA UserArrives ==
    ASSUME StateOK, JobsOK, AdminInv, NEW j \in Jobs,
           handleCreateUser(j) \/ handleUpdateUser(j) \/ handleSetPassword(j)
    PROVE  AdminInv'
<1>1. UNCHANGED <<disk, mem, storeMu, setupMu, srv, founders>> /\ SetupComplete
  BY DEF handleCreateUser, handleUpdateUser, handleSetPassword, store, history
<1>2. PICK op \in {"create", "update"} : \E id, val : Accept(j, op, id, val, "store lock")
  BY DEF handleCreateUser, handleUpdateUser, handleSetPassword
<1>3. /\ srv = "up" /\ job[j].pc = "idle" /\ job[j].op = "none"
      /\ job'[j].pc = "store lock" /\ job'[j].op \in {"create", "update"}
      /\ \A k \in Jobs \ {j} : job'[k] = job[k]
  BY <1>2, AcceptEffect
<1>4. ~Holds(j) /\ ~Holds(j)'
  BY <1>3 DEF Holds
<1>5. founders # {}
  <2>1. mem.users = disk.users
    BY <1>1, <1>3, FreeStore DEF SetupComplete
  <2>2. disk.users # NoUsers
    BY <1>1, <2>1 DEF SetupComplete, ActiveAdmins, NoUsers
  <2> QED
    BY <2>2 DEF AdminInv, BeforeFirst
<1>6. UserLocks'
  BY <1>1, <1>3, <1>4, Untouched DEF AdminInv, UserLocks
<1>7. BeforeFirst'
  BY <1>1, <1>3, <1>5 DEF AdminInv, BeforeFirst
<1> QED
  BY <1>1, <1>3, <1>4, <1>6, <1>7, Untouched DEF AdminInv

(* A setup request gets setupMu.                                             *)
LEMMA SetupLocks ==
    ASSUME StateOK, JobsOK, AdminInv, NEW j \in Jobs, SetupLock(j)
    PROVE  AdminInv'
<1>1. /\ UNCHANGED <<disk, mem, storeMu, srv, founders>> /\ job[j].pc = "setup lock"
      /\ setupMu = Free /\ setupMu' = j
  BY DEF SetupLock, At, history
<1>2. /\ job'[j].pc = "setup count" /\ job'[j].op = job[j].op
      /\ \A k \in Jobs \ {j} : job'[k] = job[k]
  BY GotoEffect DEF SetupLock
<1>3. job[j].op = "setup"
  BY <1>1 DEF JobsOK, Shape
<1>4. ~Holds(j) /\ ~Holds(j)'
  BY <1>1, <1>2 DEF Holds
<1>5. UserLocks'
  <2>1. \A k \in Jobs : setupMu # k
    BY <1>1, PersistenceAssumption
  <2> QED
    BY <1>1, <1>2, <1>3, <1>4, <2>1, Untouched DEF AdminInv, UserLocks
<1>6. BeforeFirst'
  BY <1>1, <1>2 DEF AdminInv, BeforeFirst
<1> QED
  BY <1>1, <1>2, <1>4, <1>5, <1>6, Untouched DEF AdminInv

(* It counts the active admins: it goes on only before the first one.        *)
LEMMA SetupCounts ==
    ASSUME StateOK, JobsOK, NobodyServes, AdminInv, NEW j \in Jobs, SetupCount(j)
    PROVE  AdminInv'
<1>1. /\ UNCHANGED <<disk, mem, storeMu, srv, founders>> /\ job[j].pc = "setup count"
      /\ storeMu.users = Free
  BY DEF SetupCount, At, history
<1>2. job[j].op = "setup"
  BY <1>1 DEF JobsOK, Shape
<1>3. setupMu = j /\ \A k \in Jobs \ {j} : job[k].op = "setup" => job[k].pc = "setup lock"
  BY <1>1, <1>2 DEF AdminInv, UserLocks
<1>4. CASE ActiveAdmins(mem.users) = {}
  <2>1. /\ setupMu' = setupMu /\ job'[j].pc = "store lock" /\ job'[j].op = job[j].op
        /\ \A k \in Jobs \ {j} : job'[k] = job[k]
    BY <1>4, GotoEffect DEF SetupCount
  <2>2. ~Holds(j) /\ ~Holds(j)'
    BY <1>1, <2>1 DEF Holds
  <2>3. founders = {}
    <3>1. Serving
      BY <1>1, BusyServes
    <3>2. mem.users = disk.users
      BY <1>1, <3>1, FreeStore DEF Serving
    <3> QED
      BY <1>4, <3>2 DEF AdminInv, OneFounder
  <2>4. UserLocks'
    <3>1. \A k \in Jobs : Holds(k)' <=> storeMu'.users = k
      BY <1>1, <2>1, <2>2, Untouched
    <3>2. \A k \in Jobs : (job'[k].op = "setup" /\ job'[k].pc # "setup lock") <=> setupMu' = k
      <4>1. \A k \in Jobs \ {j} : ~(job'[k].op = "setup" /\ job'[k].pc # "setup lock")
        BY <1>3, <2>1
      <4> QED
        BY <1>2, <1>3, <2>1, <4>1
    <3> QED
      BY <3>1, <3>2 DEF UserLocks
  <2>5. BeforeFirst'
    BY <1>1, <1>2, <2>1, <2>3 DEF AdminInv, BeforeFirst
  <2> QED
    BY <1>1, <2>1, <2>2, <2>4, <2>5, Untouched DEF AdminInv
<1>5. CASE ActiveAdmins(mem.users) # {}
  <2>1. /\ setupMu' = Free /\ job'[j].op = "none" /\ \A k \in Jobs \ {j} : job'[k] = job[k]
    BY <1>5, ReturnEffect DEF SetupCount
  <2>2. ~Holds(j) /\ ~Holds(j)'
    BY <1>1, <2>1, Kinds DEF Holds
  <2>4. UserLocks'
    <3>1. \A k \in Jobs : Holds(k)' <=> storeMu'.users = k
      BY <1>1, <2>1, <2>2, Untouched
    <3>2. \A k \in Jobs : (job'[k].op = "setup" /\ job'[k].pc # "setup lock") <=> setupMu' = k
      BY <1>3, <2>1, PersistenceAssumption
    <3> QED
      BY <3>1, <3>2 DEF UserLocks
  <2>5. BeforeFirst'
    BY <1>1, <1>2, <2>1 DEF AdminInv, BeforeFirst
  <2> QED
    BY <1>1, <2>1, <2>2, <2>4, <2>5, Untouched DEF AdminInv
<1> QED
  BY <1>4, <1>5

(* The store refuses a request: its mutexes are released.                    *)
LEMMA UserRefused ==
    ASSUME StateOK, JobsOK, AdminInv, NEW j \in Jobs, job[j].op \in UserOps, StoreRefuses(j)
    PROVE  AdminInv'
<1>1. /\ UNCHANGED <<disk, mem, storeMu, srv, founders>> /\ job[j].pc = "store lock"
      /\ setupMu' = IF setupMu = j THEN Free ELSE setupMu
  BY DEF StoreRefuses, At, history
<1>2. job'[j].op = "none" /\ \A k \in Jobs \ {j} : job'[k] = job[k]
  BY ReturnEffect DEF StoreRefuses
<1>3. ~Holds(j) /\ ~Holds(j)'
  BY <1>1, <1>2, Kinds DEF Holds
<1>4. UserLocks'
  <2>1. \A k \in Jobs : Holds(k)' <=> storeMu'.users = k
    BY <1>1, <1>2, <1>3, Untouched
  <2>2. \A k \in Jobs : (job'[k].op = "setup" /\ job'[k].pc # "setup lock") <=> setupMu' = k
    BY <1>1, <1>2, PersistenceAssumption DEF AdminInv, UserLocks
  <2> QED
    BY <2>1, <2>2 DEF UserLocks
<1>5. BeforeFirst'
  BY <1>1, <1>2 DEF AdminInv, BeforeFirst
<1> QED
  BY <1>1, <1>2, <1>3, <1>4, <1>5, Untouched DEF AdminInv

(* The store admits a request and is locked.                                 *)
LEMMA UserLocked ==
    ASSUME StateOK, JobsOK, AdminInv, NEW j \in Jobs, UserStoreLock(j)
    PROVE  AdminInv'
<1>1. /\ UNCHANGED <<disk, mem, setupMu, srv, founders>> /\ job[j].pc = "store lock"
      /\ job[j].op \in UserOps /\ storeMu.users = Free /\ storeMu'.users = j
      /\ ~Refused(job[j])
  BY Parts DEF UserStoreLock, At, history
<1>2. /\ job'[j].pc = "fs lock" /\ job'[j].op = job[j].op
      /\ job'[j].id = job[j].id /\ job'[j].val = job[j].val
      /\ \A k \in Jobs \ {j} : job'[k] = job[k]
  BY GotoEffect DEF UserStoreLock
<1>3. \A k \in Jobs : ~Holds(k) /\ ~Written(k) /\ ~Written(k)'
  BY <1>1, <1>2, FreeStore DEF Written
<1>4. Holds(j)' /\ \A k \in Jobs \ {j} : ~Holds(k)'
  BY <1>1, <1>2, <1>3 DEF Holds
<1>5. UserLocks'
  <2>1. \A k \in Jobs : /\ job'[k].op = job[k].op
                        /\ (job'[k].pc # "setup lock") <=> (job[k].pc # "setup lock")
    BY <1>1, <1>2
  <2>2. \A k \in Jobs : Holds(k)' <=> storeMu'.users = k
    BY <1>1, <1>4
  <2> QED
    BY <1>1, <2>1, <2>2 DEF AdminInv, UserLocks
<1>6. UsersAgree'
  BY <1>1, <1>3 DEF AdminInv, UsersAgree
<1>7. Admitted'
  <2>1. /\ job[j].op \in {"setup", "create"} => mem.users[job[j].id] = Absent
        /\ job[j].op = "update" => ~LosesLastAdmin(job[j].id, job[j].val)
    BY <1>1 DEF Refused
  <2>2. LosesLastAdmin(job[j].id, job[j].val)' <=> LosesLastAdmin(job[j].id, job[j].val)
    BY <1>1, <1>2 DEF LosesLastAdmin, ActiveAdmins
  <2> QED
    <3>1. SUFFICES ASSUME NEW k \in Jobs, Holds(k)'
                   PROVE  /\ job'[k].op \in {"setup", "create"} =>
                                 mem'.users[job'[k].id] = Absent
                          /\ job'[k].op = "update" =>
                                 ~LosesLastAdmin(job[k].id, job[k].val)'
      BY DEF Admitted
    <3>2. k = j
      BY <1>4, <3>1
    <3> QED
      BY <1>1, <1>2, <2>1, <2>2, <3>2
<1>8. BeforeFirst'
  BY <1>1, <1>2 DEF AdminInv, BeforeFirst
<1>9. OneFounder'
  BY <1>1 DEF AdminInv, OneFounder, ActiveAdmins
<1> QED
  BY <1>5, <1>6, <1>7, <1>8, <1>9 DEF AdminInv

(* The one request that has the user store locked.                           *)
LEMMA OneHolder ==
    ASSUME AdminInv, NEW j \in Jobs, Holds(j)
    PROVE  \A k \in Jobs \ {j} : ~Holds(k) /\ ~Written(k)
BY DEF AdminInv, UserLocks, Holds, Written

(* The users after the change of one record: an admitted change leaves an    *)
(* active admin.                                                             *)
LEMMA StillAdmin ==
    ASSUME JobsOK, AdminInv, NEW j \in Jobs, Holds(j), ~Written(j),
           mem.users \in UserTable, mem.users = disk.users
    PROVE  ActiveAdmins([mem.users EXCEPT ![job[j].id] = job[j].val]) # {}
<1> DEFINE t == [mem.users EXCEPT ![job[j].id] = job[j].val]
<1>0. /\ job[j].id \in Users /\ job[j].val \in Account
      /\ job[j].op = "setup" => job[j].val.admin /\ ~job[j].val.disabled
      /\ job[j].val # Absent
  BY PersistenceAssumption DEF JobsOK, Shape, Holds
<1>1. t[job[j].id] = job[j].val /\ \A u \in Users \ {job[j].id} : t[u] = mem.users[u]
  BY <1>0 DEF UserTable
<1>2. CASE job[j].op = "setup"
  <2>1. job[j].id \in ActiveAdmins(t)
    BY <1>0, <1>1, <1>2 DEF ActiveAdmins
  <2> QED
    BY <2>1
<1>3. ASSUME job[j].op \in {"create", "update"} PROVE ActiveAdmins(t) # {}
  <2>1. PICK u \in Users : u \in ActiveAdmins(mem.users)
    BY <1>3 DEF AdminInv, BeforeFirst, OneFounder, ActiveAdmins
  <2>2. CASE job[j].op = "create"
    <3>1. mem.users[job[j].id] = Absent
      BY <2>2 DEF AdminInv, Admitted
    <3>2. u # job[j].id
      BY <2>1, <3>1 DEF ActiveAdmins
    <3> QED
      BY <1>1, <2>1, <3>2 DEF ActiveAdmins
  <2>3. CASE job[j].op = "update"
    <3>1. ~LosesLastAdmin(job[j].id, job[j].val)
      BY <2>3 DEF AdminInv, Admitted
    <3>2. CASE job[j].val.admin /\ ~job[j].val.disabled
      BY <1>0, <1>1, <3>2 DEF ActiveAdmins
    <3>3. CASE job[j].id \notin ActiveAdmins(mem.users)
      BY <1>1, <2>1, <3>3 DEF ActiveAdmins
    <3>4. CASE ActiveAdmins(mem.users) \ {job[j].id} # {}
      <4>1. PICK w \in Users : w # job[j].id /\ w \in ActiveAdmins(mem.users)
        BY <3>4 DEF ActiveAdmins
      <4> QED
        BY <1>1, <4>1 DEF ActiveAdmins
    <3> QED
      BY <3>1, <3>2, <3>3, <3>4 DEF LosesLastAdmin
  <2> QED
    BY <1>3, <2>2, <2>3
<1> QED
  BY <1>2, <1>3 DEF Holds, UserOps

(* The users' file is replaced.                                              *)
LEMMA UserRenamed ==
    ASSUME StateOK, JobsOK, NobodyServes, AdminInv, NEW j \in Jobs,
           job[j].op \in UserOps, Rename(j)
    PROVE  AdminInv'
<1>1. /\ UNCHANGED <<mem, storeMu, setupMu, srv>> /\ job[j].pc = "rename"
      /\ disk'.users = [mem.users EXCEPT ![job[j].id] = job[j].val]
      /\ founders' = founders \cup {u \in {job[j].id} : job[j].op = "setup"}
  BY Parts, Kinds DEF Rename, At, File, Data
<1>2. /\ job'[j].pc = "saved" /\ job'[j].op = job[j].op
      /\ job'[j].id = job[j].id /\ job'[j].val = job[j].val
      /\ \A k \in Jobs \ {j} : job'[k] = job[k]
  BY GotoEffect DEF Rename
<1>3. Holds(j) /\ ~Written(j) /\ \A k \in Jobs \ {j} : ~Holds(k) /\ ~Written(k)
  BY <1>1, OneHolder DEF Holds, Written
<1>4. /\ Holds(j)' /\ Written(j)'
      /\ \A k \in Jobs \ {j} : ~Holds(k)' /\ ~Written(k)'
  BY <1>1, <1>2, <1>3 DEF Holds, Written
<1>5. mem.users = disk.users
  <2>1. Serving
    BY <1>1, BusyServes
  <2> QED
    BY <1>3, <2>1 DEF AdminInv, UsersAgree, Serving
<1>6. ActiveAdmins(disk'.users) # {}
  BY <1>1, <1>3, <1>5, StillAdmin, Parts
<1>7. UserLocks'
  <2>1. \A k \in Jobs : /\ job'[k].op = job[k].op
                        /\ (job'[k].pc # "setup lock") <=> (job[k].pc # "setup lock")
    BY <1>1, <1>2
  <2>2. \A k \in Jobs : Holds(k)' <=> Holds(k)
    BY <1>3, <1>4
  <2> QED
    BY <1>1, <2>1, <2>2 DEF AdminInv, UserLocks
<1>8. UsersAgree'
  BY <1>1, <1>2, <1>4 DEF UsersAgree
<1>9. Admitted'
  BY <1>4 DEF Admitted
<1>10. founders' # {} /\ OneFounder'
  <2>1. job[j].id \in Users
    BY <1>3 DEF JobsOK, Shape, Holds
  <2>2. CASE job[j].op = "setup"
    <3>1. founders' = {job[j].id}
      BY <1>1, <2>2 DEF AdminInv, BeforeFirst
    <3> QED
      BY <1>6, <2>1, <3>1 DEF OneFounder, ActiveAdmins
  <2>3. CASE job[j].op # "setup"
    <3>1. founders' = founders /\ founders # {}
      BY <1>1, <1>3, <2>3 DEF AdminInv, BeforeFirst, Holds, UserOps
    <3> QED
      BY <1>6, <3>1 DEF AdminInv, OneFounder, ActiveAdmins
  <2> QED
    BY <2>2, <2>3
<1>11. BeforeFirst'
  <2>1. ASSUME NEW k \in Jobs, job'[k].op = "setup",
               job'[k].pc \in {"store lock", "fs lock", "temp", "rename"}
        PROVE  FALSE
    <3>1. k # j /\ job[k].op = "setup" /\ job[k].pc = job'[k].pc
      BY <1>2, <2>1
    <3>2. founders = {} /\ job[j].op = "setup"
      BY <1>3, <2>1, <3>1 DEF AdminInv, BeforeFirst, Holds, UserOps
    <3> QED
      BY <1>1, <2>1, <3>1, <3>2 DEF AdminInv, UserLocks
  <2> QED
    BY <1>10, <2>1 DEF BeforeFirst
<1> QED
  BY <1>7, <1>8, <1>9, <1>10, <1>11 DEF AdminInv

(* A request that had the store locked returns and releases its mutexes.     *)
LEMMA Released ==
    ASSUME StateOK, JobsOK, AdminInv, NEW j \in Jobs, Holds(j), Return(j), Unlock(j),
           UNCHANGED <<disk, srv, founders>>,
           srv \in {"start", "up", "draining"} => mem'.users = disk.users
    PROVE  AdminInv'
<1>1. /\ storeMu'.users = Free /\ setupMu' = IF setupMu = j THEN Free ELSE setupMu
  BY Parts DEF Unlock, Holds, File, UserOps, DeployOps
<1>2. job'[j].op = "none" /\ \A k \in Jobs \ {j} : job'[k] = job[k]
  BY ReturnEffect
<1>3. \A k \in Jobs : ~Holds(k)' /\ ~Written(k)'
  BY <1>2, OneHolder, Kinds DEF Holds, Written
<1>4. UserLocks'
  <2>1. \A k \in Jobs : Holds(k)' <=> storeMu'.users = k
    BY <1>1, <1>3, PersistenceAssumption
  <2>2. \A k \in Jobs : (job'[k].op = "setup" /\ job'[k].pc # "setup lock") <=> setupMu' = k
    BY <1>1, <1>2, PersistenceAssumption DEF AdminInv, UserLocks
  <2> QED
    BY <2>1, <2>2 DEF UserLocks
<1>5. UsersAgree'
  BY <1>3 DEF UsersAgree
<1>6. Admitted'
  BY <1>3 DEF Admitted
<1>7. BeforeFirst'
  BY <1>2 DEF AdminInv, BeforeFirst
<1>8. OneFounder'
  BY DEF AdminInv, OneFounder, ActiveAdmins
<1> QED
  BY <1>4, <1>5, <1>6, <1>7, <1>8 DEF AdminInv

(* The save succeeded or failed: memory follows the file or stays.           *)
LEMMA UserDone ==
    ASSUME StateOK, JobsOK, AdminInv, NEW j \in Jobs, UserSaved(j) \/ UserNotSaved(j)
    PROVE  AdminInv'
<1>1. /\ UNCHANGED <<disk, srv, founders>> /\ Return(j) /\ Unlock(j) /\ Holds(j)
  BY DEF UserSaved, UserNotSaved, history, Holds, At
<1>2. srv \in {"start", "up", "draining"} => mem'.users = disk.users
  <2>1. CASE UserSaved(j)
    <3>1. Written(j) /\ mem'.users = [mem.users EXCEPT ![job[j].id] = job[j].val]
      BY <2>1, Parts DEF UserSaved, Written, At
    <3> QED
      BY <3>1 DEF AdminInv, UsersAgree
  <2>2. CASE UserNotSaved(j)
    <3>1. mem' = mem /\ \A k \in Jobs : ~Written(k)
      BY <1>1, <2>2, OneHolder DEF UserNotSaved, Written, At
    <3> QED
      BY <3>1 DEF AdminInv, UsersAgree
  <2> QED
    BY <2>1, <2>2
<1> QED
  BY <1>1, <1>2, Released

(* Start-up loads the users.                                                 *)
LEMMA UsersLoaded ==
    ASSUME StateOK, NobodyServes, AdminInv, BootLoadUsers PROVE AdminInv'
<1>1. /\ UNCHANGED <<disk, storeMu, setupMu, founders, job>> /\ mem'.users = disk.users
      /\ srv = "users"
  BY Parts DEF BootLoadUsers, store, history
<1>2. \A k \in Jobs : job[k].op = "none"
  BY <1>1 DEF NobodyServes, Serving, Idle
<1>3. \A k \in Jobs : ~Holds(k) /\ ~Written(k) /\ ~Holds(k)' /\ ~Written(k)'
  BY <1>1, <1>2, Kinds DEF Holds, Written
<1>4. UserLocks'
  BY <1>1, <1>3 DEF AdminInv, UserLocks
<1>5. UsersAgree' /\ Admitted'
  BY <1>1, <1>3 DEF UsersAgree, Admitted
<1>6. BeforeFirst' /\ OneFounder'
  BY <1>1 DEF AdminInv, BeforeFirst, OneFounder, ActiveAdmins
<1> QED
  BY <1>4, <1>5, <1>6 DEF AdminInv

(* The process ends in the middle of anything.                               *)
LEMMA EndKeeps ==
    ASSUME AdminInv, ProcessEnds PROVE AdminInv'
<1>1. /\ UNCHANGED <<disk, founders>> /\ storeMu'.users = Free /\ setupMu' = Free
      /\ srv' = "down" /\ \A k \in Jobs : job'[k].op = "none"
  BY DEF ProcessEnds, history, Idle
<1>2. \A k \in Jobs : ~Holds(k)' /\ ~Written(k)'
  BY <1>1, Kinds DEF Holds, Written
<1>3. UserLocks'
  BY <1>1, <1>2, PersistenceAssumption DEF UserLocks
<1>4. UsersAgree' /\ Admitted'
  BY <1>1, <1>2 DEF UsersAgree, Admitted
<1>5. BeforeFirst' /\ OneFounder'
  BY <1>1 DEF AdminInv, BeforeFirst, OneFounder, ActiveAdmins
<1> QED
  BY <1>3, <1>4, <1>5 DEF AdminInv

(* A goroutine that takes a step has a request, and the process stays where  *)
(* it is.                                                                    *)
LEMMA StepServes ==
    ASSUME NobodyServes, NEW j \in Jobs, Step(j) PROVE Serving /\ Serving'
<1>1. job[j].pc # "idle"
  BY DEF Step, SetupLock, SetupCount, ScanCertReferences, StoreRefuses, UserStoreLock,
     CertStoreLock, FsLock, WriteTemp, Rename, WriteFails, UserSaved, UserNotSaved,
     CertSaved, CertNotSaved, DeploySaved, DeployNotSaved, EngineStop, EngineStart,
     EngineDeploy, At
<1>2. srv' = srv
  BY DEF Step, SetupLock, SetupCount, ScanCertReferences, StoreRefuses, UserStoreLock,
     CertStoreLock, FsLock, WriteTemp, Rename, WriteFails, UserSaved, UserNotSaved,
     CertSaved, CertNotSaved, DeploySaved, DeployNotSaved, EngineStop, EngineStart,
     EngineDeploy
<1> QED
  BY <1>1, <1>2, BusyServes DEF Serving

(* Requests are served only while the server listens or drains.              *)
LEMMA NobodyServesNext ==
    ASSUME NobodyServes, [Next]_vars PROVE NobodyServes'
<1>1. ASSUME NEW j \in Jobs, Request(j) PROVE Serving'
  BY <1>1 DEF Request, handleDeployFlows, handleSetup, handleCreateUser, handleUpdateUser,
     handleSetPassword, handleSaveCert, handleDeleteCert, Accept, Serving
<1>2. ASSUME NEW j \in Jobs, Step(j) PROVE Serving'
  BY <1>2, StepServes
<1>3. CASE ProcessEnds
  BY <1>3 DEF ProcessEnds, NobodyServes
<1>4. CASE BootLoadCerts \/ MigrateCert \/ MigrateSave \/ BootLoadUsers
  BY <1>4 DEF BootLoadCerts, MigrateCert, MigrateSave, BootLoadUsers, NobodyServes, Serving
<1>5. CASE BootStart \/ Shutdown
  BY <1>5 DEF BootStart, Shutdown, NobodyServes, Serving
<1>6. CASE UNCHANGED vars
  BY <1>6 DEF vars, NobodyServes, Serving
<1> QED
  BY <1>1, <1>2, <1>3, <1>4, <1>5, <1>6 DEF Next, Process, Exit, Crash, NobodyServes

(* Every step keeps the invariant.                                           *)
LEMMA AdminNext ==
    ASSUME StateOK, JobsOK, NobodyServes, AdminInv, [Next]_vars PROVE AdminInv'
<1>1. CASE Process
  BY <1>1, ProcessQuiet, QuietKeeps, UsersLoaded, EndKeeps DEF Process, Exit, Crash
<1>2. ASSUME NEW j \in Jobs, Request(j) PROVE AdminInv'
  BY <1>2, RequestQuiet, QuietKeeps, SetupArrives, UserArrives DEF Request
<1>3. ASSUME NEW j \in Jobs, Step(j) PROVE AdminInv'
  <2>1. CASE job[j].op \notin UserOps
    BY <1>3, <2>1, StepQuiet, QuietKeeps DEF AdminInv
  <2>2. CASE job[j].op \in UserOps
    <3>1. ~(job[j].op \in CertOps \cup DeployOps)
      BY <2>2, Kinds
    <3>2. /\ ~ScanCertReferences(j) /\ ~CertStoreLock(j) /\ ~CertSaved(j) /\ ~CertNotSaved(j)
          /\ ~DeploySaved(j) /\ ~DeployNotSaved(j)
          /\ ~EngineStop(j) /\ ~EngineStart(j) /\ ~EngineDeploy(j)
      BY <3>1 DEF ScanCertReferences, CertStoreLock, CertSaved, CertNotSaved, DeploySaved,
         DeployNotSaved, EngineStop, EngineStart, EngineDeploy, Deploying, At, JobsOK, Shape,
         CertOps
    <3> QED
      BY <1>3, <2>2, <3>2, SetupLocks, SetupCounts, UserRefused, UserLocked, WayQuiet,
         QuietKeeps, UserRenamed, UserDone DEF Step
  <2> QED
    BY <2>1, <2>2
<1>4. CASE UNCHANGED vars
  BY <1>4, ProcessQuiet, QuietKeeps
<1> QED
  BY <1>1, <1>2, <1>3, <1>4 DEF Next

(* The initial state: nobody serves, and the installation is new or has its  *)
(* first admin.                                                              *)
LEMMA AdminInit == Init => NobodyServes /\ AdminInv
<1> SUFFICES ASSUME Init PROVE NobodyServes /\ AdminInv
  OBVIOUS
<1>1. \A k \in Jobs : job[k] = Idle /\ job[k].op = "none"
  BY DEF Init, Idle
<1>2. \A k \in Jobs : ~Holds(k) /\ ~Written(k)
  BY <1>1, Kinds DEF Holds, Written
<1>3. UserLocks
  BY <1>1, <1>2, PersistenceAssumption DEF Init, UserLocks
<1>4. UsersAgree /\ Admitted
  BY <1>2 DEF Init, UsersAgree, Admitted
<1>5. CASE disk.users = NoUsers
  <2>1. founders = {}
    BY <1>5 DEF Init, ActiveAdmins, NoUsers
  <2> QED
    BY <1>1, <1>3, <1>4, <1>5, <2>1 DEF AdminInv, NobodyServes, BeforeFirst, OneFounder
<1>6. CASE disk.users = [NoUsers EXCEPT ![Installer] = [admin |-> TRUE, disabled |-> FALSE]]
  <2>1. /\ disk.users[Installer] = [admin |-> TRUE, disabled |-> FALSE]
        /\ \A u \in Users \ {Installer} : disk.users[u] = Absent
    BY <1>6, PersistenceAssumption DEF NoUsers
  <2>2. Absent # [admin |-> TRUE, disabled |-> FALSE]
    <3>1. [admin |-> TRUE, disabled |-> FALSE] \in Account
      BY DEF Account
    <3> QED
      BY <3>1, PersistenceAssumption
  <2>3. founders = {Installer} /\ ActiveAdmins(disk.users) = founders
    BY <2>1, <2>2, PersistenceAssumption DEF Init, ActiveAdmins
  <2> QED
    BY <1>1, <1>3, <1>4, <2>3, PersistenceAssumption
       DEF AdminInv, NobodyServes, BeforeFirst, OneFounder
<1> QED
  BY <1>5, <1>6 DEF Init

(* Concurrent setups, stale copies written back, failed saves and crashes    *)
(* never make a second first admin and never leave the server without an     *)
(* active admin (handleSetup, FileStore.Create, FileStore.Update).           *)
THEOREM AdminRuleHolds == Spec => []AdminRule
<1> DEFINE Inv == StateOK /\ JobsOK /\ NobodyServes /\ AdminInv
<1>1. Init => Inv
  BY StateInit, AdminInit
<1>2. Inv /\ [Next]_vars => Inv'
  <2>1. StateOK /\ JobsOK => TypeOK
    BY DEF StateOK, JobsOK, TypeOK
  <2> QED
    BY <2>1, StateNext, JobsNext, NobodyServesNext, AdminNext
<1>3. Inv => AdminRule
  <2> SUFFICES ASSUME Inv PROVE AdminRule
    OBVIOUS
  <2>1. Cardinality(founders) <= 1
    <3>1. CASE founders = {}
      BY <3>1, FS_EmptySet
    <3>2. CASE \E u \in Users : founders = {u}
      <4>1. PICK u : founders = {u}
        BY <3>2
      <4>2. Cardinality({u}) = 1
        BY FS_Singleton
      <4> QED
        BY <4>1, <4>2
    <3> QED
      BY <3>1, <3>2 DEF AdminInv, OneFounder
  <2>2. storeMu.users = Free /\ srv \in {"up", "draining"} => mem.users = disk.users
    BY FreeStore
  <2> QED
    BY <2>1, <2>2 DEF AdminRule, AdminInv, OneFounder
<1> QED
  BY <1>1, <1>2, <1>3, PTL DEF Spec

--------------------------------------------------------------------------------
(* The certificate store and the engine.                                     *)

(* The request has the certificate store locked; and its file is written.    *)
CertLocked(r) ==
    r.op \in CertOps /\ r.pc \in {"fs lock", "temp", "rename", "saved", "failed"}

CertWritten(r) == r.op \in CertOps /\ r.pc = "saved"

(* What a request carries: a certificate to be stored, a client's workspace. *)
Carries(r) ==
    /\ r.op \in {"cert store", "cert update"} /\ r.pc = "store lock" => r.val \in Entry
    /\ r.op \in DeployOps => r.val \in Workspaces

CertLocks == \A j \in Jobs : CertLocked(job[j]) <=> storeMu.certs = j

(* Memory is the file, but for the entry of a request whose file is not      *)
(* written: that request carries what the file still says.                   *)
CertsAgree ==
    /\ srv # "down" /\ (\A j \in Jobs : CertLocked(job[j]) => CertWritten(job[j])) =>
           mem.certs = disk.certs
    /\ \A j \in Jobs : CertLocked(job[j]) /\ ~CertWritten(job[j]) =>
           /\ disk.certs = [mem.certs EXCEPT ![job[j].id] = job[j].val]
           /\ job[j].op # "cert delete" => mem.certs[job[j].id] # Absent

(* The migrated reference resolves, and will when it is written.             *)
RefKept == MigratedRefResolves /\ (srv = "migrated" => disk.certs[OpcCert] # Absent)

CertInv ==
    /\ CertLocks /\ CertsAgree /\ RefKept
    /\ \A j \in Jobs : Carries(job[j])

(* What a deploy that has come this far has done.                            *)
DeployStage(j) ==
    \/ /\ job[j].pc \in {"fs lock", "temp", "rename", "failed"}
       /\ engine.running /\ engine.ws = disk.flows
    \/ /\ job[j].pc \in {"saved", "stop", "deploy"}
       /\ engine.running /\ disk.flows = job[j].val
    \/ job[j].pc = "start" /\ ~engine.running /\ disk.flows = job[j].val

(* Nobody deploys on top of another, and the engine runs what the file says  *)
(* unless a deploy has just written it.                                      *)
EngineInv ==
    srv = "up" /\ orderly =>
        /\ \A j, k \in Jobs : Deploying(j) /\ Deploying(k) => j = k
        /\ \A j \in Jobs : Deploying(j) => DeployStage(j)
        /\ (\A j \in Jobs : ~Deploying(j)) => engine.running /\ engine.ws = disk.flows

(* r and s are the same request as far as the certificates go.               *)
SameForCerts(r, s) ==
    /\ CertLocked(s) <=> CertLocked(r)
    /\ CertWritten(s) <=> CertWritten(r)
    /\ CertLocked(r) => s.op = r.op /\ s.id = r.id /\ s.val = r.val
    /\ Carries(s)

(* A step that does not touch the certificates.                              *)
CertQuiet ==
    /\ disk'.certs = disk.certs /\ mem'.certs = mem.certs
    /\ storeMu'.certs = storeMu.certs /\ deleted \subseteq deleted'
    /\ disk'.flows = disk.flows \/ disk'.flows \in Workspaces
    /\ srv' = "migrated" => srv = "migrated"
    /\ srv' # "down" => srv # "down"
    /\ \A k \in Jobs : SameForCerts(job[k], job'[k])

(* It keeps the invariant.                                                   *)
LEMMA CertQuietKeeps == ASSUME CertInv, CertQuiet PROVE CertInv'
<1>1. CertLocks'
  BY DEF CertInv, CertLocks, CertQuiet, SameForCerts
<1>2. CertsAgree'
  <2>1. ASSUME srv' # "down", \A j \in Jobs : CertLocked(job'[j]) => CertWritten(job'[j])
        PROVE  mem'.certs = disk'.certs
    BY <2>1 DEF CertInv, CertsAgree, CertQuiet, SameForCerts
  <2>2. ASSUME NEW j \in Jobs, CertLocked(job'[j]), ~CertWritten(job'[j])
        PROVE  /\ disk'.certs = [mem'.certs EXCEPT ![job'[j].id] = job'[j].val]
               /\ job'[j].op # "cert delete" => mem'.certs[job'[j].id] # Absent
    <3>1. /\ CertLocked(job[j]) /\ ~CertWritten(job[j])
          /\ job'[j].op = job[j].op /\ job'[j].id = job[j].id /\ job'[j].val = job[j].val
      BY <2>2 DEF CertQuiet, SameForCerts
    <3> QED
      BY <3>1 DEF CertInv, CertsAgree, CertQuiet
  <2> QED
    BY <2>1, <2>2 DEF CertsAgree
<1>3. RefKept'
  BY DEF CertInv, RefKept, MigratedRefResolves, CertQuiet
<1> QED
  BY <1>1, <1>2, <1>3 DEF CertInv, CertQuiet, SameForCerts

(* A goroutine whose request stays is the same for the certificates.         *)
LEMMA CertSame == ASSUME NEW r, Carries(r) PROVE SameForCerts(r, r)
BY DEF SameForCerts

(* So is one whose request does not have the store locked before or after.   *)
LEMMA CertFree ==
    ASSUME NEW r, NEW s, ~CertLocked(r), ~CertLocked(s), Carries(s)
    PROVE  SameForCerts(r, s)
BY DEF SameForCerts, CertLocked, CertWritten

(* One goroutine's request changes.                                          *)
LEMMA CertOthers ==
    ASSUME CertInv, NEW j \in Jobs, \A k \in Jobs \ {j} : job'[k] = job[k],
           SameForCerts(job[j], job'[j])
    PROVE  \A k \in Jobs : SameForCerts(job[k], job'[k])
BY CertSame DEF CertInv

(* The parts of the state the certificate store works with.                  *)
LEMMA CertParts ==
    ASSUME StateOK
    PROVE  /\ disk = [flows |-> disk.flows, users |-> disk.users, certs |-> disk.certs]
           /\ mem = [users |-> mem.users, certs |-> mem.certs]
           /\ storeMu = [users |-> storeMu.users, certs |-> storeMu.certs]
           /\ mem.certs \in CertTable /\ disk.certs \in CertTable /\ disk.flows \in Workspace
BY DEF StateOK

(* The process starts or is shut down without touching the certificates.     *)
LEMMA ProcessCertQuiet ==
    ASSUME StateOK, CertInv, BootLoadUsers \/ BootStart \/ Shutdown \/ UNCHANGED vars
    PROVE  CertQuiet
<1>1. job' = job /\ \A k \in Jobs : SameForCerts(job[k], job'[k])
  <2>1. job' = job
    BY DEF BootLoadUsers, BootStart, Shutdown, vars
  <2> QED
    BY <2>1, CertSame DEF CertInv
<1>2. CASE BootLoadUsers
  BY <1>1, <1>2, CertParts DEF BootLoadUsers, CertQuiet, store, history
<1>3. CASE BootStart
  BY <1>1, <1>3 DEF BootStart, CertQuiet, store
<1>4. CASE Shutdown
  BY <1>1, <1>4 DEF Shutdown, CertQuiet, store, history
<1>5. CASE UNCHANGED vars
  BY <1>1, <1>5 DEF vars, CertQuiet
<1> QED
  BY <1>2, <1>3, <1>4, <1>5

(* What a handler may accept.                                                *)
Fits(op, val, pc) ==
    /\ op \in {"cert store", "cert update"} => val \in Entry
    /\ op \in DeployOps => val \in Workspaces /\ pc = "fs lock"
    /\ op \in CertOps => pc \in {"store lock", "scan"}

(* Every request is accepted with what its kind carries.                     *)
LEMMA Arrives ==
    ASSUME NEW j \in Jobs, Request(j)
    PROVE  \E op, id, val, pc : Accept(j, op, id, val, pc) /\ Fits(op, val, pc)
                                /\ (op \in DeployOps => handleDeployFlows(j))
<1> DEFINE P(op, id, val, pc) == Accept(j, op, id, val, pc) /\ Fits(op, val, pc)
                                 /\ (op \in DeployOps => handleDeployFlows(j))
<1> USE DEF DeployOps, CertOps, Fits
<1>1. CASE handleDeployFlows(j)
  BY <1>1 DEF handleDeployFlows
<1>2. CASE handleSetup(j)
  <2>1. PICK u \in Users :
            Accept(j, "setup", u, [admin |-> TRUE, disabled |-> FALSE], "setup lock")
    BY <1>2 DEF handleSetup
  <2>2. P("setup", u, [admin |-> TRUE, disabled |-> FALSE], "setup lock")
    BY <2>1
  <2> QED
    BY <2>2, Zenon
<1>3. CASE handleCreateUser(j)
  <2>1. PICK u \in Users, a \in BOOLEAN :
            Accept(j, "create", u, [admin |-> a, disabled |-> FALSE], "store lock")
    BY <1>3 DEF handleCreateUser
  <2>2. P("create", u, [admin |-> a, disabled |-> FALSE], "store lock")
    BY <2>1
  <2> QED
    BY <2>2, Zenon
<1>4. CASE handleUpdateUser(j) \/ handleSetPassword(j)
  <2>1. PICK u, v : Accept(j, "update", u, v, "store lock")
    BY <1>4 DEF handleUpdateUser, handleSetPassword
  <2>2. P("update", u, v, "store lock")
    BY <2>1
  <2> QED
    BY <2>2, Zenon
<1>5. CASE handleSaveCert(j)
  <2>1. PICK op \in {"cert store", "cert update"}, c \in Certs, e \in Entry :
            Accept(j, op, c, e, "store lock")
    BY <1>5 DEF handleSaveCert
  <2>2. P(op, c, e, "store lock")
    BY <2>1
  <2> QED
    BY <2>2, Zenon
<1>6. CASE handleDeleteCert(j)
  <2>1. PICK c \in Certs : Accept(j, "cert delete", c, Absent, "scan")
    BY <1>6 DEF handleDeleteCert
  <2>2. P("cert delete", c, Absent, "scan")
    BY <2>1
  <2> QED
    BY <2>2, Zenon
<1> QED
  BY <1>1, <1>2, <1>3, <1>4, <1>5, <1>6 DEF Request

(* A request arrives with what it carries, and has nothing locked.           *)
LEMMA RequestCertQuiet ==
    ASSUME StateOK, JobsOK, CertInv, NEW j \in Jobs, Request(j)
    PROVE  CertQuiet
<1>1. UNCHANGED <<disk, mem, storeMu, srv, deleted>>
  BY DEF Request, handleDeployFlows, handleSetup, handleCreateUser, handleUpdateUser,
     handleSetPassword, handleSaveCert, handleDeleteCert, store, history
<1>2. /\ job[j].pc = "idle" /\ \A k \in Jobs \ {j} : job'[k] = job[k]
      /\ Carries(job'[j]) /\ ~CertLocked(job'[j])
  <2>2. PICK op, id, val, pc : Accept(j, op, id, val, pc) /\ Fits(op, val, pc)
    BY Arrives, Zenon
  <2>3. /\ job[j].pc = "idle" /\ \A k \in Jobs \ {j} : job'[k] = job[k]
        /\ job'[j].pc = pc /\ job'[j].op = op /\ job'[j].val = val
    <3>1. Accept(j, op, id, val, pc)
      BY <2>2, Zenon
    <3> QED
      BY <3>1, AcceptEffect
  <2> QED
    BY <2>2, <2>3 DEF Fits, Carries, CertLocked
<1>3. ~CertLocked(job[j])
  BY <1>2 DEF CertLocked
<1> QED
  BY <1>1, <1>2, <1>3, CertFree, CertOthers DEF CertQuiet


(* A request that is not about certificates does not touch them.             *)
LEMMA StepCertQuiet ==
    ASSUME StateOK, JobsOK, CertInv, NEW j \in Jobs, job[j].op \notin CertOps, Step(j)
    PROVE  CertQuiet
<1>0. ~CertStoreLock(j) /\ ~CertSaved(j) /\ ~CertNotSaved(j) /\ ~ScanCertReferences(j)
  BY DEF CertStoreLock, CertSaved, CertNotSaved, ScanCertReferences, At, JobsOK, Shape, CertOps
<1>1. /\ job'[j].op \notin CertOps /\ Carries(job'[j])
      /\ \A k \in Jobs \ {j} : job'[k] = job[k]
  <2>1. CASE Return(j)
    BY <2>1, ReturnEffect, Kinds DEF Carries, CertOps
  <2>2. ASSUME NEW pc, Goto(j, pc)
        PROVE  /\ job'[j].op \notin CertOps /\ Carries(job'[j])
               /\ \A k \in Jobs \ {j} : job'[k] = job[k]
    <3>1. /\ job'[j].op = job[j].op /\ job'[j].val = job[j].val
          /\ \A k \in Jobs \ {j} : job'[k] = job[k]
      BY <2>2, GotoEffect
    <3> QED
      BY <3>1 DEF CertInv, Carries, CertOps
  <2>3. Return(j) \/ \E pc : Goto(j, pc)
    BY <1>0 DEF Step, SetupLock, SetupCount, StoreRefuses,
       UserStoreLock, FsLock, WriteTemp, Rename, WriteFails, UserSaved, UserNotSaved,
       DeploySaved, DeployNotSaved, EngineStop, EngineStart, EngineDeploy
  <2> QED
    BY <2>1, <2>2, <2>3
<1>2. srv' = srv /\ deleted \subseteq deleted'
  BY <1>0 DEF Step, SetupLock, SetupCount, StoreRefuses, UserStoreLock, FsLock, WriteTemp,
     Rename, WriteFails, UserSaved, UserNotSaved, DeploySaved, DeployNotSaved, EngineStop,
     EngineStart, EngineDeploy, history
<1>3. storeMu'.certs = storeMu.certs
  <2>1. CASE UserSaved(j) \/ UserNotSaved(j)
    BY <2>1, CertParts DEF UserSaved, UserNotSaved, Unlock, File, UserOps, DeployOps
  <2>2. CASE ~UserSaved(j) /\ ~UserNotSaved(j)
    BY <1>0, <2>2, CertParts DEF Step, SetupLock, SetupCount, StoreRefuses, UserStoreLock,
     FsLock, WriteTemp, Rename, WriteFails, DeploySaved, DeployNotSaved, EngineStop,
     EngineStart, EngineDeploy, store
  <2> QED
    BY <2>1, <2>2
<1>4. mem'.certs = mem.certs
  BY <1>0, CertParts DEF Step, SetupLock, SetupCount, StoreRefuses, UserStoreLock, FsLock,
     WriteTemp, Rename, WriteFails, UserSaved, UserNotSaved, DeploySaved, DeployNotSaved,
     EngineStop, EngineStart, EngineDeploy
<1>5. disk'.certs = disk.certs /\ (disk'.flows = disk.flows \/ disk'.flows \in Workspaces)
  <2>1. CASE Rename(j)
    <3>1. job[j].op \in UserOps \cup DeployOps
      BY <2>1 DEF Rename, At, JobsOK, Shape, Requests, Ops
    <3>2. CASE job[j].op \in UserOps
      <4>1. File(job[j].op) = "users"
        BY <3>2, Kinds DEF File
      <4> QED
        BY <2>1, <4>1, CertParts DEF Rename
    <3>3. CASE job[j].op \in DeployOps
      <4>1. File(job[j].op) = "flows" /\ Data(job[j]) = job[j].val
        BY <3>3 DEF File, Data
      <4>2. job[j].val \in Workspaces
        BY <3>3 DEF CertInv, Carries
      <4> QED
        BY <2>1, <4>1, <4>2, CertParts DEF Rename
    <3> QED
      BY <3>1, <3>2, <3>3
  <2>2. CASE ~Rename(j)
    BY <1>0, <2>2 DEF Step, SetupLock, SetupCount, StoreRefuses, UserStoreLock, FsLock,
       WriteTemp, WriteFails, UserSaved, UserNotSaved, DeploySaved, DeployNotSaved,
       EngineStop, EngineStart, EngineDeploy
  <2> QED
    BY <2>1, <2>2
<1>6. \A k \in Jobs : SameForCerts(job[k], job'[k])
  <2>1. ~CertLocked(job[j]) /\ ~CertLocked(job'[j])
    BY <1>1 DEF CertLocked
  <2> QED
    BY <1>1, <2>1, CertFree, CertOthers
<1> QED
  BY <1>2, <1>3, <1>4, <1>5, <1>6 DEF CertQuiet

(* The scan, a refusal and the way to the file touch no certificate.         *)
LEMMA CertWayQuiet ==
    ASSUME StateOK, JobsOK, UserLocks, CertInv, NEW j \in Jobs, job[j].op \in CertOps,
           \/ ScanCertReferences(j) \/ StoreRefuses(j)
           \/ FsLock(j) \/ WriteTemp(j) \/ WriteFails(j)
    PROVE  CertQuiet
<1>1. UNCHANGED <<disk, mem, storeMu, srv, deleted>>
  BY DEF ScanCertReferences, StoreRefuses, FsLock, WriteTemp, WriteFails, store, history
<1>2. SameForCerts(job[j], job'[j]) /\ \A k \in Jobs \ {j} : job'[k] = job[k]
  <2>1. CASE ScanCertReferences(j) \/ StoreRefuses(j)
    <3>1. job[j].pc \in {"scan", "store lock"}
      BY <2>1 DEF ScanCertReferences, StoreRefuses, At
    <3>2. ~CertLocked(job[j])
      BY <3>1 DEF CertLocked
    <3>3. CASE Return(j)
      <4>1. job'[j].op = "none" /\ \A k \in Jobs \ {j} : job'[k] = job[k]
        BY <3>3, ReturnEffect
      <4>2. ~CertLocked(job'[j]) /\ Carries(job'[j])
        BY <4>1 DEF CertLocked, Carries, CertOps, DeployOps
      <4> QED
        BY <3>2, <4>1, <4>2, CertFree
    <3>4. CASE Goto(j, "store lock") /\ job[j].pc = "scan"
      <4>1. /\ job'[j].op = job[j].op /\ job'[j].pc = "store lock"
            /\ \A k \in Jobs \ {j} : job'[k] = job[k]
        BY <3>4, GotoEffect
      <4>2. job[j].op = "cert delete"
        BY <3>4 DEF JobsOK, Shape
      <4>3. ~CertLocked(job'[j]) /\ Carries(job'[j])
        BY <4>1, <4>2 DEF CertLocked, Carries, DeployOps
      <4> QED
        BY <3>2, <4>1, <4>3, CertFree
    <3> QED
      BY <2>1, <3>3, <3>4 DEF ScanCertReferences, StoreRefuses, At
  <2>2. CASE FsLock(j) \/ WriteTemp(j) \/ WriteFails(j)
    <3>1. /\ job[j].pc \in {"fs lock", "temp", "rename"}
          /\ Goto(j, "temp") \/ Goto(j, "rename") \/ Goto(j, "failed")
      BY <2>2 DEF FsLock, WriteTemp, WriteFails, At
    <3>2. /\ job'[j].op = job[j].op /\ job'[j].id = job[j].id /\ job'[j].val = job[j].val
          /\ job'[j].pc \in {"temp", "rename", "failed"}
          /\ \A k \in Jobs \ {j} : job'[k] = job[k]
      BY <3>1, GotoEffect
    <3> QED
      BY <3>1, <3>2, Kinds DEF SameForCerts, CertLocked, CertWritten, Carries
  <2> QED
    BY <2>1, <2>2
<1> QED
  BY <1>1, <1>2, CertOthers DEF CertQuiet


(* The store is locked by one request.                                       *)
LEMMA OneCertLock ==
    ASSUME CertInv, NEW j \in Jobs, CertLocked(job[j])
    PROVE  storeMu.certs = j /\ \A k \in Jobs \ {j} : ~CertLocked(job[k])
BY DEF CertInv, CertLocks

(* While nobody has it locked, a running process has the file in memory.     *)
LEMMA FreeCerts ==
    ASSUME CertInv, storeMu.certs = Free
    PROVE  (\A k \in Jobs : ~CertLocked(job[k])) /\ (srv # "down" => mem.certs = disk.certs)
BY PersistenceAssumption DEF CertInv, CertLocks, CertsAgree

(* The certificate store is locked and memory changed: the request keeps     *)
(* what the file says.                                                       *)
LEMMA CertEntered ==
    ASSUME StateOK, JobsOK, NobodyServes, CertInv, NEW j \in Jobs, CertStoreLock(j)
    PROVE  CertInv'
<1> DEFINE i == job[j].id
           v == job[j].val
<1>1. /\ UNCHANGED <<disk, srv, deleted>> /\ storeMu.certs = Free /\ job[j].op \in CertOps
      /\ job[j].pc = "store lock" /\ i \in Certs
  BY DEF CertStoreLock, At, history, JobsOK, Shape
<1>2. /\ storeMu'.certs = j /\ mem'.certs = [mem.certs EXCEPT ![i] = v]
  BY CertParts DEF CertStoreLock
<1>3. /\ job'[j].pc = "fs lock" /\ job'[j].op = job[j].op /\ job'[j].id = i
      /\ job'[j].val = mem.certs[i] /\ \A k \in Jobs \ {j} : job'[k] = job[k]
  BY DEF CertStoreLock, JobsOK, Requests
<1>4. (\A k \in Jobs : ~CertLocked(job[k])) /\ mem.certs = disk.certs
  <2>1. srv # "down"
    BY <1>1, BusyServes DEF Serving
  <2> QED
    BY <1>1, <2>1, FreeCerts
<1>5. /\ CertLocked(job'[j]) /\ ~CertWritten(job'[j])
      /\ \A k \in Jobs \ {j} : ~CertLocked(job'[k])
  BY <1>1, <1>3, <1>4 DEF CertLocked, CertWritten
<1>6. CertLocks'
  BY <1>2, <1>5 DEF CertLocks
<1>7. disk.certs = [mem'.certs EXCEPT ![i] = mem.certs[i]] /\ mem'.certs[i] = v
  <2>1. mem.certs \in CertTable
    BY CertParts
  <2> QED
    BY <1>1, <1>2, <1>4, <2>1 DEF CertTable
<1>8. job[j].op # "cert delete" => v # Absent
  BY <1>1, PersistenceAssumption DEF CertInv, Carries, CertOps
<1>9. CertsAgree'
  BY <1>1, <1>3, <1>5, <1>7, <1>8 DEF CertsAgree
<1>10. RefKept'
  BY <1>1 DEF CertInv, RefKept, MigratedRefResolves
<1>11. \A k \in Jobs : Carries(job'[k])
  BY <1>1, <1>3, Kinds DEF CertInv, Carries
<1> QED
  BY <1>6, <1>9, <1>10, <1>11 DEF CertInv

(* The file follows memory.                                                  *)
LEMMA CertRenamed ==
    ASSUME StateOK, JobsOK, NobodyServes, CertInv, NEW j \in Jobs, job[j].op \in CertOps,
           Rename(j)
    PROVE  CertInv'
<1> DEFINE i == job[j].id
<1>1. /\ UNCHANGED <<mem, storeMu, srv>> /\ job[j].pc = "rename"
      /\ disk'.certs = mem.certs /\ disk'.flows = disk.flows
      /\ deleted' = deleted \cup {c \in {i} : job[j].op = "cert delete"}
  BY CertParts, Kinds DEF Rename, At, File, Data
<1>2. /\ job'[j].pc = "saved" /\ job'[j].op = job[j].op
      /\ \A k \in Jobs \ {j} : job'[k] = job[k]
  BY GotoEffect DEF Rename
<1>3. CertLocked(job[j]) /\ ~CertWritten(job[j])
  BY <1>1 DEF CertLocked, CertWritten
<1>4. CertLocked(job'[j]) /\ CertWritten(job'[j])
  BY <1>1, <1>2 DEF CertLocked, CertWritten
<1>5. \A k \in Jobs \ {j} : ~CertLocked(job'[k])
  BY <1>2, <1>3, OneCertLock
<1>6. CertLocks'
  BY <1>1, <1>3, <1>4, <1>5, OneCertLock DEF CertLocks
<1>7. CertsAgree'
  BY <1>1, <1>4, <1>5 DEF CertsAgree
<1>8. /\ disk.certs = [mem.certs EXCEPT ![i] = job[j].val]
      /\ job[j].op # "cert delete" => mem.certs[i] # Absent
  BY <1>3 DEF CertInv, CertsAgree
<1>9. RefKept'
  <2>1. srv # "migrated"
    BY <1>1, BusyServes DEF Serving
  <2>2. ASSUME disk.certs[OpcCert] # Absent, OpcCert \notin deleted'
        PROVE  mem.certs[OpcCert] # Absent
    <3>1. CASE i = OpcCert
      BY <1>1, <1>8, <2>2, <3>1
    <3>2. CASE i # OpcCert
      BY <1>8, <2>2, <3>2, CertParts, PersistenceAssumption DEF CertTable
    <3> QED
      BY <3>1, <3>2
  <2>3. OpcCert \notin deleted' => OpcCert \notin deleted
    BY <1>1
  <2> QED
    BY <1>1, <2>1, <2>2, <2>3 DEF CertInv, RefKept, MigratedRefResolves
<1>10. \A k \in Jobs : Carries(job'[k])
  BY <1>1, <1>2, Kinds DEF CertInv, Carries
<1> QED
  BY <1>6, <1>7, <1>9, <1>10 DEF CertInv

(* The save succeeded, or failed and the cache is rolled back.               *)
LEMMA CertDone ==
    ASSUME StateOK, JobsOK, NobodyServes, CertInv, NEW j \in Jobs,
           CertSaved(j) \/ CertNotSaved(j)
    PROVE  CertInv'
<1>1. /\ UNCHANGED <<disk, srv, deleted>> /\ Return(j) /\ Unlock(j) /\ CertLocked(job[j])
  BY DEF CertSaved, CertNotSaved, history, CertLocked, At
<1>2. job'[j].op = "none" /\ \A k \in Jobs \ {j} : job'[k] = job[k]
  BY <1>1, ReturnEffect
<1>3. storeMu'.certs = Free
  BY <1>1, CertParts, Kinds DEF Unlock, CertLocked, File
<1>4. \A k \in Jobs : ~CertLocked(job'[k])
  BY <1>1, <1>2, OneCertLock, Kinds DEF CertLocked, CertOps
<1>5. mem'.certs = disk.certs
  <2>1. CASE CertSaved(j)
    <3>1. mem' = mem /\ CertWritten(job[j]) /\ \A k \in Jobs \ {j} : ~CertLocked(job[k])
      BY <1>1, <2>1, OneCertLock DEF CertSaved, CertWritten, At
    <3>2. srv # "down"
      BY <3>1, BusyServes DEF Serving, CertWritten
    <3> QED
      BY <3>1, <3>2 DEF CertInv, CertsAgree
  <2>2. CASE CertNotSaved(j)
    <3>1. ~CertWritten(job[j]) /\ mem'.certs = [mem.certs EXCEPT ![job[j].id] = job[j].val]
      BY <2>2, CertParts DEF CertNotSaved, CertWritten, At
    <3> QED
      BY <1>1, <3>1 DEF CertInv, CertsAgree
  <2> QED
    BY <2>1, <2>2
<1>6. CertLocks' /\ CertsAgree'
  BY <1>1, <1>3, <1>4, <1>5, PersistenceAssumption DEF CertLocks, CertsAgree
<1>7. RefKept'
  BY <1>1 DEF CertInv, RefKept, MigratedRefResolves
<1>8. \A k \in Jobs : Carries(job'[k])
  BY <1>2 DEF CertInv, Carries, DeployOps
<1> QED
  BY <1>6, <1>7, <1>8 DEF CertInv


(* Start-up loads the certificates and migrates, or the process ends.        *)
LEMMA CertsBoot ==
    ASSUME StateOK, NobodyServes, CertInv, BootLoadCerts \/ MigrateCert \/ MigrateSave
    PROVE  CertInv'
<1>1. UNCHANGED <<storeMu, job, deleted>> /\ srv \in {"down", "migrate", "migrated"}
  BY DEF BootLoadCerts, MigrateCert, MigrateSave, store, history
<1>2. \A k \in Jobs : ~CertLocked(job[k]) /\ ~CertLocked(job'[k])
  <2>1. \A k \in Jobs : job[k].op = "none" /\ job'[k].op = "none"
    BY <1>1 DEF NobodyServes, Serving, Idle
  <2> QED
    BY <2>1, Kinds DEF CertLocked
<1>3. CertLocks' /\ \A k \in Jobs : Carries(job'[k])
  BY <1>1 DEF CertInv, CertLocks
<1>4. srv # "down" => mem.certs = disk.certs
  BY <1>2 DEF CertInv, CertsAgree
<1>5. mem'.certs = disk'.certs /\ RefKept'
  <2>1. CASE BootLoadCerts
    BY <2>1, CertParts DEF BootLoadCerts, CertInv, RefKept, MigratedRefResolves, history
  <2>2. CASE MigrateCert
    <3>0. srv = "migrate"
      BY <2>2 DEF MigrateCert
    <3>1. CASE UNCHANGED <<mem, disk>> /\ (srv' = "users" \/ mem.certs[OpcCert] # Absent)
      BY <1>1, <1>4, <3>0, <3>1 DEF CertInv, RefKept, MigratedRefResolves
    <3>2. CASE /\ mem' = [mem EXCEPT !.certs[OpcCert] = [version |-> 1]]
               /\ disk' = [disk EXCEPT !.certs = mem'.certs]
      <4>1. mem'.certs = [mem.certs EXCEPT ![OpcCert] = [version |-> 1]]
        BY <3>2, CertParts
      <4>2. disk'.certs = mem'.certs
        BY <3>2, CertParts
      <4>3. [version |-> 1] \in Entry
        BY DEF Entry
      <4>4. mem'.certs[OpcCert] # Absent
        BY <4>1, <4>3, CertParts, PersistenceAssumption DEF CertTable
      <4> QED
        BY <4>2, <4>4 DEF RefKept, MigratedRefResolves
    <3> QED
      BY <2>2, <3>1, <3>2 DEF MigrateCert
  <2>3. CASE MigrateSave
    <3>1. disk'.certs = disk.certs /\ mem' = mem /\ srv' = "users" /\ srv = "migrated"
      BY <2>3, CertParts DEF MigrateSave
    <3> QED
      BY <1>4, <3>1 DEF CertInv, RefKept, MigratedRefResolves
  <2> QED
    BY <2>1, <2>2, <2>3
<1> QED
  BY <1>2, <1>3, <1>5 DEF CertInv, CertsAgree

(* The process ends in the middle of anything.                               *)
LEMMA CertsEnd == ASSUME CertInv, ProcessEnds PROVE CertInv'
<1>1. /\ UNCHANGED <<disk, deleted>> /\ storeMu'.certs = Free /\ srv' = "down"
      /\ \A k \in Jobs : job'[k].op = "none"
  BY DEF ProcessEnds, history, Idle
<1>2. \A k \in Jobs : ~CertLocked(job'[k]) /\ Carries(job'[k])
  BY <1>1 DEF CertLocked, Carries, CertOps, DeployOps
<1> QED
  BY <1>1, <1>2, PersistenceAssumption
     DEF CertInv, CertLocks, CertsAgree, RefKept, MigratedRefResolves

(* Every step keeps the invariant.                                           *)
LEMMA CertNext ==
    ASSUME StateOK, JobsOK, NobodyServes, UserLocks, CertInv, [Next]_vars PROVE CertInv'
<1>1. CASE Process
  BY <1>1, ProcessCertQuiet, CertQuietKeeps, CertsBoot, CertsEnd DEF Process, Exit, Crash
<1>2. ASSUME NEW j \in Jobs, Request(j) PROVE CertInv'
  BY <1>2, RequestCertQuiet, CertQuietKeeps
<1>3. ASSUME NEW j \in Jobs, Step(j) PROVE CertInv'
  <2>1. CASE job[j].op \notin CertOps
    BY <1>3, <2>1, StepCertQuiet, CertQuietKeeps
  <2>2. CASE job[j].op \in CertOps
    <3>1. /\ ~SetupLock(j) /\ ~SetupCount(j) /\ ~UserStoreLock(j)
          /\ ~UserSaved(j) /\ ~UserNotSaved(j) /\ ~DeploySaved(j) /\ ~DeployNotSaved(j)
          /\ ~EngineStop(j) /\ ~EngineStart(j) /\ ~EngineDeploy(j)
      BY <2>2 DEF SetupLock, SetupCount, UserStoreLock, UserSaved, UserNotSaved, DeploySaved,
         DeployNotSaved, EngineStop, EngineStart, EngineDeploy, Deploying, At, JobsOK, Shape,
         CertOps, UserOps, DeployOps
    <3> QED
      BY <1>3, <2>2, <3>1, CertWayQuiet, CertQuietKeeps, CertEntered, CertRenamed, CertDone
         DEF Step
  <2> QED
    BY <2>1, <2>2
<1>4. CASE UNCHANGED vars
  BY <1>4, ProcessCertQuiet, CertQuietKeeps
<1> QED
  BY <1>1, <1>2, <1>3, <1>4 DEF Next

(* The initial state.                                                        *)
LEMMA CertInit == Init => CertInv
<1> SUFFICES ASSUME Init PROVE CertInv
  OBVIOUS
<1>1. \A k \in Jobs : ~CertLocked(job[k]) /\ Carries(job[k])
  BY DEF Init, Idle, CertLocked, Carries, CertOps, DeployOps
<1>2. disk.flows.opc = "none" /\ srv = "down" /\ storeMu.certs = Free
  BY DEF Init, Empty
<1> QED
  BY <1>1, <1>2, PersistenceAssumption
     DEF CertInv, CertLocks, CertsAgree, RefKept, MigratedRefResolves

--------------------------------------------------------------------------------

(* A step that changes neither the engine nor the saved workspace, and no    *)
(* deploy but on its way to the file.                                        *)
DeployQuiet ==
    /\ engine' = engine /\ disk'.flows = disk.flows
    /\ srv' = "up" => srv = "up"
    /\ orderly' => orderly
    /\ \A k \in Jobs : /\ Deploying(k)' <=> Deploying(k)
                       /\ Deploying(k) =>
                              \/ job'[k] = job[k]
                              \/ /\ job[k].pc \in {"fs lock", "temp", "rename"}
                                 /\ job'[k].pc \in {"temp", "rename", "failed"}

(* It keeps the invariant.                                                   *)
LEMMA DeployQuietKeeps == ASSUME EngineInv, DeployQuiet PROVE EngineInv'
<1> SUFFICES ASSUME srv' = "up", orderly'
             PROVE  /\ \A j, k \in Jobs : Deploying(j)' /\ Deploying(k)' => j = k
                    /\ \A j \in Jobs : Deploying(j)' => DeployStage(j)'
                    /\ (\A j \in Jobs : ~Deploying(j)') => engine'.running /\ engine'.ws = disk'.flows
  BY DEF EngineInv
<1>1. srv = "up" /\ orderly /\ engine' = engine /\ disk'.flows = disk.flows
  BY DEF DeployQuiet
<1>2. \A k \in Jobs : Deploying(k)' <=> Deploying(k)
  BY DEF DeployQuiet
<1>3. ASSUME NEW j \in Jobs, Deploying(j)' PROVE DeployStage(j)'
  <2>1. Deploying(j) /\ DeployStage(j)
    BY <1>1, <1>2, <1>3 DEF EngineInv
  <2>2. \/ job'[j] = job[j]
        \/ /\ job[j].pc \in {"fs lock", "temp", "rename"}
           /\ job'[j].pc \in {"temp", "rename", "failed"}
    BY <2>1 DEF DeployQuiet
  <2> QED
    BY <1>1, <2>1, <2>2 DEF DeployStage
<1> QED
  BY <1>1, <1>2, <1>3 DEF EngineInv

(* The steps of requests that are not deploys, and of the process.           *)
LEMMA NotDeploying ==
    ASSUME StateOK, JobsOK, NEW j \in Jobs, Step(j), job[j].op \notin DeployOps
    PROVE  DeployQuiet
<1>1. /\ ~DeploySaved(j) /\ ~DeployNotSaved(j)
      /\ ~EngineStop(j) /\ ~EngineStart(j) /\ ~EngineDeploy(j)
  BY DEF DeploySaved, DeployNotSaved, EngineStop, EngineStart, EngineDeploy, Deploying, At,
     JobsOK, Shape
<1>2. job'[j].op \notin DeployOps /\ \A k \in Jobs \ {j} : job'[k] = job[k]
  <2>1. CASE Return(j)
    BY <2>1, ReturnEffect DEF DeployOps
  <2>2. CASE \E pc : Goto(j, pc)
    BY <2>2, GotoEffect
  <2>3. CASE CertStoreLock(j)
    BY <2>3, CertLockEffect
  <2> QED
    BY <1>1, <2>1, <2>2, <2>3 DEF Step, SetupLock, SetupCount, ScanCertReferences,
       StoreRefuses, UserStoreLock, FsLock, WriteTemp, Rename, WriteFails, UserSaved,
       UserNotSaved, CertSaved, CertNotSaved
<1>3. UNCHANGED <<engine, srv, orderly>>
  BY <1>1 DEF Step, SetupLock, SetupCount, ScanCertReferences, StoreRefuses, UserStoreLock,
     CertStoreLock, FsLock, WriteTemp, Rename, WriteFails, UserSaved, UserNotSaved, CertSaved,
     CertNotSaved, history
<1>4. disk'.flows = disk.flows
  <2>1. CASE Rename(j)
    BY <2>1, CertParts DEF Rename, File
  <2>2. CASE ~Rename(j)
    BY <1>1, <2>2 DEF Step, SetupLock, SetupCount, ScanCertReferences, StoreRefuses,
       UserStoreLock, CertStoreLock, FsLock, WriteTemp, WriteFails, UserSaved, UserNotSaved,
       CertSaved, CertNotSaved
  <2> QED
    BY <2>1, <2>2
<1> QED
  BY <1>2, <1>3, <1>4 DEF DeployQuiet, Deploying

(* Another request than a deploy arrives.                                    *)
LEMMA RequestDeployQuiet ==
    ASSUME StateOK, JobsOK, NEW j \in Jobs, Request(j), ~handleDeployFlows(j)
    PROVE  DeployQuiet
<1>1. UNCHANGED <<disk, srv, engine, orderly>>
  BY DEF Request, handleSetup, handleCreateUser, handleUpdateUser, handleSetPassword,
     handleSaveCert, handleDeleteCert, history
<1>3. PICK op, id, val, pc : Accept(j, op, id, val, pc)
                             /\ (op \in DeployOps => handleDeployFlows(j))
  BY Arrives, Zenon
<1>4. Accept(j, op, id, val, pc) /\ op \notin DeployOps
  BY <1>3, Zenon
<1>5. job[j].op = "none" /\ job'[j].op = op /\ \A k \in Jobs \ {j} : job'[k] = job[k]
  BY <1>4, AcceptEffect
<1> QED
  BY <1>1, <1>4, <1>5 DEF DeployQuiet, Deploying, DeployOps

(* A deploy arrives.                                                         *)
LEMMA DeployArrives ==
    ASSUME StateOK, JobsOK, EngineInv, NEW j \in Jobs, handleDeployFlows(j)
    PROVE  EngineInv'
<1>1. /\ UNCHANGED <<disk, srv, engine>>
      /\ orderly' => orderly /\ \A k \in Jobs : ~Deploying(k)
  BY DEF handleDeployFlows
<1>2. /\ job'[j].pc = "fs lock" /\ \A k \in Jobs \ {j} : job'[k] = job[k]
  <2>1. PICK op, id, ws, pc : Accept(j, op, id, ws, pc) /\ pc = "fs lock"
    BY DEF handleDeployFlows
  <2>2. Accept(j, op, id, ws, pc)
    BY <2>1, Zenon
  <2>3. job'[j].pc = pc /\ \A k \in Jobs \ {j} : job'[k] = job[k]
    BY <2>2, AcceptEffect
  <2> QED
    BY <2>1, <2>3
<1> SUFFICES ASSUME srv' = "up", orderly' PROVE EngineInv'
  BY DEF EngineInv
<1>3. /\ \A k \in Jobs : ~Deploying(k)
      /\ engine.running /\ engine.ws = disk.flows
  BY <1>1 DEF EngineInv
<1>4. \A k \in Jobs \ {j} : ~Deploying(k)'
  BY <1>2, <1>3 DEF Deploying
<1> QED
  BY <1>1, <1>2, <1>3, <1>4 DEF EngineInv, DeployStage


(* The steps of a deploy.                                                    *)
LEMMA DeploySteps ==
    ASSUME StateOK, JobsOK, EngineInv, NEW j \in Jobs, Step(j), job[j].op \in DeployOps
    PROVE  EngineInv'
<1>0. /\ ~SetupLock(j) /\ ~SetupCount(j) /\ ~ScanCertReferences(j) /\ ~UserStoreLock(j)
      /\ ~CertStoreLock(j) /\ ~UserSaved(j) /\ ~UserNotSaved(j) /\ ~CertSaved(j)
      /\ ~CertNotSaved(j)
  BY DEF SetupLock, SetupCount, ScanCertReferences, UserStoreLock, CertStoreLock, UserSaved,
     UserNotSaved, CertSaved, CertNotSaved, At, JobsOK, Shape, DeployOps, UserOps, CertOps
<1>1. CASE FsLock(j) \/ WriteTemp(j) \/ WriteFails(j)
  <2>1. UNCHANGED <<disk, srv, engine, orderly>>
    BY <1>1 DEF FsLock, WriteTemp, WriteFails, history
  <2>2. /\ job[j].pc \in {"fs lock", "temp", "rename"}
        /\ Goto(j, "temp") \/ Goto(j, "rename") \/ Goto(j, "failed")
    BY <1>1 DEF FsLock, WriteTemp, WriteFails, At
  <2>3. /\ job'[j].op = job[j].op /\ job'[j].pc \in {"temp", "rename", "failed"}
        /\ \A k \in Jobs \ {j} : job'[k] = job[k]
    BY <2>2, GotoEffect
  <2>4. DeployQuiet
    BY <2>1, <2>2, <2>3 DEF DeployQuiet, Deploying
  <2> QED
    BY <2>4, DeployQuietKeeps
<1>2. CASE ~FsLock(j) /\ ~WriteTemp(j) /\ ~WriteFails(j)
  <2> SUFFICES ASSUME srv' = "up", orderly' PROVE EngineInv'
    BY DEF EngineInv
  <2>1. srv = "up" /\ orderly
    <3>1. srv' = srv
      BY <1>0, <1>2 DEF Step, StoreRefuses, Rename, DeploySaved, DeployNotSaved, EngineStop,
         EngineStart, EngineDeploy
    <3>2. orderly' => orderly
      BY <1>0, <1>2 DEF Step, StoreRefuses, Rename, DeploySaved, DeployNotSaved, EngineStop,
         EngineStart, EngineDeploy, history
    <3> QED
      BY <3>1, <3>2
  <2>2. Deploying(j) /\ DeployStage(j) /\ \A k \in Jobs \ {j} : ~Deploying(k)
    BY <2>1 DEF EngineInv, Deploying
  <2>3. ASSUME \A k \in Jobs \ {j} : job'[k] = job[k], Deploying(j)' => DeployStage(j)',
               ~Deploying(j)' => engine'.running /\ engine'.ws = disk'.flows
        PROVE  EngineInv'
    <3>1. \A k \in Jobs \ {j} : ~Deploying(k)'
      BY <2>2, <2>3 DEF Deploying
    <3> QED
      BY <2>3, <3>1 DEF EngineInv
  <2>4. CASE Rename(j)
    <3>1. disk'.flows = job[j].val /\ engine' = engine /\ job[j].pc = "rename"
      BY <2>4, CertParts DEF Rename, File, Data, At
    <3>2. /\ job'[j].pc = "saved" /\ job'[j].val = job[j].val
          /\ \A k \in Jobs \ {j} : job'[k] = job[k]
      BY <2>4, GotoEffect DEF Rename
    <3>3. job'[j].op = job[j].op
      BY <2>4, GotoEffect DEF Rename
    <3>4. DeployStage(j)'
      BY <2>2, <3>1, <3>2 DEF DeployStage
    <3> QED
      BY <2>2, <2>3, <3>2, <3>3, <3>4 DEF Deploying
  <2>5. CASE DeploySaved(j)
    <3>1. disk' = disk /\ engine' = engine /\ job[j].pc = "saved"
      BY <2>5 DEF DeploySaved, At
    <3>2. PICK pc : Goto(j, pc) /\ pc \in {"stop", "deploy"}
      BY <2>5 DEF DeploySaved
    <3>3. Goto(j, pc) /\ pc \in {"stop", "deploy"}
      BY <3>2, Zenon
    <3>4. /\ job'[j].pc = pc /\ job'[j].val = job[j].val /\ job'[j].op = job[j].op
          /\ \A k \in Jobs \ {j} : job'[k] = job[k]
      BY <3>3, GotoEffect
    <3>5. DeployStage(j)'
      BY <2>2, <3>1, <3>3, <3>4 DEF DeployStage
    <3> QED
      BY <2>2, <2>3, <3>4, <3>5 DEF Deploying
  <2>6. CASE DeployNotSaved(j)
    <3>1. disk' = disk /\ engine' = engine /\ job[j].pc = "failed" /\ Return(j)
      BY <2>6 DEF DeployNotSaved, At
    <3>2. job'[j].op = "none" /\ \A k \in Jobs \ {j} : job'[k] = job[k]
      BY <3>1, ReturnEffect
    <3> QED
      BY <2>2, <2>3, <3>1, <3>2, Kinds DEF Deploying, DeployStage
  <2>7. CASE EngineStop(j)
    <3>1. disk' = disk /\ ~engine'.running /\ job[j].pc = "stop" /\ Goto(j, "start")
      BY <2>7 DEF EngineStop, At
    <3>2. /\ job'[j].pc = "start" /\ job'[j].val = job[j].val /\ job'[j].op = job[j].op
          /\ \A k \in Jobs \ {j} : job'[k] = job[k]
      BY <3>1, GotoEffect
    <3>3. DeployStage(j)'
      BY <2>2, <3>1, <3>2 DEF DeployStage
    <3> QED
      BY <2>2, <2>3, <3>2, <3>3 DEF Deploying
  <2>8. CASE EngineStart(j)
    <3>1. disk' = disk /\ engine'.running /\ job[j].pc = "start" /\ Goto(j, "deploy")
      BY <2>2, <2>8 DEF EngineStart, At, DeployStage
    <3>2. /\ job'[j].pc = "deploy" /\ job'[j].val = job[j].val /\ job'[j].op = job[j].op
          /\ \A k \in Jobs \ {j} : job'[k] = job[k]
      BY <3>1, GotoEffect
    <3>3. DeployStage(j)'
      BY <2>2, <3>1, <3>2 DEF DeployStage
    <3> QED
      BY <2>2, <2>3, <3>2, <3>3 DEF Deploying
  <2>9. CASE EngineDeploy(j)
    <3>1. /\ disk' = disk /\ job[j].pc = "deploy" /\ Return(j)
          /\ engine' = [engine EXCEPT !.ws = job[j].val]
      BY <2>2, <2>9 DEF EngineDeploy, At, DeployStage
    <3>2. engine \in [running : BOOLEAN, ws : Workspace]
      BY DEF StateOK
    <3>3. engine'.running /\ engine'.ws = disk'.flows
      BY <2>2, <3>1, <3>2 DEF DeployStage
    <3>4. job'[j].op = "none" /\ \A k \in Jobs \ {j} : job'[k] = job[k]
      BY <3>1, ReturnEffect
    <3> QED
      BY <2>3, <3>3, <3>4, Kinds DEF Deploying
  <2>10. CASE StoreRefuses(j)
    <3>1. FALSE
      BY <2>2, <2>10 DEF StoreRefuses, At, DeployStage
    <3> QED
      BY <3>1
  <2> QED
    BY <1>0, <1>2, <2>4, <2>5, <2>6, <2>7, <2>8, <2>9, <2>10 DEF Step
<1> QED
  BY <1>1, <1>2

(* The process starts, is shut down or ends.                                 *)
LEMMA EngineProcess ==
    ASSUME StateOK, NobodyServes, EngineInv, Process \/ UNCHANGED vars PROVE EngineInv'
<1>1. CASE BootStart
  <2>1. /\ job' = job /\ disk' = disk /\ engine'.running /\ engine'.ws = disk.flows
        /\ srv = "start"
    BY <1>1 DEF BootStart
  <2>2. \A k \in Jobs : ~Deploying(k)'
    BY <2>1, Kinds DEF NobodyServes, Serving, Idle, Deploying
  <2> QED
    BY <2>1, <2>2 DEF EngineInv
<1>2. CASE UNCHANGED vars
  <2>1. DeployQuiet
    BY <1>2 DEF vars, DeployQuiet, Deploying
  <2> QED
    BY <2>1, DeployQuietKeeps
<1>3. CASE Process /\ ~BootStart
  <2>1. srv' # "up"
    BY <1>3 DEF Process, BootLoadCerts, MigrateCert, MigrateSave, BootLoadUsers, Shutdown, Exit,
       Crash, ProcessEnds
  <2> QED
    BY <2>1 DEF EngineInv
<1> QED
  BY <1>1, <1>2, <1>3

(* Every step keeps the invariant.                                           *)
LEMMA EngineNext ==
    ASSUME StateOK, JobsOK, NobodyServes, EngineInv, [Next]_vars PROVE EngineInv'
<1>1. ASSUME NEW j \in Jobs, Request(j) PROVE EngineInv'
  BY <1>1, RequestDeployQuiet, DeployQuietKeeps, DeployArrives
<1>2. ASSUME NEW j \in Jobs, Step(j) PROVE EngineInv'
  BY <1>2, NotDeploying, DeployQuietKeeps, DeploySteps
<1> QED
  BY <1>1, <1>2, EngineProcess DEF Next

(* What the process serves and runs is what a restart would load: memory     *)
(* follows the files through failed saves, rollbacks and crashes, the        *)
(* migration leaves no dangling reference, and the engine runs the saved     *)
(* workspace (FileStore, CertStore, migrateOpcuaCertConfigs,                 *)
(* handleDeployFlows).                                                       *)
THEOREM ServesStored == Spec => []ServesWhatIsStored
<1> DEFINE Inv == StateOK /\ JobsOK /\ NobodyServes /\ AdminInv /\ CertInv /\ EngineInv
<1>1. Init => Inv
  <2>1. Init => EngineInv
    BY DEF Init, EngineInv
  <2> QED
    BY <2>1, StateInit, AdminInit, CertInit
<1>2. Inv /\ [Next]_vars => Inv'
  <2>1. StateOK /\ JobsOK => TypeOK
    BY DEF StateOK, JobsOK, TypeOK
  <2>2. AdminInv => UserLocks
    BY DEF AdminInv
  <2> QED
    BY <2>1, <2>2, StateNext, JobsNext, NobodyServesNext, AdminNext, CertNext, EngineNext
<1>3. Inv => ServesWhatIsStored
  <2> SUFFICES ASSUME Inv PROVE ServesWhatIsStored
    OBVIOUS
  <2>1. MemoryMatchesDisk
    BY FreeStore, FreeCerts DEF MemoryMatchesDisk
  <2>2. MigratedRefResolves
    BY DEF CertInv, RefKept
  <2>3. RunningIsSaved
    BY DEF RunningIsSaved, EngineInv
  <2> QED
    BY <2>1, <2>2, <2>3 DEF ServesWhatIsStored, StoresAgree
<1> QED
  BY <1>1, <1>2, <1>3, PTL DEF Spec

================================================================================
