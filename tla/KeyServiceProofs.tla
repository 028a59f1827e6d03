-------------------------- MODULE KeyServiceProofs --------------------------
(***************************************************************************)
(* The service's tasks implement the key store they run over, for any      *)
(* number of keys, tasks, processes, handles and faults.                   *)
(***************************************************************************)
EXTENDS KeyService, KeyStoreProofs

-----------------------------------------------------------------------------
(* What a task remembers *)

(* A rotation remembers a record that could be rotated when it was read. *)
ReadsRotatable ==
    \A t \in Task : task[t] # None =>
        /\ task[t].pc # "store" => task[t].read # None
        /\ task[t].read # None => can_rotate_resident(task[t].read)

(* A task that has called the provider and may still publish or discard has *)
(* a handle.                                                                *)
TaskOK(x) ==
    /\ x \in TaskState
    /\ x.pc \in {"store", "commit", "discard"} => x.handle \in Handle

TasksTyped ==
    /\ task \in [Task -> TaskState \cup {None}]
    /\ \A t \in Task : task[t] # None => TaskOK(task[t])

ScanState == [page : SUBSET ScanRow, claim : Ticket \cup {None}]

ServiceTyped ==
    /\ handles \in [Lid -> Seq(Handle)]
    /\ live \subseteq generated
    /\ generated \subseteq Handle
    /\ reaper \in [Instance -> ScanState \cup {None}]
    /\ rotation_jobs \subseteq RotationJob
    /\ faults \in 0..MaxFaults

ServiceInv == TypeInv /\ TasksTyped /\ ServiceTyped /\ ReadsRotatable /\ SnapshotCurrent

(* What one step does to one task: it ends, it keeps what it remembers, or  *)
(* it starts, and then a rotation remembers the record that is stored.      *)
TaskStep(t) ==
    \/ task'[t] = None
    \/ /\ task[t] # None
       /\ TaskOK(task'[t])
       /\ task'[t].lid = task[t].lid
       /\ task'[t].read = task[t].read
       /\ task[t].pc = "store" <=> task'[t].pc = "store"
    \/ /\ TaskOK(task'[t])
       /\ task'[t].pc = "store" /\ task'[t].read = None
    \/ /\ TaskOK(task'[t])
       /\ task'[t].read = keys[task'[t].lid]
       /\ keys[task'[t].lid] # None
       /\ can_rotate_resident(task'[t].read)
       /\ UNCHANGED keys

(* The tasks that a step does not name keep their state. *)
LEMMA TaskKept ==
    ASSUME ServiceInv, NEW t \in Task, task'[t] = task[t]
    PROVE  TaskStep(t)
BY DEF ServiceInv, TasksTyped, TaskStep, TaskOK

(* Every step of a rotation does to every task what TaskStep says. *)
LEMMA RotateTasks ==
    ASSUME ServiceInv, NEW t \in Task, RotateStep(t), NEW u \in Task
    PROVE  TaskStep(u)
<1>. USE DEF ServiceInv, TasksTyped
<1>1. CASE u # t
  <2>1. task'[u] = task[u]
    BY <1>1 DEF RotateStep, RotateRead, RotateList, RotateGenerate, RotateBusy, RotateCommit,
                RotateConflict, RotateFails, RotateDiscard, RotateEnqueue, EndTask, enqueue
  <2>. QED  BY <2>1, TaskKept
<1>2. CASE u = t
  <2>1. ASSUME NEW i \in Instance, NEW l \in Lid, RotateRead(t, i, l)
        PROVE  TaskStep(t)
    <3>1. keys[l] \in KeyRecord
      BY <2>1, RowsTyped DEF RotateRead, TypeInv
    <3>2. task'[t] = [inst |-> i, pc |-> "list", lid |-> l, read |-> keys[l],
                      queue |-> {l}, found |-> {}, handle |-> None]
      BY <2>1 DEF RotateRead
    <3>3. TaskOK(task'[t])
      BY <3>1, <3>2 DEF TaskState, TaskOK
    <3>4. keys[l] # None /\ can_rotate_resident(keys[l]) /\ UNCHANGED keys
      BY <2>1 DEF RotateRead, vars
    <3>. QED  BY <3>2, <3>3, <3>4 DEF TaskStep
  <2>2. ASSUME NEW q \in Lid, RotateList(t, q)
        PROVE  TaskStep(t)
    <3>. DEFINE new == children(q) \ (task[t].found \cup {task[t].lid})
    <3>1. task[t] \in TaskState /\ task[t].pc = "list" /\ task[t] # None
      BY <2>2 DEF RotateList
    <3>2. new \subseteq Lid
      BY DEF children
    <3>3. task'[t] = [task[t] EXCEPT !.queue = (@ \ {q}) \cup new, !.found = @ \cup new]
      BY <2>2 DEF RotateList
    <3>. HIDE DEF new
    <3>4. TaskOK(task'[t])
      <4>. DEFINE a == [task[t] EXCEPT !.queue = (@ \ {q}) \cup new]
                  b == [a EXCEPT !.found = @ \cup new]
      <4>1. a \in TaskState /\ a.pc = "list"
        BY <3>1, <3>2 DEF TaskState
      <4>2. task'[t] = b
        BY <3>3
      <4>. HIDE DEF a
      <4>3. b \in TaskState /\ b.pc = "list"
        BY <3>2, <4>1 DEF TaskState
      <4>. QED  BY <4>2, <4>3 DEF TaskOK
    <3>. QED  BY <3>1, <3>3, <3>4 DEF TaskStep, TaskState
  <2>3. ASSUME NEW h \in Handle, RotateGenerate(t, h)
        PROVE  TaskStep(t)
    <3>1. task[t] \in TaskState /\ task[t].pc = "list" /\ task[t] # None
      BY <2>3 DEF RotateGenerate
    <3>2. task'[t] = [task[t] EXCEPT !.pc = "commit", !.handle = h]
      BY <2>3 DEF RotateGenerate
    <3>3. TaskOK(task'[t])
      BY <3>1, <3>2 DEF TaskState, TaskOK
    <3>. QED  BY <3>1, <3>2, <3>3 DEF TaskStep, TaskState
  <2>4. ASSUME NEW left \in SUBSET Lid, task[t] # None, task[t].pc # "store", enqueue(t, left)
        PROVE  TaskStep(t)
    <3>1. task[t] \in TaskState
      BY <2>4
    <3>2. CASE left = {}
      BY <2>4, <3>2 DEF enqueue, TaskStep
    <3>3. CASE left # {}
      <4>1. task'[t] = [task[t] EXCEPT !.pc = "enqueue", !.found = left]
        BY <2>4, <3>3 DEF enqueue
      <4>2. TaskOK(task'[t])
        BY <3>1, <4>1 DEF TaskState, TaskOK
      <4>. QED  BY <2>4, <3>1, <4>1, <4>2 DEF TaskStep, TaskState
    <3>. QED  BY <3>2, <3>3
  <2>5. ASSUME RotateCommit(t) PROVE TaskStep(t)
    <3>1. CASE enqueue(t, task[t].found)
      <4>1. task[t] # None /\ task[t].pc = "commit" /\ task[t].found \in SUBSET Lid
        BY <2>5 DEF RotateCommit, TaskState
      <4>. QED  BY <2>4, <3>1, <4>1
    <3>2. CASE EndTask(t)
      BY <3>2 DEF EndTask, TaskStep
    <3>. QED  BY <2>5, <3>1, <3>2 DEF RotateCommit
  <2>6. ASSUME RotateConflict(t) PROVE TaskStep(t)
    <3>1. /\ task[t] \in TaskState /\ task[t].pc = "commit" /\ task[t] # None
          /\ task[t].handle \in Handle
      BY <2>6 DEF RotateConflict, TaskOK
    <3>2. task'[t] = [task[t] EXCEPT !.pc = "discard"]
      BY <2>6 DEF RotateConflict
    <3>3. TaskOK(task'[t])
      BY <3>1, <3>2 DEF TaskState, TaskOK
    <3>. QED  BY <3>1, <3>2, <3>3 DEF TaskStep, TaskState
  <2>7. ASSUME NEW d \in Lid, RotateEnqueue(t, d) PROVE TaskStep(t)
    <3>1. /\ task[t] # None /\ task[t].pc = "enqueue" /\ task[t].found \ {d} \in SUBSET Lid
          /\ enqueue(t, task[t].found \ {d})
      BY <2>7 DEF RotateEnqueue, TaskState
    <3>. QED  BY <2>4, <3>1
  <2>8. CASE RotateBusy(t) \/ RotateFails(t) \/ RotateDiscard(t)
    BY <2>8 DEF RotateBusy, RotateFails, RotateDiscard, EndTask, TaskStep
  <2>. QED  BY <1>2, <2>1, <2>2, <2>3, <2>5, <2>6, <2>7, <2>8 DEF RotateStep
<1>. QED  BY <1>1, <1>2

(* So does every other step. *)
LEMMA ServiceTasks ==
    ASSUME ServiceInv, [ServiceNext]_allVars, NEW u \in Task
    PROVE  TaskStep(u)
<1>1. ASSUME NEW t \in Task, NEW i \in Instance, NEW l \in Lid, NEW h \in Handle,
             CreateGenerate(t, i, l, h)
      PROVE  TaskStep(u)
  <2>1. CASE u = t
    <3>1. task'[t] = [inst |-> i, pc |-> "store", lid |-> l, read |-> None,
                      queue |-> {}, found |-> {}, handle |-> h]
      BY <1>1 DEF CreateGenerate, ServiceInv, TasksTyped
    <3>2. TaskOK(task'[t])
      BY <3>1 DEF TaskState, TaskOK
    <3>. QED  BY <2>1, <3>1, <3>2 DEF TaskStep
  <2>2. CASE u # t
    BY <1>1, <2>2, TaskKept DEF CreateGenerate, ServiceInv, TasksTyped
  <2>. QED  BY <2>1, <2>2
<1>2. ASSUME NEW t \in Task, CreateStore(t)
      PROVE  TaskStep(u)
  <2>1. CASE u = t
    BY <1>2, <2>1 DEF CreateStore, EndTask, TaskStep, ServiceInv, TasksTyped
  <2>2. CASE u # t
    BY <1>2, <2>2, TaskKept DEF CreateStore, EndTask, ServiceInv, TasksTyped
  <2>. QED  BY <2>1, <2>2
<1>3. ASSUME NEW i \in Instance, ReaperStep(i)
      PROVE  TaskStep(u)
  <2>1. UNCHANGED task
    BY <1>3 DEF ReaperStep, ReaperScan, ReaperClaim, ReaperSkip, ReaperDestroy, ReaperComplete
  <2>. QED  BY <2>1, TaskKept
<1>4. ASSUME NEW i \in Instance, Crash(i)
      PROVE  TaskStep(u)
  <2>1. task'[u] = None \/ task'[u] = task[u]
    BY <1>4 DEF Crash
  <2>. QED  BY <2>1, TaskKept DEF TaskStep
<1>5. CASE OtherRequest \/ UNCHANGED allVars
  <2>1. UNCHANGED task
    BY <1>5 DEF OtherRequest, serviceVars, allVars
  <2>. QED  BY <2>1, TaskKept
<1>. QED  BY <1>1, <1>2, <1>3, <1>4, <1>5, RotateTasks DEF ServiceNext

(* The task table keeps a row for every task. *)
LEMMA TasksStayTable ==
    ASSUME ServiceInv, [ServiceNext]_allVars
    PROVE  task' = [t \in Task |-> task'[t]]
<1>. USE DEF ServiceInv, TasksTyped
<1>1. ASSUME NEW t \in Task, RotateStep(t)
      PROVE  task' = [u \in Task |-> task'[u]]
  BY <1>1 DEF RotateStep, RotateRead, RotateList, RotateGenerate, RotateBusy, RotateCommit,
              RotateConflict, RotateFails, RotateDiscard, RotateEnqueue, EndTask, enqueue
<1>2. ASSUME NEW t \in Task, CreateStore(t) \/
                (\E i \in Instance, l \in Lid, h \in Handle : CreateGenerate(t, i, l, h))
      PROVE  task' = [u \in Task |-> task'[u]]
  BY <1>2 DEF CreateStore, CreateGenerate, EndTask
<1>3. ASSUME NEW i \in Instance, ReaperStep(i)
      PROVE  task' = [u \in Task |-> task'[u]]
  <2>1. UNCHANGED task
    BY <1>3 DEF ReaperStep, ReaperScan, ReaperClaim, ReaperSkip, ReaperDestroy, ReaperComplete
  <2>. QED  BY <2>1
<1>4. ASSUME NEW i \in Instance, Crash(i)
      PROVE  task' = [u \in Task |-> task'[u]]
  BY <1>4 DEF Crash
<1>5. CASE OtherRequest \/ UNCHANGED allVars
  BY <1>5 DEF OtherRequest, serviceVars, allVars
<1>. QED  BY <1>1, <1>2, <1>3, <1>4, <1>5 DEF ServiceNext

-----------------------------------------------------------------------------
(* Every step is a step of the store *)

(* The write of a rotation that passes the OCC check is a write from the    *)
(* record that is stored: the remembered record and the stored one are the  *)
(* same.                                                                    *)
LEMMA CommitRefines ==
    ASSUME ServiceInv, NEW t \in Task, RotateCommit(t)
    PROVE  KeyOps
<1>. DEFINE l == task[t].lid
            r == task[t].read
<1>1. task[t] \in TaskState /\ task[t] # None /\ task[t].pc = "commit"
  BY DEF RotateCommit, ServiceInv, TasksTyped
<1>2. l \in Lid /\ r # None /\ r \in KeyRecord /\ can_rotate_resident(r)
  BY <1>1 DEF ServiceInv, ReadsRotatable, TaskState
<1>3. UpdateKey(l, rotate_resident(r))
  BY DEF RotateCommit
<1>4. keys[l] # None /\ keys[l].occ_version = rotate_resident(r).occ_version - 1
  BY <1>3 DEF UpdateKey
<1>5. rotate_resident(r).occ_version = r.occ_version + 1
  BY <1>2 DEF rotate_resident, KeyRecord
<1>6. keys[l].occ_version = r.occ_version
  BY <1>2, <1>4, <1>5 DEF KeyRecord
<1>7. r = keys[l]
  BY <1>1, <1>2, <1>6 DEF ServiceInv, SnapshotCurrent
<1>8. rotate_resident(r) \in proposals(keys[l])
  BY <1>2, <1>7 DEF proposals
<1>. QED  BY <1>2, <1>3, <1>4, <1>8 DEF KeyOps

(* The reaper claims, recovers and completes through the fence. *)
LEMMA ReaperRefines ==
    ASSUME ServiceInv, NEW i \in Instance, ReaperStep(i)
    PROVE  DestructionOps \/ UNCHANGED vars
<1>1. CASE ReaperScan(i) \/ ReaperDestroy(i) \/ \E row \in ScanRow : ReaperSkip(i, row)
  BY <1>1 DEF ReaperScan, ReaperDestroy, ReaperSkip
<1>2. ASSUME NEW row \in ScanRow, ReaperClaim(i, row)
      PROVE  DestructionOps
  <2>1. row.lid \in Lid
    BY DEF ScanRow
  <2>. QED  BY <1>2, <2>1 DEF ReaperClaim, claim_destruction, DestructionOps
<1>3. CASE ReaperComplete(i)
  <2>1. reaper[i].claim.lid \in Lid
    BY <1>3 DEF ReaperComplete, ServiceInv, ServiceTyped, ScanState, Ticket
  <2>. QED  BY <1>3, <2>1 DEF ReaperComplete, complete_destruction, DestructionOps
<1>. QED  BY <1>1, <1>2, <1>3 DEF ReaperStep

(* Other requests are operations of the store already. *)
LEMMA OtherRefines == OtherRequest => Next
<1>1. \A r : edits(r) \subseteq proposals(r)
  BY DEF edits
<1>. QED  BY <1>1 DEF OtherRequest, Next, KeyOps, DestructionOps

(* A creation stores its record as create_key. *)
LEMMA CreateRefines ==
    ASSUME ServiceInv, NEW t \in Task, CreateStore(t)
    PROVE  KeyOps \/ UNCHANGED vars
<1>1. task[t].lid \in Lid
  BY DEF CreateStore, ServiceInv, TasksTyped, TaskState
<1>. QED  BY <1>1 DEF CreateStore, KeyOps

(* A step of the service is a step of the store or leaves it alone. *)
LEMMA StepRefines == ServiceInv /\ [ServiceNext]_allVars => [Next]_vars
<1>. SUFFICES ASSUME ServiceInv, [ServiceNext]_allVars
              PROVE  Next \/ UNCHANGED vars
  OBVIOUS
<1>1. ASSUME NEW t \in Task, RotateStep(t)
      PROVE  Next \/ UNCHANGED vars
  <2>1. CASE RotateCommit(t)
    BY <2>1, CommitRefines DEF Next
  <2>2. CASE ~RotateCommit(t)
    BY <1>1, <2>2 DEF RotateStep, RotateRead, RotateList, RotateGenerate, RotateBusy,
                      RotateConflict, RotateFails, RotateDiscard, RotateEnqueue
  <2>. QED  BY <2>1, <2>2
<1>2. ASSUME NEW t \in Task, CreateStore(t)
      PROVE  Next \/ UNCHANGED vars
  BY <1>2, CreateRefines DEF Next
<1>3. ASSUME NEW i \in Instance, ReaperStep(i)
      PROVE  Next \/ UNCHANGED vars
  BY <1>3, ReaperRefines DEF Next
<1>4. ASSUME NEW t \in Task, NEW i \in Instance, NEW l \in Lid, NEW h \in Handle,
             CreateGenerate(t, i, l, h)
      PROVE  UNCHANGED vars
  BY <1>4 DEF CreateGenerate
<1>5. ASSUME NEW i \in Instance, Crash(i)
      PROVE  UNCHANGED vars
  BY <1>5 DEF Crash
<1>6. CASE UNCHANGED allVars
  BY <1>6 DEF allVars
<1>. QED  BY <1>1, <1>2, <1>3, <1>4, <1>5, <1>6, OtherRefines DEF ServiceNext

-----------------------------------------------------------------------------
(* The invariant is inductive *)

(* A record read earlier stays current exactly until a writer advances the  *)
(* OCC version of its key.                                                  *)
LEMMA SnapshotStep ==
    ServiceInv /\ [ServiceNext]_allVars => SnapshotCurrent' /\ ReadsRotatable'
<1>. SUFFICES ASSUME ServiceInv, [ServiceNext]_allVars, NEW t \in Task,
                     task'[t] # None
              PROVE  /\ task'[t].pc # "store" => task'[t].read # None
                     /\ task'[t].read # None =>
                          /\ can_rotate_resident(task'[t].read)
                          /\ keys'[task'[t].lid] # None
                          /\ task'[t].read.occ_version <= keys'[task'[t].lid].occ_version
                          /\ task'[t].read.occ_version = keys'[task'[t].lid].occ_version =>
                                task'[t].read = keys'[task'[t].lid]
  BY DEF SnapshotCurrent, ReadsRotatable
<1>1. TaskStep(t)
  BY ServiceTasks
<1>2. CASE /\ task[t] # None /\ TaskOK(task'[t])
           /\ task'[t].lid = task[t].lid /\ task'[t].read = task[t].read
           /\ task[t].pc = "store" <=> task'[t].pc = "store"
  <2>. DEFINE l == task[t].lid
              r == task[t].read
  <2>1. /\ task[t].pc # "store" => r # None
        /\ r # None => /\ can_rotate_resident(r)
                       /\ keys[l] # None
                       /\ r.occ_version <= keys[l].occ_version
                       /\ r.occ_version = keys[l].occ_version => r = keys[l]
    BY <1>2 DEF ServiceInv, SnapshotCurrent, ReadsRotatable
  <2>2. l \in Lid /\ (r # None => r \in KeyRecord)
    BY <1>2 DEF ServiceInv, TasksTyped, TaskOK, TaskState
  <2>3. keys'[l] = keys[l] \/ KeyWriter(l)
    BY <2>2, StepRefines, KeyStep DEF ServiceInv
  <2>4. CASE keys'[l] = keys[l]
    BY <1>2, <2>1, <2>4
  <2>5. CASE KeyWriter(l) /\ r # None
    <3>1. keys[l] # None /\ keys[l] \in KeyRecord
      BY <2>1, <2>2, <2>5, RowsTyped DEF ServiceInv, TypeInv
    <3>2. keys'[l] # None /\ keys'[l].occ_version = keys[l].occ_version + 1
      BY <2>2, <2>5, <3>1, WriterKeepsKey, WriterAdvances DEF ServiceInv
    <3>3. r.occ_version \in Nat /\ keys[l].occ_version \in Nat
      BY <2>2, <2>5, <3>1, BoundsAssumption DEF KeyRecord
    <3>4. r.occ_version <= keys[l].occ_version
      BY <2>1, <2>5
    <3>. HIDE DEF l, r
    <3>5. r.occ_version <= keys'[l].occ_version /\ r.occ_version # keys'[l].occ_version
      BY <3>2, <3>3, <3>4
    <3>6. task'[t].lid = l /\ task'[t].read = r
      BY <1>2 DEF l, r
    <3>. QED  BY <2>1, <2>5, <3>2, <3>5, <3>6
  <2>. QED  BY <1>2, <2>1, <2>3, <2>4, <2>5
<1>3. CASE TaskOK(task'[t]) /\ task'[t].pc = "store" /\ task'[t].read = None
  BY <1>3
<1>4. CASE /\ TaskOK(task'[t])
           /\ task'[t].read = keys[task'[t].lid]
           /\ keys[task'[t].lid] # None
           /\ can_rotate_resident(task'[t].read)
           /\ UNCHANGED keys
  <2>1. keys[task'[t].lid] \in KeyRecord
    BY <1>4, RowsTyped DEF ServiceInv, TypeInv, TaskOK, TaskState
  <2>. QED  BY <1>4, <2>1, BoundsAssumption DEF KeyRecord
<1>. QED  BY <1>1, <1>2, <1>3, <1>4 DEF TaskStep

(* The table of tasks stays typed. *)
LEMMA TasksTypedStep == ServiceInv /\ [ServiceNext]_allVars => TasksTyped'
<1>. SUFFICES ASSUME ServiceInv, [ServiceNext]_allVars
              PROVE  TasksTyped'
  OBVIOUS
<1>1. \A t \in Task : task'[t] = None \/ TaskOK(task'[t])
  BY ServiceTasks DEF TaskStep
<1>2. \A t \in Task : task'[t] \in TaskState \cup {None}
  BY <1>1 DEF TaskOK
<1>3. task' \in [Task -> TaskState \cup {None}]
  BY <1>2, TasksStayTable
<1>. QED  BY <1>1, <1>3 DEF TasksTyped

(* next_row leaves the reaper of i without a claim. *)
LEMMA NextRowTyped ==
    ASSUME ServiceTyped, NEW i \in Instance, NEW rest \in SUBSET ScanRow, next_row(i, rest)
    PROVE  reaper' \in [Instance -> ScanState \cup {None}]
<1>. DEFINE s == IF rest = {} THEN None ELSE [page |-> rest, claim |-> None]
<1>1. s \in ScanState \cup {None}
  BY DEF ScanState
<1>2. reaper' = [reaper EXCEPT ![i] = s]
  BY DEF next_row
<1>. HIDE DEF s
<1>. QED  BY <1>1, <1>2 DEF ServiceTyped

(* The fault budget is kept or spent. *)
LEMMA FaultTyped ==
    ASSUME ServiceTyped, Fault \/ UNCHANGED faults
    PROVE  faults' \in 0..MaxFaults
BY FaultsAssumption DEF ServiceTyped, Fault

(* The reaper's steps keep the service's state typed. *)
LEMMA ReaperTyped ==
    ASSUME ServiceInv, NEW i \in Instance, ReaperStep(i)
    PROVE  ServiceTyped'
<1>. USE DEF ServiceInv
<1>1. /\ UNCHANGED <<handles, generated, rotation_jobs>>
      /\ Fault \/ UNCHANGED faults
  BY DEF ReaperStep, ReaperScan, ReaperClaim, ReaperSkip, ReaperDestroy, ReaperComplete
<1>2. live' \subseteq live
  BY DEF ReaperStep, ReaperScan, ReaperClaim, ReaperSkip, ReaperDestroy, ReaperComplete
<1>3. reaper' \in [Instance -> ScanState \cup {None}]
  <2>1. CASE ReaperScan(i)
    <3>. DEFINE page == {[lid |-> l, occ |-> keys[l].occ_version] : l \in {k \in Lid : due(k)}}
    <3>1. page \subseteq ScanRow
      <4>1. ASSUME NEW l \in Lid, due(l)
            PROVE  [lid |-> l, occ |-> keys[l].occ_version] \in ScanRow
        <5>1. keys[l] \in KeyRecord
          BY <4>1, RowsTyped DEF due, TypeInv
        <5>. QED  BY <5>1 DEF ScanRow, KeyRecord
      <4>. QED  BY <4>1
    <3>2. next_row(i, page)
      BY <2>1 DEF ReaperScan
    <3>. HIDE DEF page
    <3>. QED  BY <3>1, <3>2, NextRowTyped
  <2>2. ASSUME NEW row \in ScanRow, ReaperClaim(i, row)
        PROVE  reaper' \in [Instance -> ScanState \cup {None}]
    <3>. DEFINE s == reaper[i]
                c == [lid |-> row.lid, handles |-> handles[row.lid], next |-> 1]
    <3>1. s \in ScanState
      BY <2>2 DEF ReaperClaim, ServiceTyped
    <3>2. c \in Ticket
      BY DEF Ticket, ScanRow, ServiceTyped
    <3>3. s.page \ {row} \in SUBSET ScanRow
      BY <3>1 DEF ScanState
    <3>4. CASE next_row(i, s.page \ {row})
      BY <3>3, <3>4, NextRowTyped
    <3>5. CASE reaper' = [reaper EXCEPT ![i].page = @ \ {row}, ![i].claim = c]
      <4>. DEFINE p == [s EXCEPT !.page = @ \ {row}]
                  n == [p EXCEPT !.claim = c]
      <4>1. reaper' = [reaper EXCEPT ![i] = n]
        BY <3>5 DEF ServiceTyped
      <4>. HIDE DEF c
      <4>2. p \in ScanState
        BY <3>1, <3>3 DEF ScanState
      <4>. HIDE DEF p
      <4>3. n \in ScanState
        BY <3>2, <4>2 DEF ScanState
      <4>. HIDE DEF n
      <4>. QED  BY <4>1, <4>3 DEF ServiceTyped
    <3>. QED  BY <2>2, <3>4, <3>5 DEF ReaperClaim
  <2>3. ASSUME NEW row \in ScanRow, ReaperSkip(i, row)
        PROVE  reaper' \in [Instance -> ScanState \cup {None}]
    <3>1. reaper[i].page \ {row} \in SUBSET ScanRow
      BY <2>3 DEF ReaperSkip, ServiceTyped, ScanState
    <3>. QED  BY <2>3, <3>1, NextRowTyped DEF ReaperSkip
  <2>4. CASE ReaperDestroy(i)
    <3>. DEFINE s == reaper[i]
    <3>1. s \in ScanState /\ s.claim \in Ticket
      BY <2>4 DEF ReaperDestroy, ServiceTyped, ScanState
    <3>2. s.page \in SUBSET ScanRow
      BY <3>1 DEF ScanState
    <3>3. CASE next_row(i, s.page)
      BY <3>2, <3>3, NextRowTyped
    <3>4. CASE reaper' = [reaper EXCEPT ![i].claim.next = @ + 1]
      <4>. DEFINE d == [s.claim EXCEPT !.next = @ + 1]
                  n == [s EXCEPT !.claim = d]
      <4>1. d \in Ticket
        BY <3>1 DEF Ticket
      <4>2. reaper' = [reaper EXCEPT ![i] = n]
        BY <3>4 DEF ServiceTyped
      <4>. HIDE DEF d
      <4>3. n \in ScanState
        BY <3>1, <4>1 DEF ScanState
      <4>. HIDE DEF n
      <4>. QED  BY <4>2, <4>3 DEF ServiceTyped
    <3>. QED  BY <2>4, <3>3, <3>4 DEF ReaperDestroy
  <2>5. CASE ReaperComplete(i)
    <3>1. reaper[i].page \in SUBSET ScanRow
      BY <2>5 DEF ReaperComplete, ServiceTyped, ScanState
    <3>. QED  BY <2>5, <3>1, NextRowTyped DEF ReaperComplete
  <2>. QED  BY <2>1, <2>2, <2>3, <2>4, <2>5 DEF ReaperStep
<1>. QED  BY <1>1, <1>2, <1>3, FaultTyped DEF ServiceTyped

(* The steps of creations and rotations keep it typed. *)
LEMMA TaskTyped ==
    ASSUME ServiceInv, NEW t \in Task, CreateStore(t) \/ RotateStep(t)
    PROVE  ServiceTyped'
<1>. USE DEF ServiceInv, TasksTyped
<1>1. /\ UNCHANGED reaper
      /\ Fault \/ UNCHANGED faults
  BY DEF CreateStore, RotateStep, RotateRead, RotateList, RotateGenerate, RotateBusy,
         RotateCommit, RotateConflict, RotateFails, RotateDiscard, RotateEnqueue
<1>2. \/ UNCHANGED <<generated, live>>
      \/ UNCHANGED generated /\ live' \subseteq live
      \/ \E h \in Handle : generate_key(h)
  BY DEF CreateStore, RotateStep, RotateRead, RotateList, RotateGenerate, RotateBusy,
         RotateCommit, RotateConflict, RotateFails, RotateDiscard, RotateEnqueue
<1>3. live' \subseteq generated' /\ generated' \subseteq Handle
  BY <1>2 DEF generate_key, ServiceTyped
<1>4. handles' \in [Lid -> Seq(Handle)]
  <2>1. CASE CreateStore(t)
    <3>1. task[t].lid \in Lid /\ task[t].handle \in Handle
      BY <2>1 DEF CreateStore, TaskState, TaskOK
    <3>2. <<task[t].handle>> \in Seq(Handle)
      BY <3>1
    <3>3. \/ handles' = [handles EXCEPT ![task[t].lid] = <<task[t].handle>>]
          \/ handles' = handles
      BY <2>1 DEF CreateStore
    <3>. QED  BY <3>1, <3>2, <3>3 DEF ServiceTyped
  <2>2. CASE RotateCommit(t)
    <3>1. task[t].lid \in Lid /\ task[t].handle \in Handle
      BY <2>2 DEF RotateCommit, TaskState, TaskOK
    <3>2. Append(handles[task[t].lid], task[t].handle) \in Seq(Handle)
      BY <3>1 DEF ServiceTyped
    <3>. QED  BY <2>2, <3>1, <3>2 DEF RotateCommit, ServiceTyped
  <2>3. CASE RotateStep(t) /\ ~RotateCommit(t)
    BY <2>3 DEF RotateStep, RotateRead, RotateList, RotateGenerate, RotateBusy,
                RotateConflict, RotateFails, RotateDiscard, RotateEnqueue, ServiceTyped
  <2>. QED  BY <2>1, <2>2, <2>3
<1>5. rotation_jobs' \subseteq RotationJob
  <2>1. ASSUME NEW d \in Lid, RotateEnqueue(t, d)
        PROVE  rotation_jobs' \subseteq RotationJob
    <3>. DEFINE j == [parent |-> task[t].lid, dependent |-> d,
                      new_version |-> current_key_version(task[t].read) + 1]
    <3>1. /\ task[t] \in TaskState /\ task[t].read \in KeyRecord
          /\ can_rotate_resident(task[t].read)
      BY <2>1 DEF RotateEnqueue, ReadsRotatable, TaskState
    <3>2. current_key_version(task[t].read) + 1 \in Version
      BY <3>1, CurrentVersionTyped, BoundsAssumption DEF can_rotate_resident, Version
    <3>3. j \in RotationJob
      BY <3>1, <3>2 DEF RotationJob, TaskState
    <3>4. rotation_jobs' \subseteq rotation_jobs \cup {j}
      BY <2>1 DEF RotateEnqueue
    <3>. HIDE DEF j
    <3>. QED  BY <3>3, <3>4 DEF ServiceTyped
  <2>2. CASE ~\E d \in Lid : RotateEnqueue(t, d)
    BY <2>2 DEF CreateStore, RotateStep, RotateRead, RotateList, RotateGenerate, RotateBusy,
                RotateCommit, RotateConflict, RotateFails, RotateDiscard, ServiceTyped
  <2>. QED  BY <2>1, <2>2
<1>. QED  BY <1>1, <1>3, <1>4, <1>5, FaultTyped DEF ServiceTyped

(* ServiceInv holds initially. *)
LEMMA ServiceInvInit == ServiceInit => ServiceInv
<1>. SUFFICES ASSUME ServiceInit
              PROVE  ServiceInv
  OBVIOUS
<1>1. TypeInv
  BY TypeInvInit DEF ServiceInit
<1>2. ServiceTyped
  BY FaultsAssumption DEF ServiceInit, ServiceTyped
<1>3. TasksTyped /\ ReadsRotatable /\ SnapshotCurrent
  BY DEF ServiceInit, TasksTyped, ReadsRotatable, SnapshotCurrent
<1>. QED  BY <1>1, <1>2, <1>3 DEF ServiceInv

(* Every step preserves ServiceInv. *)
LEMMA ServiceInvStep == ServiceInv /\ [ServiceNext]_allVars => ServiceInv'
<1>. SUFFICES ASSUME ServiceInv, [ServiceNext]_allVars
              PROVE  ServiceInv'
  OBVIOUS
<1>1. TypeInv'
  BY StepRefines, TypeInvStep DEF ServiceInv
<1>2. ServiceTyped'
  <2>. USE DEF ServiceInv
  <2>1. ASSUME NEW t \in Task, NEW i \in Instance, NEW l \in Lid, NEW h \in Handle,
               CreateGenerate(t, i, l, h)
        PROVE  ServiceTyped'
    BY <2>1 DEF CreateGenerate, generate_key, ServiceTyped
  <2>2. ASSUME NEW i \in Instance, Crash(i)
        PROVE  ServiceTyped'
    BY <2>2, FaultTyped DEF Crash, ServiceTyped
  <2>3. CASE OtherRequest \/ UNCHANGED allVars
    BY <2>3 DEF OtherRequest, allVars, serviceVars, ServiceTyped
  <2>. QED  BY <2>1, <2>2, <2>3, TaskTyped, ReaperTyped DEF ServiceNext
<1>. QED  BY <1>1, <1>2, TasksTypedStep, SnapshotStep DEF ServiceInv

-----------------------------------------------------------------------------
(* Theorems *)

(* The service's state stays within its types: a ticket lists handles, a    *)
(* job names a version that fits the history, and the provider holds no     *)
(* material it has not issued.                                              *)
THEOREM ServiceTypeCorrect == ServiceSpec => []ServiceTypeOK
<1>1. ServiceInv => ServiceTypeOK
  BY DEF ServiceInv, ServiceTypeOK, ServiceTyped, ScanState, TasksTyped, TypeInv
<1>. QED  BY <1>1, ServiceInvInit, ServiceInvStep, PTL DEF ServiceSpec

(* A record that a rotation read earlier, and whose OCC version is still    *)
(* the stored one, is still the stored record: a rotation that passes       *)
(* update_key's OCC check loses no other write.                             *)
THEOREM SnapshotsStayCurrent == ServiceSpec => []SnapshotCurrent
<1>. QED  BY ServiceInvInit, ServiceInvStep, PTL DEF ServiceSpec, ServiceInv

(* The service implements the key store: creations, rotations and deletion  *)
(* scans of any number of processes, interleaved, failing and crashing,     *)
(* only ever take steps of KeyStore, so its theorems hold of the service.   *)
THEOREM StoreIsRefined == ServiceSpec => StoreRefined
<1>1. ServiceInit => Init
  BY DEF ServiceInit
<1>. QED  BY <1>1, ServiceInvInit, ServiceInvStep, StepRefines, PTL
          DEF ServiceSpec, Spec, StoreRefined

=============================================================================
