----------------------------- MODULE KeyService -----------------------------
(***************************************************************************)
(* The service's long-running work over the key store: resident creation   *)
(* and rotation (domain.rs), and the deletion reaper (workers.rs), with    *)
(* the provider whose material they generate and destroy.                  *)
(*                                                                         *)
(* Each task reads, calls the provider and writes in separate steps, so    *)
(* tasks of several processes interleave, and a process may crash between  *)
(* any two of them.  Every store step is an action of KeyStore.  A fault   *)
(* is a provider or storage error, a lost response or a crash; MaxFaults   *)
(* bounds how many happen.                                                 *)
(***************************************************************************)
EXTENDS KeyStore

CONSTANTS
    Task,       \* requests being served
    Handle,     \* provider key handles
    MaxFaults   \* bound on the number of faults

ASSUME FaultsAssumption == MaxFaults \in Nat

VARIABLES
    handles,        \* the key handles of the resident versions of each record
    generated,      \* handles the provider has ever issued
    live,           \* handles whose material the provider still holds
    task,           \* the creation or rotation each task is carrying out
    reaper,         \* the deletion scan of each process
    rotation_jobs,  \* jobs queued for dependents
    faults

serviceVars == <<handles, generated, live, task, reaper, rotation_jobs, faults>>
allVars == <<vars, serviceVars>>

TaskState ==
    [inst   : Instance,
     pc     : {"store", "list", "commit", "discard", "enqueue"},
     lid    : Lid,
     read   : KeyRecord \cup {None},   \* the record the rotation started from
     queue  : SUBSET Lid,              \* keys whose children are to be listed
     found  : SUBSET Lid,              \* dependents still to be given a job
     handle : Handle \cup {None}]

ScanRow == [lid : Lid, occ : 1..MaxOcc]

Ticket == [lid : Lid, handles : Seq(Handle), next : Nat \ {0}]

RotationJob == [parent : Lid, dependent : Lid, new_version : Version]

ServiceTypeOK ==
    /\ TypeOK
    /\ handles \in [Lid -> Seq(Handle)]
    /\ live \subseteq generated
    /\ generated \subseteq Handle
    /\ task \in [Task -> TaskState \cup {None}]
    /\ reaper \in [Instance -> [page : SUBSET ScanRow, claim : Ticket \cup {None}] \cup {None}]
    /\ rotation_jobs \subseteq RotationJob
    /\ faults \in 0..MaxFaults

ServiceInit ==
    /\ Init
    /\ handles = [l \in Lid |-> <<>>]
    /\ generated = {}
    /\ live = {}
    /\ task = [t \in Task |-> None]
    /\ reaper = [i \in Instance |-> None]
    /\ rotation_jobs = {}
    /\ faults = 0

Fault ==
    /\ faults < MaxFaults
    /\ faults' = faults + 1

(* generate_key: fresh material under a fresh handle. *)
generate_key(h) ==
    /\ h \notin generated
    /\ generated' = generated \cup {h}
    /\ live' = live \cup {h}

EndTask(t) == task' = [task EXCEPT ![t] = None]

-----------------------------------------------------------------------------
(* create_key, without a parent *)

(* The LID is derived afresh for the request. *)
CreateGenerate(t, i, l, h) ==
    /\ task[t] = None
    /\ keys[l] = None
    /\ \A u \in Task : task[u] # None => task[u].lid # l
    /\ generate_key(h)
    /\ task' = [task EXCEPT ![t] =
            [inst |-> i, pc |-> "store", lid |-> l, read |-> None,
             queue |-> {}, found |-> {}, handle |-> h]]
    /\ UNCHANGED <<vars, handles, reaper, rotation_jobs, faults>>

CreateStore(t) ==
    /\ task[t] # None /\ task[t].pc = "store"
    /\ EndTask(t)
    /\ \/ /\ CreateKey(task[t].lid)
          /\ handles' = [handles EXCEPT ![task[t].lid] = <<task[t].handle>>]
          /\ UNCHANGED faults
       \/ Fault /\ UNCHANGED <<vars, handles>>
    /\ UNCHANGED <<generated, live, reaper, rotation_jobs>>

-----------------------------------------------------------------------------
(* rotate_key, of a key whose versions are resident *)

children(l) == {k \in Lid : keys[k] # None /\ keys[k].parent_lid = l}

RotateRead(t, i, l) ==
    /\ task[t] = None
    /\ keys[l] # None
    /\ migration_guard(l)
    /\ can_rotate_resident(keys[l])
    /\ task' = [task EXCEPT ![t] =
            [inst |-> i, pc |-> "list", lid |-> l, read |-> keys[l],
             queue |-> {l}, found |-> {}, handle |-> None]]
    /\ UNCHANGED <<vars, handles, generated, live, reaper, rotation_jobs, faults>>

(* One list_children of the traversal. *)
RotateList(t, q) ==
    LET new == children(q) \ (task[t].found \cup {task[t].lid}) IN
    /\ task[t] # None /\ task[t].pc = "list"
    /\ q \in task[t].queue
    /\ task' = [task EXCEPT ![t].queue = (@ \ {q}) \cup new, ![t].found = @ \cup new]
    /\ UNCHANGED <<vars, handles, generated, live, reaper, rotation_jobs, faults>>

(* RotationInFlight: one rotation of a key at a time in a process. *)
slot_held(i, l) ==
    \E u \in Task : task[u] # None /\ task[u].inst = i /\ task[u].lid = l
                    /\ task[u].pc \in {"commit", "discard"}

RotateGenerate(t, h) ==
    /\ task[t] # None /\ task[t].pc = "list" /\ task[t].queue = {}
    /\ ~slot_held(task[t].inst, task[t].lid)
    /\ generate_key(h)
    /\ task' = [task EXCEPT ![t].pc = "commit", ![t].handle = h]
    /\ UNCHANGED <<vars, handles, reaper, rotation_jobs, faults>>

(* The slot is taken: the request is refused. *)
RotateBusy(t) ==
    /\ task[t] # None /\ task[t].pc = "list" /\ task[t].queue = {}
    /\ slot_held(task[t].inst, task[t].lid)
    /\ EndTask(t)
    /\ UNCHANGED <<vars, handles, generated, live, reaper, rotation_jobs, faults>>

(* The jobs left to queue once the new version is committed. *)
enqueue(t, left) ==
    task' = [task EXCEPT ![t] =
        IF left = {} THEN None ELSE [@ EXCEPT !.pc = "enqueue", !.found = left]]

(* The write commits; its response may be lost, and then the handler keeps  *)
(* the provider key and queues nothing.                                     *)
CommitUnchecked(t) ==
    /\ task[t] # None /\ task[t].pc = "commit"
    /\ keys[task[t].lid].state # "Destroyed"
    /\ keys' = [keys EXCEPT ![task[t].lid] = rotate_resident(task[t].read)]
    /\ handles' = [handles EXCEPT ![task[t].lid] =
            Append(SubSeq(@, 1, current_key_version(task[t].read)), task[t].handle)]
    /\ enqueue(t, task[t].found)
    /\ UNCHANGED <<creationVars, destructionVars, migrationVars, now, generated, live,
                   reaper, rotation_jobs, faults>>
RotateCommit(t) ==
    /\ task[t] # None /\ task[t].pc = "commit"
    /\ UpdateKey(task[t].lid, rotate_resident(task[t].read))
    /\ handles' = [handles EXCEPT ![task[t].lid] = Append(@, task[t].handle)]
    /\ \/ enqueue(t, task[t].found) /\ UNCHANGED faults
       \/ EndTask(t) /\ Fault
    /\ UNCHANGED <<generated, live, reaper, rotation_jobs>>

(* A write that lost its OCC check wrote nothing. *)
DiscardsWhenUncertain(t) ==
    /\ task[t] # None /\ task[t].pc = "commit"
    /\ task' = [task EXCEPT ![t].pc = "discard"]
    /\ \/ UNCHANGED <<vars, handles>>
       \/ /\ UpdateKey(task[t].lid, rotate_resident(task[t].read))
          /\ handles' = [handles EXCEPT ![task[t].lid] = Append(@, task[t].handle)]
    /\ UNCHANGED <<generated, live, reaper, rotation_jobs, faults>>
RotateConflict(t) ==
    /\ task[t] # None /\ task[t].pc = "commit"
    /\ keys[task[t].lid].occ_version # task[t].read.occ_version
    /\ task' = [task EXCEPT ![t].pc = "discard"]
    /\ UNCHANGED <<vars, handles, generated, live, reaper, rotation_jobs, faults>>

(* Any other error, of the provider before the write or of the write:       *)
(* nothing is written, and generated material is retained.                  *)
RotateFails(t) ==
    /\ task[t] # None /\ task[t].pc \in {"list", "commit"}
    /\ EndTask(t)
    /\ Fault
    /\ UNCHANGED <<vars, handles, generated, live, reaper, rotation_jobs>>

(* discard_unpublished_version is best effort. *)
RotateDiscard(t) ==
    /\ task[t] # None /\ task[t].pc = "discard"
    /\ EndTask(t)
    /\ \/ live' = live \ {task[t].handle} /\ UNCHANGED faults
       \/ Fault /\ UNCHANGED live
    /\ UNCHANGED <<vars, handles, generated, reaper, rotation_jobs>>

(* create_rotation_job for one dependent; a failure is only counted. *)
RotateEnqueue(t, d) ==
    /\ task[t] # None /\ task[t].pc = "enqueue"
    /\ d \in task[t].found
    /\ enqueue(t, task[t].found \ {d})
    /\ \/ /\ rotation_jobs' = rotation_jobs \cup
                {[parent |-> task[t].lid, dependent |-> d,
                  new_version |-> current_key_version(task[t].read) + 1]}
          /\ UNCHANGED faults
       \/ Fault /\ UNCHANGED rotation_jobs
    /\ UNCHANGED <<vars, handles, generated, live, reaper>>

RotateStep(t) ==
    \/ \E i \in Instance, l \in Lid : RotateRead(t, i, l)
    \/ \E q \in Lid : RotateList(t, q)
    \/ \E h \in Handle : RotateGenerate(t, h)
    \/ RotateBusy(t)
    \/ RotateCommit(t)
    \/ RotateConflict(t)
    \/ RotateFails(t)
    \/ RotateDiscard(t)
    \/ \E d \in Lid : RotateEnqueue(t, d)

-----------------------------------------------------------------------------
(* The deletion reaper *)

(* The scan lists keys pending deletion and skips those not yet due.  Here  *)
(* they fit in one page; KeyListing has the limit of a page.                *)
due(l) ==
    /\ keys[l] # None
    /\ keys[l].state = "PendingDeletion"
    /\ keys[l].scheduled_deletion_at # None
    /\ keys[l].scheduled_deletion_at <= now

(* The scan goes on with the rest of its page, or sleeps until the next. *)
next_row(i, rest) ==
    reaper' = [reaper EXCEPT ![i] = IF rest = {} THEN None ELSE [page |-> rest, claim |-> None]]

ReaperScan(i) ==
    LET page == {[lid |-> l, occ |-> keys[l].occ_version] : l \in {k \in Lid : due(k)}} IN
    /\ reaper[i] = None
    /\ page # {}
    /\ next_row(i, page)
    /\ UNCHANGED <<vars, handles, generated, live, task, rotation_jobs, faults>>

(* claim_destruction with the OCC version of the scanned row: a new claim,  *)
(* or the ticket of an incomplete one.                                      *)
ClaimsOnce(row) ==
    /\ keys[row.lid].occ_version = row.occ
    /\ ClaimDestruction(row.lid)
claim_destruction(row) ==
    /\ keys[row.lid].occ_version = row.occ
    /\ ClaimDestruction(row.lid) \/ RecoverClaim(row.lid)

claim_refused(row) ==
    \/ keys[row.lid].occ_version # row.occ
    \/ /\ destruction_guard(row.lid)
       /\ ~(/\ intent_admits(row.lid)
            /\ validate_owned_envelopes(row.lid)
            /\ prepare_claim(keys[row.lid]))

ReaperClaim(i, row) ==
    /\ reaper[i] # None /\ reaper[i].claim = None
    /\ row \in reaper[i].page
    /\ claim_destruction(row)
    /\ \/ /\ reaper' = [reaper EXCEPT ![i].page = @ \ {row}, ![i].claim =
                [lid |-> row.lid, handles |-> handles[row.lid], next |-> 1]]
          /\ UNCHANGED faults
       \/ next_row(i, reaper[i].page \ {row}) /\ Fault
    /\ UNCHANGED <<handles, generated, live, task, rotation_jobs>>

ReaperSkip(i, row) ==
    /\ reaper[i] # None /\ reaper[i].claim = None
    /\ row \in reaper[i].page
    /\ claim_refused(row)
    /\ next_row(i, reaper[i].page \ {row})
    /\ UNCHANGED <<vars, handles, generated, live, task, rotation_jobs, faults>>

(* destroy_backend_material, one version.  Confirmed absence is success; an *)
(* error leaves the outcome unknown and gives the ticket up.                *)
ReaperDestroy(i) ==
    /\ reaper[i] # None /\ reaper[i].claim # None
    /\ LET c == reaper[i].claim IN
        /\ c.next <= Len(c.handles)
        /\ \/ /\ live' = live \ {c.handles[c.next]}
              /\ reaper' = [reaper EXCEPT ![i].claim.next = @ + 1]
              /\ UNCHANGED faults
           \/ /\ live' \in {live, live \ {c.handles[c.next]}}
              /\ next_row(i, reaper[i].page)
              /\ Fault
    /\ UNCHANGED <<vars, handles, generated, task, rotation_jobs>>

(* complete_destruction; a repeat by another holder of the ticket succeeds  *)
(* without a change.                                                        *)
complete_destruction(l) ==
    \/ CompleteDestruction(l)
    \/ destruction_journal[l].completed /\ UNCHANGED vars

CompletesEarly(i) ==
    /\ reaper[i] # None /\ reaper[i].claim # None
    /\ reaper[i].claim.next >= Len(reaper[i].claim.handles)
    /\ complete_destruction(reaper[i].claim.lid)
    /\ UNCHANGED faults
    /\ next_row(i, reaper[i].page)
    /\ UNCHANGED <<handles, generated, live, task, rotation_jobs>>
ReaperComplete(i) ==
    /\ reaper[i] # None /\ reaper[i].claim # None
    /\ reaper[i].claim.next > Len(reaper[i].claim.handles)
    /\ \/ complete_destruction(reaper[i].claim.lid) /\ UNCHANGED faults
       \/ UNCHANGED vars /\ Fault
    /\ next_row(i, reaper[i].page)
    /\ UNCHANGED <<handles, generated, live, task, rotation_jobs>>

ReaperStep(i) ==
    \/ ReaperScan(i)
    \/ \E row \in ScanRow : ReaperClaim(i, row) \/ ReaperSkip(i, row)
    \/ ReaperDestroy(i)
    \/ ReaperComplete(i)

-----------------------------------------------------------------------------

(* A process stops: what its tasks and its scan held in memory is gone. *)
Crash(i) ==
    /\ \/ reaper[i] # None
       \/ \E t \in Task : task[t] # None /\ task[t].inst = i
    /\ task' = [t \in Task |->
            IF task[t] # None /\ task[t].inst = i THEN None ELSE task[t]]
    /\ reaper' = [reaper EXCEPT ![i] = None]
    /\ Fault
    /\ UNCHANGED <<vars, handles, generated, live, rotation_jobs>>

(* The other handlers read a record and write it back under its OCC         *)
(* version; a write from a stale record is refused and changes nothing.     *)
edits(r) == proposals(r) \ {rotate_resident(r)}

OtherRequest ==
    /\ \/ \E l \in Lid : keys[l] # None /\ \E next \in edits(keys[l]) : UpdateKey(l, next)
       \/ \E l \in Lid, at \in Time, allow \in BOOLEAN :
            at > now /\ ScheduleDestruction(l, at, allow)
       \/ \E l \in Lid : CancelDestruction(l)
       \/ CreationOps
       \/ Tick
    /\ UNCHANGED serviceVars

ServiceNext ==
    \/ \E t \in Task, i \in Instance, l \in Lid, h \in Handle : CreateGenerate(t, i, l, h)
    \/ \E t \in Task : CreateStore(t) \/ RotateStep(t)
    \/ \E i \in Instance : ReaperStep(i) \/ Crash(i)
    \/ OtherRequest

ServiceSpec == ServiceInit /\ [][ServiceNext]_allVars

(* Each process runs deletion_worker in a loop. *)
FairServiceSpec ==
    ServiceSpec /\ \A i \in Instance : WF_allVars(ReaperStep(i))

-----------------------------------------------------------------------------
(* Properties *)

(* The handle of every resident version names material the provider still   *)
(* holds, until the key is claimed for destruction: neither the clean-up of *)
(* a refused rotation nor a reaper acting on a stale scan removes material  *)
(* a record refers to (discard_unpublished_version, run_deletion_scan_at).  *)
MaterialInUseLives ==
    \A l \in Lid : destruction_journal[l] = None =>
        \A v \in DOMAIN handles[l] : handles[l][v] \in live

(* A key is published as Destroyed only when the provider holds none of its *)
(* versions any more, however scans, rotations, lost responses and crashes  *)
(* interleave (destroy_backend_material then complete_destruction).         *)
DestroyedIsErased ==
    \A l \in Lid : keys[l] # None /\ keys[l].state = "Destroyed" =>
        \A v \in DOMAIN handles[l] : handles[l][v] \notin live

(* A ticket stays good: while a reaper holds a ticket, the key is claimed   *)
(* and its versions are exactly the handles the ticket lists.               *)
TicketIsCurrent ==
    \A i \in Instance : reaper[i] # None /\ reaper[i].claim # None =>
        LET c == reaper[i].claim IN
        /\ destruction_journal[c.lid] # None
        /\ handles[c.lid] = c.handles
        /\ \A v \in 1..(c.next - 1) : c.handles[v] \notin live

(* OCC versions identify records: a record read earlier whose version is    *)
(* still the stored one is still the stored record, so the write of a task  *)
(* that passes the OCC check loses no other write.                          *)
SnapshotCurrent ==
    \A t \in Task : task[t] # None /\ task[t].read # None =>
        /\ keys[task[t].lid] # None
        /\ task[t].read.occ_version <= keys[task[t].lid].occ_version
        /\ task[t].read.occ_version = keys[task[t].lid].occ_version =>
            task[t].read = keys[task[t].lid]


(* A claimed key is destroyed in the end, provided faults stop: some reaper *)
(* scans it again, recovers the ticket and completes it.                    *)
ClaimsComplete ==
    \A l \in Lid :
        destruction_journal[l] # None ~> keys[l] # None /\ keys[l].state = "Destroyed"

(* The tasks use the store only through its operations: every step of a     *)
(* creation, rotation or deletion scan is a step of KeyStore from the       *)
(* record stored at that moment, so what KeyStore guarantees holds for the  *)
(* service although its tasks write from records they read earlier.         *)
StoreRefined == Spec

=============================================================================
