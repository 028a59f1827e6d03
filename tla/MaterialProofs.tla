--------------------------- MODULE MaterialProofs ---------------------------
(***************************************************************************)
(* Provider material under the service's tasks: what a record names is     *)
(* live until the key is claimed, and gone when the key is Destroyed, for  *)
(* any number of keys, tasks, processes, handles and faults.               *)
(***************************************************************************)
EXTENDS KeyServiceProofs

-----------------------------------------------------------------------------
(* Who owns a handle *)

(* A task that has called generate_key and neither published nor discarded  *)
(* the result yet.                                                          *)
Holding(t) == task[t] # None /\ task[t].pc \in {"store", "commit", "discard"}

(* The handles the record of a key names. *)
named(l) == {handles[l][v] : v \in DOMAIN handles[l]}

HandlesIssued ==
    /\ \A l \in Lid : named(l) \subseteq generated
    /\ \A t \in Task : Holding(t) => task[t].handle \in generated

(* A handle belongs to one record or to one task. *)
HandlesOwnedOnce ==
    /\ \A l, m \in Lid : l # m => named(l) \cap named(m) = {}
    /\ \A t \in Task, l \in Lid : Holding(t) => task[t].handle \notin named(l)
    /\ \A t, u \in Task :
        t # u /\ Holding(t) /\ Holding(u) => task[t].handle # task[u].handle

(* What a task may still publish is live. *)
HeldIsLive ==
    \A t \in Task : Holding(t) /\ task[t].pc # "discard" => task[t].handle \in live

NamedInv == HandlesIssued /\ HandlesOwnedOnce /\ HeldIsLive

(* A ticket counts no further than its last handle. *)
TicketBounded ==
    \A i \in Instance : reaper[i] # None /\ reaper[i].claim # None =>
        reaper[i].claim.next <= Len(reaper[i].claim.handles) + 1

MaterialInv ==
    /\ ServiceInv
    /\ FenceInv
    /\ NamedInv
    /\ TicketBounded
    /\ TicketIsCurrent
    /\ MaterialInUseLives
    /\ DestroyedIsErased

(* MaterialInUseLives in terms of the handles a record names. *)
LEMMA InUseByName ==
    MaterialInUseLives <=> \A l \in Lid : destruction_journal[l] = None => named(l) \subseteq live
BY DEF MaterialInUseLives, named

(* DestroyedIsErased in terms of the handles a record names. *)
LEMMA ErasedByName ==
    DestroyedIsErased <=>
        \A l \in Lid : keys[l] # None /\ keys[l].state = "Destroyed" => named(l) \cap live = {}
BY DEF DestroyedIsErased, named

(* A claim is never withdrawn. *)
LEMMA ClaimsStay ==
    ASSUME FenceInv, [Next]_vars, NEW l \in Lid, destruction_journal[l] # None
    PROVE  destruction_journal'[l] # None
<1>1. CASE ClaimDestruction(l)
  BY <1>1 DEF ClaimDestruction, destruction_guard
<1>2. CASE CompleteDestruction(l)
  <2>1. destruction_journal[l] \in DestructionJournal
    BY RowsTyped DEF FenceInv, TypeInv
  <2>2. destruction_journal'[l] = [destruction_journal[l] EXCEPT !.completed = TRUE]
    BY <1>2 DEF CompleteDestruction, FenceInv, TypeInv, TypeOK
  <2>. QED  BY <2>1, <2>2, RowsAssumption DEF DestructionJournal
<1>. QED  BY <1>1, <1>2, DestructionStep DEF FenceInv

(* Only the completion of a reaper completes the row of a key. *)
LEMMA CompletionStep ==
    ASSUME MaterialInv, [ServiceNext]_allVars, NEW l \in Lid,
           keys'[l] # None, keys'[l].state = "Destroyed"
    PROVE  \/ keys[l] # None /\ keys[l].state = "Destroyed"
           \/ \E i \in Instance : ReaperComplete(i) /\ reaper[i].claim.lid = l
<1>. USE DEF MaterialInv
<1>1. FenceInv' /\ [Next]_vars
  BY StepRefines, FenceStep
<1>2. destruction_journal'[l] # None /\ destruction_journal'[l].completed
  BY <1>1 DEF FenceInv, ClaimFrozen
<1>3. CASE destruction_journal'[l] = destruction_journal[l]
  <2>1. keys[l] \in KeyRecord /\ keys[l].state = "Destroyed"
    BY <1>2, <1>3, ClaimedKey
  <2>. QED  BY <2>1, AbsenceAssumption
<1>4. CASE ClaimDestruction(l)
  <2>1. destruction_journal'[l] =
            [snapshot |-> [keys[l] EXCEPT !.occ_version = @ + 1], completed |-> FALSE]
    BY <1>4 DEF ClaimDestruction, FenceInv, TypeInv, TypeOK
  <2>. QED  BY <1>2, <2>1
<1>5. CASE destruction_journal'[l] # destruction_journal[l] /\ ~ClaimDestruction(l)
  <2>1. ASSUME NEW t \in Task, RotateStep(t) \/ CreateStore(t)
        PROVE  FALSE
    <3>1. KeyOps \/ UNCHANGED vars
      <4>1. CASE RotateCommit(t)
        BY <4>1, CommitRefines
      <4>2. CASE CreateStore(t)
        BY <4>2, CreateRefines
      <4>. QED  BY <2>1, <4>1, <4>2
                DEF RotateStep, RotateRead, RotateList, RotateGenerate, RotateBusy,
                    RotateConflict, RotateFails, RotateDiscard, RotateEnqueue
    <3>. QED  BY <1>5, <3>1, OthersKeepDestruction
  <2>2. ASSUME UNCHANGED vars
        PROVE  FALSE
    BY <1>5, <2>2, OthersKeepDestruction
  <2>3. ASSUME NEW t \in Task, NEW i \in Instance, NEW k \in Lid, NEW h \in Handle,
               CreateGenerate(t, i, k, h)
        PROVE  FALSE
    BY <2>2, <2>3 DEF CreateGenerate
  <2>4. ASSUME NEW i \in Instance, Crash(i)
        PROVE  FALSE
    BY <2>2, <2>4 DEF Crash
  <2>5. ASSUME OtherRequest
        PROVE  FALSE
    <3>1. CASE \/ \E k \in Lid : keys[k] # None /\ \E next \in edits(keys[k]) : UpdateKey(k, next)
               \/ CreationOps
               \/ Tick
      <4>1. KeyOps \/ CreationOps \/ Tick
        BY <3>1 DEF KeyOps, edits
      <4>. QED  BY <1>5, <4>1, OthersKeepDestruction
    <3>2. CASE \/ \E k \in Lid, at \in Time, allow \in BOOLEAN : ScheduleDestruction(k, at, allow)
               \/ \E k \in Lid : CancelDestruction(k)
      BY <1>5, <3>2 DEF ScheduleDestruction, CancelDestruction
    <3>. QED  BY <2>5, <3>1, <3>2 DEF OtherRequest
  <2>6. ASSUME NEW i \in Instance, ReaperStep(i)
        PROVE  ReaperComplete(i) /\ reaper[i].claim.lid = l
    <3>1. ~ReaperScan(i) /\ ~ReaperDestroy(i)
      BY <2>2 DEF ReaperScan, ReaperDestroy
    <3>2. ASSUME NEW row \in ScanRow
          PROVE  ~ReaperSkip(i, row) /\ ~ReaperClaim(i, row)
      <4>1. ~ReaperSkip(i, row)
        BY <2>2 DEF ReaperSkip
      <4>2. ASSUME ClaimDestruction(row.lid), row.lid # l
            PROVE  FALSE
        BY <1>5, <4>2 DEF ClaimDestruction, FenceInv, TypeInv, TypeOK
      <4>3. ~RecoverClaim(row.lid)
        BY <1>5 DEF RecoverClaim
      <4>. QED  BY <1>5, <4>1, <4>2, <4>3 DEF ReaperClaim, claim_destruction
    <3>3. ReaperComplete(i)
      BY <2>6, <3>1, <3>2 DEF ReaperStep
    <3>4. CompleteDestruction(reaper[i].claim.lid)
      BY <2>2, <3>3 DEF ReaperComplete, complete_destruction
    <3>5. reaper[i].claim.lid = l
      BY <1>5, <3>4 DEF CompleteDestruction, FenceInv, TypeInv, TypeOK
    <3>. QED  BY <3>3, <3>5
  <2>7. ASSUME UNCHANGED allVars
        PROVE  FALSE
    BY <2>2, <2>7 DEF allVars
  <2>. QED  BY <2>1, <2>3, <2>4, <2>5, <2>6, <2>7 DEF ServiceNext
<1>. QED  BY <1>3, <1>4, <1>5

-----------------------------------------------------------------------------
(* What a step does to handles *)

(* generate_key under a task. *)
Issues(t, h) ==
    /\ generate_key(h)
    /\ task'[t].handle = h
    /\ \A u \in Task : u # t => task'[u] = task[u]
    /\ UNCHANGED <<handles, reaper>>

(* A task hands its handle over to the record of an unclaimed key. *)
Publishes(t, l) ==
    /\ Holding(t) /\ task[t].pc # "discard"
    /\ ~Holding(t)'
    /\ \A u \in Task : u # t => task'[u] = task[u]
    /\ destruction_journal[l] = None
    /\ named(l)' \subseteq named(l) \cup {task[t].handle}
    /\ \A k \in Lid : k # l => handles'[k] = handles[k]
    /\ UNCHANGED <<generated, live, reaper>>

KeepsHold(t) ==
    Holding(t)' => /\ Holding(t)
                   /\ task'[t].handle = task[t].handle
                   /\ task'[t].pc # "discard" => task[t].pc # "discard"

(* Handles stay where they are; tasks may let go of theirs. *)
Quiet ==
    /\ UNCHANGED <<handles, generated, live>>
    /\ \A t \in Task : KeepsHold(t)

(* Each step of a creation or rotation does one of these. *)
LEMMA TaskMaterial ==
    ASSUME MaterialInv, NEW t \in Task, CreateStore(t) \/ RotateStep(t)
    PROVE  \/ \E h \in Handle : Issues(t, h)
           \/ \E l \in Lid : Publishes(t, l)
           \/ RotateDiscard(t)
           \/ Quiet
<1>. USE DEF MaterialInv, ServiceInv, TasksTyped
<1>1. ASSUME NEW u \in Task, task'[u] = None \/ task'[u] = task[u]
      PROVE  KeepsHold(u)
  BY <1>1 DEF KeepsHold, Holding
<1>2. ASSUME task[t] # None, task[t].pc \in {"store", "commit"},
             UNCHANGED <<generated, live, reaper>>,
             EndTask(t) \/ enqueue(t, task[t].found),
             NEW l \in Lid,
             destruction_journal[l] = None,
             NEW s \in Seq(Handle),
             handles' = [handles EXCEPT ![l] = s],
             {s[v] : v \in DOMAIN s} \subseteq named(l) \cup {task[t].handle}
      PROVE  Publishes(t, l)
  <2>1. task[t] \in TaskState
    BY <1>2
  <2>2. ~Holding(t)'
    <3>1. task'[t] = None \/ task'[t] = [task[t] EXCEPT !.pc = "enqueue", !.found = task[t].found]
      BY <1>2 DEF EndTask, enqueue
    <3>. QED  BY <2>1, <3>1 DEF Holding, TaskState
  <2>3. handles'[l] = s /\ \A k \in Lid : k # l => handles'[k] = handles[k]
    BY <1>2 DEF ServiceTyped
  <2>4. named(l)' = {s[v] : v \in DOMAIN s}
    BY <2>3 DEF named
  <2>5. \A u \in Task : u # t => task'[u] = task[u]
    BY <1>2 DEF EndTask, enqueue
  <2>. QED  BY <1>2, <2>2, <2>3, <2>4, <2>5 DEF Publishes, Holding
<1>3. CASE CreateStore(t)
  <2>. DEFINE l == task[t].lid
              h == task[t].handle
  <2>1. /\ task[t] # None /\ task[t].pc = "store" /\ EndTask(t)
        /\ UNCHANGED <<generated, live, reaper>>
        /\ l \in Lid /\ h \in Handle
    BY <1>3 DEF CreateStore, TaskOK, TaskState
  <2>2. CASE CreateKey(l) /\ handles' = [handles EXCEPT ![l] = <<h>>]
    <3>1. destruction_journal[l] = None
      BY <2>2 DEF CreateKey, destruction_guard_write, destruction_guard
    <3>2. <<h>> \in Seq(Handle) /\ {<<h>>[v] : v \in DOMAIN <<h>>} \subseteq {h}
      BY <2>1
    <3>. HIDE DEF l, h
    <3>3. h = task[t].handle
      BY DEF h
    <3>. DEFINE s == <<h>>
    <3>4. s \in Seq(Handle) /\ {s[v] : v \in DOMAIN s} \subseteq named(l) \cup {task[t].handle}
      BY <3>2, <3>3
    <3>5. handles' = [handles EXCEPT ![l] = s]
      BY <2>2
    <3>. HIDE DEF s
    <3>6. Publishes(t, l)
      BY <1>2, <2>1, <3>1, <3>4, <3>5
    <3>. QED  BY <2>1, <3>6
  <2>3. CASE UNCHANGED handles
    BY <1>1, <2>1, <2>3 DEF EndTask, Quiet
  <2>. QED  BY <1>3, <2>2, <2>3 DEF CreateStore
<1>4. CASE RotateCommit(t)
  <2>. DEFINE l == task[t].lid
              h == task[t].handle
              s == Append(handles[l], h)
  <2>1. /\ task[t] # None /\ task[t].pc = "commit"
        /\ EndTask(t) \/ enqueue(t, task[t].found)
        /\ UNCHANGED <<generated, live, reaper>>
        /\ l \in Lid /\ h \in Handle
        /\ handles' = [handles EXCEPT ![l] = s]
    BY <1>4 DEF RotateCommit, TaskOK, TaskState
  <2>2. destruction_journal[l] = None
    BY <1>4 DEF RotateCommit, UpdateKey, destruction_guard_write, destruction_guard
  <2>3. handles[l] \in Seq(Handle)
    BY <2>1 DEF ServiceTyped
  <2>4. s \in Seq(Handle)
    BY <2>1, <2>3
  <2>5. \A v \in DOMAIN s : s[v] = h \/ (v \in DOMAIN handles[l] /\ s[v] = handles[l][v])
    BY <2>1, <2>3
  <2>. HIDE DEF s
  <2>6. {s[v] : v \in DOMAIN s} \subseteq named(l) \cup {task[t].handle}
    BY <2>5 DEF named
  <2>. HIDE DEF l, h
  <2>7. Publishes(t, l)
    BY <1>2, <2>1, <2>2, <2>4, <2>6
  <2>. QED  BY <2>1, <2>7
<1>5. ASSUME NEW h \in Handle, RotateGenerate(t, h)
      PROVE  Issues(t, h)
  <2>1. task'[t] = [task[t] EXCEPT !.pc = "commit", !.handle = h]
    BY <1>5 DEF RotateGenerate
  <2>2. task[t] \in TaskState
    BY <1>5 DEF RotateGenerate
  <2>3. task'[t].handle = h
    BY <2>1, <2>2 DEF TaskState
  <2>. QED  BY <1>5, <2>3 DEF RotateGenerate, Issues
<1>6. CASE RotateConflict(t)
  <2>1. task[t] \in TaskState /\ task[t] # None /\ task[t].pc = "commit"
    BY <1>6 DEF RotateConflict
  <2>2. task'[t] = [task[t] EXCEPT !.pc = "discard"] /\ \A u \in Task : u # t => task'[u] = task[u]
    BY <1>6 DEF RotateConflict
  <2>3. KeepsHold(t)
    BY <2>1, <2>2 DEF KeepsHold, Holding, TaskState
  <2>. QED  BY <1>1, <1>6, <2>2, <2>3 DEF RotateConflict, Quiet
<1>7. ASSUME NEW i \in Instance, NEW l \in Lid, RotateRead(t, i, l)
      PROVE  Quiet
  <2>1. task'[t].pc = "list" /\ \A u \in Task : u # t => task'[u] = task[u]
    BY <1>7 DEF RotateRead
  <2>. QED  BY <1>1, <1>7, <2>1 DEF RotateRead, Quiet, KeepsHold, Holding
<1>8. ASSUME NEW q \in Lid, RotateList(t, q)
      PROVE  Quiet
  <2>1. task[t] \in TaskState /\ task[t].pc = "list"
    BY <1>8 DEF RotateList
  <2>2. task'[t].pc = "list" /\ \A u \in Task : u # t => task'[u] = task[u]
    BY <1>8, <2>1 DEF RotateList, TaskState
  <2>. QED  BY <1>1, <1>8, <2>2 DEF RotateList, Quiet, KeepsHold, Holding
<1>9. ASSUME NEW d \in Lid, RotateEnqueue(t, d)
      PROVE  Quiet
  <2>1. task[t] \in TaskState /\ \A u \in Task : u # t => task'[u] = task[u]
    BY <1>9 DEF RotateEnqueue, enqueue
  <2>2. \/ task'[t] = None
        \/ task'[t] = [task[t] EXCEPT !.pc = "enqueue", !.found = task[t].found \ {d}]
    BY <1>9 DEF RotateEnqueue, enqueue
  <2>3. KeepsHold(t)
    BY <2>1, <2>2 DEF KeepsHold, Holding, TaskState
  <2>. QED  BY <1>1, <1>9, <2>1, <2>3 DEF RotateEnqueue, Quiet
<1>10. CASE RotateBusy(t) \/ RotateFails(t)
  BY <1>1, <1>10 DEF RotateBusy, RotateFails, EndTask, Quiet
<1>. QED  BY <1>3, <1>4, <1>5, <1>6, <1>7, <1>8, <1>9, <1>10 DEF RotateStep

(* So does every step of the service, or it is a reaper destroying. *)
LEMMA MaterialStep ==
    ASSUME MaterialInv, [ServiceNext]_allVars
    PROVE  \/ \E t \in Task, h \in Handle : Issues(t, h)
           \/ \E t \in Task, l \in Lid : Publishes(t, l)
           \/ \E t \in Task : RotateDiscard(t)
           \/ \E i \in Instance : ReaperDestroy(i)
           \/ Quiet
<1>. USE DEF MaterialInv, ServiceInv, TasksTyped
<1>1. ASSUME NEW t \in Task, NEW i \in Instance, NEW l \in Lid, NEW h \in Handle,
             CreateGenerate(t, i, l, h)
      PROVE  Issues(t, h)
  BY <1>1 DEF CreateGenerate, Issues
<1>2. ASSUME NEW i \in Instance, ReaperStep(i), ~ReaperDestroy(i)
      PROVE  Quiet
  BY <1>2 DEF ReaperStep, ReaperScan, ReaperClaim, ReaperSkip, ReaperComplete, Quiet,
              KeepsHold, Holding
<1>3. ASSUME NEW i \in Instance, Crash(i)
      PROVE  Quiet
  <2>1. \A t \in Task : task'[t] = None \/ task'[t] = task[t]
    BY <1>3 DEF Crash
  <2>. QED  BY <1>3, <2>1 DEF Crash, Quiet, KeepsHold, Holding
<1>4. CASE OtherRequest \/ UNCHANGED allVars
  BY <1>4 DEF OtherRequest, allVars, serviceVars, Quiet, KeepsHold, Holding
<1>. QED  BY <1>1, <1>2, <1>3, <1>4, TaskMaterial DEF ServiceNext

-----------------------------------------------------------------------------
(* The invariant is inductive *)

(* The record of a claimed key keeps its handles, and a step makes nothing  *)
(* live that was issued before.                                             *)
LEMMA HandlesSettle ==
    ASSUME MaterialInv, [ServiceNext]_allVars
    PROVE  /\ \A l \in Lid : destruction_journal[l] # None => handles'[l] = handles[l]
           /\ \A h \in generated : h \notin live => h \notin live'
<1>1. ASSUME NEW t \in Task, NEW h \in Handle, Issues(t, h)
      PROVE  UNCHANGED handles /\ \A g \in generated : g \notin live => g \notin live'
  BY <1>1 DEF Issues, generate_key
<1>2. ASSUME NEW t \in Task, NEW l \in Lid, Publishes(t, l)
      PROVE  /\ live' = live
             /\ \A k \in Lid : destruction_journal[k] # None => handles'[k] = handles[k]
  BY <1>2 DEF Publishes
<1>3. ASSUME \/ \E t \in Task : RotateDiscard(t)
             \/ \E i \in Instance : ReaperDestroy(i)
             \/ Quiet
      PROVE  UNCHANGED handles /\ live' \subseteq live
  BY <1>3 DEF RotateDiscard, ReaperDestroy, Quiet
<1>. QED  BY <1>1, <1>2, <1>3, MaterialStep

(* A handle keeps a single owner, and what may be published stays live. *)
LEMMA NamedStep == MaterialInv /\ [ServiceNext]_allVars => NamedInv'
<1>. SUFFICES ASSUME MaterialInv, [ServiceNext]_allVars
              PROVE  NamedInv'
  OBVIOUS
<1>. USE DEF NamedInv, HandlesIssued, HandlesOwnedOnce, HeldIsLive
<1>0. NamedInv
  BY DEF MaterialInv
<1>1. ASSUME UNCHANGED handles, generated \subseteq generated',
             \A t \in Task : KeepsHold(t),
             \A t \in Task : Holding(t)' /\ task'[t].pc # "discard" /\ task'[t].handle \in live =>
                task'[t].handle \in live'
      PROVE  NamedInv'
  <2>1. \A l \in Lid : named(l)' = named(l)
    BY <1>1 DEF named
  <2>. QED  BY <1>0, <1>1, <2>1 DEF KeepsHold
<1>2. CASE Quiet
  BY <1>1, <1>2 DEF Quiet
<1>3. ASSUME NEW i \in Instance, ReaperDestroy(i)
      PROVE  NamedInv'
  <2>1. UNCHANGED <<handles, generated, task>>
    BY <1>3 DEF ReaperDestroy
  <2>2. \A t \in Task : KeepsHold(t)
    BY <2>1 DEF KeepsHold, Holding
  <2>. DEFINE c == reaper[i].claim
  <2>3. c.lid \in Lid /\ c.handles[c.next] \in named(c.lid) /\ live \ {c.handles[c.next]} \subseteq live'
    <3>1. /\ reaper[i] \in ScanState /\ c \in Ticket /\ c # None
          /\ c.next <= Len(c.handles)
          /\ handles[c.lid] = c.handles
      BY <1>3 DEF ReaperDestroy, MaterialInv, ServiceInv, ServiceTyped, TicketIsCurrent, ScanState
    <3>2. live \ {c.handles[c.next]} \subseteq live'
      BY <1>3 DEF ReaperDestroy
    <3>. HIDE DEF c
    <3>3. c.next \in DOMAIN c.handles /\ c.lid \in Lid
      BY <3>1 DEF Ticket
    <3>. QED  BY <3>1, <3>2, <3>3 DEF named
  <2>. HIDE DEF c
  <2>4. \A t \in Task : Holding(t)' => Holding(t) /\ task'[t].handle = task[t].handle
    BY <2>2 DEF KeepsHold
  <2>5. \A t \in Task : Holding(t)' => task'[t].handle # c.handles[c.next]
    BY <1>0, <2>3, <2>4
  <2>. QED  BY <1>1, <2>1, <2>2, <2>3, <2>5
<1>4. ASSUME NEW t \in Task, RotateDiscard(t)
      PROVE  NamedInv'
  <2>1. /\ UNCHANGED <<handles, generated>> /\ Holding(t)
        /\ live \ {task[t].handle} \subseteq live'
    BY <1>4 DEF RotateDiscard, Holding
  <2>2. task'[t] = None /\ \A u \in Task : u # t => task'[u] = task[u]
    BY <1>4 DEF RotateDiscard, EndTask, MaterialInv, ServiceInv, TasksTyped
  <2>3. \A u \in Task : KeepsHold(u) /\ (Holding(u)' => u # t)
    BY <2>2 DEF KeepsHold, Holding
  <2>4. \A u \in Task : Holding(u)' => task'[u].handle # task[t].handle
    BY <1>0, <2>1, <2>3 DEF KeepsHold
  <2>. QED  BY <1>1, <2>1, <2>3, <2>4
<1>5. ASSUME NEW t \in Task, NEW h \in Handle, Issues(t, h)
      PROVE  NamedInv'
  <2>1. \A l \in Lid : named(l)' = named(l)
    BY <1>5 DEF Issues, named
  <2>2. \A u \in Task : u # t => /\ Holding(u)' <=> Holding(u)
                                /\ task'[u] = task[u]
    BY <1>5 DEF Issues, Holding
  <2>3. /\ h \notin generated /\ generated' = generated \cup {h} /\ live' = live \cup {h}
        /\ task'[t].handle = h
    BY <1>5 DEF Issues, generate_key
  <2>4. HandlesIssued'
    BY <1>0, <2>1, <2>2, <2>3
  <2>5. HeldIsLive'
    BY <1>0, <2>2, <2>3
  <2>6. HandlesOwnedOnce'
    BY <1>0, <2>1, <2>2, <2>3
  <2>. QED  BY <2>4, <2>5, <2>6
<1>6. ASSUME NEW t \in Task, NEW l \in Lid, Publishes(t, l)
      PROVE  NamedInv'
  <2>1. /\ \A k \in Lid : k # l => named(k)' = named(k)
        /\ named(l)' \subseteq named(l) \cup {task[t].handle}
    <3>1. /\ \A k \in Lid : k # l => handles'[k] = handles[k]
          /\ named(l)' \subseteq named(l) \cup {task[t].handle}
      BY <1>6 DEF Publishes
    <3>2. ASSUME NEW k \in Lid, k # l
          PROVE  named(k)' = named(k)
      BY <3>1, <3>2 DEF named
    <3>. QED  BY <3>1, <3>2
  <2>2. \A u \in Task : Holding(u)' => Holding(u) /\ u # t /\ task'[u] = task[u]
    BY <1>6 DEF Publishes, Holding
  <2>3. UNCHANGED <<generated, live>> /\ Holding(t)
    BY <1>6 DEF Publishes
  <2>4. HandlesIssued'
    <3>1. task[t].handle \in generated /\ \A k \in Lid : named(k) \subseteq generated
      BY <1>0, <2>3
    <3>2. \A k \in Lid : named(k)' \subseteq generated'
      BY <2>1, <2>3, <3>1
    <3>. QED  BY <1>0, <2>2, <2>3, <3>2
  <2>5. HeldIsLive'
    BY <1>0, <2>2, <2>3
  <2>6. HandlesOwnedOnce'
    <3>1. ASSUME NEW k \in Lid, NEW m \in Lid, k # m
          PROVE  (named(k) \cap named(m) = {})'
      <4>1. named(k) \cap named(m) = {} /\ task[t].handle \notin named(k) \cup named(m)
        BY <1>0, <2>3, <3>1
      <4>2. CASE k # l /\ m # l
        BY <2>1, <4>1, <4>2
      <4>3. CASE k = l \/ m = l
        BY <2>1, <3>1, <4>1, <4>3
      <4>. QED  BY <4>2, <4>3
    <3>2. ASSUME NEW u \in Task, NEW k \in Lid, Holding(u)'
          PROVE  task'[u].handle \notin named(k)'
      <4>1. task[u].handle \notin named(k) /\ task[u].handle # task[t].handle
        BY <1>0, <2>2, <2>3, <3>2
      <4>. QED  BY <2>1, <2>2, <3>2, <4>1
    <3>3. \A u, w \in Task : u # w /\ Holding(u)' /\ Holding(w)' =>
                task'[u].handle # task'[w].handle
      BY <1>0, <2>2
    <3>. QED  BY <3>1, <3>2, <3>3
  <2>. QED  BY <2>4, <2>5, <2>6
<1>. QED  BY <1>2, <1>3, <1>4, <1>5, <1>6, MaterialStep

(* A reaper keeps its ticket, takes one, or has destroyed one more handle. *)
LEMMA TicketMoves ==
    ASSUME MaterialInv, [ServiceNext]_allVars, NEW i \in Instance,
           reaper'[i] # None, reaper'[i].claim # None
    PROVE  \/ reaper[i] # None /\ reaper'[i].claim = reaper[i].claim
           \/ \E row \in ScanRow :
                /\ ReaperClaim(i, row)
                /\ reaper'[i].claim = [lid |-> row.lid, handles |-> handles[row.lid], next |-> 1]
           \/ /\ ReaperDestroy(i) /\ live' = live \ {reaper[i].claim.handles[reaper[i].claim.next]}
              /\ reaper'[i].claim = [reaper[i].claim EXCEPT !.next = @ + 1]
<1>. USE DEF MaterialInv, ServiceInv, ServiceTyped
<1>1. CASE reaper'[i] = reaper[i]
  BY <1>1
<1>2. ASSUME NEW rest, next_row(i, rest)
      PROVE  FALSE
  BY <1>2 DEF next_row
<1>3. ASSUME NEW row \in ScanRow, ReaperClaim(i, row)
      PROVE  reaper'[i].claim = [lid |-> row.lid, handles |-> handles[row.lid], next |-> 1]
  <2>. DEFINE c == [lid |-> row.lid, handles |-> handles[row.lid], next |-> 1]
  <2>1. reaper[i] \in ScanState
    BY <1>3 DEF ReaperClaim
  <2>2. reaper' = [reaper EXCEPT ![i].page = @ \ {row}, ![i].claim = c]
    BY <1>2, <1>3 DEF ReaperClaim
  <2>. HIDE DEF c
  <2>3. reaper'[i].claim = c
    BY <2>1, <2>2 DEF ScanState
  <2>. QED  BY <2>3 DEF c
<1>4. CASE ReaperDestroy(i)
  <2>1. reaper[i] \in ScanState
    BY <1>4 DEF ReaperDestroy
  <2>2. /\ reaper' = [reaper EXCEPT ![i].claim.next = @ + 1]
        /\ live' = live \ {reaper[i].claim.handles[reaper[i].claim.next]}
    BY <1>2, <1>4 DEF ReaperDestroy
  <2>3. reaper'[i].claim = [reaper[i].claim EXCEPT !.next = @ + 1]
    BY <2>1, <2>2 DEF ScanState
  <2>. QED  BY <1>4, <2>2, <2>3
<1>5. ASSUME NEW j \in Instance, ReaperStep(j), j # i
      PROVE  reaper'[i] = reaper[i]
  BY <1>5 DEF ReaperStep, ReaperScan, ReaperClaim, ReaperSkip, ReaperDestroy, ReaperComplete,
              next_row
<1>6. ASSUME NEW j \in Instance, Crash(j)
      PROVE  reaper'[i] = reaper[i]
  BY <1>6 DEF Crash
<1>7. ASSUME \/ OtherRequest
             \/ UNCHANGED allVars
             \/ \E t \in Task : CreateStore(t) \/ RotateStep(t)
             \/ \E t \in Task, j \in Instance, l \in Lid, h \in Handle : CreateGenerate(t, j, l, h)
      PROVE  reaper' = reaper
  <2>1. CASE OtherRequest \/ UNCHANGED allVars
    BY <2>1 DEF OtherRequest, allVars, serviceVars
  <2>2. ASSUME NEW t \in Task, RotateStep(t)
        PROVE  reaper' = reaper
    BY <2>2 DEF RotateStep, RotateRead, RotateList, RotateGenerate, RotateBusy, RotateCommit,
                RotateConflict, RotateFails, RotateDiscard, RotateEnqueue
  <2>. QED  BY <1>7, <2>1, <2>2 DEF CreateGenerate, CreateStore
<1>8. ASSUME ReaperStep(i), ~ReaperDestroy(i)
      PROVE  \E row \in ScanRow : ReaperClaim(i, row)
  BY <1>2, <1>8 DEF ReaperStep, ReaperScan, ReaperSkip, ReaperComplete
<1>. QED  BY <1>1, <1>3, <1>4, <1>5, <1>6, <1>7, <1>8 DEF ServiceNext

(* A ticket stays good. *)
LEMMA TicketStep ==
    MaterialInv /\ [ServiceNext]_allVars => TicketIsCurrent' /\ TicketBounded'
<1>. SUFFICES ASSUME MaterialInv, [ServiceNext]_allVars, NEW i \in Instance,
                     reaper'[i] # None, reaper'[i].claim # None
              PROVE  /\ destruction_journal'[reaper'[i].claim.lid] # None
                     /\ handles'[reaper'[i].claim.lid] = reaper'[i].claim.handles
                     /\ reaper'[i].claim.next <= Len(reaper'[i].claim.handles) + 1
                     /\ \A v \in 1..(reaper'[i].claim.next - 1) :
                            reaper'[i].claim.handles[v] \notin live'
  BY DEF TicketIsCurrent, TicketBounded
<1>. DEFINE c == reaper[i].claim
            d == reaper'[i].claim
<1>1. ASSUME reaper[i] # None, c # None
      PROVE  /\ c \in Ticket /\ c.lid \in Lid /\ c.handles \in Seq(Handle) /\ c.next \in Nat \ {0}
             /\ destruction_journal'[c.lid] # None
             /\ handles'[c.lid] = c.handles
             /\ c.next <= Len(c.handles) + 1
             /\ \A v \in 1..(c.next - 1) : c.handles[v] \notin live'
  <2>1. c \in Ticket
    BY <1>1 DEF MaterialInv, ServiceInv, ServiceTyped, ScanState
  <2>2. /\ destruction_journal[c.lid] # None
        /\ handles[c.lid] = c.handles
        /\ c.next <= Len(c.handles) + 1
        /\ \A v \in 1..(c.next - 1) : c.handles[v] \notin live
    BY <1>1 DEF MaterialInv, TicketIsCurrent, TicketBounded
  <2>. HIDE DEF c
  <2>3. c.lid \in Lid /\ c.handles \in Seq(Handle) /\ c.next \in Nat \ {0}
    BY <2>1 DEF Ticket
  <2>4. destruction_journal'[c.lid] # None
    BY <2>2, <2>3, ClaimsStay, StepRefines DEF MaterialInv
  <2>5. handles'[c.lid] = c.handles
    BY <2>2, <2>3, HandlesSettle
  <2>6. ASSUME NEW v \in 1..(c.next - 1)
        PROVE  c.handles[v] \notin live'
    <3>1. v \in DOMAIN handles[c.lid]
      BY <2>2, <2>3
    <3>2. c.handles[v] \in generated
      BY <2>2, <2>3, <3>1 DEF MaterialInv, NamedInv, HandlesIssued, named
    <3>. QED  BY <2>2, <3>2, HandlesSettle
  <2>. QED  BY <2>1, <2>2, <2>3, <2>4, <2>5, <2>6
<1>2. CASE reaper[i] # None /\ d = c
  BY <1>1, <1>2
<1>3. ASSUME NEW row \in ScanRow, ReaperClaim(i, row),
             d = [lid |-> row.lid, handles |-> handles[row.lid], next |-> 1]
      PROVE  /\ destruction_journal'[d.lid] # None
             /\ handles'[d.lid] = d.handles
             /\ d.next <= Len(d.handles) + 1
             /\ \A v \in 1..(d.next - 1) : d.handles[v] \notin live'
  <2>. DEFINE l == row.lid
  <2>1. l \in Lid /\ UNCHANGED handles /\ claim_destruction(row)
    BY <1>3 DEF ReaperClaim, ScanRow
  <2>2. destruction_journal'[l] # None
    <3>1. CASE ClaimDestruction(l)
      <4>. DEFINE j == [snapshot |-> [keys[l] EXCEPT !.occ_version = @ + 1], completed |-> FALSE]
      <4>1. destruction_journal'[l] = j
        BY <2>1, <3>1 DEF ClaimDestruction, MaterialInv, FenceInv, TypeInv, TypeOK
      <4>2. keys[l] \in KeyRecord /\ keys[l].occ_version + 1 \in 1..MaxOcc
        BY <2>1, <3>1, RowsTyped, BoundsAssumption
           DEF ClaimDestruction, prepare_claim, occ_fits, KeyRecord, MaterialInv, FenceInv, TypeInv
      <4>3. [keys[l] EXCEPT !.occ_version = @ + 1] \in KeyRecord
        BY <4>2 DEF KeyRecord
      <4>4. j \in DestructionJournal
        BY <4>3 DEF DestructionJournal
      <4>. QED  BY <4>1, <4>4, RowsAssumption
    <3>2. CASE RecoverClaim(l)
      BY <3>2 DEF RecoverClaim
    <3>. QED  BY <2>1, <3>1, <3>2 DEF claim_destruction
  <2>3. handles[l] \in Seq(Handle)
    BY <2>1 DEF MaterialInv, ServiceInv, ServiceTyped
  <2>4. d.lid = l /\ d.handles = handles[l] /\ d.next = 1
    <3>. HIDE DEF d
    <3>. QED  BY <1>3
  <2>. HIDE DEF l, d
  <2>. QED  BY <2>1, <2>2, <2>3, <2>4
<1>4. CASE /\ ReaperDestroy(i) /\ live' = live \ {c.handles[c.next]}
           /\ d = [c EXCEPT !.next = @ + 1]
  <2>1. reaper[i] # None /\ c # None /\ c.next <= Len(c.handles)
    BY <1>4 DEF ReaperDestroy
  <2>2. c \in Ticket /\ d.lid = c.lid /\ d.handles = c.handles /\ d.next = c.next + 1
    BY <1>1, <1>4, <2>1 DEF Ticket
  <2>. HIDE DEF c, d
  <2>3. \A v \in 1..(d.next - 1) : v = c.next \/ v \in 1..(c.next - 1)
    BY <1>1, <2>1, <2>2
  <2>4. /\ destruction_journal'[c.lid] # None /\ handles'[c.lid] = c.handles
        /\ \A v \in 1..(c.next - 1) : c.handles[v] \notin live'
        /\ c.next \in Nat /\ Len(c.handles) \in Nat
    BY <1>1, <2>1
  <2>5. \A v \in 1..(d.next - 1) : d.handles[v] \notin live'
    BY <1>4, <2>2, <2>3, <2>4
  <2>6. d.next <= Len(d.handles) + 1
    BY <2>1, <2>2, <2>4
  <2>7. destruction_journal'[d.lid] # None /\ handles'[d.lid] = d.handles
    BY <2>2, <2>4
  <2>. QED  BY <2>5, <2>6, <2>7 DEF d
<1>. QED  BY <1>2, <1>3, <1>4, TicketMoves

(* Nothing destroys the material of an unclaimed key. *)
LEMMA InUseStep == MaterialInv /\ [ServiceNext]_allVars => MaterialInUseLives'
<1>. SUFFICES ASSUME MaterialInv, [ServiceNext]_allVars, NEW l \in Lid,
                     destruction_journal'[l] = None
              PROVE  named(l)' \subseteq live'
  BY DEF MaterialInUseLives, named
<1>1. destruction_journal[l] = None
  BY ClaimsStay, StepRefines DEF MaterialInv
<1>2. named(l) \subseteq live
  BY <1>1, InUseByName DEF MaterialInv
<1>3. ASSUME NEW t \in Task, NEW h \in Handle, Issues(t, h)
      PROVE  named(l)' \subseteq live'
  BY <1>2, <1>3 DEF Issues, generate_key, named
<1>4. ASSUME NEW t \in Task, NEW k \in Lid, Publishes(t, k)
      PROVE  named(l)' \subseteq live'
  <2>1. task[t].handle \in live /\ live' = live
    BY <1>4 DEF Publishes, MaterialInv, NamedInv, HeldIsLive
  <2>2. named(l)' \subseteq named(l) \cup {task[t].handle}
    <3>1. CASE l = k
      BY <1>4, <3>1 DEF Publishes
    <3>2. CASE l # k
      <4>1. handles'[l] = handles[l]
        BY <1>4, <3>2 DEF Publishes
      <4>. QED  BY <4>1 DEF named
    <3>. QED  BY <3>1, <3>2
  <2>. QED  BY <1>2, <2>1, <2>2
<1>5. ASSUME NEW t \in Task, RotateDiscard(t)
      PROVE  named(l)' \subseteq live'
  <2>1. task[t].handle \notin named(l)
    BY <1>5 DEF RotateDiscard, Holding, MaterialInv, NamedInv, HandlesOwnedOnce
  <2>2. named(l)' = named(l) /\ live \ {task[t].handle} \subseteq live'
    BY <1>5 DEF RotateDiscard, named
  <2>. QED  BY <1>2, <2>1, <2>2
<1>6. ASSUME NEW i \in Instance, ReaperDestroy(i)
      PROVE  named(l)' \subseteq live'
  <2>. DEFINE c == reaper[i].claim
  <2>1. named(l)' = named(l) /\ live \ {c.handles[c.next]} \subseteq live'
    BY <1>6 DEF ReaperDestroy, named
  <2>2. /\ c \in Ticket /\ c.next <= Len(c.handles)
        /\ handles[c.lid] = c.handles
        /\ destruction_journal[c.lid] # None
    BY <1>6 DEF ReaperDestroy, MaterialInv, ServiceInv, ServiceTyped, ScanState, TicketIsCurrent
  <2>. HIDE DEF c
  <2>3. c.lid \in Lid /\ c.lid # l /\ c.next \in DOMAIN c.handles
    BY <1>1, <2>2 DEF Ticket
  <2>4. c.handles[c.next] \in named(c.lid)
    BY <2>2, <2>3 DEF named
  <2>5. c.handles[c.next] \notin named(l)
    BY <2>3, <2>4 DEF MaterialInv, NamedInv, HandlesOwnedOnce
  <2>. QED  BY <1>2, <2>1, <2>5
<1>7. CASE Quiet
  BY <1>2, <1>7 DEF Quiet, named
<1>. QED  BY <1>3, <1>4, <1>5, <1>6, <1>7, MaterialStep

(* A completion finds every handle of its key destroyed, and no step brings *)
(* one back.                                                                *)
LEMMA ErasedStep == MaterialInv /\ [ServiceNext]_allVars => DestroyedIsErased'
<1>. SUFFICES ASSUME MaterialInv, [ServiceNext]_allVars, NEW l \in Lid,
                     keys'[l] # None, keys'[l].state = "Destroyed"
              PROVE  (named(l) \cap live)' = {}
  BY DEF DestroyedIsErased, named
<1>1. CASE keys[l] # None /\ keys[l].state = "Destroyed"
  <2>1. named(l) \cap live = {}
    BY <1>1, ErasedByName DEF MaterialInv
  <2>2. destruction_journal[l] # None
    BY <1>1 DEF MaterialInv, FenceInv, ClaimFrozen
  <2>3. named(l)' = named(l) /\ named(l) \subseteq generated
    BY <2>2, HandlesSettle DEF named, MaterialInv, NamedInv, HandlesIssued
  <2>. QED  BY <2>1, <2>3, HandlesSettle
<1>2. ASSUME NEW i \in Instance, ReaperComplete(i), reaper[i].claim.lid = l
      PROVE  (named(l) \cap live)' = {}
  <2>. DEFINE c == reaper[i].claim
  <2>1. /\ c \in Ticket /\ c.next > Len(c.handles)
        /\ handles[l] = c.handles
        /\ \A v \in 1..(c.next - 1) : c.handles[v] \notin live
    BY <1>2 DEF ReaperComplete, MaterialInv, ServiceInv, ServiceTyped, ScanState, TicketIsCurrent
  <2>. HIDE DEF c
  <2>2. \A v \in DOMAIN handles[l] : handles[l][v] \notin live
    BY <2>1 DEF Ticket
  <2>3. UNCHANGED <<handles, live>>
    BY <1>2 DEF ReaperComplete
  <2>. QED  BY <2>2, <2>3 DEF named
<1>. QED  BY <1>1, <1>2, CompletionStep

(* MaterialInv holds initially. *)
LEMMA MaterialInvInit == ServiceInit => MaterialInv
<1>. SUFFICES ASSUME ServiceInit
              PROVE  MaterialInv
  OBVIOUS
<1>1. ServiceInv
  BY ServiceInvInit
<1>2. FenceInv
  BY <1>1 DEF ServiceInit, Init, ServiceInv, FenceInv, ClaimFrozen, ClaimHasRoom
<1>3. NamedInv
  BY DEF ServiceInit, NamedInv, HandlesIssued, HandlesOwnedOnce, HeldIsLive, Holding, named
<1>4. TicketBounded /\ TicketIsCurrent
  BY DEF ServiceInit, TicketBounded, TicketIsCurrent
<1>5. MaterialInUseLives /\ DestroyedIsErased
  BY DEF ServiceInit, MaterialInUseLives, DestroyedIsErased
<1>. QED  BY <1>1, <1>2, <1>3, <1>4, <1>5 DEF MaterialInv

(* Every step preserves MaterialInv. *)
LEMMA MaterialInvStep == MaterialInv /\ [ServiceNext]_allVars => MaterialInv'
<1>1. MaterialInv /\ [ServiceNext]_allVars => ServiceInv' /\ FenceInv'
  BY ServiceInvStep, StepRefines, FenceStep DEF MaterialInv
<1>. QED  BY <1>1, NamedStep, TicketStep, InUseStep, ErasedStep DEF MaterialInv

-----------------------------------------------------------------------------
(* Theorems *)

(* The provider holds the material of every version of a key that is not    *)
(* claimed for destruction: neither discard_unpublished_version nor a scan  *)
(* that works from stale rows destroys what a record names.                 *)
THEOREM MaterialOutlivesUse == ServiceSpec => []MaterialInUseLives
<1>. QED  BY MaterialInvInit, MaterialInvStep, PTL DEF ServiceSpec, MaterialInv

(* A ticket held across provider calls stays good: the key remains claimed, *)
(* a rotation adds no version to it, and what was destroyed stays so.       *)
THEOREM TicketsStayCurrent == ServiceSpec => []TicketIsCurrent
<1>. QED  BY MaterialInvInit, MaterialInvStep, PTL DEF ServiceSpec, MaterialInv

(* A key is published as Destroyed only after the provider has destroyed    *)
(* the material of each of its versions.                                    *)
THEOREM DestructionErases == ServiceSpec => []DestroyedIsErased
<1>. QED  BY MaterialInvInit, MaterialInvStep, PTL DEF ServiceSpec, MaterialInv

=============================================================================
