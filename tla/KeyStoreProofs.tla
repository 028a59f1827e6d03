--------------------------- MODULE KeyStoreProofs ---------------------------
(***************************************************************************)
(* Theorems about KeyStore, for any number of keys, operations, instances, *)
(* versions and epochs, and any bound on the OCC column.                   *)
(***************************************************************************)
EXTENDS KeyStore, TLAPS

-----------------------------------------------------------------------------
(* Operations on one record stay within the record type. *)

(* The next OCC version, where it fits the column, is an OCC version. *)
LEMMA NextOccTyped ==
    ASSUME NEW r \in KeyRecord, occ_fits(r.occ_version + 1)
    PROVE  r.occ_version + 1 \in 1..MaxOcc
BY BoundsAssumption DEF KeyRecord, occ_fits

(* A lifecycle transition of a well-formed record whose OCC version still   *)
(* fits is a well-formed record (KeyRecord::transition_to).                 *)
LEMMA TransitionTyped ==
    ASSUME NEW r \in KeyRecord, NEW target \in KeyState, occ_fits(r.occ_version + 1)
    PROVE  transition_to(r, target) \in KeyRecord
<1>. DEFINE w == has_compromise_history(r) \/ target = "Compromised"
<1>1. w \in BOOLEAN
  BY Zenon
<1>2. transition_to(r, target)
        = [r EXCEPT !.was_compromised = w, !.state = target, !.occ_version = @ + 1]
  BY Zenon DEF transition_to
<1>. HIDE DEF w
<1>3. r.occ_version + 1 \in 1..MaxOcc
  BY NextOccTyped
<1>. QED  BY <1>1, <1>2, <1>3 DEF KeyRecord

(* A metadata edit is well-formed (the update handlers of domain.rs). *)
LEMMA EditTyped ==
    ASSUME NEW r \in KeyRecord, occ_fits(r.occ_version + 1)
    PROVE  edit_metadata(r) \in KeyRecord
BY NextOccTyped DEF edit_metadata, KeyRecord

(* One more version within the bound is still a history. *)
LEMMA AppendTyped ==
    ASSUME NEW h \in History, NEW m \in KeyMaterial, Len(h) + 1 \in Version
    PROVE  Append(h, m) \in History
BY BoundsAssumption DEF History, Version

(* A resident rotation is well-formed (rotate_resident). *)
LEMMA RotateTyped ==
    ASSUME NEW r \in KeyRecord, occ_fits(r.occ_version + 1), can_rotate_resident(r)
    PROVE  rotate_resident(r) \in KeyRecord
<1>1. r.key_versions \in History /\ Resident \in KeyMaterial
  BY DEF KeyRecord, KeyMaterial
<1>2. Len(r.key_versions) + 1 \in Version
  BY <1>1, BoundsAssumption DEF History, Version, can_rotate_resident, current_key_version
<1>3. Append(r.key_versions, Resident) \in History
  BY <1>1, <1>2, AppendTyped
<1>. QED  BY <1>3, NextOccTyped DEF rotate_resident, KeyRecord

(* A single version is a history. *)
LEMMA SingletonTyped ==
    ASSUME NEW m \in KeyMaterial
    PROVE  <<m>> \in History
BY BoundsAssumption DEF History, Version

(* What create_key stores is well-formed. *)
LEMMA ResidentTyped == resident_record \in KeyRecord
<1>1. <<Resident>> \in History
  BY SingletonTyped DEF KeyMaterial
<1>. QED  BY <1>1, BoundsAssumption DEF resident_record, KeyRecord, KeyState

(* It has no wrapped version. *)
LEMMA ResidentUnbound == wrapped_versions(resident_record) = {}
BY DEF wrapped_versions, resident_record

(* The OCC version 0 is no record's: it stands for an absent one. *)
LEMMA OccPositive ==
    ASSUME NEW r \in KeyRecord
    PROVE  r.occ_version # 0
BY BoundsAssumption DEF KeyRecord

(* Every record a handler proposes is well-formed if its OCC version fits,  *)
(* and proposes exactly the next OCC version.                               *)
LEMMA ProposalTyped ==
    ASSUME NEW r \in KeyRecord, NEW next \in proposals(r), occ_fits(next.occ_version)
    PROVE  next \in KeyRecord /\ next.occ_version = r.occ_version + 1
<1>1. CASE \E target \in KeyState : next = transition_to(r, target)
  <2>1. PICK target \in KeyState : next = transition_to(r, target)
    BY <1>1
  <2>2. next.occ_version = r.occ_version + 1
    BY <2>1 DEF transition_to, KeyRecord
  <2>. QED  BY <2>1, <2>2, TransitionTyped
<1>2. CASE next = edit_metadata(r)
  <2>1. next.occ_version = r.occ_version + 1
    BY <1>2 DEF edit_metadata, KeyRecord
  <2>. QED  BY <1>2, <2>1, EditTyped
<1>3. CASE next = rotate_resident(r) /\ can_rotate_resident(r)
  <2>1. next.occ_version = r.occ_version + 1
    BY <1>3 DEF rotate_resident, KeyRecord
  <2>. QED  BY <1>3, <2>1, RotateTyped
<1>. QED  BY <1>1, <1>2, <1>3 DEF proposals, KeyState

(* A record of the type has a nonempty history within the bound, so its     *)
(* primary version is a version.                                            *)
LEMMA CurrentVersionTyped ==
    ASSUME NEW r \in KeyRecord
    PROVE  current_key_version(r) \in Version
BY DEF KeyRecord, History, current_key_version

-----------------------------------------------------------------------------
(* Types *)

(* What is in the migration journal passed MigrationRequest::validate when  *)
(* it was reserved.  The commit relies on it: nothing else says that the    *)
(* OCC version of the child still has room.                                 *)
RequestsValid ==
    \A op \in MigrationOp : migration_journal[op] # None =>
        validate_request(migration_journal[op].request)

TypeInv == TypeOK /\ RequestsValid

(* The descriptor a creation publishes is a wrapped material. *)
LEMMA MaterialTyped ==
    ASSUME NEW op \in CreationOp, NEW row \in CreationJournal
    PROVE  material(op, row) \in ParentWrapped /\ material(op, row) \in KeyMaterial
BY DEF material, CreationJournal, ParentWrapped, EnvelopeRef, KeyMaterial

(* The record publication stores is well-formed (CreationRequest). *)
LEMMA CreatedTyped ==
    ASSUME TypeOK, NEW op \in CreationOp, NEW row \in CreationJournal, child_eligible(row)
    PROVE  created_record(op, row) \in KeyRecord
<1>1. material(op, row) \in KeyMaterial
  BY MaterialTyped
<1>2. CASE row.expected_key_occ = 0
  <2>1. <<material(op, row)>> \in History
    BY <1>1, SingletonTyped
  <2>2. row.parent \in Lid
    BY DEF CreationJournal
  <2>. QED  BY <1>2, <2>1, <2>2, BoundsAssumption DEF created_record, KeyRecord, KeyState
<1>3. CASE row.expected_key_occ # 0
  <2>. DEFINE c == keys[row.child]
  <2>1. c \in KeyRecord /\ c.occ_version < MaxOcc /\ row.version = Len(c.key_versions) + 1
    BY <1>3 DEF child_eligible, TypeOK, CreationJournal, current_key_version
  <2>2. Append(c.key_versions, material(op, row)) \in History
    BY <1>1, <2>1, AppendTyped DEF CreationJournal, KeyRecord
  <2>3. c.occ_version + 1 \in 1..MaxOcc
    BY <2>1, BoundsAssumption DEF KeyRecord
  <2>4. created_record(op, row)
          = [c EXCEPT !.occ_version = @ + 1, !.key_versions = Append(@, material(op, row))]
    BY <1>3 DEF created_record
  <2>. HIDE DEF c
  <2>. QED  BY <2>1, <2>2, <2>3, <2>4 DEF KeyRecord
<1>. QED  BY <1>2, <1>3

(* The record a migration commits is well-formed (MigrationRequest::new). *)
LEMMA ProposedTyped ==
    ASSUME NEW op \in MigrationOp, NEW q \in MigrationRequest, validate_request(q)
    PROVE  proposed(op, q) \in KeyRecord
<1>. DEFINE c == q.child_record
            m == [parent |-> q.new_parent,
                  parent_version |-> current_key_version(q.new_record), ref |-> op]
            h == [v \in DOMAIN c.key_versions |-> m]
<1>1. c \in KeyRecord /\ q.new_parent \in Lid /\ q.new_record \in KeyRecord
  BY DEF MigrationRequest
<1>2. m \in KeyMaterial
  BY <1>1, CurrentVersionTyped DEF KeyMaterial, ParentWrapped, EnvelopeRef
<1>3. c.key_versions \in Seq(KeyMaterial) /\ Len(c.key_versions) \in Version
  BY <1>1 DEF KeyRecord, History
<1>4. h \in Seq(KeyMaterial) /\ Len(h) = Len(c.key_versions)
  <2>. HIDE DEF c, m
  <2>1. DOMAIN c.key_versions = 1..Len(c.key_versions) /\ Len(c.key_versions) \in Nat
    BY <1>3
  <2>2. h \in [1..Len(c.key_versions) -> KeyMaterial]
    BY <1>2, <2>1
  <2>. QED  BY <2>1, <2>2
<1>5. h \in History
  BY <1>3, <1>4 DEF History
<1>6. c.occ_version + 1 \in 1..MaxOcc
  BY <1>1, BoundsAssumption DEF validate_request, migratable_child, KeyRecord
<1>7. proposed(op, q)
        = [c EXCEPT !.parent_lid = q.new_parent, !.occ_version = @ + 1, !.key_versions = h]
  BY DEF proposed
<1>. HIDE DEF c, h
<1>. QED  BY <1>1, <1>5, <1>6, <1>7 DEF KeyRecord

(* A well-typed row that is present is a row of its table. *)
LEMMA RowsTyped ==
    ASSUME TypeOK
    PROVE  /\ \A l \in Lid : keys[l] # None => keys[l] \in KeyRecord
           /\ \A l \in Lid : destruction_journal[l] # None =>
                destruction_journal[l] \in DestructionJournal
           /\ \A op \in CreationOp : creation_journal[op] # None =>
                creation_journal[op] \in CreationJournal
           /\ \A op \in MigrationOp : migration_journal[op] # None =>
                migration_journal[op] \in MigrationJournal
BY DEF TypeOK

(* Loss markers name real children, versions and parents. *)
LEMMA MarkersTyped ==
    ASSUME NEW l \in Lid
    PROVE  loss_markers(l) \subseteq DestroyedWrappingParent
BY DEF loss_markers, dependents, DestructionDependent, DestroyedWrappingParent

(* The markers of a claim name the claimed key as the parent. *)
LEMMA MarkerParent ==
    ASSUME NEW l \in Lid, NEW mk \in loss_markers(l)
    PROVE  mk.parent = l
BY DEF loss_markers

(* create_key and update_key preserve the types. *)
LEMMA KeyOpsTyped == TypeInv /\ KeyOps => TypeOK'
<1>. SUFFICES ASSUME TypeInv, NEW l \in Lid,
                     \/ CreateKey(l)
                     \/ keys[l] # None /\ \E next \in proposals(keys[l]) : UpdateKey(l, next)
              PROVE  TypeOK'
  BY DEF KeyOps
<1>1. CASE CreateKey(l)
  BY <1>1, ResidentTyped DEF TypeInv, TypeOK, CreateKey, creationVars, destructionVars, migrationVars
<1>2. ASSUME keys[l] # None, NEW next \in proposals(keys[l]), UpdateKey(l, next)
      PROVE  TypeOK'
  <2>1. keys[l] \in KeyRecord /\ occ_fits(next.occ_version)
    BY <1>2 DEF TypeInv, TypeOK, UpdateKey
  <2>2. next \in KeyRecord
    BY <2>1, ProposalTyped
  <2>. DEFINE w == has_compromise_history(next)
              stored == [next EXCEPT !.was_compromised = w]
  <2>3. w \in BOOLEAN
    BY <2>2 DEF has_compromise_history, KeyRecord
  <2>4. stored \in KeyRecord
    <3>. HIDE DEF w
    <3>. QED  BY <2>2, <2>3 DEF KeyRecord
  <2>5. keys' = [keys EXCEPT ![l] = stored]
    BY <1>2 DEF UpdateKey
  <2>6. deletion_schedules' \in [Lid -> DeletionSchedule \cup {None}]
    BY <1>2 DEF UpdateKey, TypeInv, TypeOK
  <2>. HIDE DEF stored
  <2>. QED  BY <1>2, <2>4, <2>5, <2>6 DEF TypeInv, TypeOK, UpdateKey, creationVars, migrationVars
<1>. QED  BY <1>1, <1>2

(* So does every operation of the destruction fence. *)
LEMMA DestructionOpsTyped == TypeInv /\ DestructionOps => TypeOK'
<1>. SUFFICES ASSUME TypeInv, NEW l \in Lid,
                     \/ \E at \in Time, allow \in BOOLEAN : ScheduleDestruction(l, at, allow)
                     \/ CancelDestruction(l)
                     \/ ClaimDestruction(l)
                     \/ RecoverClaim(l)
                     \/ CompleteDestruction(l)
              PROVE  TypeOK'
  BY DEF DestructionOps
<1>1. ASSUME NEW at \in Time, NEW allow \in BOOLEAN, ScheduleDestruction(l, at, allow)
      PROVE  TypeOK'
  <2>1. keys[l] \in KeyRecord /\ occ_fits(keys[l].occ_version + 1)
    BY <1>1 DEF TypeInv, TypeOK, ScheduleDestruction
  <2>. DEFINE r == [transition_to(keys[l], "PendingDeletion") EXCEPT !.scheduled_deletion_at = at]
              approved == approval(l, allow)
  <2>2. transition_to(keys[l], "PendingDeletion") \in KeyRecord
    BY <2>1, TransitionTyped DEF KeyState
  <2>3. r \in KeyRecord
    BY <2>2 DEF KeyRecord
  <2>4. approved \in SUBSET DestructionDependent
    BY DEF approval, dependents
  <2>5. [at |-> at, allow |-> allow, approved_dependents |-> approved] \in DeletionSchedule
    <3>. HIDE DEF approved
    <3>. QED  BY <2>4 DEF DeletionSchedule
  <2>6. /\ keys' = [keys EXCEPT ![l] = r]
        /\ deletion_schedules' = [deletion_schedules EXCEPT ![l] =
                [at |-> at, allow |-> allow, approved_dependents |-> approved]]
    BY <1>1 DEF ScheduleDestruction
  <2>. HIDE DEF r, approved
  <2>. QED  BY <1>1, <2>3, <2>5, <2>6
            DEF TypeInv, TypeOK, ScheduleDestruction, creationVars, migrationVars
<1>2. CASE CancelDestruction(l)
  <2>1. keys[l] \in KeyRecord /\ occ_fits(keys[l].occ_version + 1)
    BY <1>2 DEF TypeInv, TypeOK, CancelDestruction
  <2>. DEFINE r == [transition_to(keys[l], "Disabled") EXCEPT !.scheduled_deletion_at = None]
  <2>2. transition_to(keys[l], "Disabled") \in KeyRecord
    BY <2>1, TransitionTyped DEF KeyState
  <2>3. r \in KeyRecord
    BY <2>2 DEF KeyRecord
  <2>4. keys' = [keys EXCEPT ![l] = r]
    BY <1>2 DEF CancelDestruction
  <2>. HIDE DEF r
  <2>. QED  BY <1>2, <2>3, <2>4 DEF TypeInv, TypeOK, CancelDestruction, creationVars, migrationVars
<1>3. CASE ClaimDestruction(l)
  <2>. DEFINE claimed == [keys[l] EXCEPT !.occ_version = @ + 1]
  <2>1. keys[l] \in KeyRecord /\ keys[l].occ_version <= MaxOcc - 2
    BY <1>3 DEF TypeInv, TypeOK, ClaimDestruction, prepare_claim
  <2>2. claimed \in KeyRecord
    BY <2>1, BoundsAssumption DEF KeyRecord
  <2>3. [snapshot |-> claimed, completed |-> FALSE] \in DestructionJournal
    BY <2>2 DEF DestructionJournal
  <2>4. /\ keys' = [keys EXCEPT ![l] = claimed]
        /\ destruction_journal' = [destruction_journal EXCEPT ![l] =
                [snapshot |-> claimed, completed |-> FALSE]]
        /\ destroyed_wrapping_parents' = destroyed_wrapping_parents \cup loss_markers(l)
    BY <1>3 DEF ClaimDestruction
  <2>5. UNCHANGED <<creationVars, deletion_schedules, migrationVars, now>>
    BY <1>3 DEF ClaimDestruction
  <2>6. /\ keys' \in [Lid -> KeyRecord \cup {None}]
        /\ destruction_journal' \in [Lid -> DestructionJournal \cup {None}]
    <3>. HIDE DEF claimed
    <3>. QED  BY <2>2, <2>3, <2>4 DEF TypeInv, TypeOK
  <2>7. destroyed_wrapping_parents' \subseteq DestroyedWrappingParent
    BY <2>4, MarkersTyped DEF TypeInv, TypeOK
  <2>. QED  BY <2>5, <2>6, <2>7 DEF TypeInv, TypeOK, creationVars, migrationVars
<1>4. CASE RecoverClaim(l)
  BY <1>4, MarkersTyped DEF TypeInv, TypeOK, RecoverClaim, creationVars, migrationVars
<1>5. CASE CompleteDestruction(l)
  <2>1. keys[l] \in KeyRecord /\ occ_fits(keys[l].occ_version + 1)
    BY <1>5 DEF TypeInv, TypeOK, CompleteDestruction
  <2>2. completed_record(keys[l]) \in KeyRecord
    BY <2>1, NextOccTyped DEF completed_record, KeyRecord, KeyState
  <2>3. destruction_journal' \in [Lid -> DestructionJournal \cup {None}]
    <3>. DEFINE row == [destruction_journal[l] EXCEPT !.completed = TRUE]
    <3>1. destruction_journal[l] \in DestructionJournal
      BY <1>5, RowsTyped DEF CompleteDestruction, TypeInv
    <3>2. row \in DestructionJournal
      BY <3>1 DEF DestructionJournal
    <3>3. destruction_journal' = [destruction_journal EXCEPT ![l] = row]
      BY <1>5 DEF CompleteDestruction
    <3>. HIDE DEF row
    <3>. QED  BY <3>2, <3>3 DEF TypeInv, TypeOK
  <2>4. /\ creation_journal' \in [CreationOp -> CreationJournal \cup {None}]
        /\ retired_creation_journal' \subseteq CreationOp
    BY <1>5 DEF CompleteDestruction, retire_creations, committed_children, TypeInv, TypeOK
  <2>5. keys' \in [Lid -> KeyRecord \cup {None}]
    BY <1>5, <2>2 DEF CompleteDestruction, TypeInv, TypeOK
  <2>6. deletion_schedules' \in [Lid -> DeletionSchedule \cup {None}]
    BY <1>5 DEF CompleteDestruction, TypeInv, TypeOK
  <2>7. /\ migration_envelopes' \subseteq MigrationOp
        /\ UNCHANGED <<destroyed_wrapping_parents, migration_journal, now>>
    BY <1>5 DEF CompleteDestruction, TypeInv, TypeOK
  <2>. QED  BY <2>3, <2>4, <2>5, <2>6, <2>7 DEF TypeInv, TypeOK
<1>. QED  BY <1>1, <1>2, <1>3, <1>4, <1>5

(* So does every operation of the A2 creation journal. *)
LEMMA CreationOpsTyped == TypeInv /\ CreationOps => TypeOK'
<1>. SUFFICES ASSUME TypeInv, NEW op \in CreationOp,
                     \/ \E i \in Instance, c, p \in Lid : ReserveCreation(op, i, c, p)
                     \/ \E i \in Instance : ClaimDispatch(op, i)
                     \/ \E i \in Instance : StageCreation(op, i)
                     \/ \E i \in Instance : ResolveCreation(op, i)
                     \/ \E i \in Instance : PublishCreation(op, i)
                     \/ WithdrawCreation(op)
              PROVE  TypeOK'
  BY DEF CreationOps
<1>. USE DEF creationVars, destructionVars, migrationVars
<1>1. ASSUME NEW i \in Instance, NEW c \in Lid, NEW p \in Lid, ReserveCreation(op, i, c, p)
      PROVE  TypeOK'
  <2>. DEFINE row == reservation(i, c, p)
  <2>1. keys[p] \in KeyRecord /\ row.version \in Version
    BY <1>1 DEF TypeInv, TypeOK, ReserveCreation
  <2>2. row.expected_key_occ \in 0..MaxOcc
    BY BoundsAssumption DEF TypeInv, TypeOK, KeyRecord, reservation
  <2>3. row \in CreationJournal
    BY <2>1, <2>2, CurrentVersionTyped
       DEF reservation, CreationJournal, CreationPhase, KeyRecord
  <2>4. creation_journal' = [creation_journal EXCEPT ![op] = row]
    BY <1>1 DEF ReserveCreation
  <2>. HIDE DEF row
  <2>. QED  BY <1>1, <2>3, <2>4 DEF TypeInv, TypeOK, ReserveCreation
<1>2. ASSUME NEW i \in Instance, ClaimDispatch(op, i)
      PROVE  TypeOK'
  <2>. DEFINE row == [creation_journal[op] EXCEPT !.dispatch_started = TRUE]
  <2>1. row \in CreationJournal
    <3>1. creation_journal[op] \in CreationJournal
      BY <1>2, RowsTyped DEF ClaimDispatch, in_flight_creation, TypeInv
    <3>. QED  BY <3>1 DEF CreationJournal
  <2>2. creation_journal' = [creation_journal EXCEPT ![op] = row]
    BY <1>2 DEF ClaimDispatch
  <2>. HIDE DEF row
  <2>. QED  BY <1>2, <2>1, <2>2 DEF TypeInv, TypeOK, ClaimDispatch
<1>3. ASSUME NEW i \in Instance, StageCreation(op, i)
      PROVE  TypeOK'
  <2>. DEFINE row == [creation_journal[op] EXCEPT !.phase = "Staged"]
  <2>1. row \in CreationJournal
    <3>1. creation_journal[op] \in CreationJournal
      BY <1>3, RowsTyped DEF StageCreation, in_flight_creation, TypeInv
    <3>. QED  BY <3>1 DEF CreationJournal, CreationPhase
  <2>2. creation_journal' = [creation_journal EXCEPT ![op] = row]
    BY <1>3 DEF StageCreation
  <2>. HIDE DEF row
  <2>. QED  BY <1>3, <2>1, <2>2 DEF TypeInv, TypeOK, StageCreation
<1>4. ASSUME NEW i \in Instance, ResolveCreation(op, i)
      PROVE  TypeOK'
  <2>. DEFINE row == [creation_journal[op] EXCEPT !.phase = "Resolved"]
  <2>1. row \in CreationJournal
    <3>1. creation_journal[op] \in CreationJournal
      BY <1>4, RowsTyped DEF ResolveCreation, in_flight_creation, TypeInv
    <3>. QED  BY <3>1 DEF CreationJournal, CreationPhase
  <2>2. creation_journal' = [creation_journal EXCEPT ![op] = row]
    BY <1>4 DEF ResolveCreation
  <2>. HIDE DEF row
  <2>. QED  BY <1>4, <2>1, <2>2 DEF TypeInv, TypeOK, ResolveCreation
<1>5. ASSUME NEW i \in Instance, PublishCreation(op, i)
      PROVE  TypeOK'
  <2>. DEFINE row == creation_journal[op]
              record == created_record(op, row)
  <2>1. row \in CreationJournal /\ child_eligible(row)
    BY <1>5 DEF PublishCreation, in_flight_creation, publication_admitted, validate_records,
                TypeInv, TypeOK
  <2>2. record \in KeyRecord
    BY <2>1, CreatedTyped DEF TypeInv
  <2>3. creation_journal' \in [CreationOp -> CreationJournal \cup {None}]
    BY <1>5, <2>1 DEF PublishCreation, TypeInv, TypeOK, CreationJournal, CreationPhase
  <2>4. keys' = [keys EXCEPT ![row.child] = record]
    BY <1>5 DEF PublishCreation
  <2>5. keys' \in [Lid -> KeyRecord \cup {None}]
    <3>. HIDE DEF record
    <3>. QED  BY <2>2, <2>4 DEF TypeInv, TypeOK
  <2>. QED  BY <1>5, <2>3, <2>5 DEF TypeInv, TypeOK, PublishCreation
<1>6. CASE WithdrawCreation(op)
  BY <1>6 DEF TypeInv, TypeOK, WithdrawCreation
<1>. QED  BY <1>1, <1>2, <1>3, <1>4, <1>5, <1>6

(* So does every operation of the migration journal. *)
LEMMA MigrationOpsTyped == TypeInv /\ MigrationOps => TypeOK'
<1>. SUFFICES ASSUME TypeInv, NEW op \in MigrationOp,
                     \/ \E c, old, new \in Lid : ReserveMigration(op, c, old, new)
                     \/ \E i \in Instance, e \in 0..MaxEpoch : ClaimMigration(op, i, e)
                     \/ \E i \in Instance, e \in 0..MaxEpoch, safe \in BOOLEAN :
                            BeginDispatch(op, i, e, safe)
                     \/ \E i \in Instance, e \in 0..MaxEpoch : StageMigration(op, i, e)
                     \/ \E i \in Instance, e \in 0..MaxEpoch : CommitMigration(op, i, e)
              PROVE  TypeOK'
  BY DEF MigrationOps
<1>. USE DEF creationVars, destructionVars
<1>1. ASSUME NEW c \in Lid, NEW old \in Lid, NEW new \in Lid, ReserveMigration(op, c, old, new)
      PROVE  TypeOK'
  <2>. DEFINE q == request_for(c, old, new)
              row == [request |-> q, owner |-> None, epoch |-> 0, dispatch |-> None,
                      phase |-> "Reserved"]
  <2>1. {keys[c], keys[old], keys[new]} \subseteq KeyRecord
    BY <1>1 DEF ReserveMigration, TypeInv, TypeOK
  <2>2. q \in MigrationRequest
    BY <2>1 DEF request_for, MigrationRequest
  <2>3. row \in MigrationJournal
    <3>. HIDE DEF q
    <3>. QED  BY <2>2, OwnersAssumption DEF MigrationJournal, MigrationPhase
  <2>4. migration_journal' = [migration_journal EXCEPT ![op] = row]
    BY <1>1 DEF ReserveMigration
  <2>5. UNCHANGED <<keys, creationVars, destructionVars, migration_envelopes, now>>
    BY <1>1 DEF ReserveMigration
  <2>. HIDE DEF row
  <2>. QED  BY <2>3, <2>4, <2>5 DEF TypeInv, TypeOK
<1>2. ASSUME NEW i \in Instance, NEW e \in 0..MaxEpoch, ClaimMigration(op, i, e)
      PROVE  TypeOK'
  <2>1. migration_journal[op] \in MigrationJournal
    BY <1>2 DEF ClaimMigration, active_migration, TypeInv, TypeOK
  <2>2. e + 1 \in 0..MaxEpoch
    BY <1>2, OwnersAssumption DEF ClaimMigration
  <2>3. migration_journal' \in [MigrationOp -> MigrationJournal \cup {None}]
    BY <1>2, <2>1, <2>2 DEF ClaimMigration, TypeInv, TypeOK, MigrationJournal
  <2>. QED  BY <1>2, <2>3 DEF ClaimMigration, TypeInv, TypeOK
<1>3. ASSUME NEW i \in Instance, NEW e \in 0..MaxEpoch, NEW safe \in BOOLEAN,
             BeginDispatch(op, i, e, safe)
      PROVE  TypeOK'
  <2>. DEFINE d == [epoch |-> e, retry_safe |-> safe]
  <2>1. migration_journal[op] \in MigrationJournal /\ e \in 1..MaxEpoch
    BY <1>3, OwnersAssumption DEF BeginDispatch, require_owner, TypeInv, TypeOK
  <2>2. d \in [epoch : 1..MaxEpoch, retry_safe : BOOLEAN]
    BY <2>1
  <2>3. migration_journal' = [migration_journal EXCEPT ![op].dispatch = d]
    BY <1>3 DEF BeginDispatch
  <2>4. migration_journal' \in [MigrationOp -> MigrationJournal \cup {None}]
    <3>. HIDE DEF d
    <3>. QED  BY <2>1, <2>2, <2>3 DEF TypeInv, TypeOK, MigrationJournal
  <2>. QED  BY <1>3, <2>4 DEF BeginDispatch, TypeInv, TypeOK
<1>4. ASSUME NEW i \in Instance, NEW e \in 0..MaxEpoch, StageMigration(op, i, e)
      PROVE  TypeOK'
  <2>1. migration_journal[op] \in MigrationJournal
    BY <1>4 DEF StageMigration, require_owner, TypeInv, TypeOK
  <2>2. migration_journal' \in [MigrationOp -> MigrationJournal \cup {None}]
    BY <1>4, <2>1 DEF StageMigration, TypeInv, TypeOK, MigrationJournal, MigrationPhase
  <2>. QED  BY <1>4, <2>2 DEF StageMigration, TypeInv, TypeOK
<1>5. ASSUME NEW i \in Instance, NEW e \in 0..MaxEpoch, CommitMigration(op, i, e)
      PROVE  TypeOK'
  <2>. DEFINE q == migration_journal[op].request
              record == proposed(op, q)
  <2>1. migration_journal[op] \in MigrationJournal /\ validate_request(q)
    BY <1>5 DEF CommitMigration, require_owner, TypeInv, TypeOK, RequestsValid
  <2>2. q \in MigrationRequest
    BY <2>1 DEF MigrationJournal
  <2>3. record \in KeyRecord
    BY <2>1, <2>2, ProposedTyped
  <2>4. migration_journal' \in [MigrationOp -> MigrationJournal \cup {None}]
    BY <1>5, <2>1 DEF CommitMigration, TypeInv, TypeOK, MigrationJournal, MigrationPhase
  <2>5. /\ creation_journal' \in [CreationOp -> CreationJournal \cup {None}]
        /\ retired_creation_journal' \subseteq CreationOp
    BY <1>5 DEF CommitMigration, retire_creations, committed_children, TypeInv, TypeOK
  <2>6. keys' = [keys EXCEPT ![q.child] = record]
    BY <1>5 DEF CommitMigration
  <2>7. keys' \in [Lid -> KeyRecord \cup {None}]
    <3>. HIDE DEF record
    <3>. QED  BY <2>3, <2>6 DEF TypeInv, TypeOK
  <2>8. /\ migration_envelopes' \subseteq MigrationOp
        /\ UNCHANGED <<destructionVars, now>>
    BY <1>5 DEF CommitMigration, TypeInv, TypeOK
  <2>. QED  BY <2>4, <2>5, <2>7, <2>8 DEF TypeInv, TypeOK
<1>. QED  BY <1>1, <1>2, <1>3, <1>4, <1>5

(* Only the migration journal's own operations write it. *)
LEMMA OthersKeepMigrations ==
    KeyOps \/ DestructionOps \/ CreationOps \/ Tick \/ UNCHANGED vars =>
        UNCHANGED migration_journal
<1>. USE DEF migrationVars
<1>1. ASSUME NEW l \in Lid
      PROVE  /\ CreateKey(l) => UNCHANGED migration_journal
             /\ \A next : UpdateKey(l, next) => UNCHANGED migration_journal
             /\ \A at, allow : ScheduleDestruction(l, at, allow) => UNCHANGED migration_journal
             /\ CancelDestruction(l) => UNCHANGED migration_journal
             /\ ClaimDestruction(l) => UNCHANGED migration_journal
             /\ RecoverClaim(l) => UNCHANGED migration_journal
             /\ CompleteDestruction(l) => UNCHANGED migration_journal
  BY DEF CreateKey, UpdateKey, ScheduleDestruction, CancelDestruction, ClaimDestruction,
         RecoverClaim, CompleteDestruction
<1>2. ASSUME NEW op \in CreationOp
      PROVE  /\ \A i, c, p : ReserveCreation(op, i, c, p) => UNCHANGED migration_journal
             /\ \A i : ClaimDispatch(op, i) => UNCHANGED migration_journal
             /\ \A i : StageCreation(op, i) => UNCHANGED migration_journal
             /\ \A i : ResolveCreation(op, i) => UNCHANGED migration_journal
             /\ \A i : PublishCreation(op, i) => UNCHANGED migration_journal
             /\ WithdrawCreation(op) => UNCHANGED migration_journal
  BY DEF ReserveCreation, ClaimDispatch, StageCreation, ResolveCreation, PublishCreation,
         WithdrawCreation
<1>3. KeyOps \/ DestructionOps => UNCHANGED migration_journal
  BY <1>1 DEF KeyOps, DestructionOps
<1>4. CreationOps => UNCHANGED migration_journal
  BY <1>2 DEF CreationOps
<1>. QED  BY <1>3, <1>4 DEF Tick, vars

(* What is journaled stays valid: a request never changes once reserved. *)
LEMMA RequestsStayValid == TypeInv /\ [Next]_vars => RequestsValid'
<1>. SUFFICES ASSUME TypeInv, [Next]_vars, NEW op \in MigrationOp, migration_journal'[op] # None
              PROVE  validate_request(migration_journal'[op].request)
  BY DEF RequestsValid, validate_request, migratable_child, migration_parent
<1>1. CASE migration_journal[op] # None /\ migration_journal'[op].request = migration_journal[op].request
  BY <1>1 DEF TypeInv, RequestsValid
<1>2. CASE \E c, old, new \in Lid : ReserveMigration(op, c, old, new)
  <2>1. PICK c \in Lid, old \in Lid, new \in Lid : ReserveMigration(op, c, old, new)
    BY <1>2
  <2>2. migration_journal'[op].request = request_for(c, old, new)
    BY <2>1 DEF ReserveMigration, TypeInv, TypeOK
  <2>. QED  BY <2>1, <2>2 DEF ReserveMigration
<1>3. \/ migration_journal'[op] = migration_journal[op]
      \/ migration_journal[op] # None /\ migration_journal'[op].request = migration_journal[op].request
      \/ \E c, old, new \in Lid : ReserveMigration(op, c, old, new)
  <2>1. CASE MigrationOps
    <3>1. PICK o \in MigrationOp :
            \/ \E c, old, new \in Lid : ReserveMigration(o, c, old, new)
            \/ \E i \in Instance, e \in 0..MaxEpoch : ClaimMigration(o, i, e)
            \/ \E i \in Instance, e \in 0..MaxEpoch, safe \in BOOLEAN :
                    BeginDispatch(o, i, e, safe)
            \/ \E i \in Instance, e \in 0..MaxEpoch : StageMigration(o, i, e)
            \/ \E i \in Instance, e \in 0..MaxEpoch : CommitMigration(o, i, e)
      BY <2>1 DEF MigrationOps
    <3>2. CASE \E c, old, new \in Lid : ReserveMigration(o, c, old, new)
      BY <3>2 DEF ReserveMigration, TypeInv, TypeOK
    <3>3. CASE \E i \in Instance, e \in 0..MaxEpoch : ClaimMigration(o, i, e)
      BY <3>3 DEF ClaimMigration, active_migration, TypeInv, TypeOK, MigrationJournal
    <3>4. CASE \E i \in Instance, e \in 0..MaxEpoch, safe \in BOOLEAN : BeginDispatch(o, i, e, safe)
      BY <3>4 DEF BeginDispatch, require_owner, TypeInv, TypeOK, MigrationJournal
    <3>5. CASE \E i \in Instance, e \in 0..MaxEpoch : StageMigration(o, i, e)
      BY <3>5 DEF StageMigration, require_owner, TypeInv, TypeOK, MigrationJournal
    <3>6. CASE \E i \in Instance, e \in 0..MaxEpoch : CommitMigration(o, i, e)
      BY <3>6 DEF CommitMigration, require_owner, TypeInv, TypeOK, MigrationJournal
    <3>. QED  BY <3>1, <3>2, <3>3, <3>4, <3>5, <3>6
  <2>2. CASE KeyOps \/ DestructionOps \/ CreationOps \/ Tick \/ UNCHANGED vars
    BY <2>2, OthersKeepMigrations
  <2>. QED  BY <2>1, <2>2 DEF Next
<1>. QED  BY <1>1, <1>2, <1>3 DEF TypeInv, RequestsValid

(* The empty store is well-typed. *)
LEMMA TypeInvInit == Init => TypeInv
BY BoundsAssumption DEF Init, TypeInv, TypeOK, RequestsValid, Time

(* Every step keeps the types. *)
LEMMA TypeInvStep == TypeInv /\ [Next]_vars => TypeInv'
<1>. SUFFICES ASSUME TypeInv, [Next]_vars
              PROVE  TypeOK'
  BY RequestsStayValid DEF TypeInv
<1>1. CASE Tick
  BY <1>1, BoundsAssumption
     DEF Tick, TypeInv, TypeOK, Time, creationVars, destructionVars, migrationVars
<1>2. CASE UNCHANGED vars
  BY <1>2 DEF vars, TypeInv, TypeOK
<1>. QED  BY <1>1, <1>2, KeyOpsTyped, DestructionOpsTyped, CreationOpsTyped, MigrationOpsTyped
          DEF Next

(* The rows of every table keep their types in every reachable state of the *)
(* store, the OCC column never exceeds its bound and no history outgrows    *)
(* its own.                                                                 *)
THEOREM TypeCorrect == Spec => []TypeOK
<1>. QED  BY TypeInvInit, TypeInvStep, PTL DEF Spec, TypeInv

-----------------------------------------------------------------------------
(* Who writes a key *)

(* Only these operations change the row of key l, and each changes no other *)
(* key: the writers of the keys table.                                      *)
KeyWriter(l) ==
    \/ CreateKey(l)
    \/ keys[l] # None /\ \E next \in proposals(keys[l]) : UpdateKey(l, next)
    \/ \E at \in Time, allow \in BOOLEAN : ScheduleDestruction(l, at, allow)
    \/ CancelDestruction(l)
    \/ ClaimDestruction(l)
    \/ CompleteDestruction(l)
    \/ \E op \in CreationOp, i \in Instance :
        PublishCreation(op, i) /\ creation_journal[op].child = l
    \/ \E op \in MigrationOp, i \in Instance, e \in 0..MaxEpoch :
        CommitMigration(op, i, e) /\ migration_journal[op].request.child = l

(* A step that changes the row of a key is one of that key's writers. *)
LEMMA KeyStep ==
    ASSUME TypeInv, [Next]_vars, NEW l \in Lid
    PROVE  keys'[l] = keys[l] \/ KeyWriter(l)
<1>1. CASE KeyOps
  BY <1>1 DEF KeyOps, CreateKey, UpdateKey, KeyWriter, TypeInv, TypeOK
<1>2. CASE DestructionOps
  BY <1>2 DEF DestructionOps, ScheduleDestruction, CancelDestruction, ClaimDestruction,
              RecoverClaim, CompleteDestruction, KeyWriter, TypeInv, TypeOK
<1>3. CASE CreationOps
  <2>1. PICK op \in CreationOp :
            \/ \E i \in Instance : PublishCreation(op, i)
            \/ UNCHANGED keys
    BY <1>3 DEF CreationOps, ReserveCreation, ClaimDispatch, StageCreation, ResolveCreation,
                WithdrawCreation
  <2>2. ASSUME NEW i \in Instance, PublishCreation(op, i), creation_journal[op].child # l
        PROVE  keys'[l] = keys[l]
    BY <2>2 DEF PublishCreation, TypeInv, TypeOK
  <2>. QED  BY <2>1, <2>2 DEF KeyWriter
<1>4. CASE MigrationOps
  <2>1. PICK op \in MigrationOp :
            \/ \E i \in Instance, e \in 0..MaxEpoch : CommitMigration(op, i, e)
            \/ UNCHANGED keys
    BY <1>4 DEF MigrationOps, ReserveMigration, ClaimMigration, BeginDispatch, StageMigration
  <2>2. ASSUME NEW i \in Instance, NEW e \in 0..MaxEpoch, CommitMigration(op, i, e),
               migration_journal[op].request.child # l
        PROVE  keys'[l] = keys[l]
    BY <2>2 DEF CommitMigration, TypeInv, TypeOK
  <2>. QED  BY <2>1, <2>2 DEF KeyWriter
<1>5. CASE Tick \/ UNCHANGED vars
  BY <1>5 DEF Tick, vars
<1>. QED  BY <1>1, <1>2, <1>3, <1>4, <1>5 DEF Next

(* Only the destruction fence writes its journal and the loss markers. *)
LEMMA OthersKeepDestruction ==
    KeyOps \/ CreationOps \/ MigrationOps \/ Tick \/ UNCHANGED vars =>
        UNCHANGED <<destruction_journal, destroyed_wrapping_parents>>
<1>. USE DEF destructionVars
<1>. DEFINE Kept == UNCHANGED <<destruction_journal, destroyed_wrapping_parents>>
<1>1. KeyOps => Kept
  <2>1. ASSUME NEW l \in Lid
        PROVE  /\ CreateKey(l) => Kept
               /\ \A next : UpdateKey(l, next) => Kept
    BY DEF CreateKey, UpdateKey
  <2>. QED  BY <2>1 DEF KeyOps
<1>2. CreationOps => Kept
  <2>1. ASSUME NEW op \in CreationOp
        PROVE  /\ \A i, c, p : ReserveCreation(op, i, c, p) => Kept
               /\ \A i : ClaimDispatch(op, i) => Kept
               /\ \A i : StageCreation(op, i) => Kept
               /\ \A i : ResolveCreation(op, i) => Kept
               /\ \A i : PublishCreation(op, i) => Kept
               /\ WithdrawCreation(op) => Kept
    BY DEF ReserveCreation, ClaimDispatch, StageCreation, ResolveCreation, PublishCreation,
           WithdrawCreation
  <2>. QED  BY <2>1 DEF CreationOps
<1>3. MigrationOps => Kept
  <2>1. ASSUME NEW op \in MigrationOp
        PROVE  /\ \A c, old, new : ReserveMigration(op, c, old, new) => Kept
               /\ \A i, e : ClaimMigration(op, i, e) => Kept
               /\ \A i, e, safe : BeginDispatch(op, i, e, safe) => Kept
               /\ \A i, e : StageMigration(op, i, e) => Kept
               /\ \A i, e : CommitMigration(op, i, e) => Kept
    BY DEF ReserveMigration, ClaimMigration, BeginDispatch, StageMigration, CommitMigration
  <2>. QED  BY <2>1 DEF MigrationOps
<1>4. CASE Tick \/ UNCHANGED vars
  BY <1>4 DEF Tick, vars
<1>. QED  BY <1>1, <1>2, <1>3, <1>4

(* The destruction row of a key changes only by its claim and completion. *)
LEMMA DestructionStep ==
    ASSUME TypeInv, [Next]_vars, NEW l \in Lid
    PROVE  \/ destruction_journal'[l] = destruction_journal[l]
           \/ ClaimDestruction(l)
           \/ CompleteDestruction(l)
<1>1. CASE DestructionOps
  BY <1>1 DEF DestructionOps, ScheduleDestruction, CancelDestruction, ClaimDestruction,
              RecoverClaim, CompleteDestruction, TypeInv, TypeOK
<1>. QED  BY <1>1, OthersKeepDestruction DEF Next

-----------------------------------------------------------------------------
(* Claims *)

(* prepare_claim leaves the claimed record one OCC version below the limit. *)
ClaimHasRoom ==
    \A l \in Lid : destruction_journal[l] # None =>
        destruction_journal[l].snapshot.occ_version < MaxOcc

FenceInv == TypeInv /\ ClaimFrozen /\ ClaimHasRoom

(* A claimed key exists, pending deletion until the completion destroys it. *)
LEMMA ClaimedKey ==
    ASSUME FenceInv, NEW l \in Lid, destruction_journal[l] # None
    PROVE  /\ keys[l] \in KeyRecord
           /\ keys[l].state = IF destruction_journal[l].completed
                              THEN "Destroyed" ELSE "PendingDeletion"
<1>. DEFINE row == destruction_journal[l]
            snapshot == row.snapshot
<1>1. row \in DestructionJournal /\ snapshot \in KeyRecord /\ row.completed \in BOOLEAN
  BY RowsTyped DEF FenceInv, TypeInv, DestructionJournal
<1>2. snapshot.state = "PendingDeletion" /\ snapshot.occ_version < MaxOcc
  BY DEF FenceInv, ClaimFrozen, ClaimHasRoom
<1>3. keys[l] = IF row.completed THEN completed_record(snapshot) ELSE snapshot
  BY DEF FenceInv, ClaimFrozen
<1>. HIDE DEF snapshot
<1>4. completed_record(snapshot) \in KeyRecord /\ completed_record(snapshot).state = "Destroyed"
  <2>1. snapshot.occ_version + 1 \in 1..MaxOcc
    BY <1>1, <1>2, BoundsAssumption DEF KeyRecord
  <2>. QED  BY <1>1, <2>1 DEF completed_record, KeyRecord, KeyState
<1>. QED  BY <1>1, <1>2, <1>3, <1>4

(* The row a claim inserts is well-formed. *)
LEMMA ClaimedRowTyped ==
    ASSUME TypeInv, [Next]_vars, NEW l \in Lid, ClaimDestruction(l)
    PROVE  destruction_journal'[l] \in DestructionJournal
<1>. DEFINE claimed == [keys[l] EXCEPT !.occ_version = @ + 1]
<1>1. keys[l] \in KeyRecord /\ keys[l].occ_version <= MaxOcc - 2
  BY RowsTyped DEF TypeInv, ClaimDestruction, prepare_claim
<1>2. claimed \in KeyRecord
  BY <1>1, BoundsAssumption DEF KeyRecord
<1>3. destruction_journal'[l] = [snapshot |-> claimed, completed |-> FALSE]
  BY DEF ClaimDestruction, TypeInv, TypeOK
<1>. HIDE DEF claimed
<1>. QED  BY <1>2, <1>3 DEF DestructionJournal

(* The writers a claimed key refuses: all but its own completion.  For a    *)
(* publication the guard is indirect: it has no destruction check of its    *)
(* own, but it requires the child to be absent or Enabled, and a claimed    *)
(* key is neither.                                                          *)
LEMMA ClaimedRefusesWriters ==
    ASSUME FenceInv, NEW l \in Lid, destruction_journal[l] # None, KeyWriter(l)
    PROVE  CompleteDestruction(l)
<1>1. keys[l] \in KeyRecord /\ keys[l].state \in {"PendingDeletion", "Destroyed"}
  BY ClaimedKey
<1>2. ~CreateKey(l)
  BY <1>1, AbsenceAssumption DEF CreateKey
<1>3. \A next : ~UpdateKey(l, next)
  BY DEF UpdateKey, destruction_guard_write, destruction_guard
<1>4. ~ClaimDestruction(l) /\ ~CancelDestruction(l)
  BY DEF ClaimDestruction, CancelDestruction, destruction_guard
<1>5. \A at, allow : ~ScheduleDestruction(l, at, allow)
  BY DEF ScheduleDestruction, destruction_guard
<1>6. ASSUME NEW op \in CreationOp, NEW i \in Instance, PublishCreation(op, i),
             creation_journal[op].child = l
      PROVE  FALSE
  BY <1>1, <1>6, AbsenceAssumption
     DEF PublishCreation, publication_admitted, validate_records, child_eligible, permits_encrypt
<1>7. ASSUME NEW op \in MigrationOp, NEW i \in Instance, NEW e \in 0..MaxEpoch,
             CommitMigration(op, i, e), migration_journal[op].request.child = l
      PROVE  FALSE
  BY <1>7 DEF CommitMigration, snapshots, destruction_guard
<1>. QED  BY <1>2, <1>3, <1>4, <1>5, <1>6, <1>7 DEF KeyWriter

(* No writer but a completion produces a destroyed record. *)
LEMMA OnlyCompletionDestroys ==
    ASSUME FenceInv, NEW l \in Lid, KeyWriter(l), ~CompleteDestruction(l)
    PROVE  keys'[l].state # "Destroyed"
<1>1. CASE CreateKey(l)
  BY <1>1 DEF CreateKey, resident_record, FenceInv, TypeInv, TypeOK
<1>2. ASSUME keys[l] # None, NEW next \in proposals(keys[l]), UpdateKey(l, next)
      PROVE  keys'[l].state # "Destroyed"
  <2>1. next \in KeyRecord
    BY <1>2, ProposalTyped, RowsTyped DEF UpdateKey, FenceInv, TypeInv
  <2>. QED  BY <1>2, <2>1 DEF UpdateKey, FenceInv, TypeInv, TypeOK, KeyRecord
<1>3. ASSUME NEW at \in Time, NEW allow \in BOOLEAN, ScheduleDestruction(l, at, allow)
      PROVE  keys'[l].state # "Destroyed"
  BY <1>3, RowsTyped DEF ScheduleDestruction, transition_to, FenceInv, TypeInv, TypeOK, KeyRecord
<1>4. CASE CancelDestruction(l)
  BY <1>4, RowsTyped DEF CancelDestruction, transition_to, FenceInv, TypeInv, TypeOK, KeyRecord
<1>5. CASE ClaimDestruction(l)
  BY <1>5, RowsTyped DEF ClaimDestruction, prepare_claim, FenceInv, TypeInv, TypeOK, KeyRecord
<1>6. ASSUME NEW op \in CreationOp, NEW i \in Instance, PublishCreation(op, i),
             creation_journal[op].child = l
      PROVE  keys'[l].state # "Destroyed"
  <2>. DEFINE row == creation_journal[op]
  <2>1. keys'[l] = created_record(op, row) /\ child_eligible(row)
    BY <1>6 DEF PublishCreation, publication_admitted, validate_records, FenceInv, TypeInv, TypeOK
  <2>2. row \in CreationJournal
    BY <1>6, RowsTyped DEF PublishCreation, in_flight_creation, FenceInv, TypeInv
  <2>. HIDE DEF row
  <2>3. CASE row.expected_key_occ = 0
    BY <2>1, <2>3 DEF created_record
  <2>4. CASE row.expected_key_occ # 0
    <3>1. keys[row.child] \in KeyRecord /\ keys[row.child].state = "Enabled"
      BY <2>1, <2>2, <2>4, RowsTyped
         DEF child_eligible, permits_encrypt, FenceInv, TypeInv, CreationJournal
    <3>. QED  BY <2>1, <2>4, <3>1 DEF created_record, KeyRecord
  <2>. QED  BY <2>3, <2>4
<1>7. ASSUME NEW op \in MigrationOp, NEW i \in Instance, NEW e \in 0..MaxEpoch,
             CommitMigration(op, i, e), migration_journal[op].request.child = l
      PROVE  keys'[l].state # "Destroyed"
  <2>. DEFINE q == migration_journal[op].request
  <2>1. keys'[l] = proposed(op, q) /\ migration_journal[op] # None
    BY <1>7 DEF CommitMigration, require_owner, FenceInv, TypeInv, TypeOK
  <2>2. q \in MigrationRequest /\ validate_request(q)
    BY <2>1, RowsTyped DEF FenceInv, TypeInv, RequestsValid, MigrationJournal
  <2>. HIDE DEF q
  <2>3. q.child_record \in KeyRecord /\ q.child_record.state = "Enabled"
    BY <2>2 DEF validate_request, migratable_child, permits_encrypt, MigrationRequest
  <2>. QED  BY <2>1, <2>3 DEF proposed, KeyRecord
<1>. QED  BY <1>1, <1>2, <1>3, <1>4, <1>5, <1>6, <1>7 DEF KeyWriter

(* The fence is inductive. *)
LEMMA FenceStep == FenceInv /\ [Next]_vars => FenceInv'
<1>. SUFFICES ASSUME FenceInv, [Next]_vars
              PROVE  ClaimFrozen' /\ ClaimHasRoom'
  BY TypeInvStep DEF FenceInv
<1>. DEFINE Frozen(l) == destruction_journal[l] # None =>
                /\ destruction_journal[l].snapshot.state = "PendingDeletion"
                /\ keys[l] = IF destruction_journal[l].completed
                             THEN completed_record(destruction_journal[l].snapshot)
                             ELSE destruction_journal[l].snapshot
            Final(l) == keys[l] # None /\ keys[l].state = "Destroyed" =>
                destruction_journal[l] # None /\ destruction_journal[l].completed
            Room(l) == destruction_journal[l] # None =>
                destruction_journal[l].snapshot.occ_version < MaxOcc
<1>0. ClaimFrozen /\ ClaimHasRoom <=> \A l \in Lid : Frozen(l) /\ Final(l) /\ Room(l)
  BY DEF ClaimFrozen, ClaimHasRoom
<1>1. SUFFICES ASSUME NEW l \in Lid
               PROVE  Frozen(l)' /\ Final(l)' /\ Room(l)'
  BY DEF ClaimFrozen, ClaimHasRoom
<1>2. Frozen(l) /\ Final(l) /\ Room(l)
  BY <1>0 DEF FenceInv
<1>3. CASE ClaimDestruction(l)
  <2>. DEFINE claimed == [keys[l] EXCEPT !.occ_version = @ + 1]
  <2>1. keys[l] \in KeyRecord
    BY <1>3, RowsTyped DEF ClaimDestruction, FenceInv, TypeInv
  <2>2. /\ keys'[l] = claimed
        /\ destruction_journal'[l] = [snapshot |-> claimed, completed |-> FALSE]
    BY <1>3 DEF ClaimDestruction, FenceInv, TypeInv, TypeOK
  <2>3. claimed.state = "PendingDeletion" /\ claimed.occ_version < MaxOcc
    BY <1>3, <2>1, BoundsAssumption DEF ClaimDestruction, prepare_claim, KeyRecord
  <2>. HIDE DEF claimed
  <2>. QED  BY <2>2, <2>3
<1>4. CASE CompleteDestruction(l)
  <2>. DEFINE row == destruction_journal[l]
  <2>1. row \in DestructionJournal /\ ~row.completed /\ keys[l] = row.snapshot
    BY <1>4, RowsTyped DEF CompleteDestruction, FenceInv, TypeInv
  <2>2. /\ keys'[l] = completed_record(row.snapshot)
        /\ destruction_journal'[l] = [row EXCEPT !.completed = TRUE]
    BY <1>4 DEF CompleteDestruction, FenceInv, TypeInv, TypeOK
  <2>3. destruction_journal'[l].snapshot = row.snapshot /\ destruction_journal'[l].completed
    BY <2>1, <2>2 DEF DestructionJournal
  <2>4. destruction_journal[l] # None /\ destruction_journal'[l] # None
    <3>1. destruction_journal'[l] \in DestructionJournal
      BY <2>1, <2>2 DEF DestructionJournal
    <3>. QED  BY <1>4, <3>1, RowsAssumption DEF CompleteDestruction
  <2>. QED  BY <1>2, <2>2, <2>3, <2>4
<1>5. CASE ~ClaimDestruction(l) /\ ~CompleteDestruction(l)
  <2>1. destruction_journal'[l] = destruction_journal[l]
    BY <1>5, DestructionStep DEF FenceInv
  <2>2. CASE keys'[l] = keys[l]
    BY <1>2, <2>1, <2>2
  <2>3. CASE KeyWriter(l)
    <3>1. destruction_journal[l] = None
      BY <1>5, <2>3, ClaimedRefusesWriters
    <3>2. keys'[l].state # "Destroyed"
      BY <1>5, <2>3, OnlyCompletionDestroys
    <3>. QED  BY <2>1, <3>1, <3>2
  <2>. QED  BY <2>2, <2>3, KeyStep DEF FenceInv
<1>. QED  BY <1>3, <1>4, <1>5

(* A claim freezes its key until the completion, and only a completed claim *)
(* destroys one: what claim_destruction hands out stays true whatever other *)
(* calls race with the deletion worker, restarts included.                  *)
THEOREM ClaimsFreeze == Spec => []ClaimFrozen
<1>1. Init => FenceInv
  BY TypeInvInit DEF Init, FenceInv, ClaimFrozen, ClaimHasRoom
<1>. QED  BY <1>1, FenceStep, PTL DEF Spec, FenceInv

(* Every claim that has been made can still be completed: the OCC column    *)
(* has room for the completion.                                             *)
THEOREM ClaimsCanComplete == Spec => []ClaimCanComplete
<1>1. Init => FenceInv
  BY TypeInvInit DEF Init, FenceInv, ClaimFrozen, ClaimHasRoom
<1>2. FenceInv => ClaimCanComplete
  BY DEF FenceInv, ClaimFrozen, ClaimHasRoom, ClaimCanComplete
<1>. QED  BY <1>1, <1>2, FenceStep, PTL DEF Spec

-----------------------------------------------------------------------------
(* Loss markers *)

(* A binding is a version of a key wrapped under a parent. *)
marker(c, v) ==
    [child |-> c, version |-> v, parent |-> keys[c].key_versions[v].parent,
     parent_version |-> keys[c].key_versions[v].parent_version]

LossMarked ==
    \A c \in Lid : keys[c] # None /\ keys[c].state # "Destroyed" =>
        \A v \in wrapped_versions(keys[c]) :
            destruction_journal[keys[c].key_versions[v].parent] # None =>
                marker(c, v) \in destroyed_wrapping_parents

NoSelfWrap == \A c \in Lid : keys[c] # None => c \notin wrapping_parents(keys[c])

MarkersClaimed ==
    \A mk \in destroyed_wrapping_parents : destruction_journal[mk.parent] # None

LossInv == FenceInv /\ LossMarked /\ NoSelfWrap /\ MarkersClaimed

(* What a wrapped version holds. *)
LEMMA WrappedTyped ==
    ASSUME NEW r \in KeyRecord, NEW v \in wrapped_versions(r)
    PROVE  v \in Version /\ r.key_versions[v] \in ParentWrapped
<1>1. r.key_versions \in Seq(KeyMaterial) /\ Len(r.key_versions) \in Version
  BY DEF KeyRecord, History
<1>2. v \in DOMAIN r.key_versions /\ r.key_versions[v] # Resident
  BY DEF wrapped_versions
<1>3. v \in 1..Len(r.key_versions) /\ r.key_versions[v] \in KeyMaterial
  BY <1>1, <1>2
<1>4. v \in Version
  BY <1>1, <1>3, BoundsAssumption DEF Version
<1>. QED  BY <1>2, <1>3, <1>4 DEF KeyMaterial

(* No handler's proposal adds or changes a wrapped version: update_key never *)
(* creates a binding.                                                        *)
LEMMA ProposalBindings ==
    ASSUME NEW r \in KeyRecord, NEW next \in proposals(r), NEW v \in wrapped_versions(next)
    PROVE  v \in wrapped_versions(r) /\ next.key_versions[v] = r.key_versions[v]
<1>1. r.key_versions \in Seq(KeyMaterial) /\ Len(r.key_versions) \in Nat
  BY BoundsAssumption DEF KeyRecord, History, Version
<1>2. \/ next.key_versions = r.key_versions
      \/ next.key_versions = Append(r.key_versions, Resident)
  BY DEF proposals, transition_to, edit_metadata, rotate_resident, KeyRecord
<1>3. v \in DOMAIN next.key_versions /\ next.key_versions[v] # Resident
  BY DEF wrapped_versions
<1>4. CASE next.key_versions = Append(r.key_versions, Resident)
  <2>1. v \in 1..Len(r.key_versions) + 1 /\ v # Len(r.key_versions) + 1
    BY <1>1, <1>3, <1>4
  <2>2. v \in 1..Len(r.key_versions) /\ next.key_versions[v] = r.key_versions[v]
    BY <1>1, <1>4, <2>1
  <2>. QED  BY <1>1, <1>3, <2>2 DEF wrapped_versions
<1>. QED  BY <1>2, <1>3, <1>4 DEF wrapped_versions

(* A binding present after a step was there before, or is new and names     *)
(* another key that is not claimed.                                         *)
LEMMA BindingStep ==
    ASSUME FenceInv, [Next]_vars, NEW c \in Lid, keys'[c] # None,
           NEW v \in wrapped_versions(keys'[c])
    PROVE  \/ /\ keys[c] # None
              /\ v \in wrapped_versions(keys[c])
              /\ keys'[c].key_versions[v] = keys[c].key_versions[v]
              /\ keys[c].state = "Destroyed" => keys'[c].state = "Destroyed"
           \/ /\ keys'[c].key_versions[v].parent # c
              /\ destruction_journal'[keys'[c].key_versions[v].parent] = None
<1>. DEFINE Old == /\ keys[c] # None
                   /\ v \in wrapped_versions(keys[c])
                   /\ keys'[c].key_versions[v] = keys[c].key_versions[v]
                   /\ keys[c].state = "Destroyed" => keys'[c].state = "Destroyed"
            New == /\ keys'[c].key_versions[v].parent # c
                   /\ destruction_journal'[keys'[c].key_versions[v].parent] = None
<1>1. CASE keys'[c] = keys[c]
  BY <1>1
<1>2. ASSUME KeyWriter(c), keys[c] # None, keys[c].state = "Destroyed"
      PROVE  FALSE
  <2>1. destruction_journal[c] # None /\ destruction_journal[c].completed
    BY <1>2 DEF FenceInv, ClaimFrozen
  <2>2. CompleteDestruction(c)
    BY <1>2, <2>1, ClaimedRefusesWriters
  <2>. QED  BY <2>1, <2>2 DEF CompleteDestruction
<1>3. ~CreateKey(c)
  <2>. SUFFICES ASSUME CreateKey(c)
                PROVE  FALSE
    OBVIOUS
  <2>1. keys'[c] = resident_record
    BY DEF CreateKey, FenceInv, TypeInv, TypeOK
  <2>. QED  BY <2>1, ResidentUnbound
<1>4. ASSUME keys[c] # None, NEW next \in proposals(keys[c]), UpdateKey(c, next)
      PROVE  Old
  <2>1. keys[c] \in KeyRecord /\ next \in KeyRecord
    BY <1>4, RowsTyped, ProposalTyped DEF UpdateKey, FenceInv, TypeInv
  <2>2. keys'[c] = [next EXCEPT !.was_compromised = has_compromise_history(next)]
    BY <1>4 DEF UpdateKey, FenceInv, TypeInv, TypeOK
  <2>3. keys'[c].key_versions = next.key_versions
    BY <2>1, <2>2 DEF KeyRecord
  <2>4. v \in wrapped_versions(next)
    BY <2>3 DEF wrapped_versions
  <2>5. v \in wrapped_versions(keys[c]) /\ next.key_versions[v] = keys[c].key_versions[v]
    BY <1>4, <2>1, <2>4, ProposalBindings
  <2>6. KeyWriter(c)
    BY <1>4 DEF KeyWriter
  <2>. QED  BY <1>2, <1>4, <2>3, <2>5, <2>6
<1>5. ASSUME \/ \E at \in Time, allow \in BOOLEAN : ScheduleDestruction(c, at, allow)
             \/ CancelDestruction(c)
             \/ ClaimDestruction(c)
             \/ CompleteDestruction(c)
      PROVE  Old
  <2>1. keys[c] # None /\ keys[c] \in KeyRecord
    BY <1>5, RowsTyped DEF ScheduleDestruction, CancelDestruction, ClaimDestruction,
                           CompleteDestruction, FenceInv, TypeInv
  <2>2. keys'[c].key_versions = keys[c].key_versions
    <3>. USE DEF FenceInv, TypeInv, TypeOK, KeyRecord
    <3>1. CASE \E at \in Time, allow \in BOOLEAN : ScheduleDestruction(c, at, allow)
      BY <2>1, <3>1 DEF ScheduleDestruction, transition_to
    <3>2. CASE CancelDestruction(c)
      BY <2>1, <3>2 DEF CancelDestruction, transition_to
    <3>3. CASE ClaimDestruction(c)
      BY <2>1, <3>3 DEF ClaimDestruction
    <3>4. CASE CompleteDestruction(c)
      BY <2>1, <3>4 DEF CompleteDestruction, completed_record
    <3>. QED  BY <1>5, <3>1, <3>2, <3>3, <3>4
  <2>3. KeyWriter(c)
    BY <1>5 DEF KeyWriter
  <2>. QED  BY <1>2, <2>1, <2>2, <2>3 DEF wrapped_versions
<1>6. ASSUME NEW op \in CreationOp, NEW i \in Instance, PublishCreation(op, i),
             creation_journal[op].child = c
      PROVE  Old \/ New
  <2>. DEFINE row == creation_journal[op]
  <2>1. row \in CreationJournal
    BY <1>6, RowsTyped DEF PublishCreation, in_flight_creation, FenceInv, TypeInv
  <2>2. keys'[c] = created_record(op, row) /\ validate_records(row) /\ row.child = c
    BY <1>6 DEF PublishCreation, publication_admitted, FenceInv, TypeInv, TypeOK
  <2>3. destruction_journal' = destruction_journal /\ KeyWriter(c)
    BY <1>6 DEF PublishCreation, destructionVars, KeyWriter
  <2>. HIDE DEF row
  <2>4. row.parent # c /\ row.parent \in Lid /\ destruction_journal[row.parent] = None
    <3>1. row.parent # c /\ row.parent \in Lid /\ keys[row.parent].state = "Enabled"
      BY <2>1, <2>2 DEF validate_records, parent_eligible, permits_encrypt, CreationJournal
    <3>. QED  BY <3>1, ClaimedKey
  <2>5. keys'[c].key_versions[v] = material(op, row) => New
    BY <2>3, <2>4 DEF material
  <2>6. CASE row.expected_key_occ = 0
    BY <2>2, <2>5, <2>6 DEF created_record, wrapped_versions
  <2>7. CASE row.expected_key_occ # 0
    <3>1. keys[c] # None /\ keys[c] \in KeyRecord
      BY <2>2, <2>7, RowsTyped DEF validate_records, child_eligible, FenceInv, TypeInv
    <3>2. keys'[c].key_versions = Append(keys[c].key_versions, material(op, row))
      BY <2>2, <2>7, <3>1 DEF created_record, KeyRecord
    <3>3. keys[c].key_versions \in Seq(KeyMaterial)
      BY <3>1 DEF KeyRecord, History
    <3>4. keys[c].state # "Destroyed"
      BY <1>2, <2>3, <3>1
    <3>. DEFINE h == keys[c].key_versions
    <3>5. v \in DOMAIN Append(h, material(op, row)) /\ Append(h, material(op, row))[v] # Resident
      BY <3>2 DEF wrapped_versions
    <3>6. \/ v \in DOMAIN h /\ Append(h, material(op, row))[v] = h[v]
          \/ Append(h, material(op, row))[v] = material(op, row)
      <4>. HIDE DEF h
      <4>. QED  BY <3>3, <3>5 DEF h
    <3>. QED  BY <2>5, <3>1, <3>2, <3>4, <3>5, <3>6 DEF wrapped_versions
  <2>. QED  BY <2>6, <2>7
<1>7. ASSUME NEW op \in MigrationOp, NEW i \in Instance, NEW e \in 0..MaxEpoch,
             CommitMigration(op, i, e), migration_journal[op].request.child = c
      PROVE  New
  <2>. DEFINE q == migration_journal[op].request
  <2>1. /\ keys'[c] = proposed(op, q) /\ migration_journal[op] # None
        /\ destruction_journal' = destruction_journal
        /\ destruction_journal[q.new_parent] = None
    BY <1>7 DEF CommitMigration, require_owner, snapshots, destruction_guard, destructionVars,
                FenceInv, TypeInv, TypeOK
  <2>2. q \in MigrationRequest /\ validate_request(q)
    BY <2>1, RowsTyped DEF FenceInv, TypeInv, RequestsValid, MigrationJournal
  <2>3. q.child_record \in KeyRecord /\ q.new_parent # c
    BY <1>7, <2>2 DEF MigrationRequest, validate_request
  <2>. HIDE DEF q
  <2>4. keys'[c].key_versions[v].parent = q.new_parent
    BY <2>1, <2>3 DEF proposed, wrapped_versions, KeyRecord
  <2>. QED  BY <2>1, <2>3, <2>4
<1>. QED  BY <1>1, <1>3, <1>4, <1>5, <1>6, <1>7, KeyStep DEF KeyWriter, FenceInv

(* The loss markers are inductive with the fence. *)
LEMMA LossStep == LossInv /\ [Next]_vars => LossInv'
<1>. SUFFICES ASSUME LossInv, [Next]_vars
              PROVE  LossMarked' /\ NoSelfWrap' /\ MarkersClaimed'
  BY FenceStep DEF LossInv
<1>1. TypeOK /\ TypeOK' /\ FenceInv
  BY FenceStep DEF LossInv, FenceInv, TypeInv
<1>2. ASSUME NEW c \in Lid, keys'[c] # None, NEW v \in wrapped_versions(keys'[c])
      PROVE  /\ v \in Version
             /\ keys'[c].key_versions[v] \in ParentWrapped
  BY <1>1, <1>2, WrappedTyped DEF TypeOK
<1>3. destroyed_wrapping_parents \subseteq destroyed_wrapping_parents'
  <2>1. CASE DestructionOps
    BY <2>1 DEF DestructionOps, ScheduleDestruction, CancelDestruction, ClaimDestruction,
                RecoverClaim, CompleteDestruction
  <2>. QED  BY <2>1, OthersKeepDestruction DEF Next
<1>4. ASSUME NEW l \in Lid, destruction_journal[l] # None
      PROVE  destruction_journal'[l] # None
  <2>1. CASE ClaimDestruction(l)
    BY <1>4, <2>1 DEF ClaimDestruction, destruction_guard
  <2>2. CASE CompleteDestruction(l)
    <3>1. destruction_journal[l] \in DestructionJournal
      BY <1>1, <1>4, RowsTyped
    <3>2. destruction_journal'[l] = [destruction_journal[l] EXCEPT !.completed = TRUE]
      BY <1>1, <2>2 DEF CompleteDestruction, TypeOK
    <3>. QED  BY <3>1, <3>2, RowsAssumption DEF DestructionJournal
  <2>. QED  BY <1>4, <2>1, <2>2, DestructionStep DEF FenceInv, LossInv
<1>5. LossMarked'
  <2>. SUFFICES ASSUME NEW c \in Lid, keys'[c] # None, keys'[c].state # "Destroyed",
                       NEW v \in wrapped_versions(keys'[c]),
                       destruction_journal'[keys'[c].key_versions[v].parent] # None
                PROVE  marker(c, v)' \in destroyed_wrapping_parents'
    BY DEF LossMarked
  <2>. DEFINE m == keys'[c].key_versions[v]
  <2>1. /\ keys[c] # None /\ keys[c].state # "Destroyed"
        /\ v \in wrapped_versions(keys[c]) /\ keys[c].key_versions[v] = m
    BY <1>1, BindingStep
  <2>2. m \in ParentWrapped /\ v \in Version
    BY <1>2
  <2>3. marker(c, v)' = marker(c, v)
    BY <2>1 DEF marker
  <2>4. CASE destruction_journal[m.parent] # None
    BY <1>3, <2>1, <2>3, <2>4 DEF LossInv, LossMarked
  <2>5. CASE destruction_journal[m.parent] = None
    <3>1. m.parent \in Lid
      BY <2>2 DEF ParentWrapped
    <3>2. ClaimDestruction(m.parent)
      BY <1>1, <2>5, <3>1, DestructionStep DEF CompleteDestruction, FenceInv
    <3>3. loss_markers(m.parent) \subseteq destroyed_wrapping_parents'
      BY <3>2 DEF ClaimDestruction
    <3>4. m.parent # c
      BY <2>1 DEF LossInv, NoSelfWrap, wrapping_parents
    <3>. DEFINE d == [lid |-> c, version |-> v, parent_version |-> m.parent_version,
                      envelope_ref |-> m.ref]
    <3>5. d \in DestructionDependent
      BY <2>2 DEF DestructionDependent, ParentWrapped
    <3>6. m = [parent |-> m.parent, parent_version |-> m.parent_version, ref |-> m.ref]
      BY <2>2 DEF ParentWrapped
    <3>7. descriptor_edge(m.parent, d)
      BY <2>1, <3>4, <3>6 DEF descriptor_edge
    <3>8. d \in dependents(m.parent)
      BY <3>5, <3>7 DEF dependents
    <3>9. marker(c, v) \in loss_markers(m.parent)
      <4>1. marker(c, v) = [child |-> d.lid, version |-> d.version, parent |-> m.parent,
                            parent_version |-> d.parent_version]
        BY <2>1 DEF marker
      <4>. HIDE DEF d
      <4>. QED  BY <3>7, <3>8, <4>1 DEF loss_markers
    <3>. QED  BY <2>3, <3>3, <3>9
  <2>. QED  BY <2>4, <2>5
<1>6. NoSelfWrap'
  <2>. SUFFICES ASSUME NEW c \in Lid, keys'[c] # None, NEW v \in wrapped_versions(keys'[c]),
                       keys'[c].key_versions[v].parent = c
                PROVE  FALSE
    BY DEF NoSelfWrap, wrapping_parents
  <2>1. /\ keys[c] # None /\ v \in wrapped_versions(keys[c])
        /\ keys[c].key_versions[v].parent = c
    BY <1>1, BindingStep
  <2>. QED  BY <2>1 DEF LossInv, NoSelfWrap, wrapping_parents
<1>7. MarkersClaimed'
  <2>1. ASSUME NEW mk \in destroyed_wrapping_parents
        PROVE  destruction_journal'[mk.parent] # None
    BY <1>1, <1>4 DEF LossInv, MarkersClaimed, TypeOK, DestroyedWrappingParent
  <2>2. \/ destroyed_wrapping_parents' = destroyed_wrapping_parents
        \/ \E l \in Lid : /\ destroyed_wrapping_parents'
                                = destroyed_wrapping_parents \cup loss_markers(l)
                          /\ ClaimDestruction(l) \/ destruction_journal[l] # None
    <3>1. CASE DestructionOps
      <4>1. PICK l \in Lid :
                \/ \E at \in Time, allow \in BOOLEAN : ScheduleDestruction(l, at, allow)
                \/ CancelDestruction(l) \/ CompleteDestruction(l)
                \/ ClaimDestruction(l) \/ RecoverClaim(l)
        BY <3>1 DEF DestructionOps
      <4>2. CASE \/ \E at \in Time, allow \in BOOLEAN : ScheduleDestruction(l, at, allow)
                 \/ CancelDestruction(l) \/ CompleteDestruction(l)
        BY <4>2 DEF ScheduleDestruction, CancelDestruction, CompleteDestruction
      <4>3. CASE ClaimDestruction(l)
        BY <4>3 DEF ClaimDestruction
      <4>4. CASE RecoverClaim(l)
        BY <4>4 DEF RecoverClaim
      <4>. QED  BY <4>1, <4>2, <4>3, <4>4
    <3>. QED  BY <3>1, OthersKeepDestruction DEF Next
  <2>3. ASSUME NEW l \in Lid, ClaimDestruction(l) \/ destruction_journal[l] # None
        PROVE  destruction_journal'[l] # None
    <3>1. CASE ClaimDestruction(l)
      BY <1>1, <3>1, ClaimedRowTyped, RowsAssumption DEF FenceInv
    <3>. QED  BY <1>4, <2>3, <3>1
  <2>4. ASSUME NEW mk \in destroyed_wrapping_parents'
        PROVE  destruction_journal'[mk.parent] # None
    <3>1. CASE mk \in destroyed_wrapping_parents
      BY <2>1, <3>1
    <3>2. CASE mk \notin destroyed_wrapping_parents
      <4>1. PICK l \in Lid : /\ mk \in loss_markers(l)
                             /\ ClaimDestruction(l) \/ destruction_journal[l] # None
        BY <2>2, <2>4, <3>2
      <4>. QED  BY <2>3, <4>1, MarkerParent
    <3>. QED  BY <3>1, <3>2
  <2>. QED  BY <2>4 DEF MarkersClaimed
<1>. QED  BY <1>5, <1>6, <1>7

(* No silent loss, and no false alarm: in every reachable state a live      *)
(* wrapped version carries a loss marker exactly if the parent it is        *)
(* wrapped under has been claimed for destruction.                          *)
THEOREM LossIsMarked == Spec => []LossMarkersExact
<1>1. Init => LossInv
  BY TypeInvInit DEF Init, LossInv, FenceInv, ClaimFrozen, ClaimHasRoom, LossMarked, NoSelfWrap,
                     MarkersClaimed
<1>2. LossInv => LossMarkersExact
  <2>. SUFFICES ASSUME LossInv, NEW c \in Lid, keys[c] # None, keys[c].state # "Destroyed",
                       NEW v \in wrapped_versions(keys[c])
                PROVE  destruction_journal[keys[c].key_versions[v].parent] # None <=>
                        marker(c, v) \in destroyed_wrapping_parents
    BY DEF LossMarkersExact, marker
  <2>1. marker(c, v).parent = keys[c].key_versions[v].parent
    BY DEF marker
  <2>. QED  BY <2>1 DEF LossInv, LossMarked, MarkersClaimed
<1>. QED  BY <1>1, <1>2, LossStep, PTL DEF Spec

-----------------------------------------------------------------------------
(* What every write of a key does *)

(* A writer stores a record: no operation deletes the row of a key. *)
LEMMA WriterKeepsKey ==
    ASSUME TypeInv, NEW l \in Lid, KeyWriter(l)
    PROVE  keys'[l] # None
<1>. SUFFICES keys'[l] \in KeyRecord
  BY AbsenceAssumption
<1>. USE DEF TypeInv
<1>1. CASE CreateKey(l)
  BY <1>1, ResidentTyped DEF CreateKey, TypeOK
<1>2. ASSUME keys[l] # None, NEW next \in proposals(keys[l]), UpdateKey(l, next)
      PROVE  keys'[l] \in KeyRecord
  <2>. DEFINE w == has_compromise_history(next)
  <2>1. next \in KeyRecord
    BY <1>2, ProposalTyped, RowsTyped DEF UpdateKey
  <2>2. w \in BOOLEAN /\ keys'[l] = [next EXCEPT !.was_compromised = w]
    BY <1>2, <2>1 DEF UpdateKey, has_compromise_history, KeyRecord, TypeOK
  <2>. HIDE DEF w
  <2>. QED  BY <2>1, <2>2 DEF KeyRecord
<1>3. ASSUME NEW at \in Time, NEW allow \in BOOLEAN, ScheduleDestruction(l, at, allow)
      PROVE  keys'[l] \in KeyRecord
  <2>1. transition_to(keys[l], "PendingDeletion") \in KeyRecord
    BY <1>3, RowsTyped, TransitionTyped DEF ScheduleDestruction, KeyState
  <2>. QED  BY <1>3, <2>1 DEF ScheduleDestruction, KeyRecord, TypeOK
<1>4. CASE CancelDestruction(l)
  <2>1. transition_to(keys[l], "Disabled") \in KeyRecord
    BY <1>4, RowsTyped, TransitionTyped DEF CancelDestruction, KeyState
  <2>. QED  BY <1>4, <2>1 DEF CancelDestruction, KeyRecord, TypeOK
<1>5. CASE ClaimDestruction(l)
  <2>1. keys[l] \in KeyRecord /\ keys[l].occ_version <= MaxOcc - 2
    BY <1>5, RowsTyped DEF ClaimDestruction, prepare_claim
  <2>2. keys[l].occ_version + 1 \in 1..MaxOcc
    BY <2>1, BoundsAssumption DEF KeyRecord
  <2>. QED  BY <1>5, <2>1, <2>2 DEF ClaimDestruction, KeyRecord, TypeOK
<1>6. CASE CompleteDestruction(l)
  <2>1. keys[l] \in KeyRecord /\ keys[l].occ_version + 1 \in 1..MaxOcc
    BY <1>6, RowsTyped, NextOccTyped DEF CompleteDestruction
  <2>. QED  BY <1>6, <2>1 DEF CompleteDestruction, completed_record, KeyRecord, KeyState, TypeOK
<1>7. ASSUME NEW op \in CreationOp, NEW i \in Instance, PublishCreation(op, i),
             creation_journal[op].child = l
      PROVE  keys'[l] \in KeyRecord
  <2>1. creation_journal[op] \in CreationJournal
    BY <1>7, RowsTyped DEF PublishCreation, in_flight_creation
  <2>2. created_record(op, creation_journal[op]) \in KeyRecord
    BY <1>7, <2>1, CreatedTyped DEF PublishCreation, publication_admitted, validate_records
  <2>. QED  BY <1>7, <2>2 DEF PublishCreation, TypeOK
<1>8. ASSUME NEW op \in MigrationOp, NEW i \in Instance, NEW e \in 0..MaxEpoch,
             CommitMigration(op, i, e), migration_journal[op].request.child = l
      PROVE  keys'[l] \in KeyRecord
  <2>. DEFINE q == migration_journal[op].request
  <2>1. migration_journal[op] \in MigrationJournal /\ validate_request(q)
    BY <1>8, RowsTyped DEF CommitMigration, require_owner, RequestsValid
  <2>2. proposed(op, q) \in KeyRecord
    BY <2>1, ProposedTyped DEF MigrationJournal
  <2>. QED  BY <1>8, <2>2 DEF CommitMigration, TypeOK
<1>. QED  BY <1>1, <1>2, <1>3, <1>4, <1>5, <1>6, <1>7, <1>8 DEF KeyWriter

(* A writer stores the next OCC version, and the first if the key is new.   *)
LEMMA WriterAdvances ==
    ASSUME TypeInv, NEW l \in Lid, KeyWriter(l)
    PROVE  IF keys[l] = None THEN keys'[l].occ_version = 1
           ELSE keys'[l].occ_version = keys[l].occ_version + 1
<1>. USE DEF TypeInv, TypeOK
<1>1. CASE CreateKey(l)
  BY <1>1 DEF CreateKey, resident_record
<1>2. ASSUME keys[l] # None, NEW next \in proposals(keys[l]), UpdateKey(l, next)
      PROVE  keys'[l].occ_version = keys[l].occ_version + 1
  <2>1. /\ next \in KeyRecord
        /\ next.occ_version = keys[l].occ_version + 1
    BY <1>2, ProposalTyped, RowsTyped DEF UpdateKey
  <2>. QED  BY <1>2, <2>1 DEF UpdateKey, KeyRecord
<1>3. ASSUME NEW at \in Time, NEW allow \in BOOLEAN, ScheduleDestruction(l, at, allow)
      PROVE  keys[l] # None /\ keys'[l].occ_version = keys[l].occ_version + 1
  BY <1>3, RowsTyped DEF ScheduleDestruction, transition_to, KeyRecord
<1>4. CASE CancelDestruction(l)
  BY <1>4, RowsTyped DEF CancelDestruction, transition_to, KeyRecord
<1>5. CASE ClaimDestruction(l)
  BY <1>5, RowsTyped DEF ClaimDestruction, KeyRecord
<1>6. CASE CompleteDestruction(l)
  BY <1>6, RowsTyped DEF CompleteDestruction, completed_record, KeyRecord
<1>7. ASSUME NEW op \in CreationOp, NEW i \in Instance, PublishCreation(op, i),
             creation_journal[op].child = l
      PROVE  IF keys[l] = None THEN keys'[l].occ_version = 1
             ELSE keys'[l].occ_version = keys[l].occ_version + 1
  <2>. DEFINE row == creation_journal[op]
  <2>1. keys'[l] = created_record(op, row) /\ child_eligible(row) /\ row.child = l
    BY <1>7 DEF PublishCreation, publication_admitted, validate_records
  <2>. HIDE DEF row
  <2>2. CASE keys[l] = None
    BY <2>1, <2>2 DEF child_eligible, created_record
  <2>3. CASE keys[l] # None
    <3>1. keys[l] \in KeyRecord /\ row.expected_key_occ = keys[l].occ_version
      BY <2>1, <2>3, RowsTyped DEF child_eligible
    <3>2. row.expected_key_occ # 0
      BY <3>1, OccPositive
    <3>. QED  BY <2>1, <2>3, <3>1, <3>2 DEF created_record, KeyRecord
  <2>. QED  BY <2>2, <2>3
<1>8. ASSUME NEW op \in MigrationOp, NEW i \in Instance, NEW e \in 0..MaxEpoch,
             CommitMigration(op, i, e), migration_journal[op].request.child = l
      PROVE  keys[l] # None /\ keys'[l].occ_version = keys[l].occ_version + 1
  <2>. DEFINE q == migration_journal[op].request
  <2>1. /\ keys'[l] = proposed(op, q) /\ migration_journal[op] # None
        /\ keys[l] = q.child_record
    BY <1>8 DEF CommitMigration, require_owner, snapshots
  <2>2. q.child_record \in KeyRecord
    BY <2>1, RowsTyped DEF MigrationJournal, MigrationRequest
  <2>. HIDE DEF q
  <2>. QED  BY <2>1, <2>2, AbsenceAssumption DEF proposed, KeyRecord
<1>. QED  BY <1>1, <1>2, <1>3, <1>4, <1>5, <1>6, <1>7, <1>8 DEF KeyWriter

(* A write of a key is never lost: each one that changes the row moves its  *)
(* OCC version on by exactly one, and a key never disappears, so of two     *)
(* callers who read the same version at most one can write.                 *)
THEOREM WritesAdvanceOcc == Spec => OccAdvances
<1>1. TypeInv /\ [Next]_vars =>
        [\A l \in Lid : keys'[l] # keys[l] =>
            IF keys[l] = None THEN keys'[l].occ_version = 1
            ELSE keys'[l] # None /\ keys'[l].occ_version = keys[l].occ_version + 1]_vars
  <2>. SUFFICES ASSUME TypeInv, [Next]_vars, NEW l \in Lid, keys'[l] # keys[l]
                PROVE  IF keys[l] = None THEN keys'[l].occ_version = 1
                       ELSE keys'[l] # None /\ keys'[l].occ_version = keys[l].occ_version + 1
    OBVIOUS
  <2>1. KeyWriter(l)
    BY KeyStep
  <2>2. ASSUME keys[l] # None
        PROVE  keys'[l] # None
    BY <2>1, <2>2, WriterKeepsKey
  <2>. QED  BY <2>1, <2>2, WriterAdvances
<1>. QED  BY <1>1, TypeInvInit, TypeInvStep, PTL DEF Spec, OccAdvances

=============================================================================
