------------------------------ MODULE KeyStore ------------------------------
(***************************************************************************)
(* The transactional key store: keyrack-sqlite with the journal logic of   *)
(* keyrack-core it runs inside its writer transaction.  Every operation    *)
(* below is one IMMEDIATE transaction of SqliteStorage (creation_tx), so   *)
(* one atomic step.  A call that is refused rolls back and is a stutter.   *)
(*                                                                         *)
(* The tables are functions from the primary key to a row or None:         *)
(* keys, creation_journal, destruction_journal, deletion_schedules and     *)
(* migration_journal; retired_creation_journal, migration_envelopes and    *)
(* destroyed_wrapping_parents are sets.  The envelopes of one migration    *)
(* are inserted together and deleted together, so migration_envelopes      *)
(* holds the operation instead of one row per version.                     *)
(***************************************************************************)
EXTENDS KeyRecords

CONSTANTS
    Instance,   \* service processes, as owners of journal operations
    MaxEpoch    \* bound on the number of ownership claims of a migration

ASSUME OwnersAssumption ==
    /\ MaxEpoch \in Nat
    /\ None \notin Instance

VARIABLES
    keys,
    creation_journal,
    retired_creation_journal,
    destruction_journal,
    deletion_schedules,
    destroyed_wrapping_parents,
    migration_journal,
    migration_envelopes,
    now

vars == <<keys, creation_journal, retired_creation_journal, destruction_journal,
          deletion_schedules, destroyed_wrapping_parents, migration_journal,
          migration_envelopes, now>>

creationVars == <<creation_journal, retired_creation_journal>>
destructionVars == <<destruction_journal, deletion_schedules, destroyed_wrapping_parents>>
migrationVars == <<migration_journal, migration_envelopes>>

-----------------------------------------------------------------------------
(* Rows *)

CreationPhase == {"Reserved", "Staged", "Resolved", "Committed"}

(* expected_key_occ = 0 is None: the operation creates the child. *)
CreationJournal ==
    [owner               : Instance,
     child               : Lid,
     version             : Version,
     parent              : Lid,
     parent_version      : Version,
     expected_key_occ    : 0..MaxOcc,
     expected_parent_occ : 1..MaxOcc,
     dispatch_started    : BOOLEAN,
     phase               : CreationPhase]

DestructionDependent ==
    [lid : Lid, version : Version, parent_version : Version, envelope_ref : EnvelopeRef]

DeletionSchedule ==
    [at : Time, allow : BOOLEAN, approved_dependents : SUBSET DestructionDependent]

DestructionJournal == [snapshot : KeyRecord, completed : BOOLEAN]

DestroyedWrappingParent ==
    [child : Lid, version : Version, parent : Lid, parent_version : Version]

MigrationPhase == {"Reserved", "Staged", "Committed"}

MigrationRequest ==
    [child : Lid, old_parent : Lid, new_parent : Lid,
     child_record : KeyRecord, old_record : KeyRecord, new_record : KeyRecord]

MigrationJournal ==
    [request  : MigrationRequest,
     owner    : Instance \cup {None},
     epoch    : 0..MaxEpoch,
     dispatch : [epoch : 1..MaxEpoch, retry_safe : BOOLEAN] \cup {None},
     phase    : MigrationPhase]

ASSUME RowsAssumption ==
    /\ None \notin CreationJournal
    /\ None \notin DeletionSchedule
    /\ None \notin DestructionJournal
    /\ None \notin MigrationJournal
    /\ None \notin [epoch : 1..MaxEpoch, retry_safe : BOOLEAN]

TypeOK ==
    /\ keys \in [Lid -> KeyRecord \cup {None}]
    /\ creation_journal \in [CreationOp -> CreationJournal \cup {None}]
    /\ retired_creation_journal \subseteq CreationOp
    /\ destruction_journal \in [Lid -> DestructionJournal \cup {None}]
    /\ deletion_schedules \in [Lid -> DeletionSchedule \cup {None}]
    /\ destroyed_wrapping_parents \subseteq DestroyedWrappingParent
    /\ migration_journal \in [MigrationOp -> MigrationJournal \cup {None}]
    /\ migration_envelopes \subseteq MigrationOp
    /\ now \in Time

Init ==
    /\ keys = [l \in Lid |-> None]
    /\ creation_journal = [op \in CreationOp |-> None]
    /\ retired_creation_journal = {}
    /\ destruction_journal = [l \in Lid |-> None]
    /\ deletion_schedules = [l \in Lid |-> None]
    /\ destroyed_wrapping_parents = {}
    /\ migration_journal = [op \in MigrationOp |-> None]
    /\ migration_envelopes = {}
    /\ now = 0

-----------------------------------------------------------------------------
(* Rows that fence a key *)

committed_creation(op) ==
    creation_journal[op] # None /\ creation_journal[op].phase = "Committed"

in_flight_creation(op) ==
    creation_journal[op] # None /\ creation_journal[op].phase # "Committed"

committed_migration(op) ==
    migration_journal[op] # None /\ migration_journal[op].phase = "Committed"

ReservedMigration(op) ==
    migration_journal[op] # None /\ migration_journal[op].phase = "Reserved"
active_migration(op) ==
    migration_journal[op] # None /\ migration_journal[op].phase # "Committed"

migration_lids(op) ==
    LET q == migration_journal[op].request IN {q.child, q.old_parent, q.new_parent}

creation_lids(op) == {creation_journal[op].child, creation_journal[op].parent}

(* i64::try_from: the OCC column is an SQL BIGINT. *)
OccUnchecked(occ) == TRUE
occ_fits(occ) == occ <= MaxOcc

(* destruction::guard -- a destruction row fences the key for good. *)
destruction_guard(l) == destruction_journal[l] = None

GuardParentsOnly(l, r) == \A k \in wrapping_parents(r) : destruction_guard(k)
destruction_guard_write(l, r) ==
    \A k \in {l} \cup wrapping_parents(r) : destruction_guard(k)

(* migration::guard -- an uncommitted migration fences all three keys. *)
GuardNotNewParent(l) ==
    \A op \in MigrationOp : active_migration(op) =>
        l \notin {migration_journal[op].request.child, migration_journal[op].request.old_parent}
migration_guard(l) ==
    \A op \in MigrationOp : active_migration(op) => l \notin migration_lids(op)

migration_guard_record(l, r) ==
    \A k \in ({l, r.parent_lid} \ {None}) \cup wrapping_parents(r) : migration_guard(k)

no_creation_in_flight(l) ==
    \A op \in CreationOp : in_flight_creation(op) => l \notin creation_lids(op)

(* Whether a wrapped version's envelope reference reads committed bytes. *)
envelope_ref_resolves(ref) ==
    \/ ref \in CreationOp /\ committed_creation(ref)
    \/ ref \in MigrationOp /\ committed_migration(ref) /\ ref \in migration_envelopes

-----------------------------------------------------------------------------
(* Key CRUD *)

CreateKey(l) ==
    /\ keys[l] = None
    /\ migration_guard_record(l, resident_record)
    /\ \A op \in CreationOp : creation_journal[op] # None => creation_journal[op].child # l
    /\ destruction_guard_write(l, resident_record)
    /\ keys' = [keys EXCEPT ![l] = resident_record]
    /\ UNCHANGED <<creationVars, destructionVars, migrationVars, now>>

(* guard_referenced_parent: the material others are wrapped under stays. *)
guard_referenced_parent(previous, next) ==
    /\ next.state # "Destroyed"
    /\ \A v \in DOMAIN previous.key_versions :
        v \in DOMAIN next.key_versions /\ next.key_versions[v] = previous.key_versions[v]

migration_guard_update(l, previous, next) ==
    /\ migration_guard_record(l, previous)
    /\ migration_guard_record(l, next)
    /\ previous.parent_lid = next.parent_lid
    /\ wrapped_versions(previous) # {} =>
        /\ guard_referenced_parent(previous, next)
        /\ previous.key_versions = next.key_versions
    /\ (\E op \in migration_envelopes : migration_journal[op].request.new_parent = l) =>
        guard_referenced_parent(previous, next)

creation_guard_update(l, previous, next) ==
    /\ (\E op \in CreationOp : creation_journal[op] # None /\ creation_journal[op].child = l) =>
        previous.key_versions = next.key_versions
    /\ (\E op \in CreationOp : /\ creation_journal[op] # None
                               /\ \/ creation_journal[op].parent = l
                                  \/ creation_journal[op].child = l /\ committed_creation(op)) =>
        guard_referenced_parent(previous, next)

(* destruction::guard_update: leaving a schedule removes its approval. *)
DropsApprovalOnNewDate(previous, next) ==
    previous.scheduled_deletion_at # next.scheduled_deletion_at
drops_approval(previous, next) ==
    \/ previous.state # next.state
    \/ previous.scheduled_deletion_at # next.scheduled_deletion_at

(* update_key, with the record the caller proposes. *)
UpdateKey(l, next) ==
    /\ keys[l] # None
    /\ occ_fits(next.occ_version)
    /\ keys[l].occ_version = next.occ_version - 1
    /\ has_compromise_history(keys[l]) => has_compromise_history(next)
    /\ migration_guard_update(l, keys[l], next)
    /\ creation_guard_update(l, keys[l], next)
    /\ destruction_guard_write(l, next)
    /\ next.state # "Destroyed"
    /\ keys' = [keys EXCEPT ![l] =
                    [next EXCEPT !.was_compromised = has_compromise_history(next)]]
    /\ deletion_schedules' =
        IF drops_approval(keys[l], next)
        THEN [deletion_schedules EXCEPT ![l] = None]
        ELSE deletion_schedules
    /\ UNCHANGED <<creationVars, destruction_journal, destroyed_wrapping_parents,
                   migrationVars, now>>

-----------------------------------------------------------------------------
(* Destruction fencing *)

(* A wrapped version of another key that is not destroyed. *)
descriptor_edge(l, d) ==
    /\ d.lid # l
    /\ keys[d.lid] # None
    /\ keys[d.lid].state # "Destroyed"
    /\ d.version \in wrapped_versions(keys[d.lid])
    /\ keys[d.lid].key_versions[d.version] =
        [parent |-> l, parent_version |-> d.parent_version, ref |-> d.envelope_ref]

(* Live envelopes count even if no descriptor points at them. *)
creation_edge(l, d) ==
    /\ d.lid # l
    /\ d.envelope_ref \in CreationOp
    /\ committed_creation(d.envelope_ref)
    /\ LET row == creation_journal[d.envelope_ref]
       IN  /\ row.parent = l /\ row.child = d.lid
           /\ row.version = d.version /\ row.parent_version = d.parent_version

migration_edge(l, d) ==
    /\ d.lid # l
    /\ d.envelope_ref \in migration_envelopes
    /\ committed_migration(d.envelope_ref)
    /\ LET q == migration_journal[d.envelope_ref].request
       IN  /\ q.new_parent = l /\ q.child = d.lid
           /\ d.version \in DOMAIN q.child_record.key_versions
           /\ d.parent_version = current_key_version(q.new_record)

dependents(l) ==
    {d \in DestructionDependent :
        descriptor_edge(l, d) \/ creation_edge(l, d) \/ migration_edge(l, d)}

(* DestructionDependencies::validate_intent. *)
ApprovesAnyEdge(l, allow, approved) ==
    no_creation_in_flight(l) /\ migration_guard(l)
validate_intent(l, allow, approved) ==
    /\ no_creation_in_flight(l)
    /\ migration_guard(l)
    /\ dependents(l) # {} => allow
    /\ dependents(l) \subseteq approved

(* Each wrapped version of the key resolves to the envelope it names. *)
owned_envelope_bound(l, v) ==
    LET m == keys[l].key_versions[v]
        row == creation_journal[m.ref]
        q == migration_journal[m.ref].request
    IN  \/ /\ m.ref \in CreationOp /\ committed_creation(m.ref)
           /\ row.child = l /\ row.version = v
           /\ row.parent = m.parent /\ row.parent_version = m.parent_version
        \/ /\ m.ref \in MigrationOp /\ committed_migration(m.ref)
           /\ m.ref \in migration_envelopes
           /\ q.child = l /\ v \in DOMAIN q.child_record.key_versions
           /\ q.new_parent = m.parent
           /\ current_key_version(q.new_record) = m.parent_version

validate_owned_envelopes(l) ==
    \A v \in wrapped_versions(keys[l]) : owned_envelope_bound(l, v)

(* The edges a schedule approves: those the server observes, if allowed. *)
approval(l, allow) == IF allow THEN dependents(l) ELSE {}

ScheduleDestruction(l, at, allow) ==
    LET approved == approval(l, allow) IN
    /\ keys[l] # None
    /\ destruction_guard(l)
    /\ occ_fits(keys[l].occ_version + 1)
    /\ validate_intent(l, allow, approved)
    /\ validate_owned_envelopes(l)
    /\ can_transition(keys[l], "PendingDeletion")
    /\ keys' = [keys EXCEPT ![l] =
                    [transition_to(keys[l], "PendingDeletion") EXCEPT
                        !.scheduled_deletion_at = at]]
    /\ deletion_schedules' = [deletion_schedules EXCEPT ![l] =
                    [at |-> at, allow |-> allow, approved_dependents |-> approved]]
    /\ UNCHANGED <<creationVars, destruction_journal, destroyed_wrapping_parents,
                   migrationVars, now>>

CancelDestruction(l) ==
    /\ keys[l] # None
    /\ destruction_guard(l)
    /\ migration_guard(l)
    /\ occ_fits(keys[l].occ_version + 1)
    /\ keys[l].state = "PendingDeletion"
    /\ can_transition(keys[l], "Disabled")
    /\ keys' = [keys EXCEPT ![l] =
                    [transition_to(keys[l], "Disabled") EXCEPT
                        !.scheduled_deletion_at = None]]
    /\ deletion_schedules' = [deletion_schedules EXCEPT ![l] = None]
    /\ UNCHANGED <<creationVars, destruction_journal, destroyed_wrapping_parents,
                   migrationVars, now>>

(* record_loss_markers: the edges that current descriptors really have. *)
MarksPrimaryOnly(l) ==
    {[child |-> d.lid, version |-> d.version,
      parent |-> l, parent_version |-> d.parent_version] :
        d \in {e \in dependents(l) :
            descriptor_edge(l, e) /\ e.version = current_key_version(keys[e.lid])}}
loss_markers(l) ==
    {[child |-> d.lid, version |-> d.version,
      parent |-> l, parent_version |-> d.parent_version] :
        d \in {e \in dependents(l) : descriptor_edge(l, e)}}

(* intent(): a schedule row that does not match the record is an error; a   *)
(* key without one has no approval.                                         *)
intent_matches(l) ==
    deletion_schedules[l] # None =>
        /\ keys[l].state = "PendingDeletion"
        /\ keys[l].scheduled_deletion_at = deletion_schedules[l].at

intent_admits(l) ==
    LET row == deletion_schedules[l] IN
    /\ intent_matches(l)
    /\ IF row = None THEN validate_intent(l, FALSE, {})
                     ELSE validate_intent(l, row.allow, row.approved_dependents)

(* A claim reserves room in the OCC column for its own completion. *)
ClaimWithoutRoom(r) ==
    /\ r.state = "PendingDeletion"
    /\ r.scheduled_deletion_at # None
    /\ r.scheduled_deletion_at <= now
    /\ r.occ_version <= MaxOcc - 1
prepare_claim(r) ==
    /\ r.state = "PendingDeletion"
    /\ r.scheduled_deletion_at # None
    /\ r.scheduled_deletion_at <= now
    /\ r.key_versions # <<>>
    /\ r.occ_version <= MaxOcc - 2

(* claim_destruction of a key nobody has claimed. *)
ClaimDestruction(l) ==
    /\ keys[l] # None
    /\ destruction_guard(l)
    /\ intent_admits(l)
    /\ validate_owned_envelopes(l)
    /\ prepare_claim(keys[l])
    /\ LET claimed == [keys[l] EXCEPT !.occ_version = @ + 1] IN
        /\ keys' = [keys EXCEPT ![l] = claimed]
        /\ destruction_journal' = [destruction_journal EXCEPT ![l] =
                [snapshot |-> claimed, completed |-> FALSE]]
    /\ destroyed_wrapping_parents' = destroyed_wrapping_parents \cup loss_markers(l)
    /\ UNCHANGED <<creationVars, deletion_schedules, migrationVars, now>>

(* claim_destruction of an incomplete claim: the same ticket is reissued.   *)
RecoverClaim(l) ==
    /\ keys[l] # None
    /\ destruction_journal[l] # None
    /\ ~destruction_journal[l].completed
    /\ keys[l] = destruction_journal[l].snapshot
    /\ destroyed_wrapping_parents' = destroyed_wrapping_parents \cup loss_markers(l)
    /\ UNCHANGED <<keys, creationVars, destruction_journal, deletion_schedules,
                   migrationVars, now>>

committed_children(l) ==
    {op \in CreationOp : committed_creation(op) /\ creation_journal[op].child = l}

KeepsEnvelopes(l) == {}
DropsOwnEnvelopes(l) ==
    {op \in MigrationOp : migration_journal[op] # None /\ migration_journal[op].request.child = l}
migrations_of(l) ==
    {op \in MigrationOp : committed_migration(op) /\ migration_journal[op].request.child = l}

(* Committed creation rows of the child become receipts without bytes. *)
retire_creations(l) ==
    /\ creation_journal' = [op \in CreationOp |->
            IF op \in committed_children(l) THEN None ELSE creation_journal[op]]
    /\ retired_creation_journal' = retired_creation_journal \cup committed_children(l)

completed_record(r) == [r EXCEPT !.state = "Destroyed", !.occ_version = @ + 1]

CompleteDestruction(l) ==
    /\ keys[l] # None
    /\ destruction_journal[l] # None
    /\ ~destruction_journal[l].completed
    /\ keys[l] = destruction_journal[l].snapshot
    /\ occ_fits(keys[l].occ_version + 1)
    /\ retire_creations(l)
    /\ migration_envelopes' = migration_envelopes \ migrations_of(l)
    /\ keys' = [keys EXCEPT ![l] = completed_record(keys[l])]
    /\ destruction_journal' = [destruction_journal EXCEPT ![l].completed = TRUE]
    /\ deletion_schedules' = [deletion_schedules EXCEPT ![l] = None]
    /\ UNCHANGED <<destroyed_wrapping_parents, migration_journal, now>>

-----------------------------------------------------------------------------
(* The A2 creation journal *)

(* The descriptor of the version the operation creates. *)
material(op, row) ==
    [parent |-> row.parent, parent_version |-> row.parent_version, ref |-> op]

(* The record publication stores: a new child, or one more version of it. *)
ReplacesHistory(op, row) ==
    IF row.expected_key_occ = 0
    THEN [occ_version |-> 1, state |-> "Enabled", was_compromised |-> FALSE,
          scheduled_deletion_at |-> None, parent_lid |-> row.parent,
          key_versions |-> <<material(op, row)>>]
    ELSE [keys[row.child] EXCEPT !.occ_version = @ + 1,
                                 !.key_versions = <<material(op, row), material(op, row)>>]
created_record(op, row) ==
    IF row.expected_key_occ = 0
    THEN [occ_version |-> 1, state |-> "Enabled", was_compromised |-> FALSE,
          scheduled_deletion_at |-> None, parent_lid |-> row.parent,
          key_versions |-> <<material(op, row)>>]
    ELSE [keys[row.child] EXCEPT !.occ_version = @ + 1,
                                 !.key_versions = Append(@, material(op, row))]

(* CreationRequest::validate_records, against the records as they are now. *)
parent_eligible(row) ==
    LET p == keys[row.parent] IN
    /\ p # None
    /\ p.occ_version = row.expected_parent_occ
    /\ permits_encrypt(p)
    /\ p.scheduled_deletion_at = None
    /\ row.parent_version = current_key_version(p)
    /\ p.key_versions[row.parent_version] = Resident

child_eligible(row) ==
    LET c == keys[row.child] IN
    \/ /\ row.expected_key_occ = 0
       /\ c = None
       /\ row.version = 1
    \/ /\ c # None
       /\ c.occ_version = row.expected_key_occ
       /\ c.occ_version < MaxOcc
       /\ row.version = current_key_version(c) + 1
       /\ permits_encrypt(c)
       /\ c.scheduled_deletion_at = None
       /\ c.parent_lid = row.parent

validate_records(row) == row.child # row.parent /\ parent_eligible(row) /\ child_eligible(row)

reservation(i, c, p) ==
    [owner |-> i, child |-> c,
     version |-> IF keys[c] = None THEN 1 ELSE current_key_version(keys[c]) + 1,
     parent |-> p, parent_version |-> current_key_version(keys[p]),
     expected_key_occ |-> IF keys[c] = None THEN 0 ELSE keys[c].occ_version,
     expected_parent_occ |-> keys[p].occ_version,
     dispatch_started |-> FALSE, phase |-> "Reserved"]

ReserveCreation(op, i, c, p) ==
    LET row == reservation(i, c, p) IN
    /\ creation_journal[op] = None
    /\ op \notin retired_creation_journal
    /\ keys[p] # None
    /\ row.version \in Version
    /\ migration_guard_record(c, created_record(op, row))
    /\ destruction_guard_write(c, created_record(op, row))
    /\ validate_records(row)
    /\ \A other \in CreationOp : creation_journal[other] # None =>
            <<creation_journal[other].child, creation_journal[other].version>> # <<c, row.version>>
    /\ creation_journal' = [creation_journal EXCEPT ![op] = row]
    /\ UNCHANGED <<keys, retired_creation_journal, destructionVars, migrationVars, now>>

(* What CreationJournal admits next, and from whom. *)
dispatch_admitted(row, i) == row.owner = i /\ row.phase = "Reserved" /\ ~row.dispatch_started
stage_admitted(row, i) == row.owner = i /\ row.phase = "Reserved" /\ row.dispatch_started
resolve_admitted(row, i) == row.owner = i /\ row.phase = "Staged"
publication_admitted(row, i) == row.owner = i /\ row.phase = "Resolved" /\ validate_records(row)

(* Only what owes no provider effect may be withdrawn. *)
withdrawable(row) ==
    \/ row.phase = "Reserved" /\ ~row.dispatch_started
    \/ row.phase = "Resolved"

(* The one-shot permission to call the provider. *)
ClaimDispatch(op, i) ==
    /\ in_flight_creation(op)
    /\ dispatch_admitted(creation_journal[op], i)
    /\ validate_records(creation_journal[op])
    /\ creation_journal' = [creation_journal EXCEPT ![op].dispatch_started = TRUE]
    /\ UNCHANGED <<keys, retired_creation_journal, destructionVars, migrationVars, now>>

StageCreation(op, i) ==
    /\ in_flight_creation(op)
    /\ stage_admitted(creation_journal[op], i)
    /\ creation_journal' = [creation_journal EXCEPT ![op].phase = "Staged"]
    /\ UNCHANGED <<keys, retired_creation_journal, destructionVars, migrationVars, now>>

ResolveCreation(op, i) ==
    /\ in_flight_creation(op)
    /\ resolve_admitted(creation_journal[op], i)
    /\ creation_journal' = [creation_journal EXCEPT ![op].phase = "Resolved"]
    /\ UNCHANGED <<keys, retired_creation_journal, destructionVars, migrationVars, now>>

PublishCreation(op, i) ==
    LET row == creation_journal[op]
        record == created_record(op, row)
    IN  /\ in_flight_creation(op)
        /\ migration_guard_record(row.child, record)
        /\ publication_admitted(row, i)
        /\ keys' = [keys EXCEPT ![row.child] = record]
        /\ creation_journal' = [creation_journal EXCEPT ![op].phase = "Committed"]
        /\ UNCHANGED <<retired_creation_journal, destructionVars, migrationVars, now>>

(* Any caller may withdraw a row, its owner or not. *)
WithdrawCreation(op) ==
    /\ in_flight_creation(op)
    /\ withdrawable(creation_journal[op])
    /\ creation_journal' = [creation_journal EXCEPT ![op] = None]
    /\ UNCHANGED <<keys, retired_creation_journal, destructionVars, migrationVars, now>>

-----------------------------------------------------------------------------
(* The wrapped-key migration journal *)

(* MigrationRequest::validate *)
migratable_child(r, old) ==
    /\ r.occ_version < MaxOcc
    /\ permits_encrypt(r)
    /\ r.scheduled_deletion_at = None
    /\ r.parent_lid = old
    /\ wrapped_versions(r) = DOMAIN r.key_versions
    /\ wrapping_parents(r) = {old}

migration_parent(r) ==
    /\ permits_encrypt(r)
    /\ r.scheduled_deletion_at = None
    /\ r.parent_lid = None
    /\ wrapped_versions(r) = {}

validate_request(q) ==
    /\ q.child \notin {q.old_parent, q.new_parent}
    /\ migratable_child(q.child_record, q.old_parent)
    /\ \A m \in {q.child_record.key_versions[v] : v \in wrapped_versions(q.child_record)} :
        m.parent_version \in DOMAIN q.old_record.key_versions
    /\ migration_parent(q.old_record)
    /\ migration_parent(q.new_record)

(* The child as the migration leaves it: every version under the new parent. *)
ProposesSameOcc(op, q) ==
    [q.child_record EXCEPT
        !.parent_lid = q.new_parent,
        !.key_versions = [v \in DOMAIN q.child_record.key_versions |->
            [parent |-> q.new_parent,
             parent_version |-> current_key_version(q.new_record),
             ref |-> op]]]
proposed(op, q) ==
    [q.child_record EXCEPT
        !.parent_lid = q.new_parent,
        !.occ_version = @ + 1,
        !.key_versions = [v \in DOMAIN q.child_record.key_versions |->
            [parent |-> q.new_parent,
             parent_version |-> current_key_version(q.new_record),
             ref |-> op]]]

(* snapshots(): the three records are unfenced and exactly as reserved. *)
snapshots(q) ==
    /\ \A l \in {q.child, q.old_parent, q.new_parent} : destruction_guard(l)
    /\ keys[q.child] = q.child_record
    /\ keys[q.old_parent] = q.old_record
    /\ keys[q.new_parent] = q.new_record

request_for(c, old, new) ==
    [child |-> c, old_parent |-> old, new_parent |-> new,
     child_record |-> keys[c], old_record |-> keys[old], new_record |-> keys[new]]

require_owner(op, i, e) ==
    /\ migration_journal[op] # None
    /\ migration_journal[op].owner = i
    /\ migration_journal[op].epoch = e
    /\ e > 0

ReserveMigration(op, c, old, new) ==
    LET q == request_for(c, old, new) IN
    /\ migration_journal[op] = None
    /\ None \notin {keys[c], keys[old], keys[new]}
    /\ validate_request(q)
    /\ snapshots(q)
    /\ \A l \in {c, old, new} : migration_guard(l) /\ no_creation_in_flight(l)
    /\ migration_journal' = [migration_journal EXCEPT ![op] =
            [request |-> q, owner |-> None, epoch |-> 0, dispatch |-> None,
             phase |-> "Reserved"]]
    /\ UNCHANGED <<keys, creationVars, destructionVars, migration_envelopes, now>>

(* Ownership moves by compare-and-swap on the epoch; also a takeover. *)
ClaimMigration(op, i, e) ==
    /\ active_migration(op)
    /\ migration_journal[op].epoch = e
    /\ e < MaxEpoch
    /\ migration_journal' = [migration_journal EXCEPT ![op].epoch = e + 1, ![op].owner = i]
    /\ UNCHANGED <<keys, creationVars, destructionVars, migration_envelopes, now>>

(* An earlier dispatch with an unknown outcome may be repeated only if the  *)
(* provider declared it safe.                                               *)
RedispatchAlways(op) == TRUE
redispatch_safe(op) ==
    migration_journal[op].dispatch # None => migration_journal[op].dispatch.retry_safe

BeginDispatch(op, i, e, retry_safe) ==
    /\ require_owner(op, i, e)
    /\ migration_journal[op].phase = "Reserved"
    /\ redispatch_safe(op)
    /\ migration_journal' = [migration_journal EXCEPT ![op].dispatch =
            [epoch |-> e, retry_safe |-> retry_safe]]
    /\ UNCHANGED <<keys, creationVars, destructionVars, migration_envelopes, now>>

StageMigration(op, i, e) ==
    LET dispatch == migration_journal[op].dispatch IN
    /\ require_owner(op, i, e)
    /\ migration_journal[op].phase = "Reserved"
    /\ dispatch # None
    /\ dispatch.epoch = e
    /\ snapshots(migration_journal[op].request)
    /\ migration_journal' = [migration_journal EXCEPT ![op].phase = "Staged"]
    /\ migration_envelopes' = migration_envelopes \cup {op}
    /\ UNCHANGED <<keys, creationVars, destructionVars, now>>

(* The child moves and its old envelopes disappear in one transaction.  The *)
(* staged envelopes survive: this operation is not yet committed when those *)
(* of the child's committed migrations are deleted.                         *)
CommitMigration(op, i, e) ==
    LET q == migration_journal[op].request IN
    /\ require_owner(op, i, e)
    /\ migration_journal[op].phase = "Staged"
    /\ snapshots(q)
    /\ op \in migration_envelopes
    /\ \A v \in DOMAIN q.child_record.key_versions :
        envelope_ref_resolves(q.child_record.key_versions[v].ref)
    /\ retire_creations(q.child)
    /\ migration_envelopes' = migration_envelopes \ migrations_of(q.child)
    /\ keys' = [keys EXCEPT ![q.child] = proposed(op, q)]
    /\ migration_journal' = [migration_journal EXCEPT ![op].phase = "Committed"]
    /\ UNCHANGED <<destructionVars, now>>

-----------------------------------------------------------------------------

Tick ==
    /\ now < MaxTime
    /\ now' = now + 1
    /\ UNCHANGED <<keys, creationVars, destructionVars, migrationVars>>

KeyOps ==
    \E l \in Lid :
        \/ CreateKey(l)
        \/ keys[l] # None /\ \E next \in proposals(keys[l]) : UpdateKey(l, next)

DestructionOps ==
    \E l \in Lid :
        \/ \E at \in Time, allow \in BOOLEAN : at > now /\ ScheduleDestruction(l, at, allow)
        \/ CancelDestruction(l)
        \/ ClaimDestruction(l)
        \/ RecoverClaim(l)
        \/ CompleteDestruction(l)

CreationOps ==
    \E op \in CreationOp :
        \/ \E i \in Instance, c, p \in Lid : ReserveCreation(op, i, c, p)
        \/ \E i \in Instance : ClaimDispatch(op, i)
        \/ \E i \in Instance : StageCreation(op, i)
        \/ \E i \in Instance : ResolveCreation(op, i)
        \/ \E i \in Instance : PublishCreation(op, i)
        \/ WithdrawCreation(op)

MigrationOps ==
    \E op \in MigrationOp :
        \/ \E c, old, new \in Lid : ReserveMigration(op, c, old, new)
        \/ \E i \in Instance, e \in 0..MaxEpoch : ClaimMigration(op, i, e)
        \/ \E i \in Instance, e \in 0..MaxEpoch, safe \in BOOLEAN : BeginDispatch(op, i, e, safe)
        \/ \E i \in Instance, e \in 0..MaxEpoch : StageMigration(op, i, e)
        \/ \E i \in Instance, e \in 0..MaxEpoch : CommitMigration(op, i, e)

Next == KeyOps \/ DestructionOps \/ CreationOps \/ MigrationOps \/ Tick

Spec == Init /\ [][Next]_vars

-----------------------------------------------------------------------------
(* Properties *)

(* A claim freezes its key: until completion the row of the key is exactly  *)
(* the snapshot the claim recorded, whatever update_key, cancel, creation   *)
(* or migration calls race with it; after completion it is that snapshot,   *)
(* destroyed.  This is what makes a claim recovered after a crash safe to   *)
(* act on, and a repeated completion acceptable (completed_record,          *)
(* validate_completed_record).                                              *)
ClaimFrozen ==
    /\ \A l \in Lid : destruction_journal[l] # None =>
        LET row == destruction_journal[l] IN
        /\ row.snapshot.state = "PendingDeletion"
        /\ keys[l] = IF row.completed
                     THEN completed_record(row.snapshot)
                     ELSE row.snapshot
    \* and Destroyed is published by no other path
    /\ \A k \in Lid : keys[k] # None /\ keys[k].state = "Destroyed" =>
        destruction_journal[k] # None /\ destruction_journal[k].completed

(* A claim that has been made can be finished: prepare_claim left room in   *)
(* the OCC column for the completion.                                       *)
ClaimCanComplete ==
    \A l \in Lid : destruction_journal[l] # None /\ ~destruction_journal[l].completed =>
        keys[l].occ_version < MaxOcc

(* No silent loss: once a parent is claimed, every live version wrapped     *)
(* under it carries a loss marker, and a marker names a live binding only   *)
(* if that parent really is claimed (record_loss_markers,                   *)
(* wrapping_parent_destroyed_versions).                                     *)
LossMarkersExact ==
    \A c \in Lid : keys[c] # None /\ keys[c].state # "Destroyed" =>
        \A v \in wrapped_versions(keys[c]) :
            LET m == keys[c].key_versions[v] IN
            destruction_journal[m.parent] # None <=>
                [child |-> c, version |-> v, parent |-> m.parent,
                 parent_version |-> m.parent_version] \in destroyed_wrapping_parents

(* Loss is approved: while a claim is being carried out, every live edge to *)
(* the key is in the snapshot of dependents its schedule approved.          *)
LossApproved ==
    \A l \in Lid : destruction_journal[l] # None /\ ~destruction_journal[l].completed =>
        dependents(l) \subseteq
            IF deletion_schedules[l] = None THEN {}
            ELSE deletion_schedules[l].approved_dependents

(* A persisted approval belongs to the pending deletion of its key: every   *)
(* path out of PendingDeletion removes it, so none is left to be reused by  *)
(* a later schedule (destruction::guard_update, cancel, complete).          *)
ApprovalNotReusable == \A l \in Lid :
    deletion_schedules[l] # None => keys[l] # None /\ intent_matches(l)

(* Every wrapped version of a key that is not destroyed reads a committed   *)
(* envelope bound to exactly that child, version and parent version.        *)
EnvelopesBound ==
    \A l \in Lid : keys[l] # None /\ keys[l].state # "Destroyed" =>
        validate_owned_envelopes(l)

(* No live envelope is left behind: each committed creation row and each    *)
(* committed migration that still has its bytes is the material its child   *)
(* uses now, and that child is not destroyed.  A row left over would block  *)
(* the deletion of its parent forever, or survive its own key's erasure.    *)
NoOrphanEnvelope ==
    /\ \A op \in CreationOp : committed_creation(op) =>
        LET row == creation_journal[op] IN
        /\ keys[row.child] # None /\ keys[row.child].state # "Destroyed"
        /\ row.version \in DOMAIN keys[row.child].key_versions
        /\ keys[row.child].key_versions[row.version] = material(op, row)
    /\ \A op \in migration_envelopes : committed_migration(op) =>
        LET q == migration_journal[op].request IN
        /\ keys[q.child].state # "Destroyed"
        /\ \A v \in DOMAIN q.child_record.key_versions :
            keys[q.child].key_versions[v] = proposed(op, q).key_versions[v]

(* A wrapped version that no loss marker names can be opened: its envelope  *)
(* reads, and the parent version it names is resident in a parent that is   *)
(* neither claimed nor destroyed.  migration_snapshot then never fails in   *)
(* another way than WrappingParentDestroyed.                                *)
OpensUnlessLost ==
    \A c \in Lid : keys[c] # None /\ keys[c].state # "Destroyed" =>
        \A v \in wrapped_versions(keys[c]) :
            LET m == keys[c].key_versions[v] IN
            \/ [child |-> c, version |-> v, parent |-> m.parent,
                parent_version |-> m.parent_version] \in destroyed_wrapping_parents
            \/ /\ envelope_ref_resolves(m.ref)
               /\ destruction_journal[m.parent] = None
               /\ keys[m.parent] # None /\ keys[m.parent].state # "Destroyed"
               /\ m.parent_version \in DOMAIN keys[m.parent].key_versions
               /\ keys[m.parent].key_versions[m.parent_version] = Resident

(* A reserved migration freezes the child and both parents: all three rows  *)
(* stay as reserved until it commits, so a staged migration whose owner     *)
(* died can always be committed by the next owner.                          *)
MigrationFrozen ==
    \A op \in MigrationOp : active_migration(op) =>
        snapshots(migration_journal[op].request)


(* A staged migration still has its envelopes, and every old envelope its   *)
(* commit must digest can still be read.                                    *)
StagedCanCommit ==
    \A op \in MigrationOp :
        migration_journal[op] # None /\ migration_journal[op].phase = "Staged" =>
        /\ op \in migration_envelopes
        /\ \A v \in DOMAIN migration_journal[op].request.child_record.key_versions :
            envelope_ref_resolves(migration_journal[op].request.child_record.key_versions[v].ref)

(* A provider rewrap that is not safe to repeat is dispatched under one     *)
(* ownership epoch only (begin_dispatch).                                   *)
UnsafeDispatchOnce ==
    [][\A op \in MigrationOp :
        LET was == migration_journal[op] IN
        was # None /\ was.dispatch # None /\ ~was.dispatch.retry_safe =>
            migration_journal'[op].dispatch = was.dispatch]_vars

(* Every write of a key advances its OCC version by exactly one, so two     *)
(* writers that read the same version cannot both succeed.                  *)
OccAdvances ==
    [][\A l \in Lid : keys'[l] # keys[l] =>
        IF keys[l] = None THEN keys'[l].occ_version = 1
        ELSE keys'[l] # None /\ keys'[l].occ_version = keys[l].occ_version + 1]_vars

(* Compromise is for good: once a key has compromise history no sequence of *)
(* disabling, scheduling, cancelling, rotating or rewrapping makes it       *)
(* Enabled or clears the history.                                           *)
CompromiseLatched ==
    [][\A l \in Lid : keys[l] # None /\ has_compromise_history(keys[l]) =>
        has_compromise_history(keys'[l]) /\ keys'[l].state # "Enabled"]_vars

(* Old versions keep their material through every rotation; only a          *)
(* committed migration rewraps them.                                        *)
HistoryPreserved ==
    [][\A l \in Lid : keys[l] # None =>
        \A v \in DOMAIN keys[l].key_versions :
            \/ /\ v \in DOMAIN keys'[l].key_versions
               /\ keys'[l].key_versions[v] = keys[l].key_versions[v]
            \/ \E op \in MigrationOp :
                active_migration(op) /\ migration_journal[op].request.child = l]_vars

=============================================================================
