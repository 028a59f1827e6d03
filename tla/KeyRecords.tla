----------------------------- MODULE KeyRecords -----------------------------
(***************************************************************************)
(* The persisted key record of keyrack-core (key.rs) and the operations on *)
(* one record: the lifecycle, its transitions, and the version history.    *)
(*                                                                         *)
(* A history is a sequence of materials.  Version numbers are the          *)
(* positions: every writer adds version current + 1 and makes it primary,  *)
(* so current_key_version is the length of the history.  Description,      *)
(* tags, exportability, specification and provider binding are not         *)
(* represented: no operation modelled here lets them decide more than a    *)
(* refusal.                                                                *)
(***************************************************************************)
EXTENDS Integers, Sequences, FiniteSets

CONSTANTS
    Lid,          \* logical key identities
    CreationOp,   \* operation identities of creation journals
    MigrationOp,  \* operation identities of migration journals
    None,         \* absence: Option::None, or a row that does not exist
    Resident,     \* material held by a provider
    MaxOcc,       \* stands for i64::MAX, the limit of the OCC column
    MaxVersion,   \* bound on the length of a history
    MaxTime       \* bound on the clock

ASSUME BoundsAssumption ==
    /\ MaxOcc \in Nat \ {0}
    /\ MaxVersion \in Nat \ {0}
    /\ MaxTime \in Nat

KeyState ==
    {"Creating", "Enabled", "Disabled", "Compromised", "PendingDeletion", "Destroyed"}

Time == 0..MaxTime
Version == 1..MaxVersion
EnvelopeRef == CreationOp \cup MigrationOp

ParentWrapped == [parent : Lid, parent_version : Version, ref : EnvelopeRef]
KeyMaterial == ParentWrapped \cup {Resident}
History == {h \in Seq(KeyMaterial) : Len(h) \in Version}

KeyRecord ==
    [occ_version           : 1..MaxOcc,
     state                 : KeyState,
     was_compromised       : BOOLEAN,
     scheduled_deletion_at : Time \cup {None},
     parent_lid            : Lid \cup {None},
     key_versions          : History]

ASSUME AbsenceAssumption ==
    /\ Resident \notin ParentWrapped
    /\ None \notin KeyRecord
    /\ None \notin Lid
    /\ None \notin Time
    /\ CreationOp \cap MigrationOp = {}

-----------------------------------------------------------------------------
(* Lifecycle *)

valid_transitions ==
    [Creating        |-> {"Enabled"},
     Enabled         |-> {"Disabled", "Compromised", "PendingDeletion"},
     Disabled        |-> {"Enabled", "Compromised", "PendingDeletion"},
     Compromised     |-> {"PendingDeletion"},
     PendingDeletion |-> {"Disabled", "Destroyed"},
     Destroyed       |-> {}]

has_compromise_history(r) == r.was_compromised \/ r.state = "Compromised"

permits_encrypt(r) == r.state = "Enabled" /\ ~has_compromise_history(r)

(* transition_to refuses an edge the lifecycle lacks, and refuses to enable *)
(* a key that has ever been compromised.                                    *)
can_transition(r, target) ==
    /\ target \in valid_transitions[r.state]
    /\ ~(target = "Enabled" /\ has_compromise_history(r))

ForgetsCompromise(r, target) ==
    [r EXCEPT !.was_compromised = (target = "Compromised"),
              !.state = target,
              !.occ_version = @ + 1]
transition_to(r, target) ==
    [r EXCEPT !.was_compromised = has_compromise_history(r) \/ target = "Compromised",
              !.state = target,
              !.occ_version = @ + 1]

-----------------------------------------------------------------------------
(* Version history *)

current_key_version(r) == Len(r.key_versions)

wrapped_versions(r) ==
    {v \in DOMAIN r.key_versions : r.key_versions[v] # Resident}

wrapping_parents(r) == {r.key_versions[v].parent : v \in wrapped_versions(r)}

(* A record create_key stores for a key without a parent. *)
resident_record ==
    [occ_version |-> 1, state |-> "Enabled", was_compromised |-> FALSE,
     scheduled_deletion_at |-> None, parent_lid |-> None,
     key_versions |-> <<Resident>>]

(* rotate_resident: one more resident version, made primary. *)
can_rotate_resident(r) ==
    /\ permits_encrypt(r)
    /\ wrapped_versions(r) = {}
    /\ current_key_version(r) < MaxVersion

rotate_resident(r) ==
    [r EXCEPT !.key_versions = Append(@, Resident), !.occ_version = @ + 1]

(* Every edit of description, tags, rotation policy or exportability. *)
edit_metadata(r) == [r EXCEPT !.occ_version = @ + 1]

(* The records the service's handlers propose to update_key from a record r *)
(* they have read.                                                          *)
proposals(r) ==
    {transition_to(r, target) :
        target \in {t \in {"Enabled", "Disabled", "Compromised"} : can_transition(r, t)}}
    \cup {edit_metadata(r)}
    \cup {rotate_resident(x) : x \in {y \in {r} : can_rotate_resident(y)}}

=============================================================================
