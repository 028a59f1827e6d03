--------------------------- MODULE CascadeDisable ---------------------------
(***************************************************************************)
(* disable_key of keyrack-service (domain.rs): the key is disabled, then a *)
(* walk over list_children disables every enabled key it meets.  Every     *)
(* storage call is a step of its own, and other requests change the tree   *)
(* between them.  update_key is reduced to its OCC check: the journals     *)
(* that can also refuse it are in KeyStore, and here they are a refusal    *)
(* that may happen MaxRefusals times.                                      *)
(*                                                                         *)
(* Trees deeper than one level come from records that were stored before   *)
(* wrapping existed or by the lazy provisioner.                            *)
(***************************************************************************)
EXTENDS KeyRecords

CONSTANTS
    Parent,       \* the hierarchy: key -> its parent_lid, or None
    Caller,       \* DisableKey requests
    MaxRefusals   \* bound on writes refused for another reason than OCC

ASSUME HierarchyAssumption ==
    /\ Parent \in [Lid -> Lid \cup {None}]
    /\ MaxRefusals \in Nat

VARIABLES
    keys,      \* rows of the keys table
    call,      \* the state of each request
    disabled,  \* keys each call has disabled
    covered,   \* keys each call could have found not enabled since it disabled its root
    refusals

vars == <<keys, call, disabled, covered, refusals>>

stored(l) == [resident_record EXCEPT !.parent_lid = Parent[l]]

idle == [pc |-> "idle", root |-> None, queue |-> <<>>, rows |-> {}]

Init ==
    /\ keys \in [Lid -> {None} \cup {stored(l) : l \in Lid}]
    /\ \A l \in Lid : keys[l] \in {None, stored(l)}
    /\ \A l \in Lid : keys[l] # None /\ Parent[l] # None => keys[Parent[l]] # None
    /\ call = [c \in Caller |-> idle]
    /\ disabled = [c \in Caller |-> {}]
    /\ covered = [c \in Caller |-> {}]
    /\ refusals = 0

not_enabled(table) == {l \in Lid : table[l] = None \/ table[l].state # "Enabled"}

(* The table changes, and every walk under way is credited with what it     *)
(* would now find not enabled; the walk of c starts with this write.        *)
Store(table, c) ==
    /\ keys' = table
    /\ covered' = [d \in Caller |->
            IF d = c THEN not_enabled(table)
            ELSE IF call[d].pc = "walk" THEN covered[d] \cup not_enabled(table)
            ELSE covered[d]]

(* update_key's OCC check, and the limit of its column. *)
occ_matches(row) ==
    /\ keys[row.lid] # None
    /\ keys[row.lid].occ_version = row.record.occ_version
    /\ row.record.occ_version < MaxOcc

write(row, target) == [keys EXCEPT ![row.lid] = transition_to(row.record, target)]

CountDisabled(c, l) == disabled' = [disabled EXCEPT ![c] = @ \cup {l}]

Finish(c, pc) == call' = [call EXCEPT ![c] = [idle EXCEPT !.pc = pc, !.root = call[c].root]]

-----------------------------------------------------------------------------
(* disable_key *)

ReadRoot(c, l) ==
    /\ call[c].pc = "idle"
    /\ keys[l] # None
    /\ can_transition(keys[l], "Disabled")
    /\ call' = [call EXCEPT ![c] =
            [@ EXCEPT !.pc = "root", !.root = l, !.rows = {[lid |-> l, record |-> keys[l]]}]]
    /\ UNCHANGED <<keys, disabled, covered, refusals>>

WriteRoot(c) ==
    /\ call[c].pc = "root"
    /\ \E row \in call[c].rows :
        IF occ_matches(row)
        THEN /\ Store(write(row, "Disabled"), c)
             /\ CountDisabled(c, row.lid)
             /\ call' = [call EXCEPT ![c] =
                    [@ EXCEPT !.pc = "walk", !.queue = <<row.lid>>, !.rows = {}]]
        ELSE Finish(c, "failed") /\ UNCHANGED <<keys, disabled, covered>>
    /\ UNCHANGED refusals

(* queue.pop, then list_children: the rows as they are now. *)
PeeksQueue(c) ==
    /\ call[c].pc = "walk"
    /\ call[c].rows = {}
    /\ call[c].queue # <<>>
    /\ LET parent == call[c].queue[Len(call[c].queue)] IN
        call' = [call EXCEPT ![c] =
            [@ EXCEPT !.rows = {[lid |-> l, record |-> keys[l]] :
                    l \in {k \in Lid : Parent[k] = parent /\ keys[k] # None}}]]
    /\ UNCHANGED <<keys, disabled, covered, refusals>>
ListChildren(c) ==
    /\ call[c].pc = "walk"
    /\ call[c].rows = {}
    /\ call[c].queue # <<>>
    /\ LET parent == call[c].queue[Len(call[c].queue)] IN
        call' = [call EXCEPT ![c] =
            [@ EXCEPT !.queue = SubSeq(@, 1, Len(@) - 1),
                      !.rows = {[lid |-> l, record |-> keys[l]] :
                            l \in {k \in Lid : Parent[k] = parent /\ keys[k] # None}}]]
    /\ UNCHANGED <<keys, disabled, covered, refusals>>

(* One child: skipped unless it was enabled when it was listed, else        *)
(* written and queued; a refused write ends the call.                       *)
SkipsRefused(c) ==
    /\ call[c].pc = "walk"
    /\ \E row \in call[c].rows :
        /\ call' = [call EXCEPT ![c].rows = @ \ {row}]
        /\ IF row.record.state = "Enabled" /\ occ_matches(row)
           THEN Store(write(row, "Disabled"), None) /\ CountDisabled(c, row.lid)
           ELSE UNCHANGED <<keys, disabled, covered>>
    /\ UNCHANGED refusals
DisableChild(c) ==
    /\ call[c].pc = "walk"
    /\ \E row \in call[c].rows :
        \/ /\ ~(row.record.state = "Enabled" /\ can_transition(row.record, "Disabled"))
           /\ call' = [call EXCEPT ![c].rows = @ \ {row}]
           /\ UNCHANGED <<keys, disabled, covered, refusals>>
        \/ /\ row.record.state = "Enabled" /\ can_transition(row.record, "Disabled")
           /\ occ_matches(row)
           /\ Store(write(row, "Disabled"), None)
           /\ CountDisabled(c, row.lid)
           /\ call' = [call EXCEPT ![c] =
                    [@ EXCEPT !.rows = @ \ {row}, !.queue = Append(@, row.lid)]]
           /\ UNCHANGED refusals
        \/ /\ row.record.state = "Enabled" /\ can_transition(row.record, "Disabled")
           /\ ~occ_matches(row)
           /\ Finish(c, "failed")
           /\ UNCHANGED <<keys, disabled, covered, refusals>>

(* A migration, creation or destruction journal refuses the write. *)
WriteRefused(c) ==
    /\ call[c].pc \in {"root", "walk"}
    /\ call[c].rows # {}
    /\ refusals < MaxRefusals
    /\ refusals' = refusals + 1
    /\ Finish(c, "failed")
    /\ UNCHANGED <<keys, disabled, covered>>

Return(c) ==
    /\ call[c].pc = "walk"
    /\ call[c].rows = {}
    /\ call[c].queue = <<>>
    /\ Finish(c, "ok")
    /\ UNCHANGED <<keys, disabled, covered, refusals>>

-----------------------------------------------------------------------------
(* Other requests *)

(* EnableKey, ReportKeyCompromise and an edit, read and written without     *)
(* interruption: update_key would refuse them otherwise.                    *)
OtherUpdate(l) ==
    /\ keys[l] # None
    /\ keys[l].occ_version < MaxOcc
    /\ \/ \E target \in {"Enabled", "Compromised"} :
            /\ can_transition(keys[l], target)
            /\ Store([keys EXCEPT ![l] = transition_to(@, target)], None)
       \/ Store([keys EXCEPT ![l] = edit_metadata(@)], None)
    /\ UNCHANGED <<call, disabled, refusals>>

(* A child is published only beneath a parent that is enabled. *)
PublishChild(l) ==
    /\ keys[l] = None
    /\ Parent[l] # None
    /\ keys[Parent[l]] # None
    /\ keys[Parent[l]].state = "Enabled"
    /\ Store([keys EXCEPT ![l] = stored(l)], None)
    /\ UNCHANGED <<call, disabled, refusals>>

CallStep(c) ==
    \/ WriteRoot(c) \/ ListChildren(c) \/ DisableChild(c) \/ WriteRefused(c) \/ Return(c)

Next ==
    \/ \E c \in Caller : CallStep(c)
    \/ \E c \in Caller, l \in Lid : ReadRoot(c, l)
    \/ \E l \in Lid : OtherUpdate(l) \/ PublishChild(l)

Spec == Init /\ [][Next]_vars

(* The runtime polls a request until it returns. *)
FairSpec == Spec /\ \A c \in Caller : WF_vars(CallStep(c))

-----------------------------------------------------------------------------
(* Properties *)

(* When a call returns Ok, every child of a key it disabled has itself been *)
(* disabled, or was not enabled, at some moment after the root was          *)
(* disabled, whatever was enabled, edited or published meanwhile.  The walk *)
(* goes no further beneath a child it did not disable itself.               *)
CascadeReaches ==
    \A c \in Caller : call[c].pc = "ok" =>
        \A l \in Lid : Parent[l] \in disabled[c] => l \in covered[c]

(* The walk ends, although keys it has disabled are enabled again and new   *)
(* children appear while it runs (the while loop of disable_key).           *)
CascadeReturns ==
    \A c \in Caller : call[c].pc = "walk" ~> call[c].pc \in {"ok", "failed"}

=============================================================================
