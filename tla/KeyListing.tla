----------------------------- MODULE KeyListing -----------------------------
(***************************************************************************)
(* list_keys of the SQL backends, and the deletion reaper (workers.rs),    *)
(* which relies on what it lists.                                          *)
(*                                                                         *)
(* list_keys reads PageLimit rows of the table, in the order they were     *)
(* inserted, filters those, and returns no cursor.  No operation deletes a *)
(* row.  Destroying one key is a single step here: KeyService has the      *)
(* claim, the provider calls and the completion one by one, for a table    *)
(* that fits in a page.                                                    *)
(***************************************************************************)
EXTENDS Integers, Sequences

CONSTANTS
    Lid,
    None,
    PageLimit,   \* the limit of list_keys, 100 where a caller gives none
    MaxOcc       \* bound on the writes to one key

ASSUME ListingAssumption == PageLimit \in Nat \ {0} /\ MaxOcc \in Nat \ {0}

VARIABLES
    table,    \* the rows of the keys table, in insertion order
    key,      \* of each row its OCC version and its state: Active, Pending,
              \* Due (pending, and its date has passed) or Destroyed
    page      \* rows of its page the scan has still to visit

vars == <<table, key, page>>

Init ==
    /\ table = <<>>
    /\ key = [l \in Lid |-> None]
    /\ page = <<>>

first_rows == SubSeq(table, 1, IF Len(table) < PageLimit THEN Len(table) ELSE PageLimit)

(* The limit is applied first, the state filter to what is left. *)
list_keys(states) == SelectSeq(first_rows, LAMBDA l : key[l].state \in states)

write(l, state) == key' = [key EXCEPT ![l] = [state |-> state, occ |-> @.occ + 1]]

CreateKey(l) ==
    /\ key[l] = None
    /\ table' = Append(table, l)
    /\ key' = [key EXCEPT ![l] = [state |-> "Active", occ |-> 1]]
    /\ UNCHANGED page

ScheduleDestruction(l) ==
    /\ key[l] # None /\ key[l].state = "Active" /\ key[l].occ < MaxOcc - 1
    /\ write(l, "Pending")
    /\ UNCHANGED <<table, page>>

(* Cancellation is possible, date passed or not, until the key is claimed. *)
CancelDestruction(l) ==
    /\ key[l] # None /\ key[l].state \in {"Pending", "Due"} /\ key[l].occ < MaxOcc - 1
    /\ write(l, "Active")
    /\ UNCHANGED <<table, page>>

(* The clock passes scheduled_deletion_at; nothing is written. *)
DatePasses(l) ==
    /\ key[l] # None /\ key[l].state = "Pending"
    /\ key' = [key EXCEPT ![l].state = "Due"]
    /\ UNCHANGED <<table, page>>

(* run_deletion_scan_at: one page of keys pending deletion. *)
Scan ==
    LET found == list_keys({"Pending", "Due"}) IN
    /\ page = <<>>
    /\ found # <<>>
    /\ page' = [n \in DOMAIN found |->
            [lid |-> found[n], state |-> key[found[n]].state, occ |-> key[found[n]].occ]]
    /\ UNCHANGED <<table, key>>

(* A row that was not yet due is passed over; the claim of one that was is  *)
(* refused when the key has been written since.                             *)
ClaimsByName(row) == row.state = "Due" /\ key[row.lid].state # "Destroyed"
claimable(row) ==
    /\ row.state = "Due"
    /\ key[row.lid].occ = row.occ

Reap ==
    /\ page # <<>>
    /\ page' = Tail(page)
    /\ IF claimable(Head(page)) THEN write(Head(page).lid, "Destroyed") ELSE UNCHANGED key
    /\ UNCHANGED table

Next ==
    \/ \E l \in Lid :
        CreateKey(l) \/ ScheduleDestruction(l) \/ CancelDestruction(l) \/ DatePasses(l)
    \/ Scan
    \/ Reap

Spec == Init /\ [][Next]_vars

(* deletion_worker scans every minute. *)
FairSpec == Spec /\ WF_vars(Scan) /\ WF_vars(Reap)

-----------------------------------------------------------------------------
(* Properties *)

(* A scan working through a page read earlier destroys only keys that are   *)
(* due when it destroys them: a key cancelled and scheduled anew since is   *)
(* spared until its new date (run_deletion_scan_at, claim_destruction).     *)
DestroysOnlyDue ==
    [][\A l \in Lid : key[l] # None /\ key'[l].state = "Destroyed" =>
        key[l].state \in {"Due", "Destroyed"}]_vars

(* A key whose date has passed is destroyed unless its deletion is          *)
(* cancelled (deletion_worker).                                             *)
DueKeysDestroyed ==
    \A l \in Lid :
        key[l] # None /\ key[l].state = "Due" ~> key[l] # None /\ key[l].state # "Due"

=============================================================================
