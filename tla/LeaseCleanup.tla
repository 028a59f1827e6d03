---------------------------- MODULE LeaseCleanup ----------------------------
(***************************************************************************)
(* The owner of wrapped-key use leases (keyrack-service lease.rs) and its  *)
(* shutdown drain (shutdown.rs).  A use reserves a slot, opens a lease at  *)
(* the provider, runs its operation and closes the lease.  A request can   *)
(* be cancelled at every await; the owner then takes the close over.       *)
(*                                                                         *)
(* One use is one request.  The guard of a use is held by its request, by  *)
(* the open task until the request receives it, or by nobody once the      *)
(* close is in the pending map, so one program counter follows it.  The    *)
(* deadline of the drain is not a clock: the drain may stop waiting at any *)
(* time.  A provider answers a call or leaves it hanging.                  *)
(***************************************************************************)
EXTENDS Integers, FiniteSets

CONSTANTS
    Use,     \* requests that use a wrapped key
    Limit,   \* wrapped_lease_cleanup_limit
    None

ASSUME LimitAssumption == Limit \in Nat \ {0} /\ None \notin {"ok", "err"}

VARIABLES
    pc,         \* where the use, or the cleanup it became, is
    gone,       \* uses cancelled while their open was running
    slots,      \* uses that hold a slot: occupied is their number
    lease,      \* the lease at the provider
    calls,      \* close calls the provider has not answered
    in_flight,  \* a close is running or answered, and its task is held
    answer,     \* the answer of that close
    pending,    \* the map of closes handed over
    records,    \* cleanup outcomes recorded for each use
    stopped,    \* the owner has stopped
    drain       \* progress of the shutdown drain

vars == <<pc, gone, slots, lease, calls, in_flight, answer, pending, records,
          stopped, drain>>
provider == <<lease, calls>>
close == <<in_flight, answer>>
owner == <<stopped, drain>>

Pc == {"idle", "reserved", "opening", "using", "closing", "detaching", "first", "retry",
       "settle", "done"}
CleanupOutcome == {"Scheduled", "ClosedAfterReturn", "CloseFailed", "Abandoned"}

TypeOK ==
    /\ pc \in [Use -> Pc]
    /\ gone \subseteq {u \in Use : pc[u] = "opening"}
    /\ slots \subseteq Use
    /\ lease \in [Use -> {"none", "open", "closed"}]
    /\ calls \in [Use -> Nat]
    /\ in_flight \in [Use -> BOOLEAN]
    /\ answer \in [Use -> {"ok", "err", None}]
    /\ \A u \in Use : answer[u] # None => in_flight[u]
    /\ pending \subseteq Use
    /\ records \in [Use -> [CleanupOutcome -> Nat]]
    /\ stopped \in BOOLEAN
    /\ drain \in {"off", "waiting", "taking", "done"}

Init ==
    /\ pc = [u \in Use |-> "idle"]
    /\ gone = {}
    /\ slots = {}
    /\ lease = [u \in Use |-> "none"]
    /\ calls = [u \in Use |-> 0]
    /\ in_flight = [u \in Use |-> FALSE]
    /\ answer = [u \in Use |-> None]
    /\ pending = {}
    /\ records = [u \in Use |-> [o \in CleanupOutcome |-> 0]]
    /\ stopped = FALSE
    /\ drain = "off"

Goto(u, label) == pc' = [pc EXCEPT ![u] = label]
record(u, outcome) == records' = [records EXCEPT ![u][outcome] = @ + 1]

-----------------------------------------------------------------------------
(* open *)

(* One atomic check and count; at the limit the request is refused. *)
AdmitsPastLimit(u) ==
    /\ pc[u] = "idle"
    /\ slots' = slots \cup {u}
    /\ Goto(u, "reserved")
    /\ UNCHANGED <<gone, provider, close, pending, records, owner>>
Reserve(u) ==
    /\ pc[u] = "idle"
    /\ IF Cardinality(slots) < Limit
       THEN slots' = slots \cup {u} /\ Goto(u, "reserved")
       ELSE Goto(u, "done") /\ UNCHANGED slots
    /\ UNCHANGED <<gone, provider, close, pending, records, owner>>

(* The open runs on the owner, or is refused once the owner has stopped. *)
SpawnOpen(u) ==
    /\ pc[u] = "reserved"
    /\ IF stopped
       THEN Goto(u, "done") /\ slots' = slots \ {u}
       ELSE Goto(u, "opening") /\ UNCHANGED slots
    /\ UNCHANGED <<gone, provider, close, pending, records, owner>>

(* The provider answers the open.  A guard nobody receives is dropped. *)
Opened(u) ==
    /\ pc[u] = "opening"
    /\ gone' = gone \ {u}
    /\ \/ /\ lease' = [lease EXCEPT ![u] = "open"]
          /\ Goto(u, IF u \in gone THEN "detaching" ELSE "using")
          /\ pending' = IF u \in gone THEN pending \cup {u} ELSE pending
          /\ UNCHANGED slots
       \/ /\ Goto(u, "done")
          /\ slots' = slots \ {u}
          /\ UNCHANGED <<lease, pending>>
    /\ UNCHANGED <<calls, close, records, owner>>

-----------------------------------------------------------------------------
(* LeaseGuard::close and Drop *)

(* The close task starts and its handle is kept. *)
StartClose(u) ==
    /\ calls' = [calls EXCEPT ![u] = @ + 1]
    /\ in_flight' = [in_flight EXCEPT ![u] = TRUE]
    /\ answer' = [answer EXCEPT ![u] = None]
    /\ UNCHANGED lease

ForgetClose(u) ==
    /\ in_flight' = [in_flight EXCEPT ![u] = FALSE]
    /\ answer' = [answer EXCEPT ![u] = None]

(* detach, up to the insertion into the pending map. *)
HandOver(u) == pending' = pending \cup {u} /\ Goto(u, "detaching")

Close(u) ==
    /\ pc[u] = "using"
    /\ IF stopped
       THEN HandOver(u) /\ UNCHANGED <<provider, close>>
       ELSE StartClose(u) /\ Goto(u, "closing") /\ UNCHANGED pending
    /\ UNCHANGED <<gone, slots, records, owner>>

Closed(u) ==
    /\ pc[u] = "closing"
    /\ answer[u] # None
    /\ ForgetClose(u)
    /\ IF answer[u] = "ok"
       THEN Goto(u, "done") /\ slots' = slots \ {u} /\ UNCHANGED pending
       ELSE HandOver(u) /\ UNCHANGED slots
    /\ UNCHANGED <<gone, provider, records, owner>>

(* The request is dropped.  A close that is running stays in flight. *)
MarksAllGone(u) ==
    /\ pc[u] \in {"opening", "using", "closing"}
    /\ gone' = gone \cup {u}
    /\ IF pc[u] = "opening" THEN UNCHANGED <<pc, pending>> ELSE HandOver(u)
    /\ UNCHANGED <<slots, provider, close, records, owner>>
LosesRunningClose(u) ==
    /\ \/ pc[u] = "opening" /\ gone' = gone \cup {u} /\ UNCHANGED <<pc, pending, close>>
       \/ pc[u] \in {"using", "closing"} /\ HandOver(u) /\ ForgetClose(u) /\ UNCHANGED gone
    /\ UNCHANGED <<slots, provider, records, owner>>
Cancel(u) ==
    /\ \/ pc[u] = "opening" /\ gone' = gone \cup {u} /\ UNCHANGED <<pc, pending>>
       \/ pc[u] \in {"using", "closing"} /\ HandOver(u) /\ UNCHANGED gone
    /\ UNCHANGED <<slots, provider, close, records, owner>>

(* A close call has an effect and is answered.  A failed one may have       *)
(* closed the lease.                                                        *)
ProviderAnswers(u) ==
    /\ calls[u] > 0
    /\ calls' = [calls EXCEPT ![u] = @ - 1]
    /\ \E a \in {"ok", "err"}, l \in {lease[u], "closed"} :
        /\ a = "ok" => l = "closed"
        /\ lease' = [lease EXCEPT ![u] = l]
        /\ answer' = [answer EXCEPT ![u] = IF in_flight[u] THEN a ELSE @]
    /\ UNCHANGED <<pc, gone, slots, in_flight, pending, records, owner>>

-----------------------------------------------------------------------------
(* detach after the insertion, and the cleanup task *)

(* take_pending: the entry and its slot go together. *)
TakePending(u) == pending' = pending \ {u} /\ slots' = slots \ {u}

AssumesItsOwn(u) ==
    /\ pc[u] = "detaching"
    /\ IF stopped
       THEN Goto(u, "done") /\ TakePending(u) /\ record(u, "Abandoned")
       ELSE Goto(u, "first") /\ record(u, "Scheduled") /\ UNCHANGED <<pending, slots>>
    /\ UNCHANGED <<gone, provider, close, owner>>
SpawnCleanup(u) ==
    /\ pc[u] = "detaching"
    /\ IF stopped
       THEN /\ Goto(u, "done")
            /\ TakePending(u)
            /\ IF u \in pending THEN record(u, "Abandoned") ELSE UNCHANGED records
       ELSE /\ Goto(u, "first")
            /\ record(u, "Scheduled")
            /\ UNCHANGED <<pending, slots>>
    /\ UNCHANGED <<gone, provider, close, owner>>

(* attempt_close: once the owner has stopped, no attempt starts. *)
AttemptClose(u) ==
    /\ pc[u] \in {"first", "retry"}
    /\ ~in_flight[u]
    /\ IF stopped
       THEN /\ in_flight' = [in_flight EXCEPT ![u] = TRUE]
            /\ answer' = [answer EXCEPT ![u] = "err"]
            /\ UNCHANGED provider
       ELSE StartClose(u)
    /\ UNCHANGED <<pc, gone, slots, pending, records, owner>>

(* The first failure is followed by one retry. *)
CleanupAnswered(u) ==
    /\ pc[u] \in {"first", "retry"}
    /\ answer[u] # None
    /\ IF pc[u] = "first" /\ answer[u] = "err"
       THEN Goto(u, "retry") /\ ForgetClose(u)
       ELSE Goto(u, "settle") /\ UNCHANGED close
    /\ UNCHANGED <<gone, slots, provider, pending, records, owner>>

(* An entry the drain took is abandoned already: that record stands. *)
Settle(u) ==
    /\ pc[u] = "settle"
    /\ Goto(u, "done")
    /\ TakePending(u)
    /\ IF u \in pending
       THEN record(u, IF answer[u] = "ok" THEN "ClosedAfterReturn" ELSE "CloseFailed")
       ELSE UNCHANGED records
    /\ UNCHANGED <<gone, provider, close, owner>>

-----------------------------------------------------------------------------
(* drain *)

BeginDrain ==
    /\ drain = "off"
    /\ drain' = "waiting"
    /\ UNCHANGED <<pc, gone, slots, provider, close, pending, records, stopped>>

(* The tracker is empty, or the deadline has passed. *)
StopOwner ==
    /\ drain = "waiting"
    /\ drain' = "taking"
    /\ stopped' = TRUE
    /\ UNCHANGED <<pc, gone, slots, provider, close, pending, records>>

KeepsScheduled ==
    /\ drain = "taking"
    /\ drain' = "done"
    /\ LET taken == {u \in pending : pc[u] = "detaching"} IN
        /\ pending' = pending \ taken
        /\ slots' = slots \ taken
        /\ records' = [u \in Use |->
                IF u \in taken THEN [records[u] EXCEPT !["Abandoned"] = @ + 1] ELSE records[u]]
    /\ UNCHANGED <<pc, gone, provider, close, stopped>>
AbandonPending ==
    /\ drain = "taking"
    /\ drain' = "done"
    /\ pending' = {}
    /\ slots' = slots \ pending
    /\ records' = [u \in Use |->
            IF u \in pending THEN [records[u] EXCEPT !["Abandoned"] = @ + 1] ELSE records[u]]
    /\ UNCHANGED <<pc, gone, provider, close, stopped>>

-----------------------------------------------------------------------------

Request(u) == Reserve(u) \/ SpawnOpen(u) \/ Close(u) \/ Closed(u)
Cleanup(u) == SpawnCleanup(u) \/ AttemptClose(u) \/ CleanupAnswered(u) \/ Settle(u)
Provider(u) == Opened(u) \/ ProviderAnswers(u)
Drain == StopOwner \/ AbandonPending

Next ==
    \/ \E u \in Use : Request(u) \/ Cleanup(u) \/ Provider(u) \/ Cancel(u)
    \/ BeginDrain
    \/ Drain

Spec == Init /\ [][Next]_vars

-----------------------------------------------------------------------------
(* Properties *)

finals(u) == records[u]["ClosedAfterReturn"] + records[u]["CloseFailed"] + records[u]["Abandoned"]

(* lease.rs admits at most `limit` uses from before the open until the      *)
(* close is answered or recorded: opens that run, leases that are open and  *)
(* closes that hang never exceed the limit together, cancelled or not,      *)
(* leaving out what the drain has recorded as abandoned.                    *)
ProviderBurdenBounded ==
    Cardinality({u \in Use : finals(u) = 0 /\
        (pc[u] = "opening" \/ lease[u] = "open" \/ calls[u] > 0)}) <= Limit

(* A lease that was opened is never forgotten: when its use is over it is   *)
(* closed, or exactly one of CloseFailed and Abandoned says that it may not *)
(* be.  A cleanup has one final outcome although settle, detach and drain   *)
(* all try to record it, and ClosedAfterReturn is never untrue.             *)
LeasesAccounted ==
    \A u \in Use :
        /\ finals(u) <= 1
        /\ u \in pending => finals(u) = 0
        /\ records[u]["ClosedAfterReturn"] = 1 => lease[u] = "closed"
        /\ pc[u] = "done" /\ lease[u] = "open" => finals(u) = 1

(* The provider never has two closes of one lease at once: a cleanup that   *)
(* takes over from a request watches the close that is running (detach).    *)
ClosesSerial == \A u \in Use : calls[u] <= 1

(* When the drain is over every close handed over before has its final      *)
(* outcome, even if the provider never answers: what is pending then was    *)
(* handed over since, and its own detach finds the owner stopped and        *)
(* records it (drain, and detach inserting before it looks at `stopped`).   *)
DrainRecordsAll ==
    drain = "done" => \A u \in pending : pc[u] = "detaching"

=============================================================================
