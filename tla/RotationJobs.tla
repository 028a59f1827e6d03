---------------------------- MODULE RotationJobs ----------------------------
(***************************************************************************)
(* Cooperative rotation jobs (rotation.rs): the job table, the consumers   *)
(* that acknowledge, complete and fail jobs (domain.rs), and the worker    *)
(* that expires them (workers.rs).                                         *)
(*                                                                         *)
(* Every handler reads a job, changes its copy and writes the copy back;   *)
(* update_rotation_job checks no version, so the last write wins.          *)
(***************************************************************************)
EXTENDS Integers, FiniteSets

CONSTANTS
    JobId,      \* job identities
    Consumer,   \* calls of consuming services
    Worker,     \* expiry workers, one per process
    None,
    Expiry,     \* DEFAULT_EXPIRY_SECS
    MaxTime     \* bound on the clock; no job's deadline lies beyond it

ASSUME JobsAssumption == Expiry \in Nat /\ MaxTime \in Nat

VARIABLES
    jobs,    \* the rotation_jobs table
    call,    \* the copy a consumer's call is about to write
    scan,    \* the pass a worker is on and the copies it still has to expire
    now

vars == <<jobs, call, scan, now>>

RotationJobState == {"Pending", "Acknowledged", "Completed", "Failed", "Expired"}

Job == [state : RotationJobState, expires_at : Nat, acknowledged : BOOLEAN]

Copy == [id : JobId, job : Job]

TypeOK ==
    /\ jobs \in [JobId -> Job \cup {None}]
    /\ call \in [Consumer -> Copy \cup {None}]
    /\ scan \in [Worker -> [pass : {"Pending", "Acknowledged"}, at : Nat, page : SUBSET Copy]
                            \cup {None}]
    /\ now \in 0..MaxTime

Init ==
    /\ jobs = [j \in JobId |-> None]
    /\ call = [c \in Consumer |-> None]
    /\ scan = [w \in Worker |-> None]
    /\ now = 0

valid_transitions ==
    [Pending      |-> {"Acknowledged", "Expired"},
     Acknowledged |-> {"Completed", "Failed", "Expired"},
     Completed    |-> {},
     Failed       |-> {},
     Expired      |-> {}]

is_terminal(job) == job.state \in {"Completed", "Failed", "Expired"}

transition_to(job, target) ==
    [job EXCEPT !.state = target, !.acknowledged = @ \/ target = "Acknowledged"]

SkipsAcknowledge(job) == {"Acknowledged", "Completed", "Failed"}
consumer_targets(job) ==
    {"Acknowledged", "Completed", "Failed"} \cap valid_transitions[job.state]

-----------------------------------------------------------------------------

CreateJob(j) ==
    /\ jobs[j] = None
    /\ now + Expiry <= MaxTime
    /\ jobs' = [jobs EXCEPT ![j] =
            [state |-> "Pending", expires_at |-> now + Expiry, acknowledged |-> FALSE]]
    /\ UNCHANGED <<call, scan, now>>

(* acknowledge, complete and fail: get_rotation_job and transition_to ... *)
ReadJob(c, j) ==
    /\ call[c] = None
    /\ jobs[j] # None
    /\ \E target \in consumer_targets(jobs[j]) :
        call' = [call EXCEPT ![c] = [id |-> j, job |-> transition_to(jobs[j], target)]]
    /\ UNCHANGED <<jobs, scan, now>>

(* ... then update_rotation_job. *)
WriteJob(c) ==
    /\ call[c] # None
    /\ jobs' = [jobs EXCEPT ![call[c].id] = call[c].job]
    /\ call' = [call EXCEPT ![c] = None]
    /\ UNCHANGED <<scan, now>>

(* The call ends without a write: an error, or the process stopped. *)
DropCall(c) ==
    /\ call[c] # None
    /\ call' = [call EXCEPT ![c] = None]
    /\ UNCHANGED <<jobs, scan, now>>

(* list_rotation_jobs in one state, as of the time the scan started. *)
due(pass, at) ==
    {[id |-> j, job |-> jobs[j]] :
        j \in {k \in JobId : jobs[k] # None /\ jobs[k].state = pass
                             /\ jobs[k].expires_at <= at}}

StartScan(w) ==
    /\ scan[w] = None
    /\ scan' = [scan EXCEPT ![w] = [pass |-> "Pending", at |-> now, page |-> due("Pending", now)]]
    /\ UNCHANGED <<jobs, call, now>>

ExpireJob(w, copy) ==
    /\ scan[w] # None
    /\ copy \in scan[w].page
    /\ scan' = [scan EXCEPT ![w].page = @ \ {copy}]
    /\ jobs' = [jobs EXCEPT ![copy.id] = transition_to(copy.job, "Expired")]
    /\ UNCHANGED <<call, now>>

(* An expiry that fails to be written is left to a later scan. *)
ExpireFails(w, copy) ==
    /\ scan[w] # None
    /\ copy \in scan[w].page
    /\ scan' = [scan EXCEPT ![w].page = @ \ {copy}]
    /\ UNCHANGED <<jobs, call, now>>

ForgetsAcknowledged(w) ==
    /\ scan[w] # None /\ scan[w].page = {}
    /\ scan' = [scan EXCEPT ![w] = None]
    /\ UNCHANGED <<jobs, call, now>>
ScansExpired(w) ==
    /\ scan[w] # None /\ scan[w].page = {}
    /\ scan' = [scan EXCEPT ![w] =
            IF scan[w].pass = "Pending"
            THEN [pass |-> "Expired", at |-> @.at, page |-> due("Expired", @.at)]
            ELSE None]
    /\ UNCHANGED <<jobs, call, now>>
NextPass(w) ==
    /\ scan[w] # None /\ scan[w].page = {}
    /\ scan' = [scan EXCEPT ![w] =
            IF scan[w].pass = "Pending"
            THEN [pass |-> "Acknowledged", at |-> @.at, page |-> due("Acknowledged", @.at)]
            ELSE None]
    /\ UNCHANGED <<jobs, call, now>>

(* A failed listing ends the scan, and so does a crash. *)
AbortScan(w) ==
    /\ scan[w] # None
    /\ scan' = [scan EXCEPT ![w] = None]
    /\ UNCHANGED <<jobs, call, now>>

Tick == now < MaxTime /\ now' = now + 1 /\ UNCHANGED <<jobs, call, scan>>

WorkerStep(w) ==
    \/ StartScan(w)
    \/ scan[w] # None /\ \E copy \in scan[w].page : ExpireJob(w, copy) \/ ExpireFails(w, copy)
    \/ NextPass(w)

Next ==
    \/ \E j \in JobId : CreateJob(j)
    \/ \E c \in Consumer, j \in JobId : ReadJob(c, j)
    \/ \E c \in Consumer : WriteJob(c) \/ DropCall(c)
    \/ \E w \in Worker : WorkerStep(w) \/ AbortScan(w)
    \/ Tick

Spec == Init /\ [][Next]_vars

(* The worker's loop runs, its scans and writes do not fail for ever, calls *)
(* return and time passes.                                                  *)
FairSpec ==
    /\ Spec
    /\ WF_vars(Tick)
    /\ \A c \in Consumer : WF_vars(WriteJob(c) \/ DropCall(c))
    /\ \A w \in Worker :
        /\ WF_vars(StartScan(w))
        /\ SF_vars(scan[w] # None /\ \E copy \in scan[w].page : ExpireJob(w, copy))
        /\ SF_vars(NextPass(w))

-----------------------------------------------------------------------------
(* Properties *)

(* Only an acknowledged job is ever completed or failed, and it is expired  *)
(* only when its deadline has passed, although every write may overwrite a  *)
(* newer one (valid_transitions, run_rotation_expiry_scan).                 *)
OutcomeEarned ==
    \A j \in JobId : jobs[j] # None =>
        /\ jobs[j].state \in {"Completed", "Failed"} => jobs[j].acknowledged
        /\ jobs[j].state = "Expired" => jobs[j].expires_at <= now

(* Every job reaches an outcome and keeps having one: an expired job that a *)
(* late acknowledgement revives is expired again.                           *)
JobsSettle ==
    \A j \in JobId : jobs[j] # None ~> [](jobs[j] # None /\ is_terminal(jobs[j]))

=============================================================================
