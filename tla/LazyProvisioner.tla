-------------------------- MODULE LazyProvisioner --------------------------
(***************************************************************************)
(* The lazy provisioner of keyrack-core (provisioner.rs): requests walk a  *)
(* chain of keys from the root, and concurrent requests for one key        *)
(* coalesce behind a leader through the inflight map.                      *)
(*                                                                         *)
(* A task is one resolve_and_provision call.  It can be cancelled at every *)
(* await; a leader's InflightGuard then removes its entry, but only if the *)
(* map's mutex is free (try_lock).  The entry holds the only sender of the *)
(* leader's channel, so the channel is closed when the entry is gone.      *)
(***************************************************************************)
EXTENDS Integers, Sequences, FiniteSets

CONSTANTS
    Lid,
    Chain,        \* the chains requests resolve to, root first
    Task,
    None,
    MaxCancels,   \* bound on cancelled requests
    MaxErrors     \* bound on provider and storage errors

ASSUME ChainAssumption ==
    /\ Chain # {}
    /\ \A c \in Chain : c \in Seq(Lid) /\ c # <<>>
    /\ MaxCancels \in Nat /\ MaxErrors \in Nat
    /\ None \notin Task

VARIABLES
    stored,      \* keys in storage
    material,    \* <<key, task>>: provider keys generated
    inflight,    \* key -> the leader whose sender the map holds
    mutex,       \* the task that holds the map's lock
    sent,        \* <<leader, key>> -> what the leader broadcast
    task,        \* the state of each request
    cancels,
    errors

vars == <<stored, material, inflight, mutex, sent, task, cancels, errors>>

Result == {"ok", "err"}
LeaderPc == {"recheck", "generate", "store", "relock"}
Pc == {"check", "lock", "locked", "wait", "notify", "done", "failed", "cancelled"} \cup LeaderPc

TypeOK ==
    /\ stored \subseteq Lid
    /\ material \subseteq Lid \X Task
    /\ inflight \in [Lid -> Task \cup {None}]
    /\ mutex \in Task \cup {None}
    /\ sent \in [Task \X Lid -> Result \cup {None}]
    /\ task \in [Task -> [chain : Chain, at : Nat \ {0}, pc : Pc,
                          leader : Task \cup {None}, result : Result \cup {None}]]
    /\ \A t \in Task : task[t].pc \in {"relock", "notify"} => task[t].result # None
    /\ cancels \in 0..MaxCancels
    /\ errors \in 0..MaxErrors

Init ==
    /\ stored = {}
    /\ material = {}
    /\ inflight = [l \in Lid |-> None]
    /\ mutex = None
    /\ sent = [c \in Task \X Lid |-> None]
    /\ task \in [Task -> [chain : Chain, at : {1}, pc : {"check"},
                          leader : {None}, result : {None}]]
    /\ cancels = 0
    /\ errors = 0

lid(t) == task[t].chain[task[t].at]

Goto(t, pc) == task' = [task EXCEPT ![t].pc = pc]

(* ensure_key returned Ok: the next key of the chain, or the result. *)
advance(t) ==
    task' = [task EXCEPT ![t] =
        IF @.at = Len(@.chain)
        THEN [@ EXCEPT !.pc = "done"]
        ELSE [@ EXCEPT !.pc = "check", !.at = @ + 1, !.leader = None, !.result = None]]

(* do_provision returned: the leader goes on to notify with its result. *)
DropsResult(t, result) == Goto(t, "relock")
provisioned(t, result) == task' = [task EXCEPT ![t].pc = "relock", ![t].result = result]

Error == errors < MaxErrors /\ errors' = errors + 1

-----------------------------------------------------------------------------
(* ensure_key *)

CheckKey(t) ==
    /\ task[t].pc = "check"
    /\ \/ lid(t) \in stored /\ advance(t) /\ UNCHANGED errors
       \/ lid(t) \notin stored /\ Goto(t, "lock") /\ UNCHANGED errors
       \/ Goto(t, "failed") /\ Error
    /\ UNCHANGED <<stored, material, inflight, mutex, sent, cancels>>

LockMap(t) ==
    /\ task[t].pc \in {"lock", "relock"}
    /\ mutex = None
    /\ mutex' = t
    /\ Goto(t, IF task[t].pc = "lock" THEN "locked" ELSE "notify")
    /\ UNCHANGED <<stored, material, inflight, sent, cancels, errors>>

(* Subscribe to the leader's channel, or become the leader. *)
AlwaysLeads(t) ==
    /\ task[t].pc = "locked"
    /\ mutex' = None
    /\ inflight' = [inflight EXCEPT ![lid(t)] = t]
    /\ Goto(t, "recheck")
    /\ UNCHANGED <<stored, material, sent, cancels, errors>>
JoinOrLead(t) ==
    /\ task[t].pc = "locked"
    /\ mutex' = None
    /\ IF inflight[lid(t)] # None
       THEN /\ task' = [task EXCEPT ![t].pc = "wait", ![t].leader = inflight[lid(t)]]
            /\ UNCHANGED inflight
       ELSE /\ inflight' = [inflight EXCEPT ![lid(t)] = t]
            /\ Goto(t, "recheck")
    /\ UNCHANGED <<stored, material, sent, cancels, errors>>

(* rx.recv: the broadcast, or an error once the sender is gone. *)
Receive(t) ==
    /\ task[t].pc = "wait"
    /\ LET answer == sent[<<task[t].leader, lid(t)>>] IN
        \/ answer = "ok" /\ advance(t)
        \/ answer = "err" /\ Goto(t, "failed")
        \/ /\ answer = None /\ inflight[lid(t)] # task[t].leader
           /\ Goto(t, "failed")
    /\ UNCHANGED <<stored, material, inflight, mutex, sent, cancels, errors>>

-----------------------------------------------------------------------------
(* The leader: do_provision, then notify *)

RecheckKey(t) ==
    /\ task[t].pc = "recheck"
    /\ \/ lid(t) \in stored /\ provisioned(t, "ok") /\ UNCHANGED errors
       \/ lid(t) \notin stored /\ Goto(t, "generate") /\ UNCHANGED errors
       \/ provisioned(t, "err") /\ Error
    /\ UNCHANGED <<stored, material, inflight, mutex, sent, cancels>>

GenerateKey(t) ==
    /\ task[t].pc = "generate"
    /\ \/ /\ material' = material \cup {<<lid(t), t>>}
          /\ Goto(t, "store")
          /\ UNCHANGED errors
       \/ provisioned(t, "err") /\ Error /\ UNCHANGED material
    /\ UNCHANGED <<stored, inflight, mutex, sent, cancels>>

(* create_key, and after a refusal the second get_key. *)
RefusalMeansExists(t) ==
    /\ task[t].pc = "store"
    /\ provisioned(t, "ok")
    /\ \/ stored' = stored \cup {lid(t)} /\ UNCHANGED errors
       \/ UNCHANGED stored /\ Error
    /\ UNCHANGED <<material, inflight, mutex, sent, cancels>>
StoreKey(t) ==
    /\ task[t].pc = "store"
    /\ \/ /\ stored' = stored \cup {lid(t)}
          /\ provisioned(t, "ok")
          /\ UNCHANGED errors
       \/ /\ lid(t) \notin stored
          /\ provisioned(t, "err")
          /\ Error
          /\ UNCHANGED stored
    /\ UNCHANGED <<material, inflight, mutex, sent, cancels>>

ForgetsToSend(t) ==
    /\ task[t].pc = "notify"
    /\ mutex' = None
    /\ IF task[t].result = "ok" THEN advance(t) ELSE Goto(t, "failed")
    /\ UNCHANGED <<stored, material, inflight, sent, cancels, errors>>
Notify(t) ==
    /\ task[t].pc = "notify"
    /\ mutex' = None
    /\ inflight' = [inflight EXCEPT ![lid(t)] = None]
    /\ sent' = [sent EXCEPT ![<<t, lid(t)>>] =
            IF inflight[lid(t)] # None THEN task[t].result ELSE @]
    /\ IF task[t].result = "ok" THEN advance(t) ELSE Goto(t, "failed")
    /\ UNCHANGED <<stored, material, cancels, errors>>

-----------------------------------------------------------------------------

(* The request is dropped at an await. *)
Cancel(t) ==
    /\ task[t].pc \in {"check", "lock", "wait"} \cup LeaderPc
    /\ cancels < MaxCancels
    /\ cancels' = cancels + 1
    /\ inflight' = IF task[t].pc \in LeaderPc /\ mutex = None
                   THEN [inflight EXCEPT ![lid(t)] = None]
                   ELSE inflight
    /\ Goto(t, "cancelled")
    /\ UNCHANGED <<stored, material, mutex, sent, errors>>

(* Another process provisions the same chain. *)
StoredElsewhere ==
    /\ \E c \in Chain : \E n \in DOMAIN c :
        /\ c[n] \notin stored
        /\ n > 1 => c[n - 1] \in stored
        /\ stored' = stored \cup {c[n]}
    /\ UNCHANGED <<material, inflight, mutex, sent, task, cancels, errors>>

TaskStep(t) ==
    \/ CheckKey(t) \/ LockMap(t) \/ JoinOrLead(t) \/ Receive(t)
    \/ RecheckKey(t) \/ GenerateKey(t) \/ StoreKey(t) \/ Notify(t)

Next ==
    \/ \E t \in Task : TaskStep(t) \/ Cancel(t)
    \/ StoredElsewhere

Spec == Init /\ [][Next]_vars

(* The runtime polls every request that is not cancelled. *)
FairSpec == Spec /\ \A t \in Task : WF_vars(TaskStep(t))

-----------------------------------------------------------------------------
(* Properties *)

(* Single flight: one task at a time generates and stores a key, whatever   *)
(* cancellations do to the inflight map, and a cancelled leader takes away  *)
(* no other leader's entry; material is generated once, plus once for each  *)
(* leader that was cancelled or failed (ensure_key, InflightGuard).         *)
SingleFlight ==
    /\ \A t, u \in Task :
        t # u /\ task[t].pc \in LeaderPc /\ task[u].pc \in LeaderPc => lid(t) # lid(u)
    /\ \A t \in Task : task[t].pc \in LeaderPc \cup {"notify"} => inflight[lid(t)] = t
    /\ \A l \in Lid :
        Cardinality({t \in Task : <<l, t>> \in material}) <= 1 + cancels + errors

(* A key is stored only after the key above it (resolve_and_provision walks *)
(* the chain root first), and a request that returns Ok has its whole chain.*)
ParentsFirst ==
    /\ \A c \in Chain : \A n \in 2..Len(c) : c[n] \in stored => c[n - 1] \in stored
    /\ \A t \in Task : task[t].pc = "done" =>
        \A n \in DOMAIN task[t].chain : task[t].chain[n] \in stored

Returned(t) == task[t].pc \in {"done", "failed", "cancelled"}

(* provisioner.rs: all other waiters receive the result once the first      *)
(* completes.  Every request that is not cancelled returns.                 *)
RequestsReturn == \A t \in Task : <>Returned(t)

(* An entry whose leader was cancelled while another task held the lock. *)
Abandoned == \E l \in Lid : inflight[l] # None /\ task[inflight[l]].pc = "cancelled"

(* Nothing but an abandoned entry keeps a request from returning: errors,   *)
(* cancelled waiters and leaders that cleaned up do not (ensure_key,        *)
(* provision_as_leader, InflightGuard).                                     *)
ReturnsUnlessAbandoned == \A t \in Task : <>(Returned(t) \/ Abandoned)

=============================================================================
