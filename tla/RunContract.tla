---------------------------- MODULE RunContract ----------------------------
(***************************************************************************)
(* What a client that polls a run may rely on: the abstract specification  *)
(* of the durable run record behind POST /v1/fetches, GET /v1/runs/{id}    *)
(* and FetechClient.                                                       *)
(*                                                                         *)
(* A run is queued, may start, and finishes once with a result.  A         *)
(* finished run never becomes unfinished again.  Its result is final, with *)
(* one exception the code makes: a cancellation that arrives while the     *)
(* result is being stored replaces it by a cancelled one.                  *)
(***************************************************************************)
CONSTANTS Runs, NoResult, Results

VARIABLES runState, result

contract == <<runState, result>>

Init ==
    /\ runState = [r \in Runs |-> "absent"]
    /\ result = [r \in Runs |-> NoResult]

Queue(r) ==
    /\ runState[r] = "absent"
    /\ runState' = [runState EXCEPT ![r] = "QUEUED"]
    /\ UNCHANGED result

Start(r) ==
    /\ runState[r] = "QUEUED"
    /\ runState' = [runState EXCEPT ![r] = "RUNNING"]
    /\ UNCHANGED result

Finish(r, outcome) ==
    /\ runState[r] \in {"QUEUED", "RUNNING"}
    /\ runState' = [runState EXCEPT ![r] = "FINISHED"]
    /\ result' = [result EXCEPT ![r] = outcome]

Retract(r) ==
    /\ runState[r] = "FINISHED"
    /\ result[r] = "executed"
    /\ result' = [result EXCEPT ![r] = "run_cancelled"]
    /\ UNCHANGED runState

Next ==
    \E r \in Runs :
        \/ Queue(r)
        \/ Start(r)
        \/ \E outcome \in Results : Finish(r, outcome)
        \/ Retract(r)

Spec == Init /\ [][Next]_contract
============================================================================
