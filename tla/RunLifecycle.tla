---------------------------- MODULE RunLifecycle ----------------------------
(***************************************************************************)
(* What the status of an agent run may do: the promise of the "agentRun"   *)
(* table that AgentRuns is shown to keep.  An ended run stays as it ended, *)
(* and only a person's answer or a stop takes a waiting run on.            *)
(***************************************************************************)
CONSTANT Runs

VARIABLE status   \* status[r], "absent" while there is no row

Ended  == {"SUCCEEDED", "FAILED", "CANCELLED"}
Active == {"RUNNING", "WAITING_FOR_APPROVAL"}

\* A run is delivered, taken back, put before a person, resumed, and ends.
Moves ==
    {<<"absent", "QUEUED">>, <<"QUEUED", "RUNNING">>, <<"RUNNING", "QUEUED">>,
     <<"RUNNING", "WAITING_FOR_APPROVAL">>, <<"WAITING_FOR_APPROVAL", "RUNNING">>,
     <<"RUNNING", "SUCCEEDED">>}
    \cup ({"QUEUED", "RUNNING", "WAITING_FOR_APPROVAL"} \X {"FAILED", "CANCELLED"})

Init == status = [r \in Runs |-> "absent"]

Next == \A r \in Runs : status'[r] = status[r] \/ <<status[r], status'[r]>> \in Moves

Spec == Init /\ [][Next]_status
=============================================================================
