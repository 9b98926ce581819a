----------------------------- MODULE RunLifecycle -----------------------------
(***************************************************************************)
(* What the runs table promises to a reader of its status column, in six   *)
(* kinds of step: at most one run is active, a run becomes 'done' only     *)
(* while it is running, an ended run never comes back to life, only an     *)
(* ended run is deleted.  The one step an operator would not expect is     *)
(* Demote: a run that was 'done' may still be reported as failed.          *)
(***************************************************************************)
CONSTANTS Runs
VARIABLES status

Active   == {"running", "paused"}
Terminal == {"done", "failed", "cancelled"}

TypeOK == status \in [Runs -> Active \cup Terminal \cup {"absent"}]

Init == status = [r \in Runs |-> "absent"]

Become(r, s) == status' = [status EXCEPT ![r] = s]

Create(r) ==
  /\ status[r] = "absent"
  /\ \A o \in Runs : status[o] \notin Active
  /\ Become(r, "running")

Pause(r)  == status[r] = "running" /\ Become(r, "paused")
Resume(r) == status[r] = "paused"  /\ Become(r, "running")

End(r, outcome) ==
  /\ status[r] \in Active
  /\ outcome = "done" => status[r] = "running"
  /\ Become(r, outcome)

Demote(r) == status[r] = "done" /\ Become(r, "failed")
Delete(r) == status[r] \in Terminal /\ Become(r, "absent")

Next ==
  \E r \in Runs :
    \/ Create(r) \/ Pause(r) \/ Resume(r) \/ Demote(r) \/ Delete(r)
    \/ \E outcome \in Terminal : End(r, outcome)

Spec == Init /\ [][Next]_status
=============================================================================
