--------------------------- MODULE ExecutionLife ---------------------------
(***************************************************************************)
(* What the script subsystem promises about an execution, whoever asked    *)
(* for it (an API call, an API call that waits, the scheduler): it is      *)
(* either refused or accepted, an accepted one is run exactly once and     *)
(* comes to an end, and only the end of the process can take it away.  Its *)
(* row says so: pending when it is asked for, running only once it began,  *)
(* ended only once it ended, and never one of the earlier again.           *)
(* Scripts.tla implements this specification.                              *)
(***************************************************************************)
CONSTANT ExecIds

VARIABLES
    life,   \* how far each execution is
    row     \* the status in its row, "absent" without one

LifeInit == /\ life = [e \in ExecIds |-> "new"]
            /\ row = [e \in ExecIds |-> "absent"]

Move(e, from, to) == /\ life[e] = from
                     /\ life' = [life EXCEPT ![e] = to]

\* The status of a row that shows one of the earlier ones.
Write(e, earlier, status) == /\ row[e] \in earlier
                             /\ row' = [row EXCEPT ![e] = status]

Submit(e) == Move(e, "new", "submitted") /\ Write(e, {"absent"}, "pending")
\* A caller that runs the script itself needs nobody's permission.
RunDirectly(e) == Move(e, "new", "accepted") /\ Write(e, {"absent"}, "pending")
Accept(e) == Move(e, "submitted", "accepted") /\ UNCHANGED row
Refuse(e) == Move(e, "submitted", "refused") /\ UNCHANGED row
\* The status may fail to be written, and the row may be gone.
Begin(e) == /\ Move(e, "accepted", "running")
            /\ Write(e, {"pending"}, "running") \/ UNCHANGED row
Finish(e) == Move(e, "running", "finished") /\ UNCHANGED row
Record(e) == /\ life[e] = "finished"
             /\ Write(e, {"pending", "running"}, "ended")
             /\ UNCHANGED life

\* Rows go with their script, whatever their executions do.
Remove(S) == /\ row' = [e \in ExecIds |-> IF e \in S THEN "absent" ELSE row[e]]
             /\ UNCHANGED life

\* The process ends: what had not finished never will.
ProcessEnds ==
  /\ life' = [e \in ExecIds |-> IF life[e] \in {"submitted", "accepted", "running"}
                                THEN "lost" ELSE life[e]]
  /\ UNCHANGED row

LifeNext ==
  /\ <<life, row>>' # <<life, row>>
  /\ \/ \E e \in ExecIds : \/ Submit(e) \/ RunDirectly(e) \/ Accept(e) \/ Refuse(e)
                           \/ Begin(e) \/ Finish(e) \/ Record(e)
     \/ \E S \in SUBSET ExecIds : Remove(S)
     \/ ProcessEnds

LifeSpec == LifeInit /\ [][LifeNext]_<<life, row>>

\* An accepted execution ends.
AcceptedEnds == \A e \in ExecIds :
                  (life[e] = "accepted") ~> (life[e] \in {"finished", "lost"})
============================================================================
