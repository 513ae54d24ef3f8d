-------------------------- MODULE AdmitTaskExample --------------------------
(***************************************************************************)
(* examples/admit_task.rs: open a store, admit one Task that nobody has    *)
(* seen, end.  Its record is a constant: ObjectRecord holds it alone.      *)
(***************************************************************************)
EXTENDS AdmittedRecords

VARIABLE told       \* what admit_object answered

exampleVars == <<recordVars, told>>

ExampleInit == RecordInit /\ told = "nothing"

Admitted ==
    /\ told = "nothing"
    /\ \E env \in Envelope, r \in ObjectRecord :
          env.observed = [id \in {r.id} |-> Absent] /\ AdmitRecord(env, r)
    /\ told' = "ok"

Refused ==
    /\ told = "nothing"
    /\ \E r \in ObjectRecord : ~ObjectRecordOK(r)
    /\ told' = "refused"
    /\ UNCHANGED recordVars

ExampleNext == Admitted \/ Refused

ExampleSpec == ExampleInit /\ [][ExampleNext]_exampleVars

\* The example shows how a Task is admitted: its call is not refused.
ExampleIsAdmitted == told # "refused"
=============================================================================
