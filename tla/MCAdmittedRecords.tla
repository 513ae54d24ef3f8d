------------------------- MODULE MCAdmittedRecords -------------------------
(* A small instance of AdmittedRecords for TLC. *)
EXTENDS AdmittedRecords, TLC

CONSTANTS d1, k1, k2, k3, k4, t1, u1, l1, c1, p1, e1, s1, s2, personal

\* A body that says nothing wrong, and what is wrong with the others.
Plain == [status |-> "active", moot |-> FALSE, provenance |-> "valid", authority |-> "absent",
          label |-> NotALabel, fields |-> <<>>, trigger |-> FALSE]

Completed == [Plain EXCEPT !.status = "completed"]
Moot == [Plain EXCEPT !.status = "moot", !.moot = TRUE]
MootWithoutReason == [Plain EXCEPT !.status = "moot"]
ActiveWithReason == [Plain EXCEPT !.moot = TRUE]
Ready == [Plain EXCEPT !.status = "ready"]
TwoForms == [Plain EXCEPT !.fields = [f \in {"static_window", "allowed_time_range"} |-> "valid"]]
Anonymous == [Plain EXCEPT !.provenance = "absent"]
Labelled == [Plain EXCEPT !.label = personal]
Preferring(state) == [Plain EXCEPT !.fields = [f \in {"preference"} |-> state]]
Entitled == [Plain EXCEPT !.authority = "valid"]
Trigger == [Plain EXCEPT !.trigger = TRUE]

TaskBodies == {Plain, Completed, Moot, MootWithoutReason, ActiveWithReason, Ready, TwoForms, Anonymous}
OtherBodies == {Plain, Anonymous, Labelled, Preferring("valid"), Preferring("malformed"), Entitled}
Bodied == TaskBodies \cup OtherBodies \cup {Trigger}

Payload(id, schema, body) ==
    [id |-> id, occurrence |-> NoOccurrence, schema |-> schema, body |-> body]
Submitted(id, type, status, label, payload) ==
    [id |-> id, type |-> type, version |-> 1, status |-> status, label |-> label,
     stamps |-> TRUE, payload |-> payload]

\* Tasks whose column says what the payload says, or another status.
Tasks ==
    {Submitted(t1, "Task", b.status, personal, Payload(t1, s1, b)) : b \in TaskBodies}
    \cup {Submitted(t1, "Task", s, personal, Payload(t1, s1, Plain)) : s \in {"completed", "ready"}}

\* A UniverseState under two schema versions, without provenance, without a
\* label, and under the type of another kind.
UniverseStates ==
    {Submitted(u1, "UniverseState", "active", personal, Payload(u1, s, Plain)) : s \in Schema}
    \cup {Submitted(u1, "UniverseState", "active", personal, Payload(u1, s1, Anonymous)),
          Submitted(u1, "UniverseState", "active", NotALabel, Payload(u1, s1, Plain)),
          Submitted(u1, "Setting", "active", personal, Payload(u1, s1, Entitled))}

\* Of four more kinds, each with the body it needs and with those of others.
OfOtherKinds ==
    {Submitted(c1, "Compartment", "active", personal, Payload(c1, s1, b)) : b \in {Labelled, Plain}}
    \cup {Submitted(p1, "Preference", "active", personal, Payload(p1, s1, b)) :
             b \in {Preferring("valid"), Preferring("malformed"), Plain}}
    \cup {Submitted(e1, "Setting", "active", personal, Payload(e1, s1, b)) : b \in {Entitled, Plain}}
    \cup {Submitted(l1, "LogEntry", "active", personal, Payload(l1, s1, Entitled))}

Objects == Tasks \cup UniverseStates \cup OfOtherKinds

Logs == {[id |-> l, event |-> e, provenance |-> "valid", stamps |-> TRUE,
          payload |-> Payload(l, s1, b)] :
            l \in LogId, e \in {Recalculation, "captured"}, b \in {Plain, Trigger}}

AllPayloads == {r.payload : r \in Objects \cup Logs}
States == {[state |-> u1, body |-> b] : b \in {Plain, Labelled}}

Kinds == [id \in OtherId |-> CASE id = c1 -> "Compartment" [] id = p1 -> "Preference" [] id = e1 -> "Setting"]

\* An envelope observes the one object it writes, or nothing.
Observing ==
    {Empty} \cup UNION {[{r.id} -> {Absent} \cup 1..MaxVersion] : r \in Objects}

KeySymmetry == Permutations(IdempotencyKey)
=============================================================================
