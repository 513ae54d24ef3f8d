--------------------------- MODULE RequestService ---------------------------
(***************************************************************************)
(* What a store promises to callers that repeat a request until they have  *)
(* an answer (docs/BATCH_ADMISSION.md, envelopes, order and replay):       *)
(* a request takes effect at most once, as a whole, and never after a      *)
(* refusal; and every request is answered.                                 *)
(***************************************************************************)
CONSTANT Request

VARIABLES
    applied,    \* the requests that took effect
    answered    \* request -> "none", "ok" or "refused"

serviceVars == <<applied, answered>>

Init == applied = {} /\ answered = [r \in Request |-> "none"]

Apply(r) ==
    /\ r \notin applied /\ answered[r] = "none"
    /\ applied' = applied \cup {r}
    /\ UNCHANGED answered

Accept(r) ==
    /\ r \in applied /\ answered[r] = "none"
    /\ answered' = [answered EXCEPT ![r] = "ok"]
    /\ UNCHANGED applied

Refuse(r) ==
    /\ r \notin applied /\ answered[r] = "none"
    /\ answered' = [answered EXCEPT ![r] = "refused"]
    /\ UNCHANGED applied

Next == \E r \in Request : Apply(r) \/ Accept(r) \/ Refuse(r)

Service == Init /\ [][Next]_serviceVars

Answered == \A r \in Request : <>(answered[r] # "none")
=============================================================================
