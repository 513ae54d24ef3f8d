---------------------------- MODULE RetryClients ----------------------------
(***************************************************************************)
(* Callers over the statements of StoreTransactions.  Each process has     *)
(* requests of its own and submits each, with its keys unchanged, until it *)
(* is told ok or refused.  A write that finds another writer in its way    *)
(* fails; other faults, and answers lost, are bounded by MaxFaults.        *)
(***************************************************************************)
EXTENDS StoreTransactions

CONSTANTS
    Workload,   \* connection -> the requests its process wants answered
    MaxFaults   \* how often a statement fails of itself or an answer is lost

ASSUME WorkloadShape ==
    /\ Workload \in [Conn -> SUBSET Request]
    /\ \A c, d \in Conn : c # d => Workload[c] \cap Workload[d] = {}

Wanted == UNION {Workload[c] : c \in Conn}

\* A request has something to write, and its keys are its own: one caller asks
\* for it, and uses its keys for nothing else.
ASSUME WorkloadKeys ==
    /\ \A r \in Wanted : Len(r) > 0
    /\ \A r, s \in Wanted : r # s =>
          \A i \in 1..Len(r), j \in 1..Len(s) : r[i].env.key # s[j].env.key

VARIABLES
    answered,   \* request -> what its caller was told in the end
    faults      \* faults so far

clientVars == <<db, tx, answered, faults>>

ClientInit == TxInit /\ answered = [r \in Wanted |-> "none"] /\ faults = 0

\* The caller asks for the first time, or again with the same keys.
Submit(c) ==
    /\ \E r \in Workload[c] : answered[r] = "none" /\ Begin(c, r)
    /\ tx[c].answer \in {"ok", "refused"} => answered[tx[c].request] # "none"
    /\ UNCHANGED <<answered, faults>>

\* The caller gets the answer.
Receive(c) ==
    /\ ~tx[c].open /\ tx[c].answer \in {"ok", "refused"}
    /\ answered[tx[c].request] = "none"
    /\ answered' = [answered EXCEPT ![tx[c].request] = tx[c].answer]
    /\ UNCHANGED <<db, tx, faults>>

\* The first write fails: another connection holds the lock until the busy
\* timeout, or has committed since the snapshot was taken.
Busy(c) ==
    /\ AtStage(c, "row") /\ RowAllowed(c) /\ ~MayWrite(c)
    /\ Finish(c, "failed")

\* A statement of the transaction in progress, or the failure of its write.
Statement(c) ==
    /\ \/ PrepareFresh(c) \/ PrepareReplay(c) \/ PrepareRefused(c)
       \/ WriteRow(c) \/ RowRefused(c) \/ Busy(c)
       \/ WriteReceipt(c)
       \/ Commit(c)
    /\ UNCHANGED <<answered, faults>>

\* The process stops or the connection fails; or the answer does not arrive.
Fault(c) ==
    /\ faults < MaxFaults
    /\ Abort(c) \/ (LoseAnswer(c) /\ answered[tx[c].request] = "none")
    /\ faults' = faults + 1
    /\ UNCHANGED answered

ClientNext == \E c \in Conn : Submit(c) \/ Statement(c) \/ Receive(c) \/ Fault(c)

\* Only what the code goes on with by itself: a statement sent is carried out
\* or fails, an answer there is handed over, a caller without an answer asks
\* again.  No fairness between connections, none of faults.
Fairness == \A c \in Conn : WF_clientVars(Submit(c) \/ Statement(c) \/ Receive(c))

RetrySpec == ClientInit /\ [][ClientNext]_clientVars /\ Fairness

-----------------------------------------------------------------------------
(* Properties.                                                             *)

Service == INSTANCE RequestService
               WITH Request <- Wanted, applied <- {r \in Wanted : Recorded(db, r)}

\* However statements interleave and fail, a request asked again and again
\* takes effect at most once; ok is said of what took effect, and
\* a caller told refused will never find its request applied.
ExactlyOnce == Service!Service

\* Every caller gets its answer: the lock is always given up, and a writer
\* thrown back by another's commit is thrown back only as often as others have
\* requests to commit.
EveryRequestAnswered == Service!Answered

=============================================================================
