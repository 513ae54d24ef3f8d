----------------------------- MODULE StorePool -----------------------------
(***************************************************************************)
(* The callers of one process and the single connection of its pool        *)
(* (src/db.rs).  An envelope writer keeps the connection for the whole of  *)
(* its transaction; the five exempt writers of derived artifacts take it   *)
(* twice, for an INSERT and for the SELECT that reads the row back, and    *)
(* whoever waits may come in between.  A statement may fail, an acquire    *)
(* may time out, a caller may be dropped at any await: what it had sent by *)
(* then, a COMMIT too, the connection's worker carries out, and nobody is  *)
(* told.                                                                   *)
(***************************************************************************)
EXTENDS Sequences, Integers

CONSTANTS
    Caller,         \* tasks that call the store
    NoCaller,
    PlanId, CalendarId, WorkerId, PreviewId, OtherId,   \* UbuIds by kind
    NotAnId,        \* a text that does not parse as one
    Record,         \* derived records submitted: [table, id, ref, wellFormed, body]
    Mutation,       \* canonical mutations submitted, one per envelope
    Nothing         \* no request, no row

VARIABLES
    disk,           \* what is committed: derived tables and canonical mutations
    connection,     \* the pool's connection: its transaction's tables, or none
    holder,         \* the caller that has the connection
    queue,          \* the callers that wait for it, in order
    call            \* caller -> the call it makes and its answer

poolVars == <<disk, connection, holder, queue, call>>

Table == {"plans", "calendars", "worker_submissions", "projection_previews", "projection_results"}

UbuId == PlanId \cup CalendarId \cup WorkerId \cup PreviewId \cup OtherId

ASSUME RecordShape ==
    \A r \in Record : /\ r.table \in Table
                      /\ {r.id, r.ref} \subseteq UbuId \cup {NotAnId}
                      /\ r.wellFormed \in BOOLEAN

ASSUME NoCallerIsNone == NoCaller \notin Caller

\* A derived record is not a canonical mutation: they are of different types.
ASSUME RecordsAreNoMutations == Record \cap Mutation = {}

\* The ids each of the five writers asks for.  That the plan or the preview it
\* refers to is stored, none asks; a result's own id is of any kind.
StorePlan(r) == r.table = "plans" /\ r.id \in PlanId
StoreCalendar(r) == r.table = "calendars" /\ r.id \in CalendarId /\ r.ref \in PlanId
StoreWorkerSubmission(r) == r.table = "worker_submissions" /\ r.id \in WorkerId
StoreProjectionPreview(r) == r.table = "projection_previews" /\ r.id \in PreviewId
StoreProjectionResult(r) ==
    r.table = "projection_results" /\ r.id \in UbuId /\ r.ref \in PreviewId

\* The writer of its table takes the record; the rest of it parses: timestamps,
\* the object type and authority of a worker's submission.
Admissible(r) ==
    /\ r.wellFormed
    /\ \/ StorePlan(r)
       \/ StoreCalendar(r)
       \/ StoreWorkerSubmission(r)
       \/ StoreProjectionPreview(r)
       \/ StoreProjectionResult(r)

NoTables == [derived |-> [t \in Table |-> [i \in {} |-> i]], canonical |-> {}]

\* No transaction is open; or one is, and this is what it sees.
AtRest == [open |-> FALSE, sees |-> NoTables]
Inside(tables) == [open |-> TRUE, sees |-> tables]

\* What a caller asked for, which statement it is at, what it was told at the
\* end ("none" if it was dropped) and what came with it.
CallOf(request, step, answer) ==
    [request |-> request, step |-> step, answer |-> answer, got |-> Nothing]
NoCall == CallOf(Nothing, "none", "none")

PoolInit ==
    /\ disk = NoTables
    /\ connection = AtRest
    /\ holder = NoCaller
    /\ queue = <<>>
    /\ call = [c \in Caller |-> NoCall]

-----------------------------------------------------------------------------
(* The pool.                                                               *)

Idle(c) == call[c].step = "none"

Waits(c) == \E i \in 1..Len(queue) : queue[i] = c

\* The connection c asked for is there, and the call is at the statement.
Granted(c) == holder = c /\ ~Waits(c)
Holds(c, step) == Granted(c) /\ call[c].step = step

\* The queue without c, which is in it once if at all.
Without(seq, c) ==
    IF \A i \in 1..Len(seq) : seq[i] # c THEN seq
    ELSE LET at == CHOOSE i \in 1..Len(seq) : seq[i] = c
         IN  [i \in 1..(Len(seq) - 1) |-> IF i < at THEN seq[i] ELSE seq[i + 1]]

\* The call ends with an answer and gives the connection back; only of an ok is
\* it kept what it was about.
Answer(c, answer, got) ==
    /\ call' = [call EXCEPT ![c] =
                   [CallOf(IF answer = "ok" THEN @.request ELSE Nothing, "none", answer)
                       EXCEPT !.got = got]]
    /\ holder' = IF holder = c THEN NoCaller ELSE holder
    /\ queue' = Without(queue, c)

\* A call reaches its first await, the acquire; a derived record that is not
\* admissible is refused before.
CallDerived(c, r) ==
    /\ Idle(c)
    /\ IF Admissible(r)
       THEN /\ call' = [call EXCEPT ![c] = CallOf(r, "insert", "none")]
            /\ queue' = Append(queue, c)
       ELSE /\ call' = [call EXCEPT ![c] = CallOf(Nothing, "none", "invalid")]
            /\ UNCHANGED queue
    /\ UNCHANGED <<disk, connection, holder>>

CallCanonical(c, m) ==
    /\ Idle(c)
    /\ call' = [call EXCEPT ![c] = CallOf(m, "begin", "none")]
    /\ queue' = Append(queue, c)
    /\ UNCHANGED <<disk, connection, holder>>

\* The pool serves its waiters in order.
Acquire ==
    /\ holder = NoCaller /\ queue # <<>>
    /\ holder' = Head(queue)
    /\ queue' = Tail(queue)
    /\ UNCHANGED <<disk, connection, call>>

\* PoolTimedOut, in either acquire of a derived writer.
TimeOut(c) ==
    /\ Waits(c)
    /\ Answer(c, "failed", Nothing)
    /\ UNCHANGED <<disk, connection>>

-----------------------------------------------------------------------------
(* Statements on the connection; the INSERT and the SELECT of a derived    *)
(* record are the same two in all five writers.                            *)

Tables == IF connection.open THEN connection.sees ELSE disk

\* A statement outside a transaction commits itself.
Write(tables) ==
    IF connection.open
    THEN connection' = Inside(tables) /\ UNCHANGED disk
    ELSE disk' = tables /\ UNCHANGED connection

Stored(r) == r.id \in DOMAIN Tables.derived[r.table]

WithRow(r) ==
    [Tables EXCEPT !.derived[r.table] =
        [i \in DOMAIN @ \cup {r.id} |-> IF i = r.id THEN r ELSE @[i]]]

\* Mutant of Taken: INSERT OR REPLACE.
NeverTaken(r) == FALSE

\* The primary key refuses the row.
Taken(r) == Stored(r)

\* Mutant of AwaitSelect: the connection is kept while the next one is awaited.
AwaitSelectHolding(c) ==
    /\ call' = [call EXCEPT ![c].step = "select"]
    /\ queue' = Append(queue, c)
    /\ UNCHANGED holder

\* The connection goes back to the pool, and the caller to the end of the queue.
AwaitSelect(c) ==
    /\ call' = [call EXCEPT ![c].step = "select"]
    /\ queue' = Append(queue, c)
    /\ holder' = NoCaller

\* INSERT of a derived row, which a primary key may refuse.
Insert(c) ==
    /\ Holds(c, "insert")
    /\ IF Taken(call[c].request)
       THEN Answer(c, "refused", Nothing) /\ UNCHANGED <<disk, connection>>
       ELSE Write(WithRow(call[c].request)) /\ AwaitSelect(c)

\* SELECT of the row by its id: what it finds is the answer.
Select(c) ==
    LET r == call[c].request
    IN  /\ Holds(c, "select")
        /\ IF Stored(r) THEN Answer(c, "ok", Tables.derived[r.table][r.id])
                        ELSE Answer(c, "failed", Nothing)
        /\ UNCHANGED <<disk, connection>>

\* transactions::begin.
Begin(c) ==
    /\ Holds(c, "begin")
    /\ ~connection.open
    /\ connection' = Inside(disk)
    /\ call' = [call EXCEPT ![c].step = "write"]
    /\ UNCHANGED <<disk, holder, queue>>

\* The writes of one envelope, its receipt included; of a mutation that is there
\* already, a replay.
WriteMutation(c) ==
    /\ Holds(c, "write")
    /\ connection' = Inside([connection.sees EXCEPT !.canonical = @ \cup {call[c].request}])
    /\ call' = [call EXCEPT ![c].step = "commit"]
    /\ UNCHANGED <<disk, holder, queue>>

\* The connection's worker carries out the COMMIT that finish_mutation sent it.
CarryOutCommit(c) ==
    /\ Holds(c, "commit")
    /\ disk' = connection.sees
    /\ connection' = AtRest

\* finish_mutation.
Commit(c) == CarryOutCommit(c) /\ Answer(c, "ok", call[c].request)

\* The caller is dropped while it awaits that COMMIT, which nothing recalls: the
\* rollback that follows finds no transaction.
LoseAnswer(c) == CarryOutCommit(c) /\ Answer(c, "none", Nothing)

\* Mutants of Rollback: the connection goes back as it is; what was written
\* is committed.
NoRollback(c) == UNCHANGED <<connection, disk>>
CommitAnyway(c) ==
    /\ connection' = IF holder = c THEN AtRest ELSE connection
    /\ disk' = IF holder = c THEN Tables ELSE disk

\* finish_mutation on an error, or the drop of the Transaction.
Rollback(c) ==
    /\ connection' = IF holder = c THEN AtRest ELSE connection
    /\ UNCHANGED disk

\* A statement that was sent fails, and the transaction with it.
Fail(c) ==
    /\ Granted(c)
    /\ Rollback(c)
    /\ Answer(c, "failed", Nothing)

\* The caller is dropped where it awaits, waiting or with the connection, but for
\* a COMMIT already sent.  An INSERT already sent is Insert, then Drop.
Drop(c) ==
    /\ ~Idle(c)
    /\ Rollback(c)
    /\ Answer(c, "none", Nothing)

\* The idle connection is closed, and another opened for the next caller.
Reconnect ==
    /\ holder = NoCaller
    /\ connection' = AtRest
    /\ UNCHANGED <<disk, holder, queue, call>>

Progress(c) ==
    Insert(c) \/ Select(c) \/ Begin(c) \/ WriteMutation(c) \/ Commit(c) \/ Fail(c)

PoolNext ==
    \/ \E c \in Caller :
          \/ \E r \in Record : CallDerived(c, r)
          \/ \E m \in Mutation : CallCanonical(c, m)
          \/ Progress(c)
          \/ TimeOut(c)
          \/ Drop(c)
          \/ LoseAnswer(c)
    \/ Acquire
    \/ Reconnect

\* A statement that was sent ends, well or badly, and a free connection is
\* handed to the first who waits.  That callers are dropped, before their COMMIT
\* or at it, or time out is not relied on.
Fairness == WF_poolVars(Acquire) /\ \A c \in Caller : WF_poolVars(Progress(c))

PoolSpec == PoolInit /\ [][PoolNext]_poolVars /\ Fairness

-----------------------------------------------------------------------------
(* Properties.                                                             *)

\* A caller told that its record is stored, or its mutation admitted, is told
\* of exactly what it submitted, and it is on disk: although the row was read
\* back in another turn, others failed or were dropped inside transactions on
\* the same connection, and that connection may be gone by now.  Nobody else
\* was told the same of the id.
AnsweredIsOnDisk ==
    \A c \in Caller : call[c].answer = "ok" =>
        LET got == call[c].got
        IN  /\ got = call[c].request
            /\ got \in Record => /\ got.id \in DOMAIN disk.derived[got.table]
                                 /\ disk.derived[got.table][got.id] = got
            /\ got \in Mutation => got \in disk.canonical
            /\ got \in Record => \A d \in Caller \ {c} :
                   call[d].answer = "ok" /\ call[d].got \in Record =>
                       <<call[d].got.table, call[d].got.id>> # <<got.table, got.id>>

\* What comes to the disk is what the caller with the connection asked for, and
\* a canonical mutation only by that caller's own COMMIT, at the end of its
\* transaction: it is then told so, or it was dropped as it awaited it.  Nothing
\* of a caller that is told of a failure, or was dropped before its COMMIT, is
\* left for the next one to commit.
CommitsOnlyTheHolders ==
    [][disk' # disk =>
          /\ holder # NoCaller
          /\ \A m \in disk'.canonical \ disk.canonical :
                /\ m = call[holder].request /\ call[holder].step = "commit"
                /\ call'[holder].step = "none" /\ call'[holder].answer \in {"ok", "none"}
          /\ \A t \in Table : \A i \in DOMAIN disk'.derived[t] \ DOMAIN disk.derived[t] :
                disk'.derived[t][i] = call[holder].request]_poolVars

Derived == INSTANCE PutOnceTables
               WITH Table <- Table, Row <- LAMBDA t : {r \in Record : r.table = t},
                    tables <- disk.derived

\* Derived artifacts are put once: whichever of two callers with one id is
\* first, and however often a caller whose answer was lost asks again, the row
\* stays the one first stored.
DerivedPutOnce == Derived!Spec

\* No call waits for ever, in its second acquire neither: nobody waits for the
\* connection while holding it, and the queue is served in order.
EveryCallEnds == \A c \in Caller : ~Idle(c) ~> Idle(c)

=============================================================================
