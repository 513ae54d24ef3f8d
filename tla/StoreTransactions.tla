------------------------- MODULE StoreTransactions -------------------------
(***************************************************************************)
(* The canonical writers one SQL statement at a time, on several SQLite    *)
(* connections to one database file: BEGIN (deferred), the reads of        *)
(* prepare_mutation on the transaction's snapshot, the row, the receipt,   *)
(* and COMMIT or ROLLBACK in finish_mutation; each may fail or be cut off. *)
(*                                                                         *)
(* A request is the sequence of writes of one admit_batch; admit_object    *)
(* and append_log_entry are sequences of one.  A pool holds one connection *)
(* (db.rs), so two open transactions belong to two pools, that is to two   *)
(* processes, and what callers of one pool do is one connection's sequence.*)
(***************************************************************************)
EXTENDS StoreTables, Sequences

CONSTANTS
    Conn,       \* connections
    Request     \* requests: sequences of writes [env, table, id, payload]

\* BatchWrite: an object under the id in its payload, or a log.
ObjectWrite == {w \in [env : Envelope, table : {"objects"}, id : ObjectId, payload : RecordPayload] :
                   w.id = w.payload.id}
LogWrite == [env : Envelope, table : {"logs"}, id : LogId, payload : RecordPayload]

ASSUME RequestShape == \A r \in Request : r \in Seq(ObjectWrite \cup LogWrite)

VARIABLES
    db,         \* the committed tables
    tx          \* connection -> its transaction and its caller's last answer

txVars == <<db, tx>>

NoTables == [objects |-> Empty, logs |-> Empty, ledger |-> Empty]

\* A connection with no transaction.
Idle(request, answer) ==
    [open |-> FALSE, request |-> request, at |-> 0, stage |-> "none", locked |-> FALSE,
     base |-> NoTables, work |-> NoTables, answer |-> answer]

TxInit == db = NoTables /\ tx = [c \in Conn |-> Idle(<<>>, "none")]

\* The predicates of prepare_mutation, on the tables connection c sees.
Seen(c) == INSTANCE CanonicalStore WITH objects <- tx[c].work.objects, logs <- tx[c].work.logs,
                                        xrefs <- Empty, ledger <- tx[c].work.ledger

Current(c) == tx[c].request[tx[c].at]

\* The connection is open and about to do the stage of its current write.
AtStage(c, stage) == tx[c].open /\ tx[c].stage = stage

\* Mutant of Finish: a failed request is committed as far as it got.
FinishByCommit(c, answer) ==
    /\ db' = IF tx[c].locked THEN tx[c].work ELSE db
    /\ tx' = [tx EXCEPT ![c] = Idle(@.request, answer)]

\* Mutant of Finish: a failed request is not rolled back.
FinishWithoutRollback(c, answer) ==
    /\ db' = IF answer = "ok" /\ tx[c].locked THEN tx[c].work ELSE db
    /\ tx' = [tx EXCEPT ![c] = IF answer = "ok" THEN Idle(@.request, answer)
                                ELSE [@ EXCEPT !.open = FALSE, !.answer = answer]]

\* finish_mutation: commit what succeeded, roll back everything else.  A
\* transaction that wrote nothing has nothing to install.
Finish(c, answer) ==
    /\ db' = IF answer = "ok" /\ tx[c].locked THEN tx[c].work ELSE db
    /\ tx' = [tx EXCEPT ![c] = Idle(@.request, answer)]

-----------------------------------------------------------------------------
(* Statements.                                                             *)

\* BEGIN and the first read, which fixes the snapshot.
Begin(c, request) ==
    /\ ~tx[c].open
    /\ tx' = [tx EXCEPT ![c] = [Idle(request, "none") EXCEPT !.open = TRUE, !.at = 1, !.stage = "prepare",
                                                             !.base = db, !.work = db]]
    /\ UNCHANGED db

\* Mutant of Repeated: a repeated key is left to the replay of prepare_mutation.
RepeatedIsReplayed(c) == FALSE

\* The key of the current write has been used earlier in the batch.
Repeated(c) == \E i \in 1..(tx[c].at - 1) : tx[c].request[i].env.key = Current(c).env.key

\* Go on with the next write of the request.
Advance(c) == tx' = [tx EXCEPT ![c].at = @ + 1, ![c].stage = "prepare"]

\* prepare_mutation of a new key, whose preconditions hold.
PrepareFresh(c) ==
    /\ AtStage(c, "prepare") /\ tx[c].at <= Len(tx[c].request)
    /\ ~Repeated(c)
    /\ Seen(c)!Fresh(Current(c).env)
    /\ tx' = [tx EXCEPT ![c].stage = "row"]
    /\ UNCHANGED db

\* Mutant of Answerable: the preconditions of a recorded key are checked again.
AnswerableIfCurrent(c) ==
    /\ Seen(c)!Replays(Current(c).env.key, Current(c).payload, Current(c).table)
    /\ PreconditionsHold(tx[c].work.objects, Current(c).env.observed)

\* The ledger answers the current write, whatever the versions are by now.
Answerable(c) == Seen(c)!Replays(Current(c).env.key, Current(c).payload, Current(c).table)

\* prepare_mutation of a recorded key: read the recorded row and go on.
PrepareReplay(c) ==
    /\ AtStage(c, "prepare") /\ tx[c].at <= Len(tx[c].request)
    /\ ~Repeated(c)
    /\ Answerable(c)
    /\ Advance(c)
    /\ UNCHANGED db

\* A repeated key in one batch, a conflicting or misplaced key, or a failed
\* precondition.
PrepareRefused(c) ==
    /\ AtStage(c, "prepare") /\ tx[c].at <= Len(tx[c].request)
    /\ Repeated(c) \/ ~(Seen(c)!Fresh(Current(c).env) \/ Answerable(c))
    /\ Finish(c, "refused")

\* The checks of write_object_row and the primary key of logs.
RowAllowed(c) ==
    LET w == Current(c)
    IN  IF w.table = "logs" THEN w.id \notin DOMAIN tx[c].work.logs
        ELSE /\ w.id \in DOMAIN w.env.observed
             /\ Seen(c)!OccurrenceFree(w.env, w.id, w.payload)
             /\ CanAdvance(w.env.observed[w.id])

\* The first write of a transaction takes the write lock: no other connection
\* may hold it, and the snapshot must still be the last commit
\* (SQLITE_BUSY_SNAPSHOT otherwise).
MayWrite(c) ==
    \/ tx[c].locked
    \/ (\A other \in Conn \ {c} : ~tx[other].locked) /\ db = tx[c].base

\* The connection's tables with the current write's row.
WithRow(c) ==
    LET w == Current(c)
    IN  IF w.table = "logs" THEN [tx[c].work EXCEPT !.logs = Put(@, w.id, w.payload)]
        ELSE [tx[c].work EXCEPT !.objects =
                 Put(@, w.id, [payload |-> w.payload, version |-> NextVersion(w.env.observed[w.id])])]

\* INSERT or UPDATE of the object, INSERT of the log.
WriteRow(c) ==
    /\ AtStage(c, "row")
    /\ RowAllowed(c)
    /\ MayWrite(c)
    /\ tx' = [tx EXCEPT ![c].work = WithRow(c), ![c].locked = TRUE, ![c].stage = "receipt"]
    /\ UNCHANGED db

\* A check of the row writer refuses the request.
RowRefused(c) ==
    /\ AtStage(c, "row")
    /\ ~RowAllowed(c)
    /\ Finish(c, "refused")

\* record_mutation: the receipt of the row just written.
WriteReceipt(c) ==
    LET w == Current(c)
        version == IF w.table = "logs" THEN 0 ELSE tx[c].work.objects[w.id].version
        receipt == [payload |-> w.payload, id |-> w.id, version |-> version,
                    observed |-> w.env.observed]
    IN  /\ AtStage(c, "receipt")
        /\ tx' = [tx EXCEPT ![c].work.ledger = Put(@, w.env.key, receipt),
                            ![c].at = @ + 1, ![c].stage = "prepare"]
        /\ UNCHANGED db

\* COMMIT; the answer reaches the caller, or is lost with its process.
Commit(c) ==
    /\ AtStage(c, "prepare") /\ tx[c].at > Len(tx[c].request)
    /\ Finish(c, "ok")

LoseAnswer(c) ==
    /\ tx[c].answer = "ok"
    /\ tx' = [tx EXCEPT ![c].answer = "failed"]
    /\ UNCHANGED db

\* A statement fails (SQLITE_BUSY after the busy timeout, SQLITE_BUSY_SNAPSHOT,
\* I/O), the call is cancelled or the process dies: the transaction is rolled back.
Abort(c) ==
    /\ tx[c].open
    /\ Finish(c, "failed")

TxNext ==
    \E c \in Conn :
        \/ \E r \in Request : Begin(c, r)
        \/ PrepareFresh(c) \/ PrepareReplay(c) \/ PrepareRefused(c)
        \/ WriteRow(c) \/ RowRefused(c)
        \/ WriteReceipt(c)
        \/ Commit(c) \/ LoseAnswer(c) \/ Abort(c)

TxSpec == TxInit /\ [][TxNext]_txVars

-----------------------------------------------------------------------------
(* Properties.                                                             *)

\* A connection holds the write lock only inside a transaction, and at most
\* one does; a transaction that has not written sees just its snapshot.
TxTypeOK ==
    /\ \A c \in Conn :
          /\ tx[c].request \in Request \cup {<<>>}
          /\ tx[c].at \in 0..(Len(tx[c].request) + 1)
          /\ tx[c].answer \in {"none", "ok", "refused", "failed"}
          /\ tx[c].locked => tx[c].open /\ tx[c].base = db
          /\ ~tx[c].locked => tx[c].work = tx[c].base
    /\ \A c, d \in Conn : tx[c].locked /\ tx[d].locked => c = d

Committed == INSTANCE CanonicalStore WITH objects <- db.objects, logs <- db.logs,
                                          xrefs <- Empty, ledger <- db.ledger

\* Whatever statements of batches interleave, fail or are cut off, the committed
\* tables are those of an atomic store: versions and receipts agree, appends
\* have theirs, occurrence keys are unique, and no two batches that each
\* observed what the other replaced both commit, although each checks its
\* preconditions before it locks.
CommittedAgrees ==
    /\ Committed!EachVersionWrittenOnce
    /\ Committed!AppendsHaveReceipts
    /\ Committed!OccurrenceKeyUnique
    /\ Committed!ReceiptsSerializable

\* Requests of one write: each commit is one step of the atomic store.
CommitsImplementStore == Committed!Spec

\* Every write of a request is in the ledger with the payload requested.
Recorded(tables, request) ==
    \A i \in 1..Len(request) :
        LET key == request[i].env.key
        IN  key \in DOMAIN tables.ledger /\ tables.ledger[key].payload = request[i].payload

\* A commit brings in every write of its request and nothing else: no batch is
\* ever seen in part (docs/BATCH_ADMISSION.md).
CommitsWholeRequests ==
    [][db' # db =>
          \E c \in Conn :
              LET request == tx[c].request
              IN  /\ Recorded(db', request)
                  /\ DOMAIN db'.ledger \ DOMAIN db.ledger \subseteq
                         {request[i].env.key : i \in 1..Len(request)}]_txVars

\* A request answered ok is recorded, each write under a key of its own, and
\* stays so.
AnswersAreDurable ==
    \A c \in Conn : tx[c].answer = "ok" =>
        /\ Recorded(db, tx[c].request)
        /\ \A i, j \in 1..Len(tx[c].request) :
              tx[c].request[i].env.key = tx[c].request[j].env.key => i = j
=============================================================================
