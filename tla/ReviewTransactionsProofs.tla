---------------------- MODULE ReviewTransactionsProofs ----------------------
(***************************************************************************)
(* The statements of the candidate writers implement CandidateReview,      *)
(* proved for every set of connections and requests.                       *)
(*                                                                         *)
(* What a transaction has written is a function of its snapshot, of its    *)
(* request and of how many of its statements are done (Progress): so when  *)
(* all are done and the snapshot is the last commit, what it commits is    *)
(* what the writer, as one action, makes of the committed tables.          *)
(***************************************************************************)
EXTENDS ReviewTransactions, TLAPS

-----------------------------------------------------------------------------
(* Requests and their statements.                                          *)

Ops == {"store", "transition", "reject", "admit"}
Writes == {"object", "suppression", "candidate", "event", "receipt"}

\* The writes that are done after n statements of an operation.
Did(op, n, write) == \E i \in 1..n : Statements[op][i] = write

LEMMA RequestOps == \A r \in Request : r.op \in Ops
BY RequestShape DEF StoreCalls, TransitionCalls, RejectCalls, AdmitCalls, Ops

\* Each statement is a write of its own.
LEMMA StatementOrder ==
    ASSUME NEW op \in Ops
    PROVE  /\ Len(Statements[op]) \in 1..4
           /\ \A i \in 1..Len(Statements[op]) : Statements[op][i] \in Writes
           /\ \A i, j \in 1..Len(Statements[op]) : Statements[op][i] = Statements[op][j] => i = j
<1>1. CASE op = "store"
    BY <1>1 DEF Statements, Writes
<1>2. CASE op = "transition"
    BY <1>2 DEF Statements, Writes
<1>3. CASE op = "reject"
    BY <1>3 DEF Statements, Writes
<1>4. CASE op = "admit"
    BY <1>4 DEF Statements, Writes
<1>5. QED
    BY <1>1, <1>2, <1>3, <1>4 DEF Ops

\* The next statement is one more that is done, and was not.
LEMMA DidNext ==
    ASSUME NEW op \in Ops, NEW n \in Nat, n < Len(Statements[op])
    PROVE  /\ \A w : Did(op, n + 1, w) <=> Did(op, n, w) \/ w = Statements[op][n + 1]
           /\ ~Did(op, n, Statements[op][n + 1])
           /\ Statements[op][n + 1] \in Writes
<1>1. Len(Statements[op]) \in Nat
    BY StatementOrder
<1>2. QED
    BY <1>1, StatementOrder DEF Did

LEMMA DidNone == \A op, w : ~Did(op, 0, w)
BY DEF Did

\* An object is written by admissions, a suppression by rejections only, no event
\* by a store; a receipt comes after the row it is of.
LEMMA WhoWrites ==
    ASSUME NEW op \in Ops, NEW n \in 0..Len(Statements[op])
    PROVE  /\ Did(op, n, "object") => op = "admit"
           /\ Did(op, n, "suppression") => op = "reject"
           /\ Did(op, n, "event") => op # "store"
           /\ n < Len(Statements[op]) /\ Statements[op][n + 1] = "receipt" =>
                  IF op = "admit" THEN Did(op, n, "object") ELSE Did(op, n, "candidate")
           /\ n < Len(Statements[op]) /\ Statements[op][n + 1] = "object" => op = "admit"
           /\ n < Len(Statements[op]) /\ Statements[op][n + 1] = "suppression" => op = "reject"
           /\ n < Len(Statements[op]) /\ Statements[op][n + 1] = "event" => op # "store"
<1>1. CASE op = "store"
    BY <1>1 DEF Statements, Did
<1>2. CASE op = "transition"
    BY <1>2 DEF Statements, Did
<1>3. CASE op = "reject"
    BY <1>3 DEF Statements, Did
<1>4. CASE op = "admit"
    BY <1>4 DEF Statements, Did
<1>5. QED
    BY <1>1, <1>2, <1>3, <1>4 DEF Ops

\* When all are done.
LEMMA AllDone ==
    ASSUME NEW op \in Ops
    PROVE  LET n == Len(Statements[op])
           IN  /\ Did(op, n, "candidate") /\ Did(op, n, "receipt")
               /\ Did(op, n, "object") <=> op = "admit"
               /\ Did(op, n, "suppression") <=> op = "reject"
               /\ Did(op, n, "event") <=> op # "store"
<1>1. CASE op = "store"
    BY <1>1 DEF Statements, Did
<1>2. CASE op = "transition"
    BY <1>2 DEF Statements, Did
<1>3. CASE op = "reject"
    BY <1>3 DEF Statements, Did
<1>4. CASE op = "admit"
    BY <1>4 DEF Statements, Did
<1>5. QED
    BY <1>1, <1>2, <1>3, <1>4 DEF Ops

-----------------------------------------------------------------------------
(* What a request r makes of a snapshot b.                                 *)

\* The candidate read, the decision made of it, and what each write leaves.
ReadBy(r, b) ==
    IF r.op = "reject" THEN Keyed(b.candidates[r.id].payload, r.supplied)
    ELSE b.candidates[r.id].payload

MadeBy(r, b) == Decided(ReadBy(r, b), r.env.key, NextState(r), TriggerOf(r), ObjectOf(r))

ObjectsBy(r, b) ==
    Put(b.objects, r.payload.id, [payload |-> r.payload, version |-> NextVersion(r.env.observed[r.payload.id])])

SuppressionsBy(r, b) ==
    Put(b.suppressions, ReadBy(r, b).suppression, [candidate |-> r.id, decision |-> r.env.key])

UpdatedBy(table, c, observed) ==
    IF table[c.id].version = observed THEN Put(table, c.id, RowOf(c)) ELSE table

CandidatesBy(r, b) ==
    IF r.op = "store" THEN Put(b.candidates, r.submission.id, RowOf(Proposed(r.submission)))
    ELSE UpdatedBy(b.candidates, MadeBy(r, b), ReadBy(r, b).version)

EventsBy(r, b) ==
    Put(b.events, r.env.key,
        [candidate |-> r.id, from |-> ReadBy(r, b).state, to |-> NextState(r), trigger |-> TriggerOf(r),
         observed |-> ReadBy(r, b).version, object |-> ObjectOf(r)])

ResultOf(r) == IF r.op = "admit" THEN r.payload.id ELSE IF r.op = "store" THEN r.submission.id ELSE r.id

ReceiptBy(r, b) ==
    [payload |-> Requested(r), id |-> ResultOf(r), observed |-> r.env.observed,
     version |-> IF r.op = "admit" THEN ObjectsBy(r, b)[r.payload.id].version
                 ELSE ResultVersion(CandidatesBy(r, b)[ResultOf(r)].version)]

LedgerBy(r, b) == Put(b.ledger, r.env.key, ReceiptBy(r, b))

-----------------------------------------------------------------------------
(* The checks of a request r on a snapshot b.                              *)

\* Before the first write.
PreparedOn(r, b) ==
    /\ r.env.key \notin DOMAIN b.ledger
    /\ PreconditionsHold(b.objects, r.env.observed)
    /\ r.op = "store" => r.submission.version <= MaxVersion
    /\ r.op # "store" =>
          /\ r.id \in DOMAIN b.candidates /\ b.candidates[r.id].version = r.observed
          /\ Transition(b.candidates[r.id].state, NextState(r), TriggerOf(r))
    /\ r.op = "transition" => r.next \notin {"admitted", "rejected"}
    /\ r.op = "reject" => r.supplied \in {NoSuppression, SuppressionFor(ReadBy(r, b), r.supplied)}

\* At each write.
ObjectChecked(r, b) ==
    /\ r.payload.id \in DOMAIN r.env.observed
    /\ r.payload.id \in TaskId /\ r.payload.occurrence # NoOccurrence =>
           ~OccurrenceHeld(b.objects, r.payload.id, r.payload.occurrence)
    /\ CanAdvance(r.env.observed[r.payload.id])

SuppressionChecked(r, b) == r.context \/ ReadBy(r, b).suppression \notin DOMAIN b.suppressions

CandidateChecked(r, b) ==
    IF r.op = "store" THEN r.submission.id \notin DOMAIN b.candidates
    ELSE CanAdvance(ReadBy(r, b).version) /\ Valid(MadeBy(r, b))

EventChecked(r, b) == r.env.key \notin DOMAIN b.events

-----------------------------------------------------------------------------
(* The invariant of the transactions.                                      *)

IsTables(t) == DOMAIN t = {"objects", "ledger", "candidates", "events", "suppressions"}

IsConn(t) == DOMAIN t = {"open", "request", "prepared", "done", "locked", "base", "work", "answer"}

\* A transaction has the lock from its first write on and sees its snapshot
\* until then.
ConnOK(t) ==
    /\ IsConn(t)
    /\ IsTables(t.base) /\ IsTables(t.work)
    /\ t.request \in Request \cup {NoRequest}
    /\ t.done \in Nat
    /\ t.open => t.request \in Request /\ t.done <= Len(Statements[t.request.op])
    /\ ~t.open => ~t.locked
    /\ ~t.prepared => ~t.locked
    /\ ~t.locked => t.work = t.base /\ t.done = 0
    /\ t.done = 0 => ~t.locked

\* It sees its snapshot with what its statements so far make of it, and they
\* were checked on its snapshot.
Made(r, b, v, n) ==
    /\ v.objects = IF Did(r.op, n, "object") THEN ObjectsBy(r, b) ELSE b.objects
    /\ v.suppressions = IF Did(r.op, n, "suppression") THEN SuppressionsBy(r, b) ELSE b.suppressions
    /\ v.candidates = IF Did(r.op, n, "candidate") THEN CandidatesBy(r, b) ELSE b.candidates
    /\ v.events = IF Did(r.op, n, "event") THEN EventsBy(r, b) ELSE b.events
    /\ v.ledger = IF Did(r.op, n, "receipt") THEN LedgerBy(r, b) ELSE b.ledger

WorkMade(t) == Made(t.request, t.base, t.work, t.done)

Checked(t) ==
    LET r == t.request
        b == t.base
        did(write) == Did(r.op, t.done, write)
    IN  /\ PreparedOn(r, b)
        /\ did("object") => ObjectChecked(r, b)
        /\ did("suppression") => SuppressionChecked(r, b)
        /\ did("candidate") => CandidateChecked(r, b)
        /\ did("event") => EventChecked(r, b)

Progress(t) == t.open /\ t.prepared => WorkMade(t) /\ Checked(t)

OneWriter == \A c, d \in Conn : tx[c].locked /\ tx[d].locked => c = d

TxInv ==
    /\ tx = [c \in Conn |-> tx[c]]
    /\ IsTables(db)
    /\ OneWriter
    /\ \A c \in Conn : ConnOK(tx[c]) /\ Progress(tx[c]) /\ (tx[c].locked => tx[c].base = db)

\* The statements of c leave the others alone.
Changed(c) == tx' = [d \in Conn |-> tx'[d]] /\ \A d \in Conn \ {c} : tx'[d] = tx[d]

LEMMA StatementInv ==
    ASSUME TxInv, NEW c \in Conn, Changed(c), db' = db,
           ConnOK(tx'[c]), Progress(tx'[c]), tx'[c].locked => tx'[c].base = db,
           tx'[c].locked => \A d \in Conn \ {c} : ~tx[d].locked
    PROVE  TxInv'
BY DEF TxInv, Changed, OneWriter

LEMMA IdleOK ==
    ASSUME NEW request \in Request \cup {NoRequest}, NEW answer
    PROVE  /\ ConnOK(Idle(request, answer)) /\ Progress(Idle(request, answer))
           /\ ~Idle(request, answer).locked
<1> DEFINE i == Idle(request, answer)
<1>1. /\ IsConn(i) /\ ~i.open /\ ~i.prepared /\ i.done = 0 /\ ~i.locked /\ i.request = request
      /\ i.base = NoTables /\ i.work = NoTables
    BY DEF IsConn, Idle
<1>2. IsTables(NoTables)
    BY DEF IsTables, NoTables
<1>3. QED
    BY <1>1, <1>2 DEF ConnOK, Progress

\* What is committed is what the transaction saw; nobody else was writing.
LEMMA FinishInv ==
    ASSUME TxInv, NEW c \in Conn, NEW answer, Finish(c, answer)
    PROVE  TxInv'
<1>1. /\ Changed(c) /\ tx'[c] = Idle(tx[c].request, answer)
      /\ db' = IF answer = "ok" /\ tx[c].locked THEN tx[c].work ELSE db
    BY DEF Finish, Changed, TxInv
<1>2. tx[c].request \in Request \cup {NoRequest}
    BY DEF TxInv, ConnOK
<1>3. ConnOK(tx'[c]) /\ Progress(tx'[c]) /\ ~tx'[c].locked
    BY <1>1, <1>2, IdleOK
<1>4. IsTables(db')
    BY <1>1 DEF TxInv, ConnOK
<1>5. ASSUME NEW d \in Conn, tx'[d].locked
      PROVE  tx'[d].base = db' /\ tx'[d] = tx[d]
    BY <1>1, <1>3, <1>5 DEF Changed, TxInv, OneWriter
<1>6. OneWriter'
    BY <1>5 DEF TxInv, OneWriter
<1>7. QED
    BY <1>1, <1>3, <1>4, <1>5, <1>6 DEF TxInv, Changed

LEMMA BeginInv ==
    ASSUME TxInv, NEW c \in Conn, NEW request \in Request, Begin(c, request)
    PROVE  TxInv'
<1>1. PICK u : u = tx'[c]
    OBVIOUS
<1>2. /\ Changed(c) /\ db' = db
      /\ IsConn(u) /\ u.open /\ ~u.prepared /\ u.done = 0 /\ ~u.locked /\ u.request = request
      /\ u.base = db /\ u.work = db
    BY <1>1 DEF Begin, Idle, Changed, TxInv, IsConn
<1>3. Len(Statements[request.op]) \in 1..4
    BY RequestOps, StatementOrder
<1>4. ConnOK(u) /\ Progress(u)
    BY <1>2, <1>3 DEF ConnOK, Progress, TxInv
<1>5. QED
    BY <1>1, <1>2, <1>4, StatementInv

LEMMA PreparedChecks ==
    ASSUME NEW c \in Conn, Prepared(c), tx[c].work = tx[c].base
    PROVE  PreparedOn(tx[c].request, tx[c].base)
<1> DEFINE r == tx[c].request
           b == tx[c].base
<1>1. /\ r.env.key \notin DOMAIN b.ledger
      /\ PreconditionsHold(b.objects, r.env.observed)
    BY DEF Prepared, Seen!Fresh, Seen!PreconditionsHold, PreconditionsHold, Seen!CurrentRef, CurrentRef,
           Seen!Absent, Absent
<1>2. r.op = "store" => r.submission.version <= MaxVersion
    BY DEF Prepared
<1>3. r.op # "store" =>
          /\ r.id \in DOMAIN b.candidates /\ b.candidates[r.id].version = r.observed
          /\ Transition(b.candidates[r.id].state, NextState(r), TriggerOf(r))
          /\ r.op = "transition" => r.next \notin {"admitted", "rejected"}
          /\ r.op = "reject" => r.supplied \in {NoSuppression, SuppressionFor(ReadBy(r, b), r.supplied)}
    BY DEF Prepared, MayDecide, Seen!ObservedCandidate, CandidateRead, ReadBy
<1>4. QED
    BY <1>1, <1>2, <1>3 DEF PreparedOn

LEMMA PrepareInv ==
    ASSUME TxInv, NEW c \in Conn, Prepare(c)
    PROVE  TxInv'
<1>1. PICK u : u = tx'[c]
    OBVIOUS
<1>2. PICK t : t = tx[c]
    OBVIOUS
<1>3. ConnOK(t) /\ (t.locked => t.base = db)
    BY <1>2 DEF TxInv
<1>4. /\ Changed(c) /\ db' = db
      /\ IsConn(u) /\ u.open = t.open /\ u.prepared /\ u.done = t.done /\ u.locked = t.locked
      /\ u.request = t.request /\ u.base = t.base /\ u.work = t.work
      /\ t.open /\ ~t.prepared
    BY <1>1, <1>2, <1>3 DEF Prepare, Changed, TxInv, ConnOK, IsConn
<1>5. ~t.locked /\ t.work = t.base /\ t.done = 0
    BY <1>3, <1>4 DEF ConnOK
<1>6. PreparedOn(t.request, t.base)
    BY <1>2, <1>5, PreparedChecks DEF Prepare
<1>7. ConnOK(u)
    BY <1>3, <1>4, <1>5 DEF ConnOK
<1>8. Progress(u)
    BY <1>4, <1>5, <1>6, DidNone DEF Progress, WorkMade, Made, Checked
<1>9. QED
    BY <1>1, <1>4, <1>5, <1>7, <1>8, StatementInv

-----------------------------------------------------------------------------
(* One write.                                                              *)

\* What Write leaves of the transaction.
LEMMA WriteShape ==
    ASSUME TxInv, NEW c \in Conn, Write(c), NEW u, u = tx'[c]
    PROVE  /\ Changed(c) /\ db' = db
           /\ IsConn(u) /\ u.open /\ u.prepared /\ u.done = tx[c].done + 1 /\ u.locked
           /\ u.request = tx[c].request /\ u.base = tx[c].base
           /\ u.work = Written(c)
<1>1. IsConn(tx[c])
    BY DEF TxInv, ConnOK
<1> DEFINE written == Written(c)
<1>2. /\ tx' = [tx EXCEPT ![c].work = written, ![c].locked = TRUE, ![c].done = @ + 1]
      /\ db' = db /\ tx[c].open /\ tx[c].prepared
    BY DEF Write, AtWrite
<1> HIDE DEF written
<1>3. /\ Changed(c) /\ db' = db
      /\ IsConn(u) /\ u.open /\ u.prepared /\ u.done = tx[c].done + 1 /\ u.locked
      /\ u.request = tx[c].request /\ u.base = tx[c].base
      /\ u.work = written
    BY <1>1, <1>2 DEF Changed, TxInv, IsConn
<1>4. QED
    BY <1>3 DEF written

\* The helpers of the model on the tables a transaction sees.
LEMMA ReadIs ==
    ASSUME NEW c \in Conn
    PROVE  /\ CandidateRead(c) = ReadBy(tx[c].request, tx[c].base)
           /\ DecidedBy(c) = MadeBy(tx[c].request, tx[c].base)
BY DEF CandidateRead, ReadBy, DecidedBy, MadeBy

\* Two versions of the tables agree but for one.
AllBut(w, v, name) == \A n \in {"objects", "ledger", "candidates", "events", "suppressions"} \ {name} : w[n] = v[n]

\* What a write x of request r on snapshot b makes of the tables v seen so far.
OneWrite(x, w, v, r, b, receipt) ==
    /\ IsTables(w)
    /\ x = "object" =>
          /\ AllBut(w, v, "objects")
          /\ w.objects = Put(v.objects, r.payload.id,
                             [payload |-> r.payload, version |-> NextVersion(r.env.observed[r.payload.id])])
    /\ x = "suppression" =>
          /\ AllBut(w, v, "suppressions")
          /\ w.suppressions = Put(v.suppressions, ReadBy(r, b).suppression,
                                  [candidate |-> r.id, decision |-> r.env.key])
    /\ x = "candidate" =>
          /\ AllBut(w, v, "candidates")
          /\ w.candidates = IF r.op = "store" THEN Put(v.candidates, r.submission.id, RowOf(Proposed(r.submission)))
                            ELSE UpdatedBy(v.candidates, MadeBy(r, b), ReadBy(r, b).version)
    /\ x = "event" =>
          /\ AllBut(w, v, "events")
          /\ w.events = Put(v.events, r.env.key,
                            [candidate |-> r.id, from |-> ReadBy(r, b).state, to |-> NextState(r),
                             trigger |-> TriggerOf(r), observed |-> ReadBy(r, b).version,
                             object |-> ObjectOf(r)])
    /\ x = "receipt" => AllBut(w, v, "ledger") /\ w.ledger = Put(v.ledger, r.env.key, receipt)

LEMMA WrittenIs ==
    ASSUME NEW c \in Conn, IsTables(tx[c].work), Current(c) \in Writes
    PROVE  OneWrite(Current(c), Written(c), tx[c].work, tx[c].request, tx[c].base, ReceiptOf(c))
<1>0. PICK t : t = tx[c]
    OBVIOUS
<1> DEFINE r == t.request
<1>1. CandidateRead(c) = ReadBy(r, t.base) /\ DecidedBy(c) = MadeBy(r, t.base)
    BY <1>0, ReadIs
<1>2. CASE Current(c) = "object"
    BY <1>0, <1>2 DEF OneWrite, Written, AllBut, IsTables
<1>3. CASE Current(c) = "suppression"
    BY <1>0, <1>1, <1>3 DEF OneWrite, Written, AllBut, IsTables
<1>4. CASE Current(c) = "candidate"
    <2>1. Seen(c)!Updated(DecidedBy(c), CandidateRead(c).version)
              = UpdatedBy(t.work.candidates, MadeBy(r, t.base), ReadBy(r, t.base).version)
        BY <1>0, <1>1 DEF Seen!Updated, UpdatedBy, Seen!Put, Put, Seen!RowOf, RowOf
    <2>2. QED
        BY <1>0, <1>1, <1>4, <2>1 DEF OneWrite, Written, AllBut, IsTables
<1>5. CASE Current(c) = "event"
    BY <1>0, <1>1, <1>5 DEF OneWrite, Written, AllBut, IsTables
<1>6. CASE Current(c) = "receipt"
    BY <1>0, <1>6 DEF OneWrite, Written, AllBut, IsTables
<1>7. QED
    BY <1>2, <1>3, <1>4, <1>5, <1>6 DEF Writes

\* The statements before have not touched the table of the current one.
LEMMA NotYet ==
    ASSUME NEW c \in Conn, NEW t, t = tx[c], NEW b, b = t.base,
           t.request.op \in Ops, t.done \in Nat, t.done < Len(Statements[t.request.op]), WorkMade(t)
    PROVE  /\ Current(c) = "object" => t.work.objects = b.objects
           /\ Current(c) = "suppression" => t.work.suppressions = b.suppressions
           /\ Current(c) = "candidate" => t.work.candidates = b.candidates
           /\ Current(c) = "event" => t.work.events = b.events
           /\ Current(c) = "receipt" => t.work.ledger = b.ledger
<1>1. ~Did(t.request.op, t.done, Current(c))
    BY DidNext DEF Current, Pending
<1>2. QED
    BY <1>1 DEF WorkMade, Made

\* What the code and the primary keys check at each write, they check on the
\* snapshot: no statement before has touched the table.
LEMMA WriteChecks ==
    ASSUME NEW c \in Conn, NEW t, t = tx[c], NEW r, r = t.request, NEW b, b = t.base,
           t.request.op \in Ops, t.done \in Nat, t.done < Len(Statements[r.op]), WorkMade(t), Allowed(c)
    PROVE  /\ Current(c) = "object" => ObjectChecked(r, b)
           /\ Current(c) = "suppression" => SuppressionChecked(r, b)
           /\ Current(c) = "candidate" => CandidateChecked(r, b)
           /\ Current(c) = "event" => EventChecked(r, b)
<1>2. CASE Current(c) = "object"
    <2>1. t.work.objects = b.objects
        BY <1>2, NotYet
    <2>2. QED
        BY <1>2, <2>1 DEF Allowed, ObjectChecked, Seen!OccurrenceFree, Seen!OccurrenceHeld, OccurrenceHeld
<1>3. CASE Current(c) = "suppression"
    <2>1. t.work.suppressions = b.suppressions
        BY <1>3, NotYet
    <2>2. QED
        BY <1>3, <2>1, ReadIs DEF Allowed, SuppressionChecked, Seen!MayRecordSuppression
<1>4. CASE Current(c) = "candidate"
    <2>1. t.work.candidates = b.candidates
        BY <1>4, NotYet
    <2>2. QED
        BY <1>4, <2>1, ReadIs DEF Allowed, CandidateChecked
<1>5. CASE Current(c) = "event"
    <2>1. t.work.events = b.events
        BY <1>5, NotYet
    <2>2. QED
        BY <1>5, <2>1 DEF Allowed, EventChecked
<1>6. QED
    BY <1>2, <1>3, <1>4, <1>5

\* The receipt is of the row that the statements before it made.
LEMMA ReceiptIs ==
    ASSUME NEW c \in Conn, NEW t, t = tx[c], NEW r, r = t.request,
           t.request.op \in Ops, t.done \in Nat, t.done < Len(Statements[r.op]), WorkMade(t),
           Current(c) = "receipt"
    PROVE  ReceiptOf(c) = ReceiptBy(r, t.base)
<1>1. IF r.op = "admit" THEN Did(r.op, t.done, "object") ELSE Did(r.op, t.done, "candidate")
    <2>1. t.done \in 0..Len(Statements[r.op])
        BY StatementOrder
    <2>2. QED
        BY <2>1, WhoWrites DEF Current, Pending
<1>2. CASE r.op = "admit"
    <2>1. t.work.objects = ObjectsBy(r, t.base)
        BY <1>1, <1>2 DEF WorkMade, Made
    <2>2. QED
        BY <1>2, <2>1 DEF ReceiptOf, ReceiptBy, ResultOf
<1>3. CASE r.op # "admit"
    <2>1. t.work.candidates = CandidatesBy(r, t.base)
        BY <1>1, <1>3 DEF WorkMade, Made
    <2>2. QED
        BY <1>3, <2>1 DEF ReceiptOf, ReceiptBy, ResultOf
<1>4. QED
    BY <1>2, <1>3

OneMore(op, m, n, x) == \A y : Did(op, n, y) <=> Did(op, m, y) \/ y = x

\* A write makes of the tables, as they were made of the snapshot b so far, the
\* same with one more write done.
LEMMA OneMoreMade ==
    ASSUME NEW r, NEW b, NEW v, NEW w, NEW x \in Writes, NEW m, NEW n,
           OneMore(r.op, m, n, x),
           Made(r, b, v, m),
           x = "object" => AllBut(w, v, "objects") /\ w.objects = ObjectsBy(r, b),
           x = "suppression" => AllBut(w, v, "suppressions") /\ w.suppressions = SuppressionsBy(r, b),
           x = "candidate" => AllBut(w, v, "candidates") /\ w.candidates = CandidatesBy(r, b),
           x = "event" => AllBut(w, v, "events") /\ w.events = EventsBy(r, b),
           x = "receipt" => AllBut(w, v, "ledger") /\ w.ledger = LedgerBy(r, b)
    PROVE  Made(r, b, w, n)
<1>1. CASE x = "object"
    BY <1>1 DEF AllBut, Made, OneMore
<1>2. CASE x = "suppression"
    BY <1>2 DEF AllBut, Made, OneMore
<1>3. CASE x = "candidate"
    BY <1>3 DEF AllBut, Made, OneMore
<1>4. CASE x = "event"
    BY <1>4 DEF AllBut, Made, OneMore
<1>5. CASE x = "receipt"
    BY <1>5 DEF AllBut, Made, OneMore
<1>6. QED
    BY <1>1, <1>2, <1>3, <1>4, <1>5 DEF Writes

LEMMA WorkKept ==
    ASSUME TxInv, NEW c \in Conn, Write(c), NEW t, t = tx[c], NEW u, u = tx'[c], WorkMade(t), Checked(t),
           t.request.op \in Ops, t.done \in Nat, t.done < Len(Statements[t.request.op]), IsTables(t.work)
    PROVE  WorkMade(u) /\ Checked(u) /\ IsTables(u.work)
<1> DEFINE r == t.request
           b == t.base
<1>1. PICK w : w = Written(c)
    OBVIOUS
<1>2. u.done = t.done + 1 /\ u.request = r /\ u.base = b /\ u.work = w
    BY <1>1, WriteShape
<1>3. PICK x : x = Current(c)
    OBVIOUS
<1>4. /\ \A y : Did(r.op, t.done + 1, y) <=> Did(r.op, t.done, y) \/ y = x
      /\ x \in Writes
    BY <1>3, DidNext DEF Current, Pending
<1>5. Allowed(c)
    BY DEF Write
<1>6. /\ x = "object" => ObjectChecked(r, b)
      /\ x = "suppression" => SuppressionChecked(r, b)
      /\ x = "candidate" => CandidateChecked(r, b)
      /\ x = "event" => EventChecked(r, b)
    BY <1>3, <1>5, WriteChecks
<1>7. Checked(u)
    <2>1. /\ PreparedOn(r, b)
          /\ Did(r.op, t.done, "object") => ObjectChecked(r, b)
          /\ Did(r.op, t.done, "suppression") => SuppressionChecked(r, b)
          /\ Did(r.op, t.done, "candidate") => CandidateChecked(r, b)
          /\ Did(r.op, t.done, "event") => EventChecked(r, b)
        BY DEF Checked
    <2>2. /\ Did(r.op, t.done + 1, "object") => ObjectChecked(r, b)
          /\ Did(r.op, t.done + 1, "suppression") => SuppressionChecked(r, b)
          /\ Did(r.op, t.done + 1, "candidate") => CandidateChecked(r, b)
          /\ Did(r.op, t.done + 1, "event") => EventChecked(r, b)
        BY <1>4, <1>6, <2>1
    <2>3. QED
        BY <1>2, <2>1, <2>2 DEF Checked
<1>8. Made(r, b, t.work, t.done)
    BY DEF WorkMade
<1>0. OneWrite(x, w, t.work, r, b, ReceiptOf(c))
    BY <1>1, <1>3, <1>4, WrittenIs
<1>9. x = "object" => AllBut(w, t.work, "objects") /\ w.objects = ObjectsBy(r, b)
    <2> SUFFICES ASSUME x = "object"
                 PROVE  AllBut(w, t.work, "objects") /\ w.objects = ObjectsBy(r, b)
        OBVIOUS
    <2>1. t.work.objects = b.objects
        BY <1>3, NotYet
    <2>2. QED
        BY <1>0, <2>1 DEF OneWrite, ObjectsBy
<1>10. x = "suppression" => AllBut(w, t.work, "suppressions") /\ w.suppressions = SuppressionsBy(r, b)
    <2> SUFFICES ASSUME x = "suppression"
                 PROVE  AllBut(w, t.work, "suppressions") /\ w.suppressions = SuppressionsBy(r, b)
        OBVIOUS
    <2>1. t.work.suppressions = b.suppressions
        BY <1>3, NotYet
    <2>2. QED
        BY <1>0, <2>1 DEF OneWrite, SuppressionsBy
<1>11. x = "candidate" => AllBut(w, t.work, "candidates") /\ w.candidates = CandidatesBy(r, b)
    <2> SUFFICES ASSUME x = "candidate"
                 PROVE  AllBut(w, t.work, "candidates") /\ w.candidates = CandidatesBy(r, b)
        OBVIOUS
    <2>1. t.work.candidates = b.candidates
        BY <1>3, NotYet
    <2>2. QED
        BY <1>0, <2>1 DEF OneWrite, CandidatesBy
<1>12. x = "event" => AllBut(w, t.work, "events") /\ w.events = EventsBy(r, b)
    <2> SUFFICES ASSUME x = "event"
                 PROVE  AllBut(w, t.work, "events") /\ w.events = EventsBy(r, b)
        OBVIOUS
    <2>1. t.work.events = b.events
        BY <1>3, NotYet
    <2>2. QED
        BY <1>0, <2>1 DEF OneWrite, EventsBy
<1>13. x = "receipt" => AllBut(w, t.work, "ledger") /\ w.ledger = LedgerBy(r, b)
    <2> SUFFICES ASSUME x = "receipt"
                 PROVE  AllBut(w, t.work, "ledger") /\ w.ledger = LedgerBy(r, b)
        OBVIOUS
    <2>1. t.work.ledger = b.ledger /\ ReceiptOf(c) = ReceiptBy(r, b)
        BY <1>3, NotYet, ReceiptIs
    <2>2. QED
        BY <1>0, <2>1 DEF OneWrite, LedgerBy
<1>14. IsTables(w)
    BY <1>0 DEF OneWrite
<1>15. Made(r, b, w, t.done + 1)
    <2> DEFINE v == t.work
               m == t.done
               n == t.done + 1
    <2>1. OneMore(r.op, m, n, x) /\ x \in Writes /\ Made(r, b, v, m)
        BY <1>4, <1>8 DEF OneMore
    <2>2. /\ x = "object" => AllBut(w, v, "objects") /\ w.objects = ObjectsBy(r, b)
          /\ x = "suppression" => AllBut(w, v, "suppressions") /\ w.suppressions = SuppressionsBy(r, b)
          /\ x = "candidate" => AllBut(w, v, "candidates") /\ w.candidates = CandidatesBy(r, b)
          /\ x = "event" => AllBut(w, v, "events") /\ w.events = EventsBy(r, b)
          /\ x = "receipt" => AllBut(w, v, "ledger") /\ w.ledger = LedgerBy(r, b)
        BY <1>9, <1>10, <1>11, <1>12, <1>13
    <2> HIDE DEF r, b, v, m, n
    <2>3. Made(r, b, w, n)
        BY <2>1, <2>2, OneMoreMade, Zenon
    <2>4. QED
        BY <2>3 DEF r, b, n
<1>16. WorkMade(u)
    BY <1>2, <1>15 DEF WorkMade
<1>17. QED
    BY <1>2, <1>7, <1>14, <1>16

LEMMA WriteInv ==
    ASSUME TxInv, NEW c \in Conn, Write(c)
    PROVE  TxInv'
<1>1. PICK t : t = tx[c]
    OBVIOUS
<1>2. PICK u : u = tx'[c]
    OBVIOUS
<1>3. ConnOK(t) /\ Progress(t) /\ (t.locked => t.base = db)
    BY <1>1 DEF TxInv
<1>4. t.open /\ t.prepared /\ t.done < Len(Statements[t.request.op]) /\ MayWrite(c)
    BY <1>1 DEF Write, AtWrite, Pending
<1>5. /\ Changed(c) /\ db' = db
      /\ IsConn(u) /\ u.open /\ u.prepared /\ u.done = t.done + 1 /\ u.locked
      /\ u.request = t.request /\ u.base = t.base
    BY <1>1, <1>2, WriteShape
<1>6. /\ t.request \in Request /\ t.request.op \in Ops /\ t.done \in Nat
      /\ Len(Statements[t.request.op]) \in 1..4
    BY <1>3, <1>4, RequestOps, StatementOrder DEF ConnOK
<1>7. WorkMade(u) /\ Checked(u) /\ IsTables(u.work)
    BY <1>1, <1>2, <1>3, <1>4, <1>6, WorkKept DEF Progress, ConnOK
<1>8. ConnOK(u) /\ Progress(u)
    BY <1>3, <1>4, <1>5, <1>6, <1>7 DEF ConnOK, Progress
<1>9. u.base = db /\ \A d \in Conn \ {c} : ~tx[d].locked
    BY <1>1, <1>3, <1>4, <1>5 DEF MayWrite, TxInv, OneWriter
<1>10. QED
    BY <1>2, <1>5, <1>8, <1>9, StatementInv

-----------------------------------------------------------------------------
(* The invariant.                                                          *)

LEMMA TxInvInit == TxInit => TxInv
<1> SUFFICES ASSUME TxInit PROVE TxInv
    OBVIOUS
<1>1. \A c \in Conn : tx[c] = Idle(NoRequest, "none")
    BY DEF TxInit
<1>2. ConnOK(Idle(NoRequest, "none")) /\ Progress(Idle(NoRequest, "none")) /\ ~Idle(NoRequest, "none").locked
    BY IdleOK
<1>3. IsTables(db)
    BY DEF TxInit, NoTables, IsTables
<1>4. QED
    BY <1>1, <1>2, <1>3 DEF TxInit, TxInv, OneWriter

LEMMA TxInvKept == TxInv /\ [TxNext]_txVars => TxInv'
<1> SUFFICES ASSUME TxInv, [TxNext]_txVars PROVE TxInv'
    OBVIOUS
<1>1. CASE UNCHANGED txVars
    BY <1>1 DEF txVars, TxInv, OneWriter
<1>2. ASSUME NEW c \in Conn, NEW r \in Request, Begin(c, r)
      PROVE  TxInv'
    BY <1>2, BeginInv
<1>3. ASSUME NEW c \in Conn, Prepare(c)
      PROVE  TxInv'
    BY <1>3, PrepareInv
<1>4. ASSUME NEW c \in Conn, Write(c)
      PROVE  TxInv'
    BY <1>4, WriteInv
<1>5. ASSUME NEW c \in Conn,
             PrepareReplay(c) \/ PrepareRefused(c) \/ WriteRefused(c) \/ Commit(c) \/ Abort(c)
      PROVE  TxInv'
    BY <1>5, FinishInv DEF PrepareReplay, PrepareRefused, WriteRefused, Commit, Abort
<1>6. QED
    BY <1>1, <1>2, <1>3, <1>4, <1>5 DEF TxNext

\* Whatever the interleaving, a transaction that writes is on the last commit
\* and sees it with exactly what its statements made of it.
THEOREM TxInvariant == TxSpec => []TxInv
BY TxInvInit, TxInvKept, PTL DEF TxSpec

-----------------------------------------------------------------------------
(* What a whole request makes of the committed tables.                     *)

\* The arguments of the requests.
LEMMA RequestFields ==
    ASSUME NEW r \in Request
    PROVE  /\ r.op \in Ops
           /\ r.env \in Envelope /\ r.env.key \in Key /\ r.env.observed \in Observation
           /\ r.op = "store" => r.submission \in Submission
           /\ r.op # "store" =>
                 /\ r.id \in CandidateId
                 /\ NextState(r) \in State
                 /\ TriggerOf(r) \in Trigger \cup {NoTrigger}
                 /\ ObjectOf(r) \in ObjectId \cup {NoRef}
           /\ r.op = "transition" => r.context \in BOOLEAN
           /\ r.op = "reject" => r.supplied \in SuppressionKey \cup {NoSuppression} /\ r.context \in BOOLEAN
           /\ r.op = "admit" => r.payload \in RecordPayload /\ r.payload.id \in ObjectId
<1>1. CASE r \in StoreCalls
    BY <1>1 DEF StoreCalls, Ops, Envelope
<1>2. CASE r \in TransitionCalls
    BY <1>2 DEF TransitionCalls, Ops, Envelope, NextState, TriggerOf, ObjectOf
<1>3. CASE r \in RejectCalls
    BY <1>3 DEF RejectCalls, Ops, Envelope, NextState, TriggerOf, ObjectOf, State
<1>4. CASE r \in AdmitCalls
    BY <1>4, RecordPayloadShape DEF AdmitCalls, Ops, Envelope, NextState, TriggerOf, ObjectOf, State, ObjectPayload
<1>5. QED
    BY <1>1, <1>2, <1>3, <1>4, RequestShape

\* The rows of the candidates are those their payloads name.
Rows(table) ==
    /\ DOMAIN table \subseteq CandidateId
    /\ \A c \in DOMAIN table :
          /\ table[c].payload \in Candidate /\ table[c].payload.id = c
          /\ table[c] = RowOf(table[c].payload)

LEMMA LinkedAreLinks ==
    ASSUME NEW links \in Links, NEW key \in Key, NEW next \in State,
           NEW trigger \in Trigger \cup {NoTrigger}, NEW object \in ObjectId \cup {NoRef}
    PROVE  Linked(links, key, next, trigger, object) \in Links
BY DEF Linked, Links

\* The candidate a decision is made of is its row's but for the suppression key
\* a rejection gives it, which a second look at it leaves.
LEMMA ReadOfRow ==
    ASSUME NEW r \in Request, r.op # "store", NEW b, Rows(b.candidates), r.id \in DOMAIN b.candidates
    PROVE  LET row == b.candidates[r.id]
               read == ReadBy(r, b)
           IN  /\ read \in Candidate /\ read.id = r.id
               /\ read.state = row.state /\ read.state = row.payload.state
               /\ read.version = row.version /\ read.version = row.payload.version
               /\ read.version \in 1..MaxVersion
               /\ r.op # "reject" => read = row.payload
               /\ r.op = "reject" => /\ read = Keyed(row.payload, r.supplied)
                                     /\ read.suppression = SuppressionFor(row.payload, r.supplied)
                                     /\ SuppressionFor(read, r.supplied) = SuppressionFor(row.payload, r.supplied)
<1> DEFINE old == b.candidates[r.id].payload
<1>1. /\ old \in Candidate /\ old.id = r.id
      /\ b.candidates[r.id].state = old.state /\ b.candidates[r.id].version = old.version
      /\ old.version \in 1..MaxVersion
    <2>1. old \in Candidate /\ old.id = r.id /\ b.candidates[r.id] = RowOf(old)
        BY DEF Rows
    <2>2. RowOf(old).state = old.state /\ RowOf(old).version = old.version
        BY DEF RowOf
    <2>3. old.version \in 1..MaxVersion
        BY <2>1 DEF Candidate
    <2>4. QED
        BY <2>1, <2>2, <2>3
<1>2. CASE r.op # "reject"
    BY <1>1, <1>2 DEF ReadBy
<1>3. CASE r.op = "reject"
    <2>1. SuppressionFor(old, r.supplied) \in SuppressionKey
        BY <1>1, <1>3, RequestFields, DerivedKeyShape DEF SuppressionFor, Candidate
    <2> DEFINE read == Keyed(old, r.supplied)
    <2>2. /\ read \in Candidate /\ read.id = old.id /\ read.state = old.state /\ read.version = old.version
          /\ read.suppression = SuppressionFor(old, r.supplied)
        BY <1>1, <2>1 DEF Keyed, Candidate
    <2>3. SuppressionFor(read, r.supplied) = read.suppression
        BY <2>1, <2>2, AbsentValues DEF SuppressionFor
    <2>4. ReadBy(r, b) = read
        BY <1>3 DEF ReadBy
    <2>5. QED
        BY <1>1, <1>3, <2>2, <2>3, <2>4
<1>4. QED
    BY <1>2, <1>3

\* The decision made is a candidate, and the optimistic UPDATE finds its row.
LEMMA DecisionOfRow ==
    ASSUME NEW r \in Request, r.op # "store", NEW b, Rows(b.candidates), r.id \in DOMAIN b.candidates,
           CandidateChecked(r, b)
    PROVE  /\ MadeBy(r, b) \in Candidate /\ MadeBy(r, b).id = r.id
           /\ MadeBy(r, b).version = b.candidates[r.id].version + 1
           /\ CandidatesBy(r, b) = Put(b.candidates, r.id, RowOf(MadeBy(r, b)))
<1>1. PICK read : read = ReadBy(r, b)
    OBVIOUS
<1>2. /\ read \in Candidate /\ read.id = r.id
      /\ read.version = b.candidates[r.id].version /\ read.version \in 1..MaxVersion
    BY <1>1, ReadOfRow
<1>3. CanAdvance(read.version)
    BY <1>1 DEF CandidateChecked
<1>4. read.version + 1 \in 1..MaxVersion
    BY <1>2, <1>3, MaxVersionPositive DEF CanAdvance
<1>5. PICK links : links = Linked(read.links, r.env.key, NextState(r), TriggerOf(r), ObjectOf(r))
    OBVIOUS
<1>6. links \in Links
    BY <1>2, <1>5, RequestFields, LinkedAreLinks DEF Candidate
<1>7. MadeBy(r, b) = [read EXCEPT !.state = NextState(r), !.version = read.version + 1, !.links = links]
    BY <1>1, <1>5 DEF MadeBy, Decided
<1>8. /\ MadeBy(r, b) \in Candidate /\ MadeBy(r, b).id = r.id
      /\ MadeBy(r, b).version = read.version + 1
    BY <1>2, <1>4, <1>6, <1>7, RequestFields DEF Candidate
<1>9. CandidatesBy(r, b) = Put(b.candidates, r.id, RowOf(MadeBy(r, b)))
    BY <1>1, <1>2, <1>8 DEF CandidatesBy, UpdatedBy
<1>10. QED
    BY <1>2, <1>8, <1>9

\* A new proposal is a candidate.
LEMMA ProposalIsCandidate ==
    ASSUME NEW s \in Submission, s.version <= MaxVersion
    PROVE  /\ Proposed(s) \in Candidate /\ Proposed(s).id = s.id /\ Proposed(s).version = s.version
           /\ s.version \in 1..MaxVersion /\ s.id \in CandidateId
<1>1. /\ s.id \in CandidateId /\ s.version \in Nat \ {0}
      /\ s.suppression \in SuppressionKey \cup {NoSuppression} /\ s.content \in Content
    BY SubmissionShape
<1>2. s.version \in 1..MaxVersion
    BY <1>1, MaxVersionPositive
<1>3. NoLinks \in Links
    BY DEF NoLinks, Links
<1>4. "proposed" \in State
    BY DEF State
<1>5. QED
    BY <1>1, <1>2, <1>3, <1>4 DEF Proposed, Candidate

LEMMA RowsKept ==
    ASSUME NEW r \in Request, NEW b, Rows(b.candidates), PreparedOn(r, b), CandidateChecked(r, b)
    PROVE  Rows(CandidatesBy(r, b))
<1>1. ASSUME NEW c \in Candidate, CandidatesBy(r, b) = Put(b.candidates, c.id, RowOf(c))
      PROVE  Rows(CandidatesBy(r, b))
    BY <1>1 DEF Rows, Put, RowOf, Candidate
<1>2. CASE r.op = "store"
    <2>1. /\ Proposed(r.submission) \in Candidate
          /\ CandidatesBy(r, b) = Put(b.candidates, Proposed(r.submission).id, RowOf(Proposed(r.submission)))
        BY <1>2, RequestFields, ProposalIsCandidate DEF CandidatesBy, PreparedOn
    <2>2. QED
        BY <1>1, <2>1
<1>3. CASE r.op # "store"
    <2>1. r.id \in DOMAIN b.candidates
        BY <1>3 DEF PreparedOn
    <2>2. /\ MadeBy(r, b) \in Candidate
          /\ CandidatesBy(r, b) = Put(b.candidates, MadeBy(r, b).id, RowOf(MadeBy(r, b)))
        BY <1>3, <2>1, DecisionOfRow
    <2>3. QED
        BY <1>1, <2>2
<1>4. QED
    BY <1>2, <1>3

-----------------------------------------------------------------------------
(* A commit is one step of the review.                                     *)

\* The tables are what the whole request r makes of those it was checked on.
Whole(r) ==
    /\ PreparedOn(r, db) /\ CandidateChecked(r, db)
    /\ r.op = "admit" => ObjectChecked(r, db)
    /\ r.op = "reject" => SuppressionChecked(r, db)
    /\ r.op # "store" => EventChecked(r, db)
    /\ db'.objects = IF r.op = "admit" THEN ObjectsBy(r, db) ELSE db.objects
    /\ db'.suppressions = IF r.op = "reject" THEN SuppressionsBy(r, db) ELSE db.suppressions
    /\ db'.candidates = CandidatesBy(r, db)
    /\ db'.events = IF r.op # "store" THEN EventsBy(r, db) ELSE db.events
    /\ db'.ledger = LedgerBy(r, db)

\* A transaction commits all of its request or nothing; one that has written
\* nothing, and one that fails, commits nothing.
LEMMA CommitIsWhole ==
    ASSUME TxInv, NEW c \in Conn, Commit(c)
    PROVE  tx[c].request \in Request /\ Whole(tx[c].request)
<1>1. PICK t : t = tx[c]
    OBVIOUS
<1>2. /\ ConnOK(t) /\ Progress(t) /\ (t.locked => t.base = db)
      /\ t.open /\ t.prepared /\ t.done = Len(Statements[t.request.op])
      /\ db' = IF t.locked THEN t.work ELSE db
    BY <1>1 DEF TxInv, Commit, Finish, Pending
<1>3. t.request \in Request /\ t.request.op \in Ops /\ t.done \in 1..4
    BY <1>2, RequestOps, StatementOrder DEF ConnOK
<1>4. t.locked /\ t.base = db /\ db' = t.work
    <2>1. ~t.locked => t.done = 0
        BY <1>2 DEF ConnOK
    <2>2. t.done # 0
        BY <1>3
    <2>3. QED
        BY <1>2, <2>1, <2>2
<1>5. Made(t.request, t.base, t.work, t.done) /\ Checked(t)
    BY <1>2 DEF Progress, WorkMade
<1> DEFINE r == t.request
<1>6. /\ Did(r.op, t.done, "candidate") /\ Did(r.op, t.done, "receipt")
      /\ Did(r.op, t.done, "object") <=> r.op = "admit"
      /\ Did(r.op, t.done, "suppression") <=> r.op = "reject"
      /\ Did(r.op, t.done, "event") <=> r.op # "store"
    BY <1>2, <1>3, AllDone
<1>7. /\ PreparedOn(r, db) /\ CandidateChecked(r, db)
      /\ r.op = "admit" => ObjectChecked(r, db)
      /\ r.op = "reject" => SuppressionChecked(r, db)
      /\ r.op # "store" => EventChecked(r, db)
    BY <1>4, <1>5, <1>6 DEF Checked
<1>8. /\ db'.objects = IF r.op = "admit" THEN ObjectsBy(r, db) ELSE db.objects
      /\ db'.suppressions = IF r.op = "reject" THEN SuppressionsBy(r, db) ELSE db.suppressions
      /\ db'.candidates = CandidatesBy(r, db)
      /\ db'.events = IF r.op # "store" THEN EventsBy(r, db) ELSE db.events
      /\ db'.ledger = LedgerBy(r, db)
    BY <1>4, <1>5, <1>6 DEF Made
<1>9. QED
    BY <1>1, <1>3, <1>7, <1>8 DEF Whole

\* A replay commits nothing.
LEMMA ReplayCommitsNothing ==
    ASSUME TxInv, NEW c \in Conn, PrepareReplay(c)
    PROVE  db' = db
BY DEF TxInv, ConnOK, PrepareReplay, Finish

\* The checks of the writers, as CandidateReview states them.
LEMMA FreshEnvelope ==
    ASSUME NEW r, PreparedOn(r, db)
    PROVE  Committed!Fresh(r.env)
BY DEF PreparedOn, Committed!Fresh, Committed!PreconditionsHold, PreconditionsHold,
       Committed!CurrentRef, CurrentRef, Committed!Absent, Absent

LEMMA WholeStore ==
    ASSUME NEW r \in Request, r.op = "store", Rows(db.candidates), Whole(r)
    PROVE  Committed!StoreAdvisoryCandidate(r.env, r.submission)
<1> DEFINE s == r.submission
<1>1. Committed!Fresh(r.env) /\ s.version <= MaxVersion /\ s.id \notin DOMAIN db.candidates
    BY FreshEnvelope DEF Whole, PreparedOn, CandidateChecked
<1>2. db'.candidates = Put(db.candidates, s.id, RowOf(Proposed(s)))
    BY DEF Whole, CandidatesBy
<1>3. db'.candidates[s.id].version = s.version
    BY <1>2 DEF Put, RowOf, Proposed
<1>4. ReceiptBy(r, db) = [payload |-> StoreRequest(s), id |-> s.id, version |-> ResultVersion(s.version),
                          observed |-> r.env.observed]
    BY <1>3 DEF ReceiptBy, ResultOf, Requested, Whole
<1>5. Committed!Record(r.env, StoreRequest(s), s.id, ResultVersion(s.version))
    BY <1>4 DEF Committed!Record, Committed!Put, Put, Whole, LedgerBy
<1>6. db'.objects = db.objects /\ db'.events = db.events /\ db'.suppressions = db.suppressions
    BY DEF Whole
<1>7. QED
    BY <1>1, <1>2, <1>5, <1>6
       DEF Committed!StoreAdvisoryCandidate, Committed!Put, Put, Committed!RowOf, RowOf,
           Committed!Proposed, Proposed, Committed!NoLinks, NoLinks, Committed!StoreRequest, StoreRequest,
           Committed!ResultVersion, ResultVersion

\* The receipt of a decision: the version of the row it made, negated.
LEMMA DecisionReceipt ==
    ASSUME NEW r \in Request, r.op \in {"transition", "reject"}, Whole(r)
    PROVE  Committed!RecordDecision(r.env, Requested(r), r.id)
<1>1. db'.candidates = CandidatesBy(r, db) /\ db'.ledger = LedgerBy(r, db)
    BY DEF Whole
<1>2. ReceiptBy(r, db) = [payload |-> Requested(r), id |-> r.id, observed |-> r.env.observed,
                          version |-> ResultVersion(db'.candidates[r.id].version)]
    BY <1>1 DEF ReceiptBy, ResultOf
<1>3. QED
    BY <1>1, <1>2 DEF LedgerBy, Put, Committed!RecordDecision, Committed!Record, Committed!Put,
                      ResultVersion, Committed!ResultVersion

\* write_decision, on the candidate the request read.
LEMMA DecisionWritten ==
    ASSUME NEW r \in Request, r.op # "store", Rows(db.candidates), Whole(r)
    PROVE  Committed!WriteDecision(r.env, ReadBy(r, db), NextState(r), TriggerOf(r), ObjectOf(r))
<1>1. PICK read : read = ReadBy(r, db)
    OBVIOUS
<1>2. PICK made : made = MadeBy(r, db)
    OBVIOUS
<1>3. /\ r.id \in DOMAIN db.candidates
      /\ Transition(db.candidates[r.id].state, NextState(r), TriggerOf(r))
      /\ CanAdvance(read.version) /\ Valid(made)
      /\ r.env.key \notin DOMAIN db.events
      /\ db'.candidates = CandidatesBy(r, db)
      /\ db'.events = EventsBy(r, db)
    BY <1>1, <1>2 DEF Whole, PreparedOn, CandidateChecked, EventChecked
<1>4. read.id = r.id /\ read.state = db.candidates[r.id].state
    BY <1>1, <1>3, ReadOfRow
<1>5. made = Committed!Decided(read, r.env.key, NextState(r), TriggerOf(r), ObjectOf(r))
    BY <1>1, <1>2 DEF MadeBy, Decided, Committed!Decided, Linked, Committed!Linked
<1>6. Committed!Transition(read.state, NextState(r), TriggerOf(r)) /\ Committed!CanAdvance(read.version)
      /\ Committed!Valid(made)
    BY <1>3, <1>4 DEF Transition, Committed!Transition, CanAdvance, Committed!CanAdvance, Valid, Committed!Valid
<1>7. db'.candidates = Committed!Updated(made, read.version)
    BY <1>1, <1>2, <1>3 DEF CandidatesBy, UpdatedBy, Committed!Updated, Put, Committed!Put, RowOf, Committed!RowOf
<1>8. db'.events = Committed!Put(db.events, r.env.key,
                       [candidate |-> read.id, from |-> read.state, to |-> NextState(r),
                        trigger |-> TriggerOf(r), observed |-> read.version, object |-> ObjectOf(r)])
    BY <1>1, <1>3, <1>4 DEF EventsBy, Put, Committed!Put
<1>9. QED
    BY <1>1, <1>3, <1>5, <1>6, <1>7, <1>8 DEF Committed!WriteDecision

LEMMA ObservedAtRow ==
    ASSUME NEW r \in Request, r.op # "store", Rows(db.candidates), Whole(r)
    PROVE  /\ Committed!ObservedCandidate(r.id, r.observed)
           /\ r.observed \in 1..MaxVersion /\ r.id \in CandidateId
<1>1. r.id \in DOMAIN db.candidates /\ db.candidates[r.id].version = r.observed
    BY DEF Whole, PreparedOn
<1>2. ReadBy(r, db).version = db.candidates[r.id].version /\ ReadBy(r, db).version \in 1..MaxVersion
    BY <1>1, ReadOfRow
<1>3. QED
    BY <1>1, <1>2, RequestFields DEF Committed!ObservedCandidate

LEMMA WholeTransition ==
    ASSUME NEW r \in Request, r.op = "transition", Rows(db.candidates), Whole(r)
    PROVE  Committed!TransitionAdvisoryCandidate(r.env, r.id, r.observed, r.next, r.trigger, r.context)
<1>1. Committed!Fresh(r.env)
    BY FreshEnvelope DEF Whole
<1>2. Committed!ObservedCandidate(r.id, r.observed)
    BY ObservedAtRow
<1>3. r.next \notin Committed!Dedicated /\ r.id \in DOMAIN db.candidates
    BY DEF Whole, PreparedOn, Committed!Dedicated
<1>4. /\ ReadBy(r, db) = db.candidates[r.id].payload
      /\ NextState(r) = r.next /\ TriggerOf(r) = r.trigger /\ ObjectOf(r) = NoRef
    BY DEF ReadBy, NextState, TriggerOf, ObjectOf
<1>5. Committed!WriteDecision(r.env, db.candidates[r.id].payload, r.next, r.trigger, NoRef)
    BY <1>4, DecisionWritten
<1>6. Requested(r) = Committed!TransitionRequest(r.id, r.observed, r.next, r.trigger, r.context)
    BY DEF Requested, TransitionRequest, Committed!TransitionRequest
<1>7. db'.objects = db.objects /\ db'.suppressions = db.suppressions
    BY DEF Whole
<1>8. QED
    BY <1>1, <1>2, <1>3, <1>5, <1>6, <1>7, DecisionReceipt DEF Committed!TransitionAdvisoryCandidate

LEMMA WholeReject ==
    ASSUME NEW r \in Request, r.op = "reject", Rows(db.candidates), Whole(r)
    PROVE  Committed!RejectAdvisoryCandidate(r.env, r.id, r.observed, r.supplied, r.context)
<1> DEFINE old == db.candidates[r.id].payload
<1>1. Committed!Fresh(r.env)
    BY FreshEnvelope DEF Whole
<1>2. Committed!ObservedCandidate(r.id, r.observed)
    BY ObservedAtRow
<1>3. PICK key : key = SuppressionFor(old, r.supplied)
    OBVIOUS
<1>4. /\ ReadBy(r, db) = Keyed(old, r.supplied)
      /\ ReadBy(r, db).suppression = key
      /\ SuppressionFor(ReadBy(r, db), r.supplied) = key
    BY <1>3, ReadOfRow DEF Whole, PreparedOn
<1>5. /\ r.supplied \in {NoSuppression, key}
      /\ r.context \/ key \notin DOMAIN db.suppressions
      /\ db'.suppressions = Put(db.suppressions, key, [candidate |-> r.id, decision |-> r.env.key])
      /\ db'.objects = db.objects
    BY <1>4 DEF Whole, PreparedOn, SuppressionChecked, SuppressionsBy
<1>6. key = Committed!SuppressionFor(old, r.supplied) /\ Keyed(old, r.supplied) = Committed!Keyed(old, r.supplied)
    BY <1>3 DEF SuppressionFor, Committed!SuppressionFor, Keyed, Committed!Keyed
<1>7. NextState(r) = "rejected" /\ TriggerOf(r) = NoTrigger /\ ObjectOf(r) = NoRef
    BY DEF NextState, TriggerOf, ObjectOf
<1>8. Committed!WriteDecision(r.env, Committed!Keyed(old, r.supplied), "rejected", NoTrigger, NoRef)
    BY <1>4, <1>6, <1>7, DecisionWritten
<1>9. Requested(r) = Committed!RejectRequest(r.id, r.observed, r.supplied, r.context)
    BY DEF Requested, RejectRequest, Committed!RejectRequest
<1>10. Committed!RecordDecision(r.env, Committed!RejectRequest(r.id, r.observed, r.supplied, r.context), r.id)
    BY <1>9, DecisionReceipt
<1>11. Committed!MayRecordSuppression(key, r.context)
    BY <1>5 DEF Committed!MayRecordSuppression
<1>12. db'.suppressions = Committed!Put(db.suppressions, key, [candidate |-> r.id, decision |-> r.env.key])
    BY <1>5 DEF Put, Committed!Put
<1>13. QED
    BY <1>1, <1>2, <1>5, <1>6, <1>8, <1>10, <1>11, <1>12 DEF Committed!RejectAdvisoryCandidate

LEMMA WholeAdmission ==
    ASSUME NEW r \in Request, r.op = "admit", Rows(db.candidates), Whole(r)
    PROVE  Committed!AdmitAdvisoryCandidate(r.env, r.id, r.observed, r.payload)
<1> DEFINE p == r.payload
           version == NextVersion(r.env.observed[p.id])
<1>1. Committed!Fresh(r.env)
    BY FreshEnvelope DEF Whole
<1>2. Committed!ObservedCandidate(r.id, r.observed)
    BY ObservedAtRow
<1>3. ReadBy(r, db) = db.candidates[r.id].payload
      /\ NextState(r) = "admitted" /\ TriggerOf(r) = NoTrigger /\ ObjectOf(r) = p.id
    BY DEF ReadBy, NextState, TriggerOf, ObjectOf
<1>4. Committed!WriteDecision(r.env, db.candidates[r.id].payload, "admitted", NoTrigger, p.id)
    BY <1>3, DecisionWritten
<1>5. ObjectChecked(r, db) /\ db'.objects = ObjectsBy(r, db) /\ db'.ledger = LedgerBy(r, db)
      /\ db'.suppressions = db.suppressions
    BY DEF Whole
<1>6. /\ p.id \in DOMAIN r.env.observed
      /\ Committed!OccurrenceFree(r.env, p.id, p)
      /\ Committed!CanAdvance(r.env.observed[p.id])
    BY <1>5 DEF ObjectChecked, Committed!OccurrenceFree, Committed!OccurrenceHeld, OccurrenceHeld,
                CanAdvance, Committed!CanAdvance
<1>7. version = Committed!NextVersion(r.env.observed[p.id])
    BY DEF NextVersion, Committed!NextVersion, Absent, Committed!Absent
<1>8. db'.objects = Committed!Put(db.objects, p.id, [payload |-> p, version |-> version])
    BY <1>5 DEF ObjectsBy, Put, Committed!Put
<1>9. ReceiptBy(r, db) = [payload |-> p, id |-> p.id, version |-> version, observed |-> r.env.observed]
    <2>1. ObjectsBy(r, db)[p.id].version = version
        BY DEF ObjectsBy, Put
    <2>2. Requested(r) = p /\ ResultOf(r) = p.id
        BY DEF Requested, ResultOf
    <2>3. QED
        BY <2>1, <2>2 DEF ReceiptBy
<1>10. Committed!Record(r.env, p, p.id, version)
    BY <1>5, <1>9 DEF LedgerBy, Put, Committed!Record, Committed!Put
<1> HIDE DEF version
<1>11. Committed!WriteObject(r.env, p.id, p, p)
    BY <1>6, <1>7, <1>8, <1>10 DEF Committed!WriteObject
<1>12. QED
    BY <1>1, <1>2, <1>4, <1>5, <1>11 DEF Committed!AdmitAdvisoryCandidate

\* The request committed is one of the steps of the review.
LEMMA WholeIsStep ==
    ASSUME NEW r \in Request, Rows(db.candidates), Whole(r)
    PROVE  Committed!ReviewNext
<1>1. CASE r.op = "store"
    <2>1. Committed!StoreAdvisoryCandidate(r.env, r.submission)
        BY <1>1, WholeStore
    <2>2. r.env \in Committed!Envelope /\ r.submission \in Submission
        BY <1>1, RequestFields DEF Envelope, Committed!Envelope, Key, Committed!Key
    <2>3. QED
        BY <2>1, <2>2 DEF Committed!ReviewNext
<1>2. CASE r.op # "store"
    <2>1. Committed!Decide(r.env, r.id, r.observed)
        <3>1. CASE r.op = "transition"
            <4>1. Committed!TransitionAdvisoryCandidate(r.env, r.id, r.observed, r.next, r.trigger, r.context)
                BY <3>1, WholeTransition
            <4>2. r.next \in Committed!State /\ r.trigger \in Trigger \cup {NoTrigger} /\ r.context \in BOOLEAN
                BY <3>1, RequestFields DEF NextState, TriggerOf, State, Committed!State
            <4>3. QED
                BY <4>1, <4>2 DEF Committed!Decide
        <3>2. CASE r.op = "reject"
            <4>1. Committed!RejectAdvisoryCandidate(r.env, r.id, r.observed, r.supplied, r.context)
                BY <3>2, WholeReject
            <4>2. r.supplied \in SuppressionKey \cup {NoSuppression} /\ r.context \in BOOLEAN
                BY <3>2, RequestFields
            <4>3. QED
                BY <4>1, <4>2 DEF Committed!Decide
        <3>3. CASE r.op = "admit"
            <4>1. Committed!AdmitAdvisoryCandidate(r.env, r.id, r.observed, r.payload)
                BY <3>3, WholeAdmission
            <4>2. r.payload \in RecordPayload
                BY <3>3, RequestFields
            <4>3. QED
                BY <4>1, <4>2 DEF Committed!Decide
        <3>4. QED
            BY <1>2, <3>1, <3>2, <3>3, RequestFields DEF Ops
    <2>2. r.env \in Committed!Envelope /\ r.id \in CandidateId /\ r.observed \in 1..MaxVersion
        BY <1>2, RequestFields, ObservedAtRow DEF Envelope, Committed!Envelope, Key, Committed!Key
    <2>3. QED
        BY <2>1, <2>2 DEF Committed!ReviewNext
<1>3. QED
    BY <1>1, <1>2

\* Only commits write the committed tables.
LEMMA WhoCommits ==
    ASSUME TxInv, [TxNext]_txVars
    PROVE  db' = db \/ \E c \in Conn : Commit(c)
<1>1. ASSUME NEW c \in Conn, PrepareRefused(c) \/ WriteRefused(c) \/ Abort(c)
      PROVE  db' = db
    BY <1>1 DEF PrepareRefused, WriteRefused, Abort, Finish
<1>2. ASSUME NEW c \in Conn, (\E r \in Request : Begin(c, r)) \/ Prepare(c) \/ Write(c)
      PROVE  db' = db
    BY <1>2 DEF Begin, Prepare, Write
<1>3. CASE UNCHANGED txVars
    BY <1>3 DEF txVars
<1>4. QED
    BY <1>1, <1>2, <1>3, ReplayCommitsNothing DEF TxNext

LEMMA StepRefines ==
    ASSUME TxInv, Rows(db.candidates), [TxNext]_txVars
    PROVE  [Committed!ReviewNext]_(Committed!allVars) /\ Rows(db'.candidates)
<1>1. CASE db' = db
    BY <1>1 DEF Committed!allVars, Committed!vars, Committed!reviewVars
<1>2. ASSUME NEW c \in Conn, Commit(c)
      PROVE  Committed!ReviewNext /\ Rows(db'.candidates)
    <2>1. PICK r \in Request : Whole(r)
        BY <1>2, CommitIsWhole
    <2>2. db'.candidates = CandidatesBy(r, db) /\ PreparedOn(r, db) /\ CandidateChecked(r, db)
        BY <2>1 DEF Whole
    <2>3. Rows(db'.candidates)
        BY <2>2, RowsKept
    <2>4. QED
        BY <2>1, <2>3, WholeIsStep
<1>3. QED
    BY <1>1, <1>2, WhoCommits

\* However the statements of any number of connections interleave, are refused
\* half way, fail or are cut off, each commit is one step of the review, and
\* nothing else changes what is committed.
THEOREM CommitsAreReviewSteps == TxSpec => CommitsImplementReview
<1>1. TxInit => Committed!ReviewInit /\ Rows(db.candidates)
    BY DEF TxInit, NoTables, Rows, Empty, Committed!ReviewInit, Committed!Init, Committed!Empty
<1>2. TxInv /\ Rows(db.candidates) /\ [TxNext]_txVars
          => [Committed!ReviewNext]_(Committed!allVars) /\ (Rows(db.candidates))'
    BY StepRefines DEF Rows
<1>3. QED
    BY <1>1, <1>2, TxInvariant, PTL DEF TxSpec, CommitsImplementReview, Committed!ReviewSpec

-----------------------------------------------------------------------------
(* A decision on record is answered.                                       *)

\* The receipt of a decision answers the requests of its own kind only: an
\* object's for an admission, a candidate's for every other.
Proves(event, receipt) ==
    /\ event.to = "admitted" =>
          receipt.version > 0 /\ receipt.id = event.object /\ receipt.payload.id \in ObjectId
    /\ event.to # "admitted" =>
          receipt.version < 0 /\ receipt.id \in CandidateId /\ receipt.payload.id \in CandidateId

Evidence(b) == \A k \in DOMAIN b.events : k \in DOMAIN b.ledger /\ Proves(b.events[k], b.ledger[k])

\* Every snapshot has the evidence, and its transaction is not answered yet.
Answering ==
    /\ Evidence(db)
    /\ \A c \in Conn : tx[c].open => Evidence(tx[c].base) /\ tx[c].answer = "none"

LEMMA EvidenceKept ==
    ASSUME NEW r \in Request, Rows(db.candidates), Evidence(db), Whole(r)
    PROVE  Evidence(db')
<1> DEFINE key == r.env.key
<1>1. /\ key \notin DOMAIN db.ledger
      /\ db'.ledger = Put(db.ledger, key, ReceiptBy(r, db))
      /\ db'.events = IF r.op # "store" THEN EventsBy(r, db) ELSE db.events
    BY DEF Whole, PreparedOn, LedgerBy
<1>2. /\ DOMAIN db'.ledger = DOMAIN db.ledger \cup {key}
      /\ db'.ledger[key] = ReceiptBy(r, db)
      /\ \A k \in DOMAIN db.ledger : db'.ledger[k] = db.ledger[k]
    BY <1>1 DEF Put
<1>3. CASE r.op = "store"
    BY <1>1, <1>2, <1>3 DEF Evidence
<1>4. CASE r.op # "store"
    <2>1. /\ DOMAIN db'.events = DOMAIN db.events \cup {key}
          /\ db'.events[key].to = NextState(r) /\ db'.events[key].object = ObjectOf(r)
          /\ \A k \in DOMAIN db.events \ {key} : db'.events[k] = db.events[k]
        BY <1>1, <1>4 DEF EventsBy, Put
    <2>2. ReceiptBy(r, db).payload = Requested(r) /\ ReceiptBy(r, db).id = ResultOf(r)
        BY DEF ReceiptBy
    <2>3. Proves(db'.events[key], ReceiptBy(r, db))
        <3>1. CASE r.op = "admit"
            <4>1. ReceiptBy(r, db).version = NextVersion(r.env.observed[r.payload.id])
                BY <3>1 DEF ReceiptBy, ObjectsBy, Put
            <4>2. r.payload.id \in DOMAIN r.env.observed
                BY <3>1 DEF Whole, ObjectChecked
            <4>3. r.env.observed[r.payload.id] \in VersionRef
                <5>1. r.env.observed \in Observation
                    BY RequestFields
                <5>2. PICK seen \in SUBSET ObjectId : r.env.observed \in [seen -> VersionRef]
                    BY <5>1, ObservationShape
                <5>3. QED
                    BY <4>2, <5>2
            <4>4. ReceiptBy(r, db).version > 0
                BY <4>1, <4>3 DEF VersionRef, Absent, NextVersion
            <4>5. /\ Requested(r) = r.payload /\ ResultOf(r) = r.payload.id /\ r.payload.id \in ObjectId
                  /\ NextState(r) = "admitted" /\ ObjectOf(r) = r.payload.id
                BY <3>1, RequestFields DEF Requested, ResultOf, NextState, ObjectOf
            <4>6. QED
                BY <2>1, <2>2, <4>4, <4>5 DEF Proves
        <3>2. CASE r.op # "admit"
            <4>1. r.id \in DOMAIN db.candidates
                BY <1>4 DEF Whole, PreparedOn
            <4>2. CandidatesBy(r, db)[r.id].version = MadeBy(r, db).version
                  /\ MadeBy(r, db).version \in 1..MaxVersion
                <5>1. /\ MadeBy(r, db) \in Candidate
                      /\ CandidatesBy(r, db) = Put(db.candidates, r.id, RowOf(MadeBy(r, db)))
                    BY <1>4, <4>1, DecisionOfRow DEF Whole
                <5>2. QED
                    BY <5>1 DEF Put, RowOf, Candidate
            <4>3. ResultOf(r) = r.id
                BY <1>4, <3>2 DEF ResultOf
            <4>4. ReceiptBy(r, db).version < 0
                BY <3>2, <4>2, <4>3, MaxVersionPositive DEF ReceiptBy, ResultVersion
            <4>5. NextState(r) # "admitted"
                BY <1>4, <3>2, RequestFields DEF NextState, Whole, PreparedOn, Ops
            <4>6. Requested(r).id = r.id /\ r.id \in CandidateId
                BY <1>4, <3>2, RequestFields DEF Requested, TransitionRequest, RejectRequest, Ops
            <4>7. QED
                BY <2>1, <2>2, <4>3, <4>4, <4>5, <4>6 DEF Proves
        <3>3. QED
            BY <3>1, <3>2
    <2>4. QED
        BY <1>2, <2>1, <2>3 DEF Evidence
<1>5. QED
    BY <1>3, <1>4

\* What a step is to one connection.
LEMMA StepOfOne ==
    ASSUME TxInv, [TxNext]_txVars, NEW d \in Conn
    PROVE  \/ tx'[d] = tx[d]
           \/ \E r \in Request : Begin(d, r)
           \/ Prepare(d) \/ Write(d)
           \/ PrepareRefused(d) \/ WriteRefused(d)
           \/ \E answer \in {"ok", "failed"} : Finish(d, answer)
<1>1. CASE UNCHANGED txVars
    BY <1>1 DEF txVars
<1>2. ASSUME NEW c \in Conn, c # d, NEW answer, Finish(c, answer)
      PROVE  tx'[d] = tx[d]
    BY <1>2 DEF Finish, TxInv
<1>3. ASSUME NEW c \in Conn, c # d,
             (\E r \in Request : Begin(c, r)) \/ Prepare(c) \/ Write(c)
      PROVE  tx'[d] = tx[d]
    BY <1>3 DEF Begin, Prepare, Write, TxInv
<1>4. ASSUME NEW c \in Conn, PrepareReplay(c) \/ Commit(c) \/ Abort(c)
      PROVE  \E answer \in {"ok", "failed"} : Finish(c, answer)
    BY <1>4 DEF PrepareReplay, Commit, Abort
<1>5. ASSUME NEW c \in Conn, PrepareRefused(c) \/ WriteRefused(c)
      PROVE  Finish(c, "refused")
    BY <1>5 DEF PrepareRefused, WriteRefused
<1>6. QED
    BY <1>1, <1>2, <1>3, <1>4, <1>5 DEF TxNext

\* A transaction that goes on keeps its snapshot and is not answered.
LEMMA AnswerKept ==
    ASSUME TxInv, NEW d \in Conn, Prepare(d) \/ Write(d)
    PROVE  tx[d].open /\ tx'[d].base = tx[d].base /\ tx'[d].answer = tx[d].answer
<1>1. IsConn(tx[d])
    BY DEF TxInv, ConnOK
<1>2. CASE Prepare(d)
    BY <1>1, <1>2 DEF Prepare, TxInv, IsConn
<1>3. CASE Write(d)
    <2> DEFINE written == Written(d)
    <2>1. tx' = [tx EXCEPT ![d].work = written, ![d].locked = TRUE, ![d].done = @ + 1] /\ tx[d].open
        BY <1>3 DEF Write, AtWrite
    <2> HIDE DEF written
    <2>2. QED
        BY <1>1, <2>1 DEF TxInv, IsConn
<1>4. QED
    BY <1>2, <1>3

LEMMA AnsweringKept ==
    ASSUME TxInv, Rows(db.candidates), Answering, [TxNext]_txVars
    PROVE  Answering'
<1>1. Evidence(db')
    BY WhoCommits, CommitIsWhole, EvidenceKept DEF Answering
<1>2. ASSUME NEW d \in Conn, tx'[d].open
      PROVE  Evidence(tx'[d].base) /\ tx'[d].answer = "none"
    <2>1. CASE tx'[d] = tx[d]
        BY <1>2, <2>1 DEF Answering
    <2>2. ASSUME NEW r \in Request, Begin(d, r)
          PROVE  tx'[d].base = db /\ tx'[d].answer = "none"
        BY <2>2 DEF Begin, Idle, TxInv
    <2>3. CASE Prepare(d) \/ Write(d)
        BY <2>3, AnswerKept DEF Answering
    <2>4. ASSUME NEW answer, Finish(d, answer)
          PROVE  FALSE
        BY <1>2, <2>4 DEF Finish, Idle, TxInv
    <2>5. CASE PrepareRefused(d) \/ WriteRefused(d)
        BY <2>4, <2>5 DEF PrepareRefused, WriteRefused
    <2>6. QED
        BY <2>1, <2>2, <2>3, <2>4, <2>5, StepOfOne DEF Answering
<1>3. QED
    BY <1>1, <1>2 DEF Answering

\* A refusal is not to the caller of a decision on record.
LEMMA RefusalsAreFair ==
    ASSUME TxInv, Answering, NEW c \in Conn, PrepareRefused(c) \/ WriteRefused(c), tx[c].request.op # "store",
           tx[c].request.env.key \in DOMAIN tx[c].base.events,
           tx[c].base.events[tx[c].request.env.key].candidate = tx[c].request.id,
           tx[c].base.events[tx[c].request.env.key].observed = tx[c].request.observed,
           tx[c].base.ledger[tx[c].request.env.key].payload = Requested(tx[c].request)
    PROVE  FALSE
<1>1. PICK t : t = tx[c]
    OBVIOUS
<1> DEFINE r == t.request
           b == t.base
           key == r.env.key
           event == b.events[key]
           receipt == b.ledger[key]
<1>2. ConnOK(t) /\ Progress(t) /\ t.open
    BY <1>1 DEF TxInv, PrepareRefused, WriteRefused, AtWrite
<1>3. r \in Request
    BY <1>2 DEF ConnOK
<1>4. key \in DOMAIN b.ledger /\ Proves(event, receipt)
    BY <1>1, <1>2 DEF Answering, Evidence
<1>5. CASE WriteRefused(c)
    <2>1. PreparedOn(r, b)
        BY <1>1, <1>2, <1>5 DEF WriteRefused, AtWrite, Progress, Checked
    <2>2. QED
        BY <1>4, <2>1 DEF PreparedOn
<1>6. CASE PrepareRefused(c)
    <2>1. t.work = b
        BY <1>1, <1>2, <1>6 DEF PrepareRefused, ConnOK
    <2>2. event.candidate = r.id /\ event.observed = r.observed /\ receipt.payload = Requested(r)
        BY <1>1
    <2>3. CASE r.op = "admit"
        <3>1. Requested(r).id \in ObjectId
            BY <1>3, <2>3, RequestFields DEF Requested
        <3>2. event.to = "admitted"
            BY <1>4, <2>2, <3>1, IdsDisjoint DEF Proves
        <3>3. receipt.version > 0 /\ receipt.id = event.object
            BY <1>4, <3>2 DEF Proves
        <3>4. Answerable(c)
            BY <1>1, <1>4, <2>1, <2>2, <2>3, <3>2, <3>3
               DEF Answerable, Evidence, Seen!Replays, Seen!Accepts, Seen!AdmissionReplays
        <3>5. QED
            BY <1>6, <3>4 DEF PrepareRefused
    <2>4. CASE r.op # "admit"
        <3>1. Requested(r).id \in CandidateId
            BY <1>1, <1>3, <2>4, RequestFields DEF Requested, TransitionRequest, RejectRequest, Ops
        <3>2. event.to # "admitted"
            BY <1>4, <2>2, <3>1, IdsDisjoint DEF Proves
        <3>3. receipt.version < 0 /\ receipt.id \in CandidateId
            BY <1>4, <3>2 DEF Proves
        <3>4. Answerable(c)
            BY <1>1, <1>4, <2>1, <2>2, <2>4, <3>3 DEF Answerable, Seen!Replays, Seen!Accepts
        <3>5. QED
            BY <1>6, <3>4 DEF PrepareRefused
    <2>5. QED
        BY <2>3, <2>4
<1>7. QED
    BY <1>5, <1>6

\* A caller that asks again for a decision that its snapshot has on record is
\* answered, whatever has been decided since and by whom.
THEOREM RepeatedDecisionsAnswered == TxSpec => RecordedDecisionsAreAnswered
<1>1. TxInit => Rows(db.candidates) /\ Answering
    <2> SUFFICES ASSUME TxInit PROVE Rows(db.candidates) /\ Answering
        OBVIOUS
    <2>1. \A c \in Conn : tx[c] = Idle(NoRequest, "none")
        BY DEF TxInit
    <2>2. ~Idle(NoRequest, "none").open
        BY DEF Idle
    <2>3. QED
        BY <2>1, <2>2 DEF TxInit, NoTables, Rows, Empty, Answering, Evidence
<1>2. TxInv /\ Rows(db.candidates) /\ Answering /\ [TxNext]_txVars
          => (Rows(db.candidates))' /\ Answering'
    BY StepRefines, AnsweringKept DEF Rows
<1> DEFINE Answered(c) ==
        LET r == tx[c].request
        IN  tx[c].open /\ tx'[c].answer = "refused" /\ r.op # "store" =>
               ~\E k \in DOMAIN tx[c].base.events :
                   /\ k = r.env.key
                   /\ tx[c].base.events[k].candidate = r.id
                   /\ tx[c].base.events[k].observed = r.observed
                   /\ tx[c].base.ledger[k].payload = Requested(r)
<1>3. ASSUME TxInv, Answering, [TxNext]_txVars, NEW c \in Conn
      PROVE  Answered(c)
    <2> SUFFICES ASSUME tx[c].open, tx'[c].answer = "refused", ~(PrepareRefused(c) \/ WriteRefused(c))
                 PROVE  FALSE
        BY <1>3, RefusalsAreFair
    <2>1. tx[c].answer = "none"
        BY <1>3 DEF Answering
    <2>2. CASE tx'[c] = tx[c]
        BY <2>1, <2>2
    <2>3. ASSUME NEW r \in Request, Begin(c, r)
          PROVE  FALSE
        BY <2>3 DEF Begin
    <2>4. CASE Prepare(c) \/ Write(c)
        BY <1>3, <2>1, <2>4, AnswerKept
    <2>5. ASSUME NEW answer \in {"ok", "failed"}, Finish(c, answer)
          PROVE  FALSE
        BY <1>3, <2>5 DEF Finish, Idle, TxInv
    <2>6. QED
        BY <1>3, <2>2, <2>3, <2>4, <2>5, StepOfOne
<1>4. TxInv /\ Answering /\ [TxNext]_txVars => [\A c \in Conn : Answered(c)]_txVars
    BY <1>3
<1>5. QED
    BY <1>1, <1>2, <1>4, TxInvariant, PTL DEF TxSpec, RecordedDecisionsAreAnswered
=============================================================================
