---------------------- MODULE StoreTransactionsProofs ----------------------
(***************************************************************************)
(* Invariants of StoreTransactions and of RetryClients over it, proved for *)
(* every set of connections and requests.                                  *)
(*                                                                         *)
(* TxInv is the lock discipline and what a transaction has done so far.    *)
(* With it the statements are looked at through Live, the tables of the    *)
(* connection that holds the write lock, its next receipt included: there  *)
(* each row written is one step of CanonicalStore, everything else changes *)
(* nothing, a commit makes Live the committed tables and a rollback makes  *)
(* the committed tables Live.  So both keep what CanonicalStore keeps.     *)
(*                                                                         *)
(* ClientInv is what the callers add: a request is recorded whole or not   *)
(* at all, only its own connection changes that, and the ledger answers    *)
(* each write of a request it has recorded.                                *)
(***************************************************************************)
EXTENDS RetryClients, TLAPS

-----------------------------------------------------------------------------
(* The lock discipline, and what a transaction has done.                   *)

IsTables(t) == DOMAIN t = {"objects", "logs", "ledger"}

IsConn(t) == DOMAIN t = {"open", "request", "at", "stage", "locked", "base", "work", "answer"}

\* The write at position i of the transaction t, and its key.
WriteAt(t, i) == t.request[i]
KeyAt(t, i) == WriteAt(t, i).env.key

\* A transaction is in one of its stages, has the lock from its first row on
\* and sees its snapshot until then.
ConnOK(t) ==
    /\ IsConn(t)
    /\ t.request \in Request \cup {<<>>}
    /\ t.at \in 0..(Len(t.request) + 1)
    /\ t.answer \in {"none", "ok", "refused", "failed"}
    /\ t.stage \in {"none", "prepare", "row", "receipt"}
    /\ ~t.open => ~t.locked /\ t.stage = "none" /\ t.at = 0
    /\ t.open => t.at > 0
    /\ t.stage \in {"row", "receipt"} => t.at \in 1..Len(t.request)
    /\ t.stage = "receipt" => t.locked
    /\ ~t.locked => t.work = t.base
    /\ IsTables(t.base) /\ IsTables(t.work)

\* Later tables keep every receipt of earlier ones.
Keeps(earlier, later) ==
    \A k \in DOMAIN earlier : k \in DOMAIN later /\ later[k] = earlier[k]

\* The writes before position n are recorded, under different keys.
Done(t, tables, n) ==
    /\ \A i \in 1..(n - 1) :
          /\ KeyAt(t, i) \in DOMAIN tables.ledger
          /\ tables.ledger[KeyAt(t, i)].payload = WriteAt(t, i).payload
    /\ \A i, j \in 1..(n - 1) : KeyAt(t, i) = KeyAt(t, j) => i = j

\* What the transaction has added to its snapshot is the receipts of the writes
\* it is done with, and the write it is at is new.
Progress(t) ==
    /\ Done(t, t.work, t.at)
    /\ Keeps(t.base.ledger, t.work.ledger)
    /\ \A k \in DOMAIN t.work.ledger \ DOMAIN t.base.ledger :
          \E i \in 1..(t.at - 1) : k = KeyAt(t, i)
    /\ t.stage \in {"row", "receipt"} => KeyAt(t, t.at) \notin DOMAIN t.work.ledger
    /\ t.stage = "row" => PreconditionsHold(t.work.objects, WriteAt(t, t.at).env.observed)

\* Its snapshot is of the past; the last commit if it may write.
Snapshot(t, tables) ==
    /\ Keeps(t.base.ledger, tables.ledger)
    /\ t.locked => t.base = tables

\* A request answered ok is recorded whole.
Kept(t, tables) == t.answer = "ok" => Done(t, tables, Len(t.request) + 1)

OneWriter == \A c, d \in Conn : tx[c].locked /\ tx[d].locked => c = d

ConnInv(t, tables) == ConnOK(t) /\ Progress(t) /\ Snapshot(t, tables) /\ Kept(t, tables)

TxInv ==
    /\ tx = [c \in Conn |-> tx[c]]
    /\ IsTables(db)
    /\ OneWriter
    /\ \A c \in Conn : ConnInv(tx[c], db)

\* Requests are sequences of writes, the last answered one among them.
LEMMA RequestWrites ==
    ASSUME NEW t, ConnOK(t)
    PROVE  /\ Len(t.request) \in Nat
           /\ t.at \in Nat
           /\ \A i \in 1..Len(t.request) : WriteAt(t, i) \in ObjectWrite \cup LogWrite
<1>1. t.request \in Seq(ObjectWrite \cup LogWrite)
    <2>1. <<>> \in Seq(ObjectWrite \cup LogWrite)
        OBVIOUS
    <2>2. t.request \in Request \cup {<<>>}
        BY DEF ConnOK
    <2>3. QED
        BY <2>1, <2>2, RequestShape
<1>2. QED
    BY <1>1 DEF ConnOK, WriteAt

\* A connection that finished, with whatever answer its request allows.
LEMMA IdleInv ==
    ASSUME NEW t, ConnOK(t), NEW answer \in {"none", "ok", "refused", "failed"}, NEW tables,
           Kept(Idle(t.request, answer), tables)
    PROVE  ConnInv(Idle(t.request, answer), tables)
<1> DEFINE i == Idle(t.request, answer)
<1>1. Len(t.request) \in Nat
    BY RequestWrites
<1>2. ConnOK(i)
    BY <1>1 DEF ConnOK, IsConn, Idle, IsTables, NoTables
<1>3. Progress(i)
    BY DEF Progress, Done, Keeps, Idle, NoTables, Empty
<1>4. Snapshot(i, tables)
    BY DEF Snapshot, Keeps, Idle, NoTables, Empty
<1>5. QED
    BY <1>2, <1>3, <1>4 DEF ConnInv

\* Only connection c takes a step.
Changed(c) == tx' = [d \in Conn |-> tx'[d]] /\ \A d \in Conn \ {c} : tx'[d] = tx[d]

\* A statement that commits nothing, and leaves its own connection in order.
LEMMA StatementInv ==
    ASSUME TxInv, NEW c \in Conn, Changed(c), db' = db,
           NEW u, u = tx'[c], ConnOK(u), Progress(u), Snapshot(u, db), Kept(u, db),
           u.locked => tx[c].locked \/ \A d \in Conn \ {c} : ~tx[d].locked
    PROVE  TxInv'
<1>1. OneWriter'
    BY DEF TxInv, OneWriter, Changed
<1>2. \A d \in Conn : ConnInv(tx'[d], db')
    BY DEF TxInv, ConnInv, Changed
<1>3. QED
    BY <1>1, <1>2 DEF TxInv, Changed

\* Installing later tables disturbs no connection that does not write.
LEMMA OthersKept ==
    ASSUME NEW t, NEW earlier, NEW later, ConnInv(t, earlier), ~t.locked,
           Keeps(earlier.ledger, later.ledger)
    PROVE  ConnInv(t, later)
BY DEF ConnInv, Snapshot, Kept, Keeps, Done

\* Finish: a transaction that did all its writes commits them, any other leaves
\* nothing behind.
LEMMA FinishInv ==
    ASSUME TxInv, NEW c \in Conn, NEW answer \in {"ok", "refused", "failed"},
           answer = "ok" => tx[c].open /\ tx[c].at = Len(tx[c].request) + 1,
           Finish(c, answer)
    PROVE  /\ TxInv'
           /\ Keeps(db.ledger, db'.ledger)
           /\ db' = IF answer = "ok" /\ tx[c].locked THEN tx[c].work ELSE db
<1> DEFINE idle == Idle(tx[c].request, answer)
<1>1. tx' = [d \in Conn |-> tx'[d]] /\ tx'[c] = idle /\ \A d \in Conn \ {c} : tx'[d] = tx[d]
    BY DEF TxInv, Finish
<1>2. ConnInv(tx[c], db)
    BY DEF TxInv
<1>3. db' = IF answer = "ok" /\ tx[c].locked THEN tx[c].work ELSE db
    BY DEF Finish
<1>4. Keeps(db.ledger, db'.ledger)
    BY <1>2, <1>3 DEF ConnInv, Progress, Snapshot, Keeps
<1>5. Kept(idle, db')
    <2>1. CASE answer = "ok"
        <3>1. Done(tx[c], db', tx[c].at)
            BY <1>2, <1>3, <2>1 DEF ConnInv, ConnOK, Progress, Snapshot, Done, Keeps
        <3>2. QED
            BY <2>1, <3>1 DEF Kept, Done, Idle, KeyAt, WriteAt
    <2>2. CASE answer # "ok"
        BY <2>2 DEF Kept, Idle
    <2>3. QED
        BY <2>1, <2>2
<1>6. ConnInv(tx'[c], db')
    BY <1>1, <1>2, <1>5, IdleInv DEF ConnInv
<1>7. ASSUME NEW d \in Conn \ {c}
      PROVE  ConnInv(tx'[d], db')
    <2>1. ConnInv(tx[d], db)
        BY DEF TxInv
    <2>2. tx[c].locked => ~tx[d].locked
        BY DEF TxInv, OneWriter
    <2>3. db' = db \/ ~tx[d].locked
        BY <1>3, <2>2
    <2>4. QED
        BY <1>1, <1>4, <2>1, <2>3, OthersKept
<1>8. OneWriter'
    BY <1>1 DEF TxInv, OneWriter, Idle
<1>9. IsTables(db')
    BY <1>2, <1>3 DEF TxInv, ConnInv, ConnOK
<1>10. QED
    BY <1>1, <1>3, <1>4, <1>6, <1>7, <1>8, <1>9 DEF TxInv

-----------------------------------------------------------------------------
(* The statements keep TxInv.                                              *)

LEMMA BeginInv ==
    ASSUME TxInv, NEW c \in Conn, NEW request \in Request, Begin(c, request)
    PROVE  TxInv'
<1>1. Len(request) \in Nat
    BY RequestShape
<1>2. PICK u : u = tx'[c]
    OBVIOUS
<1>3. /\ Changed(c) /\ db' = db
      /\ IsConn(u) /\ u.open /\ u.request = request /\ u.at = 1 /\ u.stage = "prepare"
      /\ ~u.locked /\ u.base = db /\ u.work = db /\ u.answer = "none"
    BY <1>2 DEF Begin, Idle, Changed, TxInv, IsConn
<1>4. ConnOK(u)
    BY <1>1, <1>3 DEF ConnOK, TxInv
<1>5. Progress(u) /\ Snapshot(u, db) /\ Kept(u, db)
    BY <1>3 DEF Progress, Snapshot, Kept, Done, Keeps
<1>6. QED
    BY <1>2, <1>3, <1>4, <1>5, StatementInv

\* The transaction u has the request, snapshot and caller of t.
Continues(t, u) ==
    /\ IsConn(u) /\ u.open = t.open /\ u.request = t.request /\ u.base = t.base
    /\ u.answer = t.answer
    /\ \A i : WriteAt(u, i) = WriteAt(t, i) /\ KeyAt(u, i) = KeyAt(t, i)

LEMMA UpToNext ==
    ASSUME NEW n \in Nat
    PROVE  /\ \A i \in 1..((n + 1) - 1) : i \in 1..(n - 1) \/ i = n
           /\ \A i \in 1..(n - 1) : i \in 1..((n + 1) - 1)
           /\ n > 0 => n \in 1..((n + 1) - 1)
OBVIOUS

\* One more write is recorded, under a key no earlier one has.
LEMMA DoneNext ==
    ASSUME NEW t, NEW u, NEW tables, NEW later, NEW n \in Nat, Continues(t, u),
           Done(t, tables, n), Keeps(tables.ledger, later.ledger),
           KeyAt(t, n) \in DOMAIN later.ledger,
           later.ledger[KeyAt(t, n)].payload = WriteAt(t, n).payload,
           \A i \in 1..(n - 1) : KeyAt(t, i) # KeyAt(t, n)
    PROVE  Done(u, later, n + 1)
<1>1. \A i \in 1..((n + 1) - 1) : i \in 1..(n - 1) \/ i = n
    BY UpToNext
<1>2. ASSUME NEW i \in 1..((n + 1) - 1)
      PROVE  /\ KeyAt(u, i) \in DOMAIN later.ledger
             /\ later.ledger[KeyAt(u, i)].payload = WriteAt(u, i).payload
    BY <1>1 DEF Done, Keeps, Continues
<1>3. ASSUME NEW i \in 1..((n + 1) - 1), NEW j \in 1..((n + 1) - 1), KeyAt(u, i) = KeyAt(u, j)
      PROVE  i = j
    BY <1>1, <1>3 DEF Done, Continues
<1>4. QED
    BY <1>2, <1>3 DEF Done

LEMMA PrepareFreshInv ==
    ASSUME TxInv, NEW c \in Conn, PrepareFresh(c)
    PROVE  TxInv'
<1>1. ConnInv(tx[c], db)
    BY DEF TxInv
<1>2. tx[c].stage = "prepare" /\ tx[c].open /\ tx[c].at <= Len(tx[c].request)
    BY DEF PrepareFresh, AtStage
<1>3. /\ KeyAt(tx[c], tx[c].at) \notin DOMAIN tx[c].work.ledger
      /\ PreconditionsHold(tx[c].work.objects, WriteAt(tx[c], tx[c].at).env.observed)
    BY DEF PrepareFresh, Seen!Fresh, Seen!PreconditionsHold, PreconditionsHold,
           Seen!CurrentRef, CurrentRef, Seen!Absent, Absent, KeyAt, WriteAt, Current
<1>4. Len(tx[c].request) \in Nat /\ tx[c].at \in Nat
    BY <1>1, RequestWrites DEF ConnInv
<1>5. PICK u : u = tx'[c]
    OBVIOUS
<1>6. /\ Changed(c) /\ db' = db /\ Continues(tx[c], u)
      /\ u.at = tx[c].at /\ u.stage = "row" /\ u.locked = tx[c].locked /\ u.work = tx[c].work
    BY <1>1, <1>5 DEF PrepareFresh, Changed, TxInv, ConnInv, ConnOK, IsConn, Continues,
                      WriteAt, KeyAt
<1>7. ConnOK(u)
    BY <1>1, <1>2, <1>4, <1>6 DEF ConnInv, ConnOK, Continues
<1>8. Progress(u)
    BY <1>1, <1>3, <1>6 DEF ConnInv, Progress, Done, Continues
<1>9. Snapshot(u, db) /\ Kept(u, db)
    BY <1>1, <1>6 DEF ConnInv, Snapshot, Kept, Done, Continues
<1>10. QED
    BY <1>5, <1>6, <1>7, <1>8, <1>9, StatementInv

LEMMA PrepareReplayInv ==
    ASSUME TxInv, NEW c \in Conn, PrepareReplay(c)
    PROVE  TxInv'
<1> DEFINE key == KeyAt(tx[c], tx[c].at)
<1>1. ConnInv(tx[c], db)
    BY DEF TxInv
<1>2. tx[c].stage = "prepare" /\ tx[c].open /\ tx[c].at <= Len(tx[c].request)
    BY DEF PrepareReplay, AtStage
<1>3. /\ \A i \in 1..(tx[c].at - 1) : KeyAt(tx[c], i) # key
      /\ key \in DOMAIN tx[c].work.ledger
      /\ tx[c].work.ledger[key].payload = WriteAt(tx[c], tx[c].at).payload
    BY DEF PrepareReplay, Answerable, Repeated, Seen!Replays, KeyAt, WriteAt, Current
<1>4. Len(tx[c].request) \in Nat /\ tx[c].at \in Nat
    BY <1>1, RequestWrites DEF ConnInv
<1>5. PICK u : u = tx'[c]
    OBVIOUS
<1> HIDE DEF key
<1>6. /\ Changed(c) /\ db' = db /\ Continues(tx[c], u)
      /\ u.at = tx[c].at + 1 /\ u.stage = "prepare" /\ u.locked = tx[c].locked
      /\ u.work = tx[c].work
    BY <1>1, <1>5 DEF PrepareReplay, Advance, Changed, TxInv, ConnInv, ConnOK, IsConn, Continues,
                      WriteAt, KeyAt
<1>7. ConnOK(u)
    BY <1>1, <1>2, <1>4, <1>6 DEF ConnInv, ConnOK, Continues
<1>8. Progress(u)
    <2>1. Keeps(tx[c].work.ledger, u.work.ledger)
        BY <1>6 DEF Keeps
    <2>2. Done(tx[c], tx[c].work, tx[c].at)
        BY <1>1 DEF ConnInv, Progress
    <2>3. Done(u, u.work, tx[c].at + 1)
        BY <1>3, <1>4, <1>6, <2>1, <2>2, DoneNext DEF key
    <2>4. \A i \in 1..(tx[c].at - 1) : i \in 1..(u.at - 1)
        BY <1>4, <1>6, UpToNext
    <2>5. QED
        BY <1>1, <1>2, <1>6, <2>3, <2>4 DEF ConnInv, Progress, Continues
<1>9. Snapshot(u, db) /\ Kept(u, db)
    BY <1>1, <1>6 DEF ConnInv, Snapshot, Kept, Done, Continues
<1>10. QED
    BY <1>5, <1>6, <1>7, <1>8, <1>9, StatementInv

\* What WriteRow leaves of the transaction.
LEMMA RowedShape ==
    ASSUME TxInv, NEW c \in Conn, WriteRow(c), NEW u, u = tx'[c]
    PROVE  /\ Changed(c) /\ db' = db /\ Continues(tx[c], u)
           /\ u.at = tx[c].at /\ u.stage = "receipt" /\ u.locked /\ u.work = WithRow(c)
<1>1. PICK x : x = WithRow(c)
    OBVIOUS
<1>2. IsConn(tx[c])
    BY DEF TxInv, ConnInv, ConnOK
<1>3. QED
    BY <1>1, <1>2 DEF WriteRow, Changed, TxInv, IsConn, Continues, WriteAt, KeyAt

LEMMA WriteRowInv ==
    ASSUME TxInv, NEW c \in Conn, WriteRow(c)
    PROVE  TxInv'
<1>1. ConnInv(tx[c], db)
    BY DEF TxInv
<1>2. tx[c].stage = "row" /\ tx[c].open
    BY DEF WriteRow, AtStage
<1>3. \/ tx[c].locked
      \/ (\A d \in Conn \ {c} : ~tx[d].locked) /\ db = tx[c].base
    BY DEF WriteRow, MayWrite
<1>4. IsTables(WithRow(c)) /\ WithRow(c).ledger = tx[c].work.ledger
    <2>1. IsTables(tx[c].work)
        BY <1>1 DEF ConnInv, ConnOK
    <2>2. QED
        BY <2>1 DEF IsTables, WithRow
<1>5. PICK u : u = tx'[c]
    OBVIOUS
<1>6. /\ Changed(c) /\ db' = db /\ Continues(tx[c], u)
      /\ u.at = tx[c].at /\ u.stage = "receipt" /\ u.locked /\ u.work = WithRow(c)
    BY <1>5, RowedShape
<1>7. ConnOK(u)
    BY <1>1, <1>2, <1>4, <1>6 DEF ConnInv, ConnOK, Continues
<1>8. Progress(u)
    BY <1>1, <1>2, <1>4, <1>6 DEF ConnInv, Progress, Done, Continues
<1>9. Snapshot(u, db) /\ Kept(u, db)
    BY <1>1, <1>3, <1>6 DEF ConnInv, Snapshot, Kept, Done, Continues
<1>10. QED
    BY <1>3, <1>5, <1>6, <1>7, <1>8, <1>9, StatementInv

\* The receipt that record_mutation writes next.
ReceiptOf(t) ==
    LET w == WriteAt(t, t.at)
    IN  [payload |-> w.payload, id |-> w.id,
         version |-> IF w.table = "logs" THEN 0 ELSE t.work.objects[w.id].version,
         observed |-> w.env.observed]

\* What WriteReceipt leaves of the transaction.
LEMMA ReceivedShape ==
    ASSUME TxInv, NEW c \in Conn, WriteReceipt(c), NEW u, u = tx'[c]
    PROVE  /\ Changed(c) /\ db' = db /\ Continues(tx[c], u)
           /\ u.at = tx[c].at + 1 /\ u.stage = "prepare" /\ u.locked = tx[c].locked
           /\ IsTables(u.work)
           /\ u.work.objects = tx[c].work.objects /\ u.work.logs = tx[c].work.logs
           /\ u.work.ledger = Put(tx[c].work.ledger, KeyAt(tx[c], tx[c].at), ReceiptOf(tx[c]))
<1> DEFINE ledger == Put(tx[c].work.ledger, KeyAt(tx[c], tx[c].at), ReceiptOf(tx[c]))
<1>1. IsConn(tx[c]) /\ IsTables(tx[c].work)
    BY DEF TxInv, ConnInv, ConnOK
<1>2. /\ tx' = [tx EXCEPT ![c].work.ledger = ledger, ![c].at = @ + 1, ![c].stage = "prepare"]
      /\ db' = db
    BY DEF WriteReceipt, ReceiptOf, KeyAt, WriteAt, Current
<1>3. PICK x : x = ledger
    OBVIOUS
<1> HIDE DEF ledger
<1>4. /\ Changed(c) /\ Continues(tx[c], u)
      /\ u.at = tx[c].at + 1 /\ u.stage = "prepare" /\ u.locked = tx[c].locked
      /\ IsTables(u.work)
      /\ u.work.objects = tx[c].work.objects /\ u.work.logs = tx[c].work.logs
      /\ u.work.ledger = x
    BY <1>1, <1>2, <1>3 DEF Changed, TxInv, IsConn, IsTables, Continues, WriteAt, KeyAt
<1>5. QED
    BY <1>2, <1>3, <1>4 DEF ledger

LEMMA WriteReceiptInv ==
    ASSUME TxInv, NEW c \in Conn, WriteReceipt(c)
    PROVE  TxInv'
<1> DEFINE key == KeyAt(tx[c], tx[c].at)
<1>1. ConnInv(tx[c], db)
    BY DEF TxInv
<1>2. tx[c].stage = "receipt" /\ tx[c].open
    BY DEF WriteReceipt, AtStage
<1>3. Len(tx[c].request) \in Nat /\ tx[c].at \in Nat /\ tx[c].at \in 1..Len(tx[c].request)
    BY <1>1, <1>2, RequestWrites DEF ConnInv, ConnOK
<1>4. PICK u : u = tx'[c]
    OBVIOUS
<1> HIDE DEF key
<1>5. /\ Changed(c) /\ db' = db /\ Continues(tx[c], u)
      /\ u.at = tx[c].at + 1 /\ u.stage = "prepare" /\ u.locked = tx[c].locked
      /\ IsTables(u.work)
      /\ u.work.ledger = Put(tx[c].work.ledger, key, ReceiptOf(tx[c]))
    BY <1>4, ReceivedShape DEF key
<1>6. /\ key \notin DOMAIN tx[c].work.ledger
      /\ DOMAIN u.work.ledger = DOMAIN tx[c].work.ledger \cup {key}
      /\ Keeps(tx[c].work.ledger, u.work.ledger)
      /\ u.work.ledger[key].payload = WriteAt(tx[c], tx[c].at).payload
    <2>1. key \notin DOMAIN tx[c].work.ledger
        BY <1>1, <1>2 DEF ConnInv, Progress, key
    <2>2. ReceiptOf(tx[c]).payload = WriteAt(tx[c], tx[c].at).payload
        BY DEF ReceiptOf
    <2>3. QED
        BY <1>5, <2>1, <2>2 DEF Put, Keeps
<1>7. ConnOK(u)
    BY <1>1, <1>2, <1>3, <1>5 DEF ConnInv, ConnOK, Continues
<1>8. Progress(u)
    <2>1. Done(tx[c], tx[c].work, tx[c].at)
        BY <1>1 DEF ConnInv, Progress
    <2>2. \A i \in 1..(tx[c].at - 1) : KeyAt(tx[c], i) # key
        BY <1>6, <2>1 DEF Done
    <2>3. Done(u, u.work, tx[c].at + 1)
        BY <1>3, <1>5, <1>6, <2>1, <2>2, DoneNext DEF key
    <2>4. Keeps(u.base.ledger, u.work.ledger)
        BY <1>1, <1>5, <1>6 DEF ConnInv, Progress, Keeps, Continues
    <2>5. /\ \A i \in 1..(tx[c].at - 1) : i \in 1..(u.at - 1)
          /\ tx[c].at \in 1..(u.at - 1)
        BY <1>3, <1>5, UpToNext
    <2>6. key = KeyAt(u, tx[c].at)
        BY <1>5 DEF Continues, key
    <2>7. \A k \in DOMAIN u.work.ledger \ DOMAIN u.base.ledger :
              \E i \in 1..(u.at - 1) : k = KeyAt(u, i)
        BY <1>1, <1>5, <1>6, <2>5, <2>6 DEF ConnInv, Progress, Continues
    <2>8. QED
        BY <1>5, <2>3, <2>4, <2>7 DEF Progress
<1>9. Snapshot(u, db) /\ Kept(u, db)
    BY <1>1, <1>5 DEF ConnInv, Snapshot, Kept, Done, Continues
<1>10. QED
    BY <1>4, <1>5, <1>7, <1>8, <1>9, StatementInv

LEMMA LoseAnswerInv ==
    ASSUME TxInv, NEW c \in Conn, LoseAnswer(c)
    PROVE  TxInv'
<1>1. ConnInv(tx[c], db)
    BY DEF TxInv
<1>2. PICK u : u = tx'[c]
    OBVIOUS
<1>3. /\ Changed(c) /\ db' = db /\ IsConn(u)
      /\ u.open = tx[c].open /\ u.request = tx[c].request /\ u.at = tx[c].at
      /\ u.stage = tx[c].stage /\ u.locked = tx[c].locked /\ u.base = tx[c].base
      /\ u.work = tx[c].work /\ u.answer = "failed"
      /\ \A i : WriteAt(u, i) = WriteAt(tx[c], i) /\ KeyAt(u, i) = KeyAt(tx[c], i)
    BY <1>1, <1>2 DEF LoseAnswer, Changed, TxInv, ConnInv, ConnOK, IsConn, WriteAt, KeyAt
<1>4. ConnOK(u)
    BY <1>1, <1>3 DEF ConnInv, ConnOK
<1>5. Progress(u)
    BY <1>1, <1>3 DEF ConnInv, Progress, Done
<1>6. Snapshot(u, db) /\ Kept(u, db)
    BY <1>1, <1>3 DEF ConnInv, Snapshot, Kept
<1>7. QED
    BY <1>2, <1>3, <1>4, <1>5, <1>6, StatementInv

\* How a transaction ends: committed, refused, or rolled back.
Ends(c, answer) ==
    /\ answer \in {"ok", "refused", "failed"}
    /\ answer = "ok" => tx[c].open /\ tx[c].at = Len(tx[c].request) + 1
    /\ Finish(c, answer)

\* The steps of TxNext.
LEMMA TxSteps ==
    ASSUME TxInv, [TxNext]_txVars
    PROVE  \/ UNCHANGED txVars
           \/ \E c \in Conn :
                 \/ \E r \in Request : Begin(c, r)
                 \/ PrepareFresh(c) \/ PrepareReplay(c) \/ LoseAnswer(c)
                 \/ WriteRow(c) \/ WriteReceipt(c)
                 \/ \E answer : Ends(c, answer)
<1>1. ASSUME NEW c \in Conn, Commit(c)
      PROVE  Ends(c, "ok")
    <2>1. ConnOK(tx[c])
        BY DEF TxInv, ConnInv
    <2>2. Len(tx[c].request) \in Nat /\ tx[c].at \in 0..(Len(tx[c].request) + 1)
        BY <2>1, RequestWrites DEF ConnOK
    <2>3. QED
        BY <1>1, <2>2 DEF Commit, AtStage, Ends
<1>2. ASSUME NEW c \in Conn, PrepareRefused(c) \/ RowRefused(c)
      PROVE  Ends(c, "refused")
    BY <1>2 DEF PrepareRefused, RowRefused, Ends
<1>3. ASSUME NEW c \in Conn, Abort(c)
      PROVE  Ends(c, "failed")
    BY <1>3 DEF Abort, Ends
<1>4. QED
    BY <1>1, <1>2, <1>3 DEF TxNext

LEMMA TxInvKept ==
    ASSUME TxInv, [TxNext]_txVars
    PROVE  TxInv'
<1>1. CASE UNCHANGED txVars
    <2>1. tx' = tx /\ db' = db
        BY <1>1 DEF txVars
    <2>2. QED
        BY <2>1 DEF TxInv, OneWriter
<1>2. ASSUME NEW c \in Conn, NEW answer, Ends(c, answer)
      PROVE  TxInv'
    BY <1>2, FinishInv DEF Ends
<1>3. QED
    BY <1>1, <1>2, TxSteps, BeginInv, PrepareFreshInv, PrepareReplayInv, LoseAnswerInv, WriteRowInv,
       WriteReceiptInv

LEMMA TxStarts == TxInit => TxInv
<1> SUFFICES ASSUME TxInit PROVE TxInv
    OBVIOUS
<1>1. tx = [c \in Conn |-> tx[c]] /\ \A c \in Conn : tx[c] = Idle(<<>>, "none")
    BY DEF TxInit
<1>2. IsTables(db)
    BY DEF TxInit, IsTables, NoTables
<1>3. Len(<<>>) = 0
    OBVIOUS
<1>4. ConnInv(Idle(<<>>, "none"), db)
    BY <1>3 DEF ConnInv, ConnOK, IsConn, IsTables, Progress, Snapshot, Kept, Done, Keeps, Idle,
                NoTables, Empty
<1>5. OneWriter
    BY <1>1 DEF OneWriter, Idle
<1>6. QED
    BY <1>1, <1>2, <1>4, <1>5 DEF TxInv

LEMMA TxInvariant == TxSpec => []TxInv
BY TxStarts, TxInvKept, PTL DEF TxSpec

-----------------------------------------------------------------------------
(* The lock discipline, whole requests and durable answers.                *)

\* Only an open transaction holds the write lock, one at a time and on a
\* snapshot that is the last commit; without it nothing was written.
THEOREM TxTypeCorrect == TxSpec => []TxTypeOK
<1>1. TxInv => TxTypeOK
    <2> SUFFICES ASSUME TxInv PROVE TxTypeOK
        OBVIOUS
    <2>1. ASSUME NEW c \in Conn
          PROVE  /\ tx[c].request \in Request \cup {<<>>}
                 /\ tx[c].at \in 0..(Len(tx[c].request) + 1)
                 /\ tx[c].answer \in {"none", "ok", "refused", "failed"}
                 /\ tx[c].locked => tx[c].open /\ tx[c].base = db
                 /\ ~tx[c].locked => tx[c].work = tx[c].base
        BY DEF TxInv, ConnInv, ConnOK, Snapshot
    <2>2. QED
        BY <2>1 DEF TxTypeOK, TxInv, OneWriter
<1>2. QED
    BY <1>1, TxInvariant, PTL

\* A request answered ok is recorded whole, each write under a key of its own,
\* and stays so through every later commit.
THEOREM AnswersDurable == TxSpec => []AnswersAreDurable
<1>1. TxInv => AnswersAreDurable
    <2> SUFFICES ASSUME TxInv, NEW c \in Conn, tx[c].answer = "ok"
                 PROVE  /\ Recorded(db, tx[c].request)
                        /\ \A i, j \in 1..Len(tx[c].request) :
                              tx[c].request[i].env.key = tx[c].request[j].env.key => i = j
        BY DEF AnswersAreDurable
    <2>1. Len(tx[c].request) \in Nat
        BY RequestWrites DEF TxInv, ConnInv
    <2>2. Done(tx[c], db, Len(tx[c].request) + 1)
        BY DEF TxInv, ConnInv, Kept
    <2>3. (Len(tx[c].request) + 1) - 1 = Len(tx[c].request)
        BY <2>1
    <2>4. QED
        BY <2>2, <2>3 DEF Done, Recorded, KeyAt, WriteAt
<1>2. QED
    BY <1>1, TxInvariant, PTL

\* A commit brings in all writes of its request and no other: what a failed or
\* refused batch wrote is gone with its transaction.
THEOREM WholeRequests == TxSpec => CommitsWholeRequests
<1>1. TxInv /\ [TxNext]_txVars =>
        [db' # db =>
            \E c \in Conn :
                LET request == tx[c].request
                IN  /\ Recorded(db', request)
                    /\ DOMAIN db'.ledger \ DOMAIN db.ledger \subseteq
                           {request[i].env.key : i \in 1..Len(request)}]_txVars
    <2> SUFFICES ASSUME TxInv, [TxNext]_txVars, db' # db
                 PROVE  \E c \in Conn :
                            /\ Recorded(db', tx[c].request)
                            /\ DOMAIN db'.ledger \ DOMAIN db.ledger \subseteq
                                   {tx[c].request[i].env.key : i \in 1..Len(tx[c].request)}
        OBVIOUS
    <2>1. PICK c \in Conn : \E answer : Ends(c, answer)
        BY TxSteps DEF txVars, Begin, PrepareFresh, PrepareReplay, LoseAnswer, WriteRow, WriteReceipt
    <2>2. tx[c].locked /\ tx[c].locked /\ db' = tx[c].work /\ tx[c].at = Len(tx[c].request) + 1
        BY <2>1 DEF Ends, Finish
    <2>3. ConnInv(tx[c], db) /\ tx[c].base = db
        BY <2>2 DEF TxInv, ConnInv, Snapshot
    <2>4. tx[c].at - 1 = Len(tx[c].request)
        BY <2>2, <2>3, RequestWrites DEF ConnInv
    <2>5. Recorded(db', tx[c].request)
        BY <2>2, <2>3, <2>4 DEF ConnInv, Progress, Done, Recorded, KeyAt, WriteAt
    <2>6. DOMAIN db'.ledger \ DOMAIN db.ledger \subseteq
              {tx[c].request[i].env.key : i \in 1..Len(tx[c].request)}
        BY <2>2, <2>3, <2>4 DEF ConnInv, Progress, KeyAt, WriteAt
    <2>7. QED
        BY <2>5, <2>6
<1>2. QED
    BY <1>1, TxInvariant, PTL DEF TxSpec, CommitsWholeRequests

-----------------------------------------------------------------------------
(* The tables of the writer as an atomic store.                            *)

\* One write takes the tables a to the tables b: the row, the receipt, and every
\* check there is between BEGIN and COMMIT.
OneStep(a, b, w) ==
    /\ w.env.key \notin DOMAIN a.ledger
    /\ PreconditionsHold(a.objects, w.env.observed)
    /\ \/ /\ w \in ObjectWrite
          /\ w.id \in DOMAIN w.env.observed
          /\ w.id \in TaskId /\ w.payload.occurrence # NoOccurrence =>
                 ~OccurrenceHeld(a.objects, w.id, w.payload.occurrence)
          /\ CanAdvance(w.env.observed[w.id])
          /\ LET version == NextVersion(w.env.observed[w.id])
             IN  /\ b.objects = Put(a.objects, w.id, [payload |-> w.payload, version |-> version])
                 /\ b.ledger = Put(a.ledger, w.env.key,
                                   [payload |-> w.payload, id |-> w.id, version |-> version,
                                    observed |-> w.env.observed])
          /\ b.logs = a.logs
       \/ /\ w \in LogWrite
          /\ w.id \notin DOMAIN a.logs
          /\ b.logs = Put(a.logs, w.id, w.payload)
          /\ b.ledger = Put(a.ledger, w.env.key, [payload |-> w.payload, id |-> w.id, version |-> 0,
                                                  observed |-> w.env.observed])
          /\ b.objects = a.objects

\* What the transaction sees, with the receipt of the row it has written.
Ahead(t) ==
    [objects |-> t.work.objects, logs |-> t.work.logs,
     ledger |-> IF t.stage = "receipt" THEN Put(t.work.ledger, KeyAt(t, t.at), ReceiptOf(t))
                ELSE t.work.ledger]

\* The tables of the connection with the write lock, of the last commit if no
\* connection has it.
Live == IF \E c \in Conn : tx[c].locked THEN Ahead(tx[CHOOSE c \in Conn : tx[c].locked]) ELSE db

\* t1 and t2 are the same tables.
Same(t1, t2) == t1.objects = t2.objects /\ t1.logs = t2.logs /\ t1.ledger = t2.ledger

LEMMA LiveOfWriter ==
    ASSUME OneWriter, NEW c \in Conn, tx[c].locked
    PROVE  Live = Ahead(tx[c])
BY DEF OneWriter, Live

LEMMA LiveOfNone ==
    ASSUME \A c \in Conn : ~tx[c].locked
    PROVE  Live = db
BY DEF Live

\* WriteRow is one step of the writer's tables.
LEMMA RowIsStep ==
    ASSUME TxInv, TxInv', NEW c \in Conn, WriteRow(c)
    PROVE  OneStep(Live, Live', Current(c))
<1> DEFINE w == Current(c)
<1>1. PICK u : u = tx'[c]
    OBVIOUS
<1>2. /\ Changed(c) /\ Continues(tx[c], u)
      /\ u.at = tx[c].at /\ u.stage = "receipt" /\ u.locked /\ u.work = WithRow(c)
    BY <1>1, RowedShape
<1>3. /\ ConnOK(tx[c]) /\ tx[c].stage = "row" /\ RowAllowed(c)
      /\ w = WriteAt(tx[c], tx[c].at)
      /\ w \in ObjectWrite \cup LogWrite
    <2>1. ConnOK(tx[c]) /\ tx[c].stage = "row" /\ RowAllowed(c) /\ w = WriteAt(tx[c], tx[c].at)
        BY DEF TxInv, ConnInv, WriteRow, AtStage, Current, WriteAt
    <2>2. QED
        BY <2>1, RequestWrites DEF ConnOK
<1>4. Same(Live, tx[c].work)
    <2>1. CASE tx[c].locked
        BY <2>1, <1>3, LiveOfWriter DEF TxInv, Ahead, Same
    <2>2. CASE ~tx[c].locked
        <3>1. /\ \A d \in Conn : ~tx[d].locked
              /\ db = tx[c].base
            BY <2>2 DEF WriteRow, MayWrite
        <3>2. Live = db
            BY <3>1, LiveOfNone
        <3>3. QED
            BY <1>3, <2>2, <3>1, <3>2 DEF ConnOK, Same
    <2>3. QED
        BY <2>1, <2>2
<1>5. Live' = Ahead(u)
    <2>1. OneWriter' /\ tx'[c].locked
        BY <1>1, <1>2 DEF TxInv
    <2>2. (Live = Ahead(tx[c]))'
        BY <2>1 DEF Live, OneWriter
    <2>3. QED
        BY <1>1, <2>2
<1>6. WriteAt(u, u.at) = w /\ KeyAt(u, u.at) = w.env.key
    BY <1>2, <1>3 DEF Continues, KeyAt
<1>7. /\ Live'.objects = u.work.objects /\ Live'.logs = u.work.logs
      /\ Live'.ledger = Put(u.work.ledger, w.env.key, ReceiptOf(u))
    BY <1>2, <1>5, <1>6 DEF Ahead
<1>8. /\ w.env.key \notin DOMAIN tx[c].work.ledger
      /\ PreconditionsHold(tx[c].work.objects, w.env.observed)
    BY <1>3 DEF TxInv, ConnInv, Progress, KeyAt
<1>9. IsTables(tx[c].work)
    BY <1>3 DEF ConnOK
<1> HIDE DEF w
<1>10. CASE w \in ObjectWrite
    <2>1. w.table = "objects"
        BY <1>10 DEF ObjectWrite
    <2>2. /\ w.id \in DOMAIN w.env.observed
          /\ w.id \in TaskId /\ w.payload.occurrence # NoOccurrence =>
                 ~OccurrenceHeld(tx[c].work.objects, w.id, w.payload.occurrence)
          /\ CanAdvance(w.env.observed[w.id])
        BY <1>3, <2>1 DEF RowAllowed, Seen!OccurrenceFree, Seen!OccurrenceHeld, OccurrenceHeld, w
    <2> DEFINE version == NextVersion(w.env.observed[w.id])
               row == [payload |-> w.payload, version |-> version]
    <2>3. /\ u.work.objects = Put(tx[c].work.objects, w.id, row)
          /\ u.work.logs = tx[c].work.logs
          /\ u.work.ledger = tx[c].work.ledger
        BY <1>2, <1>9, <2>1 DEF WithRow, IsTables, w
    <2>4. u.work.objects[w.id].version = version
        BY <2>3 DEF Put
    <2>5. ReceiptOf(u) = [payload |-> w.payload, id |-> w.id, version |-> version,
                          observed |-> w.env.observed]
        BY <1>6, <2>1, <2>4 DEF ReceiptOf
    <2> HIDE DEF version
    <2>6. /\ Live'.objects = Put(Live.objects, w.id, row)
          /\ Live'.logs = Live.logs
          /\ Live'.ledger = Put(Live.ledger, w.env.key, ReceiptOf(u))
        BY <1>4, <1>7, <2>3 DEF Same
    <2>7. /\ w.env.key \notin DOMAIN Live.ledger
          /\ PreconditionsHold(Live.objects, w.env.observed)
          /\ w.id \in TaskId /\ w.payload.occurrence # NoOccurrence =>
                 ~OccurrenceHeld(Live.objects, w.id, w.payload.occurrence)
        BY <1>4, <1>8, <2>2 DEF Same
    <2>8. QED
        BY <1>10, <2>2, <2>5, <2>6, <2>7 DEF OneStep, version, w
<1>11. CASE w \in LogWrite
    <2>1. w.table = "logs"
        BY <1>11 DEF LogWrite
    <2>2. w.id \notin DOMAIN tx[c].work.logs
        BY <1>3, <2>1 DEF RowAllowed, w
    <2>3. /\ u.work.objects = tx[c].work.objects
          /\ u.work.logs = Put(tx[c].work.logs, w.id, w.payload)
          /\ u.work.ledger = tx[c].work.ledger
        BY <1>2, <1>9, <2>1 DEF WithRow, IsTables, w
    <2>4. ReceiptOf(u) = [payload |-> w.payload, id |-> w.id, version |-> 0,
                          observed |-> w.env.observed]
        BY <1>6, <2>1 DEF ReceiptOf
    <2>5. /\ Live'.objects = Live.objects
          /\ Live'.logs = Put(Live.logs, w.id, w.payload)
          /\ Live'.ledger = Put(Live.ledger, w.env.key, ReceiptOf(u))
        BY <1>4, <1>7, <2>3 DEF Same
    <2>6. /\ w.env.key \notin DOMAIN Live.ledger
          /\ PreconditionsHold(Live.objects, w.env.observed)
          /\ w.id \notin DOMAIN Live.logs
        BY <1>4, <1>8, <2>2 DEF Same
    <2>7. QED
        BY <1>11, <2>4, <2>5, <2>6 DEF OneStep, w
<1>12. QED
    BY <1>3, <1>10, <1>11 DEF w

\* No other statement changes Live, but the end of a transaction: a commit makes
\* Live the committed tables, and after any end the committed tables are Live.
LEMMA LiveMoves ==
    ASSUME TxInv, TxInv', [TxNext]_txVars
    PROVE  \/ Same(Live', Live) /\ db' = db
           \/ (\E c \in Conn : WriteRow(c) /\ OneStep(Live, Live', Current(c))) /\ db' = db
           \/ Live' = db' /\ (db' = db \/ Same(db', Live))
<1>1. CASE UNCHANGED txVars
    BY <1>1 DEF txVars, Live, Same
<1>2. ASSUME NEW c \in Conn, WriteRow(c)
      PROVE  OneStep(Live, Live', Current(c)) /\ db' = db
    BY <1>2, RowIsStep, RowedShape
<1>3. ASSUME NEW c \in Conn, Changed(c), db' = db, ~tx[c].locked, ~tx'[c].locked
      PROVE  Live' = Live
    <2>1. CASE \E d \in Conn : tx[d].locked
        <3>1. PICK d \in Conn : tx[d].locked
            BY <2>1
        <3>2. tx'[d] = tx[d]
            BY <1>3, <3>1 DEF Changed
        <3>3. OneWriter' /\ tx'[d].locked
            BY <3>1, <3>2 DEF TxInv
        <3>4. (Live = Ahead(tx[d]))'
            BY <3>3 DEF Live, OneWriter
        <3>5. Live = Ahead(tx[d])
            BY <3>1, LiveOfWriter DEF TxInv
        <3>6. QED
            BY <3>2, <3>4, <3>5
    <2>2. CASE ~\E d \in Conn : tx[d].locked
        <3>1. \A d \in Conn : ~tx'[d].locked
            BY <1>3, <2>2 DEF Changed
        <3>2. (Live = db)'
            BY <3>1 DEF Live
        <3>3. QED
            BY <1>3, <2>2, <3>2, LiveOfNone
    <2>3. QED
        BY <2>1, <2>2
<1>4. ASSUME NEW c \in Conn, Changed(c), db' = db, tx[c].locked, tx'[c].locked,
             Same(Ahead(tx'[c]), Ahead(tx[c]))
      PROVE  Same(Live', Live)
    <2>1. OneWriter'
        BY DEF TxInv
    <2>2. (Live = Ahead(tx[c]))'
        BY <1>4, <2>1 DEF Live, OneWriter
    <2>3. QED
        BY <1>4, <2>2, LiveOfWriter DEF TxInv
<1>5. ASSUME NEW c \in Conn, PrepareFresh(c) \/ PrepareReplay(c) \/ LoseAnswer(c)
      PROVE  Same(Live', Live) /\ db' = db
    <2>1. IsConn(tx[c])
        BY DEF TxInv, ConnInv, ConnOK
    <2>2. Changed(c) /\ db' = db
        BY <1>5 DEF PrepareFresh, PrepareReplay, Advance, LoseAnswer, Changed, TxInv
    <2>3. /\ tx'[c].locked = tx[c].locked /\ tx'[c].work = tx[c].work
          /\ tx'[c].request = tx[c].request
          /\ \/ tx'[c].stage = tx[c].stage /\ tx'[c].at = tx[c].at
             \/ tx[c].stage # "receipt" /\ tx'[c].stage # "receipt"
        BY <1>5, <2>1 DEF PrepareFresh, PrepareReplay, AtStage, Advance, LoseAnswer, TxInv, IsConn
    <2>4. Same(Ahead(tx'[c]), Ahead(tx[c]))
        BY <2>3 DEF Ahead, Same, KeyAt, WriteAt, ReceiptOf
    <2>5. QED
        BY <1>3, <1>4, <2>2, <2>3, <2>4 DEF Same
<1>6. ASSUME NEW c \in Conn, WriteReceipt(c)
      PROVE  Same(Live', Live) /\ db' = db
    <2>1. tx[c].stage = "receipt" /\ tx[c].locked
        BY <1>6 DEF WriteReceipt, AtStage, TxInv, ConnInv, ConnOK
    <2>2. PICK u : u = tx'[c]
        OBVIOUS
    <2>3. /\ Changed(c) /\ db' = db
          /\ u.stage = "prepare" /\ u.locked = tx[c].locked
          /\ u.work.objects = tx[c].work.objects /\ u.work.logs = tx[c].work.logs
          /\ u.work.ledger = Put(tx[c].work.ledger, KeyAt(tx[c], tx[c].at), ReceiptOf(tx[c]))
        BY <1>6, <2>2, ReceivedShape
    <2>4. Same(Ahead(u), Ahead(tx[c]))
        BY <2>1, <2>3 DEF Ahead, Same
    <2>5. QED
        BY <1>4, <2>1, <2>2, <2>3, <2>4
<1>7. ASSUME NEW c \in Conn, NEW request \in Request, Begin(c, request)
      PROVE  Same(Live', Live) /\ db' = db
    <2>1. Changed(c) /\ db' = db /\ ~tx'[c].locked
        BY <1>7 DEF Begin, Idle, Changed, TxInv
    <2>2. ~tx[c].locked
        BY <1>7 DEF Begin, TxInv, ConnInv, ConnOK
    <2>3. QED
        BY <1>3, <2>1, <2>2 DEF Same
<1>8. ASSUME NEW c \in Conn, NEW answer, Ends(c, answer)
      PROVE  \/ Same(Live', Live) /\ db' = db
             \/ Live' = db' /\ (db' = db \/ Same(db', Live))
    <2>1. Changed(c) /\ ~tx'[c].locked
        BY <1>8 DEF Ends, Finish, Idle, Changed, TxInv
    <2>2. CASE ~tx[c].locked
        <3>1. db' = db
            BY <1>8, <2>2 DEF Ends, Finish
        <3>2. QED
            BY <1>3, <2>1, <2>2, <3>1 DEF Same
    <2>3. CASE tx[c].locked
        <3>1. \A d \in Conn : ~tx'[d].locked
            BY <2>1, <2>3 DEF Changed, TxInv, OneWriter
        <3>2. (Live = db)'
            BY <3>1 DEF Live
        <3>3. CASE answer = "ok"
            <4>1. db' = tx[c].work
                BY <1>8, <2>3, <3>3 DEF Ends, Finish
            <4>2. tx[c].at = Len(tx[c].request) + 1 /\ ConnOK(tx[c])
                BY <1>8, <3>3 DEF Ends, TxInv, ConnInv
            <4>3. tx[c].stage # "receipt"
                BY <4>2, RequestWrites DEF ConnOK
            <4>4. Live = Ahead(tx[c])
                BY <2>3, LiveOfWriter DEF TxInv
            <4>5. QED
                BY <3>2, <4>1, <4>3, <4>4 DEF Ahead, Same
        <3>4. CASE answer # "ok"
            <4>1. db' = db
                BY <1>8, <3>4 DEF Ends, Finish
            <4>2. QED
                BY <3>2, <4>1
        <3>5. QED
            BY <3>3, <3>4
    <2>4. QED
        BY <2>2, <2>3
<1>9. QED
    BY <1>1, <1>2, <1>5, <1>6, <1>7, <1>8, TxSteps

-----------------------------------------------------------------------------
(* The committed tables and the writer's keep what CanonicalStore keeps.   *)

Stored == INSTANCE CanonicalStoreProofs WITH objects <- db.objects, logs <- db.logs,
                                             xrefs <- Empty, ledger <- db.ledger

Living == INSTANCE CanonicalStoreProofs WITH objects <- Live.objects, logs <- Live.logs,
                                             xrefs <- Empty, ledger <- Live.ledger

\* A step of the writer's tables is one of CanonicalStore.
LEMMA StepIsLiving ==
    ASSUME NEW w, OneStep(Live, Live', w)
    PROVE  Living!Next
<1> USE DEF Living!Put, Put
<1>1. CASE w \in ObjectWrite
    <2> DEFINE version == NextVersion(w.env.observed[w.id])
    <2>1. w \notin LogWrite
        BY <1>1 DEF ObjectWrite, LogWrite
    <2>2. w.env \in Envelope /\ w.payload \in RecordPayload /\ w.payload.id = w.id
        BY <1>1 DEF ObjectWrite
    <2>3. /\ w.env.key \notin DOMAIN Live.ledger
          /\ PreconditionsHold(Live.objects, w.env.observed)
          /\ w.id \in DOMAIN w.env.observed
          /\ w.id \in TaskId /\ w.payload.occurrence # NoOccurrence =>
                 ~OccurrenceHeld(Live.objects, w.id, w.payload.occurrence)
          /\ CanAdvance(w.env.observed[w.id])
          /\ Live'.objects = Put(Live.objects, w.id, [payload |-> w.payload, version |-> version])
          /\ Live'.ledger = Put(Live.ledger, w.env.key,
                                [payload |-> w.payload, id |-> w.id, version |-> version,
                                 observed |-> w.env.observed])
          /\ Live'.logs = Live.logs
        BY <2>1 DEF OneStep
    <2>4. Living!Fresh(w.env)
        BY <2>3 DEF Living!Fresh, Living!PreconditionsHold, PreconditionsHold,
                    Living!CurrentRef, CurrentRef, Living!Absent, Absent
    <2>5. Living!OccurrenceFree(w.env, w.id, w.payload)
        BY <2>3 DEF Living!OccurrenceFree, Living!OccurrenceHeld, OccurrenceHeld
    <2>6. Living!CanAdvance(w.env.observed[w.id])
        BY <2>3 DEF Living!CanAdvance, CanAdvance
    <2>7. Living!NextVersion(w.env.observed[w.id]) = version
        BY DEF Living!NextVersion, NextVersion, Living!Absent, Absent
    <2> HIDE DEF version
    <2>8. Living!Record(w.env, w.payload, w.id, version)
        BY <2>3 DEF Living!Record
    <2>9. UNCHANGED Empty
        BY DEF Empty
    <2>10. Living!WriteObject(w.env, w.id, w.payload, w.payload)
        BY <2>3, <2>5, <2>6, <2>7, <2>8, <2>9 DEF Living!WriteObject
    <2>11. Living!AdmitObject(w.env, w.payload)
        BY <2>2, <2>4, <2>10 DEF Living!AdmitObject
    <2>12. w.env \in Living!Envelope
        BY <2>2 DEF Living!Envelope, Envelope, Living!Key, Key
    <2>13. QED
        BY <2>2, <2>11, <2>12 DEF Living!Next
<1>2. CASE w \in LogWrite
    <2>1. w \notin ObjectWrite
        BY <1>2 DEF ObjectWrite, LogWrite
    <2>2. w.env \in Envelope /\ w.payload \in RecordPayload /\ w.id \in LogId
        BY <1>2 DEF LogWrite
    <2>3. /\ w.env.key \notin DOMAIN Live.ledger
          /\ PreconditionsHold(Live.objects, w.env.observed)
          /\ w.id \notin DOMAIN Live.logs
          /\ Live'.logs = Put(Live.logs, w.id, w.payload)
          /\ Live'.ledger = Put(Live.ledger, w.env.key, [payload |-> w.payload, id |-> w.id, version |-> 0,
                                                   observed |-> w.env.observed])
          /\ Live'.objects = Live.objects
        BY <2>1 DEF OneStep
    <2>4. Living!Fresh(w.env)
        BY <2>3 DEF Living!Fresh, Living!PreconditionsHold, PreconditionsHold,
                    Living!CurrentRef, CurrentRef, Living!Absent, Absent
    <2>5. Living!Record(w.env, w.payload, w.id, 0)
        BY <2>3 DEF Living!Record
    <2>6. UNCHANGED Empty
        BY DEF Empty
    <2>7. Living!AppendLogEntry(w.env, w.id, w.payload)
        BY <2>3, <2>4, <2>5, <2>6 DEF Living!AppendLogEntry
    <2>8. w.env \in Living!Envelope /\ w.payload \in Living!Json
        BY <2>2 DEF Living!Envelope, Envelope, Living!Key, Key, Living!Json
    <2>9. QED
        BY <2>2, <2>7, <2>8 DEF Living!Next
<1>3. QED
    BY <1>1, <1>2 DEF OneStep

\* Equal tables are equally sound.
LEMMA CommitKeepsInv ==
    ASSUME Living!StoreInv, Same(db', Live)
    PROVE  Stored!StoreInv'
<1> USE DEF Same
<1>1. Stored!TypeOK'
    BY DEF Living!StoreInv, Living!LedgerInv, Living!TypeOK, Stored!TypeOK, Living!IsTable, Stored!IsTable,
           Living!Receipt, Stored!Receipt, Living!ObjectRow, Stored!ObjectRow, Living!Json, Stored!Json,
           Living!ObjectId, Stored!ObjectId, Living!ObjectPayload, Stored!ObjectPayload,
           Living!Key, Stored!Key
<1>2. Stored!EachVersionWrittenOnce'
    BY DEF Living!StoreInv, Living!LedgerInv, Living!EachVersionWrittenOnce, Stored!EachVersionWrittenOnce,
           Living!VersionsHaveReceipts, Stored!VersionsHaveReceipts,
           Living!ReceiptsHaveVersions, Stored!ReceiptsHaveVersions,
           Living!OneReceiptPerResult, Stored!OneReceiptPerResult, Living!Wrote, Stored!Wrote
<1>3. Stored!AppendsHaveReceipts'
    BY DEF Living!StoreInv, Living!LedgerInv, Living!AppendsHaveReceipts, Stored!AppendsHaveReceipts
<1>4. Stored!ObservedPast'
    BY DEF Living!StoreInv, Living!ObservedPast, Stored!ObservedPast, Living!Absent, Stored!Absent
<1>5. Stored!ReceiptsSerializable'
    BY DEF Living!StoreInv, Living!ReceiptsSerializable, Stored!ReceiptsSerializable,
           Living!Precedes, Stored!Precedes, Living!NextVersion, Stored!NextVersion,
           Living!Absent, Stored!Absent
<1>6. Stored!OccurrenceKeyUnique'
    BY DEF Living!StoreInv, Living!OccurrenceKeyUnique, Stored!OccurrenceKeyUnique
<1>7. QED
    BY <1>1, <1>2, <1>3, <1>4, <1>5, <1>6 DEF Stored!StoreInv, Stored!LedgerInv

LEMMA EndKeepsInv ==
    ASSUME Stored!StoreInv', Live' = db'
    PROVE  Living!StoreInv'
<1>1. Living!TypeOK'
    BY DEF Stored!StoreInv, Stored!LedgerInv, Living!TypeOK, Stored!TypeOK, Living!IsTable, Stored!IsTable,
           Living!Receipt, Stored!Receipt, Living!ObjectRow, Stored!ObjectRow, Living!Json, Stored!Json,
           Living!ObjectId, Stored!ObjectId, Living!ObjectPayload, Stored!ObjectPayload,
           Living!Key, Stored!Key
<1>2. Living!EachVersionWrittenOnce'
    BY DEF Stored!StoreInv, Stored!LedgerInv, Living!EachVersionWrittenOnce, Stored!EachVersionWrittenOnce,
           Living!VersionsHaveReceipts, Stored!VersionsHaveReceipts,
           Living!ReceiptsHaveVersions, Stored!ReceiptsHaveVersions,
           Living!OneReceiptPerResult, Stored!OneReceiptPerResult, Living!Wrote, Stored!Wrote
<1>3. Living!AppendsHaveReceipts'
    BY DEF Stored!StoreInv, Stored!LedgerInv, Living!AppendsHaveReceipts, Stored!AppendsHaveReceipts
<1>4. Living!ObservedPast'
    BY DEF Stored!StoreInv, Living!ObservedPast, Stored!ObservedPast, Living!Absent, Stored!Absent
<1>5. Living!ReceiptsSerializable'
    BY DEF Stored!StoreInv, Living!ReceiptsSerializable, Stored!ReceiptsSerializable,
           Living!Precedes, Stored!Precedes, Living!NextVersion, Stored!NextVersion,
           Living!Absent, Stored!Absent
<1>6. Living!OccurrenceKeyUnique'
    BY DEF Stored!StoreInv, Living!OccurrenceKeyUnique, Stored!OccurrenceKeyUnique
<1>7. QED
    BY <1>1, <1>2, <1>3, <1>4, <1>5, <1>6 DEF Living!StoreInv, Living!LedgerInv

LEMMA BothKept ==
    ASSUME TxInv, TxInv', Stored!StoreInv, Living!StoreInv, [TxNext]_txVars
    PROVE  Stored!StoreInv' /\ Living!StoreInv'
<1> USE IdsDisjoint, MaxVersionPositive, RecordPayloadShape, StateRequestShape, ObservationShape
<1>1. ASSUME [Living!Next]_(Living!vars)
      PROVE  Living!StoreInv'
    BY <1>1, Living!StoreKept
       DEF Living!ObjectId, ObjectId, Living!VersionRef, VersionRef, Living!Absent, Absent,
           Living!ObjectPayload, ObjectPayload
<1>2. ASSUME db' = db
      PROVE  Stored!StoreInv'
    <2>1. [Stored!Next]_(Stored!vars)
        BY <1>2 DEF Stored!vars, Empty
    <2>2. QED
        BY <2>1, Stored!StoreKept
           DEF Stored!ObjectId, ObjectId, Stored!VersionRef, VersionRef, Stored!Absent, Absent,
               Stored!ObjectPayload, ObjectPayload
<1>3. CASE Same(Live', Live) /\ db' = db
    <2>1. [Living!Next]_(Living!vars)
        BY <1>3 DEF Living!vars, Same, Empty
    <2>2. QED
        BY <1>1, <1>2, <1>3, <2>1
<1>4. CASE (\E c \in Conn : WriteRow(c) /\ OneStep(Live, Live', Current(c))) /\ db' = db
    <2>1. [Living!Next]_(Living!vars)
        BY <1>4, StepIsLiving
    <2>2. QED
        BY <1>1, <1>2, <1>4, <2>1
<1>5. CASE Live' = db' /\ (db' = db \/ Same(db', Live))
    <2>1. Stored!StoreInv'
        BY <1>2, <1>5, CommitKeepsInv
    <2>2. QED
        BY <1>5, <2>1, EndKeepsInv
<1>6. QED
    BY <1>3, <1>4, <1>5, LiveMoves

\* Whatever statements of batches interleave, fail or are cut off, the committed
\* tables agree with their ledger, hold each occurrence key once, and are
\* serializable: two transactions that each checked what the other replaced do
\* not both commit, although each checks before it locks.
THEOREM CommitsAgree == TxSpec => []CommittedAgrees
<1> USE IdsDisjoint, MaxVersionPositive, RecordPayloadShape, StateRequestShape, ObservationShape
<1>1. TxInit => Stored!StoreInv /\ Living!StoreInv
    <2> SUFFICES ASSUME TxInit PROVE Stored!StoreInv /\ Living!StoreInv
        OBVIOUS
    <2>1. db = NoTables /\ Live = NoTables
        <3>1. \A c \in Conn : ~tx[c].locked
            BY DEF TxInit, Idle
        <3>2. QED
            BY <3>1, LiveOfNone DEF TxInit
    <2>2. Stored!Init /\ Living!Init
        BY <2>1 DEF Stored!Init, Living!Init, Stored!Empty, Living!Empty, NoTables, Empty
    <2>3. Stored!StoreInv
        BY <2>2, Stored!StoreStarts
           DEF Stored!ObjectId, ObjectId, Stored!VersionRef, VersionRef, Stored!Absent, Absent,
               Stored!ObjectPayload, ObjectPayload
    <2>4. Living!StoreInv
        BY <2>2, Living!StoreStarts
           DEF Living!ObjectId, ObjectId, Living!VersionRef, VersionRef, Living!Absent, Absent,
               Living!ObjectPayload, ObjectPayload
    <2>5. QED
        BY <2>3, <2>4
<1>2. Stored!StoreInv => CommittedAgrees
    <2> SUFFICES ASSUME Stored!StoreInv PROVE CommittedAgrees
        OBVIOUS
    <2>1. Committed!EachVersionWrittenOnce
        BY DEF Stored!StoreInv, Stored!LedgerInv, Committed!EachVersionWrittenOnce, Stored!EachVersionWrittenOnce,
               Committed!VersionsHaveReceipts, Stored!VersionsHaveReceipts,
               Committed!ReceiptsHaveVersions, Stored!ReceiptsHaveVersions,
               Committed!OneReceiptPerResult, Stored!OneReceiptPerResult, Committed!Wrote, Stored!Wrote
    <2>2. Committed!AppendsHaveReceipts
        BY DEF Stored!StoreInv, Stored!LedgerInv, Committed!AppendsHaveReceipts, Stored!AppendsHaveReceipts
    <2>3. Committed!OccurrenceKeyUnique
        BY DEF Stored!StoreInv, Committed!OccurrenceKeyUnique, Stored!OccurrenceKeyUnique
    <2>4. Committed!ReceiptsSerializable
        BY DEF Stored!StoreInv, Committed!ReceiptsSerializable, Stored!ReceiptsSerializable,
               Committed!Precedes, Stored!Precedes, Committed!NextVersion, Stored!NextVersion,
               Committed!Absent, Stored!Absent
    <2>5. QED
        BY <2>1, <2>2, <2>3, <2>4 DEF CommittedAgrees
<1>3. QED
    BY <1>1, <1>2, BothKept, TxInvariant, PTL DEF TxSpec

-----------------------------------------------------------------------------
(* Requests of one write implement the atomic store.                       *)

\* admit_object and append_log_entry submit one write each.
OneWriteRequests == \A r \in Request : Len(r) <= 1

\* Past its row, a transaction of one write has nothing left to write; and what
\* the writer would commit is one step from what is committed.
OneWriteInv ==
    /\ \A c \in Conn : tx[c].locked => tx[c].stage = "receipt" \/ tx[c].at = 2
    /\ Same(Live, db) \/ \E w \in ObjectWrite \cup LogWrite : OneStep(db, Live, w)

LEMMA WriterPastItsRow ==
    ASSUME OneWriteRequests, TxInv, OneWriteInv, [TxNext]_txVars
    PROVE  \A c \in Conn : tx'[c].locked => tx'[c].stage = "receipt" \/ tx'[c].at = 2
<1>1. \A c \in Conn : Len(tx[c].request) <= 1
    BY DEF OneWriteRequests, TxInv, ConnInv, ConnOK
<1>2. CASE UNCHANGED txVars
    BY <1>2 DEF txVars, OneWriteInv
<1>3. ASSUME NEW c \in Conn, Changed(c),
             tx'[c].locked => tx'[c].stage = "receipt" \/ tx'[c].at = 2
      PROVE  \A d \in Conn : tx'[d].locked => tx'[d].stage = "receipt" \/ tx'[d].at = 2
    BY <1>3 DEF Changed, OneWriteInv
<1>4. ASSUME NEW c \in Conn, NEW request \in Request, Begin(c, request)
      PROVE  Changed(c) /\ ~tx'[c].locked
    BY <1>4 DEF Begin, Idle, Changed, TxInv
<1>5. ASSUME NEW c \in Conn, PrepareFresh(c) \/ PrepareReplay(c)
      PROVE  Changed(c) /\ ~tx'[c].locked
    <2>1. IsConn(tx[c]) /\ tx[c].at \in Nat /\ Len(tx[c].request) \in Nat
        BY RequestWrites DEF TxInv, ConnInv, ConnOK
    <2>2. tx[c].stage = "prepare" /\ tx[c].at # 2
        BY <1>1, <1>5, <2>1 DEF PrepareFresh, PrepareReplay, AtStage
    <2>3. ~tx[c].locked
        BY <2>2 DEF OneWriteInv
    <2>4. Changed(c) /\ tx'[c].locked = tx[c].locked
        BY <1>5, <2>1 DEF PrepareFresh, PrepareReplay, Advance, Changed, TxInv, IsConn
    <2>5. QED
        BY <2>3, <2>4
<1>6. ASSUME NEW c \in Conn, LoseAnswer(c)
      PROVE  /\ Changed(c) /\ tx'[c].locked = tx[c].locked
             /\ tx'[c].stage = tx[c].stage /\ tx'[c].at = tx[c].at
    <2>1. IsConn(tx[c])
        BY DEF TxInv, ConnInv, ConnOK
    <2>2. QED
        BY <1>6, <2>1 DEF LoseAnswer, Changed, TxInv, IsConn
<1>7. ASSUME NEW c \in Conn, WriteRow(c)
      PROVE  Changed(c) /\ tx'[c].stage = "receipt"
    <2>1. IsConn(tx[c])
        BY DEF TxInv, ConnInv, ConnOK
    <2>2. QED
        BY <1>7, <2>1 DEF WriteRow, Changed, TxInv, IsConn
<1>8. ASSUME NEW c \in Conn, WriteReceipt(c)
      PROVE  Changed(c) /\ tx'[c].at = 2
    <2>1. /\ IsConn(tx[c]) /\ tx[c].at \in 1..Len(tx[c].request)
          /\ Len(tx[c].request) \in Nat
        BY <1>8, RequestWrites DEF WriteReceipt, AtStage, TxInv, ConnInv, ConnOK
    <2>2. tx[c].at = 1
        BY <1>1, <2>1
    <2>3. QED
        <3>1. PICK u : u = tx'[c]
            OBVIOUS
        <3>2. QED
            BY <1>8, <2>2, <3>1, ReceivedShape
<1>9. ASSUME NEW c \in Conn, NEW answer, Ends(c, answer)
      PROVE  Changed(c) /\ ~tx'[c].locked
    BY <1>9 DEF Ends, Finish, Idle, Changed, TxInv
<1>10. QED
    BY <1>2, <1>3, <1>4, <1>5, <1>6, <1>7, <1>8, <1>9, TxSteps DEF OneWriteInv

LEMMA OneWriteKept ==
    ASSUME OneWriteRequests, TxInv, TxInv', OneWriteInv, [TxNext]_txVars
    PROVE  OneWriteInv'
<1>1. \A c \in Conn : tx'[c].locked => tx'[c].stage = "receipt" \/ tx'[c].at = 2
    BY WriterPastItsRow
<1>2. (Same(Live, db) \/ \E w \in ObjectWrite \cup LogWrite : OneStep(db, Live, w))'
    <2>1. CASE Same(Live', Live) /\ db' = db
        BY <2>1 DEF OneWriteInv, OneStep, Same
    <2>2. ASSUME NEW c \in Conn, WriteRow(c), OneStep(Live, Live', Current(c)), db' = db
          PROVE  OneStep(db, Live', Current(c)) /\ Current(c) \in ObjectWrite \cup LogWrite
        <3>1. tx[c].stage = "row" /\ tx[c].at \in 1..Len(tx[c].request) /\ Len(tx[c].request) \in Nat
            BY <2>2, RequestWrites DEF WriteRow, AtStage, TxInv, ConnInv, ConnOK
        <3>2. tx[c].at = 1
            BY <3>1 DEF OneWriteRequests, TxInv, ConnInv, ConnOK
        <3>3. ~tx[c].locked
            BY <3>1, <3>2 DEF OneWriteInv
        <3>4. \A d \in Conn : ~tx[d].locked
            BY <2>2, <3>3 DEF WriteRow, MayWrite
        <3>5. Live = db
            BY <3>4, LiveOfNone
        <3>6. QED
            BY <2>2, <3>5 DEF OneStep
    <2>3. CASE Live' = db'
        BY <2>3 DEF Same
    <2>4. QED
        BY <2>1, <2>2, <2>3, LiveMoves
<1>3. QED
    BY <1>1, <1>2 DEF OneWriteInv

\* A step of the committed tables is one of CanonicalStore.
LEMMA StepIsCommitted ==
    ASSUME NEW w, OneStep(db, db', w)
    PROVE  Committed!Next
<1> USE DEF Committed!Put, Put
<1>1. CASE w \in ObjectWrite
    <2> DEFINE version == NextVersion(w.env.observed[w.id])
    <2>1. w \notin LogWrite
        BY <1>1 DEF ObjectWrite, LogWrite
    <2>2. w.env \in Envelope /\ w.payload \in RecordPayload /\ w.payload.id = w.id
        BY <1>1 DEF ObjectWrite
    <2>3. /\ w.env.key \notin DOMAIN db.ledger
          /\ PreconditionsHold(db.objects, w.env.observed)
          /\ w.id \in DOMAIN w.env.observed
          /\ w.id \in TaskId /\ w.payload.occurrence # NoOccurrence =>
                 ~OccurrenceHeld(db.objects, w.id, w.payload.occurrence)
          /\ CanAdvance(w.env.observed[w.id])
          /\ db'.objects = Put(db.objects, w.id, [payload |-> w.payload, version |-> version])
          /\ db'.ledger = Put(db.ledger, w.env.key,
                                [payload |-> w.payload, id |-> w.id, version |-> version,
                                 observed |-> w.env.observed])
          /\ db'.logs = db.logs
        BY <2>1 DEF OneStep
    <2>4. Committed!Fresh(w.env)
        BY <2>3 DEF Committed!Fresh, Committed!PreconditionsHold, PreconditionsHold,
                    Committed!CurrentRef, CurrentRef, Committed!Absent, Absent
    <2>5. Committed!OccurrenceFree(w.env, w.id, w.payload)
        BY <2>3 DEF Committed!OccurrenceFree, Committed!OccurrenceHeld, OccurrenceHeld
    <2>6. Committed!CanAdvance(w.env.observed[w.id])
        BY <2>3 DEF Committed!CanAdvance, CanAdvance
    <2>7. Committed!NextVersion(w.env.observed[w.id]) = version
        BY DEF Committed!NextVersion, NextVersion, Committed!Absent, Absent
    <2> HIDE DEF version
    <2>8. Committed!Record(w.env, w.payload, w.id, version)
        BY <2>3 DEF Committed!Record
    <2>9. UNCHANGED Empty
        BY DEF Empty
    <2>10. Committed!WriteObject(w.env, w.id, w.payload, w.payload)
        BY <2>3, <2>5, <2>6, <2>7, <2>8, <2>9 DEF Committed!WriteObject
    <2>11. Committed!AdmitObject(w.env, w.payload)
        BY <2>2, <2>4, <2>10 DEF Committed!AdmitObject
    <2>12. w.env \in Committed!Envelope
        BY <2>2 DEF Committed!Envelope, Envelope, Committed!Key, Key
    <2>13. QED
        BY <2>2, <2>11, <2>12 DEF Committed!Next
<1>2. CASE w \in LogWrite
    <2>1. w \notin ObjectWrite
        BY <1>2 DEF ObjectWrite, LogWrite
    <2>2. w.env \in Envelope /\ w.payload \in RecordPayload /\ w.id \in LogId
        BY <1>2 DEF LogWrite
    <2>3. /\ w.env.key \notin DOMAIN db.ledger
          /\ PreconditionsHold(db.objects, w.env.observed)
          /\ w.id \notin DOMAIN db.logs
          /\ db'.logs = Put(db.logs, w.id, w.payload)
          /\ db'.ledger = Put(db.ledger, w.env.key, [payload |-> w.payload, id |-> w.id, version |-> 0,
                                                   observed |-> w.env.observed])
          /\ db'.objects = db.objects
        BY <2>1 DEF OneStep
    <2>4. Committed!Fresh(w.env)
        BY <2>3 DEF Committed!Fresh, Committed!PreconditionsHold, PreconditionsHold,
                    Committed!CurrentRef, CurrentRef, Committed!Absent, Absent
    <2>5. Committed!Record(w.env, w.payload, w.id, 0)
        BY <2>3 DEF Committed!Record
    <2>6. UNCHANGED Empty
        BY DEF Empty
    <2>7. Committed!AppendLogEntry(w.env, w.id, w.payload)
        BY <2>3, <2>4, <2>5, <2>6 DEF Committed!AppendLogEntry
    <2>8. w.env \in Committed!Envelope /\ w.payload \in Committed!Json
        BY <2>2 DEF Committed!Envelope, Envelope, Committed!Key, Key, Committed!Json
    <2>9. QED
        BY <2>2, <2>7, <2>8 DEF Committed!Next
<1>3. QED
    BY <1>1, <1>2 DEF OneStep

\* For the writers of one record the statements implement the atomic store: BEGIN,
\* the reads, the row, the receipt and the rollbacks change nothing that is
\* committed, and each COMMIT is one admit_object, one append_log_entry or nothing.
THEOREM SingleWritesAreAtomic ==
    ASSUME OneWriteRequests
    PROVE  TxSpec => CommitsImplementStore
<1>1. TxInit => Committed!Init /\ OneWriteInv
    <2> SUFFICES ASSUME TxInit PROVE Committed!Init /\ OneWriteInv
        OBVIOUS
    <2>1. \A c \in Conn : ~tx[c].locked
        BY DEF TxInit, Idle
    <2>2. Live = db
        BY <2>1, LiveOfNone
    <2>3. QED
        BY <2>1, <2>2 DEF TxInit, OneWriteInv, Same, Committed!Init, Committed!Empty, NoTables, Empty
<1>2. OneWriteRequests /\ TxInv /\ TxInv' /\ OneWriteInv /\ [TxNext]_txVars => OneWriteInv'
    BY OneWriteKept
<1>3. TxInv /\ TxInv' /\ OneWriteInv /\ [TxNext]_txVars => [Committed!Next]_(Committed!vars)
    <2> SUFFICES ASSUME TxInv, TxInv', OneWriteInv, [TxNext]_txVars
                 PROVE  [Committed!Next]_(Committed!vars)
        OBVIOUS
    <2>1. CASE db' = db
        BY <2>1 DEF Committed!vars, Empty
    <2>2. CASE Same(db', Live)
        <3>1. CASE Same(Live, db)
            BY <2>2, <3>1 DEF Committed!vars, Same, Empty
        <3>2. ASSUME NEW w \in ObjectWrite \cup LogWrite, OneStep(db, Live, w)
              PROVE  Committed!Next
            <4>1. OneStep(db, db', w)
                BY <2>2, <3>2 DEF OneStep, Same
            <4>2. QED
                BY <4>1, StepIsCommitted
        <3>3. QED
            BY <3>1, <3>2 DEF OneWriteInv
    <2>3. QED
        BY <2>1, <2>2, LiveMoves
<1>4. QED
    BY <1>1, <1>2, <1>3, TxInvariant, PTL DEF TxSpec, CommitsImplementStore, Committed!Spec


-----------------------------------------------------------------------------
(* Callers that repeat their requests.                                     *)

\* No key of the request is recorded.
Untouched(request, tables) ==
    \A i \in 1..Len(request) : request[i].env.key \notin DOMAIN tables.ledger

\* The request is recorded whole, so that the ledger answers each write of it.
Settled(request, tables) ==
    /\ \A i \in 1..Len(request) :
          LET key == request[i].env.key
          IN  /\ key \in DOMAIN tables.ledger
              /\ tables.ledger[key].payload = request[i].payload
              /\ Accepts(request[i].table, tables.ledger[key])
    /\ \A i, j \in 1..Len(request) : request[i].env.key = request[j].env.key => i = j

\* The receipts of the writes done, and of the row just written, answer them.
Filed(t) ==
    /\ \A i \in 1..(t.at - 1) : Accepts(WriteAt(t, i).table, t.work.ledger[KeyAt(t, i)])
    /\ t.stage = "receipt" => Accepts(WriteAt(t, t.at).table, ReceiptOf(t))

\* Connection c serves an unanswered request of its own process; nobody else
\* records its keys meanwhile; nothing of a request being written or refused is
\* recorded.
CallerOK(c, t, tables, told) ==
    /\ t.open \/ t.answer \in {"ok", "refused"} => t.request \in Workload[c]
    /\ t.open => told[t.request] = "none"
    /\ t.open => \A i \in 1..Len(t.request) :
                     KeyAt(t, i) \in DOMAIN tables.ledger => KeyAt(t, i) \in DOMAIN t.base.ledger
    /\ t.locked \/ t.answer = "refused" => Untouched(t.request, tables)
    /\ Filed(t)

ClientInv ==
    /\ answered = [r \in Wanted |-> answered[r]]
    /\ \A r \in Wanted : Settled(r, db) \/ Untouched(r, db)
    /\ \A c \in Conn : CallerOK(c, tx[c], db, answered)

\* Requests are sequences of writes to objects or logs.
LEMMA WantedWrites ==
    ASSUME NEW r \in Wanted
    PROVE  /\ r \in Request
           /\ Len(r) \in Nat \ {0}
           /\ \A i \in 1..Len(r) : r[i] \in ObjectWrite \cup LogWrite
<1>1. r \in Request
    BY WorkloadShape DEF Wanted
<1>2. r \in Seq(ObjectWrite \cup LogWrite)
    BY <1>1, RequestShape
<1>3. Len(r) > 0
    BY WorkloadKeys
<1>4. QED
    BY <1>1, <1>2, <1>3

LEMMA ServedIsWanted ==
    ASSUME NEW c \in Conn, NEW r \in Workload[c]
    PROVE  r \in Wanted /\ r \in Request
BY WorkloadShape DEF Wanted

\* Two connections serve different requests.
LEMMA ServedApart ==
    ASSUME NEW c \in Conn, NEW d \in Conn, c # d, NEW r \in Workload[c], NEW s \in Workload[d]
    PROVE  r # s
BY WorkloadShape

\* A request is recorded if and only if it is settled.
LEMMA SettledIsRecorded ==
    ASSUME NEW r \in Wanted, NEW tables, Settled(r, tables) \/ Untouched(r, tables)
    PROVE  /\ Recorded(tables, r) <=> Settled(r, tables)
           /\ Settled(r, tables) => ~Untouched(r, tables)
<1>1. 1 \in 1..Len(r)
    BY WantedWrites
<1>2. ~(Settled(r, tables) /\ Untouched(r, tables))
    BY <1>1 DEF Settled, Untouched
<1>3. ~(Recorded(tables, r) /\ Untouched(r, tables))
    BY <1>1 DEF Recorded, Untouched
<1>4. Settled(r, tables) => Recorded(tables, r)
    BY DEF Settled, Recorded
<1>5. QED
    BY <1>2, <1>3, <1>4

\* A step of the callers is one of the transactions.
LEMMA ClientSteps ==
    ASSUME [ClientNext]_clientVars
    PROVE  [TxNext]_txVars
<1>1. ASSUME NEW c \in Conn, Submit(c)
      PROVE  TxNext
    <2>1. PICK r \in Workload[c] : Begin(c, r)
        BY <1>1 DEF Submit
    <2>2. r \in Request
        BY ServedIsWanted
    <2>3. QED
        BY <2>1, <2>2 DEF TxNext
<1>2. ASSUME NEW c \in Conn, Statement(c)
      PROVE  TxNext
    <2>1. Busy(c) => Abort(c)
        BY DEF Busy, Abort, AtStage
    <2>2. QED
        BY <1>2, <2>1 DEF Statement, TxNext
<1>3. ASSUME NEW c \in Conn, Fault(c)
      PROVE  TxNext
    BY <1>3 DEF Fault, TxNext
<1>4. ASSUME NEW c \in Conn, Receive(c)
      PROVE  UNCHANGED txVars
    BY <1>4 DEF Receive, txVars
<1>5. QED
    BY <1>1, <1>2, <1>3, <1>4 DEF ClientNext, clientVars, txVars

\* A step of one connection that commits nothing.
LEMMA CallerStep ==
    ASSUME ClientInv, NEW c \in Conn, Changed(c), db' = db, answered' = answered,
           NEW u, u = tx'[c], CallerOK(c, u, db, answered)
    PROVE  ClientInv'
<1>1. \A d \in Conn : CallerOK(d, tx'[d], db', answered')
    BY DEF ClientInv, Changed
<1>2. QED
    BY <1>1 DEF ClientInv

\* A statement that goes on within the transaction.
LEMMA CallerContinues ==
    ASSUME TxInv, NEW c \in Conn, NEW t, t = tx[c], NEW u, Continues(t, u), NEW tables, NEW told,
           CallerOK(c, t, tables, told), Filed(u),
           u.locked => t.locked \/ Untouched(t.request, tables)
    PROVE  CallerOK(c, u, tables, told)
BY DEF CallerOK, Continues

LEMMA SubmitKeeps ==
    ASSUME TxInv, ClientInv, NEW c \in Conn, Submit(c)
    PROVE  ClientInv'
<1>1. PICK r \in Workload[c] : answered[r] = "none" /\ Begin(c, r)
    BY DEF Submit
<1>2. PICK u : u = tx'[c]
    OBVIOUS
<1>3. /\ Changed(c) /\ db' = db /\ answered' = answered
      /\ u.open /\ u.request = r /\ u.at = 1 /\ u.stage = "prepare"
      /\ ~u.locked /\ u.base = db /\ u.answer = "none"
    BY <1>1, <1>2 DEF Submit, Begin, Idle, Changed, TxInv
<1>4. Filed(u)
    BY <1>3 DEF Filed
<1>5. CallerOK(c, u, db, answered)
    BY <1>1, <1>3, <1>4 DEF CallerOK
<1>6. QED
    BY <1>2, <1>3, <1>5, CallerStep

LEMMA FreshKeeps ==
    ASSUME TxInv, ClientInv, NEW c \in Conn, PrepareFresh(c), answered' = answered
    PROVE  ClientInv'
<1>1. ConnInv(tx[c], db) /\ CallerOK(c, tx[c], db, answered)
    BY DEF TxInv, ClientInv
<1>2. PICK u : u = tx'[c]
    OBVIOUS
<1>3. /\ Changed(c) /\ db' = db /\ Continues(tx[c], u)
      /\ u.at = tx[c].at /\ u.stage = "row" /\ u.locked = tx[c].locked /\ u.work = tx[c].work
    BY <1>1, <1>2 DEF PrepareFresh, Changed, TxInv, ConnInv, ConnOK, IsConn, Continues,
                      WriteAt, KeyAt
<1>4. Filed(u)
    BY <1>1, <1>3 DEF CallerOK, Filed, Continues
<1>5. CallerOK(c, u, db, answered)
    BY <1>1, <1>3, <1>4, CallerContinues
<1>6. QED
    BY <1>2, <1>3, <1>5, CallerStep

LEMMA ReplayKeeps ==
    ASSUME TxInv, ClientInv, NEW c \in Conn, PrepareReplay(c), answered' = answered
    PROVE  ClientInv'
<1>1. ConnInv(tx[c], db) /\ CallerOK(c, tx[c], db, answered)
    BY DEF TxInv, ClientInv
<1>2. PICK u : u = tx'[c]
    OBVIOUS
<1>3. /\ Changed(c) /\ db' = db /\ Continues(tx[c], u)
      /\ u.at = tx[c].at + 1 /\ u.stage = "prepare" /\ u.locked = tx[c].locked
      /\ u.work = tx[c].work
    BY <1>1, <1>2 DEF PrepareReplay, Advance, Changed, TxInv, ConnInv, ConnOK, IsConn, Continues,
                      WriteAt, KeyAt
<1>4. Accepts(WriteAt(tx[c], tx[c].at).table, tx[c].work.ledger[KeyAt(tx[c], tx[c].at)])
    BY DEF PrepareReplay, Answerable, Seen!Replays, Seen!Accepts, Accepts, Current, WriteAt, KeyAt
<1>5. \A i \in 1..((tx[c].at + 1) - 1) : i \in 1..(tx[c].at - 1) \/ i = tx[c].at
    BY <1>1, RequestWrites, UpToNext DEF ConnInv
<1>6. Filed(u)
    BY <1>1, <1>3, <1>4, <1>5 DEF CallerOK, Filed, Continues
<1>7. CallerOK(c, u, db, answered)
    BY <1>1, <1>3, <1>6, CallerContinues
<1>8. QED
    BY <1>2, <1>3, <1>7, CallerStep

\* A write about to be done is of a request of which nothing is recorded.
LEMMA NewIsUntouched ==
    ASSUME TxInv, ClientInv, NEW c \in Conn, AtStage(c, "row")
    PROVE  Untouched(tx[c].request, db)
<1>1. ConnInv(tx[c], db) /\ CallerOK(c, tx[c], db, answered)
    BY DEF TxInv, ClientInv
<1>2. tx[c].open /\ tx[c].stage = "row" /\ tx[c].at \in 1..Len(tx[c].request)
    BY <1>1 DEF AtStage, ConnInv, ConnOK
<1>3. KeyAt(tx[c], tx[c].at) \notin DOMAIN db.ledger
    BY <1>1, <1>2 DEF ConnInv, Progress, Keeps, CallerOK
<1>4. ~Settled(tx[c].request, db)
    BY <1>2, <1>3 DEF Settled, KeyAt, WriteAt
<1>5. tx[c].request \in Wanted
    BY <1>1, <1>2, ServedIsWanted DEF CallerOK
<1>6. QED
    BY <1>4, <1>5 DEF ClientInv

\* The receipt of a row answers the write of the row.
LEMMA RowIsFiled ==
    ASSUME TxInv, NEW c \in Conn, WriteRow(c), NEW u, u = tx'[c]
    PROVE  Accepts(WriteAt(u, u.at).table, ReceiptOf(u))
<1>1. /\ Continues(tx[c], u) /\ u.at = tx[c].at /\ u.work = WithRow(c)
    BY RowedShape
<1>2. ConnOK(tx[c]) /\ tx[c].stage = "row" /\ RowAllowed(c)
    BY DEF TxInv, ConnInv, WriteRow, AtStage
<1>3. PICK w : w = Current(c)
    OBVIOUS
<1>4. w = WriteAt(u, u.at) /\ w \in ObjectWrite \cup LogWrite
    <2>1. w = WriteAt(tx[c], tx[c].at)
        BY <1>3 DEF Current, WriteAt
    <2>2. tx[c].at \in 1..Len(tx[c].request)
        BY <1>2 DEF ConnOK
    <2>3. QED
        BY <1>1, <1>2, <2>1, <2>2, RequestWrites DEF Continues
<1>5. CASE w \in ObjectWrite
    <2>1. w.table = "objects" /\ w.env \in Envelope
        BY <1>5 DEF ObjectWrite
    <2>2. w.id \in DOMAIN w.env.observed
        BY <1>2, <1>3, <2>1 DEF RowAllowed
    <2>3. w.env.observed[w.id] \in VersionRef
        <3>1. PICK seen \in SUBSET ObjectId : w.env.observed \in [seen -> VersionRef]
            BY <2>1, ObservationShape DEF Envelope
        <3>2. QED
            BY <2>2, <3>1
    <2>4. NextVersion(w.env.observed[w.id]) > 0
        BY <2>3 DEF NextVersion, VersionRef, Absent
    <2>5. u.work.objects[w.id].version = NextVersion(w.env.observed[w.id])
        <3>1. IsTables(tx[c].work)
            BY <1>2 DEF ConnOK
        <3>2. QED
            BY <1>1, <1>3, <2>1, <3>1 DEF WithRow, IsTables, Put
    <2>6. ReceiptOf(u).version = u.work.objects[w.id].version
        BY <1>4, <2>1 DEF ReceiptOf
    <2>7. QED
        BY <1>4, <2>1, <2>4, <2>5, <2>6 DEF Accepts
<1>6. CASE w \in LogWrite
    <2>1. w.table = "logs" /\ w.id \in LogId
        BY <1>6 DEF LogWrite
    <2>2. ReceiptOf(u).version = 0 /\ ReceiptOf(u).id = w.id
        BY <1>4, <2>1 DEF ReceiptOf
    <2>3. QED
        BY <1>4, <2>1, <2>2 DEF Accepts
<1>7. QED
    BY <1>4, <1>5, <1>6

LEMMA RowKeeps ==
    ASSUME TxInv, ClientInv, NEW c \in Conn, WriteRow(c), answered' = answered
    PROVE  ClientInv'
<1>1. ConnInv(tx[c], db) /\ CallerOK(c, tx[c], db, answered)
    BY DEF TxInv, ClientInv
<1>2. PICK u : u = tx'[c]
    OBVIOUS
<1>3. /\ Changed(c) /\ db' = db /\ Continues(tx[c], u)
      /\ u.at = tx[c].at /\ u.stage = "receipt" /\ u.locked /\ u.work = WithRow(c)
    BY <1>2, RowedShape
<1>4. WithRow(c).ledger = tx[c].work.ledger
    <2>1. IsTables(tx[c].work)
        BY <1>1 DEF ConnInv, ConnOK
    <2>2. QED
        BY <2>1 DEF IsTables, WithRow
<1>5. Accepts(WriteAt(u, u.at).table, ReceiptOf(u))
    BY <1>2, RowIsFiled
<1>6. Filed(u)
    BY <1>1, <1>3, <1>4, <1>5 DEF CallerOK, Filed, Continues
<1>7. Untouched(tx[c].request, db)
    BY NewIsUntouched DEF WriteRow
<1>8. CallerOK(c, u, db, answered)
    BY <1>1, <1>3, <1>6, <1>7, CallerContinues
<1>9. QED
    BY <1>2, <1>3, <1>8, CallerStep

LEMMA ReceiptKeeps ==
    ASSUME TxInv, ClientInv, NEW c \in Conn, WriteReceipt(c), answered' = answered
    PROVE  ClientInv'
<1> DEFINE key == KeyAt(tx[c], tx[c].at)
<1>1. ConnInv(tx[c], db) /\ CallerOK(c, tx[c], db, answered)
    BY DEF TxInv, ClientInv
<1>2. tx[c].stage = "receipt"
    BY DEF WriteReceipt, AtStage
<1>3. PICK u : u = tx'[c]
    OBVIOUS
<1> HIDE DEF key
<1>4. /\ Changed(c) /\ db' = db /\ Continues(tx[c], u)
      /\ u.at = tx[c].at + 1 /\ u.stage = "prepare" /\ u.locked = tx[c].locked
      /\ u.work.ledger = Put(tx[c].work.ledger, key, ReceiptOf(tx[c]))
    BY <1>3, ReceivedShape DEF key
<1>5. /\ u.work.ledger[key] = ReceiptOf(tx[c])
      /\ \A k \in DOMAIN tx[c].work.ledger : k # key => u.work.ledger[k] = tx[c].work.ledger[k]
    BY <1>4 DEF Put
<1>6. key \notin DOMAIN tx[c].work.ledger
    BY <1>1, <1>2 DEF ConnInv, Progress, key
<1>7. \A i \in 1..(tx[c].at - 1) : KeyAt(tx[c], i) \in DOMAIN tx[c].work.ledger
    BY <1>1 DEF ConnInv, Progress, Done
<1>8. \A i \in 1..((tx[c].at + 1) - 1) : i \in 1..(tx[c].at - 1) \/ i = tx[c].at
    BY <1>1, RequestWrites, UpToNext DEF ConnInv
<1>9. /\ \A i \in 1..(tx[c].at - 1) :
             Accepts(WriteAt(tx[c], i).table, tx[c].work.ledger[KeyAt(tx[c], i)])
      /\ Accepts(WriteAt(tx[c], tx[c].at).table, ReceiptOf(tx[c]))
    BY <1>1, <1>2 DEF CallerOK, Filed
<1>10. \A i \in 1..((tx[c].at + 1) - 1) :
           Accepts(WriteAt(tx[c], i).table, u.work.ledger[KeyAt(tx[c], i)])
    <2>1. ASSUME NEW i \in 1..(tx[c].at - 1)
          PROVE  Accepts(WriteAt(tx[c], i).table, u.work.ledger[KeyAt(tx[c], i)])
        <3>1. u.work.ledger[KeyAt(tx[c], i)] = tx[c].work.ledger[KeyAt(tx[c], i)]
            BY <1>5, <1>6, <1>7
        <3>2. QED
            BY <1>9, <3>1
    <2>2. QED
        BY <1>5, <1>8, <1>9, <2>1 DEF key
<1>11. Filed(u)
    BY <1>4, <1>10 DEF Filed, Continues
<1>12. CallerOK(c, u, db, answered)
    BY <1>1, <1>4, <1>11, CallerContinues
<1>13. QED
    BY <1>3, <1>4, <1>12, CallerStep

LEMMA LostKeeps ==
    ASSUME TxInv, ClientInv, NEW c \in Conn, LoseAnswer(c), answered' = answered
    PROVE  ClientInv'
<1>1. ConnInv(tx[c], db) /\ CallerOK(c, tx[c], db, answered)
    BY DEF TxInv, ClientInv
<1>2. PICK u : u = tx'[c]
    OBVIOUS
<1>3. /\ Changed(c) /\ db' = db /\ IsConn(u)
      /\ u.open = tx[c].open /\ u.request = tx[c].request /\ u.at = tx[c].at
      /\ u.stage = tx[c].stage /\ u.locked = tx[c].locked /\ u.base = tx[c].base
      /\ u.work = tx[c].work /\ u.answer = "failed"
      /\ \A i : WriteAt(u, i) = WriteAt(tx[c], i) /\ KeyAt(u, i) = KeyAt(tx[c], i)
    BY <1>1, <1>2 DEF LoseAnswer, Changed, TxInv, ConnInv, ConnOK, IsConn, WriteAt, KeyAt
<1>4. Filed(u)
    <2>1. ReceiptOf(u) = ReceiptOf(tx[c])
        BY <1>3 DEF ReceiptOf
    <2>2. QED
        BY <1>1, <1>3, <2>1 DEF CallerOK, Filed
<1>5. CallerOK(c, u, db, answered)
    BY <1>1, <1>3, <1>4 DEF CallerOK
<1>6. QED
    BY <1>2, <1>3, <1>5, CallerStep


\* The ledger answers a request that is recorded, so what is refused is not.
LEMMA RefusedIsUntouched ==
    ASSUME TxInv, ClientInv, NEW c \in Conn, PrepareRefused(c) \/ RowRefused(c)
    PROVE  Untouched(tx[c].request, db)
<1>1. ConnInv(tx[c], db) /\ CallerOK(c, tx[c], db, answered)
    BY DEF TxInv, ClientInv
<1>2. CASE RowRefused(c)
    BY <1>2, NewIsUntouched DEF RowRefused
<1>3. CASE PrepareRefused(c)
    <2>1. /\ tx[c].open /\ tx[c].at <= Len(tx[c].request)
          /\ Repeated(c) \/ ~Answerable(c)
        BY <1>3 DEF PrepareRefused, AtStage
    <2>2. tx[c].at \in 1..Len(tx[c].request)
        BY <1>1, <2>1, RequestWrites DEF ConnInv, ConnOK
    <2>3. tx[c].request \in Wanted
        BY <1>1, <2>1, ServedIsWanted DEF CallerOK
    <2>4. ASSUME Settled(tx[c].request, db)
          PROVE  FALSE
        <3>1. \A i, j \in 1..Len(tx[c].request) : KeyAt(tx[c], i) = KeyAt(tx[c], j) => i = j
            BY <2>4 DEF Settled, KeyAt, WriteAt
        <3>2. ~Repeated(c)
            <4>1. \A i \in 1..(tx[c].at - 1) : i \in 1..Len(tx[c].request) /\ i # tx[c].at
                BY <2>2, <1>1, RequestWrites DEF ConnInv
            <4>2. QED
                BY <2>2, <3>1, <4>1 DEF Repeated, Current, KeyAt, WriteAt
        <3>3. PICK key : key = KeyAt(tx[c], tx[c].at)
            OBVIOUS
        <3>4. /\ key \in DOMAIN db.ledger
              /\ db.ledger[key].payload = WriteAt(tx[c], tx[c].at).payload
              /\ Accepts(WriteAt(tx[c], tx[c].at).table, db.ledger[key])
            BY <2>2, <2>4, <3>3 DEF Settled, KeyAt, WriteAt
        <3>5. key \in DOMAIN tx[c].base.ledger
            BY <1>1, <2>1, <2>2, <3>3, <3>4 DEF CallerOK
        <3>6. key \in DOMAIN tx[c].work.ledger /\ tx[c].work.ledger[key] = db.ledger[key]
            BY <1>1, <3>5 DEF ConnInv, Progress, Snapshot, Keeps
        <3>7. Answerable(c)
            BY <3>3, <3>4, <3>6 DEF Answerable, Seen!Replays, Seen!Accepts, Accepts, Current, WriteAt, KeyAt
        <3>8. QED
            BY <2>1, <3>2, <3>7
    <2>5. QED
        BY <2>3, <2>4 DEF ClientInv
<1>4. QED
    BY <1>2, <1>3

\* A transaction in progress that ends, and what its caller is told.
Answers(c, answer) ==
    /\ tx[c].open
    /\ Ends(c, answer)
    /\ answer = "refused" => Untouched(tx[c].request, db)

\* An end that commits nothing.
LEMMA EndKeeps ==
    ASSUME TxInv, ClientInv, NEW c \in Conn, NEW answer, Answers(c, answer), db' = db,
           answered' = answered
    PROVE  ClientInv'
<1>1. CallerOK(c, tx[c], db, answered)
    BY DEF ClientInv
<1>2. PICK u : u = tx'[c]
    OBVIOUS
<1>3. Changed(c) /\ u = Idle(tx[c].request, answer)
    BY <1>2 DEF Answers, Ends, Finish, Changed, TxInv
<1>4. Filed(u)
    BY <1>3 DEF Filed, Idle
<1>5. CallerOK(c, u, db, answered)
    BY <1>1, <1>3, <1>4 DEF CallerOK, Idle, Answers
<1>6. QED
    BY <1>2, <1>3, <1>5, CallerStep

\* Later tables with no key of the request more.
LEMMA OtherRequestsKept ==
    ASSUME NEW s, NEW tables, NEW later, Keeps(tables.ledger, later.ledger),
           \A i \in 1..Len(s) : s[i].env.key \in DOMAIN later.ledger => s[i].env.key \in DOMAIN tables.ledger
    PROVE  /\ Settled(s, tables) => Settled(s, later)
           /\ Untouched(s, tables) => Untouched(s, later)
           /\ Recorded(later, s) <=> Recorded(tables, s)
BY DEF Keeps, Settled, Untouched, Recorded

\* What a commit records is its request, of which nothing was recorded, and
\* no key of another request.
LEMMA CommitApplies ==
    ASSUME TxInv, ClientInv, NEW c \in Conn, Ends(c, "ok"), tx[c].locked
    PROVE  /\ tx[c].request \in Workload[c]
           /\ Untouched(tx[c].request, db)
           /\ Settled(tx[c].request, db')
           /\ Keeps(db.ledger, db'.ledger)
           /\ \A s \in Wanted \ {tx[c].request} : \A i \in 1..Len(s) :
                  s[i].env.key \in DOMAIN db'.ledger => s[i].env.key \in DOMAIN db.ledger
<1>1. ConnInv(tx[c], db) /\ CallerOK(c, tx[c], db, answered)
    BY DEF TxInv, ClientInv
<1>2. /\ tx[c].open /\ tx[c].at = Len(tx[c].request) + 1
      /\ db' = tx[c].work /\ tx[c].base = db
    BY <1>1 DEF Ends, Finish, ConnInv, Snapshot
<1>3. tx[c].at - 1 = Len(tx[c].request)
    BY <1>1, <1>2, RequestWrites DEF ConnInv
<1>4. tx[c].request \in Workload[c] /\ Untouched(tx[c].request, db)
    BY <1>1, <1>2 DEF CallerOK
<1>5. Settled(tx[c].request, db')
    BY <1>1, <1>2, <1>3 DEF ConnInv, Progress, Done, CallerOK, Filed, Settled, KeyAt, WriteAt
<1>6. Keeps(db.ledger, db'.ledger)
    BY <1>1, <1>2 DEF ConnInv, Progress
<1>7. ASSUME NEW s \in Wanted \ {tx[c].request}, NEW i \in 1..Len(s),
             s[i].env.key \in DOMAIN db'.ledger, s[i].env.key \notin DOMAIN db.ledger
      PROVE  FALSE
    <2>1. PICK j \in 1..Len(tx[c].request) : s[i].env.key = KeyAt(tx[c], j)
        BY <1>1, <1>2, <1>3, <1>7 DEF ConnInv, Progress
    <2>2. tx[c].request \in Wanted
        BY <1>4, ServedIsWanted
    <2>3. QED
        BY <2>1, <2>2, WorkloadKeys DEF KeyAt, WriteAt
<1>8. QED
    BY <1>4, <1>5, <1>6, <1>7

LEMMA CommitKeeps ==
    ASSUME TxInv, ClientInv, NEW c \in Conn, Ends(c, "ok"), tx[c].locked, answered' = answered
    PROVE  ClientInv'
<1>1. PICK r : r = tx[c].request
    OBVIOUS
<1>2. /\ r \in Workload[c] /\ Settled(r, db') /\ Keeps(db.ledger, db'.ledger)
      /\ \A s \in Wanted \ {r} : \A i \in 1..Len(s) :
             s[i].env.key \in DOMAIN db'.ledger => s[i].env.key \in DOMAIN db.ledger
    BY <1>1, CommitApplies
<1>3. Changed(c) /\ tx'[c] = Idle(r, "ok")
    BY <1>1 DEF Ends, Finish, Changed, TxInv
<1>4. ASSUME NEW s \in Wanted
      PROVE  Settled(s, db') \/ Untouched(s, db')
    BY <1>2, OtherRequestsKept DEF ClientInv
<1>5. CallerOK(c, tx'[c], db', answered')
    BY <1>2, <1>3 DEF CallerOK, Filed, Idle
<1>6. ASSUME NEW d \in Conn \ {c}
      PROVE  CallerOK(d, tx[d], db', answered)
    <2>1. CallerOK(d, tx[d], db, answered)
        BY DEF ClientInv
    <2>2. ~tx[d].locked
        BY DEF TxInv, OneWriter
    <2>3. CASE tx[d].open \/ tx[d].answer \in {"ok", "refused"}
        <3>1. tx[d].request \in Wanted \ {r}
            BY <1>2, <2>1, <2>3, ServedIsWanted, ServedApart DEF CallerOK
        <3>2. \A i \in 1..Len(tx[d].request) :
                  KeyAt(tx[d], i) \in DOMAIN db'.ledger => KeyAt(tx[d], i) \in DOMAIN db.ledger
            BY <1>2, <3>1 DEF KeyAt, WriteAt
        <3>3. Untouched(tx[d].request, db) => Untouched(tx[d].request, db')
            BY <3>2 DEF Untouched, KeyAt, WriteAt
        <3>4. QED
            BY <2>1, <2>2, <3>2, <3>3 DEF CallerOK
    <2>4. CASE ~(tx[d].open \/ tx[d].answer \in {"ok", "refused"})
        BY <2>1, <2>2, <2>4 DEF CallerOK
    <2>5. QED
        BY <2>3, <2>4
<1>7. \A d \in Conn : CallerOK(d, tx'[d], db', answered')
    BY <1>3, <1>5, <1>6 DEF Changed
<1>8. QED
    BY <1>4, <1>7 DEF ClientInv

LEMMA ReceiveKeeps ==
    ASSUME TxInv, ClientInv, NEW c \in Conn, Receive(c)
    PROVE  ClientInv'
<1>1. CallerOK(c, tx[c], db, answered)
    BY DEF ClientInv
<1>2. PICK r : r = tx[c].request
    OBVIOUS
<1>3. /\ ~tx[c].open /\ tx[c].answer \in {"ok", "refused"}
      /\ answered' = [answered EXCEPT ![r] = tx[c].answer]
      /\ db' = db /\ tx' = tx
    BY <1>2 DEF Receive
<1>4. r \in Workload[c] /\ r \in Wanted
    BY <1>1, <1>2, <1>3, ServedIsWanted DEF CallerOK
<1>5. /\ answered' = [s \in Wanted |-> answered'[s]]
      /\ \A s \in Wanted \ {r} : answered'[s] = answered[s]
    BY <1>3, <1>4 DEF ClientInv
<1>6. ASSUME NEW d \in Conn
      PROVE  CallerOK(d, tx[d], db, answered')
    <2>1. CallerOK(d, tx[d], db, answered)
        BY DEF ClientInv
    <2>2. tx[d].open => d # c /\ tx[d].request \in Workload[d]
        BY <1>3, <2>1 DEF CallerOK
    <2>3. tx[d].open => tx[d].request \in Wanted \ {r}
        BY <1>4, <2>2, ServedIsWanted, ServedApart
    <2>4. QED
        BY <1>5, <2>1, <2>3 DEF CallerOK
<1>7. QED
    BY <1>3, <1>5, <1>6 DEF ClientInv

\* The steps of ClientNext.
LEMMA ClientKinds ==
    ASSUME TxInv, ClientInv, [ClientNext]_clientVars
    PROVE  \/ UNCHANGED <<db, tx, answered>>
           \/ \E c \in Conn :
                 \/ Submit(c) \/ Receive(c)
                 \/ /\ answered' = answered
                    /\ \/ PrepareFresh(c) \/ PrepareReplay(c) \/ WriteRow(c) \/ WriteReceipt(c)
                       \/ LoseAnswer(c)
                       \/ \E answer : Answers(c, answer)
<1>1. ASSUME NEW c \in Conn, PrepareRefused(c) \/ RowRefused(c)
      PROVE  Answers(c, "refused")
    BY <1>1, RefusedIsUntouched DEF PrepareRefused, RowRefused, Ends, Answers, AtStage
<1>2. ASSUME NEW c \in Conn, Busy(c) \/ Abort(c)
      PROVE  Answers(c, "failed")
    BY <1>2 DEF Busy, Abort, Ends, Answers, AtStage
<1>3. ASSUME NEW c \in Conn, Commit(c)
      PROVE  Answers(c, "ok")
    <2>1. ConnOK(tx[c])
        BY DEF TxInv, ConnInv
    <2>2. Len(tx[c].request) \in Nat /\ tx[c].at \in 0..(Len(tx[c].request) + 1)
        BY <2>1, RequestWrites DEF ConnOK
    <2>3. QED
        BY <1>3, <2>2 DEF Commit, AtStage, Ends, Answers
<1>4. ASSUME NEW c \in Conn, Statement(c)
      PROVE  /\ answered' = answered
             /\ \/ PrepareFresh(c) \/ PrepareReplay(c) \/ WriteRow(c) \/ WriteReceipt(c)
                \/ \E answer : Answers(c, answer)
    BY <1>1, <1>2, <1>3, <1>4 DEF Statement
<1>5. ASSUME NEW c \in Conn, Fault(c)
      PROVE  /\ answered' = answered
             /\ LoseAnswer(c) \/ \E answer : Answers(c, answer)
    BY <1>2, <1>5 DEF Fault
<1>6. QED
    BY <1>4, <1>5 DEF ClientNext, clientVars

LEMMA ClientInvKept ==
    ASSUME TxInv, ClientInv, [ClientNext]_clientVars
    PROVE  ClientInv'
<1>1. CASE UNCHANGED <<db, tx, answered>>
    BY <1>1 DEF ClientInv
<1>2. ASSUME NEW c \in Conn, NEW answer, Answers(c, answer), answered' = answered
      PROVE  ClientInv'
    <2>1. CASE answer = "ok" /\ tx[c].locked
        BY <1>2, <2>1, CommitKeeps DEF Answers
    <2>2. CASE ~(answer = "ok" /\ tx[c].locked)
        <3>1. db' = db
            BY <1>2, <2>2 DEF Answers, Ends, Finish
        <3>2. QED
            BY <1>2, <3>1, EndKeeps
    <2>3. QED
        BY <2>1, <2>2
<1>3. QED
    BY <1>1, <1>2, ClientKinds, SubmitKeeps, ReceiveKeeps, FreshKeeps, ReplayKeeps, RowKeeps,
       ReceiptKeeps, LostKeeps

\* Receiving an answer is what the service allows: ok of what took effect,
\* refused of what did not.
LEMMA ReceiveIsAnswer ==
    ASSUME TxInv, ClientInv, NEW c \in Conn, Receive(c)
    PROVE  \E r \in Wanted : Service!Accept(r) \/ Service!Refuse(r)
<1>1. CallerOK(c, tx[c], db, answered) /\ ConnInv(tx[c], db)
    BY DEF ClientInv, TxInv
<1>2. PICK r : r = tx[c].request
    OBVIOUS
<1>3. /\ tx[c].answer \in {"ok", "refused"} /\ answered[r] = "none"
      /\ answered' = [answered EXCEPT ![r] = tx[c].answer]
      /\ db' = db
    BY <1>2 DEF Receive
<1>4. r \in Wanted
    BY <1>1, <1>2, <1>3, ServedIsWanted DEF CallerOK
<1>5. CASE tx[c].answer = "ok"
    <2>1. Done(tx[c], db, Len(r) + 1) /\ (Len(r) + 1) - 1 = Len(r)
        BY <1>1, <1>2, <1>4, <1>5, WantedWrites DEF ConnInv, Kept
    <2>2. Recorded(db, r)
        BY <1>2, <2>1 DEF Done, Recorded, KeyAt, WriteAt
    <2>3. Service!Accept(r)
        BY <1>3, <1>4, <1>5, <2>2 DEF Service!Accept
    <2>4. QED
        BY <1>4, <2>3
<1>6. CASE tx[c].answer = "refused"
    <2>1. Untouched(r, db)
        BY <1>1, <1>2, <1>6 DEF CallerOK
    <2>2. ~Recorded(db, r)
        BY <1>4, <2>1, SettledIsRecorded
    <2>3. Service!Refuse(r)
        BY <1>3, <1>4, <1>6, <2>2 DEF Service!Refuse
    <2>4. QED
        BY <1>4, <2>3
<1>7. QED
    BY <1>3, <1>5, <1>6

\* A commit that wrote something applies its request and no other.
LEMMA CommitIsApply ==
    ASSUME TxInv, ClientInv, NEW c \in Conn, Answers(c, "ok"), tx[c].locked, answered' = answered
    PROVE  \E r \in Wanted : Service!Apply(r)
<1>1. PICK r : r = tx[c].request
    OBVIOUS
<1>2. Ends(c, "ok") /\ answered[r] = "none"
    BY <1>1 DEF Answers, ClientInv, CallerOK
<1>3. /\ r \in Workload[c] /\ Untouched(r, db) /\ Settled(r, db') /\ Keeps(db.ledger, db'.ledger)
      /\ \A s \in Wanted \ {r} : \A i \in 1..Len(s) :
             s[i].env.key \in DOMAIN db'.ledger => s[i].env.key \in DOMAIN db.ledger
    BY <1>1, <1>2, CommitApplies
<1>4. r \in Wanted
    BY <1>3, ServedIsWanted
<1>5. ~Recorded(db, r) /\ Recorded(db', r)
    BY <1>3, <1>4, SettledIsRecorded
<1>6. \A s \in Wanted \ {r} : Recorded(db', s) <=> Recorded(db, s)
    BY <1>3, OtherRequestsKept
<1>7. {s \in Wanted : Recorded(db', s)} = {s \in Wanted : Recorded(db, s)} \cup {r}
    BY <1>4, <1>5, <1>6
<1>8. Service!Apply(r)
    BY <1>2, <1>5, <1>7 DEF Service!Apply
<1>9. QED
    BY <1>4, <1>8

\* However the statements of several processes interleave and fail, and however
\* often a caller that was told nothing asks again, a request takes effect at
\* most once and as a whole, ok is said only of what took effect, and
\* what was refused never takes effect.
THEOREM RetriesAreExactlyOnce == RetrySpec => ExactlyOnce
<1>1. ClientInit => TxInit /\ ClientInv /\ Service!Init
    <2> SUFFICES ASSUME ClientInit PROVE ClientInv /\ Service!Init
        BY DEF ClientInit
    <2>1. /\ db.ledger = Empty /\ DOMAIN db.ledger = {}
          /\ \A c \in Conn : tx[c] = Idle(<<>>, "none")
          /\ answered = [r \in Wanted |-> "none"]
        BY DEF ClientInit, TxInit, NoTables, Empty
    <2>2. \A r \in Wanted : Untouched(r, db)
        BY <2>1 DEF Untouched
    <2>3. \A c \in Conn : CallerOK(c, tx[c], db, answered)
        BY <2>1 DEF CallerOK, Filed, Idle
    <2>4. \A r \in Wanted : ~Recorded(db, r)
        BY <2>2, SettledIsRecorded
    <2>5. QED
        BY <2>1, <2>2, <2>3, <2>4 DEF ClientInv, Service!Init
<1>2. TxInv /\ ClientInv /\ [ClientNext]_clientVars => TxInv' /\ ClientInv'
    BY ClientSteps, TxInvKept, ClientInvKept
<1>3. TxInv /\ ClientInv /\ [ClientNext]_clientVars => [Service!Next]_(Service!serviceVars)
    <2> SUFFICES ASSUME TxInv, ClientInv, [ClientNext]_clientVars
                 PROVE  [Service!Next]_(Service!serviceVars)
        OBVIOUS
    <2>1. CASE db' = db /\ answered' = answered
        BY <2>1 DEF Service!serviceVars
    <2>2. ASSUME NEW c \in Conn, Receive(c)
          PROVE  Service!Next
        BY <2>2, ReceiveIsAnswer DEF Service!Next
    <2>3. ASSUME NEW c \in Conn, NEW answer, Answers(c, answer), answered' = answered, db' # db
          PROVE  Service!Next
        <3>1. answer = "ok" /\ tx[c].locked
            BY <2>3 DEF Answers, Ends, Finish
        <3>2. QED
            BY <2>3, <3>1, CommitIsApply DEF Service!Next
    <2>4. QED
        BY <2>1, <2>2, <2>3, ClientKinds
           DEF Submit, Begin, PrepareFresh, PrepareReplay, WriteRow, WriteReceipt, LoseAnswer
<1>4. TxInit => TxInv
    BY TxStarts
<1>5. QED
    BY <1>1, <1>2, <1>3, <1>4, PTL DEF RetrySpec, ExactlyOnce, Service!Service
=============================================================================
