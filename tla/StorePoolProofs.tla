-------------------------- MODULE StorePoolProofs --------------------------
(***************************************************************************)
(* Invariants of StorePool, proved for every number of callers and every   *)
(* set of records and mutations; and that the tables of derived artifacts  *)
(* it writes are those of PutOnceTables.                                   *)
(***************************************************************************)
EXTENDS StorePool, TLAPS

-----------------------------------------------------------------------------
(* Queues.                                                                 *)

\* c is in the queue, and each caller once.
In(seq, c) == \E i \in 1..Len(seq) : seq[i] = c
Once(seq) == \A i, j \in 1..Len(seq) : seq[i] = seq[j] => i = j

\* Whoever joins a queue is in it, once.
LEMMA AppendToQueue ==
    ASSUME NEW S, NEW seq \in Seq(S), NEW c \in S, Once(seq), ~In(seq, c)
    PROVE  /\ Append(seq, c) \in Seq(S)
           /\ Once(Append(seq, c))
           /\ \A d : In(Append(seq, c), d) <=> In(seq, d) \/ d = c
<1>1. /\ Append(seq, c) \in Seq(S)
      /\ Len(Append(seq, c)) = Len(seq) + 1
      /\ \A i \in 1..Len(seq) : Append(seq, c)[i] = seq[i]
      /\ Append(seq, c)[Len(seq) + 1] = c
      /\ Len(seq) \in Nat
    OBVIOUS
<1>2. Once(Append(seq, c))
    BY <1>1 DEF Once, In
<1>3. ASSUME NEW d PROVE In(Append(seq, c), d) <=> In(seq, d) \/ d = c
    BY <1>1 DEF In
<1>4. QED
    BY <1>1, <1>2, <1>3

\* The first of a queue leaves it, and nobody else does.
LEMMA TailOfQueue ==
    ASSUME NEW S, NEW seq \in Seq(S), seq # <<>>, Once(seq)
    PROVE  /\ Head(seq) \in S /\ In(seq, Head(seq))
           /\ Tail(seq) \in Seq(S)
           /\ Once(Tail(seq))
           /\ \A d : In(Tail(seq), d) <=> In(seq, d) /\ d # Head(seq)
<1>1. /\ Head(seq) \in S /\ Head(seq) = seq[1]
      /\ Tail(seq) \in Seq(S)
      /\ Len(Tail(seq)) = Len(seq) - 1
      /\ \A i \in 1..(Len(seq) - 1) : Tail(seq)[i] = seq[i + 1]
      /\ Len(seq) \in Nat /\ Len(seq) > 0
    OBVIOUS
<1>2. Once(Tail(seq))
    BY <1>1 DEF Once
<1>3. In(seq, Head(seq))
    BY <1>1 DEF In
<1>4. ASSUME NEW d PROVE In(Tail(seq), d) <=> In(seq, d) /\ d # Head(seq)
    <2>1. In(Tail(seq), d) => In(seq, d) /\ d # Head(seq)
        BY <1>1 DEF In, Once
    <2>2. ASSUME NEW i \in 1..Len(seq), seq[i] = d, d # Head(seq) PROVE In(Tail(seq), d)
        <3>1. i - 1 \in 1..(Len(seq) - 1) /\ Tail(seq)[i - 1] = d
            BY <1>1, <2>2
        <3>2. QED
            BY <1>1, <3>1 DEF In
    <2>3. QED
        BY <2>1, <2>2 DEF In
<1>5. QED
    BY <1>1, <1>2, <1>3, <1>4

\* Whoever gives up waiting leaves the others where they are.
LEMMA WithoutOfQueue ==
    ASSUME NEW S, NEW seq \in Seq(S), NEW c, Once(seq)
    PROVE  /\ Without(seq, c) \in Seq(S)
           /\ Once(Without(seq, c))
           /\ \A d : In(Without(seq, c), d) <=> In(seq, d) /\ d # c
<1>1. CASE \A i \in 1..Len(seq) : seq[i] # c
    BY <1>1 DEF Without, In
<1>2. CASE \E i \in 1..Len(seq) : seq[i] = c
    <2>1. PICK at : /\ at \in 1..Len(seq) /\ seq[at] = c
                    /\ Without(seq, c) =
                           [i \in 1..(Len(seq) - 1) |-> IF i < at THEN seq[i] ELSE seq[i + 1]]
        BY <1>2 DEF Without
    <2>2. Len(seq) \in Nat /\ Len(seq) - 1 \in Nat /\ \A i \in 1..Len(seq) : seq[i] \in S
        BY <2>1
    <2>3. Without(seq, c) \in [1..(Len(seq) - 1) -> S]
        BY <2>1, <2>2
    <2>4. Without(seq, c) \in Seq(S) /\ Len(Without(seq, c)) = Len(seq) - 1
        BY <2>2, <2>3
    <2>5. \A i \in 1..(Len(seq) - 1) :
              Without(seq, c)[i] = IF i < at THEN seq[i] ELSE seq[i + 1]
        BY <2>1
    <2> HIDE DEF Without
    <2>6. Once(Without(seq, c))
        BY <2>1, <2>2, <2>4, <2>5 DEF Once
    <2>7. ASSUME NEW d PROVE In(Without(seq, c), d) <=> In(seq, d) /\ d # c
        <3>1. In(Without(seq, c), d) => In(seq, d) /\ d # c
            BY <2>1, <2>2, <2>4, <2>5 DEF In, Once
        <3>2. ASSUME NEW i \in 1..Len(seq), seq[i] = d, d # c PROVE In(Without(seq, c), d)
            <4>1. CASE i < at
                BY <4>1, <3>2, <2>1, <2>2, <2>4, <2>5 DEF In
            <4>2. CASE i > at
                <5>1. i - 1 \in 1..(Len(seq) - 1) /\ Without(seq, c)[i - 1] = d
                    BY <4>2, <3>2, <2>1, <2>2, <2>5
                <5>2. QED
                    BY <5>1, <2>4 DEF In
            <4>3. QED
                BY <4>1, <4>2, <3>2, <2>1
        <3>3. QED
            BY <3>1, <3>2 DEF In
    <2>8. QED
        BY <2>4, <2>6, <2>7
<1>3. QED
    BY <1>1, <1>2

-----------------------------------------------------------------------------
(* The inductive invariant.                                                *)

Step == {"none", "insert", "select", "begin", "write", "commit"}
Answers == {"none", "ok", "failed", "refused", "invalid"}

\* What a caller asked for and was told.
CallRecord == [request : Record \cup Mutation \cup {Nothing}, step : Step, answer : Answers,
               got : Record \cup Mutation \cup {Nothing}]

CallOK(asked) ==
    /\ asked.step \in {"insert", "select"} => asked.request \in Record
    /\ asked.step \in {"begin", "write", "commit"} => asked.request \in Mutation
    /\ asked.answer = "ok" => asked.step = "none"

CallsOK == call \in [Caller -> CallRecord] /\ \A c \in Caller : CallOK(call[c])

\* Only who is before a first statement, of a call or of a transaction, waits.
QueueOK ==
    /\ queue \in Seq(Caller) /\ Once(queue)
    /\ \A c \in Caller : In(queue, c) => call[c].step \in {"insert", "select", "begin"}

\* Whether c is inside a transaction.
InTransaction(c) == call[c].step \in {"write", "commit"}

\* The transaction of the connection is that of the caller who has it.
ConnectionOK ==
    /\ holder \in Caller \cup {NoCaller}
    /\ \A c \in Caller : InTransaction(c) => connection.open /\ holder = c
    /\ connection.open => holder \in Caller /\ InTransaction(holder)

TablesOK(tables) ==
    /\ tables = [derived |-> tables.derived, canonical |-> tables.canonical]
    /\ tables.derived = [t \in Table |-> tables.derived[t]]

\* The open transaction sees what is committed and, once it has written it, the
\* mutation its caller asked for.
TablesAgree ==
    /\ TablesOK(disk)
    /\ connection.open =>
          /\ TablesOK(connection.sees)
          /\ connection.sees.derived = disk.derived
          /\ connection.sees.canonical =
                 IF call[holder].step = "commit" THEN disk.canonical \cup {call[holder].request}
                 ELSE disk.canonical

\* c has stored the derived record it asked for, told of it or not yet.
HasPut(c) ==
    call[c].request \in Record /\ (call[c].step = "select" \/ call[c].answer = "ok")

SameRow(r, s) == r.table = s.table /\ r.id = s.id

\* Such a record is on disk, and of one caller.
PutOK ==
    /\ \A c \in Caller : HasPut(c) =>
          LET r == call[c].request
          IN  r.id \in DOMAIN disk.derived[r.table] /\ disk.derived[r.table][r.id] = r
    /\ \A c, d \in Caller :
          HasPut(c) /\ HasPut(d) /\ SameRow(call[c].request, call[d].request) => c = d

\* An ok is about what was asked for.
OkOK ==
    \A c \in Caller : call[c].answer = "ok" =>
        /\ call[c].got = call[c].request
        /\ call[c].request \in Mutation => call[c].request \in disk.canonical

PoolInv == CallsOK /\ QueueOK /\ ConnectionOK /\ TablesAgree /\ PutOK /\ OkOK

\* A caller waits where it is in the queue.
LEMMA WaitsInQueue == ASSUME NEW c PROVE Waits(c) <=> In(queue, c)
BY DEF Waits, In

\* PoolInv holds at first.
LEMMA InitPoolInv == PoolInit => PoolInv
<1> SUFFICES ASSUME PoolInit PROVE PoolInv
    OBVIOUS
<1> USE DEF PoolInit
<1>1. \A c \in Caller : call[c] = [request |-> Nothing, step |-> "none", answer |-> "none", got |-> Nothing]
    BY DEF NoCall, CallOf
<1>2. CallsOK
    BY <1>1 DEF CallsOK, CallRecord, CallOK, Step, Answers, NoCall, CallOf
<1>3. QueueOK
    BY <1>1 DEF QueueOK, Once, In
<1>4. ConnectionOK
    BY <1>1, NoCallerIsNone DEF ConnectionOK, AtRest, InTransaction
<1>5. TablesAgree
    BY DEF TablesAgree, TablesOK, NoTables, AtRest
<1>6. PutOK /\ OkOK
    BY <1>1 DEF PutOK, HasPut, OkOK
<1>7. QED
    BY <1>2, <1>3, <1>4, <1>5, <1>6 DEF PoolInv

-----------------------------------------------------------------------------
(* Steps.                                                                  *)

\* c's call becomes this, and the others stay.
Becomes(c, asked) == call' = [call EXCEPT ![c] = asked]

LEMMA CallBecomes ==
    ASSUME CallsOK, NEW c \in Caller, NEW asked \in CallRecord, CallOK(asked), Becomes(c, asked)
    PROVE  /\ CallsOK'
           /\ call'[c] = asked
           /\ \A d \in Caller : d # c => call'[d] = call[d]
BY DEF CallsOK, Becomes

\* What an answer leaves of the call.
LEMMA AnswerEnds ==
    ASSUME PoolInv, NEW c \in Caller, NEW answer \in Answers,
           NEW got \in Record \cup Mutation \cup {Nothing}, Answer(c, answer, got)
    PROVE  /\ CallsOK' /\ QueueOK'
           /\ call'[c].request = IF answer = "ok" THEN call[c].request ELSE Nothing
           /\ call'[c].step = "none" /\ call'[c].answer = answer /\ call'[c].got = got
           /\ \A d \in Caller : d # c => call'[d] = call[d]
           /\ holder' = IF holder = c THEN NoCaller ELSE holder
<1>1. PICK request : request = IF answer = "ok" THEN call[c].request ELSE Nothing
    OBVIOUS
<1>2. request \in Record \cup Mutation \cup {Nothing}
    BY <1>1 DEF PoolInv, CallsOK, CallRecord
<1>3. PICK asked : asked = [request |-> request, step |-> "none", answer |-> answer, got |-> got]
    OBVIOUS
<1>4. [CallOf(request, "none", answer) EXCEPT !.got = got] = asked
    BY <1>3 DEF CallOf
<1>5. Becomes(c, asked)
    <2>1. call' = [call EXCEPT ![c] = [CallOf(request, "none", answer) EXCEPT !.got = got]]
        BY <1>1 DEF Answer
    <2>2. QED
        BY <2>1, <1>4 DEF Becomes
<1>6. asked \in CallRecord /\ CallOK(asked)
    BY <1>2, <1>3 DEF CallRecord, CallOK, Step
<1>7. CallsOK' /\ call'[c] = asked /\ \A d \in Caller : d # c => call'[d] = call[d]
    BY <1>5, <1>6, CallBecomes DEF PoolInv
<1>8. queue' = Without(queue, c) /\ queue \in Seq(Caller) /\ Once(queue)
    BY DEF Answer, PoolInv, QueueOK
<1>9. queue' \in Seq(Caller) /\ Once(queue') /\ \A d : In(queue', d) <=> In(queue, d) /\ d # c
    BY <1>8, WithoutOfQueue
<1>10. QueueOK'
    BY <1>7, <1>9 DEF QueueOK, PoolInv, Once, In
<1>11. QED
    BY <1>1, <1>3, <1>7, <1>10 DEF Answer

\* A call that does not end well takes its transaction with it, and leaves
\* nothing: TimeOut, Insert refused, Select of no row, Fail and Drop.
LEMMA BadEndKeepsInv ==
    ASSUME PoolInv, NEW c \in Caller, NEW answer \in Answers, answer # "ok",
           Answer(c, answer, Nothing), disk' = disk,
           \/ connection' = connection /\ ~InTransaction(c)
           \/ connection' = IF holder = c THEN AtRest ELSE connection
    PROVE  PoolInv'
<1>1. /\ CallsOK' /\ QueueOK'
      /\ call'[c].request = Nothing /\ call'[c].step = "none" /\ call'[c].answer = answer
      /\ \A d \in Caller : d # c => call'[d] = call[d]
      /\ holder' = IF holder = c THEN NoCaller ELSE holder
    BY AnswerEnds
<1>2. connection.open /\ holder = c => InTransaction(c)
    BY DEF PoolInv, ConnectionOK
<1>3. /\ connection'.open <=> connection.open /\ holder # c
      /\ connection'.open => connection' = connection
    BY <1>2 DEF AtRest, PoolInv, ConnectionOK
<1>4. ConnectionOK'
    <2>1. holder' \in Caller \cup {NoCaller}
        BY <1>1 DEF PoolInv, ConnectionOK
    <2>2. ASSUME NEW d \in Caller, InTransaction(d)' PROVE connection'.open /\ holder' = d
        <3>1. d # c /\ InTransaction(d)
            BY <2>2, <1>1 DEF InTransaction
        <3>2. QED
            BY <3>1, <1>1, <1>3 DEF PoolInv, ConnectionOK
    <2>3. connection'.open => holder' \in Caller /\ InTransaction(holder)'
        <3>1. connection'.open => holder' = holder /\ holder # c /\ holder \in Caller /\ InTransaction(holder)
            BY <1>1, <1>3 DEF PoolInv, ConnectionOK
        <3>2. QED
            BY <3>1, <1>1 DEF InTransaction
    <2>4. QED
        BY <2>1, <2>2, <2>3 DEF ConnectionOK
<1>5. TablesAgree'
    <2>1. connection'.open => /\ connection' = connection /\ connection.open
                              /\ holder' = holder /\ call'[holder] = call[holder]
        BY <1>1, <1>3 DEF PoolInv, ConnectionOK
    <2>2. QED
        BY <2>1 DEF PoolInv, TablesAgree, TablesOK
<1>6. \A d \in Caller : HasPut(d)' => d # c /\ HasPut(d) /\ call'[d] = call[d]
    BY <1>1 DEF HasPut
<1>7. PutOK'
    BY <1>6 DEF PoolInv, PutOK
<1>8. OkOK'
    BY <1>1 DEF PoolInv, OkOK
<1>9. QED
    BY <1>1, <1>4, <1>5, <1>7, <1>8 DEF PoolInv

\* The steps that end a call badly.
LEMMA BadEndsKeepInv ==
    ASSUME PoolInv, NEW c \in Caller,
           \/ TimeOut(c)
           \/ Insert(c) /\ Taken(call[c].request)
           \/ Select(c) /\ ~Stored(call[c].request)
           \/ Fail(c)
           \/ Drop(c)
    PROVE  PoolInv'
<1>1. CASE TimeOut(c)
    <2>1. ~InTransaction(c)
        BY <1>1, WaitsInQueue DEF TimeOut, PoolInv, QueueOK, InTransaction
    <2>2. QED
        BY <2>1, <1>1, BadEndKeepsInv DEF TimeOut, Answers
<1>2. CASE Insert(c) /\ Taken(call[c].request)
    <2>1. ~InTransaction(c)
        BY <1>2 DEF Insert, Holds, InTransaction
    <2>2. QED
        BY <2>1, <1>2, BadEndKeepsInv DEF Insert, Answers
<1>3. CASE Select(c) /\ ~Stored(call[c].request)
    <2>1. ~InTransaction(c)
        BY <1>3 DEF Select, Holds, InTransaction
    <2>2. QED
        BY <2>1, <1>3, BadEndKeepsInv DEF Select, Answers
<1>4. CASE Fail(c)
    BY <1>4, BadEndKeepsInv DEF Fail, Rollback, Answers
<1>5. CASE Drop(c)
    BY <1>5, BadEndKeepsInv DEF Drop, Rollback, Answers
<1>6. QED
    BY <1>1, <1>2, <1>3, <1>4, <1>5

\* A call is made: it waits, and has not put anything yet.
LEMMA CallKeepsInv ==
    ASSUME PoolInv, NEW c \in Caller, Idle(c), NEW asked \in CallRecord, CallOK(asked),
           asked.answer # "ok", Becomes(c, asked),
           \/ asked.step \in {"insert", "begin"} /\ queue' = Append(queue, c)
           \/ asked.step = "none" /\ queue' = queue,
           UNCHANGED <<disk, connection, holder>>
    PROVE  PoolInv'
<1>1. CallsOK' /\ call'[c] = asked /\ \A d \in Caller : d # c => call'[d] = call[d]
    BY CallBecomes DEF PoolInv
<1>2. ~In(queue, c) /\ queue \in Seq(Caller) /\ Once(queue)
    BY DEF PoolInv, QueueOK, Idle
<1>3. /\ queue' \in Seq(Caller) /\ Once(queue')
      /\ \/ asked.step \in {"insert", "begin"} /\ (\A d : In(queue', d) <=> In(queue, d) \/ d = c)
         \/ \A d : In(queue', d) <=> In(queue, d)
    <2>1. CASE asked.step \in {"insert", "begin"} /\ queue' = Append(queue, c)
        BY <2>1, <1>2, AppendToQueue
    <2>2. CASE queue' = queue
        BY <2>2, <1>2
    <2>3. QED
        BY <2>1, <2>2
<1>4. QueueOK'
    BY <1>1, <1>2, <1>3 DEF PoolInv, QueueOK, Once, In
<1>5. ~InTransaction(c) /\ ~InTransaction(c)'
    BY <1>1 DEF Idle, InTransaction
<1>6. \A d \in Caller : InTransaction(d)' <=> InTransaction(d)
    BY <1>1, <1>5 DEF InTransaction
<1>7. ConnectionOK'
    BY <1>6 DEF PoolInv, ConnectionOK, InTransaction
<1>8. connection.open => holder # c /\ call'[holder] = call[holder]
    BY <1>1, <1>5 DEF PoolInv, ConnectionOK
<1>9. TablesAgree'
    BY <1>8 DEF PoolInv, TablesAgree, TablesOK
<1>10. \A d \in Caller : HasPut(d)' => d # c /\ HasPut(d) /\ call'[d] = call[d]
    BY <1>1 DEF HasPut
<1>11. PutOK'
    BY <1>10 DEF PoolInv, PutOK
<1>12. OkOK'
    BY <1>1 DEF PoolInv, OkOK
<1>13. QED
    BY <1>1, <1>4, <1>7, <1>9, <1>11, <1>12 DEF PoolInv

\* Both kinds of call.
LEMMA CallsKeepInv ==
    ASSUME PoolInv, NEW c \in Caller,
           (\E r \in Record : CallDerived(c, r)) \/ (\E m \in Mutation : CallCanonical(c, m))
    PROVE  PoolInv'
<1>1. ASSUME NEW request \in Record \cup Mutation \cup {Nothing}, NEW step \in Step, NEW answer \in Answers
      PROVE  CallOf(request, step, answer) \in CallRecord
    BY DEF CallOf, CallRecord
<1>2. ASSUME NEW r \in Record, CallDerived(c, r) PROVE PoolInv'
    <2>1. CASE Admissible(r)
        <3>1. PICK asked : asked = CallOf(r, "insert", "none")
            OBVIOUS
        <3>2. asked \in CallRecord /\ CallOK(asked) /\ asked.answer # "ok" /\ asked.step = "insert"
            BY <3>1, <1>1 DEF CallOf, CallOK, Step, Answers
        <3>3. /\ Idle(c) /\ Becomes(c, asked) /\ queue' = Append(queue, c)
              /\ UNCHANGED <<disk, connection, holder>>
            BY <1>2, <2>1, <3>1 DEF CallDerived, Becomes
        <3>4. QED
            BY <3>2, <3>3, CallKeepsInv
    <2>2. CASE ~Admissible(r)
        <3>1. PICK asked : asked = CallOf(Nothing, "none", "invalid")
            OBVIOUS
        <3>2. asked \in CallRecord /\ CallOK(asked) /\ asked.answer # "ok" /\ asked.step = "none"
            BY <3>1, <1>1 DEF CallOf, CallOK, Step, Answers
        <3>3. /\ Idle(c) /\ Becomes(c, asked) /\ queue' = queue
              /\ UNCHANGED <<disk, connection, holder>>
            BY <1>2, <2>2, <3>1 DEF CallDerived, Becomes
        <3>4. QED
            BY <3>2, <3>3, CallKeepsInv
    <2>3. QED
        BY <2>1, <2>2
<1>3. ASSUME NEW m \in Mutation, CallCanonical(c, m) PROVE PoolInv'
    <2>1. PICK asked : asked = CallOf(m, "begin", "none")
        OBVIOUS
    <2>2. asked \in CallRecord /\ CallOK(asked) /\ asked.answer # "ok" /\ asked.step = "begin"
        BY <2>1, <1>1 DEF CallOf, CallOK, Step, Answers
    <2>3. /\ Idle(c) /\ Becomes(c, asked) /\ queue' = Append(queue, c)
          /\ UNCHANGED <<disk, connection, holder>>
        BY <1>3, <2>1 DEF CallCanonical, Becomes
    <2>4. QED
        BY <2>2, <2>3, CallKeepsInv
<1>4. QED
    BY <1>2, <1>3

\* The connection is handed to the first who waits.
LEMMA AcquireKeepsInv == ASSUME PoolInv, Acquire PROVE PoolInv'
<1>1. holder = NoCaller /\ queue # <<>> /\ UNCHANGED <<disk, connection, call>>
    BY DEF Acquire
<1>2. /\ holder' \in Caller
      /\ queue' \in Seq(Caller) /\ Once(queue')
      /\ \A d : In(queue', d) => In(queue, d)
    BY <1>1, TailOfQueue DEF Acquire, PoolInv, QueueOK
<1>3. QueueOK'
    BY <1>1, <1>2 DEF PoolInv, QueueOK, Once, In
<1>4. ~connection.open /\ \A d \in Caller : ~InTransaction(d)
    BY <1>1, NoCallerIsNone DEF PoolInv, ConnectionOK
<1>5. ConnectionOK'
    BY <1>1, <1>2, <1>4 DEF ConnectionOK, InTransaction
<1>6. TablesAgree'
    BY <1>1, <1>4 DEF PoolInv, TablesAgree, TablesOK
<1>7. CallsOK' /\ PutOK' /\ OkOK'
    BY <1>1 DEF PoolInv, CallsOK, PutOK, OkOK, HasPut
<1>8. QED
    BY <1>3, <1>5, <1>6, <1>7 DEF PoolInv

\* The connection is replaced when nobody has it.
LEMMA ReconnectKeepsInv == ASSUME PoolInv, Reconnect PROVE PoolInv'
<1>1. holder = NoCaller /\ connection' = AtRest /\ UNCHANGED <<disk, holder, queue, call>>
    BY DEF Reconnect
<1>2. ~connection'.open /\ \A d \in Caller : ~InTransaction(d)
    BY <1>1, NoCallerIsNone DEF PoolInv, ConnectionOK, AtRest
<1>3. ConnectionOK'
    BY <1>1, <1>2 DEF PoolInv, ConnectionOK, InTransaction, AtRest
<1>4. TablesAgree'
    BY <1>1, <1>2 DEF PoolInv, TablesAgree, TablesOK
<1>5. CallsOK' /\ QueueOK' /\ PutOK' /\ OkOK'
    BY <1>1 DEF PoolInv, CallsOK, QueueOK, Once, In, PutOK, OkOK, HasPut
<1>6. QED
    BY <1>3, <1>4, <1>5 DEF PoolInv

\* Who has the connection without a transaction works on the disk itself.
LEMMA OutsideTransaction ==
    ASSUME PoolInv, NEW c \in Caller, holder = c, ~InTransaction(c)
    PROVE  ~connection.open /\ Tables = disk
BY DEF PoolInv, ConnectionOK, Tables

\* A transaction begins on what is committed.
LEMMA BeginKeepsInv == ASSUME PoolInv, NEW c \in Caller, Begin(c) PROVE PoolInv'
<1>1. PICK asked : asked = [call[c] EXCEPT !.step = "write"]
    OBVIOUS
<1>2. /\ holder = c /\ ~In(queue, c) /\ call[c].step = "begin" /\ ~connection.open
      /\ connection' = Inside(disk) /\ Becomes(c, asked)
      /\ UNCHANGED <<disk, holder, queue>>
    BY <1>1, WaitsInQueue DEF Begin, Holds, Granted, Becomes
<1>3. /\ call[c] \in CallRecord /\ CallOK(call[c])
    BY DEF PoolInv, CallsOK
<1>4. /\ asked \in CallRecord /\ CallOK(asked)
      /\ asked.step = "write" /\ asked.request = call[c].request
      /\ asked.answer = call[c].answer /\ asked.got = call[c].got
    BY <1>1, <1>2, <1>3 DEF CallRecord, CallOK, Step
<1>5. CallsOK' /\ call'[c] = asked /\ \A d \in Caller : d # c => call'[d] = call[d]
    BY <1>2, <1>4, CallBecomes DEF PoolInv
<1>6. QueueOK'
    BY <1>2, <1>5 DEF PoolInv, QueueOK, Once, In
<1>7. connection'.open /\ connection'.sees = disk
    BY <1>2 DEF Inside
<1>8. ConnectionOK'
    BY <1>2, <1>4, <1>5, <1>7 DEF PoolInv, ConnectionOK, InTransaction
<1>9. TablesAgree'
    BY <1>2, <1>4, <1>5, <1>7 DEF PoolInv, TablesAgree, TablesOK
<1>10. \A d \in Caller : /\ HasPut(d)' <=> HasPut(d)
                         /\ call'[d].request = call[d].request
                         /\ call'[d].answer = call[d].answer /\ call'[d].got = call[d].got
    BY <1>2, <1>4, <1>5 DEF HasPut
<1>11. PutOK' /\ OkOK'
    BY <1>2, <1>10 DEF PoolInv, PutOK, OkOK
<1>12. QED
    BY <1>5, <1>6, <1>8, <1>9, <1>11 DEF PoolInv

\* The mutation is in the transaction's tables and nowhere else.
LEMMA WriteMutationKeepsInv == ASSUME PoolInv, NEW c \in Caller, WriteMutation(c) PROVE PoolInv'
<1>1. PICK asked : asked = [call[c] EXCEPT !.step = "commit"]
    OBVIOUS
<1>2. /\ holder = c /\ ~In(queue, c) /\ call[c].step = "write"
      /\ connection' = Inside([connection.sees EXCEPT !.canonical = @ \cup {call[c].request}])
      /\ Becomes(c, asked)
      /\ UNCHANGED <<disk, holder, queue>>
    BY <1>1, WaitsInQueue DEF WriteMutation, Holds, Granted, Becomes
<1>3. /\ call[c] \in CallRecord /\ CallOK(call[c])
    BY DEF PoolInv, CallsOK
<1>4. /\ asked \in CallRecord /\ CallOK(asked)
      /\ asked.step = "commit" /\ asked.request = call[c].request
      /\ asked.answer = call[c].answer /\ asked.got = call[c].got
    BY <1>1, <1>2, <1>3 DEF CallRecord, CallOK, Step
<1>5. CallsOK' /\ call'[c] = asked /\ \A d \in Caller : d # c => call'[d] = call[d]
    BY <1>2, <1>4, CallBecomes DEF PoolInv
<1>6. QueueOK'
    BY <1>2, <1>5 DEF PoolInv, QueueOK, Once, In
<1>7. connection.open /\ connection'.open
    BY <1>2 DEF Inside, PoolInv, ConnectionOK, InTransaction
<1>8. /\ TablesOK(connection'.sees)
      /\ connection'.sees.derived = disk.derived
      /\ connection'.sees.canonical = disk.canonical \cup {call[c].request}
    <2>1. /\ TablesOK(connection.sees) /\ connection.sees.derived = disk.derived
          /\ connection.sees.canonical = disk.canonical
        BY <1>2, <1>7 DEF PoolInv, TablesAgree
    <2>2. connection'.sees = [derived |-> connection.sees.derived,
                              canonical |-> connection.sees.canonical \cup {call[c].request}]
        BY <1>2, <2>1 DEF Inside, TablesOK
    <2>3. QED
        BY <2>1, <2>2 DEF TablesOK
<1>9. ConnectionOK'
    BY <1>2, <1>4, <1>5, <1>7 DEF PoolInv, ConnectionOK, InTransaction
<1>10. TablesAgree'
    BY <1>2, <1>4, <1>5, <1>8 DEF PoolInv, TablesAgree, TablesOK
<1>11. \A d \in Caller : /\ HasPut(d)' <=> HasPut(d)
                         /\ call'[d].request = call[d].request
                         /\ call'[d].answer = call[d].answer /\ call'[d].got = call[d].got
    BY <1>2, <1>4, <1>5 DEF HasPut
<1>12. PutOK' /\ OkOK'
    BY <1>2, <1>11 DEF PoolInv, PutOK, OkOK
<1>13. QED
    BY <1>5, <1>6, <1>9, <1>10, <1>12 DEF PoolInv

\* What a COMMIT does: its caller's mutation is on disk, and nothing else is new.
LEMMA CommitEffect ==
    ASSUME PoolInv, NEW c \in Caller, CarryOutCommit(c)
    PROVE  /\ holder = c /\ call[c].step = "commit"
           /\ InTransaction(c) /\ call[c].request \in Mutation
           /\ TablesOK(disk') /\ disk'.derived = disk.derived
           /\ disk'.canonical = disk.canonical \cup {call[c].request}
           /\ connection' = AtRest
<1>1. /\ holder = c /\ call[c].step = "commit" /\ disk' = connection.sees
      /\ connection' = AtRest
    BY DEF CarryOutCommit, Holds, Granted
<1>2. InTransaction(c) /\ connection.open /\ call[c].request \in Mutation
    BY <1>1 DEF InTransaction, PoolInv, ConnectionOK, CallsOK, CallOK
<1>3. QED
    BY <1>1, <1>2 DEF PoolInv, TablesAgree

\* What is told of a COMMIT: an ok to the caller that awaits it, nothing to one
\* that was dropped.
LEMMA CommitTold ==
    ASSUME PoolInv, NEW c \in Caller, Commit(c) \/ LoseAnswer(c)
    PROVE  /\ CarryOutCommit(c) /\ CallsOK' /\ QueueOK'
           /\ call'[c].step = "none" /\ call'[c].answer \in {"ok", "none"}
           /\ call'[c].answer = "ok" => call'[c].request = call[c].request
           /\ call'[c].answer = "ok" => call'[c].got = call[c].request
           /\ \A d \in Caller : d # c => call'[d] = call[d]
           /\ holder' = IF holder = c THEN NoCaller ELSE holder
<1>1. call[c].request \in Record \cup Mutation \cup {Nothing}
    BY DEF PoolInv, CallsOK, CallRecord
<1>2. CASE Commit(c)
    BY <1>1, <1>2, AnswerEnds DEF Commit, Answers
<1>3. CASE LoseAnswer(c)
    BY <1>3, AnswerEnds DEF LoseAnswer, Answers
<1>4. QED
    BY <1>2, <1>3

\* A COMMIT brings in what its caller asked for; an ok after it is about that.
LEMMA CommitKeepsInv ==
    ASSUME PoolInv, NEW c \in Caller, Commit(c) \/ LoseAnswer(c)
    PROVE  PoolInv'
<1>1. /\ CarryOutCommit(c) /\ CallsOK' /\ QueueOK'
      /\ call'[c].step = "none"
      /\ call'[c].answer = "ok" => call'[c].request = call[c].request
      /\ call'[c].answer = "ok" => call'[c].got = call[c].request
      /\ \A d \in Caller : d # c => call'[d] = call[d]
      /\ holder' = IF holder = c THEN NoCaller ELSE holder
    BY CommitTold
<1>2. /\ holder = c /\ InTransaction(c) /\ call[c].request \in Mutation
      /\ TablesOK(disk') /\ disk'.derived = disk.derived
      /\ disk'.canonical = disk.canonical \cup {call[c].request}
      /\ connection' = AtRest
    BY <1>1, CommitEffect
<1>3. \A d \in Caller : ~InTransaction(d)'
    BY <1>1, <1>2 DEF PoolInv, ConnectionOK, InTransaction
<1>4. ~connection'.open
    BY <1>2 DEF AtRest
<1>5. ConnectionOK'
    BY <1>1, <1>2, <1>3, <1>4 DEF ConnectionOK
<1>6. TablesAgree'
    BY <1>2, <1>4 DEF TablesAgree, TablesOK
<1>7. \A d \in Caller : HasPut(d)' => d # c /\ HasPut(d) /\ call'[d] = call[d]
    BY <1>1, <1>2, RecordsAreNoMutations DEF HasPut
<1>8. PutOK'
    BY <1>2, <1>7 DEF PoolInv, PutOK
<1>9. OkOK'
    BY <1>1, <1>2 DEF PoolInv, OkOK
<1>10. QED
    BY <1>1, <1>5, <1>6, <1>8, <1>9 DEF PoolInv

\* What an INSERT that is not refused does: a row under an id that was free.
LEMMA InsertEffect ==
    ASSUME PoolInv, NEW c \in Caller, Insert(c), ~Taken(call[c].request)
    PROVE  /\ holder = c /\ ~In(queue, c) /\ call[c].step = "insert"
           /\ call[c].request \in Record /\ call[c].request.table \in Table
           /\ call[c].request.id \notin DOMAIN disk.derived[call[c].request.table]
           /\ disk' = WithRow(call[c].request) /\ Tables = disk
           /\ connection' = connection /\ ~connection.open
           /\ AwaitSelect(c)
<1>1. holder = c /\ ~In(queue, c) /\ call[c].step = "insert" /\ ~InTransaction(c)
    BY WaitsInQueue DEF Insert, Holds, Granted, InTransaction
<1>2. ~connection.open /\ Tables = disk
    BY <1>1, OutsideTransaction
<1>3. call[c].request \in Record /\ call[c].request.table \in Table
    BY <1>1, RecordShape DEF PoolInv, CallsOK, CallOK
<1>4. disk' = WithRow(call[c].request) /\ connection' = connection /\ AwaitSelect(c)
    BY <1>2 DEF Insert, Write
<1>5. QED
    BY <1>1, <1>2, <1>3, <1>4 DEF Taken, Stored

\* The rows after it.
LEMMA RowInserted ==
    ASSUME TablesOK(disk), NEW r, r.table \in Table, disk' = WithRow(r), Tables = disk
    PROVE  /\ TablesOK(disk') /\ disk'.canonical = disk.canonical
           /\ disk'.derived = [disk.derived EXCEPT ![r.table] =
                 [i \in DOMAIN @ \cup {r.id} |-> IF i = r.id THEN r ELSE @[i]]]
<1>1. PICK rows : rows = [i \in DOMAIN disk.derived[r.table] \cup {r.id} |->
                             IF i = r.id THEN r ELSE disk.derived[r.table][i]]
    OBVIOUS
<1>2. disk' = [disk EXCEPT !.derived[r.table] = rows]
    BY <1>1 DEF WithRow
<1>3. PICK derived : derived = [disk.derived EXCEPT ![r.table] = rows]
    OBVIOUS
<1>4. disk' = [derived |-> derived, canonical |-> disk.canonical]
    BY <1>2, <1>3 DEF TablesOK
<1>5. derived = [t \in Table |-> derived[t]]
    BY <1>3 DEF TablesOK
<1>6. disk'.derived = derived /\ disk'.canonical = disk.canonical
    BY <1>4
<1>7. TablesOK(disk')
    BY <1>4, <1>5, <1>6 DEF TablesOK
<1>8. derived = [disk.derived EXCEPT ![r.table] =
                    [i \in DOMAIN @ \cup {r.id} |-> IF i = r.id THEN r ELSE @[i]]]
    BY <1>1, <1>3
<1>9. QED
    BY <1>6, <1>7, <1>8

\* The row is on disk before anyone else has the connection, and nobody else's
\* is touched.
LEMMA InsertKeepsInv ==
    ASSUME PoolInv, NEW c \in Caller, Insert(c), ~Taken(call[c].request)
    PROVE  PoolInv'
<1>1. PICK r : r = call[c].request
    OBVIOUS
<1>2. /\ holder = c /\ ~In(queue, c) /\ call[c].step = "insert"
      /\ r \in Record /\ r.table \in Table
      /\ r.id \notin DOMAIN disk.derived[r.table]
      /\ disk' = WithRow(r) /\ Tables = disk
      /\ connection' = connection /\ ~connection.open
      /\ AwaitSelect(c)
    BY <1>1, InsertEffect
<1>3. PICK asked : asked = [call[c] EXCEPT !.step = "select"]
    OBVIOUS
<1>4. Becomes(c, asked) /\ queue' = Append(queue, c) /\ holder' = NoCaller
    BY <1>2, <1>3 DEF AwaitSelect, Becomes
<1>5. call[c] \in CallRecord /\ CallOK(call[c])
    BY DEF PoolInv, CallsOK
<1>6. /\ asked \in CallRecord /\ CallOK(asked)
      /\ asked.step = "select" /\ asked.request = r
      /\ asked.answer = call[c].answer /\ asked.got = call[c].got
    BY <1>1, <1>2, <1>3, <1>5 DEF CallRecord, CallOK, Step
<1>7. CallsOK' /\ call'[c] = asked /\ \A d \in Caller : d # c => call'[d] = call[d]
    BY <1>4, <1>6, CallBecomes DEF PoolInv
<1>8. /\ queue' \in Seq(Caller) /\ Once(queue')
      /\ \A d : In(queue', d) <=> In(queue, d) \/ d = c
    <2>1. queue \in Seq(Caller) /\ Once(queue)
        BY DEF PoolInv, QueueOK
    <2>2. QED
        BY <2>1, <1>2, <1>4, AppendToQueue
<1>9. QueueOK'
    BY <1>6, <1>7, <1>8 DEF PoolInv, QueueOK, Once, In
<1>10. \A d \in Caller : ~InTransaction(d)'
    BY <1>2, <1>6, <1>7 DEF PoolInv, ConnectionOK, InTransaction
<1>11. ConnectionOK'
    BY <1>2, <1>4, <1>10 DEF ConnectionOK
<1>12. /\ TablesOK(disk') /\ disk'.canonical = disk.canonical
       /\ disk'.derived = [disk.derived EXCEPT ![r.table] =
             [i \in DOMAIN @ \cup {r.id} |-> IF i = r.id THEN r ELSE @[i]]]
    BY <1>2, RowInserted DEF PoolInv, TablesAgree
<1>13. TablesAgree'
    BY <1>2, <1>12 DEF TablesAgree, TablesOK
<1>14. /\ r.id \in DOMAIN disk'.derived[r.table] /\ disk'.derived[r.table][r.id] = r
       /\ \A t \in Table : \A i \in DOMAIN disk.derived[t] :
             i \in DOMAIN disk'.derived[t] /\ disk'.derived[t][i] = disk.derived[t][i]
    BY <1>2, <1>12 DEF PoolInv, TablesAgree, TablesOK
<1>15. \A d \in Caller : d # c /\ HasPut(d)' => HasPut(d) /\ call'[d] = call[d]
    BY <1>7 DEF HasPut
<1>16. PutOK'
    <2>1. ASSUME NEW d \in Caller, d # c, HasPut(d)'
          PROVE  LET s == call'[d].request
                 IN  /\ s.id \in DOMAIN disk'.derived[s.table] /\ disk'.derived[s.table][s.id] = s
                     /\ ~SameRow(r, s)
        <3>1. PICK s : s = call[d].request
            OBVIOUS
        <3>2. s \in Record /\ s.id \in DOMAIN disk.derived[s.table] /\ disk.derived[s.table][s.id] = s
            BY <2>1, <3>1, <1>15 DEF PoolInv, PutOK, HasPut
        <3>3. s.table \in Table /\ call'[d].request = s
            BY <2>1, <3>1, <3>2, <1>15, RecordShape
        <3>4. QED
            BY <3>2, <3>3, <1>2, <1>14 DEF SameRow
    <2>2. call'[c].request = r
        BY <1>6, <1>7
    <2>3. \A d, e \in Caller : d # c /\ e # c /\ HasPut(d)' /\ HasPut(e)' =>
              (SameRow(call'[d].request, call'[e].request) => d = e)
        BY <1>15 DEF PoolInv, PutOK
    <2>4. QED
        BY <2>1, <2>2, <2>3, <1>14 DEF PutOK, SameRow
<1>17. OkOK'
    BY <1>2, <1>6, <1>7, <1>12 DEF PoolInv, OkOK, CallsOK, CallOK
<1>18. QED
    BY <1>7, <1>9, <1>11, <1>13, <1>16, <1>17 DEF PoolInv

\* The row read back is the one that was put, although others had the
\* connection in between.
LEMMA SelectKeepsInv ==
    ASSUME PoolInv, NEW c \in Caller, Select(c), Stored(call[c].request)
    PROVE  PoolInv'
<1>1. PICK r : r = call[c].request
    OBVIOUS
<1>2. holder = c /\ call[c].step = "select" /\ ~InTransaction(c) /\ UNCHANGED <<disk, connection>>
    BY DEF Select, Holds, Granted, InTransaction
<1>3. ~connection.open /\ Tables = disk
    BY <1>2, OutsideTransaction
<1>4. HasPut(c) /\ r \in Record
    BY <1>1, <1>2 DEF HasPut, PoolInv, CallsOK, CallOK
<1>5. disk.derived[r.table][r.id] = r
    BY <1>1, <1>4 DEF PoolInv, PutOK
<1>6. Answer(c, "ok", r)
    BY <1>1, <1>3, <1>5 DEF Select
<1>7. /\ CallsOK' /\ QueueOK'
      /\ call'[c].request = r /\ call'[c].got = r
      /\ call'[c].step = "none" /\ call'[c].answer = "ok"
      /\ \A d \in Caller : d # c => call'[d] = call[d]
      /\ holder' = NoCaller
    BY <1>1, <1>2, <1>4, <1>6, AnswerEnds DEF Answers
<1>8. \A d \in Caller : ~InTransaction(d)'
    BY <1>2, <1>7 DEF PoolInv, ConnectionOK, InTransaction
<1>9. ConnectionOK'
    BY <1>2, <1>3, <1>7, <1>8 DEF ConnectionOK
<1>10. TablesAgree'
    BY <1>2, <1>3 DEF PoolInv, TablesAgree, TablesOK
<1>11. \A d \in Caller : HasPut(d)' => HasPut(d) /\ call'[d].request = call[d].request
    BY <1>1, <1>4, <1>7 DEF HasPut
<1>12. PutOK'
    BY <1>2, <1>11 DEF PoolInv, PutOK
<1>13. OkOK'
    BY <1>2, <1>4, <1>7, RecordsAreNoMutations DEF PoolInv, OkOK
<1>14. QED
    BY <1>7, <1>9, <1>10, <1>12, <1>13 DEF PoolInv

\* PoolInv holds in every reachable state.
LEMMA StepKeepsPoolInv == PoolInv /\ [PoolNext]_poolVars => PoolInv'
<1> SUFFICES ASSUME PoolInv, [PoolNext]_poolVars PROVE PoolInv'
    OBVIOUS
<1>1. ASSUME NEW c \in Caller, Progress(c) PROVE PoolInv'
    BY <1>1, BadEndsKeepInv, InsertKeepsInv, SelectKeepsInv, BeginKeepsInv, WriteMutationKeepsInv,
       CommitKeepsInv DEF Progress
<1>2. ASSUME NEW c \in Caller, TimeOut(c) \/ Drop(c) \/ LoseAnswer(c) PROVE PoolInv'
    BY <1>2, BadEndsKeepInv, CommitKeepsInv
<1>3. CASE UNCHANGED poolVars
    BY <1>3 DEF poolVars, PoolInv, CallsOK, QueueOK, Once, In, ConnectionOK, InTransaction,
                TablesAgree, TablesOK, PutOK, HasPut, OkOK
<1>4. QED
    BY <1>1, <1>2, <1>3, CallsKeepInv, AcquireKeepsInv, ReconnectKeepsInv DEF PoolNext

LEMMA PoolInvariant == PoolSpec => []PoolInv
BY InitPoolInv, StepKeepsPoolInv, PTL DEF PoolSpec

-----------------------------------------------------------------------------
(* The theorems.                                                           *)

\* An ok is about exactly what was submitted, it is on disk, and nobody else
\* was told the same of the id: the SELECT after the INSERT may be of another
\* turn, but it reads the row that was put.
THEOREM AnsweredOnDisk == PoolSpec => []AnsweredIsOnDisk
<1>1. PoolInv => AnsweredIsOnDisk
    <2> SUFFICES ASSUME PoolInv, NEW c \in Caller, call[c].answer = "ok"
                 PROVE  /\ call[c].got = call[c].request
                        /\ call[c].got \in Record =>
                              /\ call[c].got.id \in DOMAIN disk.derived[call[c].got.table]
                              /\ disk.derived[call[c].got.table][call[c].got.id] = call[c].got
                              /\ \A d \in Caller \ {c} :
                                    call[d].answer = "ok" /\ call[d].got \in Record =>
                                        ~SameRow(call[d].got, call[c].got)
                        /\ call[c].got \in Mutation => call[c].got \in disk.canonical
        BY DEF AnsweredIsOnDisk, SameRow
    <2>1. \A d \in Caller : call[d].answer = "ok" => call[d].got = call[d].request
        BY DEF PoolInv, OkOK
    <2>2. \A d \in Caller : call[d].answer = "ok" /\ call[d].got \in Record => HasPut(d)
        BY <2>1 DEF HasPut
    <2>3. QED
        BY <2>1, <2>2 DEF PoolInv, OkOK, PutOK
<1>2. QED
    BY <1>1, PoolInvariant, PTL

\* Which steps write to disk: an INSERT outside a transaction, and a COMMIT.
LEMMA DiskSteps ==
    ASSUME PoolInv, [PoolNext]_poolVars
    PROVE  \/ disk' = disk
           \/ \E c \in Caller : Insert(c) /\ ~Taken(call[c].request)
           \/ \E c \in Caller : Commit(c) \/ LoseAnswer(c)
<1>1. ASSUME NEW c \in Caller, Progress(c)
      PROVE  disk' = disk \/ (Insert(c) /\ ~Taken(call[c].request)) \/ Commit(c)
    BY <1>1 DEF Progress, Insert, Select, Begin, WriteMutation, Fail, Rollback
<1>2. ASSUME NEW c \in Caller, TimeOut(c) \/ Drop(c) \/ (\E r \in Record : CallDerived(c, r))
                               \/ (\E m \in Mutation : CallCanonical(c, m))
      PROVE  disk' = disk
    BY <1>2 DEF TimeOut, Drop, Rollback, CallDerived, CallCanonical
<1>3. Acquire \/ Reconnect \/ UNCHANGED poolVars => disk' = disk
    BY DEF Acquire, Reconnect, poolVars
<1>4. QED
    BY <1>1, <1>2, <1>3 DEF PoolNext

\* Nothing comes to the disk but what the caller with the connection asked for,
\* a mutation only by its own COMMIT, after which it is told ok or was dropped as
\* it awaited it: what a caller wrote that is told of a failure, or was dropped
\* before its COMMIT, is never committed by the next one.
THEOREM CommitsAreTheHolders == PoolSpec => CommitsOnlyTheHolders
<1>1. ASSUME PoolInv, [PoolNext]_poolVars, disk' # disk
      PROVE  /\ holder # NoCaller
             /\ \A m \in disk'.canonical \ disk.canonical :
                   /\ m = call[holder].request /\ call[holder].step = "commit"
                   /\ call'[holder].step = "none" /\ call'[holder].answer \in {"ok", "none"}
             /\ \A t \in Table : \A i \in DOMAIN disk'.derived[t] \ DOMAIN disk.derived[t] :
                   disk'.derived[t][i] = call[holder].request
    <2>1. ASSUME NEW c \in Caller, Insert(c), ~Taken(call[c].request)
          PROVE  /\ holder = c /\ disk'.canonical = disk.canonical
                 /\ \A t \in Table : \A i \in DOMAIN disk'.derived[t] \ DOMAIN disk.derived[t] :
                       disk'.derived[t][i] = call[c].request
        <3>1. PICK r : r = call[c].request
            OBVIOUS
        <3>2. holder = c /\ r.table \in Table /\ disk' = WithRow(r) /\ Tables = disk
            BY <2>1, <3>1, <1>1, InsertEffect
        <3>3. /\ disk'.canonical = disk.canonical
              /\ disk'.derived = [disk.derived EXCEPT ![r.table] =
                    [i \in DOMAIN @ \cup {r.id} |-> IF i = r.id THEN r ELSE @[i]]]
            BY <3>2, <1>1, RowInserted DEF PoolInv, TablesAgree
        <3>4. DOMAIN disk.derived = Table
            BY <1>1 DEF PoolInv, TablesAgree, TablesOK
        <3>5. /\ \A t \in Table : t # r.table => disk'.derived[t] = disk.derived[t]
              /\ disk'.derived[r.table] = [i \in DOMAIN disk.derived[r.table] \cup {r.id} |->
                                             IF i = r.id THEN r ELSE disk.derived[r.table][i]]
            BY <3>2, <3>3, <3>4
        <3>6. ASSUME NEW t \in Table, NEW i \in DOMAIN disk'.derived[t] \ DOMAIN disk.derived[t]
              PROVE  disk'.derived[t][i] = r
            <4>1. t = r.table
                BY <3>5, <3>6
            <4>2. i = r.id
                BY <3>5, <3>6, <4>1
            <4>3. QED
                BY <3>5, <4>1, <4>2
        <3>7. QED
            BY <3>1, <3>2, <3>3, <3>6
    <2>2. ASSUME NEW c \in Caller, Commit(c) \/ LoseAnswer(c)
          PROVE  /\ holder = c /\ call[c].step = "commit" /\ disk'.derived = disk.derived
                 /\ disk'.canonical = disk.canonical \cup {call[c].request}
                 /\ call'[c].step = "none" /\ call'[c].answer \in {"ok", "none"}
        BY <2>2, <1>1, CommitTold, CommitEffect
    <2>3. QED
        BY <1>1, <2>1, <2>2, DiskSteps, NoCallerIsNone
<1>2. PoolInv /\ [PoolNext]_poolVars =>
        [disk' # disk =>
          /\ holder # NoCaller
          /\ \A m \in disk'.canonical \ disk.canonical :
                /\ m = call[holder].request /\ call[holder].step = "commit"
                /\ call'[holder].step = "none" /\ call'[holder].answer \in {"ok", "none"}
          /\ \A t \in Table : \A i \in DOMAIN disk'.derived[t] \ DOMAIN disk.derived[t] :
                disk'.derived[t][i] = call[holder].request]_poolVars
    BY <1>1
<1>3. QED
    BY <1>2, PoolInvariant, PTL DEF PoolSpec, CommitsOnlyTheHolders

\* The tables of derived artifacts are put-once tables: an INSERT that a primary
\* key does not refuse puts a row, and no other step is seen.
THEOREM DerivedTablesPutOnce == PoolSpec => DerivedPutOnce
<1>1. PoolInit => Derived!Init
    BY DEF PoolInit, NoTables, Derived!Init
<1>2. PoolInv /\ [PoolNext]_poolVars => [Derived!Next]_(disk.derived)
    <2> SUFFICES ASSUME PoolInv, [PoolNext]_poolVars PROVE Derived!Next \/ disk'.derived = disk.derived
        OBVIOUS
    <2>1. ASSUME NEW c \in Caller, Insert(c), ~Taken(call[c].request) PROVE Derived!Next
        <3>1. PICK r : r = call[c].request
            OBVIOUS
        <3>2. /\ r \in Record /\ r.table \in Table /\ disk' = WithRow(r) /\ Tables = disk
              /\ r.id \notin DOMAIN disk.derived[r.table]
            BY <2>1, <3>1, InsertEffect
        <3>3. disk'.derived = [disk.derived EXCEPT ![r.table] =
                  [i \in DOMAIN @ \cup {r.id} |-> IF i = r.id THEN r ELSE @[i]]]
            BY <3>2, RowInserted DEF PoolInv, TablesAgree
        <3>4. Derived!PutRow(r.table, r)
            BY <3>2, <3>3 DEF Derived!PutRow
        <3>5. QED
            BY <3>2, <3>4 DEF Derived!Next
    <2>2. ASSUME NEW c \in Caller, Commit(c) \/ LoseAnswer(c) PROVE disk'.derived = disk.derived
        BY <2>2, CommitTold, CommitEffect
    <2>3. QED
        BY <2>1, <2>2, DiskSteps
<1>3. QED
    BY <1>1, <1>2, PoolInvariant, PTL DEF PoolSpec, DerivedPutOnce, Derived!Spec
=============================================================================
