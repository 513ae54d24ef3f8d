------------------------ MODULE CanonicalStoreProofs ------------------------
(***************************************************************************)
(* Invariants of CanonicalStore, proved for every set of devices, keys,    *)
(* ids and payloads and every MaxVersion.                                  *)
(*                                                                         *)
(* The next-state relation has two shapes, an object write and an append;  *)
(* StepShapes reduces a step to them once, and each invariant is then      *)
(* proved for the two shapes.                                              *)
(***************************************************************************)
EXTENDS CanonicalStore, TLAPS

-----------------------------------------------------------------------------
(* Tables.                                                                 *)

\* INSERT or UPDATE keeps a table a table.
LEMMA PutIsTable ==
    ASSUME NEW table, NEW keys, NEW rows, NEW key \in keys, NEW row \in rows,
           IsTable(table, keys, rows)
    PROVE  IsTable(Put(table, key, row), keys, rows)
BY DEF IsTable, Put

\* The value observed for an id is a VersionRef.
LEMMA ObservedIsRef ==
    ASSUME NEW obs \in Observation, NEW o \in DOMAIN obs
    PROVE  obs[o] \in VersionRef /\ o \in ObjectId
<1>1. PICK seen \in SUBSET ObjectId : obs \in [seen -> VersionRef]
    BY ObservationShape
<1>2. QED
    BY <1>1

-----------------------------------------------------------------------------
(* The two shapes of a step.                                               *)

\* An object write: stored is the new row's payload, requested its evidence.
ObjectStep(env, id, stored, requested) ==
    /\ env \in Envelope
    /\ id \in ObjectId
    /\ stored \in ObjectPayload
    /\ requested \in Json
    /\ Fresh(env)
    /\ stored.body = requested.body
    /\ \/ requested \in RecordPayload /\ stored = requested
       \/ /\ requested \notin RecordPayload
          /\ env.observed[id] # Absent
          /\ stored.schema = objects[id].payload.schema
    /\ WriteObject(env, id, stored, requested)

\* An append of a log or of an external reference.
AppendStep(env, id, payload) ==
    /\ env \in Envelope
    /\ payload \in Json
    /\ Fresh(env)
    /\ \/ id \in LogId /\ AppendLogEntry(env, id, payload)
       \/ id \in XrefId /\ StoreExternalReference(env, id, payload)

\* The row an object write is on top of, and the version it produces.
LEMMA ObjectStepVersion ==
    ASSUME TypeOK, NEW env, NEW id, NEW stored, NEW requested,
           ObjectStep(env, id, stored, requested)
    PROVE  /\ id \in DOMAIN env.observed
           /\ env.observed[id] = CurrentRef(objects, id)
           /\ NextVersion(env.observed[id]) \in 1..MaxVersion
           /\ id \in DOMAIN objects =>
                  NextVersion(env.observed[id]) = objects[id].version + 1
           /\ id \notin DOMAIN objects => NextVersion(env.observed[id]) = 1
<1>1. id \in DOMAIN env.observed /\ env.observed[id] # MaxVersion
    BY DEF ObjectStep, WriteObject, CanAdvance
<1>2. env.observed[id] = CurrentRef(objects, id)
    BY <1>1 DEF ObjectStep, Fresh, PreconditionsHold
<1>3. CASE id \in DOMAIN objects
    <2>1. objects[id].version \in 1..MaxVersion
        BY <1>3 DEF TypeOK, IsTable, ObjectRow
    <2>2. QED
        BY <1>1, <1>2, <1>3, <2>1, MaxVersionPositive DEF CurrentRef, NextVersion, Absent
<1>4. CASE id \notin DOMAIN objects
    BY <1>1, <1>2, <1>4, MaxVersionPositive DEF CurrentRef, NextVersion, Absent
<1>5. QED
    BY <1>3, <1>4

\* Every step is an object write, an append, or changes nothing.
LEMMA StepShapes ==
    ASSUME TypeOK, [Next]_vars
    PROVE  \/ \E env, id, stored, requested : ObjectStep(env, id, stored, requested)
           \/ \E env, id, payload : AppendStep(env, id, payload)
           \/ UNCHANGED vars
<1>1. ASSUME NEW env \in Envelope, NEW p \in RecordPayload, AdmitObject(env, p)
      PROVE  ObjectStep(env, p.id, p, p)
    BY <1>1, RecordPayloadShape DEF AdmitObject, ObjectStep, ObjectPayload, Json
<1>2. ASSUME NEW env \in Envelope, NEW q \in StateRequest, PersistUniverseState(env, q)
      PROVE  ObjectStep(env, q.state, PersistedPayload(q), q)
    <2>1. q.state \in DOMAIN objects
        BY <1>2 DEF PersistUniverseState, Fresh, PreconditionsHold, CurrentRef
    <2>2. objects[q.state].payload \in ObjectPayload
        BY <2>1 DEF TypeOK, IsTable, ObjectRow
    <2>3. q.state \in ObjectId /\ q.body \in Body
        BY StateRequestShape
    <2>4. PersistedPayload(q) \in ObjectPayload
        BY <2>2, <2>3 DEF PersistedPayload, ObjectPayload
    <2>5. PersistedPayload(q).body = q.body
          /\ PersistedPayload(q).schema = objects[q.state].payload.schema
        BY DEF PersistedPayload
    <2>6. q \notin RecordPayload
        BY RecordPayloadShape, StateRequestShape DEF ObjectPayload
    <2>7. QED
        BY <1>2, <2>3, <2>4, <2>5, <2>6 DEF PersistUniverseState, ObjectStep, Json
<1>3. ASSUME NEW env \in Envelope, NEW id \in LogId, NEW p \in Json, AppendLogEntry(env, id, p)
      PROVE  AppendStep(env, id, p)
    BY <1>3 DEF AppendStep, AppendLogEntry
<1>4. ASSUME NEW env \in Envelope, NEW id \in XrefId, NEW p \in Json,
             StoreExternalReference(env, id, p)
      PROVE  AppendStep(env, id, p)
    BY <1>4 DEF AppendStep, StoreExternalReference
<1>5. ASSUME NEW key \in Key, NEW p \in Json, NEW target, ReplayMutation(key, p, target)
      PROVE  UNCHANGED vars
    BY <1>5 DEF ReplayMutation
<1>6. QED
    BY <1>1, <1>2, <1>3, <1>4, <1>5 DEF Next

-----------------------------------------------------------------------------
(* Types.                                                                  *)

\* An object write keeps every table a table of its rows.
LEMMA ObjectStepType ==
    ASSUME TypeOK, NEW env, NEW id, NEW stored, NEW requested,
           ObjectStep(env, id, stored, requested)
    PROVE  TypeOK'
<1> DEFINE version == NextVersion(env.observed[id])
           row == [payload |-> stored, version |-> version]
           receipt == [payload |-> requested, id |-> id, version |-> version,
                       observed |-> env.observed]
<1>1. version \in 1..MaxVersion
    BY ObjectStepVersion
<1>2. /\ objects' = Put(objects, id, row)
      /\ ledger' = Put(ledger, env.key, receipt)
      /\ UNCHANGED <<logs, xrefs>>
    BY DEF ObjectStep, WriteObject, Record
<1>3. row \in ObjectRow
    BY <1>1 DEF ObjectStep, ObjectRow
<1>4. receipt \in Receipt
    BY <1>1, MaxVersionPositive DEF ObjectStep, Receipt, Envelope
<1>5. env.key \in Key /\ id \in ObjectId
    BY DEF ObjectStep, Envelope
<1>6. IsTable(objects', ObjectId, ObjectRow)
    BY <1>2, <1>3, <1>5, PutIsTable DEF TypeOK
<1>7. IsTable(ledger', Key, Receipt)
    BY <1>2, <1>4, <1>5, PutIsTable DEF TypeOK
<1>8. IsTable(logs', LogId, Json) /\ IsTable(xrefs', XrefId, Json)
    BY <1>2 DEF TypeOK
<1>9. QED
    BY <1>6, <1>7, <1>8 DEF TypeOK

\* So does an append.
LEMMA AppendStepType ==
    ASSUME TypeOK, NEW env, NEW id, NEW payload, AppendStep(env, id, payload)
    PROVE  TypeOK'
<1> DEFINE receipt == [payload |-> payload, id |-> id, version |-> 0,
                       observed |-> env.observed]
<1>1. /\ ledger' = Put(ledger, env.key, receipt)
      /\ objects' = objects
      /\ \/ id \in LogId /\ logs' = Put(logs, id, payload) /\ xrefs' = xrefs
         \/ id \in XrefId /\ xrefs' = Put(xrefs, id, payload) /\ logs' = logs
    BY DEF AppendStep, AppendLogEntry, StoreExternalReference, Record
<1>2. env.key \in Key /\ receipt \in Receipt
    BY MaxVersionPositive DEF AppendStep, AppendLogEntry, StoreExternalReference,
                              Receipt, Envelope, ObjectId
<1>3. IsTable(ledger', Key, Receipt)
    BY <1>1, <1>2, PutIsTable DEF TypeOK
<1>4. IsTable(logs', LogId, Json) /\ IsTable(xrefs', XrefId, Json)
    BY <1>1, PutIsTable DEF TypeOK, AppendStep
<1>5. QED
    BY <1>1, <1>3, <1>4 DEF TypeOK

\* Each canonical table holds only rows of its type, whatever the writers and
\* their retries do (in particular a version never exceeds MaxVersion).
THEOREM TypeCorrect == Spec => []TypeOK
<1>1. Init => TypeOK
    BY DEF Init, TypeOK, Empty, IsTable
<1>2. TypeOK /\ [Next]_vars => TypeOK'
    <2> SUFFICES ASSUME TypeOK, [Next]_vars PROVE TypeOK'
        OBVIOUS
    <2>1. CASE UNCHANGED vars
        BY <2>1 DEF vars, TypeOK
    <2>2. QED
        BY <2>1, StepShapes, ObjectStepType, AppendStepType
<1>3. QED
    BY <1>1, <1>2, PTL DEF Spec

-----------------------------------------------------------------------------
(* The ledger and the objects table agree.                                 *)

\* What the rest of a proof needs of a step: the receipt of a new key, and
\* the object version or the absent row it stands for.
ObjectEffect(env, id, stored, requested) ==
    /\ env.key \notin DOMAIN ledger
    /\ DOMAIN ledger' = DOMAIN ledger \cup {env.key}
    /\ \A k \in DOMAIN ledger : ledger'[k] = ledger[k]
    /\ ledger'[env.key].payload = requested
    /\ ledger'[env.key].id = id
    /\ ledger'[env.key].version = NextVersion(env.observed[id])
    /\ ledger'[env.key].observed = env.observed
    /\ DOMAIN objects' = DOMAIN objects \cup {id}
    /\ \A o \in DOMAIN objects : o # id => objects'[o] = objects[o]
    /\ objects'[id].payload = stored
    /\ objects'[id].version = NextVersion(env.observed[id])
    /\ UNCHANGED <<logs, xrefs>>

AppendEffect(env, id, payload) ==
    /\ env.key \notin DOMAIN ledger
    /\ DOMAIN ledger' = DOMAIN ledger \cup {env.key}
    /\ \A k \in DOMAIN ledger : ledger'[k] = ledger[k]
    /\ ledger'[env.key].payload = payload
    /\ ledger'[env.key].id = id
    /\ ledger'[env.key].version = 0
    /\ ledger'[env.key].observed = env.observed
    /\ objects' = objects
    /\ id \notin DOMAIN logs \cup DOMAIN xrefs
    /\ \/ id \in LogId /\ logs' = Put(logs, id, payload) /\ xrefs' = xrefs
       \/ id \in XrefId /\ xrefs' = Put(xrefs, id, payload) /\ logs' = logs

\* An object write has its effect.
LEMMA ObjectStepEffect ==
    ASSUME TypeOK, NEW env, NEW id, NEW stored, NEW requested,
           ObjectStep(env, id, stored, requested)
    PROVE  ObjectEffect(env, id, stored, requested)
<1> DEFINE version == NextVersion(env.observed[id])
           row == [payload |-> stored, version |-> version]
           receipt == [payload |-> requested, id |-> id, version |-> version,
                       observed |-> env.observed]
<1>1. /\ objects' = Put(objects, id, row)
      /\ ledger' = Put(ledger, env.key, receipt)
      /\ UNCHANGED <<logs, xrefs>>
      /\ env.key \notin DOMAIN ledger
    BY DEF ObjectStep, WriteObject, Record, Fresh
<1> HIDE DEF row, receipt
<1>2. /\ DOMAIN objects' = DOMAIN objects \cup {id}
      /\ objects'[id] = row
      /\ \A o \in DOMAIN objects : o # id => objects'[o] = objects[o]
    BY <1>1 DEF Put
<1>3. /\ DOMAIN ledger' = DOMAIN ledger \cup {env.key}
      /\ ledger'[env.key] = receipt
      /\ \A k \in DOMAIN ledger : ledger'[k] = ledger[k]
    BY <1>1 DEF Put
<1>4. QED
    BY <1>1, <1>2, <1>3 DEF ObjectEffect, row, receipt

\* The same of an append: its id was in neither append-only table.
LEMMA AppendStepEffect ==
    ASSUME TypeOK, NEW env, NEW id, NEW payload, AppendStep(env, id, payload)
    PROVE  AppendEffect(env, id, payload)
<1>1. /\ ledger' = Put(ledger, env.key, [payload |-> payload, id |-> id, version |-> 0,
                                         observed |-> env.observed])
      /\ env.key \notin DOMAIN ledger
      /\ objects' = objects
      /\ \/ id \in LogId /\ logs' = Put(logs, id, payload) /\ xrefs' = xrefs
            /\ id \notin DOMAIN logs
         \/ id \in XrefId /\ xrefs' = Put(xrefs, id, payload) /\ logs' = logs
            /\ id \notin DOMAIN xrefs
    BY DEF AppendStep, AppendLogEntry, StoreExternalReference, Record, Fresh
<1>2. id \notin DOMAIN logs \cup DOMAIN xrefs
    BY <1>1, IdsDisjoint DEF TypeOK, IsTable
<1>3. QED
    BY <1>1, <1>2 DEF AppendEffect, Put

\* An object write keeps the agreement: its version is one above the current
\* one, so no receipt has it yet.
LEMMA ObjectStepAgrees ==
    ASSUME TypeOK, EachVersionWrittenOnce,
           NEW env, NEW id, NEW stored, NEW requested,
           ObjectStep(env, id, stored, requested)
    PROVE  EachVersionWrittenOnce'
<1> DEFINE n == env.key
           version == NextVersion(env.observed[id])
<1>1. version \in 1..MaxVersion
      /\ (id \in DOMAIN objects => version = objects[id].version + 1)
      /\ (id \notin DOMAIN objects => version = 1)
    BY ObjectStepVersion
<1>2. /\ n \notin DOMAIN ledger
      /\ DOMAIN ledger' = DOMAIN ledger \cup {n}
      /\ \A k \in DOMAIN ledger : ledger'[k] = ledger[k]
      /\ ledger'[n].id = id
      /\ ledger'[n].version = version
    <2>1. ObjectEffect(env, id, stored, requested)
        BY ObjectStepEffect
    <2>2. QED
        BY <2>1 DEF ObjectEffect
<1>3. /\ DOMAIN objects' = DOMAIN objects \cup {id}
      /\ \A o \in DOMAIN objects : o # id => objects'[o] = objects[o]
      /\ objects'[id].version = version
    BY DEF ObjectStep, WriteObject, Put
<1>4. \A o \in DOMAIN objects : objects[o].version \in 1..MaxVersion
    BY DEF TypeOK, IsTable, ObjectRow
<1>5. \A k \in DOMAIN ledger : ledger[k].version \in 0..MaxVersion
    BY DEF TypeOK, IsTable, Receipt
<1> HIDE DEF version, n
<1>6. VersionsHaveReceipts'
    <2> SUFFICES ASSUME NEW o \in DOMAIN objects', NEW v \in 1..(objects'[o].version)
                 PROVE  \E k \in DOMAIN ledger' : Wrote(k, o, v)'
        BY DEF VersionsHaveReceipts
    <2>1. CASE o = id /\ v = version
        BY <2>1, <1>1, <1>2 DEF Wrote
    <2>2. CASE o \in DOMAIN objects /\ v \in 1..objects[o].version
        <3>1. PICK k \in DOMAIN ledger : Wrote(k, o, v)
            BY <2>2 DEF EachVersionWrittenOnce, VersionsHaveReceipts
        <3>2. QED
            BY <3>1, <1>2 DEF Wrote
    <2>3. o = id => v = version \/ (o \in DOMAIN objects /\ v \in 1..objects[o].version)
        BY <1>1, <1>3, <1>4, MaxVersionPositive
    <2>4. o # id => o \in DOMAIN objects /\ v \in 1..objects[o].version
        BY <1>3
    <2>5. QED
        BY <2>1, <2>2, <2>3, <2>4
<1>7. ReceiptsHaveVersions'
    <2> SUFFICES ASSUME NEW k \in DOMAIN ledger', ledger'[k].version > 0
                 PROVE  /\ ledger'[k].id \in DOMAIN objects'
                        /\ ledger'[k].version <= objects'[ledger'[k].id].version
        BY DEF ReceiptsHaveVersions
    <2>1. CASE k = n
        BY <2>1, <1>1, <1>2, <1>3
    <2>2. CASE k \in DOMAIN ledger
        <3>1. /\ ledger[k].id \in DOMAIN objects
              /\ ledger[k].version <= objects[ledger[k].id].version
            BY <2>2, <1>2 DEF EachVersionWrittenOnce, ReceiptsHaveVersions
        <3>2. QED
            BY <2>2, <3>1, <1>1, <1>2, <1>3, <1>4, <1>5, MaxVersionPositive
    <2>3. QED
        BY <2>1, <2>2, <1>2
<1>8. OneReceiptPerResult'
    <2>1. \A k \in DOMAIN ledger : ~(ledger[k].id = id /\ ledger[k].version = version)
        <3> SUFFICES ASSUME NEW k \in DOMAIN ledger, ledger[k].id = id,
                            ledger[k].version = version
                     PROVE  FALSE
            OBVIOUS
        <3>1. id \in DOMAIN objects /\ version <= objects[id].version
            BY <1>1 DEF EachVersionWrittenOnce, ReceiptsHaveVersions
        <3>2. QED
            BY <3>1, <1>1, <1>4, MaxVersionPositive
    <2>2. QED
        BY <2>1, <1>2 DEF EachVersionWrittenOnce, OneReceiptPerResult
<1>9. QED
    BY <1>6, <1>7, <1>8 DEF EachVersionWrittenOnce

\* An append keeps it too: the id it appends has no receipt of version zero.
LEMMA AppendStepAgrees ==
    ASSUME TypeOK, EachVersionWrittenOnce, AppendsHaveReceipts,
           NEW env, NEW id, NEW payload, AppendStep(env, id, payload)
    PROVE  EachVersionWrittenOnce'
<1> DEFINE n == env.key
<1>1. /\ n \notin DOMAIN ledger
      /\ DOMAIN ledger' = DOMAIN ledger \cup {n}
      /\ \A k \in DOMAIN ledger : ledger'[k] = ledger[k]
      /\ ledger'[n].id = id
      /\ ledger'[n].version = 0
      /\ objects' = objects
      /\ id \notin DOMAIN logs \cup DOMAIN xrefs
    <2>1. AppendEffect(env, id, payload)
        BY AppendStepEffect
    <2>2. QED
        BY <2>1 DEF AppendEffect
<1> HIDE DEF n
<1>2. VersionsHaveReceipts'
    <2> SUFFICES ASSUME NEW o \in DOMAIN objects, NEW v \in 1..objects[o].version
                 PROVE  \E k \in DOMAIN ledger' : Wrote(k, o, v)'
        BY <1>1 DEF VersionsHaveReceipts
    <2>1. PICK k \in DOMAIN ledger : Wrote(k, o, v)
        BY DEF EachVersionWrittenOnce, VersionsHaveReceipts
    <2>2. QED
        BY <2>1, <1>1 DEF Wrote
<1>3. ReceiptsHaveVersions'
    BY <1>1 DEF EachVersionWrittenOnce, ReceiptsHaveVersions
<1>4. OneReceiptPerResult'
    <2>1. \A k \in DOMAIN ledger : ~(ledger[k].id = id /\ ledger[k].version = 0)
        BY <1>1 DEF AppendsHaveReceipts
    <2>2. QED
        BY <2>1, <1>1 DEF EachVersionWrittenOnce, OneReceiptPerResult
<1>5. QED
    BY <1>2, <1>3, <1>4 DEF EachVersionWrittenOnce

\* Both shapes of a step keep every append with its receipt.
LEMMA StepKeepsAppends ==
    ASSUME TypeOK, AppendsHaveReceipts, [Next]_vars
    PROVE  AppendsHaveReceipts'
<1>1. CASE UNCHANGED vars
    BY <1>1 DEF vars, AppendsHaveReceipts
<1>2. ASSUME NEW env, NEW id, NEW stored, NEW requested,
             ObjectStep(env, id, stored, requested)
      PROVE  AppendsHaveReceipts'
    <2>1. /\ env.key \notin DOMAIN ledger
          /\ DOMAIN ledger' = DOMAIN ledger \cup {env.key}
          /\ \A k \in DOMAIN ledger : ledger'[k] = ledger[k]
          /\ ledger'[env.key].version = NextVersion(env.observed[id])
          /\ UNCHANGED <<logs, xrefs>>
        <3>1. ObjectEffect(env, id, stored, requested)
            BY <1>2, ObjectStepEffect
        <3>2. QED
            BY <3>1 DEF ObjectEffect
    <2>2. NextVersion(env.observed[id]) # 0
        BY <1>2, ObjectStepVersion, MaxVersionPositive
    <2>3. QED
        BY <2>1, <2>2 DEF AppendsHaveReceipts
<1>3. ASSUME NEW env, NEW id, NEW payload, AppendStep(env, id, payload)
      PROVE  AppendsHaveReceipts'
    <2>1. /\ env.key \notin DOMAIN ledger
          /\ DOMAIN ledger' = DOMAIN ledger \cup {env.key}
          /\ \A k \in DOMAIN ledger : ledger'[k] = ledger[k]
          /\ ledger'[env.key].id = id
          /\ ledger'[env.key].version = 0
          /\ ledger'[env.key].payload = payload
          /\ id \notin DOMAIN logs \cup DOMAIN xrefs
        <3>1. AppendEffect(env, id, payload)
            BY <1>3, AppendStepEffect
        <3>2. QED
            BY <3>1 DEF AppendEffect
    <2>2. \/ /\ xrefs' = xrefs
             /\ DOMAIN logs' = DOMAIN logs \cup {id}
             /\ logs'[id] = payload
             /\ \A l \in DOMAIN logs : logs'[l] = logs[l]
          \/ /\ logs' = logs
             /\ DOMAIN xrefs' = DOMAIN xrefs \cup {id}
             /\ xrefs'[id] = payload
             /\ \A x \in DOMAIN xrefs : xrefs'[x] = xrefs[x]
        BY <1>3, <2>1 DEF AppendStep, AppendLogEntry, StoreExternalReference, Put
    <2>3. QED
        BY <2>1, <2>2 DEF AppendsHaveReceipts
<1>4. QED
    BY <1>1, <1>2, <1>3, StepShapes

\* The inductive invariant behind the two theorems below.
LedgerInv == TypeOK /\ EachVersionWrittenOnce /\ AppendsHaveReceipts

\* An empty store has it, and every step keeps it.
LEMMA LedgerStarts == Init => LedgerInv
BY DEF Init, LedgerInv, TypeOK, Empty, IsTable, EachVersionWrittenOnce,
       VersionsHaveReceipts, ReceiptsHaveVersions, OneReceiptPerResult, AppendsHaveReceipts

LEMMA LedgerKept ==
    ASSUME LedgerInv, [Next]_vars
    PROVE  LedgerInv'
<1> USE DEF LedgerInv
<1>1. TypeOK'
    <2>1. CASE UNCHANGED vars
        BY <2>1 DEF vars, TypeOK
    <2>2. QED
        BY <2>1, StepShapes, ObjectStepType, AppendStepType
<1>2. EachVersionWrittenOnce'
    <2>1. CASE UNCHANGED vars
        BY <2>1 DEF vars, EachVersionWrittenOnce, VersionsHaveReceipts,
                    ReceiptsHaveVersions, OneReceiptPerResult, Wrote
    <2>2. QED
        BY <2>1, StepShapes, ObjectStepAgrees, AppendStepAgrees
<1>3. AppendsHaveReceipts'
    BY StepKeepsAppends
<1>4. QED
    BY <1>1, <1>2, <1>3

\* LedgerInv holds in every reachable state.
LEMMA LedgerInvariant == Spec => []LedgerInv
BY LedgerStarts, LedgerKept, PTL DEF Spec

\* Each version of each object was written by exactly one recorded request and
\* no receipt speaks of another: write_object_row and record_mutation agree.
THEOREM VersionsWrittenOnce == Spec => []EachVersionWrittenOnce
<1>1. LedgerInv => EachVersionWrittenOnce
    BY DEF LedgerInv
<1>2. QED
    BY <1>1, LedgerInvariant, PTL

\* Logs, external references and their receipts correspond one to one, with
\* equal payloads.
THEOREM AppendsRecorded == Spec => []AppendsHaveReceipts
<1>1. LedgerInv => AppendsHaveReceipts
    BY DEF LedgerInv
<1>2. QED
    BY <1>1, LedgerInvariant, PTL

\* A repeated request finds the row its key recorded, in the table of the
\* writer that Accepts lets answer it.
THEOREM ReplayFinds == Spec => []ReplayFindsItsRow
<1>1. LedgerInv => ReplayFindsItsRow
    <2> SUFFICES ASSUME LedgerInv, NEW k \in DOMAIN ledger
                 PROVE  /\ Accepts("objects", ledger[k]) => ledger[k].id \in DOMAIN objects
                        /\ Accepts("logs", ledger[k]) => ledger[k].id \in DOMAIN logs
                        /\ Accepts("xrefs", ledger[k]) => ledger[k].id \in DOMAIN xrefs
        BY DEF ReplayFindsItsRow
    <2>1. Accepts("objects", ledger[k]) => ledger[k].id \in DOMAIN objects
        BY DEF LedgerInv, Accepts, EachVersionWrittenOnce, ReceiptsHaveVersions
    <2>2. ledger[k].version = 0 => ledger[k].id \in DOMAIN logs \/ ledger[k].id \in DOMAIN xrefs
        BY DEF LedgerInv, AppendsHaveReceipts
    <2>3. DOMAIN logs \subseteq LogId /\ DOMAIN xrefs \subseteq XrefId
        BY DEF LedgerInv, TypeOK, IsTable
    <2>4. QED
        BY <2>1, <2>2, <2>3, IdsDisjoint DEF Accepts
<1>2. QED
    BY <1>1, LedgerInvariant, PTL

-----------------------------------------------------------------------------
(* Serializability of what the requests observed.                          *)

\* No receipt observed a version that is still to be written.
ObservedPast ==
    \A k \in DOMAIN ledger : \A o \in DOMAIN ledger[k].observed :
        \/ ledger[k].observed[o] = Absent
        \/ o \in DOMAIN objects /\ ledger[k].observed[o] <= objects[o].version

\* The key, the receipt and the reads of a step that records one.
Records(env) ==
    /\ env \in Envelope
    /\ PreconditionsHold(objects, env.observed)
    /\ env.key \notin DOMAIN ledger
    /\ DOMAIN ledger' = DOMAIN ledger \cup {env.key}
    /\ \A k \in DOMAIN ledger : ledger'[k] = ledger[k]
    /\ ledger'[env.key].observed = env.observed
    /\ ledger'[env.key].version > 0 =>
           \A o \in DOMAIN objects : o = ledger'[env.key].id =>
               ledger'[env.key].version > objects[o].version
    /\ \A o \in DOMAIN objects : o \in DOMAIN objects' /\ objects[o].version <= objects'[o].version

\* Every step that is not a stutter is one.
LEMMA StepRecords ==
    ASSUME TypeOK, [Next]_vars
    PROVE  UNCHANGED vars \/ \E env : Records(env)
<1>1. \A o \in DOMAIN objects : objects[o].version \in 1..MaxVersion
    BY DEF TypeOK, IsTable, ObjectRow
<1>2. ASSUME NEW env, NEW id, NEW stored, NEW requested,
             ObjectStep(env, id, stored, requested)
      PROVE  Records(env)
    <2>1. /\ env \in Envelope
          /\ PreconditionsHold(objects, env.observed)
        BY <1>2 DEF ObjectStep, Fresh
    <2>2. /\ env.key \notin DOMAIN ledger
          /\ DOMAIN ledger' = DOMAIN ledger \cup {env.key}
          /\ \A k \in DOMAIN ledger : ledger'[k] = ledger[k]
          /\ ledger'[env.key].observed = env.observed
          /\ ledger'[env.key].id = id
          /\ ledger'[env.key].version = NextVersion(env.observed[id])
        <3>1. ObjectEffect(env, id, stored, requested)
            BY <1>2, ObjectStepEffect
        <3>2. QED
            BY <3>1 DEF ObjectEffect
    <2>3. /\ \A o \in DOMAIN objects : o \in DOMAIN objects'
          /\ \A o \in DOMAIN objects : o # id => objects'[o] = objects[o]
          /\ objects'[id].version = NextVersion(env.observed[id])
        BY <1>2 DEF ObjectStep, WriteObject, Put
    <2>4. id \in DOMAIN objects => NextVersion(env.observed[id]) = objects[id].version + 1
        BY <1>2, ObjectStepVersion
    <2>5. \A o \in DOMAIN objects : objects[o].version <= objects'[o].version
        BY <1>1, <2>3, <2>4, MaxVersionPositive
    <2>6. \A o \in DOMAIN objects : o = id => NextVersion(env.observed[id]) > objects[o].version
        BY <1>1, <2>4, MaxVersionPositive
    <2>7. QED
        BY <2>1, <2>2, <2>3, <2>5, <2>6 DEF Records
<1>3. ASSUME NEW env, NEW id, NEW payload, AppendStep(env, id, payload)
      PROVE  Records(env)
    <2>1. /\ env \in Envelope
          /\ PreconditionsHold(objects, env.observed)
        BY <1>3 DEF AppendStep, Fresh
    <2>2. /\ env.key \notin DOMAIN ledger
          /\ DOMAIN ledger' = DOMAIN ledger \cup {env.key}
          /\ \A k \in DOMAIN ledger : ledger'[k] = ledger[k]
          /\ ledger'[env.key].observed = env.observed
          /\ ledger'[env.key].version = 0
          /\ objects' = objects
        <3>1. AppendEffect(env, id, payload)
            BY <1>3, AppendStepEffect
        <3>2. QED
            BY <3>1 DEF AppendEffect
    <2>3. \A o \in DOMAIN objects : objects[o].version <= objects'[o].version
        BY <1>1, <2>2, MaxVersionPositive
    <2>4. QED
        BY <2>1, <2>2, <2>3 DEF Records
<1>4. QED
    BY <1>2, <1>3, StepShapes

\* A recorded request saw the present, so it saw nothing still to be written.
LEMMA RecordsKeepsPast ==
    ASSUME TypeOK, TypeOK', ObservedPast, NEW env, Records(env)
    PROVE  ObservedPast'
<1>1. \A o \in DOMAIN objects : objects[o].version \in 1..MaxVersion
    BY DEF TypeOK, IsTable, ObjectRow
<1>2. SUFFICES ASSUME NEW k \in DOMAIN ledger', NEW o \in DOMAIN ledger'[k].observed,
                      ledger'[k].observed[o] # Absent
               PROVE  o \in DOMAIN objects' /\ ledger'[k].observed[o] <= objects'[o].version
    BY DEF ObservedPast
<1>3. CASE k = env.key
    <2>1. o \in DOMAIN env.observed /\ ledger'[k].observed[o] = CurrentRef(objects, o)
        BY <1>3 DEF Records, PreconditionsHold
    <2>2. o \in DOMAIN objects /\ ledger'[k].observed[o] = objects[o].version
        BY <1>2, <2>1 DEF CurrentRef
    <2>3. QED
        BY <2>2 DEF Records
<1>4. CASE k \in DOMAIN ledger
    <2>1. /\ ledger'[k] = ledger[k]
          /\ ledger[k].observed \in Observation
        BY <1>4 DEF Records, TypeOK, IsTable, Receipt
    <2>2. ledger[k].observed[o] \in VersionRef
        BY <2>1, <1>2, ObservedIsRef
    <2>3. o \in DOMAIN objects /\ ledger[k].observed[o] <= objects[o].version
        BY <1>2, <1>4, <2>1 DEF ObservedPast
    <2>4. /\ o \in DOMAIN objects'
          /\ objects[o].version <= objects'[o].version
        BY <2>3 DEF Records
    <2>5. ledger[k].observed[o] \in Nat
        BY <1>2, <2>1, <2>2 DEF VersionRef
    <2>6. objects'[o].version \in 1..MaxVersion
        BY <2>4 DEF TypeOK, IsTable, ObjectRow
    <2>7. QED
        BY <1>1, <2>1, <2>3, <2>4, <2>5, <2>6, MaxVersionPositive
<1>5. QED
    BY <1>3, <1>4 DEF Records

\* The request recorded last comes after every other one.
LEMMA NothingFollowsTheLast ==
    ASSUME LedgerInv, ObservedPast, NEW env, Records(env), NEW k \in DOMAIN ledger
    PROVE  ~Precedes(env.key, k)'
<1> DEFINE n == env.key
           o == ledger'[n].id
           v == ledger'[n].version
<1>1. \A x \in DOMAIN objects : objects[x].version \in 1..MaxVersion
    BY DEF LedgerInv, TypeOK, IsTable, ObjectRow
<1>2. /\ ledger'[k] = ledger[k]
      /\ ledger[k].observed \in Observation
      /\ ledger[k].version \in 0..MaxVersion
    BY DEF Records, LedgerInv, TypeOK, IsTable, Receipt
<1>3. ASSUME o \in DOMAIN ledger[k].observed, v > 0, ledger[k].observed[o] = v
      PROVE  FALSE
    <2>1. ledger[k].observed[o] \in VersionRef
        BY <1>2, <1>3, ObservedIsRef
    <2>2. v # Absent /\ v \in Nat
        BY <1>3, <2>1 DEF VersionRef, Absent
    <2>3. o \in DOMAIN objects /\ v <= objects[o].version
        BY <1>3, <2>2 DEF ObservedPast
    <2>4. v > objects[o].version
        BY <1>3, <2>3 DEF Records
    <2>5. QED
        BY <1>1, <2>2, <2>3, <2>4, MaxVersionPositive
<1>4. ASSUME NEW x, x = ledger[k].id, x \in DOMAIN env.observed, ledger[k].version > 0,
             NextVersion(env.observed[x]) = ledger[k].version
      PROVE  FALSE
    <2>1. x \in DOMAIN objects /\ ledger[k].version <= objects[x].version
        BY <1>4 DEF LedgerInv, EachVersionWrittenOnce, ReceiptsHaveVersions
    <2>2. env.observed[x] = objects[x].version
        BY <1>4, <2>1 DEF Records, PreconditionsHold, CurrentRef
    <2>3. NextVersion(env.observed[x]) = objects[x].version + 1
        BY <1>1, <2>1, <2>2, MaxVersionPositive DEF NextVersion, Absent
    <2>4. QED
        BY <1>1, <1>2, <1>4, <2>1, <2>3, MaxVersionPositive
<1>5. ledger'[n].observed = env.observed
    BY DEF Records
<1>6. QED
    BY <1>2, <1>3, <1>4, <1>5 DEF Precedes

\* With the past observed and no cycle before, a step closes none.
LEMMA OrderKept ==
    ASSUME LedgerInv, ObservedPast, ReceiptsSerializable, [Next]_vars
    PROVE  ObservedPast' /\ ReceiptsSerializable'
<1>1. CASE UNCHANGED vars
    BY <1>1 DEF vars, ObservedPast, ReceiptsSerializable, Precedes
<1>2. ASSUME NEW env, Records(env)
      PROVE  ObservedPast' /\ ReceiptsSerializable'
    <2>1. ObservedPast'
        BY <1>2, LedgerKept, RecordsKeepsPast DEF LedgerInv
    <2>2. ASSUME NEW S \in (SUBSET DOMAIN ledger') \ {{}}
          PROVE  \E k \in S : \A j \in S \ {k} : ~Precedes(j, k)'
        <3> DEFINE n == env.key
                   old == S \ {n}
        <3>1. /\ old \subseteq DOMAIN ledger
              /\ \A k \in DOMAIN ledger : ledger'[k] = ledger[k]
            BY <1>2 DEF Records
        <3>2. CASE old = {}
            <4>1. S = {n}
                BY <3>2
            <4>2. QED
                BY <4>1
        <3>3. CASE old # {}
            <4>1. PICK k \in old : \A j \in old \ {k} : ~Precedes(j, k)
                BY <3>1, <3>3 DEF ReceiptsSerializable
            <4>2. \A j \in old \ {k} : ~Precedes(j, k)'
                BY <3>1, <4>1 DEF Precedes
            <4>3. ~Precedes(n, k)'
                BY <1>2, <3>1, NothingFollowsTheLast
            <4>4. QED
                BY <4>2, <4>3
        <3>4. QED
            BY <3>2, <3>3
    <2>3. QED
        BY <2>1, <2>2 DEF ReceiptsSerializable
<1>3. QED
    BY <1>1, <1>2, StepRecords DEF LedgerInv

\* What the store records is serializable: for any set of recorded requests,
\* some member need not come after another of them to have observed what it
\* did, so check_preconditions admits no stale read and no lost update.
THEOREM Serializable == Spec => []ReceiptsSerializable
<1>1. Init => ObservedPast /\ ReceiptsSerializable
    BY DEF Init, Empty, ObservedPast, ReceiptsSerializable
<1>2. QED
    BY <1>1, OrderKept, LedgerInvariant, PTL DEF Spec

-----------------------------------------------------------------------------
(* Occurrence keys, rows and evidence.                                     *)

\* A write that gives a Task a key checks every other current row.
LEMMA OccurrencesKept ==
    ASSUME LedgerInv, OccurrenceKeyUnique, [Next]_vars
    PROVE  OccurrenceKeyUnique'
<1>1. CASE UNCHANGED vars
    BY <1>1 DEF vars, OccurrenceKeyUnique
<1>2. ASSUME NEW env, NEW id, NEW stored, NEW requested,
             ObjectStep(env, id, stored, requested)
      PROVE  OccurrenceKeyUnique'
    <2>1. /\ DOMAIN objects' = DOMAIN objects \cup {id}
          /\ objects'[id].payload = stored
          /\ \A o \in DOMAIN objects : o # id => objects'[o] = objects[o]
        BY <1>2 DEF ObjectStep, WriteObject, Put
    <2>2. id \in TaskId /\ stored.occurrence # NoOccurrence =>
              \A t \in (DOMAIN objects \cap TaskId) \ {id} :
                  objects[t].payload.occurrence # stored.occurrence
        BY <1>2 DEF ObjectStep, WriteObject, OccurrenceFree, OccurrenceHeld
    <2>3. QED
        BY <2>1, <2>2 DEF OccurrenceKeyUnique
<1>3. ASSUME NEW env, NEW id, NEW payload, AppendStep(env, id, payload)
      PROVE  OccurrenceKeyUnique'
    <2>1. AppendEffect(env, id, payload)
        BY <1>3, AppendStepEffect DEF LedgerInv
    <2>2. QED
        BY <2>1 DEF AppendEffect, OccurrenceKeyUnique
<1>4. QED
    BY <1>1, <1>2, <1>3, StepShapes DEF LedgerInv

\* Two Tasks never hold one occurrence key, whatever moves, drops or takes back
\* a key.
THEOREM OneTaskPerOccurrence == Spec => []OccurrenceKeyUnique
<1>1. Init => OccurrenceKeyUnique
    BY DEF Init, Empty, OccurrenceKeyUnique
<1>2. QED
    BY <1>1, OccurrencesKept, LedgerInvariant, PTL DEF Spec

\* All of it together: what one atomic step of the store takes as given and
\* leaves behind.
StoreInv == LedgerInv /\ ObservedPast /\ ReceiptsSerializable /\ OccurrenceKeyUnique

LEMMA StoreStarts == Init => StoreInv
<1>1. Init => ObservedPast /\ ReceiptsSerializable /\ OccurrenceKeyUnique
    BY DEF Init, Empty, ObservedPast, ReceiptsSerializable, OccurrenceKeyUnique
<1>2. QED
    BY <1>1, LedgerStarts DEF StoreInv

LEMMA StoreKept ==
    ASSUME StoreInv, [Next]_vars
    PROVE  StoreInv'
<1>1. LedgerInv'
    BY LedgerKept DEF StoreInv
<1>2. ObservedPast' /\ ReceiptsSerializable'
    BY OrderKept DEF StoreInv
<1>3. OccurrenceKeyUnique'
    BY OccurrencesKept DEF StoreInv
<1>4. QED
    BY <1>1, <1>2, <1>3 DEF StoreInv

\* An object write leaves the row its own receipt describes.
LEMMA ObjectStepFollows ==
    ASSUME LedgerInv, RowFollowsFromReceipts,
           NEW env, NEW id, NEW stored, NEW requested,
           ObjectStep(env, id, stored, requested)
    PROVE  RowFollowsFromReceipts'
<1>0. ObjectEffect(env, id, stored, requested)
    BY ObjectStepEffect DEF LedgerInv
<1> DEFINE n == env.key
           version == NextVersion(env.observed[id])
           Superseded(k) == \E j \in DOMAIN ledger : /\ ledger[j].id = ledger[k].id
                                                   /\ ledger[j].version > ledger[k].version
                                                   /\ ledger[j].payload \in RecordPayload
<1>1. /\ n \notin DOMAIN ledger
      /\ DOMAIN ledger' = DOMAIN ledger \cup {n}
      /\ \A k \in DOMAIN ledger : ledger'[k] = ledger[k]
      /\ ledger'[n].id = id
      /\ ledger'[n].version = version
      /\ ledger'[n].payload = requested
    BY <1>0 DEF ObjectEffect
<1>2. /\ \A o \in DOMAIN objects : o # id => objects'[o] = objects[o]
      /\ objects'[id].version = version
      /\ objects'[id].payload = stored
    BY <1>0 DEF ObjectEffect
<1> USE DEF LedgerInv
<1>3. \A k \in DOMAIN ledger : ledger[k].version > 0 =>
          /\ ledger[k].id \in DOMAIN objects
          /\ ledger[k].version <= objects[ledger[k].id].version
    BY DEF EachVersionWrittenOnce, ReceiptsHaveVersions
<1>4. /\ \A o \in DOMAIN objects : objects[o].version \in 1..MaxVersion
      /\ \A k \in DOMAIN ledger : ledger[k].version \in 0..MaxVersion
    BY DEF TypeOK, IsTable, ObjectRow, Receipt
<1>5. id \in DOMAIN objects => version = objects[id].version + 1
    BY ObjectStepVersion
<1>6. /\ stored.body = requested.body
      /\ \/ requested \in RecordPayload /\ stored = requested
         \/ requested \notin RecordPayload /\ stored.schema = objects[id].payload.schema
    BY DEF ObjectStep
<1>7. \A k \in DOMAIN ledger : ledger[k].version > 0 =>
          /\ ledger[k].version = objects[ledger[k].id].version =>
                 objects[ledger[k].id].payload.body = ledger[k].payload.body
          /\ ledger[k].payload \in RecordPayload /\ ~Superseded(k) =>
                 objects[ledger[k].id].payload.schema = ledger[k].payload.schema
    BY DEF RowFollowsFromReceipts
<1> HIDE DEF n, version, LedgerInv
<1>8. SUFFICES ASSUME NEW k \in DOMAIN ledger', ledger'[k].version > 0
               PROVE  /\ ledger'[k].version = objects'[ledger'[k].id].version =>
                             objects'[ledger'[k].id].payload.body = ledger'[k].payload.body
                      /\ ledger'[k].payload \in RecordPayload
                         /\ ~(\E j \in DOMAIN ledger' : /\ ledger'[j].id = ledger'[k].id
                                                        /\ ledger'[j].version > ledger'[k].version
                                                        /\ ledger'[j].payload \in RecordPayload)
                         => objects'[ledger'[k].id].payload.schema = ledger'[k].payload.schema
    BY DEF RowFollowsFromReceipts
<1>9. CASE k = n
    BY <1>9, <1>1, <1>2, <1>6
<1>10. CASE k \in DOMAIN ledger /\ ledger[k].id # id
    BY <1>10, <1>1, <1>2, <1>3, <1>7, <1>8
<1>11. CASE k \in DOMAIN ledger /\ ledger[k].id = id
    <2>1. ledger[k].version < version /\ version # ledger[k].version
        BY <1>11, <1>1, <1>3, <1>4, <1>5, <1>8, MaxVersionPositive
    <2>2. CASE requested \in RecordPayload
        BY <2>1, <2>2, <1>11, <1>1, <1>2
    <2>3. CASE requested \notin RecordPayload
        BY <2>1, <2>3, <1>11, <1>1, <1>2, <1>6, <1>7, <1>8
    <2>4. QED
        BY <2>2, <2>3
<1>12. QED
    BY <1>9, <1>10, <1>11, <1>1

\* The current row is reconstructable from its receipts: the body of the one
\* that wrote its version, the schema_version of the last admitted payload.
THEOREM RowsFollow == Spec => []RowFollowsFromReceipts
<1>1. Init => RowFollowsFromReceipts
    BY DEF Init, Empty, RowFollowsFromReceipts
<1>2. LedgerInv /\ RowFollowsFromReceipts /\ [Next]_vars => RowFollowsFromReceipts'
    <2> SUFFICES ASSUME LedgerInv, RowFollowsFromReceipts, [Next]_vars
                 PROVE  RowFollowsFromReceipts'
        OBVIOUS
    <2>1. CASE UNCHANGED vars
        BY <2>1 DEF vars, RowFollowsFromReceipts
    <2>2. ASSUME NEW env, NEW id, NEW payload, AppendStep(env, id, payload)
          PROVE  RowFollowsFromReceipts'
        <3>1. /\ DOMAIN ledger' = DOMAIN ledger \cup {env.key}
              /\ \A k \in DOMAIN ledger : ledger'[k] = ledger[k]
              /\ ledger'[env.key].version = 0
              /\ objects' = objects
            <4>1. AppendEffect(env, id, payload)
                BY <2>2, AppendStepEffect DEF LedgerInv
            <4>2. QED
                BY <4>1 DEF AppendEffect
        <3>2. QED
            BY <3>1 DEF RowFollowsFromReceipts
    <2>3. QED
        BY <2>1, <2>2, StepShapes, ObjectStepFollows DEF LedgerInv
<1>3. QED
    BY <1>1, <1>2, LedgerInvariant, PTL DEF Spec

\* No step changes or removes evidence, and an object is only replaced by its
\* next version.
THEOREM AppendOnly == Spec => EvidenceAppendOnly
<1>1. LedgerInv /\ [Next]_vars =>
        [/\ \A k \in DOMAIN ledger : k \in DOMAIN ledger' /\ ledger'[k] = ledger[k]
         /\ \A l \in DOMAIN logs : l \in DOMAIN logs' /\ logs'[l] = logs[l]
         /\ \A x \in DOMAIN xrefs : x \in DOMAIN xrefs' /\ xrefs'[x] = xrefs[x]
         /\ \A o \in DOMAIN objects :
               /\ o \in DOMAIN objects'
               /\ \/ objects'[o] = objects[o]
                  \/ objects'[o].version = objects[o].version + 1]_vars
    <2> SUFFICES ASSUME LedgerInv, [Next]_vars, ~UNCHANGED vars
                 PROVE  /\ \A k \in DOMAIN ledger : k \in DOMAIN ledger' /\ ledger'[k] = ledger[k]
                        /\ \A l \in DOMAIN logs : l \in DOMAIN logs' /\ logs'[l] = logs[l]
                        /\ \A x \in DOMAIN xrefs : x \in DOMAIN xrefs' /\ xrefs'[x] = xrefs[x]
                        /\ \A o \in DOMAIN objects :
                              /\ o \in DOMAIN objects'
                              /\ \/ objects'[o] = objects[o]
                                 \/ objects'[o].version = objects[o].version + 1
        OBVIOUS
    <2>1. ASSUME NEW env, Records(env)
          PROVE  \A k \in DOMAIN ledger : k \in DOMAIN ledger' /\ ledger'[k] = ledger[k]
        BY <2>1 DEF Records
    <2>2. ASSUME NEW env, NEW id, NEW stored, NEW requested,
                 ObjectStep(env, id, stored, requested)
          PROVE  /\ UNCHANGED <<logs, xrefs>>
                 /\ \A o \in DOMAIN objects :
                       /\ o \in DOMAIN objects'
                       /\ \/ objects'[o] = objects[o]
                          \/ objects'[o].version = objects[o].version + 1
        <3>1. /\ UNCHANGED <<logs, xrefs>>
              /\ \A o \in DOMAIN objects :
                    o \in DOMAIN objects' /\ (o # id => objects'[o] = objects[o])
              /\ objects'[id].version = NextVersion(env.observed[id])
            BY <2>2 DEF ObjectStep, WriteObject, Put
        <3>2. id \in DOMAIN objects => NextVersion(env.observed[id]) = objects[id].version + 1
            BY <2>2, ObjectStepVersion DEF LedgerInv
        <3>3. QED
            BY <3>1, <3>2
    <2>3. ASSUME NEW env, NEW id, NEW payload, AppendStep(env, id, payload)
          PROVE  /\ objects' = objects
                 /\ \A l \in DOMAIN logs : l \in DOMAIN logs' /\ logs'[l] = logs[l]
                 /\ \A x \in DOMAIN xrefs : x \in DOMAIN xrefs' /\ xrefs'[x] = xrefs[x]
        BY <2>3 DEF AppendStep, AppendLogEntry, StoreExternalReference, Put
    <2>4. QED
        BY <2>1, <2>2, <2>3, StepShapes, StepRecords DEF LedgerInv
<1>2. QED
    BY <1>1, LedgerInvariant, PTL DEF Spec, EvidenceAppendOnly
=============================================================================
