-------------------------- MODULE StoreSetupProofs --------------------------
(***************************************************************************)
(* OpenStoresAreMigrated, proved for every number of processes and of      *)
(* stops.  A process may read the list of migrations long before it runs   *)
(* one, so the invariant needs what its reading is worth: never more than  *)
(* the database has.                                                       *)
(***************************************************************************)
EXTENDS StoreSetup, TLAPS

\* Migrations are only ever added, and not past two Tasks with one key.
SchemaGrows ==
    /\ schema \in 0..Migrations
    /\ duplicates => schema < OccurrenceIndex

\* What a process saw applied still is, and a store is opened on all of it.
SeenIsApplied ==
    \A p \in Process :
        /\ At(p, "migrating") => opening[p].seen <= schema
        /\ At(p, "open") => schema = Migrations

SetupInv ==
    /\ opening \in [Process -> Opening]
    /\ SchemaGrows
    /\ SeenIsApplied

\* A process goes to another place, with a reading the database bears out.
LEMMA MoveKeepsInv ==
    ASSUME SetupInv, NEW p \in Process,
           NEW place \in {"closed", "connected", "migrating", "failed", "open"},
           NEW seen \in 0..Migrations, GoTo(p, place, seen),
           SchemaGrows', schema' \in schema..Migrations,
           place = "migrating" => seen <= schema',
           place = "open" => schema' = Migrations
    PROVE  SetupInv'
<1>1. /\ opening \in [Process -> Opening]
      /\ schema \in 0..Migrations
    BY DEF SetupInv, SchemaGrows
<1>2. /\ opening' \in [Process -> Opening]
      /\ opening'[p] = [at |-> place, seen |-> seen]
      /\ \A q \in Process \ {p} : opening'[q] = opening[q]
    BY <1>1 DEF GoTo, Opening
<1>3. ASSUME NEW q \in Process
      PROVE  /\ opening'[q].at = "migrating" => opening'[q].seen <= schema'
             /\ opening'[q].at = "open" => schema' = Migrations
    <2>1. CASE q = p
        BY <1>2, <2>1
    <2>2. CASE q # p
        <3>1. /\ opening[q].seen \in 0..Migrations
              /\ opening[q].at = "migrating" => opening[q].seen <= schema
              /\ opening[q].at = "open" => schema = Migrations
            BY <1>1 DEF SetupInv, SeenIsApplied, At, Opening
        <3>2. QED
            BY <1>1, <1>2, <2>2, <3>1 DEF Migrations
    <2>3. QED
        BY <2>1, <2>2
<1>4. QED
    BY <1>2, <1>3 DEF SetupInv, SeenIsApplied, At

\* Each process's step keeps the invariant, whatever the others saw.
LEMMA SetupStepKeepsInv ==
    ASSUME SetupInv, NEW p \in Process, SetupStep(p) \/ Stop(p)
    PROVE  SetupInv'
<1>1. /\ opening[p].seen \in 0..Migrations
      /\ schema \in 0..Migrations
      /\ SchemaGrows
      /\ 0 \in 0..Migrations
    BY DEF SetupInv, SchemaGrows, Opening, Migrations
<1>2. ASSUME UNCHANGED <<schema, duplicates>>
      PROVE  SchemaGrows' /\ schema' \in schema..Migrations
    BY <1>1, <1>2 DEF SchemaGrows
<1>3. CASE Connect(p)
    BY <1>1, <1>2, <1>3, MoveKeepsInv DEF Connect
<1>4. CASE List(p)
    BY <1>1, <1>2, <1>4, MoveKeepsInv DEF List, ListedBy
<1>5. CASE Apply(p)
    <2>1. /\ schema + 1 \in 0..Migrations
          /\ schema' = schema + 1
          /\ GoTo(p, "migrating", schema + 1)
          /\ duplicates' = duplicates
          /\ schema + 1 = OccurrenceIndex => ~duplicates
        BY <1>1, <1>5 DEF Apply, Runs, Migrations
    <2>2. SchemaGrows' /\ schema' \in schema..Migrations
        BY <1>1, <2>1 DEF SchemaGrows, OccurrenceIndex
    <2>3. QED
        BY <2>1, <2>2, MoveKeepsInv
<1>6. CASE ApplyRefused(p)
    BY <1>1, <1>2, <1>6, MoveKeepsInv DEF ApplyRefused, Refused
<1>7. CASE Open(p)
    <2>1. schema = Migrations
        BY <1>1, <1>7 DEF Open, SetupInv, SeenIsApplied, Migrations
    <2>2. QED
        BY <1>1, <1>2, <1>7, <2>1, MoveKeepsInv DEF Open
<1>8. CASE Stop(p)
    BY <1>1, <1>2, <1>8, MoveKeepsInv DEF Stop
<1>9. QED
    BY <1>3, <1>4, <1>5, <1>6, <1>7, <1>8 DEF SetupStep

\* What the proof goes by holds in every state the processes reach.
LEMMA SetupInvariant == SetupSpec => []SetupInv
<1>1. SetupInit => SetupInv
    BY DEF SetupInit, SetupInv, SchemaGrows, SeenIsApplied, At, Opening, Migrations, OccurrenceIndex
<1>2. SetupInv /\ [SetupNext]_setupVars => SetupInv'
    <2>1. CASE UNCHANGED setupVars
        BY <2>1 DEF setupVars, SetupInv, SchemaGrows, SeenIsApplied, At
    <2>2. QED
        BY <2>1, SetupStepKeepsInv DEF SetupNext
<1>3. QED
    BY <1>1, <1>2, PTL DEF SetupSpec

\* Whoever has a store has one with every migration and no two Tasks with one
\* occurrence key, for any number of processes that open it, stop and fail.
THEOREM OpenedMigrated == SetupSpec => []OpenStoresAreMigrated
<1>1. SetupInv => OpenStoresAreMigrated
    BY DEF SetupInv, SchemaGrows, SeenIsApplied, OpenStoresAreMigrated, Migrations, OccurrenceIndex
<1>2. QED
    BY <1>1, SetupInvariant, PTL

\* A database with two Tasks of one occurrence key is never opened: the last
\* migration fails in every attempt.
THEOREM DuplicatesStayClosed ==
    SetupSpec => (duplicates => [](\A p \in Process : ~At(p, "open")))
<1>1. SetupInv /\ duplicates => \A p \in Process : ~At(p, "open")
    <2> SUFFICES ASSUME SetupInv, duplicates, NEW p \in Process, At(p, "open") PROVE FALSE
        OBVIOUS
    <2>1. schema < OccurrenceIndex
        BY DEF SetupInv, SchemaGrows
    <2>2. schema = Migrations
        BY DEF SetupInv, SeenIsApplied
    <2>3. QED
        BY <2>1, <2>2 DEF Migrations, OccurrenceIndex
<1>2. duplicates /\ [SetupNext]_setupVars => duplicates'
    BY DEF SetupNext, SetupStep, Connect, List, Apply, ApplyRefused, Open, Stop, setupVars
<1>3. QED
    BY <1>1, <1>2, SetupInvariant, PTL DEF SetupSpec
=============================================================================
