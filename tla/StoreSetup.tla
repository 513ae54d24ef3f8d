----------------------------- MODULE StoreSetup -----------------------------
(***************************************************************************)
(* Opening a store (src/db.rs, src/migrations.rs, src/api/store.rs): each  *)
(* process connects, reads which migrations the database has, runs the     *)
(* rest one transaction each, and only then has a store.  Nothing locks    *)
(* the database over all of it, so several processes may open a new one at *)
(* once, and any of them may stop half way.                                *)
(***************************************************************************)
EXTENDS Integers

CONSTANTS
    Process,
    MaxStops        \* how often processes stop on the way

\* 0001_initial, 0002_mutation_envelopes, 0003_advisory_candidates and
\* 0004_task_occurrence_key.
Migrations == 4
OccurrenceIndex == 4

VARIABLES
    schema,         \* how many migrations the database has
    duplicates,     \* it holds two Tasks with one occurrence key
    opening,        \* process -> [at, seen]: where it is, the migrations it saw
    stops

setupVars == <<schema, duplicates, opening, stops>>

Opening == [at : {"closed", "connected", "migrating", "failed", "open"}, seen : 0..Migrations]

\* A database that was never opened, or one left by an older build, which did
\* not keep occurrence keys apart.
SetupInit ==
    /\ schema \in 0..Migrations
    /\ duplicates \in BOOLEAN
    /\ duplicates => schema \in 1..(OccurrenceIndex - 1)
    /\ opening = [p \in Process |-> [at |-> "closed", seen |-> 0]]
    /\ stops = 0

At(p, place) == opening[p].at = place
GoTo(p, place, seen) == opening' = [opening EXCEPT ![p] = [at |-> place, seen |-> seen]]

\* connect: the file is created if it is missing.  A process that failed may
\* call again.
Connect(p) ==
    /\ At(p, "closed") \/ At(p, "failed")
    /\ GoTo(p, "connected", opening[p].seen)
    /\ UNCHANGED <<schema, duplicates, stops>>

\* Mutant of ListedBy: what an earlier attempt read is taken for current.
ListedOnce(p) == IF opening[p].seen > 0 THEN opening[p].seen ELSE schema

\* The migrations found in the database.
ListedBy(p) == schema

\* run_migrations begins: list what is applied.
List(p) ==
    /\ At(p, "connected")
    /\ GoTo(p, "migrating", ListedBy(p))
    /\ UNCHANGED <<schema, duplicates, stops>>

\* The next migration runs: its tables or index are not there yet, and no two
\* Tasks stand in the way of the unique index.
Runs(p) ==
    /\ schema = opening[p].seen
    /\ schema + 1 = OccurrenceIndex => ~duplicates

Apply(p) ==
    /\ At(p, "migrating") /\ opening[p].seen < Migrations
    /\ Runs(p)
    /\ schema' = schema + 1
    /\ GoTo(p, "migrating", schema')
    /\ UNCHANGED <<duplicates, stops>>

\* Mutant of Refused: a migration that fails is passed over.
PassedOver(p) == GoTo(p, "migrating", opening[p].seen + 1)

\* The error ends init.
Refused(p) == GoTo(p, "failed", opening[p].seen)

\* Another process was faster, or the index cannot be built.
ApplyRefused(p) ==
    /\ At(p, "migrating") /\ opening[p].seen < Migrations
    /\ ~Runs(p)
    /\ Refused(p)
    /\ UNCHANGED <<schema, duplicates, stops>>

\* init returns and the caller has a store.
Open(p) ==
    /\ At(p, "migrating") /\ opening[p].seen = Migrations
    /\ GoTo(p, "open", Migrations)
    /\ UNCHANGED <<schema, duplicates, stops>>

\* The process stops and starts again, forgetting what it saw.
Stop(p) ==
    /\ stops < MaxStops /\ ~At(p, "closed")
    /\ stops' = stops + 1
    /\ GoTo(p, "closed", 0)
    /\ UNCHANGED <<schema, duplicates>>

SetupStep(p) == Connect(p) \/ List(p) \/ Apply(p) \/ ApplyRefused(p) \/ Open(p)

SetupNext == \E p \in Process : SetupStep(p) \/ Stop(p)

\* Each process goes on, and calls again after an error; none is relied on to stop.
SetupSpec == SetupInit /\ [][SetupNext]_setupVars /\ \A p \in Process : WF_setupVars(SetupStep(p))

-----------------------------------------------------------------------------
(* Properties.                                                             *)

\* Nobody has a store whose schema is not complete, whoever ran the migrations
\* and however often one of them stopped or failed between two; and while
\* anyone has one, the unique index of 0004 stands.
OpenStoresAreMigrated ==
    /\ opening \in [Process -> Opening]
    /\ \A p \in Process : At(p, "open") => schema = Migrations /\ ~duplicates

\* A process that opens a database and, where another was faster, opens it
\* again, has a store in the end, unless two Tasks of an older build share an
\* occurrence key: then nobody ever has.
EveryoneOpens ==
    /\ ~duplicates => \A p \in Process : <>[]At(p, "open")
    /\ duplicates => [](\A p \in Process : ~At(p, "open"))
=============================================================================
