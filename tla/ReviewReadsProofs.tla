------------------------- MODULE ReviewReadsProofs -------------------------
(***************************************************************************)
(* What reviewers can rely on who read without a lock and decide later,    *)
(* proved for any number of them, of candidates and of decisions: the      *)
(* candidate they decide on, the queue, its places and the list of         *)
(* decisions.  The reads add nothing to the store, so all that is proved   *)
(* of ReviewSpec holds here.                                               *)
(***************************************************************************)
EXTENDS ReviewReads, CandidateReviewProofs, FiniteSetTheorems

-----------------------------------------------------------------------------
(* Reviewers take the steps of the store.                                  *)

\* A decision on a row names the version of the candidate it finds.
LEMMA DecideObserves ==
    ASSUME NEW env, NEW id, NEW observed, Decide(env, id, observed)
    PROVE  id \in DOMAIN candidates /\ candidates[id].version = observed
BY DEF Decide, TransitionAdvisoryCandidate, RejectAdvisoryCandidate, AdmitAdvisoryCandidate,
       ObservedCandidate

LEMMA ReadStepIsReviewStep ==
    ASSUME CandidateRows, [ReadNext]_readVars
    PROVE  [ReviewNext]_allVars
<1>1. ASSUME NEW d \in Device, ReadQueue(d) \/ \E c \in CandidateId : ReadCandidate(d, c)
      PROVE  UNCHANGED allVars
    BY <1>1 DEF ReadQueue, ReadCandidate
<1>2. ASSUME NEW env \in Envelope, NEW c \in CandidateId, DecideOnSeen(env, c)
      PROVE  ReviewNext
    <2>1. PICK observed : Decide(env, c, observed)
        BY <1>2 DEF DecideOnSeen
    <2>2. c \in DOMAIN candidates /\ candidates[c].version = observed
        BY <2>1, DecideObserves
    <2>3. observed \in 1..MaxVersion
        BY <2>2 DEF CandidateRows, RowMirrorsPayload, RowOf, Candidate
    <2>4. QED
        BY <2>1, <2>3 DEF ReviewNext
<1>3. ASSUME NEW env \in Envelope, NEW s \in Submission, StoreAdvisoryCandidate(env, s)
      PROVE  ReviewNext
    BY <1>3 DEF ReviewNext
<1>4. QED
    BY <1>1, <1>2, <1>3 DEF ReadNext, readVars

\* Nothing a reviewer does is more than a review step.
LEMMA ReadsAreReview == ReadSpec => ReviewSpec
<1>1. ReadInit => ReviewInit /\ CandidateRows
    BY DEF ReadInit, ReviewInit, Empty, CandidateRows, RowMirrorsPayload
<1>2. CandidateRows /\ [ReadNext]_readVars => [ReviewNext]_allVars
    BY ReadStepIsReviewStep
<1>3. CandidateRows /\ [ReviewNext]_allVars => CandidateRows'
    BY StepKeepsRows
<1>4. QED
    BY <1>1, <1>2, <1>3, PTL DEF ReadSpec, ReviewSpec

-----------------------------------------------------------------------------
(* What a reviewer saw.                                                    *)

\* A row seen is of a candidate that is there, and is its row still or is of
\* an earlier version: no decision leaves the version as it was.
SeenInv ==
    /\ DOMAIN seen = Device
    /\ \A d \in Device : \A c \in DOMAIN seen[d] :
          /\ c \in DOMAIN candidates
          /\ seen[d][c].version \in 1..MaxVersion
          /\ seen[d][c] = candidates[c] \/ seen[d][c].version < candidates[c].version

\* A row is replaced by one of a later version, if at all.
LEMMA VersionsGrow ==
    ASSUME CandidateRows, [ReviewNext]_allVars, NEW c \in DOMAIN candidates
    PROVE  /\ c \in DOMAIN candidates'
           /\ candidates[c].version \in 1..MaxVersion
           /\ candidates'[c].payload.content = candidates[c].payload.content
           /\ \/ candidates'[c] = candidates[c]
              \/ candidates'[c].version = candidates[c].version + 1
<1>1. candidates[c].version \in 1..MaxVersion
    BY DEF CandidateRows, RowMirrorsPayload, RowOf, Candidate
<1>2. CASE UNCHANGED candidates
    BY <1>1, <1>2
<1>3. ASSUME NEW key, NEW s, StoreStep(key, s)
      PROVE  c \in DOMAIN candidates' /\ candidates'[c] = candidates[c]
    BY <1>3, StoreStepEffect DEF StoreEffect
<1>4. ASSUME NEW key, NEW id, NEW next, NEW trigger, NEW object,
             DecisionStep(key, id, next, trigger, object)
      PROVE  /\ c \in DOMAIN candidates'
             /\ candidates'[c].payload.content = candidates[c].payload.content
             /\ \/ candidates'[c] = candidates[c]
                \/ candidates'[c].version = candidates[c].version + 1
    BY <1>4, DecisionStepEffect DEF DecisionEffect
<1>5. QED
    BY <1>1, <1>2, <1>3, <1>4, ReviewStepShapes DEF CanonicalStep, allVars, reviewVars

LEMMA StepKeepsSeen ==
    ASSUME CandidateRows, SeenInv, [ReadNext]_readVars
    PROVE  SeenInv'
<1>1. [ReviewNext]_allVars
    BY ReadStepIsReviewStep
<1>2. \A c \in DOMAIN candidates :
          /\ c \in DOMAIN candidates'
          /\ candidates[c].version \in 1..MaxVersion
          /\ candidates'[c] = candidates[c] \/ candidates'[c].version = candidates[c].version + 1
    BY <1>1, VersionsGrow
<1>3. CASE UNCHANGED seen
    <2>1. ASSUME NEW d \in Device, NEW c \in DOMAIN seen[d]
          PROVE  /\ c \in DOMAIN candidates'
                 /\ seen[d][c].version \in 1..MaxVersion
                 /\ seen[d][c] = candidates'[c] \/ seen[d][c].version < candidates'[c].version
        BY <1>2, MaxVersionPositive DEF SeenInv
    <2>2. QED
        BY <1>3, <2>1 DEF SeenInv
<1>4. ASSUME NEW d \in Device, ReadQueue(d) \/ \E c \in CandidateId : ReadCandidate(d, c)
      PROVE  SeenInv'
    <2>1. candidates' = candidates
        BY <1>4 DEF ReadQueue, ReadCandidate, allVars, reviewVars
    <2>2. \E listed \in SUBSET DOMAIN candidates :
              seen' = [seen EXCEPT ![d] = [c \in listed |-> candidates[c]]]
        BY <1>4 DEF ReadQueue, ReadCandidate, ReviewQueue
    <2>3. QED
        BY <1>2, <2>1, <2>2 DEF SeenInv
<1>5. QED
    BY <1>3, <1>4 DEF ReadNext, readVars, DecideOnSeen

LEMMA SeenRowsInvariant == ReadSpec => [](CandidateRows /\ SeenInv)
<1>1. ReadInit => SeenInv
    BY DEF ReadInit, Empty, SeenInv
<1>2. QED
    BY <1>1, StepKeepsSeen, ReadsAreReview, RowsInvariant, PTL DEF ReadSpec

\* A decision is on the very row its reviewer saw, though only the version is
\* compared.
THEOREM DecisionsAsSeen == ReadSpec => DecidedAsSeen
<1>1. CandidateRows /\ SeenInv /\ [ReadNext]_readVars =>
        [\A k \in DOMAIN events' \ DOMAIN events :
             LET c == events'[k].candidate
             IN  c \in DOMAIN seen[k[1]] /\ seen[k[1]][c] = candidates[c]]_readVars
    <2> SUFFICES ASSUME CandidateRows, SeenInv, [ReadNext]_readVars,
                        NEW k \in DOMAIN events', k \notin DOMAIN events
                 PROVE  LET c == events'[k].candidate
                        IN  c \in DOMAIN seen[k[1]] /\ seen[k[1]][c] = candidates[c]
        OBVIOUS
    <2>1. ASSUME NEW env \in Envelope, NEW s \in Submission, StoreAdvisoryCandidate(env, s)
          PROVE  FALSE
        BY <2>1 DEF StoreAdvisoryCandidate
    <2>2. ASSUME NEW d \in Device, ReadQueue(d) \/ \E c \in CandidateId : ReadCandidate(d, c)
          PROVE  FALSE
        BY <2>2 DEF ReadQueue, ReadCandidate, allVars, reviewVars
    <2>3. PICK env \in Envelope, c \in CandidateId : DecideOnSeen(env, c)
        BY <2>1, <2>2 DEF ReadNext, readVars, allVars, reviewVars
    <2>4. PICK d : d = env.key[1] /\ d \in Device
        BY DEF Envelope, Key
    <2>5. c \in DOMAIN seen[d] /\ Decide(env, c, seen[d][c].version)
        BY <2>3, <2>4 DEF DecideOnSeen
    <2>6. c \in DOMAIN candidates /\ candidates[c].version = seen[d][c].version
        BY <2>5, DecideObserves
    <2>7. PICK next, trigger, object : DecisionStep(env.key, c, next, trigger, object)
        BY <2>5, TransitionDecides, RejectDecides, AdmitDecides DEF Decide
    <2>8. k = env.key /\ events'[k].candidate = c
        <3>1. DecisionEffect(env.key, c, next, trigger, object)
            BY <2>7, DecisionStepEffect
        <3>2. DOMAIN events' = DOMAIN events \cup {env.key} /\ events'[env.key].candidate = c
            BY <3>1 DEF DecisionEffect
        <3>3. QED
            BY <3>2
    <2>9. seen[d][c] = candidates[c]
        BY <2>4, <2>5, <2>6, MaxVersionPositive DEF SeenInv
    <2>10. QED
        BY <2>4, <2>5, <2>8, <2>9
<1>2. QED
    BY <1>1, SeenRowsInvariant, PTL DEF ReadSpec, DecidedAsSeen

-----------------------------------------------------------------------------
(* The list of decisions.                                                  *)

\* A candidate's decisions so far were on earlier versions than its current.
LEMMA EarlierDecisions ==
    ASSUME CandidateRows, ReviewTables, DecisionChain, NEW k \in DOMAIN events,
           events[k].candidate \in DOMAIN candidates
    PROVE  events[k].observed < candidates[events[k].candidate].version
<1>1. PICK c : c = events[k].candidate
    OBVIOUS
<1>2. PICK s \in DOMAIN ledger : ChainFrom(c, s)
    BY <1>1 DEF DecisionChain, ChainFrom, Reached
<1>3. events[k].observed \in -ledger[s].version..(candidates[c].version - 1)
    BY <1>1, <1>2 DEF ChainFrom
<1>4. QED
    BY <1>1, <1>3, ChainNumbers, MaxVersionPositive

\* Listed by version, a new decision comes after every earlier one of its
\* candidate, whatever their timestamps say.
THEOREM EventsInOrder == ReadSpec => EventsListedInCommitOrder
<1>1. CandidateRows /\ ReviewTables /\ DecisionChain /\ [ReadNext]_readVars =>
        [\A c \in DOMAIN candidates : \A k \in ListedEvents(c)' \ ListedEvents(c) :
             \A j \in ListedEvents(c) : ListedBefore(j, k)']_readVars
    <2> SUFFICES ASSUME CandidateRows, ReviewTables, DecisionChain, [ReadNext]_readVars,
                        NEW c \in DOMAIN candidates, NEW k \in ListedEvents(c)',
                        k \notin ListedEvents(c), NEW j \in ListedEvents(c)
                 PROVE  ListedBefore(j, k)'
        OBVIOUS
    <2>1. /\ k \in DOMAIN events' /\ events'[k].candidate = c
          /\ j \in DOMAIN events /\ events[j].candidate = c
          /\ ~(k \in DOMAIN events /\ events[k].candidate = c)
        BY DEF ListedEvents
    <2>2. events' # events
        BY <2>1
    <2>3. PICK key, id, next, trigger, object : DecisionStep(key, id, next, trigger, object)
        <3>1. [ReviewNext]_allVars
            BY ReadStepIsReviewStep
        <3>2. ~(CanonicalStep \/ UNCHANGED allVars \/ \E key, s : StoreStep(key, s))
            BY <2>2 DEF CanonicalStep, allVars, reviewVars, StoreStep
        <3>3. QED
            BY <3>1, <3>2, ReviewStepShapes
    <2>4. DecisionEffect(key, id, next, trigger, object)
        BY <2>3, DecisionStepEffect
    <2>5. /\ DOMAIN events' = DOMAIN events \cup {key}
          /\ \A x \in DOMAIN events : events'[x] = events[x]
          /\ events'[key].candidate = id
          /\ events'[key].observed = candidates[id].version
        BY <2>4 DEF DecisionEffect
    <2>6. k = key /\ id = c /\ events'[j] = events[j]
        BY <2>1, <2>5
    <2>7. events[j].observed < candidates[c].version
        BY <2>1, EarlierDecisions
    <2>8. QED
        BY <2>5, <2>6, <2>7 DEF ListedBefore
<1>2. QED
    BY <1>1, ReadsAreReview, RowsInvariant, TablesInvariant, HistoryComplete, PTL
       DEF ReadSpec, EventsListedInCommitOrder

-----------------------------------------------------------------------------
(* The queue.                                                              *)

\* A rejection is for good: the candidate is rejected or archived since.
RejectionsStand ==
    \A k \in DOMAIN events : events[k].to = "rejected" =>
        candidates[events[k].candidate].state \in {"rejected", "archived"}

LEMMA StepKeepsRejections ==
    ASSUME CandidateRows, DecisionsOnCandidates, RejectionsStand, [ReviewNext]_allVars
    PROVE  RejectionsStand'
<1>1. CASE UNCHANGED reviewVars
    BY <1>1 DEF reviewVars, RejectionsStand
<1>2. ASSUME NEW key, NEW s, StoreStep(key, s)
      PROVE  RejectionsStand'
    <2>1. (\A c \in DOMAIN candidates : candidates'[c] = candidates[c]) /\ events' = events
        BY <1>2, StoreStepEffect DEF StoreEffect
    <2>2. QED
        BY <2>1 DEF RejectionsStand, DecisionsOnCandidates
<1>3. ASSUME NEW key, NEW id, NEW next, NEW trigger, NEW object,
             DecisionStep(key, id, next, trigger, object)
      PROVE  RejectionsStand'
    <2>1. DecisionEffect(key, id, next, trigger, object)
        BY <1>3, DecisionStepEffect
    <2>2. /\ id \in DOMAIN candidates
          /\ \A c \in DOMAIN candidates : c # id => candidates'[c] = candidates[c]
          /\ candidates'[id].state = next
          /\ DOMAIN events' = DOMAIN events \cup {key}
          /\ \A k \in DOMAIN events : events'[k] = events[k]
          /\ events'[key].candidate = id /\ events'[key].to = next
        BY <2>1 DEF DecisionEffect
    <2>3. candidates[id].state \in {"rejected", "archived"} => next = "archived"
        <3>1. candidates[id].state = candidates[id].payload.state
              /\ candidates[id].state \in State
            BY <2>2 DEF CandidateRows, RowMirrorsPayload, RowOf, Candidate
        <3>2. <<candidates[id].state, next>> \in Edges /\ next \in State
            BY <1>3, <3>1 DEF DecisionStep, Decides, Transition
        <3>3. QED
            BY <3>1, <3>2, Lifecycle, QueueLifecycle
    <2>4. ASSUME NEW k \in DOMAIN events', events'[k].to = "rejected"
          PROVE  candidates'[events'[k].candidate].state \in {"rejected", "archived"}
        <3>1. CASE k = key
            BY <2>2, <2>4, <3>1
        <3>2. CASE k # key
            <4>1. /\ k \in DOMAIN events /\ events'[k] = events[k]
                  /\ events[k].candidate \in DOMAIN candidates
                  /\ candidates[events[k].candidate].state \in {"rejected", "archived"}
                BY <2>2, <2>4, <3>2 DEF RejectionsStand, DecisionsOnCandidates
            <4>2. QED
                BY <2>2, <2>3, <4>1
        <3>3. QED
            BY <3>1, <3>2
    <2>5. QED
        BY <2>4 DEF RejectionsStand
<1>4. QED
    BY <1>1, <1>2, <1>3, ReviewStepShapes DEF CanonicalStep, allVars

LEMMA RejectionsInvariant == ReviewSpec => []RejectionsStand
<1>1. ReviewInit => RejectionsStand
    BY DEF ReviewInit, Empty, RejectionsStand
<1>2. CandidateRows /\ ReceiptInv /\ RejectionsStand /\ [ReviewNext]_allVars => RejectionsStand'
    BY StepKeepsRejections DEF ReceiptInv
<1>3. QED
    BY <1>1, <1>2, RowsInvariant, ReceiptInvariant, PTL DEF ReviewSpec

\* The queue, which goes by a column, is of the candidates whose payload can be
\* admitted, and no suppression names one of them.
THEOREM QueueAdmissible == ReadSpec => []QueueIsAdmissible
<1>1. CandidateRows /\ RejectionsSuppress /\ RejectionsStand => QueueIsAdmissible
    <2> SUFFICES ASSUME CandidateRows, RejectionsSuppress, RejectionsStand
                 PROVE  QueueIsAdmissible
        OBVIOUS
    <2>1. \A c \in DOMAIN candidates :
              candidates[c].state = candidates[c].payload.state /\ candidates[c].state \in State
        BY DEF CandidateRows, RowMirrorsPayload, RowOf, Candidate
    <2>2. ReviewQueue
              = {c \in DOMAIN candidates : <<candidates[c].payload.state, "admitted">> \in Edges}
        BY <2>1, QueueLifecycle DEF ReviewQueue
    <2>3. ASSUME NEW key \in SuppressionKey, NEW record \in FindSuppressionRecord(key)
          PROVE  record.candidate \notin ReviewQueue
        <3>1. key \in DOMAIN suppressions /\ record = suppressions[key]
            BY <2>3 DEF FindSuppressionRecord
        <3>2. candidates[record.candidate].state \in {"rejected", "archived"}
            BY <3>1 DEF RejectionsSuppress, RejectionsStand
        <3>3. QED
            BY <3>2 DEF ReviewQueue
    <2>4. QED
        BY <2>2, <2>3 DEF QueueIsAdmissible
<1>2. QED
    BY <1>1, ReadsAreReview, RowsInvariant, RejectionsSuppressed, RejectionsInvariant, PTL

-----------------------------------------------------------------------------
(* Places in the queue.                                                    *)

\* In a finite set under a strict total order, R[x] being those before x,
\* counting them numbers the elements from one on.
Before(S, R, x) == {y \in S \ {x} : y \in R[x]}
Rank(S, R, x) == 1 + Cardinality(Before(S, R, x))

StrictTotalOrder(S, R) ==
    /\ \A x, y \in S : x \in R[y] => y \notin R[x]
    /\ \A x, y, z \in S : x \in R[y] /\ y \in R[z] => x \in R[z]
    /\ \A x, y \in S : x = y \/ x \in R[y] \/ y \in R[x]

LEMMA RankInRange ==
    ASSUME NEW S, IsFiniteSet(S), NEW R, NEW x \in S
    PROVE  IsFiniteSet(Before(S, R, x)) /\ Rank(S, R, x) \in 1..Cardinality(S)
<1>1. /\ IsFiniteSet(S \ {x})
      /\ Cardinality(S \ {x}) = Cardinality(S) - 1
      /\ Cardinality(S) \in Nat
    BY FS_RemoveElement, FS_CardinalityType
<1>2. Before(S, R, x) \in SUBSET (S \ {x})
    BY DEF Before
<1>3. /\ IsFiniteSet(Before(S, R, x))
      /\ Cardinality(Before(S, R, x)) <= Cardinality(S \ {x})
    BY <1>1, <1>2, FS_Subset
<1>4. Cardinality(Before(S, R, x)) \in Nat
    BY <1>3, FS_CardinalityType
<1>5. QED
    BY <1>1, <1>3, <1>4 DEF Rank

LEMMA RankGrows ==
    ASSUME NEW S, IsFiniteSet(S), NEW R, StrictTotalOrder(S, R),
           NEW x \in S, NEW y \in S, x \in R[y]
    PROVE  Rank(S, R, x) < Rank(S, R, y)
<1>1. /\ IsFiniteSet(Before(S, R, x)) /\ IsFiniteSet(Before(S, R, y))
    BY RankInRange
<1>2. x \notin Before(S, R, x)
    BY DEF Before
<1>3. Before(S, R, x) \cup {x} \in SUBSET Before(S, R, y)
    BY DEF Before, StrictTotalOrder
<1>4. Cardinality(Before(S, R, x) \cup {x}) = Cardinality(Before(S, R, x)) + 1
    BY <1>1, <1>2, FS_AddElement
<1>5. Cardinality(Before(S, R, x) \cup {x}) <= Cardinality(Before(S, R, y))
    BY <1>1, <1>3, FS_Subset
<1>6. Cardinality(Before(S, R, x)) \in Nat /\ Cardinality(Before(S, R, y)) \in Nat
    BY <1>1, FS_CardinalityType
<1>7. QED
    BY <1>4, <1>5, <1>6 DEF Rank

LEMMA RanksNumber ==
    ASSUME NEW S, IsFiniteSet(S), NEW R, StrictTotalOrder(S, R)
    PROVE  {Rank(S, R, x) : x \in S} = 1..Cardinality(S)
<1> DEFINE n == Cardinality(S)
           rank == [x \in S |-> Rank(S, R, x)]
<1>1. n \in Nat
    BY FS_CardinalityType
<1>2. rank \in [S -> 1..n]
    BY RankInRange
<1>3. \A x, y \in S : x # y => rank[x] # rank[y]
    <2> SUFFICES ASSUME NEW x \in S, NEW y \in S, x \in R[y]
                 PROVE  rank[x] # rank[y]
        BY DEF StrictTotalOrder
    <2>1. Rank(S, R, x) < Rank(S, R, y)
        BY RankGrows
    <2>2. Rank(S, R, x) \in 1..n /\ Rank(S, R, y) \in 1..n
        BY RankInRange
    <2>3. QED
        BY <1>1, <2>1, <2>2
<1>4. rank \in Injection(S, 1..n)
    BY <1>2, <1>3 DEF Injection, IsInjective
<1>5. IsFiniteSet(1..n) /\ Cardinality(1..n) = n
    BY <1>1, FS_Interval
<1>6. rank \in Surjection(S, 1..n)
    BY <1>4, <1>5, FS_Injection
<1>7. \A m \in 1..n : \E x \in S : rank[x] = m
    BY <1>6 DEF Surjection
<1>8. QED
    BY <1>2, <1>7

\* Those before each candidate in the order of the queue, queued or not.
QueueOrder == [c \in DOMAIN candidates |-> {d \in DOMAIN candidates : QueuedBefore(d, c)}]

\* An absent review_order sorts first, the others as numbers.
LEMMA OrdersSorted ==
    ASSUME NEW a \in Int \cup {NoOrder}, NEW b \in Int \cup {NoOrder},
           NEW c \in Int \cup {NoOrder}
    PROVE  /\ OrderedBefore(a, b) => a # b /\ ~OrderedBefore(b, a)
           /\ OrderedBefore(a, b) /\ OrderedBefore(b, c) => OrderedBefore(a, c)
           /\ a = b \/ OrderedBefore(a, b) \/ OrderedBefore(b, a)
<1>1. CASE a = NoOrder \/ b = NoOrder \/ c = NoOrder
    BY <1>1 DEF OrderedBefore
<1>2. CASE ~(a = NoOrder \/ b = NoOrder \/ c = NoOrder)
    BY <1>2 DEF OrderedBefore
<1>3. QED
    BY <1>1, <1>2

\* QueuedBefore, of the columns and ids it compares.
LexBefore(p, i, q, j) ==
    \/ OrderedBefore(p.order, q.order)
    \/ p.order = q.order /\ p.created < q.created
    \/ p.order = q.order /\ p.created = q.created /\ i < j

LEMMA LexSorted ==
    ASSUME NEW p, NEW q, NEW r, NEW i \in Nat, NEW j \in Nat, NEW k \in Nat,
           p.order \in Int \cup {NoOrder}, q.order \in Int \cup {NoOrder},
           r.order \in Int \cup {NoOrder},
           p.created \in Nat, q.created \in Nat, r.created \in Nat,
           LexBefore(p, i, q, j)
    PROVE  /\ ~LexBefore(q, j, p, i)
           /\ LexBefore(q, j, r, k) => LexBefore(p, i, r, k)
<1>1. ~LexBefore(q, j, p, i)
    <2>1. CASE OrderedBefore(p.order, q.order)
        <3>1. p.order # q.order /\ ~OrderedBefore(q.order, p.order)
            BY <2>1, OrdersSorted
        <3>2. QED
            BY <3>1 DEF LexBefore
    <2>2. CASE ~OrderedBefore(p.order, q.order)
        <3>1. ~OrderedBefore(q.order, p.order)
            BY <2>2, OrdersSorted DEF LexBefore
        <3>2. QED
            BY <2>2, <3>1 DEF LexBefore
    <2>3. QED
        BY <2>1, <2>2
<1>2. ASSUME LexBefore(q, j, r, k)
      PROVE  LexBefore(p, i, r, k)
    <2>1. CASE OrderedBefore(p.order, q.order) \/ OrderedBefore(q.order, r.order)
        <3>1. OrderedBefore(p.order, r.order)
            BY <1>2, <2>1, OrdersSorted DEF LexBefore
        <3>2. QED
            BY <3>1 DEF LexBefore
    <2>2. CASE ~(OrderedBefore(p.order, q.order) \/ OrderedBefore(q.order, r.order))
        BY <1>2, <2>2 DEF LexBefore
    <2>3. QED
        BY <2>1, <2>2
<1>3. QED
    BY <1>1, <1>2

LEMMA LexTotal ==
    ASSUME NEW p, NEW q, NEW i \in Nat, NEW j \in Nat, i # j,
           p.order \in Int \cup {NoOrder}, q.order \in Int \cup {NoOrder},
           p.created \in Nat, q.created \in Nat
    PROVE  LexBefore(p, i, q, j) \/ LexBefore(q, j, p, i)
<1>1. CASE p.order = q.order
    BY <1>1 DEF LexBefore
<1>2. CASE p.order # q.order
    <2>1. OrderedBefore(p.order, q.order) \/ OrderedBefore(q.order, p.order)
        BY <1>2, OrdersSorted
    <2>2. QED
        BY <2>1 DEF LexBefore
<1>3. QED
    BY <1>1, <1>2

LEMMA PlaceShape ==
    ASSUME CandidateRows, NEW c \in DOMAIN candidates
    PROVE  /\ PlaceOf(c).order \in Int \cup {NoOrder}
           /\ PlaceOf(c).created \in Nat
           /\ c \in CandidateId /\ IdOrder[c] \in Nat
<1>1. candidates[c].payload.content \in Content /\ c \in CandidateId
    BY DEF CandidateRows, Candidate
<1>2. QED
    BY <1>1, PlacementShape, IdOrderIsTotal DEF PlaceOf

\* review_order, created_at and the id together leave no two candidates equal.
LEMMA QueueOrdered ==
    ASSUME CandidateRows
    PROVE  StrictTotalOrder(DOMAIN candidates, QueueOrder)
<1> DEFINE Ids == DOMAIN candidates
<1>1. ASSUME NEW x \in Ids, NEW y \in Ids, QueuedBefore(x, y)
      PROVE  ~QueuedBefore(y, x)
    <2>1. LexBefore(PlaceOf(x), IdOrder[x], PlaceOf(y), IdOrder[y])
        BY <1>1 DEF QueuedBefore, LexBefore
    <2>2. ~LexBefore(PlaceOf(y), IdOrder[y], PlaceOf(x), IdOrder[x])
        BY <2>1, PlaceShape, LexSorted
    <2>3. QED
        BY <2>2 DEF QueuedBefore, LexBefore
<1>2. ASSUME NEW x \in Ids, NEW y \in Ids, NEW z \in Ids, QueuedBefore(x, y), QueuedBefore(y, z)
      PROVE  QueuedBefore(x, z)
    <2>1. /\ LexBefore(PlaceOf(x), IdOrder[x], PlaceOf(y), IdOrder[y])
          /\ LexBefore(PlaceOf(y), IdOrder[y], PlaceOf(z), IdOrder[z])
        BY <1>2 DEF QueuedBefore, LexBefore
    <2>2. LexBefore(PlaceOf(x), IdOrder[x], PlaceOf(z), IdOrder[z])
        BY <2>1, PlaceShape, LexSorted
    <2>3. QED
        BY <2>2 DEF QueuedBefore, LexBefore
<1>3. ASSUME NEW x \in Ids, NEW y \in Ids
      PROVE  x = y \/ QueuedBefore(x, y) \/ QueuedBefore(y, x)
    <2>1. IdOrder[x] = IdOrder[y] => x = y
        BY PlaceShape, IdOrderIsTotal
    <2>2. x # y => \/ LexBefore(PlaceOf(x), IdOrder[x], PlaceOf(y), IdOrder[y])
                   \/ LexBefore(PlaceOf(y), IdOrder[y], PlaceOf(x), IdOrder[x])
        BY <2>1, PlaceShape, LexTotal
    <2>3. QED
        BY <2>2 DEF QueuedBefore, LexBefore
<1>4. \A x, y \in Ids : x \in QueueOrder[y] <=> QueuedBefore(x, y)
    BY DEF QueueOrder
<1>5. QED
    BY <1>1, <1>2, <1>3, <1>4 DEF StrictTotalOrder

LEMMA QueuePlaceIsRank ==
    ASSUME NEW c \in ReviewQueue
    PROVE  QueuePlace(c) = Rank(ReviewQueue, QueueOrder, c)
<1>1. ReviewQueue \subseteq DOMAIN candidates
    BY DEF ReviewQueue
<1>2. Before(ReviewQueue, QueueOrder, c) = {d \in ReviewQueue \ {c} : QueuedBefore(d, c)}
    BY <1>1 DEF Before, QueueOrder
<1>3. QED
    BY <1>2 DEF Rank, QueuePlace

\* Finitely many candidates are ever stored.
FiniteInv == IsFiniteSet(DOMAIN candidates)

LEMMA FinitelyManyCandidates == ReviewSpec => []FiniteInv
<1>1. ReviewInit => FiniteInv
    BY FS_EmptySet DEF ReviewInit, Empty, FiniteInv
<1>2. CandidateRows /\ FiniteInv /\ [ReviewNext]_allVars => FiniteInv'
    <2> SUFFICES ASSUME CandidateRows, FiniteInv, [ReviewNext]_allVars
                 PROVE  IsFiniteSet(DOMAIN candidates')
        BY DEF FiniteInv
    <2>1. ASSUME NEW key, NEW s, StoreStep(key, s)
          PROVE  DOMAIN candidates' = DOMAIN candidates \cup {s.id}
        BY <2>1, StoreStepEffect DEF StoreEffect
    <2>2. ASSUME NEW key, NEW id, NEW next, NEW trigger, NEW object,
                 DecisionStep(key, id, next, trigger, object)
          PROVE  DOMAIN candidates' = DOMAIN candidates
        BY <2>2, DecisionStepEffect DEF DecisionEffect
    <2>3. \/ DOMAIN candidates' = DOMAIN candidates
          \/ \E id : DOMAIN candidates' = DOMAIN candidates \cup {id}
        BY <2>1, <2>2, ReviewStepShapes DEF CanonicalStep, allVars, reviewVars
    <2>4. QED
        BY <2>3, FS_AddElement DEF FiniteInv
<1>3. QED
    BY <1>1, <1>2, RowsInvariant, PTL DEF ReviewSpec

\* Where nothing joins the queue, what is before a candidate that stays is what
\* was there before: decisions change neither review_order nor created_at.
LEMMA StayersMoveUp ==
    ASSUME CandidateRows, FiniteInv, [ReviewNext]_allVars, ReviewQueue' \subseteq ReviewQueue,
           NEW c \in ReviewQueue, c \in ReviewQueue'
    PROVE  ~(QueuePlace(c)' > QueuePlace(c))
<1> DEFINE ahead == {d \in ReviewQueue \ {c} : QueuedBefore(d, c)}
<1>1. ReviewQueue \subseteq DOMAIN candidates
    BY DEF ReviewQueue
<1>2. \A d \in ReviewQueue : PlaceOf(d)' = PlaceOf(d)
    BY <1>1, VersionsGrow DEF PlaceOf
<1>3. \A d \in ReviewQueue : QueuedBefore(d, c)' <=> QueuedBefore(d, c)
    BY <1>2 DEF QueuedBefore
<1>4. ahead' \in SUBSET ahead
    BY <1>3
<1>5. IsFiniteSet(ahead)
    <2>1. ahead \in SUBSET DOMAIN candidates
        BY <1>1
    <2>2. QED
        BY <2>1, FS_Subset DEF FiniteInv
<1> HIDE DEF ahead
<1>6. /\ IsFiniteSet(ahead') /\ Cardinality(ahead') <= Cardinality(ahead)
    BY <1>4, <1>5, FS_Subset
<1>7. Cardinality(ahead') \in Nat /\ Cardinality(ahead) \in Nat
    BY <1>5, <1>6, FS_CardinalityType
<1>8. QED
    BY <1>6, <1>7 DEF QueuePlace, ahead

\* Each place of the queue has exactly one candidate, whatever orders and times
\* are missing or equal, and only a newcomer moves one that stays back.
THEOREM QueuePlacesHold == ReadSpec => QueuePlacesAreStable
<1>1. CandidateRows /\ FiniteInv
        => {QueuePlace(c) : c \in ReviewQueue} = 1..Cardinality(ReviewQueue)
    <2> SUFFICES ASSUME CandidateRows, FiniteInv
                 PROVE  {QueuePlace(c) : c \in ReviewQueue} = 1..Cardinality(ReviewQueue)
        OBVIOUS
    <2>1. ReviewQueue \in SUBSET DOMAIN candidates
        BY DEF ReviewQueue
    <2>2. IsFiniteSet(ReviewQueue)
        BY <2>1, FS_Subset DEF FiniteInv
    <2>3. StrictTotalOrder(ReviewQueue, QueueOrder)
        BY <2>1, QueueOrdered DEF StrictTotalOrder
    <2>4. {Rank(ReviewQueue, QueueOrder, c) : c \in ReviewQueue} = 1..Cardinality(ReviewQueue)
        BY <2>2, <2>3, RanksNumber
    <2>5. QED
        BY <2>4, QueuePlaceIsRank
<1>2. CandidateRows /\ FiniteInv /\ [ReviewNext]_allVars
        => \A c \in ReviewQueue \cap ReviewQueue' :
               QueuePlace(c)' > QueuePlace(c) => ReviewQueue' \ ReviewQueue # {}
    <2> SUFFICES ASSUME CandidateRows, FiniteInv, [ReviewNext]_allVars,
                        NEW c \in ReviewQueue, c \in ReviewQueue',
                        ReviewQueue' \ ReviewQueue = {}
                 PROVE  ~(QueuePlace(c)' > QueuePlace(c))
        OBVIOUS
    <2>1. QED
        BY StayersMoveUp
<1>3. QED
    BY <1>1, <1>2, ReadStepIsReviewStep, ReadsAreReview, RowsInvariant, FinitelyManyCandidates, PTL
       DEF ReadSpec, QueuePlacesAreStable
=============================================================================
