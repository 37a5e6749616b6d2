------------------------------ MODULE WebProofs ------------------------------
(***************************************************************************)
(* Proofs about the safety reads of a foreign import (ForeignSafety), the  *)
(* rate limiter (RateLimiter) and the status polls (StatusPolls), for any  *)
(* number of requests, clients, slots and records.                         *)
(***************************************************************************)
EXTENDS RateLimiter, StatusPolls, ForeignSafety, FiniteSetTheorems, TLAPS

-----------------------------------------------------------------------------
(* The safety reads. *)

ProofTypes ==
    /\ onDisks \in Configurations
    /\ progress \in [Posts -> Stages] /\ reviewed \in [Posts -> Configurations]
    /\ DOMAIN confirmed = Posts /\ DOMAIN firstSeen = Posts /\ DOMAIN unasked = Posts
    /\ DOMAIN quiet = Posts /\ DOMAIN lastFound = Posts

\* What a request confirms is the digest of what its page showed.
ConfirmsReviewed(r) ==
    progress[r] # "idle" => reviewed[r] # NoConfig /\ confirmed[r] = Digest(reviewed[r])

\* The drives asked so far, in the end all of them, were not rebuilding in the
\* first inventory.
AskedIdle(r) ==
    /\ progress[r] = "foreign" => unasked[r] = Slots
    /\ progress[r] = "rebuilds" => \A s \in Slots \ unasked[r] : firstSeen[r][s].state # "Rbld"
    /\ progress[r] = "again" => \A s \in Slots : firstSeen[r][s].state # "Rbld"

\* What the later stages stand on.
Proved(r) ==
    /\ progress[r] \in {"last", "ready", "sent"} => quiet[r]
    /\ progress[r] \in {"ready", "sent"} => lastFound[r] = reviewed[r]

ForeignInv ==
    ProofTypes /\ \A r \in Posts : ConfirmsReviewed(r) /\ AskedIdle(r) /\ Proved(r)

\* Two configurations with one digest are the same (_foreign_metadata_digest).
LEMMA DigestIdentifies ==
    ASSUME NEW c \in Configurations, NEW d \in Configurations,
           c # NoConfig, d # NoConfig, Digest(c) = Digest(d)
    PROVE  c = d
<1>1. /\ c \in [shape : Shapes, members : Members]
      /\ d \in [shape : Shapes, members : Members]
  BY DEF Configurations
<1>2. c.shape = d.shape /\ c.members = d.members
  BY DEF Digest
<1> QED
  BY <1>1, <1>2

\* The invariant holds before any request has come.
LEMMA ForeignStarts == ForeignInit => ForeignInv
  BY DEF ForeignInit, ForeignInv, ProofTypes, ConfirmsReviewed, AskedIdle, Proved, Configurations,
         Stages

\* What the controller does leaves every request where it is.
LEMMA ControllerKeeps ==
    ASSUME ForeignInv, UNCHANGED <<progress, proofVars>>, onDisks' \in Configurations
    PROVE  ForeignInv'
  BY DEF ForeignInv, ProofTypes, ConfirmsReviewed, AskedIdle, Proved, proofVars

\* One lemma for all the steps of a request: where it goes decides what is kept.
LEMMA RequestKeeps ==
    ASSUME ForeignInv, NEW r \in Posts,
           \/ Review(r) \/ HandlerReads(r) \/ FirstInventory(r) \/ FirstEvidence(r)
           \/ SecondInventory(r) \/ LastEvidence(r) \/ ReadRefused(r) \/ SendForeign(r)
           \/ \E s \in Slots : AskRebuild(r, s)
    PROVE  ForeignInv'
<1> USE DEF ForeignInv, ProofTypes, ConfirmsReviewed, AskedIdle, Proved, proofVars, At, To, Step,
            Stages
<1>1. CASE Review(r)
  BY <1>1 DEF Review
<1>2. CASE HandlerReads(r)
  BY <1>2 DEF HandlerReads
<1>3. CASE FirstInventory(r)
  BY <1>3 DEF FirstInventory
<1>4. CASE FirstEvidence(r)
  BY <1>4 DEF FirstEvidence
<1>5. CASE SecondInventory(r)
  BY <1>5 DEF SecondInventory, SameInventory
<1>6. CASE LastEvidence(r)
  BY <1>6, DigestIdentifies DEF LastEvidence, Evidence
<1>7. CASE ReadRefused(r)
  BY <1>7 DEF ReadRefused
<1>8. CASE SendForeign(r)
  BY <1>8 DEF SendForeign, Configurations
<1>9. ASSUME NEW s \in Slots, AskRebuild(r, s)
      PROVE  ForeignInv'
  BY <1>9 DEF AskRebuild
<1> QED
  BY <1>1, <1>2, <1>3, <1>4, <1>5, <1>6, <1>7, <1>8, <1>9

\* A foreign configuration is imported or cleared only after an instant without any
\* rebuild, and only the one that was reviewed, for any number of requests and slots.
THEOREM ForeignWritesProved == ForeignSpec => []ForeignSafetyProved
<1>1. ForeignInv /\ [ForeignNext]_foreignVars => ForeignInv'
  <2> SUFFICES ASSUME ForeignInv, [ForeignNext]_foreignVars
               PROVE  ForeignInv'
    OBVIOUS
  <2>1. CASE ConfigChanges
    BY <2>1, ControllerKeeps DEF ConfigChanges
  <2>2. ASSUME NEW s \in Slots, RebuildStarts(s) \/ RebuildEnds(s) \/ Swap(s)
        PROVE  ForeignInv'
    BY <2>2, ControllerKeeps DEF RebuildStarts, RebuildEnds, Swap, NowIs, ForeignInv, ProofTypes
  <2>3. CASE UNCHANGED foreignVars
    BY <2>3, ControllerKeeps DEF foreignVars, proofVars, ForeignInv, ProofTypes
  <2> QED
    BY <2>1, <2>2, <2>3, RequestKeeps DEF ForeignNext
<1>2. ForeignInv => ForeignSafetyProved
  BY DEF ForeignInv, Proved, ForeignSafetyProved
<1> QED
  BY ForeignStarts, <1>1, <1>2, PTL DEF ForeignSpec

-----------------------------------------------------------------------------
(* The rate limiter. *)

LimiterTypes ==
    /\ now \in Nat /\ held \subseteq Attempts /\ nextPrune \in Nat
    /\ phase \in [Attempts -> Phases] /\ client \in [Attempts -> Clients]
    /\ arrived \in [Attempts -> Nat]

\* Slots belong to requests that failed or have no verdict yet, and those that are
\* not a window old all have theirs.
SlotsMatch ==
    \A a \in Attempts :
        /\ a \in held => phase[a] \in {"reserved", "failed"}
        /\ phase[a] \in {"reserved", "failed"} /\ ~Expired(a) => a \in held

\* No client has more slots than the limit, expired ones included.
SlotsBounded == \A c \in Clients : Cardinality(OfClient(held, c)) <= Limit

LimiterInv == LimiterTypes /\ SlotsMatch /\ SlotsBounded

\* Fewer slots are still within the limit.
LEMMA FewerSlots ==
    ASSUME NEW S \in SUBSET Attempts, NEW T \in SUBSET S
    PROVE  /\ IsFiniteSet(T) /\ IsFiniteSet(S)
           /\ Cardinality(T) \in Nat /\ Cardinality(S) \in Nat
           /\ Cardinality(T) <= Cardinality(S)
  BY LimiterAssumption, FS_Subset, FS_CardinalityType

\* The limiter begins without slots.
LEMMA LimiterStarts == LimiterInit => LimiterInv
<1> SUFFICES ASSUME LimiterInit PROVE LimiterInv
  OBVIOUS
<1>1. LimiterTypes /\ SlotsMatch
  BY LimiterAssumption DEF LimiterInit, LimiterTypes, SlotsMatch, Phases
<1>2. \A c \in Clients : OfClient(held, c) = {}
  BY DEF LimiterInit, OfClient
<1>3. SlotsBounded
  BY <1>2, FS_EmptySet, LimiterAssumption DEF SlotsBounded
<1> QED
  BY <1>1, <1>3 DEF LimiterInv

\* A request that comes is counted after its client's expired slots are gone.
LEMMA ArriveKeeps ==
    ASSUME LimiterInv, NEW a \in Attempts, Arrive(a)
    PROVE  LimiterInv'
<1> USE DEF LimiterInv
<1> DEFINE c == client[a]
<1>1. Kept(c) \subseteq held /\ now' = now /\ client' = client
  BY DEF Kept, Arrive
<1>2. LimiterTypes'
  BY <1>1, LimiterAssumption DEF LimiterTypes, Arrive, Phases
<1>3. SlotsMatch'
  <2>1. \A b \in Attempts \ {a} : arrived'[b] = arrived[b] /\ phase'[b] = phase[b]
    BY DEF LimiterTypes, Arrive
  <2>2. \A b \in Attempts : b \in held /\ ~Expired(b) => b \in Kept(c)
    BY DEF Kept
  <2>3. a \notin held
    BY DEF SlotsMatch, Arrive
  <2>4. \A b \in Attempts \ {a} : Expired(b)' <=> Expired(b)
    BY <2>1, <1>1 DEF Expired
  <2>5. \A b \in Attempts \ {a} : b \in held' <=> b \in Kept(c)
    BY DEF Arrive
  <2>6. \/ phase'[a] = "limited" /\ a \notin held'
        \/ phase'[a] = "reserved" /\ a \in held'
    BY <2>3, <1>1 DEF Arrive, LimiterTypes
  <2> QED
    BY <1>1, <2>1, <2>2, <2>4, <2>5, <2>6 DEF SlotsMatch
<1>4. SlotsBounded'
  <2> SUFFICES ASSUME NEW d \in Clients
               PROVE  Cardinality(OfClient(held, d)') <= Limit
    BY DEF SlotsBounded
  <2>1. /\ OfClient(held, d)' \in SUBSET Attempts
        /\ OfClient(held, d) \in SUBSET Attempts
    BY <1>2 DEF OfClient, LimiterTypes
  <2>2. CASE OfClient(held, d)' \subseteq OfClient(held, d)
    BY <2>1, <2>2, FewerSlots, LimiterAssumption DEF SlotsBounded
  <2>3. CASE ~(OfClient(held, d)' \subseteq OfClient(held, d))
    <3>1. /\ c = d /\ held' = Kept(c) \cup {a}
          /\ Cardinality(OfClient(Kept(c), c)) < Limit
      BY <2>3, <1>1 DEF OfClient, Arrive
    <3>2. OfClient(held, d)' = OfClient(Kept(c), c) \cup {a}
      BY <3>1, <1>1 DEF OfClient
    <3>3. OfClient(Kept(c), c) \in SUBSET Attempts
      BY <1>1 DEF OfClient, LimiterTypes
    <3>4. /\ IsFiniteSet(OfClient(Kept(c), c))
          /\ Cardinality(OfClient(Kept(c), c)) \in Nat
      BY <3>3, FewerSlots
    <3>5. Cardinality(OfClient(Kept(c), c) \cup {a}) <= Cardinality(OfClient(Kept(c), c)) + 1
      BY <3>4, FS_AddElement
    <3>6. Cardinality(OfClient(held, d)') \in Nat
      BY <2>1, FewerSlots
    <3> DEFINE n == Cardinality(OfClient(Kept(c), c))
               k == Cardinality(OfClient(held, d)')
    <3>7. k <= n + 1
      BY <3>2, <3>5, Zenon
    <3>8. n \in Nat /\ n < Limit /\ k \in Nat
      BY <3>1, <3>4, <3>6
    <3> HIDE DEF n, k
    <3>9. k <= Limit
      BY <3>7, <3>8, LimiterAssumption
    <3> QED
      BY <3>9 DEF k
  <2> QED
    BY <2>2, <2>3
<1> QED
  BY <1>2, <1>3, <1>4

\* Every other step takes slots away, or leaves them, or lets time pass.
LEMMA OtherLimiterSteps ==
    ASSUME LimiterInv,
           \/ Tick \/ UNCHANGED limiterVars
           \/ \E a \in Attempts : VerdictValid(a) \/ VerdictInvalid(a) \/ Dropped(a) \/ Answered(a)
    PROVE  LimiterInv'
<1> USE DEF LimiterInv
<1>1. held' \subseteq held /\ client' = client
  BY DEF Tick, limiterVars, VerdictValid, VerdictInvalid, Dropped, Answered, Release, Becomes
<1>2. LimiterTypes' /\ SlotsMatch'
  <2> USE DEF LimiterTypes, SlotsMatch, Expired, Release, Becomes, Phases
  <2>1. CASE Tick
    BY <2>1, LimiterAssumption DEF Tick
  <2>2. CASE UNCHANGED limiterVars
    BY <2>2 DEF limiterVars
  <2>3. ASSUME NEW a \in Attempts, VerdictValid(a) \/ Dropped(a)
        PROVE  LimiterTypes' /\ SlotsMatch'
    BY <2>3 DEF VerdictValid, Dropped
  <2>4. ASSUME NEW a \in Attempts, VerdictInvalid(a)
        PROVE  LimiterTypes' /\ SlotsMatch'
    BY <2>4 DEF VerdictInvalid
  <2>5. ASSUME NEW a \in Attempts, Answered(a)
        PROVE  LimiterTypes' /\ SlotsMatch'
    BY <2>5 DEF Answered
  <2> QED
    BY <2>1, <2>2, <2>3, <2>4, <2>5
<1>3. SlotsBounded'
  <2> SUFFICES ASSUME NEW d \in Clients
               PROVE  Cardinality(OfClient(held, d)') <= Limit
    BY DEF SlotsBounded
  <2>1. /\ OfClient(held, d)' \subseteq OfClient(held, d)
        /\ OfClient(held, d) \in SUBSET Attempts
    BY <1>1 DEF OfClient, LimiterTypes
  <2> QED
    BY <2>1, FewerSlots, LimiterAssumption DEF SlotsBounded
<1> QED
  BY <1>2, <1>3

\* The invariant of the rate limiter.
LEMMA LimiterInvariant == LimiterSpec => []LimiterInv
<1>1. LimiterInv /\ [LimiterNext]_limiterVars => LimiterInv'
  BY ArriveKeeps, OtherLimiterSteps DEF LimiterNext
<1> QED
  BY LimiterStarts, <1>1, PTL DEF LimiterSpec

\* A client has at most Limit attempts within a window that failed or may yet fail.
THEOREM LimiterBounds == LimiterSpec => []AttemptsBounded
<1>1. LimiterInv => AttemptsBounded
  <2> SUFFICES ASSUME LimiterInv, NEW c \in Clients
               PROVE  Cardinality(Spent(c)) <= Limit
    BY DEF AttemptsBounded
  <2>1. Spent(c) \subseteq OfClient(held, c) /\ OfClient(held, c) \in SUBSET Attempts
    BY DEF LimiterInv, LimiterTypes, SlotsMatch, Spent, OfClient
  <2> QED
    BY <2>1, FewerSlots, LimiterAssumption DEF LimiterInv, SlotsBounded
<1> QED
  BY LimiterInvariant, <1>1, PTL

\* A request is turned away only when that many attempts of its client are spent.
THEOREM LimiterIsFair == LimiterSpec => LimitedOnlyWhenSpent
<1>1. LimiterInv /\ [LimiterNext]_limiterVars => [\A a \in Attempts : LimitedNow(a)]_limiterVars
  <2> SUFFICES ASSUME LimiterInv, LimiterNext, NEW a \in Attempts,
                      phase[a] # "limited", phase'[a] = "limited"
               PROVE  Cardinality(Spent(client[a])) >= Limit
    BY DEF LimitedNow
  <2> DEFINE c == client[a]
  <2>1. Arrive(a) /\ Cardinality(OfClient(Kept(c), c)) >= Limit
    BY DEF LimiterNext, Arrive, Tick, VerdictValid, VerdictInvalid, Dropped, Answered, Becomes,
           LimiterInv, LimiterTypes
  <2>2. OfClient(Kept(c), c) \subseteq Spent(c) /\ Spent(c) \in SUBSET Attempts
    BY DEF OfClient, Kept, Spent, LimiterInv, LimiterTypes, SlotsMatch
  <2> QED
    BY <2>1, <2>2, FewerSlots, LimiterAssumption
<1> QED
  BY LimiterInvariant, <1>1, PTL DEF LimiterSpec, LimitedOnlyWhenSpent
-----------------------------------------------------------------------------
(* The status polls. *)

PollTypes ==
    /\ rebuild \in {"running", "complete"}
    /\ cycleLog \in Seq({"insert", "running", "complete"})
    /\ ccLog \in Seq({"detected", "resolved"})
    /\ at \in [Pages -> Steps] /\ saw \in [Pages -> Seen] /\ latest \in [Pages -> Nat]

\* Who has read the log of the slot for its record has the write lock, so that
\* what it has read is still the log.
LogIsLocked(p) ==
    /\ at[p] = "once" => writer = p /\ latest[p] = Len(cycleLog)
    /\ at[p] \in {"rebuild", "once"} => saw[p] \in {"running", "complete"}

\* The consistency check log only grows after the query.
QueryIsOlder(p) == at[p] = "compared" => latest[p] <= Len(ccLog)

\* There is a newest insert: CycleStart finds it.
Opened == \E i \in 1..Len(cycleLog) :
             cycleLog[i] = "insert" /\ \A j \in (i + 1)..Len(cycleLog) : cycleLog[j] # "insert"

PollInv ==
    /\ PollTypes /\ Opened /\ OncePerCycle
    /\ \A p \in Pages : LogIsLocked(p) /\ QueryIsOlder(p)

\* The slot has been opened by its first insert.
LEMMA PollStarts == PollInit => PollInv
  BY DEF PollInit, PollInv, PollTypes, LogIsLocked, QueryIsOlder, Opened, OncePerCycle, Steps, Seen

\* Steps that leave the log of the slot alone.
LEMMA ReadingKeeps ==
    ASSUME PollInv,
           \/ ControllerMoves \/ UNCHANGED pollVars
           \/ \E p \in Pages : \/ ReadRebuild(p) \/ BeginImmediate(p) \/ PollFails(p)
                               \/ ReadCheck(p) \/ CompareLatest(p) \/ RecordCheck(p)
    PROVE  PollInv'
<1> USE DEF PollInv
<1>1. cycleLog' = cycleLog
  BY DEF ControllerMoves, pollVars, ReadRebuild, BeginImmediate, PollFails, ReadCheck,
         CompareLatest, RecordCheck
<1>2. Opened' /\ OncePerCycle'
  BY <1>1 DEF Opened, OncePerCycle
<1>3. PollTypes' /\ \A p \in Pages : LogIsLocked(p)' /\ QueryIsOlder(p)'
  <2> USE PollAssumption DEF PollTypes, LogIsLocked, QueryIsOlder, pageVars, Ends, Steps, Seen
  <2>1. CASE ControllerMoves
    BY <2>1 DEF ControllerMoves
  <2>2. CASE UNCHANGED pollVars
    BY <2>2 DEF pollVars
  <2>3. ASSUME NEW p \in Pages, ReadRebuild(p)
        PROVE  PollTypes' /\ \A q \in Pages : LogIsLocked(q)' /\ QueryIsOlder(q)'
    BY <2>3 DEF ReadRebuild
  <2>4. ASSUME NEW p \in Pages, BeginImmediate(p)
        PROVE  PollTypes' /\ \A q \in Pages : LogIsLocked(q)' /\ QueryIsOlder(q)'
    BY <2>4 DEF BeginImmediate
  <2>5. ASSUME NEW p \in Pages, PollFails(p)
        PROVE  PollTypes' /\ \A q \in Pages : LogIsLocked(q)' /\ QueryIsOlder(q)'
    BY <2>5 DEF PollFails
  <2>6. ASSUME NEW p \in Pages, ReadCheck(p)
        PROVE  PollTypes' /\ \A q \in Pages : LogIsLocked(q)' /\ QueryIsOlder(q)'
    BY <2>6 DEF ReadCheck
  <2>7. ASSUME NEW p \in Pages, CompareLatest(p)
        PROVE  PollTypes' /\ \A q \in Pages : LogIsLocked(q)' /\ QueryIsOlder(q)'
    BY <2>7 DEF CompareLatest
  <2>8. ASSUME NEW p \in Pages, RecordCheck(p)
        PROVE  PollTypes' /\ \A q \in Pages : LogIsLocked(q)' /\ QueryIsOlder(q)'
    BY <2>8 DEF RecordCheck
  <2> QED
    BY <2>1, <2>2, <2>3, <2>4, <2>5, <2>6, <2>7, <2>8
<1> QED
  BY <1>2, <1>3

\* The next insert waits for the write lock and opens a cycle.
LEMMA InsertKeeps ==
    ASSUME PollInv, NextCycle
    PROVE  PollInv'
<1> USE DEF PollInv, NextCycle
<1>1. /\ Len(cycleLog') = Len(cycleLog) + 1 /\ cycleLog'[Len(cycleLog) + 1] = "insert"
      /\ \A i \in 1..Len(cycleLog) : cycleLog'[i] = cycleLog[i]
      /\ cycleLog' \in Seq({"insert", "running", "complete"})
  BY DEF PollTypes
<1>2. PollTypes' /\ \A p \in Pages : LogIsLocked(p)' /\ QueryIsOlder(p)'
  BY <1>1, PollAssumption DEF PollTypes, LogIsLocked, QueryIsOlder, pageVars
<1>3. Opened'
  BY <1>1 DEF Opened, PollTypes
<1>4. OncePerCycle'
  BY <1>1 DEF OncePerCycle, PollTypes
<1> QED
  BY <1>2, <1>3, <1>4

\* A record is appended only when the cycle, as the lock holder has read it, has
\* none of its kind.
LEMMA OnceKeeps ==
    ASSUME PollInv, NEW p \in Pages, RecordOnce(p)
    PROVE  PollInv'
<1> USE DEF PollInv
<1> DEFINE n == Len(cycleLog)
           start == CycleStart(n)
<1>1. /\ writer = p /\ latest[p] = n /\ saw[p] \in {"running", "complete"} /\ n \in Nat
      /\ \A q \in Pages \ {p} : at[q] # "once"
  BY DEF RecordOnce, LogIsLocked, PollTypes
<1>2. /\ start \in 1..n /\ cycleLog[start] = "insert"
      /\ \A j \in (start + 1)..n : cycleLog[j] # "insert"
  BY DEF CycleStart, Opened
<1>3. CASE cycleLog' = cycleLog
  <2>1. PollTypes' /\ \A q \in Pages : LogIsLocked(q)' /\ QueryIsOlder(q)'
    BY <1>1, <1>3, PollAssumption DEF RecordOnce, PollTypes, LogIsLocked, QueryIsOlder, Ends, Steps, Seen
  <2> QED
    BY <1>3, <2>1 DEF Opened, OncePerCycle
<1>4. CASE ~RecordedSince(n, saw[p]) /\ cycleLog' = Append(cycleLog, saw[p])
  <2>1. /\ Len(cycleLog') = n + 1 /\ cycleLog'[n + 1] = saw[p]
        /\ \A i \in 1..n : cycleLog'[i] = cycleLog[i]
        /\ cycleLog' \in Seq({"insert", "running", "complete"})
    BY <1>1, <1>4 DEF PollTypes
  <2>2. PollTypes' /\ \A q \in Pages : LogIsLocked(q)' /\ QueryIsOlder(q)'
    BY <1>1, <2>1, PollAssumption DEF RecordOnce, PollTypes, LogIsLocked, QueryIsOlder, Ends, Steps, Seen
  <2>3. Opened'
    <3>1. start \in 1..Len(cycleLog') /\ cycleLog'[start] = "insert"
      BY <1>1, <1>2, <2>1
    <3>2. ASSUME NEW j \in (start + 1)..Len(cycleLog')
          PROVE  cycleLog'[j] # "insert"
      <4>1. j = n + 1 \/ j \in (start + 1)..n
        BY <1>1, <1>2, <2>1
      <4> QED
        BY <1>1, <1>2, <2>1, <4>1
    <3> QED
      BY <3>1, <3>2, Zenon DEF Opened
  <2>4. \A i \in 1..n : cycleLog[i] = saw[p] => i < start
    BY <1>1, <1>2, <1>4 DEF RecordedSince
  <2>5. OncePerCycle'
    <3> SUFFICES ASSUME NEW i \in 1..(n + 1), NEW j \in 1..(n + 1),
                        i < j, cycleLog'[i] = cycleLog'[j], cycleLog'[i] # "insert"
                 PROVE  \E k \in (i + 1)..(j - 1) : cycleLog'[k] = "insert"
      BY <2>1 DEF OncePerCycle
    <3>1. CASE j = n + 1
      <4>1. i < start /\ start \in (i + 1)..(j - 1)
        BY <1>1, <1>2, <2>1, <2>4, <3>1
      <4> QED
        BY <1>2, <2>1, <4>1
    <3>2. CASE j # n + 1
      <4>1. i \in 1..n /\ j \in 1..n
        BY <1>1, <3>2
      <4>2. PICK k \in (i + 1)..(j - 1) : cycleLog[k] = "insert"
        BY <2>1, <4>1 DEF OncePerCycle
      <4> QED
        BY <1>1, <2>1, <4>1, <4>2
    <3> QED
      BY <3>1, <3>2
  <2> QED
    BY <2>2, <2>3, <2>5
<1> QED
  BY <1>1, <1>3, <1>4 DEF RecordOnce

\* The invariant of the polls.
LEMMA PollInvariant == PollSpec => []PollInv
<1>1. PollInv /\ [PollNext]_pollVars => PollInv'
  BY ReadingKeeps, InsertKeeps, OnceKeeps DEF PollNext
<1> QED
  BY PollStarts, <1>1, PTL DEF PollSpec

\* For any number of pages and cycles there is at most one record of each kind
\* between two inserts.
THEOREM RecordedOncePerCycle == PollSpec => []OncePerCycle
<1>1. PollInv => OncePerCycle
  BY DEF PollInv
<1> QED
  BY PollInvariant, <1>1, PTL

\* The consistency check log repeats itself only after a poll that was overtaken.
THEOREM RepeatsAreOvertaken == PollSpec => RepeatOnlyWhenOvertaken
<1>1. PollInv /\ [PollNext]_pollVars
      => [\A p \in Pages : RepeatedNow(p) => latest[p] < Len(ccLog)]_pollVars
  <2> SUFFICES ASSUME PollInv, PollNext, NEW p \in Pages, RepeatedNow(p)
               PROVE  latest[p] < Len(ccLog)
    OBVIOUS
  <2>1. PICK q \in Pages : RecordCheck(q)
    BY DEF PollNext, RepeatedNow, ControllerMoves, NextCycle, ReadRebuild, BeginImmediate,
           RecordOnce, PollFails, ReadCheck, CompareLatest
  <2>2. q = p
    BY <2>1 DEF RecordCheck, RepeatedNow, Ends, PollInv, PollTypes
  <2>3. /\ Due(p) /\ latest[p] \in Nat /\ latest[p] <= Len(ccLog) /\ Len(ccLog) \in Nat
        /\ ccLog' = Append(ccLog, IF saw[p] = "bad" THEN "detected" ELSE "resolved")
    BY <2>1, <2>2 DEF RecordCheck, RepeatedNow, PollInv, PollTypes, QueryIsOlder
  <2>4. ccLog'[Len(ccLog')] = IF saw[p] = "bad" THEN "detected" ELSE "resolved"
    BY <2>3 DEF PollInv, PollTypes
  <2>5. ASSUME latest[p] = Len(ccLog) PROVE FALSE
    BY <2>3, <2>4, <2>5 DEF RepeatedNow, Due, LatestIs
  <2> QED
    BY <2>3, <2>5
<1> QED
  BY PollInvariant, <1>1, PTL DEF PollSpec, RepeatOnlyWhenOvertaken
=============================================================================
