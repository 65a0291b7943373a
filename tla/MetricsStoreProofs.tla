------------------------- MODULE MetricsStoreProofs -------------------------
(***************************************************************************)
(* For every set of threads, features and latencies, every number of calls *)
(* and both switching disciplines: MetricsStore keeps its types, record    *)
(* excludes itself and counts every outcome exactly once (it implements    *)
(* OutcomeCounters), and the unlocked reads of score see a sane rate and a *)
(* sane average.                                                           *)
(***************************************************************************)
EXTENDS MetricsStore, TLAPS

\* Whoever is inside the "with" block of record holds the lock, and only it.
MutexInv ==
  \A t \in Threads : pc[t] \in RecordPC <=> lock = t

\* What the thread inside record knows: the value it loaded is still the
\* attribute's value, and it reaches the later attributes only on a success.
HolderInv ==
  \A t \in Threads :
    /\ pc[t] = "store" => reg[t] = m[job[t].feature][field[t]]
    /\ pc[t] \in {"load", "store"} /\ field[t] # "invocations" => job[t].success
    /\ pc[t] \notin RecordPC => field[t] = "invocations"

\* A thread owes feature f a success: it has counted the invocation only.
OwesSuccess(t, f) ==
  pc[t] \in {"load", "store"} /\ job[t].feature = f /\ field[t] = "successes"

\* A thread owes feature f a latency: it has counted the success.
OwesLatency(t, f) ==
  pc[t] \in {"load", "store"} /\ job[t].feature = f /\ field[t] = "total_latency_ms"

\* The attributes are consistent with each other even in mid-update.
CountersInv ==
  \A f \in Features :
    /\ m[f]["successes"] <= m[f]["invocations"]
    /\ m[f]["total_latency_ms"] <= MaxLatency * m[f]["successes"]
    /\ \A t \in Threads :
         /\ OwesSuccess(t, f) => m[f]["successes"] + 1 <= m[f]["invocations"]
         /\ OwesLatency(t, f) =>
              m[f]["total_latency_ms"] + MaxLatency <= MaxLatency * m[f]["successes"]

\* What a score has read so far is bounded by counters that only grow.
ReaderInv ==
  \A t \in Threads :
    /\ pc[t] \in {"succ", "inv"} => m[job[t].feature]["invocations"] > 0
    /\ pc[t] = "inv" => seen[t].succ <= m[job[t].feature]["invocations"]
    /\ pc[t] \in {"total", "div"} => m[job[t].feature]["successes"] > 0
    /\ pc[t] = "div" => seen[t].total <= MaxLatency * m[job[t].feature]["successes"]
    /\ pc[t] # "scored" => seen[t].div = 0
    /\ pc[t] \notin {"div", "scored"} => seen[t].total = 0

IInv ==
  /\ TypeOK /\ MutexInv /\ HolderInv /\ CountersInv /\ ReaderInv
  /\ ObservedRateSane /\ ObservedAverageSane

USE StoreAssumption

-----------------------------------------------------------------------------

\* The call a thread starts with is one of the possible calls.
LEMMA AnyJobType == AnyJob \in Job
  <1>1. \E j \in Job : TRUE
    <2>1. PICK f \in Features, l \in Latencies : TRUE
      OBVIOUS
    <2>2. [feature |-> f, success |-> TRUE, latency |-> l] \in Job
      BY <2>1 DEF Job
    <2> QED BY <2>2
  <1> QED BY <1>1 DEF AnyJob

\* The type of what a score has read.
Seen == [succ : Nat, inv : Nat, total : Nat, div : Nat]

\* Filling in one of the values a score reads keeps the record a record of naturals.
LEMMA SeenType ==
  ASSUME NEW s \in Seen, NEW n \in Nat
  PROVE  /\ [s EXCEPT !.succ = n] \in Seen
         /\ [s EXCEPT !.inv = n] \in Seen
         /\ [s EXCEPT !.total = n] \in Seen
         /\ [s EXCEPT !.div = n] \in Seen
         /\ Unread \in Seen
  BY DEF Seen, Unread

\* A call stays a call when another feature is scored.
LEMMA JobType ==
  ASSUME NEW j \in Job, NEW f \in Features
  PROVE  [j EXCEPT !.feature = f] \in Job
  <1> DEFINE k == [j EXCEPT !.feature = f]
  <1>1. k = [feature |-> f, success |-> j.success, latency |-> j.latency]
    BY DEF Job
  <1>2. j.success \in BOOLEAN /\ j.latency \in Latencies
    BY DEF Job
  <1> QED BY <1>1, <1>2 DEF Job

\* What an outcome adds to an attribute is bounded: by the largest latency, or by one.
LEMMA GainType ==
  ASSUME NEW j \in Job, NEW x \in Fields
  PROVE  Gain(j, x) \in Nat /\ Gain(j, x) <= (IF x = "total_latency_ms" THEN MaxLatency ELSE 1)
  BY DEF Gain, Job, Fields

\* A reader that has not begun, or has returned, has read nothing.
LEMMA InitIInv == Init => IInv
  <1> SUFFICES ASSUME Init PROVE IInv
    OBVIOUS
  <1>1. TypeOK
    BY AnyJobType DEF Init, TypeOK, PC, Fields, Unread
  <1>2. MutexInv /\ HolderInv
    BY DEF Init, MutexInv, HolderInv, RecordPC
  <1>3. CountersInv
    BY SMT DEF Init, CountersInv, OwesSuccess, OwesLatency, Fields
  <1>4. ReaderInv /\ ObservedRateSane /\ ObservedAverageSane
    BY DEF Init, ReaderInv, ObservedRateSane, ObservedAverageSane, Unread
  <1> QED BY <1>1, <1>2, <1>3, <1>4 DEF IInv

\* Entering record: nothing is read or held yet.
LEMMA BeginRecordInv ==
  ASSUME IInv, NEW t \in Threads, BeginRecord(t)
  PROVE  IInv'
  <1> USE DEF IInv, BeginRecord, Goto
  <1>1. TypeOK'
    BY SMTT(30) DEF TypeOK, PC, RecordPC, ScorePC, Job
  <1>2. MutexInv'
    BY SMTT(30) DEF TypeOK, MutexInv, RecordPC
  <1>3. HolderInv'
    BY SMTT(30) DEF TypeOK, MutexInv, RecordPC, HolderInv, Job
  <1>4. CountersInv'
    BY SMTT(30) DEF TypeOK, MutexInv, RecordPC, HolderInv, CountersInv, OwesSuccess, OwesLatency, Job, Fields
  <1>5. ReaderInv'
    BY SMTT(30) DEF TypeOK, ReaderInv, CountersInv, Job, Fields
  <1>6. ObservedRateSane' /\ ObservedAverageSane'
    BY SMTT(30) DEF TypeOK, ReaderInv, ObservedRateSane, ObservedAverageSane, Job
  <1> QED BY <1>1, <1>2, <1>3, <1>4, <1>5, <1>6 DEF IInv

\* Taking the lock: it was free, so the thread is its only holder.
LEMMA AcquireInv ==
  ASSUME IInv, NEW t \in Threads, Acquire(t)
  PROVE  IInv'
  <1> USE DEF IInv, Acquire, Goto
  <1>1. TypeOK'
    BY SMTT(30) DEF TypeOK, PC, RecordPC, ScorePC, Job
  <1>2. MutexInv'
    BY SMTT(30) DEF TypeOK, MutexInv, RecordPC
  <1>3. HolderInv'
    BY SMTT(30) DEF TypeOK, MutexInv, RecordPC, HolderInv, Job
  <1>4. CountersInv'
    BY SMTT(30) DEF TypeOK, MutexInv, RecordPC, HolderInv, CountersInv, OwesSuccess, OwesLatency, Job, Fields
  <1>5. ReaderInv'
    BY SMTT(30) DEF TypeOK, ReaderInv, CountersInv, Job, Fields
  <1>6. ObservedRateSane' /\ ObservedAverageSane'
    BY SMTT(30) DEF TypeOK, ReaderInv, ObservedRateSane, ObservedAverageSane, Job
  <1> QED BY <1>1, <1>2, <1>3, <1>4, <1>5, <1>6 DEF IInv

\* Reading the attribute of a +=: the value is the current one.
LEMMA LoadInv ==
  ASSUME IInv, NEW t \in Threads, Load(t)
  PROVE  IInv'
  <1> USE DEF IInv, Load, Goto
  <1>1. TypeOK'
    BY SMTT(30) DEF TypeOK, PC, RecordPC, ScorePC, Job
  <1>2. MutexInv'
    BY SMTT(30) DEF TypeOK, MutexInv, RecordPC
  <1>3. HolderInv'
    BY SMTT(30) DEF TypeOK, MutexInv, RecordPC, HolderInv, Job
  <1>4. CountersInv'
    BY SMTT(30) DEF TypeOK, MutexInv, RecordPC, HolderInv, CountersInv, OwesSuccess, OwesLatency, Job, Fields
  <1>5. ReaderInv'
    BY SMTT(30) DEF TypeOK, ReaderInv, CountersInv, Job, Fields
  <1>6. ObservedRateSane' /\ ObservedAverageSane'
    BY SMTT(30) DEF TypeOK, ReaderInv, ObservedRateSane, ObservedAverageSane, Job
  <1> QED BY <1>1, <1>2, <1>3, <1>4, <1>5, <1>6 DEF IInv

\* Leaving the "with" block: nothing is owed any more.
LEMMA ReleaseInv ==
  ASSUME IInv, NEW t \in Threads, Release(t)
  PROVE  IInv'
  <1> USE DEF IInv, Release, Goto, Leave, Unread
  <1>1. TypeOK'
    BY AnyJobType, SeenType DEF TypeOK, PC, Fields, Seen
  <1>2. MutexInv'
    BY SMTT(30) DEF TypeOK, MutexInv, RecordPC
  <1>3. HolderInv'
    BY SMTT(30) DEF TypeOK, MutexInv, RecordPC, HolderInv, Job
  <1>4. CountersInv'
    BY SMTT(30) DEF TypeOK, MutexInv, RecordPC, HolderInv, CountersInv, OwesSuccess, OwesLatency, Job, Fields
  <1>5. ReaderInv'
    BY SMTT(30) DEF TypeOK, ReaderInv, CountersInv, Job, Fields
  <1>6. ObservedRateSane' /\ ObservedAverageSane'
    BY SMTT(30) DEF TypeOK, ReaderInv, ObservedRateSane, ObservedAverageSane, Job
  <1> QED BY <1>1, <1>2, <1>3, <1>4, <1>5, <1>6 DEF IInv

\* Entering score: nothing has been read.
LEMMA BeginScoreInv ==
  ASSUME IInv, NEW t \in Threads, BeginScore(t)
  PROVE  IInv'
  <1> USE DEF IInv, BeginScore, Goto
  <1>1. TypeOK'
    <2>1. PICK f \in Features : job' = [job EXCEPT ![t].feature = f]
      OBVIOUS
    <2>2. [job[t] EXCEPT !.feature = f] \in Job
      BY JobType DEF TypeOK
    <2> QED BY <2>1, <2>2 DEF TypeOK, PC, ScorePC
  <1>2. MutexInv'
    BY SMTT(30) DEF TypeOK, MutexInv, RecordPC
  <1>3. HolderInv'
    BY SMTT(30) DEF TypeOK, MutexInv, RecordPC, HolderInv, Job
  <1>4. CountersInv'
    BY SMTT(30) DEF TypeOK, MutexInv, RecordPC, HolderInv, CountersInv, OwesSuccess, OwesLatency, Job, Fields
  <1>5. ReaderInv'
    BY SMTT(30) DEF TypeOK, ReaderInv, CountersInv, Job, Fields
  <1>6. ObservedRateSane' /\ ObservedAverageSane'
    BY SMTT(30) DEF TypeOK, ReaderInv, ObservedRateSane, ObservedAverageSane, Job
  <1> QED BY <1>1, <1>2, <1>3, <1>4, <1>5, <1>6 DEF IInv

\* The test for a cold start: past it there are invocations.
LEMMA GuardInv ==
  ASSUME IInv, NEW t \in Threads, Guard(t)
  PROVE  IInv'
  <1> USE DEF IInv, Guard, Goto, Leave, Unread
  <1>1. TypeOK'
    <2>1. CASE m[job[t].feature]["invocations"] > 0
      BY <2>1 DEF TypeOK, PC, ScorePC, Job, Fields
    <2>2. CASE m[job[t].feature]["invocations"] = 0
      <3>1. Leave(t) /\ UNCHANGED <<m, lock, calls>>
        BY <2>2 DEF TypeOK
      <3>2. Unread \in Seen
        BY DEF Seen, Unread
      <3> HIDE DEF Guard, Unread
      <3> QED BY <3>1, <3>2, AnyJobType DEF TypeOK, PC, Fields, Seen
    <2> QED BY <2>1, <2>2
  <1>2. MutexInv'
    BY SMTT(30) DEF TypeOK, MutexInv, RecordPC
  <1>3. HolderInv'
    BY SMTT(30) DEF TypeOK, MutexInv, RecordPC, HolderInv, Job
  <1>4. CountersInv'
    BY SMTT(30) DEF TypeOK, MutexInv, RecordPC, HolderInv, CountersInv, OwesSuccess, OwesLatency, Job, Fields
  <1>5. ReaderInv'
    BY SMTT(30) DEF TypeOK, ReaderInv, CountersInv, Job, Fields
  <1>6. ObservedRateSane' /\ ObservedAverageSane'
    <2>1. pc'[t] \in {"succ", "idle"} /\ \A u \in Threads \ {t} : pc'[u] = pc[u] /\ seen'[u] = seen[u]
      BY DEF TypeOK
    <2> QED BY <2>1 DEF ObservedRateSane, ObservedAverageSane
  <1> QED BY <1>1, <1>2, <1>3, <1>4, <1>5, <1>6 DEF IInv

\* The successes read are at most the invocations there are, and will be.
LEMMA ReadSuccessesInv ==
  ASSUME IInv, NEW t \in Threads, ReadSuccesses(t)
  PROVE  IInv'
  <1> USE DEF IInv, ReadSuccesses, Goto
  <1>1. TypeOK'
    <2>1. m[job[t].feature]["successes"] \in Nat
      BY DEF TypeOK, Job, Fields
    <2>2. [seen[t] EXCEPT !.succ = m[job[t].feature]["successes"]] \in Seen
      BY <2>1, SeenType DEF TypeOK, Seen
    <2> QED BY <2>2 DEF TypeOK, PC, ScorePC, Seen
  <1>2. MutexInv'
    BY SMTT(30) DEF TypeOK, MutexInv, RecordPC
  <1>3. HolderInv'
    BY SMTT(30) DEF TypeOK, MutexInv, RecordPC, HolderInv, Job
  <1>4. CountersInv'
    BY SMTT(30) DEF TypeOK, MutexInv, RecordPC, HolderInv, CountersInv, OwesSuccess, OwesLatency, Job, Fields
  <1>5. ReaderInv'
    BY SMTT(30) DEF TypeOK, ReaderInv, CountersInv, Job, Fields
  <1>6. ObservedRateSane' /\ ObservedAverageSane'
    BY SMTT(30) DEF TypeOK, ReaderInv, ObservedRateSane, ObservedAverageSane, Job
  <1> QED BY <1>1, <1>2, <1>3, <1>4, <1>5, <1>6 DEF IInv

\* The invocations read are at least the successes read before.
LEMMA ReadInvocationsInv ==
  ASSUME IInv, NEW t \in Threads, ReadInvocations(t)
  PROVE  IInv'
  <1> USE DEF IInv, ReadInvocations, Goto
  <1>1. TypeOK'
    <2>1. m[job[t].feature]["invocations"] \in Nat
      BY DEF TypeOK, Job, Fields
    <2>2. [seen[t] EXCEPT !.inv = m[job[t].feature]["invocations"]] \in Seen
      BY <2>1, SeenType DEF TypeOK, Seen
    <2> QED BY <2>2 DEF TypeOK, PC, ScorePC, Seen
  <1>2. MutexInv'
    BY SMTT(30) DEF TypeOK, MutexInv, RecordPC
  <1>3. HolderInv'
    BY SMTT(30) DEF TypeOK, MutexInv, RecordPC, HolderInv, Job
  <1>4. CountersInv'
    BY SMTT(30) DEF TypeOK, MutexInv, RecordPC, HolderInv, CountersInv, OwesSuccess, OwesLatency, Job, Fields
  <1>5. ReaderInv'
    BY SMTT(30) DEF TypeOK, ReaderInv, CountersInv, Job, Fields
  <1>6. ObservedRateSane' /\ ObservedAverageSane'
    BY SMTT(30) DEF TypeOK, ReaderInv, ObservedRateSane, ObservedAverageSane, Job
  <1> QED BY <1>1, <1>2, <1>3, <1>4, <1>5, <1>6 DEF IInv

\* The test for successes: past it the divisor cannot be zero.
LEMMA AverageGuardInv ==
  ASSUME IInv, NEW t \in Threads, AverageGuard(t)
  PROVE  IInv'
  <1> USE DEF IInv, AverageGuard, Goto
  <1>1. TypeOK'
    BY SMTT(30) DEF TypeOK, PC, RecordPC, ScorePC, Job
  <1>2. MutexInv'
    BY SMTT(30) DEF TypeOK, MutexInv, RecordPC
  <1>3. HolderInv'
    BY SMTT(30) DEF TypeOK, MutexInv, RecordPC, HolderInv, Job
  <1>4. CountersInv'
    BY SMTT(30) DEF TypeOK, MutexInv, RecordPC, HolderInv, CountersInv, OwesSuccess, OwesLatency, Job, Fields
  <1>5. ReaderInv'
    BY SMTT(30) DEF TypeOK, ReaderInv, CountersInv, Job, Fields
  <1>6. ObservedRateSane' /\ ObservedAverageSane'
    BY SMTT(30) DEF TypeOK, ReaderInv, ObservedRateSane, ObservedAverageSane, Job
  <1> QED BY <1>1, <1>2, <1>3, <1>4, <1>5, <1>6 DEF IInv

\* The total read is bounded by the successes there are, and will be.
LEMMA ReadTotalInv ==
  ASSUME IInv, NEW t \in Threads, ReadTotal(t)
  PROVE  IInv'
  <1> USE DEF IInv, ReadTotal, Goto
  <1>1. TypeOK'
    <2>1. m[job[t].feature]["total_latency_ms"] \in Nat
      BY DEF TypeOK, Job, Fields
    <2>2. [seen[t] EXCEPT !.total = m[job[t].feature]["total_latency_ms"]] \in Seen
      BY <2>1, SeenType DEF TypeOK, Seen
    <2> QED BY <2>2 DEF TypeOK, PC, ScorePC, Seen
  <1>2. MutexInv'
    BY SMTT(30) DEF TypeOK, MutexInv, RecordPC
  <1>3. HolderInv'
    BY SMTT(30) DEF TypeOK, MutexInv, RecordPC, HolderInv, Job
  <1>4. CountersInv'
    BY SMTT(30) DEF TypeOK, MutexInv, RecordPC, HolderInv, CountersInv, OwesSuccess, OwesLatency, Job, Fields
  <1>5. ReaderInv'
    BY SMTT(30) DEF TypeOK, ReaderInv, CountersInv, Job, Fields
  <1>6. ObservedRateSane' /\ ObservedAverageSane'
    BY SMTT(30) DEF TypeOK, ReaderInv, ObservedRateSane, ObservedAverageSane, Job
  <1> QED BY <1>1, <1>2, <1>3, <1>4, <1>5, <1>6 DEF IInv

\* The divisor read bounds the total read before.
LEMMA ReadDivisorInv ==
  ASSUME IInv, NEW t \in Threads, ReadDivisor(t)
  PROVE  IInv'
  <1> USE DEF IInv, ReadDivisor, Goto
  <1>1. TypeOK'
    <2>1. m[job[t].feature]["successes"] \in Nat
      BY DEF TypeOK, Job, Fields
    <2>2. [seen[t] EXCEPT !.div = m[job[t].feature]["successes"]] \in Seen
      BY <2>1, SeenType DEF TypeOK, Seen
    <2> QED BY <2>2 DEF TypeOK, PC, ScorePC, Seen
  <1>2. MutexInv'
    BY SMTT(30) DEF TypeOK, MutexInv, RecordPC
  <1>3. HolderInv'
    BY SMTT(30) DEF TypeOK, MutexInv, RecordPC, HolderInv, Job
  <1>4. CountersInv'
    BY SMTT(30) DEF TypeOK, MutexInv, RecordPC, HolderInv, CountersInv, OwesSuccess, OwesLatency, Job, Fields
  <1>5. ReaderInv'
    BY SMTT(30) DEF TypeOK, ReaderInv, CountersInv, Job, Fields
  <1>6. ObservedRateSane' /\ ObservedAverageSane'
    BY SMTT(30) DEF TypeOK, ReaderInv, ObservedRateSane, ObservedAverageSane, Job
  <1> QED BY <1>1, <1>2, <1>3, <1>4, <1>5, <1>6 DEF IInv

\* Returning the score: the values read are forgotten.
LEMMA ReturnInv ==
  ASSUME IInv, NEW t \in Threads, Return(t)
  PROVE  IInv'
  <1> USE DEF IInv, Return, Goto, Leave, Unread
  <1>1. TypeOK'
    BY AnyJobType, SeenType DEF TypeOK, PC, Fields, Seen
  <1>2. MutexInv'
    BY SMTT(30) DEF TypeOK, MutexInv, RecordPC
  <1>3. HolderInv'
    BY SMTT(30) DEF TypeOK, MutexInv, RecordPC, HolderInv, Job
  <1>4. CountersInv'
    BY SMTT(30) DEF TypeOK, MutexInv, RecordPC, HolderInv, CountersInv, OwesSuccess, OwesLatency, Job, Fields
  <1>5. ReaderInv'
    BY SMTT(30) DEF TypeOK, ReaderInv, CountersInv, Job, Fields
  <1>6. ObservedRateSane' /\ ObservedAverageSane'
    BY SMTT(30) DEF TypeOK, ReaderInv, ObservedRateSane, ObservedAverageSane, Job
  <1> QED BY <1>1, <1>2, <1>3, <1>4, <1>5, <1>6 DEF IInv

\* Writing the attribute of a +=: no other thread has written it since it was loaded, and what
\* readers know stays true because it only grows.
LEMMA StoreInv ==
  ASSUME IInv, NEW t \in Threads, Store(t)
  PROVE  IInv'
  <1> USE DEF IInv, Store, Goto
  <1> DEFINE f == job[t].feature
             x == field[t]
             g == Gain(job[t], x)
  <1>1. /\ f \in Features /\ x \in Fields /\ g \in Nat
        /\ x = "invocations" => g = 1
        /\ x = "successes" => g = 1
        /\ x = "total_latency_ms" => g <= MaxLatency
    BY GainType DEF TypeOK, Job, HolderInv, Gain
  <1>2. m' = [m EXCEPT ![f][x] = m[f][x] + g]
    BY DEF HolderInv
  <1>3. \A h \in Features, y \in Fields :
          m'[h][y] = IF h = f /\ y = x THEN m[f][x] + g ELSE m[h][y]
    BY <1>1, <1>2 DEF TypeOK
  <1>4. m' \in [Features -> [Fields -> Nat]]
    BY <1>1, <1>2 DEF TypeOK
  <1>5. TypeOK'
    BY <1>1, <1>4 DEF TypeOK, PC, RecordPC, Fields
  <1>6. \A u \in Threads \ {t} : pc[u] \notin RecordPC /\ pc'[u] = pc[u] /\ field'[u] = field[u]
    BY DEF TypeOK, MutexInv, RecordPC
  <1>7. MutexInv'
    BY DEF TypeOK, MutexInv, RecordPC
  <1>8. HolderInv'
    BY <1>1, <1>6 DEF TypeOK, HolderInv, RecordPC
  <1>9. CountersInv'
    <2> SUFFICES ASSUME NEW h \in Features
                 PROVE  /\ m'[h]["successes"] <= m'[h]["invocations"]
                        /\ m'[h]["total_latency_ms"] <= MaxLatency * m'[h]["successes"]
                        /\ \A u \in Threads :
                             /\ OwesSuccess(u, h)' => m'[h]["successes"] + 1 <= m'[h]["invocations"]
                             /\ OwesLatency(u, h)' =>
                                  m'[h]["total_latency_ms"] + MaxLatency <= MaxLatency * m'[h]["successes"]
      BY DEF CountersInv, OwesSuccess, OwesLatency
    <2>1. \A u \in Threads \ {t} : ~OwesSuccess(u, h)' /\ ~OwesLatency(u, h)'
      BY <1>6 DEF OwesSuccess, OwesLatency, RecordPC
    <2>2. CASE h # f
      <3>1. \A y \in Fields : m'[h][y] = m[h][y]
        BY <1>3, <2>2
      <3>2. ~OwesSuccess(t, h)' /\ ~OwesLatency(t, h)'
        BY <2>2 DEF OwesSuccess, OwesLatency
      <3> QED BY <3>1, <3>2, <2>1 DEF CountersInv, Fields
    <2>3. CASE h = f
      <3> DEFINE i == m[f]["invocations"]
                 s == m[f]["successes"]
                 l == m[f]["total_latency_ms"]
      <3>1. i \in Nat /\ s \in Nat /\ l \in Nat
        BY <1>1 DEF TypeOK, Fields
      <3>2. MaxLatency * (s + 1) = MaxLatency * s + MaxLatency
        BY <3>1
      <3>3. s <= i /\ l <= MaxLatency * s
        BY <1>1 DEF CountersInv
      <3>4. CASE x = "invocations"
        <4>1. m'[h]["invocations"] = i + 1 /\ m'[h]["successes"] = s /\ m'[h]["total_latency_ms"] = l
          BY <1>1, <1>3, <2>3, <3>4 DEF Fields
        <4>2. ~OwesLatency(t, h)'
          BY <3>4 DEF OwesLatency, TypeOK
        <4> QED BY <4>1, <4>2, <2>1, <3>1, <3>3
      <3>5. CASE x = "successes"
        <4>1. m'[h]["invocations"] = i /\ m'[h]["successes"] = s + 1 /\ m'[h]["total_latency_ms"] = l
          BY <1>1, <1>3, <2>3, <3>5 DEF Fields
        <4>2. ~OwesSuccess(t, h)' /\ s + 1 <= i
          BY <1>1, <3>5 DEF OwesSuccess, TypeOK, CountersInv, HolderInv
        <4> QED BY <4>1, <4>2, <2>1, <3>1, <3>2, <3>3
      <3>6. CASE x = "total_latency_ms"
        <4>1. m'[h]["invocations"] = i /\ m'[h]["successes"] = s /\ m'[h]["total_latency_ms"] = l + g
          BY <1>1, <1>3, <2>3, <3>6 DEF Fields
        <4>2. ~OwesSuccess(t, h)' /\ ~OwesLatency(t, h)' /\ l + MaxLatency <= MaxLatency * s
          BY <1>1, <3>6 DEF OwesSuccess, OwesLatency, TypeOK, CountersInv
        <4> QED BY <4>1, <4>2, <2>1, <1>1, <3>1, <3>3, <3>6
      <3> QED BY <1>1, <3>4, <3>5, <3>6 DEF Fields
    <2> QED BY <2>2, <2>3
  <1>10. \A h \in Features, y \in Fields : m'[h][y] >= m[h][y]
    BY <1>1, <1>3 DEF TypeOK
  <1>11. ReaderInv'
    <2>1. \A u \in Threads : job'[u].feature \in Features /\ seen'[u] = seen[u] /\ job'[u] = job[u]
      BY DEF TypeOK, Job
    <2>2. \A h \in Features, n \in Nat :
            n <= MaxLatency * m[h]["successes"] => n <= MaxLatency * m'[h]["successes"]
      <3> SUFFICES ASSUME NEW h \in Features, NEW n \in Nat, n <= MaxLatency * m[h]["successes"]
                   PROVE  n <= MaxLatency * m'[h]["successes"]
        OBVIOUS
      <3> DEFINE a == m[h]["successes"]
                 b == m'[h]["successes"]
      <3>1. a \in Nat /\ b \in Nat /\ a <= b
        BY <1>4, <1>10 DEF TypeOK, Fields
      <3>2. MaxLatency * b = MaxLatency * a + MaxLatency * (b - a) /\ MaxLatency * (b - a) >= 0
        BY <3>1
      <3> QED BY <3>1, <3>2
    <2>3. \A u \in Threads : u = t \/ pc'[u] = pc[u]
      BY <1>6
    <2>4. pc[t] = "store" /\ pc'[t] \in {"load", "release"}
      BY DEF TypeOK
    <2>5. \A u \in Threads : seen[u].succ \in Nat /\ seen[u].total \in Nat
      BY DEF TypeOK
    <2> HIDE DEF Store, Goto
    <2> QED BY <1>4, <1>10, <2>1, <2>2, <2>3, <2>4, <2>5 DEF ReaderInv, TypeOK, Fields
  <1>12. ObservedRateSane' /\ ObservedAverageSane'
    BY DEF TypeOK, ObservedRateSane, ObservedAverageSane
  <1> QED BY <1>5, <1>7, <1>8, <1>9, <1>11, <1>12

-----------------------------------------------------------------------------

\* Every step preserves the inductive invariant.
LEMMA NextIInv == IInv /\ [Next]_vars => IInv'
  <1> SUFFICES ASSUME IInv, [Next]_vars PROVE IInv'
    OBVIOUS
  <1>1. ASSUME NEW t \in Threads, Begin(t) PROVE IInv'
    BY <1>1, BeginRecordInv, BeginScoreInv DEF Begin
  <1>2. ASSUME NEW t \in Threads, Continue(t) PROVE IInv'
    BY <1>2, AcquireInv, LoadInv, StoreInv, ReleaseInv, GuardInv, ReadSuccessesInv,
       ReadInvocationsInv, AverageGuardInv, ReadTotalInv, ReadDivisorInv, ReturnInv
       DEF Continue
  <1>3. CASE UNCHANGED vars
    BY <1>3 DEF vars, IInv, TypeOK, MutexInv, HolderInv, CountersInv, OwesSuccess,
       OwesLatency, ReaderInv, ObservedRateSane, ObservedAverageSane
  <1> QED BY <1>1, <1>2, <1>3 DEF Next

\* The inductive invariant holds in every reachable state: mutual exclusion
\* in record, and how far the counters and what a reader has seen of them may
\* be apart at every step of record and score (ranking.py:52-58, 92-100).
THEOREM Invariance == Spec => []IInv
  <1>1. Init => IInv
    BY InitIInv
  <1>2. IInv /\ [Next]_vars => IInv'
    BY NextIInv
  <1> QED BY <1>1, <1>2, PTL DEF Spec

\* Every variable keeps its type: in particular no counter is ever negative
\* (ranking.py:30-34).
THEOREM TypeCorrect == Spec => []TypeOK
  BY Invariance, PTL DEF IInv

\* However many threads record and score, and wherever they are interrupted,
\* a score divides by a positive number of invocations and its success rate
\* is at most one (ranking.py:36-38, 52-58, 94-95).
THEOREM RateSane == Spec => []ObservedRateSane
  BY Invariance, PTL DEF IInv

\* Likewise the average latency behind the penalty is at most the largest
\* latency (ranking.py:40-42, 52-58, 96).
THEOREM AverageSane == Spec => []ObservedAverageSane
  BY Invariance, PTL DEF IInv

-----------------------------------------------------------------------------
(* The refinement of OutcomeCounters *)

\* The two modules agree on what an outcome adds.
LEMMA SameGain ==
  ASSUME NEW j \in Job, NEW x \in Fields
  PROVE  Outcomes!Gain(j.success, j.latency, x) = Gain(j, x)
  BY DEF Outcomes!Gain, Gain, Fields

\* One attribute without the half-done update of the lock's holder.
CommittedField(f, x) ==
  IF lock # NoThread /\ job[lock].feature = f /\ Stored(lock, x)
    THEN m[f][x] - Gain(job[lock], x) ELSE m[f][x]

\* A step that keeps every committed attribute stutters in OutcomeCounters.
LEMMA Stutters ==
  ASSUME \A f \in Features, x \in Fields : CommittedField(f, x)' = CommittedField(f, x)
  PROVE  UNCHANGED Committed
  BY DEF CommittedField, Committed

\* A step that touches neither the counters, nor the lock, nor the holder's
\* progress changes nothing that is committed.
LEMMA OutsideStep ==
  ASSUME IInv, UNCHANGED <<m, lock>>,
         lock # NoThread => /\ job'[lock] = job[lock] /\ field'[lock] = field[lock]
                            /\ pc'[lock] = pc[lock]
  PROVE  UNCHANGED Committed
  <1>1. ASSUME NEW f \in Features, NEW x \in Fields PROVE CommittedField(f, x)' = CommittedField(f, x)
    BY DEF CommittedField, Stored
  <1> QED BY <1>1, Stutters

\* A thread outside record's "with" block does not hold the lock, and what
\* it does to its own locals is invisible.
LEMMA ReaderStep ==
  ASSUME IInv, NEW t \in Threads, pc[t] \notin RecordPC, UNCHANGED <<m, lock>>,
         \A u \in Threads \ {t} : job'[u] = job[u] /\ field'[u] = field[u] /\ pc'[u] = pc[u]
  PROVE  UNCHANGED Committed
  <1>1. lock # t /\ lock \in Threads \cup {NoThread}
    BY DEF IInv, MutexInv, TypeOK
  <1> QED BY <1>1, OutsideStep

\* Taking the lock commits nothing.
LEMMA AcquireStutters ==
  ASSUME IInv, NEW t \in Threads, Acquire(t)
  PROVE  UNCHANGED Committed
  <1>1. field[t] = "invocations" /\ lock = NoThread /\ lock' = t /\ m' = m /\ field' = field
    BY DEF IInv, HolderInv, Acquire, RecordPC
  <1>2. pc'[t] = "load"
    BY DEF IInv, TypeOK, Acquire, Goto
  <1>3. ASSUME NEW f \in Features, NEW x \in Fields PROVE CommittedField(f, x)' = CommittedField(f, x)
    <2>1. ~Stored(t, x)'
      BY <1>1, <1>2 DEF Stored, Position, Fields
    <2> QED BY <1>1, <2>1 DEF CommittedField
  <1> QED BY <1>3, Stutters

\* The read half of "+=" commits nothing.
LEMMA LoadStutters ==
  ASSUME IInv, NEW t \in Threads, Load(t)
  PROVE  UNCHANGED Committed
  <1>1. lock = t /\ UNCHANGED <<m, lock, job, field>> /\ pc[t] = "load"
    BY DEF IInv, MutexInv, Load, RecordPC
  <1>2. pc'[t] = "store"
    BY DEF IInv, TypeOK, Load, Goto
  <1>3. ASSUME NEW f \in Features, NEW x \in Fields PROVE CommittedField(f, x)' = CommittedField(f, x)
    BY <1>1, <1>2 DEF CommittedField, Stored
  <1> QED BY <1>3, Stutters

\* Nor does the write half: what it adds to an attribute is not committed
\* until the lock is released.
LEMMA StoreStutters ==
  ASSUME IInv, NEW t \in Threads, Store(t)
  PROVE  UNCHANGED Committed
  <1> DEFINE j == job[t]
             y == field[t]
  <1>0. TypeOK /\ j \in Job /\ j.feature \in Features /\ y \in Fields /\ m \in [Features -> [Fields -> Nat]]
    BY DEF IInv, TypeOK, Job
  <1>1. /\ lock = t /\ lock # NoThread /\ lock' = lock /\ job' = job /\ pc[t] = "store"
        /\ reg[t] = m[j.feature][y] /\ (y # "invocations" => j.success)
    BY DEF IInv, MutexInv, HolderInv, Store, RecordPC
  <1>2. ASSUME NEW f \in Features, NEW x \in Fields
        PROVE  m'[f][x] = IF f = j.feature /\ x = y THEN m[f][x] + Gain(j, x) ELSE m[f][x]
    BY <1>0, <1>1 DEF Store
  <1>3. \/ y = "invocations" /\ j.success /\ field'[t] = "successes" /\ pc'[t] = "load"
        \/ y = "successes" /\ field'[t] = "total_latency_ms" /\ pc'[t] = "load"
        \/ (y = "total_latency_ms" \/ ~j.success) /\ field'[t] = y /\ pc'[t] = "release"
    BY <1>0 DEF Store, Goto, TypeOK
  <1>4. ASSUME NEW x \in Fields, x # y
        PROVE  (Stored(t, x)' <=> Stored(t, x)) \/ Gain(j, x) = 0
    <2>1. CASE y = "invocations" /\ j.success /\ field'[t] = "successes" /\ pc'[t] = "load"
      BY <1>1, <1>4, <2>1 DEF Stored, Position, Fields
    <2>2. CASE y = "successes" /\ field'[t] = "total_latency_ms" /\ pc'[t] = "load"
      BY <1>1, <1>4, <2>2 DEF Stored, Position, Fields
    <2>3. CASE y = "total_latency_ms" /\ field'[t] = y /\ pc'[t] = "release"
      BY <1>1, <1>4, <2>3 DEF Stored, Position, Fields
    <2>4. CASE ~j.success
      BY <1>1, <1>4, <2>4, <1>0 DEF Gain, Fields
    <2> QED BY <1>3, <2>1, <2>2, <2>3, <2>4
  <1>5. ASSUME NEW x \in Fields, x = y PROVE Stored(t, x)' /\ ~Stored(t, x)
    BY <1>0, <1>1, <1>3, <1>5 DEF Stored, Position, Fields
  <1>6. ASSUME NEW f \in Features, NEW x \in Fields PROVE CommittedField(f, x)' = CommittedField(f, x)
    <2>1. m[f][x] \in Nat /\ Gain(j, x) \in Nat
      BY <1>0, GainType
    <2>2. CASE f = j.feature /\ x = y
      BY <1>1, <1>2, <1>5, <2>1, <2>2 DEF CommittedField
    <2>3. CASE f = j.feature /\ x # y
      BY <1>1, <1>2, <1>4, <2>1, <2>3 DEF CommittedField
    <2>4. CASE f # j.feature
      BY <1>1, <1>2, <2>4 DEF CommittedField
    <2> QED BY <2>2, <2>3, <2>4
  <1> QED BY <1>6, Stutters

\* Releasing the lock commits the whole outcome at once.
LEMMA ReleaseRecords ==
  ASSUME IInv, NEW t \in Threads, Release(t)
  PROVE  Outcomes!Record(job[t].feature, job[t].success, job[t].latency)
  <1> DEFINE j == job[t]
  <1>1. /\ lock = t /\ lock # NoThread /\ lock' = NoThread /\ m' = m /\ pc[t] = "release"
        /\ j \in Job /\ m \in [Features -> [Fields -> Nat]]
    BY DEF IInv, MutexInv, Release, RecordPC, TypeOK
  <1>2. \A x \in Fields : Stored(t, x)
    BY <1>1 DEF Stored
  <1>3. Committed' = m
    BY <1>1 DEF Committed
  <1>4. Committed = [f \in Features |-> [x \in Fields |->
                       IF f = j.feature THEN m[f][x] - Gain(j, x) ELSE m[f][x]]]
    BY <1>1, <1>2 DEF Committed
  <1>5. ASSUME NEW x \in Fields
        PROVE  m[j.feature][x] = Committed[j.feature][x] + Outcomes!Gain(j.success, j.latency, x)
    <2>1. Gain(j, x) \in Nat /\ m[j.feature][x] \in Nat /\ j.feature \in Features
      BY <1>1, GainType DEF Job
    <2>2. Committed[j.feature][x] = m[j.feature][x] - Gain(j, x)
      BY <1>4, <2>1
    <2> QED BY <1>1, <2>1, <2>2, SameGain
  <1>6. m = [Committed EXCEPT ![j.feature] =
               [x \in Fields |-> @[x] + Outcomes!Gain(j.success, j.latency, x)]]
    <2> DEFINE c == [Committed EXCEPT ![j.feature] =
               [x \in Fields |-> @[x] + Outcomes!Gain(j.success, j.latency, x)]]
    <2>1. ASSUME NEW f \in Features PROVE c[f] = m[f]
      <3>1. CASE f = j.feature
        <4>1. c[f] = [x \in Fields |-> Committed[f][x] + Outcomes!Gain(j.success, j.latency, x)]
          BY <1>4, <3>1
        <4>2. \A x \in Fields : c[f][x] = m[f][x]
          BY <1>5, <3>1, <4>1
        <4> QED BY <1>1, <4>1, <4>2
      <3>2. CASE f # j.feature
        <4>1. c[f] = [x \in Fields |-> m[f][x]]
          BY <1>4, <3>2
        <4> QED BY <1>1, <4>1
      <3> QED BY <3>1, <3>2
    <2>2. c = [f \in Features |-> c[f]]
      BY <1>4
    <2> QED BY <1>1, <2>1, <2>2
  <1> QED BY <1>3, <1>6 DEF Outcomes!Record, Outcomes!Fields, Fields

\* Each step of a thread is one recorded outcome, or invisible.
LEMMA StepRefines == IInv /\ [Next]_vars => [Outcomes!Next]_Committed
  <1> SUFFICES ASSUME IInv, [Next]_vars, ~UNCHANGED Committed PROVE Outcomes!Next
    OBVIOUS
  <1>0. TypeOK
    BY DEF IInv
  <1>1. ASSUME NEW t \in Threads, BeginRecord(t) \/ BeginScore(t) PROVE FALSE
    BY <1>0, <1>1, ReaderStep DEF BeginRecord, BeginScore, Goto, RecordPC, TypeOK
  <1>2. ASSUME NEW t \in Threads, Guard(t) \/ Return(t) PROVE FALSE
    BY <1>0, <1>2, ReaderStep DEF Guard, Return, Goto, Leave, RecordPC, TypeOK
  <1>3. ASSUME NEW t \in Threads,
               ReadSuccesses(t) \/ ReadInvocations(t) \/ AverageGuard(t) \/ ReadTotal(t) \/ ReadDivisor(t)
        PROVE  FALSE
    BY <1>0, <1>3, ReaderStep DEF ReadSuccesses, ReadInvocations, AverageGuard, ReadTotal, ReadDivisor,
       Goto, RecordPC, TypeOK
  <1>4. ASSUME NEW t \in Threads, Acquire(t) \/ Load(t) \/ Store(t) PROVE FALSE
    BY <1>4, AcquireStutters, LoadStutters, StoreStutters
  <1>5. ASSUME NEW t \in Threads, Release(t) PROVE Outcomes!Next
    <2>1. job[t].feature \in Features /\ job[t].success \in BOOLEAN /\ job[t].latency \in Latencies
      BY <1>0 DEF TypeOK, Job
    <2> QED BY <1>5, <2>1, ReleaseRecords DEF Outcomes!Next
  <1>6. CASE UNCHANGED vars
    <2>1. UNCHANGED Committed
      BY <1>6 DEF vars, Committed, Stored
    <2> QED BY <2>1
  <1> QED BY <1>1, <1>2, <1>3, <1>4, <1>5, <1>6 DEF Next, Begin, Continue

\* The store starts with nothing counted.
LEMMA InitRefines == Init => Outcomes!Init
  BY DEF Init, Outcomes!Init, Committed, Outcomes!Fields, Fields

\* However many threads call record at the same time, and wherever they are
\* interrupted, every outcome is counted exactly once, all three attributes
\* together: MetricsStore implements OutcomeCounters (ranking.py:52-58).
THEOREM Refinement == Spec => CountsEveryOutcomeOnce
  <1>1. Spec => Outcomes!Init /\ [][Outcomes!Next]_Committed
    BY InitRefines, StepRefines, Invariance, PTL DEF Spec
  <1> QED BY <1>1 DEF CountsEveryOutcomeOnce, Outcomes!Spec
=============================================================================
