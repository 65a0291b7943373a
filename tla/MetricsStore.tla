---------------------------- MODULE MetricsStore ----------------------------
(***************************************************************************)
(* gateway/ranking.py: the lock-protected MetricsStore.record and the      *)
(* unlocked reads of MetricsPolicy.score.  Routes declared with "def" run  *)
(* on FastAPI's thread pool and score providers there while the event loop *)
(* thread records outcomes; store.get hands out the live FeatureMetrics    *)
(* object, so a score is put together from several attribute reads, and    *)
(* "x += n" is a read and a write of one attribute.  Each attribute access *)
(* is one step.                                                            *)
(*                                                                         *)
(* SwitchAnywhere = TRUE lets another thread run between any two steps.    *)
(* FALSE restricts switches to where CPython 3.11, the interpreter of      *)
(* gateway/Dockerfile, polls for them: calls and function entry.           *)
(***************************************************************************)
EXTENDS Integers

CONSTANTS Threads,         \* the event loop and the thread-pool workers
          NoThread,        \* the lock's holder when nobody holds it
          Features,        \* feature ids
          Latencies,       \* latencies, in ms, a success may carry
          MaxLatency,      \* an upper bound of Latencies
          MaxCalls,        \* bound on the calls of record in a behaviour
          SwitchAnywhere

ASSUME StoreAssumption ==
  /\ NoThread \notin Threads
  /\ Features # {}
  /\ MaxLatency \in Nat
  /\ Latencies # {} /\ Latencies \subseteq 0 .. MaxLatency
  /\ MaxCalls \in Nat
  /\ SwitchAnywhere \in BOOLEAN

VARIABLES m,      \* m[f]: the FeatureMetrics of f
          lock,   \* _lock's holder
          calls,  \* calls of record so far
          pc,     \* what each thread does next
          job,    \* the arguments of each thread's running call
          field,  \* the attribute record is updating
          reg,    \* the value "+=" loaded
          seen    \* what score has read

vars == <<m, lock, calls, pc, job, field, reg, seen>>

Fields == {"invocations", "successes", "total_latency_ms"}

Job == [feature : Features, success : BOOLEAN, latency : Latencies]

\* An arbitrary value for the arguments no call has set.
AnyJob == CHOOSE j \in Job : TRUE

Unread == [succ |-> 0, inv |-> 0, total |-> 0, div |-> 0]

RecordPC == {"load", "store", "release"}
ScorePC == {"guard", "succ", "inv", "avg", "total", "div", "scored"}
PC == {"idle", "acquire"} \cup RecordPC \cup ScorePC

\* Defect: the latency of a success is taken off the sum.
GainSubtractsLatency(j, x) ==
  CASE x = "invocations"      -> 1
    [] x = "successes"        -> IF j.success THEN 1 ELSE 0
    [] x = "total_latency_ms" -> IF j.success THEN 0 - j.latency ELSE 0

\* What the running record call adds to attribute x.
Gain(j, x) ==
  CASE x = "invocations"      -> 1
    [] x = "successes"        -> IF j.success THEN 1 ELSE 0
    [] x = "total_latency_ms" -> IF j.success THEN j.latency ELSE 0

Init ==
  /\ m = [f \in Features |-> [x \in Fields |-> 0]]
  /\ lock = NoThread
  /\ calls = 0
  /\ pc = [t \in Threads |-> "idle"]
  /\ job = [t \in Threads |-> AnyJob]
  /\ field = [t \in Threads |-> "invocations"]
  /\ reg = [t \in Threads |-> 0]
  /\ seen = [t \in Threads |-> Unread]

Goto(t, label) == pc' = [pc EXCEPT ![t] = label]

\* The call returns and its locals are gone.
Leave(t) ==
  /\ Goto(t, "idle")
  /\ job' = [job EXCEPT ![t] = AnyJob]
  /\ field' = [field EXCEPT ![t] = "invocations"]
  /\ reg' = [reg EXCEPT ![t] = 0]
  /\ seen' = [seen EXCEPT ![t] = Unread]

-----------------------------------------------------------------------------
(* record *)

BeginRecord(t) ==
  /\ pc[t] = "idle"
  /\ calls < MaxCalls
  /\ \E j \in Job : job' = [job EXCEPT ![t] = j]
  /\ calls' = calls + 1
  /\ Goto(t, "acquire")
  /\ UNCHANGED <<m, lock, field, reg, seen>>

\* Defect: record without the lock.
AcquireUnguarded(t) ==
  /\ pc[t] = "acquire"
  /\ lock' = t
  /\ Goto(t, "load")
  /\ UNCHANGED <<m, calls, job, field, reg, seen>>

\* "with self._lock" and the setdefault that finds the feature's counters.
Acquire(t) ==
  /\ pc[t] = "acquire"
  /\ lock = NoThread
  /\ lock' = t
  /\ Goto(t, "load")
  /\ UNCHANGED <<m, calls, job, field, reg, seen>>

\* The read half of "m.x += n".
Load(t) ==
  /\ pc[t] = "load"
  /\ reg' = [reg EXCEPT ![t] = m[job[t].feature][field[t]]]
  /\ Goto(t, "store")
  /\ UNCHANGED <<m, lock, calls, job, field, seen>>

\* Defect: the latency is added before the success is counted.
StoreLatencyFirst(t) ==
  /\ pc[t] = "store"
  /\ m' = [m EXCEPT ![job[t].feature][field[t]] = reg[t] + Gain(job[t], field[t])]
  /\ \/ /\ field[t] = "invocations" /\ job[t].success
        /\ field' = [field EXCEPT ![t] = "total_latency_ms"]
        /\ Goto(t, "load")
     \/ /\ field[t] = "total_latency_ms"
        /\ field' = [field EXCEPT ![t] = "successes"]
        /\ Goto(t, "load")
     \/ /\ field[t] = "successes" \/ ~job[t].success
        /\ Goto(t, "release")
        /\ UNCHANGED field
  /\ UNCHANGED <<lock, calls, job, reg, seen>>

\* The write half, then the next statement: the successes and their latency
\* are counted after the invocation, and only when it succeeded.
Store(t) ==
  /\ pc[t] = "store"
  /\ m' = [m EXCEPT ![job[t].feature][field[t]] = reg[t] + Gain(job[t], field[t])]
  /\ \/ /\ field[t] = "invocations" /\ job[t].success
        /\ field' = [field EXCEPT ![t] = "successes"]
        /\ Goto(t, "load")
     \/ /\ field[t] = "successes"
        /\ field' = [field EXCEPT ![t] = "total_latency_ms"]
        /\ Goto(t, "load")
     \/ /\ field[t] = "total_latency_ms" \/ ~job[t].success
        /\ Goto(t, "release")
        /\ UNCHANGED field
  /\ UNCHANGED <<lock, calls, job, reg, seen>>

\* Defect: a hand-written acquire/release that forgets the lock on failures.
ReleaseOnSuccessOnly(t) ==
  /\ pc[t] = "release"
  /\ lock' = IF job[t].success THEN NoThread ELSE lock
  /\ Leave(t)
  /\ UNCHANGED <<m, calls>>

\* The end of the "with" block.
Release(t) ==
  /\ pc[t] = "release"
  /\ lock' = NoThread
  /\ Leave(t)
  /\ UNCHANGED <<m, calls>>

-----------------------------------------------------------------------------
(* score *)

BeginScore(t) ==
  /\ pc[t] = "idle"
  /\ \E f \in Features : job' = [job EXCEPT ![t].feature = f]
  /\ Goto(t, "guard")
  /\ UNCHANGED <<m, lock, calls, field, reg, seen>>

\* "if m and m.invocations > 0": without data the score is the optimistic
\* prior and nothing else is read.  The test that success_rate is not None
\* reads the same attributes as the line after it and drops what it read.
Guard(t) ==
  /\ pc[t] = "guard"
  /\ \/ /\ m[job[t].feature]["invocations"] > 0
        /\ Goto(t, "succ")
        /\ UNCHANGED <<job, field, reg, seen>>
     \/ /\ m[job[t].feature]["invocations"] = 0
        /\ Leave(t)
  /\ UNCHANGED <<m, lock, calls>>

\* success_rate reads the dividend ...
ReadSuccesses(t) ==
  /\ pc[t] = "succ"
  /\ seen' = [seen EXCEPT ![t].succ = m[job[t].feature]["successes"]]
  /\ Goto(t, "inv")
  /\ UNCHANGED <<m, lock, calls, job, field, reg>>

\* ... and then the divisor.
ReadInvocations(t) ==
  /\ pc[t] = "inv"
  /\ seen' = [seen EXCEPT ![t].inv = m[job[t].feature]["invocations"]]
  /\ Goto(t, "avg")
  /\ UNCHANGED <<m, lock, calls, job, field, reg>>

\* avg_latency_ms: no penalty while nothing succeeded ...
AverageGuard(t) ==
  /\ pc[t] = "avg"
  /\ Goto(t, IF m[job[t].feature]["successes"] > 0 THEN "total" ELSE "scored")
  /\ UNCHANGED <<m, lock, calls, job, field, reg, seen>>

\* ... otherwise the dividend and then the divisor again.
ReadTotal(t) ==
  /\ pc[t] = "total"
  /\ seen' = [seen EXCEPT ![t].total = m[job[t].feature]["total_latency_ms"]]
  /\ Goto(t, "div")
  /\ UNCHANGED <<m, lock, calls, job, field, reg>>

ReadDivisor(t) ==
  /\ pc[t] = "div"
  /\ seen' = [seen EXCEPT ![t].div = m[job[t].feature]["successes"]]
  /\ Goto(t, "scored")
  /\ UNCHANGED <<m, lock, calls, job, field, reg>>

Return(t) ==
  /\ pc[t] = "scored"
  /\ Leave(t)
  /\ UNCHANGED <<m, lock, calls>>

-----------------------------------------------------------------------------

\* t is between two attribute accesses with no call in between.
MidStatement(t) ==
  \/ pc[t] \in {"store", "release", "inv", "total", "div"}
  \/ pc[t] = "load" /\ field[t] # "invocations"

MayRun(t) == SwitchAnywhere \/ \A u \in Threads \ {t} : ~MidStatement(u)

Begin(t) == MayRun(t) /\ (BeginRecord(t) \/ BeginScore(t))

Continue(t) ==
  /\ MayRun(t)
  /\ \/ Acquire(t) \/ Load(t) \/ Store(t) \/ Release(t)
     \/ Guard(t) \/ ReadSuccesses(t) \/ ReadInvocations(t)
     \/ AverageGuard(t) \/ ReadTotal(t) \/ ReadDivisor(t) \/ Return(t)

Next == \E t \in Threads : Begin(t) \/ Continue(t)

\* The interpreter and the OS run every runnable thread; nobody has to call.
Fairness == \A t \in Threads : WF_vars(Continue(t))

Spec == Init /\ [][Next]_vars /\ Fairness

-----------------------------------------------------------------------------
(* Properties *)

TypeOK ==
  /\ m \in [Features -> [Fields -> Nat]]
  /\ lock \in Threads \cup {NoThread}
  /\ calls \in 0 .. MaxCalls
  /\ pc \in [Threads -> PC]
  /\ job \in [Threads -> Job]
  /\ field \in [Threads -> Fields]
  /\ reg \in [Threads -> Nat]
  /\ seen \in [Threads -> [succ : Nat, inv : Nat, total : Nat, div : Nat]]

\* A score is built without the lock, yet the success rate it uses is a rate:
\* success_rate never divides by zero and never exceeds one, because record
\* counts the invocation before the success and the reader reads them in the
\* opposite order (ranking.py:38, 55-57).
ObservedRateSane ==
  \A t \in Threads : pc[t] \in {"avg", "total", "div", "scored"} =>
    seen[t].inv > 0 /\ seen[t].succ <= seen[t].inv

\* The average latency behind the penalty never exceeds the largest latency
\* ever recorded and never divides by zero, whatever record does between the
\* reads of its dividend and of its divisor (ranking.py:42, 57-58).
ObservedAverageSane ==
  \A t \in Threads : pc[t] = "scored" =>
    \/ seen[t].div = 0 /\ seen[t].total = 0
    \/ seen[t].div > 0 /\ seen[t].total <= MaxLatency * seen[t].div

Position(x) ==
  CASE x = "invocations" -> 1 [] x = "successes" -> 2 [] OTHER -> 3

\* The lock's holder has already stored its contribution to x.
Stored(t, x) ==
  pc[t] = "release" \/ (pc[t] \in {"load", "store"} /\ Position(x) < Position(field[t]))

\* The counters without the half-done update of the lock's holder.
Committed ==
  [f \in Features |-> [x \in Fields |->
     IF lock # NoThread /\ job[lock].feature = f /\ Stored(lock, x)
       THEN m[f][x] - Gain(job[lock], x) ELSE m[f][x]]]

Outcomes == INSTANCE OutcomeCounters WITH counters <- Committed

\* Concurrent calls of record count every outcome exactly once, as if each
\* call happened in one step when it releases the lock (ranking.py:52-58).
CountsEveryOutcomeOnce == Outcomes!Spec

\* Whoever takes the lock gives it back: a thread in record never leaves the
\* others waiting for ever (ranking.py:53).
LockIsReleased == \A t \in Threads : (lock = t) ~> (lock = NoThread)

\* What "Thread-safe" (ranking.py:46) promises to a reader of the counters:
\* the two ratios of one score are taken from the same set of outcomes.
ScoreIsOfOneState ==
  \A t \in Threads : pc[t] = "scored" /\ seen[t].div > 0 => seen[t].div = seen[t].succ
=============================================================================
