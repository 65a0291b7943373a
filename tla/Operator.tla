------------------------------ MODULE Operator ------------------------------
(***************************************************************************)
(* operator/internal/controller/feature_controller.go: one Feature         *)
(* resource reconciled into a Service and a Deployment, against an API     *)
(* server with optimistic concurrency, informer caches that lag behind it, *)
(* a work queue, the garbage collector, API errors and operator restarts.  *)
(*                                                                         *)
(* Every create or edit of the Feature has a new revision: a Feature's     *)
(* spec, its generation and the objects built from it are the revision,    *)
(* its uid is the revision it was created with.  0 stands for "none".      *)
(* resourceVersions are only ever compared for equality, so what is kept   *)
(* of them is which copies still have the stored object's version;         *)
(* metav1.Now() is any of two times.  Labels, images, ports and messages   *)
(* are part of the revision.                                               *)
(***************************************************************************)
EXTENDS Integers

CONSTANTS MaxEvents,     \* bound on edits, deletions, drifts, crashes and errors
          ZeroReplicas,  \* revisions with minReplicas: 0
          MayBreak       \* revisions whose pods may never become available

ASSUME OperatorAssumption ==
  /\ MaxEvents \in Nat
  /\ ZeroReplicas \subseteq Nat /\ MayBreak \subseteq Nat

VARIABLES feature, child,    \* the API server's objects
          fcache, ccache,    \* the informers' copies
          current,           \* the copies that have the stored resourceVersion
          queued,            \* the work queue holds the Feature's key
          pc, work, seen,    \* Reconcile: next step, its Feature, replicas up
          events,            \* disturbances so far
          broken             \* the revisions whose pods do not become available

api == <<feature, child, current>>
cache == <<fcache, ccache>>
reconcile == <<pc, work, seen>>
vars == <<feature, child, fcache, ccache, current, queued, pc, work, seen, events, broken>>

Kinds == {"Service", "Deployment"}
Revisions == 0 .. MaxEvents
Phases == {"", "Provisioning", "Ready", "Failed"}
Conditions == {"None", "True", "False"}
Reasons == {"", "Provisioning", "Ready"} \cup Kinds
Times == 0 .. 1

Feature == [exists : BOOLEAN, uid : Revisions, rev : Revisions,
            phase : Phases, endpoint : Revisions, observed : Revisions,
            cond : Conditions, reason : Reasons, time : Times]

\* pods are the revisions that have available replicas, the old one's too
\* while a new one is rolled out; a Service has none.
Child == [exists : BOOLEAN, owner : Revisions, rev : Revisions, pods : SUBSET Revisions]

NoFeature == [exists |-> FALSE, uid |-> 0, rev |-> 0, phase |-> "", endpoint |-> 0,
              observed |-> 0, cond |-> "None", reason |-> "", time |-> 0]
NoChild == [exists |-> FALSE, owner |-> 0, rev |-> 0, pods |-> {}]

Copies == Kinds \cup {"Feature", "work"}

\* A write the API server accepts; one that changes nothing keeps the
\* resourceVersion.
StoreFeature(f) ==
  /\ feature' = f
  /\ current' = IF f = feature THEN current ELSE current \ {"Feature", "work"}

StoreChild(k, c) ==
  /\ child' = [child EXCEPT ![k] = c]
  /\ current' = IF c = child[k] THEN current ELSE current \ {k}

\* Reconcile's locals are gone when it returns.
Return == pc' = "idle" /\ work' = NoFeature /\ seen' = FALSE

-----------------------------------------------------------------------------
(* Disturbances: users, failing pods, API errors, restarts *)

Disturb == events < MaxEvents /\ events' = events + 1 /\ UNCHANGED broken

\* A user creates the Feature, or edits its spec.
Apply ==
  /\ Disturb
  /\ StoreFeature(IF feature.exists THEN [feature EXCEPT !.rev = events + 1]
                  ELSE [NoFeature EXCEPT !.exists = TRUE, !.uid = events + 1, !.rev = events + 1])
  /\ UNCHANGED <<child, fcache, ccache, queued, pc, work, seen>>

DeleteFeature ==
  /\ Disturb /\ feature.exists
  /\ StoreFeature(NoFeature)
  /\ UNCHANGED <<child, fcache, ccache, queued, pc, work, seen>>

\* Somebody deletes an owned object, edits it, or its pods fail.
Meddle(k) ==
  /\ Disturb /\ child[k].exists
  /\ \E c \in {NoChild, [child[k] EXCEPT !.rev = 0], [child[k] EXCEPT !.pods = {}]} :
       c # child[k] /\ StoreChild(k, c)
  /\ UNCHANGED <<feature, fcache, ccache, queued, pc, work, seen>>

\* The operator restarts: caches are listed afresh and every key is queued.
Restart ==
  /\ Disturb
  /\ fcache' = feature /\ ccache' = child /\ current' = Copies \ {"work"}
  /\ queued' = TRUE
  /\ Return
  /\ UNCHANGED <<feature, child>>

-----------------------------------------------------------------------------
(* The rest of the cluster *)

Wanted(rev) == IF rev \in ZeroReplicas THEN {} ELSE {rev}

\* The Deployment controller and the kubelet: replicas of the new revision
\* come up, and only then those of old ones go, so that old ones stay when
\* the new one is broken; none stay when none are wanted.
Kubelet ==
  LET d == child["Deployment"]
      pods == IF Wanted(d.rev) \subseteq d.pods THEN Wanted(d.rev) ELSE d.pods \cup (Wanted(d.rev) \ broken)
  IN  /\ d.exists /\ d.rev # 0 /\ d.pods # pods
      /\ StoreChild("Deployment", [d EXCEPT !.pods = pods])
      /\ UNCHANGED <<feature, cache, queued, reconcile, events, broken>>

\* The garbage collector removes an object whose owner's uid is gone.
Collect(k) ==
  /\ child[k].exists
  /\ ~(feature.exists /\ feature.uid = child[k].owner)
  /\ StoreChild(k, NoChild)
  /\ UNCHANGED <<feature, cache, queued, reconcile, events, broken>>

\* A watch delivers the newest state of the Feature and queues its key.
SyncFeature ==
  /\ "Feature" \notin current
  /\ fcache' = feature /\ current' = current \cup {"Feature"}
  /\ queued' = TRUE
  /\ UNCHANGED <<feature, child, ccache, pc, work, seen, events, broken>>

Sync(k, wakes) ==
  /\ k \notin current
  /\ ccache' = [ccache EXCEPT ![k] = child[k]] /\ current' = current \cup {k}
  /\ queued' = (queued \/ wakes)
  /\ UNCHANGED <<feature, child, fcache, pc, work, seen, events, broken>>

\* Defect: SetupWithManager without Owns(&appsv1.Deployment{}).
SyncChildUnowned(k) == Sync(k, k = "Service")

\* Owns: events of the owned objects queue the owner's key.
SyncChild(k) == Sync(k, TRUE)

-----------------------------------------------------------------------------
(* Reconcile *)

\* Take the key and read the Feature from the cache; gone: nothing to do.
Start ==
  /\ pc = "idle" /\ queued
  /\ queued' = FALSE
  /\ IF fcache.exists
       THEN /\ pc' = "Service" /\ work' = fcache
            /\ current' = IF "Feature" \in current THEN current \cup {"work"} ELSE current
       ELSE UNCHANGED <<pc, work, current>>
  /\ UNCHANGED <<feature, child, fcache, ccache, seen, events, broken>>

After(k) == IF k = "Service" THEN "Deployment" ELSE "status"

\* CreateOrUpdate went through: the object is c, and Reconcile goes on.
Applied(k, c) ==
  /\ StoreChild(k, c)
  /\ seen' = (c.pods # {})
  /\ pc' = After(k)
  /\ UNCHANGED <<feature, cache, queued, work, events, broken>>

Built(c, rev) == [c EXCEPT !.exists = TRUE, !.owner = work.uid, !.rev = rev]

\* Defect: after a failure the last observed generation is applied again.
DesiredFallback(c) ==
  Built(c, IF work.phase = "Failed" /\ work.observed # 0 THEN work.observed ELSE work.rev)

\* Defect: the object is built from nothing, as a delete and create would.
DesiredAnew(c) == Built(NoChild, work.rev)

\* The mutate functions: c as work asks for it, its status untouched.
Desired(c) == Built(c, work.rev)

\* Not in the cache: create it.
Create(k) ==
  /\ pc = k /\ ~ccache[k].exists /\ ~child[k].exists
  /\ Applied(k, Desired(NoChild))

\* In the cache and as desired: CreateOrUpdate may send nothing, and what it
\* returns is the cached object.  It may also send the update: the mutate
\* functions leave out the API server's defaults (a port's protocol, a
\* container's pull policy), and then the cached object differs.
Keep(k) ==
  /\ pc = k /\ ccache[k].exists /\ Desired(ccache[k]) = ccache[k]
  /\ seen' = (ccache[k].pods # {})
  /\ pc' = After(k)
  /\ UNCHANGED <<api, cache, queued, work, events, broken>>

\* In the cache: update, if the cached version is current.
\* SetControllerReference matches owners by kind and name, so an object of a
\* deleted Feature of the same name is taken over.
Update(k) ==
  /\ pc = k /\ ccache[k].exists
  /\ child[k].exists /\ k \in current
  /\ Applied(k, Desired(child[k]))

\* AlreadyExists, Conflict or NotFound.
Stale(k) ==
  /\ pc = k
  /\ IF ccache[k].exists THEN ~(child[k].exists /\ k \in current)
                         ELSE child[k].exists
  /\ pc' = "fail"
  /\ work' = [work EXCEPT !.reason = k]
  /\ UNCHANGED <<api, cache, queued, seen, events, broken>>

\* The API server fails the call.
ApiError(k) ==
  /\ Disturb /\ pc = k
  /\ pc' = "fail"
  /\ work' = [work EXCEPT !.reason = k]
  /\ UNCHANGED <<api, cache, queued, seen>>

Conditioned(f, status, reason, time) == [f EXCEPT !.cond = status, !.reason = reason, !.time = time]

\* Defect: the transition time is always the current time.
SetConditionAlways(f, status, reason, now) == Conditioned(f, status, reason, now)

\* setCondition keeps the transition time when the status does not change.
SetCondition(f, status, reason, now) ==
  Conditioned(f, status, reason, IF f.cond = status THEN f.time ELSE now)

\* Status().Update, which consumes Reconcile's copy.
UpdateStatus(f) ==
  /\ feature' = f
  /\ current' = current \ (IF f = feature THEN {"work"} ELSE {"Feature", "work"})

\* It is refused when the Feature changed since it was read.
StatusCurrent == feature.exists /\ "work" \in current

ReadyPhase(now) ==
  LET phase == IF seen THEN "Ready" ELSE "Provisioning"
  IN  SetCondition([work EXCEPT !.phase = phase, !.endpoint = work.rev, !.observed = work.rev],
                   IF seen THEN "True" ELSE "False", phase, now)

\* The status is written, and Reconcile returns; a refused write is an
\* error, which queues the key again.
PublishStatus ==
  /\ pc = "status"
  /\ IF StatusCurrent
       THEN (\E now \in Times : UpdateStatus(ReadyPhase(now))) /\ UNCHANGED queued
       ELSE queued' = TRUE /\ UNCHANGED <<feature, current>>
  /\ Return
  /\ UNCHANGED <<child, cache, events, broken>>

\* fail() writes the phase and the condition into f.
Failure(f, phase, now) == SetCondition([f EXCEPT !.phase = phase], "False", work.reason, now)

\* Defect: the failure handler also reports the generation as observed.
FailedPhaseObserved(now) == Failure([work EXCEPT !.observed = work.rev], "Failed", now)

\* Defect: a phase the CRD's enum does not have.
FailedPhaseUnlisted(now) == Failure(work, "Error", now)

FailedPhase(now) == Failure(work, "Failed", now)

\* fail: a best-effort status, and the error queues the key again.
Fail ==
  /\ pc = "fail"
  /\ IF StatusCurrent THEN \E now \in Times : UpdateStatus(FailedPhase(now))
                      ELSE UNCHANGED <<feature, current>>
  /\ queued' = TRUE
  /\ Return
  /\ UNCHANGED <<child, cache, events, broken>>

-----------------------------------------------------------------------------

Init ==
  /\ feature = NoFeature /\ fcache = NoFeature
  /\ child = [k \in Kinds |-> NoChild] /\ ccache = child
  /\ current = Copies \ {"work"}
  /\ queued = FALSE
  /\ pc = "idle" /\ work = NoFeature /\ seen = FALSE
  /\ events = 0
  /\ broken \in SUBSET MayBreak

ReconcileChild(k) == Create(k) \/ Keep(k) \/ Update(k) \/ Stale(k)

Reconcile == Start \/ (\E k \in Kinds : ReconcileChild(k)) \/ PublishStatus \/ Fail

Next ==
  \/ Apply \/ DeleteFeature \/ Restart
  \/ \E k \in Kinds : Meddle(k) \/ Collect(k) \/ SyncChild(k) \/ ApiError(k)
  \/ Kubelet \/ SyncFeature \/ Reconcile

\* The reconciler retries, watches deliver, and the cluster's own
\* controllers do their work; nobody has to disturb anything.
Fairness ==
  /\ WF_vars(Reconcile) /\ WF_vars(SyncFeature) /\ WF_vars(Kubelet)
  /\ \A k \in Kinds : WF_vars(SyncChild(k)) /\ WF_vars(Collect(k))

Spec == Init /\ [][Next]_vars /\ Fairness

-----------------------------------------------------------------------------
(* Properties *)

TypeOK ==
  /\ feature \in Feature /\ fcache \in Feature /\ work \in Feature
  /\ child \in [Kinds -> Child] /\ ccache \in [Kinds -> Child]
  /\ current \subseteq Copies
  /\ queued \in BOOLEAN /\ seen \in BOOLEAN
  /\ pc \in Kinds \cup {"idle", "status", "fail"}
  /\ events \in 0 .. MaxEvents /\ broken \subseteq MayBreak

\* The objects are what the Feature asks for, only its own pods serve (old
\* ones do while its own cannot), and the status says so.
InPlace ==
  /\ \A k \in Kinds : child[k].exists /\ child[k].owner = feature.uid /\ child[k].rev = feature.rev
  /\ feature.rev \notin broken => child["Deployment"].pods = Wanted(feature.rev)
  /\ feature.observed = feature.rev /\ feature.endpoint = feature.rev
  /\ feature.phase = IF child["Deployment"].pods = {} THEN "Provisioning" ELSE "Ready"

\* Once the disturbances end, the Feature ends up in place, or, deleted,
\* without a trace; restarts, conflicts, stale caches and failed calls on
\* the way do not matter (feature_controller.go:36-80).
Converges ==
  <>[](IF feature.exists THEN InPlace ELSE \A k \in Kinds : ~child[k].exists)

\* ... and the operator comes to rest: its own status writes do not wake it
\* up for ever (feature_controller.go:185-198).
ComesToRest == <>[](pc = "idle" /\ ~queued)

\* The generation reported as observed never runs ahead of the workload: an
\* owned object nobody meddled with is at least that recent, also after
\* failed attempts (feature_controller.go:46-76, 119-131).
ObservedIsApplied ==
  \A k \in Kinds : feature.exists /\ child[k].exists /\ child[k].rev # 0 =>
    child[k].rev >= feature.observed

\* Reconciling from lagging caches never puts an older revision in place of
\* a newer one (feature_controller.go:40, 87, 106).
NeverRollsBack ==
  [][\A k \in Kinds : child[k].exists /\ child'[k].exists /\ child'[k].rev # 0 =>
       child'[k].rev >= child[k].rev]_vars

\* Editing a Feature never takes down what serves: without a disturbance the
\* last pods go only because none are wanted or the Feature is gone
\* (feature_controller.go:87-99, 106-115; the update keeps the object).
ServesThroughRollout ==
  [][LET d == child["Deployment"] IN
       d.pods # {} /\ child'["Deployment"].pods = {} /\ events' = events =>
         d.rev \in ZeroReplicas \/ ~(feature.exists /\ feature.uid = d.owner)]_vars
=============================================================================
