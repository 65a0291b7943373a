--------------------------- MODULE OperatorProofs ---------------------------
(***************************************************************************)
(* Operator's safety properties for any number of disturbances and any     *)
(* revisions with no replicas or broken pods.                              *)
(***************************************************************************)
EXTENDS Operator, TLAPS

-----------------------------------------------------------------------------
(* The inductive invariant *)

\* A copy with the stored resourceVersion is the stored Feature.  Reconcile's
\* own copy may differ in the reason it is about to report.
CopiesInv ==
  /\ "Feature" \in current => fcache = feature
  /\ "work" \in current =>
       /\ "Feature" \in current /\ pc # "idle"
       /\ work.rev = feature.rev /\ work.observed = feature.observed /\ feature.exists
  /\ pc # "idle" => work.exists

\* No object, nor a copy of one, is newer than revision n.
Covers(n) == \A k \in Kinds : child[k].rev <= n /\ ccache[k].rev <= n

\* However late the caches are, the Feature that Reconcile works from is at
\* least as new as everything it has ever put in place or reported.
RevisionsInv ==
  /\ feature.observed <= feature.rev /\ feature.observed <= fcache.rev
  /\ pc # "idle" => feature.observed <= work.rev /\ Covers(work.rev)
  /\ fcache.exists => Covers(fcache.rev) /\ (pc # "idle" => work.rev <= fcache.rev)
  /\ feature.exists => Covers(feature.rev) /\ (pc # "idle" => work.rev <= feature.rev)
  /\ feature.exists => fcache.rev <= feature.rev
  /\ Covers(events) /\ feature.rev <= events /\ fcache.rev <= events /\ work.rev <= events

\* Where Reconcile has dealt with the object k.
Past(k) == {"status"} \cup (IF k = "Service" THEN {"Deployment"} ELSE {})

\* What is known of the object k: its cached copy is not newer, what
\* Reconcile has dealt with is as new as it asked, and so is what it reports.
ChildInv(k) ==
  /\ ~child[k].exists => child[k].pods = {}
  /\ child[k].exists /\ child[k].rev # 0 =>
       /\ child[k].rev >= ccache[k].rev
       /\ pc \in Past(k) => child[k].rev >= work.rev
       /\ feature.exists => child[k].rev >= feature.observed

IInv == TypeOK /\ CopiesInv /\ RevisionsInv /\ \A k \in Kinds : ChildInv(k)

-----------------------------------------------------------------------------
(* The records *)

\* The values that stand for nothing have the right type.
LEMMA NothingType ==
  /\ NoFeature \in Feature
  /\ NoChild \in Child /\ ~NoChild.exists /\ NoChild.rev = 0 /\ NoChild.pods = {}
  /\ ~NoFeature.exists /\ NoFeature.rev = 0 /\ NoFeature.observed = 0
BY OperatorAssumption DEF NoFeature, Feature, NoChild, Child, Revisions, Phases, Conditions, Reasons, Times

\* A revision is a natural number, and so is the next one.
LEMMA RevisionType ==
  /\ Revisions \subseteq Nat /\ 0 \in Revisions
  /\ events \in 0 .. MaxEvents /\ events < MaxEvents => events + 1 \in Revisions /\ events + 1 \in 0 .. MaxEvents
BY OperatorAssumption DEF Revisions

\* What the fields of the two records are.
LEMMA Fields ==
  /\ \A f \in Feature : /\ f.rev \in Revisions /\ f.observed \in Revisions /\ f.uid \in Revisions
                        /\ f.exists \in BOOLEAN /\ f.time \in Times
  /\ \A c \in Child : c.rev \in Revisions /\ c.pods \subseteq Revisions /\ c.exists \in BOOLEAN
BY DEF Feature, Child

\* An edit, or a creation, changes the revision.
LEMMA EditType ==
  ASSUME NEW f \in Feature, NEW rev \in Revisions
  PROVE  LET g == [f EXCEPT !.rev = rev] IN
         g \in Feature /\ g.exists = f.exists /\ g.observed = f.observed /\ g.rev = rev
BY DEF Feature

\* A Feature that is created has reported nothing.
LEMMA CreationType ==
  ASSUME NEW rev \in Revisions
  PROVE  LET g == [NoFeature EXCEPT !.exists = TRUE, !.uid = rev, !.rev = rev] IN
         g \in Feature /\ g.exists /\ g.observed = 0 /\ g.rev = rev
<1>1. 0 \in Revisions /\ "" \in Phases /\ "None" \in Conditions /\ "" \in Reasons /\ 0 \in Times
  BY RevisionType DEF Phases, Conditions, Reasons, Times
<1> QED
  BY <1>1 DEF NoFeature, Feature

\* setCondition touches the condition only.
LEMMA ConditionType ==
  ASSUME NEW f \in Feature, NEW status \in Conditions, NEW reason \in Reasons, NEW now \in Times
  PROVE  LET g == SetCondition(f, status, reason, now) IN
         /\ g \in Feature /\ g.exists = f.exists /\ g.uid = f.uid
         /\ g.observed = f.observed /\ g.rev = f.rev
<1> DEFINE time == IF f.cond = status THEN f.time ELSE now
<1>1. time \in Times
  BY DEF Feature
<1> HIDE DEF time
<1>2. [f EXCEPT !.cond = status, !.reason = reason, !.time = time] \in Feature
  BY <1>1 DEF Feature
<1> QED
  BY <1>2 DEF SetCondition, Conditioned, Feature, time

\* The status Reconcile reports when it has applied everything.
LEMMA ReadyType ==
  ASSUME work \in Feature, seen \in BOOLEAN, NEW now \in Times
  PROVE  LET g == ReadyPhase(now) IN
         g \in Feature /\ g.exists = work.exists /\ g.observed = work.rev /\ g.rev = work.rev
<1> DEFINE phase == IF seen THEN "Ready" ELSE "Provisioning"
           status == IF seen THEN "True" ELSE "False"
           f == [work EXCEPT !.phase = phase, !.endpoint = work.rev, !.observed = work.rev]
<1>1. phase \in Phases /\ phase \in Reasons /\ status \in Conditions
  BY DEF Phases, Reasons, Conditions
<1>2. ReadyPhase(now) = SetCondition(f, status, phase, now)
  BY DEF ReadyPhase
<1> HIDE DEF phase, status
<1>3. f \in Feature /\ f.exists = work.exists /\ f.observed = work.rev /\ f.rev = work.rev
  BY <1>1 DEF Feature
<1> HIDE DEF f
<1> QED
  BY <1>1, <1>2, <1>3, ConditionType

\* The status fail reports.
LEMMA FailedType ==
  ASSUME work \in Feature, NEW now \in Times
  PROVE  LET g == FailedPhase(now) IN
         g \in Feature /\ g.exists = work.exists /\ g.observed = work.observed /\ g.rev = work.rev
<1> DEFINE f == [work EXCEPT !.phase = "Failed"]
<1>1. "Failed" \in Phases /\ "False" \in Conditions /\ work.reason \in Reasons
  BY DEF Phases, Conditions, Feature
<1>2. FailedPhase(now) = SetCondition(f, "False", work.reason, now)
  BY DEF FailedPhase, Failure
<1>3. f \in Feature /\ f.exists = work.exists /\ f.observed = work.observed /\ f.rev = work.rev
  BY <1>1 DEF Feature
<1> HIDE DEF f
<1> QED
  BY <1>1, <1>2, <1>3, ConditionType

\* The mutate functions keep an object's status.
LEMMA DesiredType ==
  ASSUME work \in Feature, NEW c \in Child
  PROVE  LET d == Desired(c) IN
         d \in Child /\ d.exists /\ d.rev = work.rev /\ d.pods = c.pods
<1>1. work.uid \in Revisions /\ work.rev \in Revisions
  BY DEF Feature
<1> QED
  BY <1>1 DEF Desired, Built, Child

-----------------------------------------------------------------------------
(* The steps *)

\* Revisions are compared as numbers.
LEMMA Numbers ==
  ASSUME TypeOK
  PROVE  /\ feature.rev \in Nat /\ feature.observed \in Nat /\ fcache.rev \in Nat /\ work.rev \in Nat
         /\ events \in Nat
         /\ \A k \in Kinds : child[k].rev \in Nat /\ ccache[k].rev \in Nat
<1>1. events \in Nat
  BY OperatorAssumption DEF TypeOK
<1>2. \A k \in Kinds : child[k] \in Child /\ ccache[k] \in Child
  BY DEF TypeOK
<1>3. feature \in Feature /\ fcache \in Feature /\ work \in Feature
  BY DEF TypeOK
<1> QED
  BY <1>1, <1>2, <1>3, Fields, RevisionType

\* At the start there is nothing.
LEMMA InitIInv == Init => IInv
<1> SUFFICES ASSUME Init PROVE IInv
  OBVIOUS
<1>0. events \in 0 .. MaxEvents /\ broken \subseteq MayBreak
  BY OperatorAssumption DEF Init
<1>1. TypeOK
  BY <1>0, NothingType DEF Init, TypeOK
<1>2. \A k \in Kinds : child[k] = NoChild /\ ccache[k] = NoChild
  BY DEF Init
<1>3. CopiesInv /\ RevisionsInv
  BY <1>2, NothingType DEF Init, CopiesInv, RevisionsInv, Covers, Copies
<1>4. \A k \in Kinds : ChildInv(k)
  BY <1>2, NothingType DEF ChildInv
<1> QED
  BY <1>1, <1>3, <1>4 DEF IInv

\* Something in the cluster changes the object k, but makes it no newer.
LEMMA ClusterStep ==
  ASSUME IInv, NEW k \in Kinds, NEW c \in Child, StoreChild(k, c),
         c.rev \in {0, child[k].rev}, c.exists => child[k].exists, ~c.exists => c.pods = {},
         UNCHANGED <<feature, fcache, ccache, queued, pc, work, seen, broken>>,
         events' \in {events, events + 1}, events' \in 0 .. MaxEvents
  PROVE  IInv'
<1>1. child' = [child EXCEPT ![k] = c] /\ child' \in [Kinds -> Child]
  BY DEF StoreChild, IInv, TypeOK
<1>2. child'[k] = c /\ \A j \in Kinds \ {k} : child'[j] = child[j]
  BY <1>1 DEF IInv, TypeOK
<1>3. current' \subseteq current
  BY DEF StoreChild
<1>4. TypeOK'
  BY <1>1, <1>3 DEF IInv, TypeOK
<1>5. "Feature" \in current => "Feature" \in current'
  BY DEF StoreChild, Kinds
<1>6. CopiesInv'
  BY <1>3, <1>5 DEF IInv, CopiesInv
<1>7. c.rev <= child[k].rev /\ events <= events'
  BY Numbers DEF IInv
<1>8. ASSUME NEW n \in Nat, Covers(n) PROVE \A j \in Kinds : child'[j].rev <= n /\ ccache'[j].rev <= n
  <2> SUFFICES ASSUME NEW j \in Kinds PROVE child'[j].rev <= n /\ ccache'[j].rev <= n
    OBVIOUS
  <2>1. child[j].rev <= n /\ ccache[j].rev <= n /\ ccache'[j] = ccache[j]
    BY <1>8 DEF Covers
  <2>2. CASE j = k
    BY <1>2, <2>1, <2>2, Numbers DEF IInv
  <2>3. CASE j # k
    BY <1>2, <2>1, <2>3
  <2> QED
    BY <2>2, <2>3
<1>9. RevisionsInv'
  BY <1>7, <1>8, Numbers DEF IInv, RevisionsInv, Covers
<1>10. ASSUME NEW j \in Kinds PROVE ChildInv(j)'
  <2>1. ChildInv(j)
    BY DEF IInv
  <2>2. CASE j = k
    BY <1>2, <2>1, <2>2 DEF ChildInv, Past
  <2>3. CASE j # k
    BY <1>2, <2>1, <2>3 DEF ChildInv, Past
  <2> QED
    BY <2>2, <2>3
<1> QED
  BY <1>4, <1>6, <1>9, <1>10 DEF IInv

\* Somebody deletes or edits an owned object, or its pods fail.
LEMMA MeddleStep ==
  ASSUME IInv, NEW k \in Kinds, Meddle(k)
  PROVE  IInv'
<1>1. PICK c \in {NoChild, [child[k] EXCEPT !.rev = 0], [child[k] EXCEPT !.pods = {}]} : StoreChild(k, c)
  BY DEF Meddle
<1>2. child[k] \in Child /\ child[k].exists /\ 0 \in Revisions
  BY RevisionType DEF IInv, TypeOK, Meddle
<1>3. /\ c \in Child /\ c.rev \in {0, child[k].rev}
      /\ c.exists => child[k].exists
      /\ ~c.exists => c.pods = {}
  BY <1>1, <1>2, NothingType DEF Child
<1>4. events' = events + 1 /\ events' \in 0 .. MaxEvents
  BY RevisionType DEF Meddle, Disturb, IInv, TypeOK
<1> QED
  BY <1>1, <1>3, <1>4, ClusterStep DEF Meddle, Disturb

\* Pods come up and go.
LEMMA KubeletStep ==
  ASSUME IInv, Kubelet
  PROVE  IInv'
<1> DEFINE d == child["Deployment"]
           pods == IF Wanted(d.rev) \subseteq d.pods THEN Wanted(d.rev) ELSE d.pods \cup (Wanted(d.rev) \ broken)
           c == [d EXCEPT !.pods = pods]
<1>1. "Deployment" \in Kinds /\ d \in Child /\ d.rev \in Revisions /\ d.pods \subseteq Revisions
  BY Fields DEF Kinds, IInv, TypeOK
<1>2. pods \in SUBSET Revisions
  BY <1>1 DEF Wanted
<1>3. d.exists /\ StoreChild("Deployment", c) /\ UNCHANGED <<feature, cache, queued, reconcile, events, broken>>
  BY DEF Kubelet
<1> HIDE DEF pods
<1>4. c \in Child /\ c.rev = d.rev /\ c.exists = d.exists
  BY <1>1, <1>2 DEF Child
<1> HIDE DEF c
<1> QED
  BY <1>1, <1>3, <1>4, ClusterStep DEF cache, reconcile, IInv, TypeOK

\* The garbage collector removes an object.
LEMMA CollectStep ==
  ASSUME IInv, NEW k \in Kinds, Collect(k)
  PROVE  IInv'
<1>1. StoreChild(k, NoChild) /\ UNCHANGED <<feature, cache, queued, reconcile, events, broken>>
  BY DEF Collect
<1> QED
  BY <1>1, NothingType, ClusterStep DEF cache, reconcile, IInv, TypeOK

\* CreateOrUpdate puts the revision Reconcile works from in place.
LEMMA AppliedStep ==
  ASSUME IInv, NEW k \in Kinds, NEW c \in Child, pc = k, Applied(k, c), c.exists, c.rev = work.rev
  PROVE  IInv'
<1>0. pc # "idle" /\ pc' = After(k) /\ pc' # "idle" /\ pc' \in Kinds \cup {"idle", "status", "fail"}
  BY DEF Applied, After, Kinds
<1>1. child' = [child EXCEPT ![k] = c] /\ child' \in [Kinds -> Child]
  BY DEF Applied, StoreChild, IInv, TypeOK
<1>2. child'[k] = c /\ \A j \in Kinds \ {k} : child'[j] = child[j]
  BY <1>1 DEF IInv, TypeOK
<1>3. current' \subseteq current
  BY DEF Applied, StoreChild
<1>4. TypeOK'
  BY <1>0, <1>1, <1>3 DEF IInv, TypeOK, Applied, cache
<1>5. "Feature" \in current => "Feature" \in current'
  BY DEF Applied, StoreChild, Kinds
<1>6. CopiesInv'
  BY <1>0, <1>3, <1>5 DEF IInv, CopiesInv, Applied, cache
<1>7. RevisionsInv'
  <2>1. ASSUME NEW n \in Nat, Covers(n), work.rev <= n
        PROVE  \A j \in Kinds : child'[j].rev <= n /\ ccache'[j].rev <= n
    BY <1>2, <2>1 DEF Covers, Applied, cache
  <2> QED
    BY <1>0, <2>1, Numbers DEF IInv, RevisionsInv, Covers, Applied, cache
<1>8. ASSUME NEW j \in Kinds PROVE ChildInv(j)'
  <2>1. ChildInv(j)
    BY DEF IInv
  <2>2. CASE j = k
    <3>1. ccache[k].rev <= work.rev /\ feature.observed <= work.rev
      BY <1>0 DEF IInv, RevisionsInv, Covers
    <3> QED
      BY <1>2, <2>2, <3>1, Numbers DEF ChildInv, Applied, cache, IInv
  <2>3. CASE j # k
    <3>1. pc' \in Past(j) => pc \in Past(j)
      BY <1>0, <2>3 DEF Past, After, Kinds
    <3> QED
      BY <1>2, <2>1, <2>3, <3>1 DEF ChildInv, Past, Applied, cache
  <2> QED
    BY <2>2, <2>3
<1> QED
  BY <1>4, <1>6, <1>7, <1>8 DEF IInv

\* Created: not in the cache, and not there.
LEMMA CreateStep ==
  ASSUME IInv, NEW k \in Kinds, Create(k)
  PROVE  IInv'
<1>1. LET d == Desired(NoChild) IN d \in Child /\ d.exists /\ d.rev = work.rev
  BY NothingType, DesiredType DEF IInv, TypeOK
<1> QED
  BY <1>1, AppliedStep DEF Create

\* Updated, from a copy that is current.
LEMMA UpdateStep ==
  ASSUME IInv, NEW k \in Kinds, Update(k)
  PROVE  IInv'
<1>1. LET d == Desired(child[k]) IN d \in Child /\ d.exists /\ d.rev = work.rev
  BY DesiredType DEF IInv, TypeOK
<1> QED
  BY <1>1, AppliedStep DEF Update

\* Kept: the cached copy is as desired, so what is there is as new.
LEMMA KeepStep ==
  ASSUME IInv, NEW k \in Kinds, Keep(k)
  PROVE  IInv'
<1>0. /\ pc = k /\ pc # "idle" /\ pc' = After(k) /\ pc' # "idle" /\ pc' \in Kinds \cup {"idle", "status", "fail"}
      /\ seen' \in BOOLEAN
      /\ UNCHANGED <<feature, child, current, fcache, ccache, queued, work, events, broken>>
  BY DEF Keep, After, Kinds, api, cache
<1>1. ccache[k].rev = work.rev
  BY DesiredType DEF Keep, IInv, TypeOK
<1>2. TypeOK' /\ CopiesInv'
  BY <1>0 DEF IInv, TypeOK, CopiesInv
<1>3. RevisionsInv'
  BY <1>0 DEF IInv, RevisionsInv, Covers
<1>4. ASSUME NEW j \in Kinds PROVE ChildInv(j)'
  <2>1. ChildInv(j)
    BY DEF IInv
  <2>2. CASE j = k
    BY <1>0, <1>1, <2>1, <2>2 DEF ChildInv
  <2>3. CASE j # k
    <3>1. pc' \in Past(j) => pc \in Past(j)
      BY <1>0, <2>3 DEF Past, After, Kinds
    <3> QED
      BY <1>0, <2>1, <3>1 DEF ChildInv, Past
  <2> QED
    BY <2>2, <2>3
<1> QED
  BY <1>2, <1>3, <1>4 DEF IInv

\* A refused or failed call sends Reconcile to fail, with a reason.
LEMMA RefusedStep ==
  ASSUME IInv, NEW k \in Kinds, pc = k, pc' = "fail", work' = [work EXCEPT !.reason = k],
         UNCHANGED <<feature, child, current, fcache, ccache, queued, seen, broken>>,
         events' \in {events, events + 1}, events' \in 0 .. MaxEvents
  PROVE  IInv'
<1>1. /\ work' \in Feature /\ work'.rev = work.rev /\ work'.observed = work.observed
      /\ work'.exists = work.exists
  <2>1. k \in Reasons /\ work \in Feature
    BY DEF Reasons, IInv, TypeOK
  <2> QED
    BY <2>1 DEF Feature
<1>2. pc # "idle"
  BY DEF Kinds
<1>3. TypeOK' /\ CopiesInv'
  BY <1>1, <1>2 DEF IInv, TypeOK, CopiesInv
<1>4. events <= events'
  BY Numbers DEF IInv
<1>5. RevisionsInv'
  BY <1>1, <1>2, <1>4, Numbers DEF IInv, RevisionsInv, Covers
<1>6. ASSUME NEW j \in Kinds PROVE ChildInv(j)'
  <2>1. ChildInv(j) /\ "fail" \notin Past(j)
    BY DEF IInv, Past
  <2> QED
    BY <2>1 DEF ChildInv, Past
<1> QED
  BY <1>3, <1>5, <1>6 DEF IInv

\* A conflict, or an object that is there or gone against expectation.
LEMMA StaleStep ==
  ASSUME IInv, NEW k \in Kinds, Stale(k)
  PROVE  IInv'
<1>1. events' = events /\ events \in 0 .. MaxEvents
  BY DEF Stale, IInv, TypeOK
<1> QED
  BY <1>1, RefusedStep DEF Stale, api, cache

\* The API server fails the call.
LEMMA ApiErrorStep ==
  ASSUME IInv, NEW k \in Kinds, ApiError(k)
  PROVE  IInv'
<1>1. events' = events + 1 /\ events' \in 0 .. MaxEvents
  BY RevisionType DEF ApiError, Disturb, IInv, TypeOK
<1> QED
  BY <1>1, RefusedStep DEF ApiError, Disturb, api, cache

\* A watch delivers an object, which is no newer than the Feature at work.
LEMMA SyncChildStep ==
  ASSUME IInv, NEW k \in Kinds, SyncChild(k)
  PROVE  IInv'
<1>0. UNCHANGED <<feature, child, fcache, pc, work, seen, events, broken>> /\ queued' \in BOOLEAN
  BY DEF SyncChild, Sync, IInv, TypeOK
<1>1. ccache' = [ccache EXCEPT ![k] = child[k]] /\ current' = current \cup {k}
  BY DEF SyncChild, Sync
<1>2. ccache'[k] = child[k] /\ (\A j \in Kinds \ {k} : ccache'[j] = ccache[j]) /\ ccache' \in [Kinds -> Child]
  BY <1>1 DEF IInv, TypeOK
<1>3. TypeOK'
  BY <1>0, <1>1, <1>2 DEF IInv, TypeOK, Copies
<1>4. CopiesInv'
  BY <1>0, <1>1 DEF IInv, CopiesInv, Kinds
<1>5. RevisionsInv'
  <2>1. ASSUME NEW n \in Nat, Covers(n)
        PROVE  \A j \in Kinds : child'[j].rev <= n /\ ccache'[j].rev <= n
    BY <1>0, <1>2, <2>1 DEF Covers
  <2> QED
    BY <1>0, <2>1, Numbers DEF IInv, RevisionsInv, Covers
<1>6. ASSUME NEW j \in Kinds PROVE ChildInv(j)'
  <2>1. ChildInv(j)
    BY DEF IInv
  <2>2. CASE j = k
    BY <1>0, <1>2, <2>1, <2>2, Numbers DEF ChildInv, Past, IInv
  <2>3. CASE j # k
    BY <1>0, <1>2, <2>1, <2>3 DEF ChildInv, Past
  <2> QED
    BY <2>2, <2>3
<1> QED
  BY <1>3, <1>4, <1>5, <1>6 DEF IInv

\* A watch delivers the Feature, which everything in place came from.
LEMMA SyncFeatureStep ==
  ASSUME IInv, SyncFeature
  PROVE  IInv'
<1>1. TypeOK'
  BY DEF IInv, TypeOK, SyncFeature, Copies
<1>2. CopiesInv'
  BY DEF IInv, CopiesInv, SyncFeature
<1>3. RevisionsInv'
  BY Numbers DEF IInv, RevisionsInv, Covers, SyncFeature
<1>4. ASSUME NEW j \in Kinds PROVE ChildInv(j)'
  BY DEF IInv, ChildInv, Past, SyncFeature
<1> QED
  BY <1>1, <1>2, <1>3, <1>4 DEF IInv

\* Reconcile takes the cached Feature.
LEMMA StartStep ==
  ASSUME IInv, Start
  PROVE  IInv'
<1>1. CASE fcache.exists
  <2>1. /\ pc = "idle" /\ pc' = "Service" /\ work' = fcache
        /\ current' = IF "Feature" \in current THEN current \cup {"work"} ELSE current
        /\ queued' = FALSE
        /\ UNCHANGED <<feature, child, fcache, ccache, seen, events, broken>>
    BY <1>1 DEF Start
  <2>2. "Service" \in Kinds
    BY DEF Kinds
  <2>3. TypeOK'
    BY <2>1, <2>2 DEF IInv, TypeOK, Copies
  <2>4. CopiesInv'
    BY <1>1, <2>1 DEF IInv, CopiesInv
  <2>5. RevisionsInv'
    BY <1>1, <2>1, Numbers DEF IInv, RevisionsInv, Covers
  <2>6. ASSUME NEW j \in Kinds PROVE ChildInv(j)'
    BY <2>1 DEF IInv, ChildInv, Past
  <2> QED
    BY <2>3, <2>4, <2>5, <2>6 DEF IInv
<1>2. CASE ~fcache.exists
  <2>1. UNCHANGED <<feature, child, fcache, ccache, current, pc, work, seen, events, broken>> /\ queued' = FALSE
    BY <1>2 DEF Start
  <2> QED
    BY <2>1 DEF IInv, TypeOK, CopiesInv, RevisionsInv, Covers, ChildInv, Past
<1> QED
  BY <1>1, <1>2

\* The operator restarts with fresh caches.
LEMMA RestartStep ==
  ASSUME IInv, Restart
  PROVE  IInv'
<1>0. /\ fcache' = feature /\ ccache' = child /\ current' = Copies \ {"work"} /\ queued' = TRUE
      /\ pc' = "idle" /\ work' = NoFeature /\ seen' = FALSE
      /\ UNCHANGED <<feature, child, broken>>
      /\ events' = events + 1 /\ events' \in 0 .. MaxEvents
  BY RevisionType DEF Restart, Return, Disturb, IInv, TypeOK
<1>1. TypeOK'
  BY <1>0, NothingType DEF IInv, TypeOK
<1>2. CopiesInv'
  BY <1>0 DEF CopiesInv
<1>3. RevisionsInv'
  BY <1>0, Numbers, NothingType DEF IInv, RevisionsInv, Covers
<1>4. ASSUME NEW j \in Kinds PROVE ChildInv(j)'
  BY <1>0, Numbers DEF IInv, ChildInv, Past
<1> QED
  BY <1>1, <1>2, <1>3, <1>4 DEF IInv

\* A user changes the Feature: it is gone, or newer than everything, and has
\* reported no more than before.
LEMMA UserStep ==
  ASSUME IInv, NEW f \in Feature, StoreFeature(f), Disturb,
         f.exists => f.rev = events + 1,
         f.rev \in {0, events + 1}, f.observed \in {0, feature.observed}, f.observed <= f.rev,
         f.exists /\ f.observed # 0 => feature.exists,
         UNCHANGED <<child, fcache, ccache, queued, pc, work, seen>>
  PROVE  IInv'
<1>0. feature' = f /\ events' = events + 1 /\ events' \in 0 .. MaxEvents /\ broken' = broken
  BY RevisionType DEF StoreFeature, Disturb, IInv, TypeOK
<1>1. /\ current' \subseteq current
      /\ f # feature => "Feature" \notin current' /\ "work" \notin current'
  BY DEF StoreFeature
<1>2. f.rev \in Nat /\ f.observed \in Nat
  BY Fields, RevisionType
<1>3. TypeOK'
  BY <1>0, <1>1 DEF IInv, TypeOK
<1>4. CopiesInv'
  <2>1. CASE f = feature
    BY <1>0, <2>1 DEF IInv, CopiesInv, StoreFeature
  <2>2. CASE f # feature
    BY <1>1, <2>2 DEF IInv, CopiesInv
  <2> QED
    BY <2>1, <2>2
<1>5. Covers(events + 1)
  BY Numbers DEF IInv, RevisionsInv, Covers
<1>6. RevisionsInv'
  <2>1. f.observed <= feature.observed
    BY <1>2, Numbers DEF IInv
  <2> QED
    BY <1>0, <1>2, <1>5, <2>1, Numbers DEF IInv, RevisionsInv, Covers
<1>7. ASSUME NEW j \in Kinds PROVE ChildInv(j)'
  <2>1. ChildInv(j) /\ child[j].rev \in Nat
    BY Numbers DEF IInv
  <2>2. f.observed = 0 \/ (f.observed = feature.observed /\ (f.exists => feature.exists))
    OBVIOUS
  <2> QED
    BY <1>0, <2>1, <2>2 DEF ChildInv, Past
<1> QED
  BY <1>3, <1>4, <1>6, <1>7 DEF IInv

\* The Feature is created or edited.
LEMMA ApplyStep ==
  ASSUME IInv, Apply
  PROVE  IInv'
<1>0. feature \in Feature /\ events + 1 \in Revisions /\ events \in Nat
  BY RevisionType, Numbers DEF Apply, Disturb, IInv, TypeOK
<1>1. CASE feature.exists
  <2> DEFINE f == [feature EXCEPT !.rev = events + 1]
  <2>1. f \in Feature /\ f.exists = feature.exists /\ f.observed = feature.observed /\ f.rev = events + 1
    BY <1>0, EditType
  <2>2. StoreFeature(f)
    BY <1>1 DEF Apply
  <2> HIDE DEF f
  <2>3. f.observed <= f.rev
    BY <1>0, <2>1, Numbers DEF IInv, RevisionsInv
  <2> QED
    BY <1>1, <2>1, <2>2, <2>3, UserStep DEF Apply
<1>2. CASE ~feature.exists
  <2> DEFINE f == [NoFeature EXCEPT !.exists = TRUE, !.uid = events + 1, !.rev = events + 1]
  <2>1. f \in Feature /\ f.exists /\ f.observed = 0 /\ f.rev = events + 1
    BY <1>0, CreationType
  <2>2. StoreFeature(f)
    BY <1>2 DEF Apply
  <2> HIDE DEF f
  <2>3. f.observed <= f.rev
    BY <1>0, <2>1
  <2> QED
    BY <2>1, <2>2, <2>3, UserStep DEF Apply
<1> QED
  BY <1>1, <1>2

\* The Feature is deleted.
LEMMA DeleteStep ==
  ASSUME IInv, DeleteFeature
  PROVE  IInv'
<1>1. NoFeature.observed <= NoFeature.rev
  BY NothingType
<1> QED
  BY <1>1, NothingType, UserStep DEF DeleteFeature

\* Reconcile returns after a status write f, or without one.
LEMMA StatusStep ==
  ASSUME IInv, NEW f \in Feature, pc # "idle", Return, queued' \in BOOLEAN,
         \/ StatusCurrent /\ UpdateStatus(f)
         \/ ~StatusCurrent /\ UNCHANGED <<feature, current>>,
         UNCHANGED <<child, cache, events, broken>>,
         StatusCurrent => /\ f.exists /\ f.rev = work.rev
                          /\ \/ f.observed = work.observed
                             \/ f.observed = work.rev /\ pc = "status"
  PROVE  IInv'
<1>0. pc' = "idle" /\ work' = NoFeature /\ seen' = FALSE /\ UNCHANGED <<child, fcache, ccache, events, broken>>
  BY DEF Return, cache
<1>1. CASE ~StatusCurrent /\ UNCHANGED <<feature, current>>
  <2>1. "work" \notin current
    BY <1>1 DEF StatusCurrent, IInv, CopiesInv
  <2>2. TypeOK'
    BY <1>0, <1>1, NothingType DEF IInv, TypeOK
  <2>3. CopiesInv'
    BY <1>0, <1>1, <2>1 DEF IInv, CopiesInv
  <2>4. RevisionsInv'
    BY <1>0, <1>1, NothingType, Numbers DEF IInv, RevisionsInv, Covers
  <2>5. ASSUME NEW j \in Kinds PROVE ChildInv(j)'
    BY <1>0, <1>1 DEF IInv, ChildInv, Past
  <2> QED
    BY <2>2, <2>3, <2>4, <2>5 DEF IInv
<1>2. CASE StatusCurrent /\ UpdateStatus(f)
  <2>1. /\ feature' = f /\ current' \subseteq current \ {"work"}
        /\ f # feature => "Feature" \notin current'
    BY <1>2 DEF UpdateStatus
  <2>2. /\ feature.exists /\ f.exists /\ f.rev = feature.rev /\ f.rev = work.rev
        /\ fcache = feature
    BY <1>2 DEF StatusCurrent, IInv, CopiesInv
  <2>3. f.observed = feature.observed \/ (f.observed = feature.rev /\ pc = "status")
    BY <1>2, <2>2 DEF StatusCurrent, IInv, CopiesInv
  <2>4. TypeOK'
    BY <1>0, <2>1, NothingType DEF IInv, TypeOK
  <2>5. CopiesInv'
    BY <1>0, <2>1, <2>2 DEF IInv, CopiesInv
  <2>6. RevisionsInv'
    BY <1>0, <2>1, <2>2, <2>3, NothingType, Numbers DEF IInv, RevisionsInv, Covers
  <2>7. ASSUME NEW j \in Kinds PROVE ChildInv(j)'
    <3>1. ChildInv(j) /\ (pc = "status" => pc \in Past(j)) /\ "idle" \notin Past(j)
      BY DEF IInv, Past
    <3> QED
      BY <1>0, <2>1, <2>2, <2>3, <3>1 DEF ChildInv, Past
  <2> QED
    BY <2>4, <2>5, <2>6, <2>7 DEF IInv
<1> QED
  BY <1>1, <1>2

\* Everything is applied: the status is published.
LEMMA PublishStatusStep ==
  ASSUME IInv, PublishStatus
  PROVE  IInv'
<1>0. work \in Feature /\ seen \in BOOLEAN /\ pc = "status" /\ Return /\ queued \in BOOLEAN
  BY DEF PublishStatus, IInv, TypeOK
<1>1. "work" \in current => work.exists
  BY DEF IInv, CopiesInv
<1>2. CASE StatusCurrent
  <2>1. PICK now \in Times : UpdateStatus(ReadyPhase(now))
    BY <1>2 DEF PublishStatus
  <2>2. /\ ReadyPhase(now) \in Feature /\ ReadyPhase(now).exists /\ ReadyPhase(now).rev = work.rev
        /\ ReadyPhase(now).observed = work.rev
    BY <1>0, <1>1, <1>2, ReadyType DEF StatusCurrent
  <2>3. queued' \in BOOLEAN
    BY <1>0, <1>2 DEF PublishStatus
  <2> QED
    BY <1>0, <1>2, <2>1, <2>2, <2>3, StatusStep DEF PublishStatus
<1>3. CASE ~StatusCurrent
  <2>1. queued' = TRUE /\ UNCHANGED <<feature, current>>
    BY <1>3 DEF PublishStatus
  <2> QED
    BY <1>0, <1>3, <2>1, StatusStep DEF PublishStatus
<1> QED
  BY <1>2, <1>3

\* Something failed: a best-effort status.
LEMMA FailStep ==
  ASSUME IInv, Fail
  PROVE  IInv'
<1>0. work \in Feature /\ pc = "fail" /\ Return /\ queued' = TRUE
  BY DEF Fail, IInv, TypeOK
<1>1. "work" \in current => work.exists
  BY DEF IInv, CopiesInv
<1>2. CASE StatusCurrent
  <2>1. PICK now \in Times : UpdateStatus(FailedPhase(now))
    BY <1>2 DEF Fail
  <2>2. /\ FailedPhase(now) \in Feature /\ FailedPhase(now).exists /\ FailedPhase(now).rev = work.rev
        /\ FailedPhase(now).observed = work.observed
    BY <1>0, <1>1, <1>2, FailedType DEF StatusCurrent
  <2> QED
    BY <1>0, <1>2, <2>1, <2>2, StatusStep DEF Fail
<1>3. CASE ~StatusCurrent
  <2>1. UNCHANGED <<feature, current>>
    BY <1>3 DEF Fail
  <2> QED
    BY <1>0, <1>3, <2>1, StatusStep DEF Fail
<1> QED
  BY <1>2, <1>3

\* A step that changes nothing.
LEMMA StutterStep ==
  ASSUME IInv, UNCHANGED vars
  PROVE  IInv'
<1>1. TypeOK' /\ CopiesInv'
  BY DEF IInv, TypeOK, CopiesInv, vars
<1>2. RevisionsInv'
  BY DEF IInv, RevisionsInv, Covers, vars
<1>3. ASSUME NEW k \in Kinds PROVE ChildInv(k)'
  BY DEF IInv, ChildInv, Past, vars
<1> QED
  BY <1>1, <1>2, <1>3 DEF IInv

\* Every step of the operator and of the cluster keeps the invariant.
LEMMA NextStep == IInv /\ [Next]_vars => IInv'
<1> SUFFICES ASSUME IInv, [Next]_vars PROVE IInv'
  OBVIOUS
<1>1. CASE Apply \/ DeleteFeature \/ Restart \/ Kubelet \/ SyncFeature
  BY <1>1, ApplyStep, DeleteStep, RestartStep, KubeletStep, SyncFeatureStep
<1>2. ASSUME NEW k \in Kinds, Meddle(k) \/ Collect(k) \/ SyncChild(k) \/ ApiError(k) PROVE IInv'
  BY <1>2, MeddleStep, CollectStep, SyncChildStep, ApiErrorStep
<1>3. ASSUME NEW k \in Kinds, ReconcileChild(k) PROVE IInv'
  BY <1>3, CreateStep, KeepStep, UpdateStep, StaleStep DEF ReconcileChild
<1>4. CASE Start \/ PublishStatus \/ Fail
  BY <1>4, StartStep, PublishStatusStep, FailStep
<1>5. CASE UNCHANGED vars
  BY <1>5, StutterStep
<1> QED
  BY <1>1, <1>2, <1>3, <1>4, <1>5 DEF Next, Reconcile

-----------------------------------------------------------------------------
(* The results *)

\* The invariant holds in every reachable state.
LEMMA Invariance == Spec => []IInv
BY InitIInv, NextStep, PTL DEF Spec

\* The API server's objects, the informers' copies and Reconcile's locals
\* always have their types, however many disturbances there are
\* (feature_types.go, feature_controller.go:36-80).
THEOREM TypeCorrect == Spec => []TypeOK
<1>1. IInv => TypeOK
  BY DEF IInv
<1> QED
  BY <1>1, Invariance, PTL

\* The generation reported as observed never runs ahead of the workload, for
\* any number of edits, deletions, restarts, conflicts and API errors
\* (feature_controller.go:46-76, 119-131).
THEOREM ObservedApplied == Spec => []ObservedIsApplied
<1>1. IInv => ObservedIsApplied
  BY DEF IInv, ChildInv, ObservedIsApplied
<1> QED
  BY <1>1, Invariance, PTL

\* Who changes an object: each step keeps it, or is one of these.
LEMMA ChildChange ==
  ASSUME IInv, [Next]_vars, NEW k \in Kinds
  PROVE  \/ child'[k] = child[k]
         \/ events' # events /\ (~child'[k].exists \/ child'[k].rev = 0 \/ child'[k].rev = child[k].rev)
         \/ ~child'[k].exists /\ ~(feature.exists /\ feature.uid = child[k].owner)
         \/ /\ k = "Deployment" /\ child'[k].rev = child[k].rev
            /\ child'[k].pods = {} => child[k].pods = {} \/ child[k].rev \in ZeroReplicas
         \/ ~child[k].exists
         \/ child'[k].pods = child[k].pods /\ child'[k].rev >= child[k].rev
<1> USE DEF Kinds
<1>0. child \in [Kinds -> Child] /\ events \in 0 .. MaxEvents /\ work \in Feature
  BY DEF IInv, TypeOK
<1>1. CASE Apply \/ DeleteFeature \/ Restart \/ SyncFeature \/ Start \/ PublishStatus \/ Fail
  BY <1>1 DEF Apply, DeleteFeature, Restart, SyncFeature, Start, PublishStatus, Fail
<1>2. ASSUME NEW j \in Kinds, SyncChild(j) \/ ApiError(j) \/ Keep(j) \/ Stale(j) PROVE child'[k] = child[k]
  BY <1>2 DEF SyncChild, Sync, ApiError, Keep, Stale, api
<1>3. ASSUME NEW j \in Kinds, NEW c, StoreChild(j, c) PROVE child'[k] = IF j = k THEN c ELSE child[k]
  BY <1>0, <1>3 DEF StoreChild
<1>4. ASSUME NEW j \in Kinds, Meddle(j)
      PROVE  \/ child'[k] = child[k]
             \/ events' # events /\ (~child'[k].exists \/ child'[k].rev = 0 \/ child'[k].rev = child[k].rev)
  <2>1. PICK c \in {NoChild, [child[j] EXCEPT !.rev = 0], [child[j] EXCEPT !.pods = {}]} : StoreChild(j, c)
    BY <1>4 DEF Meddle
  <2>2. ~c.exists \/ c.rev = 0 \/ c.rev = child[j].rev
    BY <1>0, NothingType DEF Child
  <2>3. events' # events
    BY <1>0, <1>4 DEF Meddle, Disturb
  <2> QED
    BY <1>3, <2>1, <2>2, <2>3
<1>5. ASSUME NEW j \in Kinds, Collect(j)
      PROVE  \/ child'[k] = child[k]
             \/ ~child'[k].exists /\ ~(feature.exists /\ feature.uid = child[k].owner)
  <2>1. StoreChild(j, NoChild) /\ ~(feature.exists /\ feature.uid = child[j].owner)
    BY <1>5 DEF Collect
  <2> QED
    BY <1>3, <2>1, NothingType
<1>6. CASE Kubelet
  <2> DEFINE d == child["Deployment"]
             pods == IF Wanted(d.rev) \subseteq d.pods THEN Wanted(d.rev) ELSE d.pods \cup (Wanted(d.rev) \ broken)
             c == [d EXCEPT !.pods = pods]
  <2>1. StoreChild("Deployment", c)
    BY <1>6 DEF Kubelet
  <2>2. d \in Child
    BY <1>0
  <2>3. c.rev = d.rev /\ c.pods = pods
    BY <2>2 DEF Child
  <2>4. pods = {} => d.pods = {} \/ d.rev \in ZeroReplicas
    BY DEF Wanted
  <2> QED
    BY <1>3, <2>1, <2>3, <2>4
<1>7. ASSUME NEW j \in Kinds, Create(j) PROVE child'[k] = child[k] \/ ~child[k].exists
  BY <1>3, <1>7 DEF Create, Applied
<1>8. ASSUME NEW j \in Kinds, Update(j)
      PROVE  child'[k] = child[k] \/ (child'[k].pods = child[k].pods /\ child'[k].rev >= child[k].rev)
  <2>1. StoreChild(j, Desired(child[j])) /\ pc = j
    BY <1>8 DEF Update, Applied
  <2>2. Desired(child[j]).pods = child[j].pods /\ Desired(child[j]).rev = work.rev
    BY <1>0, DesiredType
  <2>3. work.rev >= child[j].rev
    BY <1>0, <2>1, Numbers DEF IInv, RevisionsInv, Covers
  <2> QED
    BY <1>3, <2>1, <2>2, <2>3
<1>9. CASE UNCHANGED vars
  BY <1>9 DEF vars
<1> HIDE DEF Kinds
<1> QED
  BY <1>1, <1>2, <1>4, <1>5, <1>6, <1>7, <1>8, <1>9 DEF Next, Reconcile, ReconcileChild

\* An object that exists is never replaced by one of an older revision,
\* although Reconcile reads the Feature and the objects from caches that may
\* lag by any number of events (feature_controller.go:40, 87, 106).
THEOREM NoRollback == Spec => NeverRollsBack
<1>1. ASSUME IInv, [Next]_vars, NEW k \in Kinds,
             child[k].exists, child'[k].exists, child'[k].rev # 0
      PROVE  child'[k].rev >= child[k].rev
  <2>1. child[k].rev \in Nat
    BY <1>1, Numbers DEF IInv
  <2> QED
    BY <1>1, <2>1, ChildChange
<1>2. IInv /\ [Next]_vars =>
        [\A k \in Kinds : child[k].exists /\ child'[k].exists /\ child'[k].rev # 0 =>
           child'[k].rev >= child[k].rev]_vars
  BY <1>1
<1> QED
  BY <1>2, Invariance, PTL DEF Spec, NeverRollsBack

\* However edits, restarts and failures interleave with a rollout, the last
\* serving pods go only when a user or a failure takes them, none are
\* wanted, or the Feature is gone (feature_controller.go:87-99, 106-115).
THEOREM ServesOn == Spec => ServesThroughRollout
<1> DEFINE d == child["Deployment"]
<1>1. ASSUME IInv, [Next]_vars, d.pods # {}, child'["Deployment"].pods = {}, events' = events
      PROVE  d.rev \in ZeroReplicas \/ ~(feature.exists /\ feature.uid = d.owner)
  <2>1. "Deployment" \in Kinds
    BY DEF Kinds
  <2>2. d.exists
    BY <1>1, <2>1 DEF IInv, ChildInv
  <2> QED
    BY <1>1, <2>1, <2>2, ChildChange
<1>2. IInv /\ [Next]_vars =>
        [d.pods # {} /\ child'["Deployment"].pods = {} /\ events' = events =>
           d.rev \in ZeroReplicas \/ ~(feature.exists /\ feature.uid = d.owner)]_vars
  BY <1>1
<1> QED
  BY <1>2, Invariance, PTL DEF Spec, ServesThroughRollout
=============================================================================
