--------------------------- MODULE GatewayProofs ---------------------------
(***************************************************************************)
(* Gateway's safety properties for any number of concurrent requests, any  *)
(* features and schemas and any number of edits.                           *)
(***************************************************************************)
EXTENDS Gateway, FiniteSetTheorems, TLAPS

-----------------------------------------------------------------------------
(* The inductive invariant *)

\* A resource is as old as its last edit, and a workload of its revision was
\* built from it.
ResourceInv(n) ==
  /\ cr[n].rev <= edits /\ pod[n].rev <= edits
  /\ pod[n].rev = cr[n].rev => pod[n].schema = cr[n].schema /\ pod[n].vendor = cr[n].vendor

\* The resource or workload w agrees with what the gateway looked up for r,
\* if it is of that revision.
Fits(r, w) ==
  w.rev = req[r].rev => w.schema \in req[r].payload /\ w.vendor = req[r].fid[1]

\* A request that is not answered has no code, one that was not sent has not
\* been executed, and one that was sent has been if there is a reply.
ProgressInv(r) ==
  /\ req[r].pc # "done" => req[r].code = 0 /\ req[r].kind = "invoke"
  /\ req[r].pc \notin {"sent", "done"} => ran[r] = 0 /\ req[r].reply = "none"
  /\ req[r].pc = "sent" /\ req[r].reply = "none" => ran[r] = 0
  /\ req[r].pc = "sent" /\ req[r].reply # "none" => ran[r] = 1
  /\ req[r].pc = "sent" => mode = "cluster"

\* The revision that was looked up is not from the future, and whatever has
\* this revision accepts the input.
LookupInv(r) ==
  /\ req[r].pc \in {"validated", "sent"} =>
       req[r].rev <= edits /\ Fits(r, cr[req[r].name]) /\ Fits(r, pod[req[r].name])
  /\ req[r].pc = "sent" /\ req[r].reply # "none" => Fits(r, req[r].by)

\* AnswersMatchWork, for one request.
WorkInv(r) ==
  /\ ran[r] <= 1
  /\ req[r].kind # "invoke" \/ req[r].code = 404 => ran[r] = 0
  /\ req[r].code \in {422, 500} /\ req[r].reply = "none" => ran[r] = 0
  /\ req[r].kind = "invoke" /\ req[r].code = 200 => ran[r] = 1

IInv ==
  /\ TypeOK /\ CountersMatchAnswers
  /\ \A n \in Names : ResourceInv(n)
  /\ \A r \in Requests : ProgressInv(r) /\ LookupInv(r) /\ WorkInv(r)

-----------------------------------------------------------------------------
(* The records *)

\* What the fields of the records are.
LEMMA Fields ==
  /\ \A q \in Request : /\ q.pc \in Steps /\ q.kind \in Purposes /\ q.face \in Faces
                        /\ q.capability \in BOOLEAN /\ q.name \in Names /\ q.payload \in Payloads
                        /\ q.fid \in FeatureIds /\ q.rev \in Revisions /\ q.reply \in Outcomes
                        /\ q.by \in Workload /\ q.code \in Codes
  /\ \A c \in Resource : c.vendor \in Vendors /\ c.schema \in Declared /\ c.rev \in Revisions /\ c.exists \in BOOLEAN
  /\ \A w \in Workload : w.rev \in Revisions
  /\ \A c \in Counts : c.inv \in Nat /\ c.succ \in Nat
BY DEF Request, Resource, Workload, Counts

\* Revisions are natural numbers.
LEMMA RevisionType ==
  /\ 0 \in Revisions /\ Revisions \subseteq Nat
  /\ \A n \in Revisions : n < MaxEdits => n + 1 \in Revisions
BY GatewayAssumption DEF Revisions

\* What nothing has set yet has a type.
LEMMA BlankType ==
  /\ AnyVendor \in Vendors /\ AnyName \in Names /\ AnySchema \in Schemas
  /\ AnyWorkload \in Workload /\ AnyWorkload.rev = 0
  /\ AnyWorkload.vendor = AnyVendor /\ AnyWorkload.schema = AnySchema
  /\ Blank \in Request
  /\ Blank.pc = "new" /\ Blank.kind = "invoke" /\ Blank.code = 0 /\ Blank.reply = "none"
<1>1. AnyVendor \in Vendors /\ AnyName \in Names /\ AnySchema \in Schemas /\ (CHOOSE p \in Payloads : TRUE) \in Payloads
  BY GatewayAssumption DEF AnyVendor, AnyName, AnySchema
<1>2. AnyWorkload \in Workload
  BY <1>1, RevisionType DEF AnyWorkload, Workload, Declared
<1>3. "new" \in Steps /\ "invoke" \in Purposes /\ "rest" \in Faces /\ "none" \in Outcomes /\ 0 \in Codes
  BY DEF Steps, Purposes, Faces, Outcomes, Codes
<1>4. <<AnyVendor, AnyName>> \in FeatureIds
  BY <1>1 DEF FeatureIds
<1>5. Blank \in Request
  BY <1>1, <1>2, <1>3, <1>4, RevisionType DEF Blank, Request
<1> QED
  BY <1>1, <1>2, <1>5 DEF AnyWorkload, Blank

\* The request that is left when its handler has returned.
Ended(q, reply, code) ==
  [Blank EXCEPT !.pc = "done", !.code = code, !.kind = q.kind, !.face = q.face, !.fid = q.fid, !.reply = reply]

\* An answered request is a request, with the code and the outcome it was answered with.
LEMMA EndedType ==
  ASSUME NEW q \in Request, NEW reply \in Outcomes, NEW code \in Codes
  PROVE  LET e == Ended(q, reply, code) IN
         /\ e \in Request /\ e.pc = "done" /\ e.kind = q.kind /\ e.code = code /\ e.reply = reply
         /\ e.face = q.face /\ e.fid = q.fid
<1> DEFINE e == Ended(q, reply, code)
<1>1. "done" \in Steps /\ q.kind \in Purposes /\ q.face \in Faces /\ q.fid \in FeatureIds
  BY Fields DEF Steps
<1>2. Blank \in Request
  BY BlankType
<1> HIDE DEF Blank
<1>3. e \in Request
  BY <1>1, <1>2 DEF Ended, Request
<1> QED
  BY <1>2, <1>3 DEF Ended, Request

-----------------------------------------------------------------------------
(* Counting the answers *)

\* q was told code, about f; what q was told spoilt a recorded success of f.
IsTold(q, f, code) == q.kind = "invoke" /\ q.face # "mcp" /\ q.fid = f /\ q.code = code
IsSpoilt(q, f, md) == IsTold(q, f, 500) /\ md = "dev" /\ q.reply = "odd"

\* q was told nothing that counts.
Uncounted(q, md) == \A f \in FeatureIds : ~IsTold(q, f, 200) /\ ~IsSpoilt(q, f, md) /\ ~IsTold(q, f, 503)

\* The same of all requests.
AllTold(rs, f, code) == {r \in Requests : IsTold(rs[r], f, code)}
AllSpoilt(rs, f, md) == {r \in Requests : IsSpoilt(rs[r], f, md)}

\* Nothing happens to the requests but r.
OthersKept(r, rs, now) == \A p \in Requests \ {r} : now[p] = rs[p]

\* One more element is one more.
LEMMA OneMore ==
  ASSUME NEW S, IsFiniteSet(S), NEW r, r \notin S
  PROVE  Cardinality(S \cup {r}) = Cardinality(S) + 1
<1>1. Cardinality(S \cup {r}) = IF r \in S THEN Cardinality(S) ELSE Cardinality(S) + 1
  BY FS_AddElement
<1> QED
  BY <1>1

\* How many are counted is a number.
LEMMA ToldFinite ==
  ASSUME NEW rs, NEW f, NEW code, NEW md
  PROVE  /\ IsFiniteSet(AllTold(rs, f, code)) /\ Cardinality(AllTold(rs, f, code)) \in Nat
         /\ IsFiniteSet(AllSpoilt(rs, f, md)) /\ Cardinality(AllSpoilt(rs, f, md)) \in Nat
<1>1. AllTold(rs, f, code) \subseteq Requests /\ AllSpoilt(rs, f, md) \subseteq Requests
  BY DEF AllTold, AllSpoilt
<1> QED
  BY <1>1, GatewayAssumption, FS_Subset, FS_CardinalityType

\* How many requests are counted for f after r has become q.
LEMMA ToldStep ==
  ASSUME NEW rs, NEW now, NEW r \in Requests, OthersKept(r, rs, now),
         NEW f, NEW code, rs[r].code # code
  PROVE  /\ IsTold(now[r], f, code) => Cardinality(AllTold(now, f, code)) = Cardinality(AllTold(rs, f, code)) + 1
         /\ ~IsTold(now[r], f, code) => Cardinality(AllTold(now, f, code)) = Cardinality(AllTold(rs, f, code))
<1>0. r \notin AllTold(rs, f, code)
  BY DEF AllTold, IsTold
<1>1. IsFiniteSet(AllTold(rs, f, code)) /\ r \notin AllTold(rs, f, code)
  BY <1>0, ToldFinite
<1>2. CASE IsTold(now[r], f, code)
  <2>1. AllTold(now, f, code) = AllTold(rs, f, code) \cup {r}
    BY <1>2 DEF AllTold, IsTold, OthersKept
  <2> QED
    BY <1>1, <1>2, <2>1, OneMore
<1>3. CASE ~IsTold(now[r], f, code)
  <2>1. AllTold(now, f, code) = AllTold(rs, f, code)
    BY <1>1, <1>3 DEF AllTold, OthersKept
  <2> QED
    BY <1>3, <2>1
<1> QED
  BY <1>2, <1>3

\* How many spoilt ones.
LEMMA SpoiltStep ==
  ASSUME NEW rs, NEW now, NEW r \in Requests, OthersKept(r, rs, now),
         NEW f, NEW md, rs[r].code # 500
  PROVE  /\ IsSpoilt(now[r], f, md) => Cardinality(AllSpoilt(now, f, md)) = Cardinality(AllSpoilt(rs, f, md)) + 1
         /\ ~IsSpoilt(now[r], f, md) => Cardinality(AllSpoilt(now, f, md)) = Cardinality(AllSpoilt(rs, f, md))
<1>0. r \notin AllSpoilt(rs, f, md)
  BY DEF AllSpoilt, IsSpoilt, IsTold
<1>1. IsFiniteSet(AllSpoilt(rs, f, md)) /\ r \notin AllSpoilt(rs, f, md)
  BY <1>0, ToldFinite
<1>2. CASE IsSpoilt(now[r], f, md)
  <2>1. AllSpoilt(now, f, md) = AllSpoilt(rs, f, md) \cup {r}
    BY <1>2 DEF AllSpoilt, OthersKept
  <2> QED
    BY <1>1, <1>2, <2>1, OneMore
<1>3. CASE ~IsSpoilt(now[r], f, md)
  <2>1. AllSpoilt(now, f, md) = AllSpoilt(rs, f, md)
    BY <1>1, <1>3 DEF AllSpoilt, OthersKept
  <2> QED
    BY <1>3, <2>1
<1> QED
  BY <1>2, <1>3

\* The counters still match when what is added to them is what is told.
LEMMA CountersStep ==
  ASSUME TypeOK, CountersMatchAnswers, NEW r \in Requests, NEW q, mode' = mode,
         req'[r] = q, \A p \in Requests \ {r} : req'[p] = req[p], req[r].code = 0,
         \A f \in FeatureIds :
           /\ metrics'[f].succ = metrics[f].succ + (IF IsTold(q, f, 200) \/ IsSpoilt(q, f, mode) THEN 1 ELSE 0)
           /\ metrics'[f].inv = metrics[f].inv +
                (IF IsTold(q, f, 200) \/ IsSpoilt(q, f, mode) \/ IsTold(q, f, 503) THEN 1 ELSE 0)
  PROVE  CountersMatchAnswers'
<1> SUFFICES ASSUME NEW f \in FeatureIds
             PROVE  /\ metrics'[f].succ = Cardinality(Told(f, 200)') + Cardinality(Spoilt(f)')
                    /\ metrics'[f].inv = metrics'[f].succ + Cardinality(Told(f, 503)')
  BY DEF CountersMatchAnswers
<1> DEFINE a == Cardinality(AllTold(req, f, 200))
           b == Cardinality(AllSpoilt(req, f, mode))
           c == Cardinality(AllTold(req, f, 503))
           a1 == Cardinality(AllTold(req', f, 200))
           b1 == Cardinality(AllSpoilt(req', f, mode))
           c1 == Cardinality(AllTold(req', f, 503))
           i == IsTold(q, f, 200)
           j == IsSpoilt(q, f, mode)
           k == IsTold(q, f, 503)
<1>1. a \in Nat /\ b \in Nat /\ c \in Nat
  BY ToldFinite
<1>2. Told(f, 200) = AllTold(req, f, 200) /\ Told(f, 503) = AllTold(req, f, 503) /\ Spoilt(f) = AllSpoilt(req, f, mode)
  BY DEF Told, Spoilt, AllTold, AllSpoilt, IsTold, IsSpoilt
<1>3. metrics[f].succ = a + b /\ metrics[f].inv = (a + b) + c
  BY <1>2 DEF CountersMatchAnswers
<1>4. /\ Told(f, 200)' = AllTold(req', f, 200) /\ Told(f, 503)' = AllTold(req', f, 503)
      /\ Spoilt(f)' = AllSpoilt(req', f, mode)
  BY DEF Told, Spoilt, AllTold, AllSpoilt, IsTold, IsSpoilt
<1>5. req'[r] = q /\ OthersKept(r, req, req')
  BY DEF OthersKept
<1>6. req[r].code # 200 /\ req[r].code # 500 /\ req[r].code # 503
  OBVIOUS
<1>7. (i => a1 = a + 1) /\ (~i => a1 = a) /\ (k => c1 = c + 1) /\ (~k => c1 = c)
  <2>1. ASSUME NEW code, req[r].code # code
        PROVE  /\ IsTold(req'[r], f, code) => Cardinality(AllTold(req', f, code)) = Cardinality(AllTold(req, f, code)) + 1
               /\ ~IsTold(req'[r], f, code) => Cardinality(AllTold(req', f, code)) = Cardinality(AllTold(req, f, code))
    BY <1>5, <2>1, ToldStep
  <2> QED
    BY <1>5, <1>6, <2>1
<1>8. (j => b1 = b + 1) /\ (~j => b1 = b)
  <2>1. /\ IsSpoilt(req'[r], f, mode) => Cardinality(AllSpoilt(req', f, mode)) = Cardinality(AllSpoilt(req, f, mode)) + 1
        /\ ~IsSpoilt(req'[r], f, mode) => Cardinality(AllSpoilt(req', f, mode)) = Cardinality(AllSpoilt(req, f, mode))
    BY <1>5, <1>6, SpoiltStep
  <2> QED
    BY <1>5, <2>1
<1>9. ~(i /\ j) /\ ~(i /\ k) /\ ~(j /\ k)
  BY DEF IsTold, IsSpoilt
<1>10. /\ metrics'[f].succ = metrics[f].succ + (IF i \/ j THEN 1 ELSE 0)
       /\ metrics'[f].inv = metrics[f].inv + (IF i \/ j \/ k THEN 1 ELSE 0)
  OBVIOUS
<1>11. metrics'[f].succ = a1 + b1 /\ metrics'[f].inv = metrics'[f].succ + c1
  <2> HIDE DEF a, b, c, a1, b1, c1, i, j, k
  <2> QED
    BY <1>1, <1>3, <1>7, <1>8, <1>9, <1>10
<1> QED
  BY <1>4, <1>11

\* store.record adds to the feature that was looked up, except over MCP.
LEMMA RecordStep ==
  ASSUME TypeOK, NEW r \in Requests, NEW success \in BOOLEAN, Record(r, success)
  PROVE  /\ metrics' \in [FeatureIds -> Counts]
         /\ \A f \in FeatureIds :
              LET told == req[r].face # "mcp" /\ req[r].fid = f IN
              /\ metrics'[f].inv = metrics[f].inv + (IF told THEN 1 ELSE 0)
              /\ metrics'[f].succ = metrics[f].succ + (IF told /\ success THEN 1 ELSE 0)
<1> DEFINE g == req[r].fid
           n == IF success THEN metrics[g].succ + 1 ELSE metrics[g].succ
           c == [metrics[g] EXCEPT !.inv = @ + 1, !.succ = n]
<1>1. g \in FeatureIds /\ metrics \in [FeatureIds -> Counts]
  BY Fields DEF TypeOK
<1>2. \A f \in FeatureIds : metrics[f].inv \in Nat /\ metrics[f].succ \in Nat
  BY <1>1, Fields
<1>3. CASE req[r].face = "mcp"
  BY <1>1, <1>2, <1>3 DEF Record
<1>4. CASE req[r].face # "mcp"
  <2>1. metrics' = [metrics EXCEPT ![g] = c]
    BY <1>1, <1>4 DEF Record, Counts
  <2>2. c \in Counts /\ c.inv = metrics[g].inv + 1 /\ c.succ = metrics[g].succ + (IF success THEN 1 ELSE 0)
    <3>1. n \in Nat /\ n = metrics[g].succ + (IF success THEN 1 ELSE 0) /\ metrics[g].inv + 1 \in Nat
      BY <1>1, <1>2
    <3>2. metrics[g] \in Counts
      BY <1>1
    <3> HIDE DEF n
    <3> QED
      BY <3>1, <3>2 DEF Counts
  <2> HIDE DEF c
  <2>3. metrics' \in [FeatureIds -> Counts]
    BY <1>1, <2>1, <2>2
  <2>4. ASSUME NEW f \in FeatureIds PROVE metrics'[f] = IF f = g THEN c ELSE metrics[f]
    BY <1>1, <2>1
  <2> QED
    BY <1>2, <1>4, <2>2, <2>3, <2>4
<1> QED
  BY <1>3, <1>4

-----------------------------------------------------------------------------
(* The steps of a handler *)

\* A step of one request leaves alone what is known of the others.
LEMMA LocalStep ==
  ASSUME IInv, NEW r \in Requests, NEW q \in Request, req' = [req EXCEPT ![r] = q], UNCHANGED cluster,
         ran' \in [Requests -> Nat], \A p \in Requests \ {r} : ran'[p] = ran[p],
         metrics' \in [FeatureIds -> Counts], CountersMatchAnswers',
         ProgressInv(r)', LookupInv(r)', WorkInv(r)'
  PROVE  IInv'
<1>0. TypeOK /\ mode' = mode /\ cr' = cr /\ pod' = pod /\ edits' = edits
  BY DEF IInv, cluster
<1>1. TypeOK'
  BY <1>0 DEF TypeOK
<1>2. ASSUME NEW n \in Names PROVE ResourceInv(n)'
  <2>1. ResourceInv(n)
    BY DEF IInv
  <2> QED
    BY <1>0, <2>1 DEF ResourceInv
<1>3. ASSUME NEW p \in Requests, p # r PROVE ProgressInv(p)' /\ LookupInv(p)' /\ WorkInv(p)'
  <2>1. ProgressInv(p) /\ LookupInv(p) /\ WorkInv(p)
    BY DEF IInv
  <2>2. req'[p] = req[p] /\ ran'[p] = ran[p] /\ req[p].name \in Names
    BY <1>0, <1>3, Fields DEF TypeOK
  <2>4. ProgressInv(p)'
    BY <1>0, <2>1, <2>2 DEF ProgressInv
  <2>5. LookupInv(p)'
    BY <1>0, <2>1, <2>2 DEF LookupInv, Fits
  <2>6. WorkInv(p)'
    BY <2>1, <2>2 DEF WorkInv
  <2> QED
    BY <2>4, <2>5, <2>6
<1> QED
  BY <1>1, <1>2, <1>3 DEF IInv

\* A handler that has not answered, and what is known of it.
LEMMA Pending ==
  ASSUME IInv, NEW r \in Requests, req[r].pc # "done"
  PROVE  /\ TypeOK /\ req \in [Requests -> Request] /\ req[r] \in Request
         /\ req[r].code = 0 /\ req[r].kind = "invoke" /\ req[r].reply \in Outcomes
         /\ req[r].fid \in FeatureIds /\ req[r].name \in Names /\ req[r].rev \in Revisions
         /\ ran \in [Requests -> Nat] /\ ran[r] <= 1 /\ (req[r].reply = "none" => ran[r] = 0)
         /\ metrics \in [FeatureIds -> Counts] /\ CountersMatchAnswers
<1>1. TypeOK /\ ProgressInv(r) /\ WorkInv(r) /\ CountersMatchAnswers /\ \A n \in Names : ResourceInv(n)
  BY DEF IInv
<1>2. req[r] \in Request /\ req \in [Requests -> Request]
  BY <1>1 DEF TypeOK
<1>3. /\ req[r].code = 0 /\ req[r].kind = "invoke"
      /\ ran[r] <= 1 /\ (req[r].reply = "none" => ran[r] = 0)
  BY <1>1 DEF ProgressInv, WorkInv
<1>5. ran \in [Requests -> Nat] /\ metrics \in [FeatureIds -> Counts]
  BY <1>1 DEF TypeOK
<1> QED
  BY <1>1, <1>2, <1>3, <1>5, Fields

\* What is told to nobody does not count.
LEMMA QuietStep ==
  ASSUME IInv, NEW r \in Requests, req[r].pc # "done", NEW q \in Request, req' = [req EXCEPT ![r] = q],
         mode' = mode, metrics' = metrics,
         Uncounted(q, mode)
  PROVE  CountersMatchAnswers'
<1>1. TypeOK /\ CountersMatchAnswers /\ req[r].code = 0 /\ req \in [Requests -> Request]
  BY Pending
<1>2. req'[r] = q /\ \A p \in Requests \ {r} : req'[p] = req[p]
  BY <1>1
<1>3. \A f \in FeatureIds : metrics[f].succ \in Nat /\ metrics[f].inv \in Nat
  BY <1>1, Fields DEF TypeOK
<1>4. \A f \in FeatureIds :
           /\ metrics'[f].succ = metrics[f].succ + (IF IsTold(q, f, 200) \/ IsSpoilt(q, f, mode) THEN 1 ELSE 0)
           /\ metrics'[f].inv = metrics[f].inv +
                (IF IsTold(q, f, 200) \/ IsSpoilt(q, f, mode) \/ IsTold(q, f, 503) THEN 1 ELSE 0)
  BY <1>3 DEF Uncounted
<1> QED
  BY <1>1, <1>2, <1>4, CountersStep

\* The request is answered: what is known of it then.
LEMMA EndStep ==
  ASSUME IInv, NEW r \in Requests, req[r].pc # "done", NEW reply \in Outcomes, NEW code \in Codes,
         End(r, reply, code), UNCHANGED cluster,
         ran' \in [Requests -> Nat], \A p \in Requests \ {r} : ran'[p] = ran[p], ran'[r] <= 1,
         metrics' \in [FeatureIds -> Counts], CountersMatchAnswers',
         code = 404 => ran'[r] = 0, code \in {422, 500} /\ reply = "none" => ran'[r] = 0,
         code = 200 => ran'[r] = 1
  PROVE  IInv'
<1> DEFINE q == Ended(req[r], reply, code)
<1>1. req[r] \in Request /\ req \in [Requests -> Request] /\ req[r].kind = "invoke"
  BY Pending
<1>2. q \in Request /\ q.pc = "done" /\ q.kind = "invoke" /\ q.code = code /\ q.reply = reply
  BY <1>1, EndedType
<1>3. req' = [req EXCEPT ![r] = q]
  BY DEF End, Ended
<1> HIDE DEF q
<1>4. req'[r] = q
  BY <1>1, <1>3
<1>5. ProgressInv(r)' /\ LookupInv(r)'
  BY <1>2, <1>4 DEF ProgressInv, LookupInv
<1>6. WorkInv(r)'
  BY <1>2, <1>4 DEF WorkInv
<1> QED
  BY <1>1, <1>2, <1>3, <1>5, <1>6, LocalStep

\* An answer that is not recorded and need not be.
LEMMA UnrecordedStep ==
  ASSUME IInv, NEW r \in Requests, req[r].pc # "done", NEW code \in Codes \ {200, 503}, AnswerUnrecorded(r, code),
         code = 404 => ran[r] = 0,
         mode = "dev" /\ req[r].reply = "odd" => code # 500
  PROVE  IInv'
<1> DEFINE q == Ended(req[r], req[r].reply, code)
<1>1. /\ End(r, req[r].reply, code) /\ UNCHANGED cluster
      /\ ran' = ran /\ metrics' = metrics /\ mode' = mode
  BY DEF AnswerUnrecorded, cluster
<1>2. req' = [req EXCEPT ![r] = q]
  BY <1>1 DEF End, Ended
<1>3. req[r] \in Request /\ req[r].reply \in Outcomes /\ code \in Codes
  BY Pending
<1>4. q \in Request /\ q.code = code /\ q.reply = req[r].reply
  BY <1>3, EndedType
<1> HIDE DEF q
<1>5. Uncounted(q, mode)
  BY <1>4 DEF Uncounted, IsTold, IsSpoilt
<1>6. CountersMatchAnswers'
  <2>1. metrics' = metrics /\ mode' = mode /\ q \in Request
    BY <1>1, <1>4
  <2> QED
    BY <1>2, <1>5, <2>1, QuietStep
<1>7. ran' \in [Requests -> Nat] /\ ran'[r] <= 1 /\ (req[r].reply = "none" => ran'[r] = 0)
  BY <1>1, Pending
<1>8. metrics' \in [FeatureIds -> Counts]
  BY <1>1, Pending
<1> QED
  BY <1>1, <1>3, <1>6, <1>7, <1>8, EndStep

\* The answer that is recorded: 200 is a success, 503 is not.
LEMMA RecordedStep ==
  ASSUME IInv, NEW r \in Requests, req[r].pc # "done", NEW code \in {200, 503}, AnswerRecorded(r, code),
         code = 200 => ran[r] = 1
  PROVE  IInv'
<1> DEFINE q == Ended(req[r], req[r].reply, code)
           success == code = 200
<1>1. /\ End(r, req[r].reply, code) /\ Record(r, success) /\ UNCHANGED cluster
      /\ ran' = ran /\ mode' = mode
  BY DEF AnswerRecorded, cluster
<1>2. req' = [req EXCEPT ![r] = q]
  BY <1>1 DEF End, Ended
<1>3. /\ TypeOK /\ CountersMatchAnswers /\ req[r] \in Request /\ req[r].reply \in Outcomes /\ code \in Codes
      /\ req \in [Requests -> Request] /\ req[r].code = 0
  BY Pending DEF Codes
<1>4. q \in Request /\ q.code = code /\ q.face = req[r].face /\ q.fid = req[r].fid /\ q.kind = "invoke"
  BY <1>3, Pending, EndedType
<1> HIDE DEF q
<1>5. req'[r] = q /\ \A p \in Requests \ {r} : req'[p] = req[p]
  BY <1>2, <1>3
<1>6. success \in BOOLEAN
  OBVIOUS
<1>7. /\ metrics' \in [FeatureIds -> Counts]
      /\ \A f \in FeatureIds :
           LET told == req[r].face # "mcp" /\ req[r].fid = f IN
           /\ metrics'[f].inv = metrics[f].inv + (IF told THEN 1 ELSE 0)
           /\ metrics'[f].succ = metrics[f].succ + (IF told /\ success THEN 1 ELSE 0)
  <2> HIDE DEF success
  <2> QED
    BY <1>1, <1>3, <1>6, RecordStep
<1>8. ASSUME NEW f \in FeatureIds
      PROVE  /\ metrics'[f].succ = metrics[f].succ + (IF IsTold(q, f, 200) \/ IsSpoilt(q, f, mode) THEN 1 ELSE 0)
             /\ metrics'[f].inv = metrics[f].inv +
                  (IF IsTold(q, f, 200) \/ IsSpoilt(q, f, mode) \/ IsTold(q, f, 503) THEN 1 ELSE 0)
  BY <1>4, <1>7 DEF IsTold, IsSpoilt
<1>9. CountersMatchAnswers'
  BY <1>1, <1>3, <1>5, <1>8, CountersStep
<1>10. ran' \in [Requests -> Nat] /\ ran'[r] <= 1
  BY <1>1, Pending
<1> QED
  BY <1>1, <1>3, <1>7, <1>9, <1>10, EndStep

\* A request arrives.
LEMMA ReceiveStep ==
  ASSUME IInv, NEW r \in Requests, Receive(r)
  PROVE  IInv'
<1>1. PICK face \in Faces, capability \in BOOLEAN, n \in Names, p \in Payloads :
        /\ face = "mcp" => ~capability
        /\ capability => n = AnyName
        /\ req' = [req EXCEPT ![r].pc = "received", ![r].face = face, ![r].capability = capability,
                              ![r].name = n, ![r].payload = p]
  BY Zenon DEF Receive
<1> DEFINE q == [req[r] EXCEPT !.pc = "received", !.face = face, !.capability = capability,
                               !.name = n, !.payload = p]
<1>2. /\ req[r].pc = "new" /\ UNCHANGED cluster /\ mode' = mode
      /\ ran' = ran /\ metrics' = metrics
  BY DEF Receive, cluster
<1>3. /\ req \in [Requests -> Request] /\ req[r] \in Request /\ ran \in [Requests -> Nat]
      /\ req[r].code = 0 /\ req[r].kind = "invoke" /\ metrics \in [FeatureIds -> Counts]
  BY <1>2, Pending
<1>4. req' = [req EXCEPT ![r] = q]
  BY <1>1, <1>3 DEF Request
<1>5. "received" \in Steps
  BY DEF Steps
<1>6. q \in Request /\ q.pc = "received" /\ q.code = 0 /\ q.kind = "invoke" /\ q.reply = req[r].reply
  BY <1>3, <1>5 DEF Request
<1> HIDE DEF q
<1>7. Uncounted(q, mode)
  BY <1>6 DEF Uncounted, IsTold, IsSpoilt
<1>8. CountersMatchAnswers'
  BY <1>2, <1>4, <1>6, <1>7, QuietStep
<1>9. req'[r] = q /\ ran[r] = 0 /\ req[r].reply = "none"
  BY <1>2, <1>3, <1>4 DEF IInv, ProgressInv
<1>10. ProgressInv(r)' /\ LookupInv(r)' /\ WorkInv(r)'
  BY <1>2, <1>6, <1>9 DEF ProgressInv, LookupInv, WorkInv
<1> QED
  BY <1>2, <1>3, <1>4, <1>6, <1>8, <1>10, LocalStep

\* What needs no invocation is answered at once.
LEMMA AsideStep ==
  ASSUME IInv, NEW r \in Requests, req[r].pc = "new", NEW q \in Request, q.pc = "done", q.kind # "invoke",
         req' = [req EXCEPT ![r] = q], UNCHANGED <<cluster, ran, metrics>>
  PROVE  IInv'
<1>2. UNCHANGED cluster /\ mode' = mode /\ ran' = ran /\ metrics' = metrics
  BY DEF cluster
<1>3. /\ req \in [Requests -> Request] /\ req[r] \in Request /\ ran \in [Requests -> Nat]
      /\ metrics \in [FeatureIds -> Counts]
  BY Pending
<1>7. Uncounted(q, mode)
  BY DEF Uncounted, IsTold, IsSpoilt
<1>8. CountersMatchAnswers'
  BY <1>2, <1>7, QuietStep
<1>9. req'[r] = q /\ ran[r] = 0
  BY <1>3 DEF IInv, ProgressInv
<1>10. ProgressInv(r)' /\ LookupInv(r)' /\ WorkInv(r)'
  BY <1>2, <1>9 DEF ProgressInv, LookupInv, WorkInv
<1> QED
  BY <1>2, <1>3, <1>8, <1>10, LocalStep

\* Notifications and the like.
LEMMA NotifyStep ==
  ASSUME IInv, NEW r \in Requests, Notify(r)
  PROVE  IInv'
<1> DEFINE q == [req[r] EXCEPT !.pc = "done", !.kind = "other", !.code = 200]
<1>1. req \in [Requests -> Request] /\ req[r] \in Request /\ req[r].pc = "new"
  BY Pending DEF Notify
<1>2. "done" \in Steps /\ "other" \in Purposes /\ 200 \in Codes
  BY DEF Steps, Purposes, Codes
<1>3. q \in Request /\ q.pc = "done" /\ q.kind = "other"
  BY <1>1, <1>2 DEF Request
<1>4. req' = [req EXCEPT ![r] = q]
  BY DEF Notify
<1> HIDE DEF q
<1> QED
  BY <1>1, <1>3, <1>4, AsideStep DEF Notify

\* Listings.
LEMMA BrowseStep ==
  ASSUME IInv, NEW r \in Requests, Browse(r)
  PROVE  IInv'
<1>0. PICK names \in {Existing} \cup {Existing \cap {n} : n \in Names}, code \in {200, 404, 500} :
        /\ code = 200 => Parses(names)
        /\ code = 404 => names = {}
        /\ code = 500 => mode = "cluster"
        /\ req' = [req EXCEPT ![r] = [@ EXCEPT !.pc = "done", !.kind = "browse", !.code = code]]
  BY Zenon DEF Browse
<1> DEFINE q == [req[r] EXCEPT !.pc = "done", !.kind = "browse", !.code = code]
<1>1. req \in [Requests -> Request] /\ req[r] \in Request /\ req[r].pc = "new"
  BY Pending DEF Browse
<1>2. "done" \in Steps /\ "browse" \in Purposes /\ code \in Codes
  BY DEF Steps, Purposes, Codes
<1>3. q \in Request /\ q.pc = "done" /\ q.kind = "browse"
  BY <1>1, <1>2 DEF Request
<1>4. req' = [req EXCEPT ![r] = q]
  BY <1>0
<1> HIDE DEF q
<1> QED
  BY <1>1, <1>3, <1>4, AsideStep DEF Browse

\* n is looked up and accepts the input: whatever is of its revision does.
LEMMA AcceptStep ==
  ASSUME IInv, NEW r \in Requests, Accept(r)
  PROVE  IInv'
<1>1. PICK n \in Names : cr[n].schema \in req[r].payload /\ Choose(r, n)
  BY DEF Accept, Found, Existing
<1> DEFINE q == [req[r] EXCEPT !.pc = "validated", !.capability = FALSE, !.name = n,
                               !.fid = <<cr[n].vendor, n>>, !.rev = cr[n].rev]
<1>2. /\ req[r].pc = "received" /\ UNCHANGED cluster /\ mode' = mode /\ cr' = cr /\ pod' = pod /\ edits' = edits
      /\ ran' = ran /\ metrics' = metrics
  BY <1>1 DEF Choose, cluster
<1>3. /\ req \in [Requests -> Request] /\ req[r] \in Request /\ ran \in [Requests -> Nat]
      /\ req[r].code = 0 /\ req[r].kind = "invoke" /\ metrics \in [FeatureIds -> Counts]
  BY <1>2, Pending
<1>4. req' = [req EXCEPT ![r] = q]
  BY <1>1, <1>3 DEF Choose, Request
<1>5. "validated" \in Steps /\ <<cr[n].vendor, n>> \in FeatureIds /\ cr[n].rev \in Revisions
  BY Fields DEF IInv, TypeOK, Steps, FeatureIds
<1>6. /\ q \in Request /\ q.pc = "validated" /\ q.code = 0 /\ q.kind = "invoke" /\ q.reply = req[r].reply
      /\ q.name = n /\ q.rev = cr[n].rev /\ q.fid = <<cr[n].vendor, n>> /\ q.payload = req[r].payload
  BY <1>3, <1>5 DEF Request
<1> HIDE DEF q
<1>7. Uncounted(q, mode)
  BY <1>6 DEF Uncounted, IsTold, IsSpoilt
<1>8. CountersMatchAnswers'
  BY <1>2, <1>4, <1>6, <1>7, QuietStep
<1>9. req'[r] = q /\ ran[r] = 0 /\ req[r].reply = "none" /\ ResourceInv(n)
  BY <1>2, <1>3, <1>4 DEF IInv, ProgressInv
<1>10. ProgressInv(r)' /\ WorkInv(r)'
  BY <1>2, <1>6, <1>9 DEF ProgressInv, WorkInv
<1>11. LookupInv(r)'
  <2>1. q.fid[1] = cr[n].vendor
    BY <1>6
  <2> QED
    BY <1>1, <1>2, <1>6, <1>9, <2>1 DEF LookupInv, Fits, ResourceInv
<1> QED
  BY <1>2, <1>3, <1>4, <1>6, <1>8, <1>10, <1>11, LocalStep

\* The gRPC call is made.
LEMMA SendStep ==
  ASSUME IInv, NEW r \in Requests, Send(r)
  PROVE  IInv'
<1> DEFINE q == [req[r] EXCEPT !.pc = "sent"]
           n == req[r].name
<1>2. /\ req[r].pc = "validated" /\ mode = "cluster" /\ UNCHANGED cluster /\ ran' = ran /\ metrics' = metrics
      /\ mode' = mode /\ cr' = cr /\ pod' = pod /\ edits' = edits
  BY DEF Send, Dispatching, cluster
<1>3. /\ req \in [Requests -> Request] /\ req[r] \in Request /\ ran \in [Requests -> Nat] /\ n \in Names
      /\ req[r].code = 0 /\ req[r].kind = "invoke" /\ metrics \in [FeatureIds -> Counts]
  BY <1>2, Pending
<1>4. req' = [req EXCEPT ![r] = q]
  BY <1>3 DEF Send, Request
<1>5. "sent" \in Steps
  BY DEF Steps
<1>6. /\ q \in Request /\ q.pc = "sent" /\ q.code = 0 /\ q.kind = "invoke" /\ q.reply = req[r].reply
      /\ q.name = n /\ q.rev = req[r].rev /\ q.fid = req[r].fid /\ q.payload = req[r].payload
  BY <1>3, <1>5 DEF Request
<1> HIDE DEF q
<1>7. Uncounted(q, mode)
  BY <1>6 DEF Uncounted, IsTold, IsSpoilt
<1>8. CountersMatchAnswers'
  BY <1>2, <1>4, <1>6, <1>7, QuietStep
<1>9. req'[r] = q /\ ran[r] = 0 /\ req[r].reply = "none" /\ LookupInv(r)
  BY <1>2, <1>3, <1>4 DEF IInv, ProgressInv
<1>11. ProgressInv(r)' /\ WorkInv(r)'
  BY <1>2, <1>6, <1>9 DEF ProgressInv, WorkInv
<1>12. LookupInv(r)'
  BY <1>2, <1>6, <1>9 DEF LookupInv, Fits
<1> QED
  BY <1>2, <1>3, <1>4, <1>6, <1>8, <1>11, <1>12, LocalStep

\* The workload runs the call.
LEMMA ExecuteStep ==
  ASSUME IInv, NEW r \in Requests, Execute(r)
  PROVE  IInv'
<1> DEFINE n == req[r].name
<1>1. PICK answer \in {"ok", "odd", "invalid", "error"} : req' = [req EXCEPT ![r].reply = answer, ![r].by = pod[n]]
  BY DEF Execute
<1> DEFINE q == [req[r] EXCEPT !.reply = answer, !.by = pod[n]]
<1>2. /\ req[r].pc = "sent" /\ req[r].reply = "none" /\ UNCHANGED cluster /\ metrics' = metrics
      /\ mode' = mode /\ cr' = cr /\ pod' = pod /\ edits' = edits /\ ran' = [ran EXCEPT ![r] = @ + 1]
  BY DEF Execute, cluster
<1>3. /\ req \in [Requests -> Request] /\ req[r] \in Request /\ ran \in [Requests -> Nat] /\ n \in Names
      /\ req[r].code = 0 /\ req[r].kind = "invoke" /\ metrics \in [FeatureIds -> Counts]
      /\ ran[r] = 0
  BY <1>2, Pending
<1>4. req' = [req EXCEPT ![r] = q]
  BY <1>1, <1>3 DEF Request
<1>5. answer \in Outcomes /\ pod[n] \in Workload
  BY <1>3 DEF Outcomes, IInv, TypeOK
<1>6. /\ q \in Request /\ q.pc = "sent" /\ q.code = 0 /\ q.kind = "invoke" /\ q.reply = answer /\ q.by = pod[n]
      /\ q.name = n /\ q.rev = req[r].rev /\ q.fid = req[r].fid /\ q.payload = req[r].payload
  BY <1>2, <1>3, <1>5 DEF Request
<1> HIDE DEF q
<1>7. Uncounted(q, mode)
  BY <1>6 DEF Uncounted, IsTold, IsSpoilt
<1>8. CountersMatchAnswers'
  BY <1>2, <1>4, <1>6, <1>7, QuietStep
<1>9. req'[r] = q /\ LookupInv(r) /\ ProgressInv(r)
  BY <1>2, <1>3, <1>4 DEF IInv
<1>10. ran' \in [Requests -> Nat] /\ ran'[r] = 1 /\ \A p \in Requests \ {r} : ran'[p] = ran[p]
  BY <1>2, <1>3
<1>11. ProgressInv(r)' /\ WorkInv(r)'
  BY <1>2, <1>6, <1>9, <1>10 DEF ProgressInv, WorkInv
<1>12. LookupInv(r)'
  BY <1>2, <1>6, <1>9 DEF LookupInv, Fits
<1> QED
  BY <1>2, <1>3, <1>4, <1>6, <1>8, <1>10, <1>11, <1>12, LocalStep

\* A sample runs in the gateway's process.
LEMMA RunLocallyStep ==
  ASSUME IInv, NEW r \in Requests, RunLocally(r)
  PROVE  IInv'
<1>1. PICK o \in SampleOutcomes(req[r].name) :
        /\ End(r, o, CASE o = "ok" -> 200 [] o = "invalid" -> 422 [] OTHER -> 500)
        /\ IF o \in {"ok", "odd"} THEN Record(r, TRUE) ELSE UNCHANGED metrics
  BY Zenon DEF RunLocally
<1>2. o \in {"ok", "odd", "invalid", "raised"}
  BY DEF SampleOutcomes
<1> DEFINE code == CASE o = "ok" -> 200 [] o = "invalid" -> 422 [] OTHER -> 500
           q == Ended(req[r], o, code)
<1>3. /\ (o = "ok" => code = 200) /\ (o = "invalid" => code = 422) /\ (o \in {"odd", "raised"} => code = 500)
      /\ o \in Outcomes /\ code \in Codes /\ o # "none"
  BY <1>2 DEF Outcomes, Codes
<1>4. End(r, o, code)
  BY <1>1
<1> HIDE DEF code
<1>5. /\ req[r].pc = "validated" /\ mode = "dev" /\ mode' = mode /\ UNCHANGED cluster
      /\ ran' = [ran EXCEPT ![r] = @ + 1]
  BY DEF RunLocally, cluster
<1>6. /\ TypeOK /\ req \in [Requests -> Request] /\ req[r] \in Request /\ ran \in [Requests -> Nat]
      /\ req[r].code = 0 /\ req[r].kind = "invoke" /\ metrics \in [FeatureIds -> Counts] /\ CountersMatchAnswers
  BY <1>5, Pending
<1>7. ran[r] = 0
  BY <1>5 DEF IInv, ProgressInv
<1>8. ran' \in [Requests -> Nat] /\ ran'[r] = 1 /\ \A p \in Requests \ {r} : ran'[p] = ran[p]
  BY <1>5, <1>6, <1>7
<1>9. req' = [req EXCEPT ![r] = q]
  BY <1>4 DEF End, Ended
<1>10. /\ q \in Request /\ q.code = code /\ q.reply = o /\ q.face = req[r].face /\ q.fid = req[r].fid
       /\ q.kind = "invoke"
  BY <1>3, <1>6, EndedType
<1> HIDE DEF q
<1>11. req'[r] = q /\ \A p \in Requests \ {r} : req'[p] = req[p]
  BY <1>6, <1>9
<1>12. metrics' \in [FeatureIds -> Counts] /\ CountersMatchAnswers'
  <2>1. CASE o \in {"ok", "odd"}
    <3>1. /\ metrics' \in [FeatureIds -> Counts]
          /\ \A f \in FeatureIds :
               LET told == req[r].face # "mcp" /\ req[r].fid = f IN
               /\ metrics'[f].inv = metrics[f].inv + (IF told THEN 1 ELSE 0)
               /\ metrics'[f].succ = metrics[f].succ + (IF told /\ TRUE THEN 1 ELSE 0)
      <4>1. Record(r, TRUE) /\ TRUE \in BOOLEAN
        BY <1>1, <2>1
      <4> QED
        BY <1>6, <4>1, RecordStep
    <3>2. ASSUME NEW f \in FeatureIds
          PROVE  /\ metrics'[f].succ = metrics[f].succ + (IF IsTold(q, f, 200) \/ IsSpoilt(q, f, mode) THEN 1 ELSE 0)
                 /\ metrics'[f].inv = metrics[f].inv +
                      (IF IsTold(q, f, 200) \/ IsSpoilt(q, f, mode) \/ IsTold(q, f, 503) THEN 1 ELSE 0)
      BY <1>3, <1>5, <1>10, <2>1, <3>1 DEF IsTold, IsSpoilt
    <3> QED
      BY <1>5, <1>6, <1>11, <3>1, <3>2, CountersStep
  <2>2. CASE o \notin {"ok", "odd"}
    <3>1. metrics' = metrics
      BY <1>1, <2>2
    <3>2. Uncounted(q, mode)
      BY <1>2, <1>3, <1>10, <2>2 DEF Uncounted, IsTold, IsSpoilt
    <3>3. CountersMatchAnswers'
      BY <1>5, <1>9, <1>10, <3>1, <3>2, QuietStep
    <3> QED
      BY <1>6, <3>1, <3>3
  <2> QED
    BY <2>1, <2>2
<1>13. code # 404
  BY <1>2, <1>3
<1> QED
  BY <1>3, <1>4, <1>5, <1>8, <1>12, <1>13, EndStep

\* The steps that end a request.
LEMMA AnswerStep ==
  ASSUME IInv, NEW r \in Requests,
         \/ LookupFails(r) \/ NotFound(r) \/ Reject(r) \/ DispatchFails(r)
         \/ NoEndpoint(r) \/ Respond(r) \/ Expire(r) \/ Disconnect(r)
  PROVE  IInv'
<1>0. {0, 200, 404, 422, 500, 503, 499} = Codes /\ ProgressInv(r)
  BY DEF Codes, IInv
<1>1. CASE LookupFails(r)
  BY <1>0, <1>1, UnrecordedStep DEF LookupFails
<1>2. CASE NotFound(r)
  BY <1>0, <1>2, UnrecordedStep DEF NotFound, ProgressInv
<1>3. CASE Reject(r)
  BY <1>0, <1>3, UnrecordedStep DEF Reject, Mismatch
<1>4. CASE DispatchFails(r)
  BY <1>0, <1>4, UnrecordedStep DEF DispatchFails, Dispatching
<1>5. CASE NoEndpoint(r)
  BY <1>5, RecordedStep DEF NoEndpoint, Dispatching
<1>6. CASE Respond(r)
  <2>1. req[r].pc = "sent" /\ req[r].pc # "done" /\ mode # "dev" /\ (req[r].reply # "none" => ran[r] = 1)
    BY <1>0, <1>6 DEF Respond, ProgressInv
  <2>2. CASE req[r].reply = "ok" /\ AnswerRecorded(r, 200)
    BY <2>1, <2>2, RecordedStep
  <2>3. CASE AnswerUnrecorded(r, 500) \/ AnswerUnrecorded(r, 422)
    BY <1>0, <2>1, <2>3, UnrecordedStep
  <2>4. CASE AnswerRecorded(r, 503)
    BY <2>1, <2>4, RecordedStep
  <2> QED
    BY <1>6, <2>2, <2>3, <2>4 DEF Respond
<1>7. CASE Expire(r)
  BY <1>7, RecordedStep DEF Expire
<1>8. CASE Disconnect(r)
  BY <1>0, <1>8, UnrecordedStep DEF Disconnect
<1> QED
  BY <1>1, <1>2, <1>3, <1>4, <1>5, <1>6, <1>7, <1>8

-----------------------------------------------------------------------------
(* The steps of the cluster *)

\* A step of the cluster that keeps what a looked-up revision stands for.
LEMMA ClusterStep ==
  ASSUME IInv, NEW n \in Names, UNCHANGED gateway, mode' = mode,
         cr' \in [Names -> Resource], pod' \in [Names -> Workload], edits' \in Revisions, edits <= edits',
         \A k \in Names \ {n} : cr'[k] = cr[k] /\ pod'[k] = pod[k],
         cr'[n].rev <= edits',
         pod'[n].rev = cr'[n].rev => pod'[n].schema = cr'[n].schema /\ pod'[n].vendor = cr'[n].vendor,
         \/ cr'[n].rev = cr[n].rev /\ cr'[n].schema = cr[n].schema /\ cr'[n].vendor = cr[n].vendor
         \/ cr'[n].rev > edits,
         \/ pod'[n] = pod[n]
         \/ pod'[n].rev = cr[n].rev /\ pod'[n].schema = cr[n].schema /\ pod'[n].vendor = cr[n].vendor
  PROVE  IInv'
<1>0. TypeOK /\ req' = req /\ ran' = ran /\ metrics' = metrics /\ CountersMatchAnswers
  BY DEF IInv, gateway
<1>1. TypeOK'
  BY <1>0 DEF TypeOK
<1>2. CountersMatchAnswers'
  <2>1. \A f \in FeatureIds, code \in {200, 503} : Told(f, code)' = Told(f, code) /\ Spoilt(f)' = Spoilt(f)
    BY <1>0 DEF Told, Spoilt
  <2> QED
    BY <1>0, <2>1 DEF CountersMatchAnswers
<1>3. /\ edits \in Nat /\ edits' \in Nat
      /\ \A k \in Names : cr[k].rev \in Nat /\ cr'[k].rev \in Nat /\ pod[k].rev \in Nat /\ pod'[k].rev \in Nat
  BY <1>0, Fields, RevisionType DEF TypeOK
<1>4. ASSUME NEW k \in Names PROVE ResourceInv(k)'
  <2>1. ResourceInv(k) /\ ResourceInv(n)
    BY DEF IInv
  <2>2. cr'[k].rev <= edits' /\ pod'[k].rev <= edits'
    BY <1>3, <2>1 DEF ResourceInv
  <2> QED
    BY <1>0, <2>1, <2>2 DEF ResourceInv
<1>5. ASSUME NEW r \in Requests PROVE ProgressInv(r)' /\ WorkInv(r)' /\ LookupInv(r)'
  <2>1. ProgressInv(r) /\ WorkInv(r) /\ LookupInv(r)
    BY DEF IInv
  <2>2. ProgressInv(r)'
    BY <1>0, <2>1 DEF ProgressInv
  <2>3. WorkInv(r)'
    BY <1>0, <2>1 DEF WorkInv
  <2>4. req[r].name \in Names /\ req[r].rev \in Nat
    BY <1>0, Fields, RevisionType DEF TypeOK
  <2>5. LookupInv(r)'
    <3>1. req[r].pc = "sent" /\ req[r].reply # "none" => Fits(r, req[r].by)'
      BY <1>0, <2>1 DEF LookupInv, Fits
    <3>2. ASSUME req[r].pc \in {"validated", "sent"}
          PROVE  req[r].rev <= edits' /\ Fits(r, cr[req[r].name])' /\ Fits(r, pod[req[r].name])'
      <4>1. req[r].rev <= edits /\ Fits(r, cr[req[r].name]) /\ Fits(r, pod[req[r].name])
        BY <2>1, <3>2 DEF LookupInv
      <4>2. CASE req[r].name # n
        BY <1>0, <1>3, <2>4, <4>1, <4>2 DEF Fits
      <4>3. CASE req[r].name = n
        <5>1. req[r].rev <= edits'
          BY <1>3, <2>4, <4>1
        <5>2. Fits(r, cr[req[r].name])'
          BY <1>0, <1>3, <2>4, <4>1, <4>3 DEF Fits
        <5>3. Fits(r, pod[req[r].name])'
          BY <1>0, <1>3, <2>4, <4>1, <4>3 DEF Fits
        <5> QED
          BY <5>1, <5>2, <5>3
      <4> QED
        BY <4>2, <4>3
    <3> QED
      BY <1>0, <3>1, <3>2 DEF LookupInv
  <2> QED
    BY <2>2, <2>3, <2>5
<1> QED
  BY <1>1, <1>2, <1>4, <1>5 DEF IInv

\* A Feature is created or edited: its revision is new to every request.
LEMMA ApplyStep ==
  ASSUME IInv, NEW n \in Names, Apply(n)
  PROVE  IInv'
<1>1. PICK v \in Vendors, s \in Declared :
        cr' = [cr EXCEPT ![n] = [exists |-> TRUE, vendor |-> v, schema |-> s,
                                 endpoint |-> @.exists /\ @.endpoint, rev |-> edits + 1]]
  BY DEF Apply
<1> DEFINE c == [exists |-> TRUE, vendor |-> v, schema |-> s,
                 endpoint |-> cr[n].exists /\ cr[n].endpoint, rev |-> edits + 1]
<1>2. edits < MaxEdits /\ edits' = edits + 1 /\ mode' = mode /\ pod' = pod /\ UNCHANGED gateway
  BY DEF Apply
<1>3. TypeOK /\ cr \in [Names -> Resource] /\ pod \in [Names -> Workload] /\ edits \in Revisions
  BY DEF IInv, TypeOK
<1>4. edits \in Nat /\ edits + 1 \in Revisions /\ pod[n].rev \in Nat
  BY <1>2, <1>3, Fields, RevisionType
<1>5. c \in Resource /\ c.rev = edits + 1
  <2>1. (cr[n].exists /\ cr[n].endpoint) \in BOOLEAN
    OBVIOUS
  <2> QED
    BY <1>4, <2>1 DEF Resource
<1>6. cr' = [cr EXCEPT ![n] = c]
  BY <1>1
<1> HIDE DEF c
<1>7. cr' \in [Names -> Resource] /\ cr'[n] = c /\ \A k \in Names \ {n} : cr'[k] = cr[k]
  BY <1>3, <1>5, <1>6
<1>8. pod[n].rev <= edits
  BY DEF IInv, ResourceInv
<1> QED
  BY <1>2, <1>3, <1>4, <1>5, <1>7, <1>8, ClusterStep

\* A Feature is deleted: likewise.
LEMMA DeleteStep ==
  ASSUME IInv, NEW n \in Names, Delete(n)
  PROVE  IInv'
<1> DEFINE c == [cr[n] EXCEPT !.exists = FALSE, !.endpoint = FALSE, !.rev = edits + 1]
<1>2. edits < MaxEdits /\ edits' = edits + 1 /\ mode' = mode /\ pod' = pod /\ UNCHANGED gateway
  BY DEF Delete
<1>3. TypeOK /\ cr \in [Names -> Resource] /\ pod \in [Names -> Workload] /\ edits \in Revisions
  BY DEF IInv, TypeOK
<1>4. edits \in Nat /\ edits + 1 \in Revisions /\ pod[n].rev \in Nat /\ cr[n] \in Resource
  BY <1>2, <1>3, Fields, RevisionType
<1>5. c \in Resource /\ c.rev = edits + 1
  BY <1>4 DEF Resource
<1>6. cr' = [cr EXCEPT ![n] = c]
  BY <1>3 DEF Delete, Resource
<1> HIDE DEF c
<1>7. cr' \in [Names -> Resource] /\ cr'[n] = c /\ \A k \in Names \ {n} : cr'[k] = cr[k]
  BY <1>3, <1>5, <1>6
<1>8. pod[n].rev <= edits
  BY DEF IInv, ResourceInv
<1> QED
  BY <1>2, <1>3, <1>4, <1>5, <1>7, <1>8, ClusterStep

\* The endpoint is published.
LEMMA PublishStep ==
  ASSUME IInv, NEW n \in Names, Publish(n)
  PROVE  IInv'
<1> DEFINE c == [cr[n] EXCEPT !.endpoint = TRUE]
<1>2. edits' = edits /\ mode' = mode /\ pod' = pod /\ UNCHANGED gateway
  BY DEF Publish
<1>3. TypeOK /\ cr \in [Names -> Resource] /\ pod \in [Names -> Workload] /\ edits \in Revisions
  BY DEF IInv, TypeOK
<1>4. edits \in Nat /\ edits <= edits /\ cr[n] \in Resource /\ ResourceInv(n)
  BY <1>3, RevisionType DEF IInv
<1>5. c \in Resource /\ c.rev = cr[n].rev /\ c.schema = cr[n].schema /\ c.vendor = cr[n].vendor
  BY <1>4 DEF Resource
<1>6. cr' = [cr EXCEPT ![n] = c]
  BY <1>3 DEF Publish, Resource
<1> HIDE DEF c
<1>7. cr' \in [Names -> Resource] /\ cr'[n] = c /\ \A k \in Names \ {n} : cr'[k] = cr[k]
  BY <1>3, <1>5, <1>6
<1>8. /\ cr'[n].rev <= edits
      /\ pod[n].rev = cr'[n].rev => pod[n].schema = cr'[n].schema /\ pod[n].vendor = cr'[n].vendor
  BY <1>4, <1>5, <1>7 DEF ResourceInv
<1> QED
  BY <1>2, <1>3, <1>4, <1>5, <1>7, <1>8, ClusterStep

\* The workload becomes what the resource says.
LEMMA RolloutStep ==
  ASSUME IInv, NEW n \in Names, Rollout(n)
  PROVE  IInv'
<1> DEFINE w == [up |-> cr[n].exists, vendor |-> cr[n].vendor, schema |-> cr[n].schema, rev |-> cr[n].rev]
<1>2. edits' = edits /\ mode' = mode /\ cr' = cr /\ UNCHANGED gateway /\ pod' = [pod EXCEPT ![n] = w]
  BY DEF Rollout
<1>3. TypeOK /\ cr \in [Names -> Resource] /\ pod \in [Names -> Workload] /\ edits \in Revisions
  BY DEF IInv, TypeOK
<1>4. edits \in Nat /\ edits <= edits /\ cr[n] \in Resource /\ cr[n].rev <= edits
  BY <1>3, RevisionType DEF IInv, ResourceInv
<1>5. w \in Workload /\ w.rev = cr[n].rev /\ w.schema = cr[n].schema /\ w.vendor = cr[n].vendor
  BY <1>4, Fields DEF Workload
<1> HIDE DEF w
<1>6. pod' \in [Names -> Workload] /\ pod'[n] = w /\ \A k \in Names \ {n} : pod'[k] = pod[k]
  BY <1>2, <1>3, <1>5
<1> QED
  BY <1>2, <1>3, <1>4, <1>5, <1>6, ClusterStep

-----------------------------------------------------------------------------
(* The results *)

\* Nothing has happened yet.
LEMMA InitIInv == Init => IInv
<1> SUFFICES ASSUME Init PROVE IInv
  OBVIOUS
<1>1. PICK later \in SUBSET Edited :
        /\ cr = [n \in Names |-> [exists |-> n \notin later, vendor |-> AnyVendor, schema |-> AnySchema,
                                  endpoint |-> n \notin later, rev |-> 0]]
        /\ pod = [n \in Names |-> [AnyWorkload EXCEPT !.up = n \notin later]]
  BY DEF Init
<1>2. /\ mode \in {"cluster", "dev"} /\ req = [r \in Requests |-> Blank] /\ edits = 0
      /\ ran = [r \in Requests |-> 0] /\ metrics = [f \in FeatureIds |-> [inv |-> 0, succ |-> 0]]
  BY DEF Init
<1>3. ASSUME NEW n \in Names
      PROVE  /\ cr[n] \in Resource /\ cr[n].rev = 0 /\ cr[n].vendor = AnyVendor /\ cr[n].schema = AnySchema
             /\ pod[n] \in Workload /\ pod[n].rev = 0 /\ pod[n].vendor = AnyVendor /\ pod[n].schema = AnySchema
  <2>1. AnyVendor \in Vendors /\ AnySchema \in Declared /\ 0 \in Revisions /\ (n \notin later) \in BOOLEAN
    BY BlankType, RevisionType DEF Declared
  <2>2. /\ cr[n] = [exists |-> n \notin later, vendor |-> AnyVendor, schema |-> AnySchema,
                    endpoint |-> n \notin later, rev |-> 0]
        /\ pod[n] = [AnyWorkload EXCEPT !.up = n \notin later]
    BY <1>1
  <2>3. cr[n] \in Resource
    BY <2>1, <2>2 DEF Resource
  <2>4. pod[n] = [up |-> n \notin later, vendor |-> AnyVendor, schema |-> AnySchema, rev |-> 0]
    BY <2>2 DEF AnyWorkload
  <2>5. pod[n] \in Workload
    BY <2>1, <2>4 DEF Workload
  <2> QED
    BY <2>2, <2>3, <2>4, <2>5
<1>4. \A r \in Requests : req[r] = Blank /\ ran[r] = 0
  BY <1>2
<1>5. TypeOK
  <2>1. cr \in [Names -> Resource] /\ pod \in [Names -> Workload]
    BY <1>1, <1>3
  <2>2. metrics \in [FeatureIds -> Counts]
    BY <1>2 DEF Counts
  <2> QED
    BY <1>2, <2>1, <2>2, BlankType, RevisionType DEF TypeOK
<1>6. CountersMatchAnswers
  <2>1. ASSUME NEW f \in FeatureIds, NEW code \in {200, 500, 503} PROVE Told(f, code) = {} /\ Spoilt(f) = {}
    BY <1>4, BlankType DEF Told, Spoilt
  <2>2. Cardinality({}) = 0
    BY FS_EmptySet
  <2>3. \A f \in FeatureIds : metrics[f].inv = 0 /\ metrics[f].succ = 0
    BY <1>2
  <2> QED
    BY <2>1, <2>2, <2>3 DEF CountersMatchAnswers
<1>7. \A n \in Names : ResourceInv(n)
  BY <1>2, <1>3 DEF ResourceInv
<1>8. \A r \in Requests : ProgressInv(r) /\ LookupInv(r) /\ WorkInv(r)
  BY <1>4, BlankType DEF ProgressInv, LookupInv, WorkInv
<1> QED
  BY <1>5, <1>6, <1>7, <1>8 DEF IInv

\* A step that changes nothing.
LEMMA StutterStep ==
  ASSUME IInv, UNCHANGED vars
  PROVE  IInv'
<1>0. /\ mode' = mode /\ cr' = cr /\ pod' = pod /\ edits' = edits /\ req' = req /\ ran' = ran
      /\ metrics' = metrics
  BY DEF vars
<1>1. TypeOK'
  BY <1>0 DEF IInv, TypeOK
<1>2. CountersMatchAnswers'
  <2>1. \A f \in FeatureIds, code \in {200, 503} : Told(f, code)' = Told(f, code) /\ Spoilt(f)' = Spoilt(f)
    BY <1>0 DEF Told, Spoilt
  <2>2. CountersMatchAnswers
    BY DEF IInv
  <2> QED
    BY <1>0, <2>1, <2>2 DEF CountersMatchAnswers
<1>3. \A n \in Names : ResourceInv(n)'
  BY <1>0 DEF IInv, ResourceInv
<1>4. \A r \in Requests : ProgressInv(r)' /\ LookupInv(r)' /\ WorkInv(r)'
  BY <1>0 DEF IInv, ProgressInv, LookupInv, WorkInv, Fits
<1> QED
  BY <1>1, <1>2, <1>3, <1>4 DEF IInv

\* Every step of the gateway and of the cluster keeps the invariant.
LEMMA NextStep == IInv /\ [Next]_vars => IInv'
<1> SUFFICES ASSUME IInv, [Next]_vars PROVE IInv'
  OBVIOUS
<1>1. CASE Cluster
  BY <1>1, GatewayAssumption, ApplyStep, DeleteStep, PublishStep, RolloutStep DEF Cluster
<1>2. ASSUME NEW r \in Requests, Receive(r) \/ Disconnect(r) \/ Notify(r) \/ Browse(r) \/ Execute(r) PROVE IInv'
  BY <1>2, ReceiveStep, AnswerStep, NotifyStep, BrowseStep, ExecuteStep
<1>3. ASSUME NEW r \in Requests, Handle(r) PROVE IInv'
  BY <1>3, AnswerStep, AcceptStep, RunLocallyStep, SendStep DEF Handle
<1>4. CASE UNCHANGED vars
  BY <1>4, StutterStep
<1> QED
  BY <1>1, <1>2, <1>3, <1>4 DEF Next

\* The invariant holds in every reachable state.
LEMMA Invariance == Spec => []IInv
BY InitIInv, NextStep, PTL DEF Spec

\* Whatever is edited and rolled out underneath, resources, workloads,
\* requests and counters keep their types (main.py, mcp.py,
\* catalog.py, invoker.py).
THEOREM TypeCorrect == Spec => []TypeOK
<1>1. IInv => TypeOK
  BY DEF IInv
<1> QED
  BY <1>1, Invariance, PTL

\* However many requests run at the same time, in both modes, the counters
\* that features are ranked by are exactly what the REST and chat handlers
\* answered (main.py:138-172, 371-387).
THEOREM CountersAccounted == Spec => []CountersMatchAnswers
<1>1. IInv => CountersMatchAnswers
  BY DEF IInv
<1> QED
  BY <1>1, Invariance, PTL

\* A refused request was not executed, an answered one was, and none is
\* executed twice, however deadlines, rollouts and callers who hang up
\* interleave (mcp.py:51-53, main.py:138-172, invoker.py:109-117).
THEOREM WorkAccounted == Spec => []AnswersMatchWork
<1>1. IInv => AnswersMatchWork
  BY DEF IInv, WorkInv, AnswersMatchWork
<1> QED
  BY <1>1, Invariance, PTL

\* A workload of the revision that was looked up accepts the input and gets
\* the credit, for any number of edits between the two catalog reads and the
\* call (main.py:140, 144-148).
THEOREM RevisionsAgree == Spec => []RevisionAgrees
<1>1. IInv => RevisionAgrees
  BY DEF IInv, LookupInv, Fits, RevisionAgrees
<1> QED
  BY <1>1, Invariance, PTL
=============================================================================
