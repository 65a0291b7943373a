--------------------------- MODULE SigningProofs ---------------------------
(***************************************************************************)
(* Signing's safety properties for any number of requests, threads and     *)
(* changes.                                                                *)
(***************************************************************************)
EXTENDS Signing, TLAPS

-----------------------------------------------------------------------------
(* The inductive invariant *)

\* Where a request has looked the feature up and is not answered yet.
Holding == {"list", "exists", "which", "write", "run", "unlink"}

\* What was found is still there unless something has changed.
LookupInv(r) ==
  /\ req[r].pc \in Holding =>
       /\ req[r].found # 0
       /\ req[r].before # Changed => req[r].before = bundle /\ req[r].found = manifest
  /\ req[r].pc \in Holding \ {"list", "exists"} => req[r].before # None

\* A file belongs to a request that will remove it, or failed to write it.
FileInv(r) ==
  /\ req[r].code # 0 => req[r].pc = "done"
  /\ r \in blobs => req[r].pc \in {"run", "unlink"} \/ req[r].code = 500

\* What a status says, from the step that sets it.
StatusInv(r) ==
  /\ req[r].pc \notin {"unlink", "done"} => req[r].status = ""
  /\ req[r].pc = "unlink" => req[r].status \in {"verified", "failed", "unverified"}
  /\ req[r].status = "verified" => Attested(req[r].found)
  /\ req[r].before # Changed /\ req[r].status # "" =>
       /\ req[r].status = "unsigned" => req[r].before = None
       /\ req[r].before = None => req[r].status = "unsigned"
       /\ req[r].status = "verified" => req[r].before.rev = req[r].found

RequestInv(r) == LookupInv(r) /\ FileInv(r) /\ StatusInv(r)

IInv ==
  /\ TypeOK
  /\ bundle \in signed \cup {None}
  /\ \A r \in Requests : RequestInv(r)

\* At the start nothing is signed and no request has arrived.
LEMMA InitIInv == Init => IInv
<1> SUFFICES ASSUME Init PROVE IInv
  OBVIOUS
<1>1. Blank \in Request
  BY SigningAssumption DEF Blank, Request, Revisions, Seen, Steps, Routes, Codes, Statuses
<1>2. TypeOK
  <2>1. [rev |-> 1, by |-> "ci"] \in Signatures /\ 1 \in Revisions
    BY SigningAssumption DEF Signatures, Revisions
  <2> QED
    BY <1>1, <2>1, SigningAssumption DEF Init, TypeOK, Bundles
<1>3. ASSUME NEW r \in Requests
      PROVE  RequestInv(r)
  BY DEF Init, Blank, RequestInv, LookupInv, FileInv, StatusInv, Holding
<1>4. bundle \in signed \cup {None}
  BY DEF Init
<1> QED
  BY <1>2, <1>3, <1>4 DEF IInv

-----------------------------------------------------------------------------
(* The world changes *)

\* A change makes every open request forget what it saw; answers stay.
LEMMA ChangeStep ==
  ASSUME IInv, Change, manifest' \in Revisions, bundle' \in Bundles, signed' \subseteq Signatures,
         signed \subseteq signed', bundle' \in signed' \cup {None}
  PROVE  IInv'
<1>1. ASSUME NEW r \in Requests
      PROVE  req'[r] \in Request /\ RequestInv(r)'
  <2>1. req[r] \in Request /\ RequestInv(r)
    BY DEF IInv, TypeOK
  <2>2. CASE req[r].pc = "done"
    <3>1. req'[r] = req[r] /\ blobs' = blobs
      BY <2>2 DEF Change
    <3>2. LookupInv(r)'
      BY <2>2, <3>1 DEF LookupInv, Holding
    <3>3. FileInv(r)'
      BY <2>1, <3>1 DEF RequestInv, FileInv
    <3>4. StatusInv(r)'
      BY <2>1, <3>1 DEF RequestInv, StatusInv, Attested, Change
    <3> QED
      BY <2>1, <3>1, <3>2, <3>3, <3>4 DEF RequestInv
  <2>3. CASE req[r].pc # "done"
    <3> DEFINE q == [req[r] EXCEPT !.before = Changed]
    <3>1. req'[r] = q /\ blobs' = blobs
      BY <2>3 DEF Change
    <3>2. /\ q \in Request
          /\ q.pc = req[r].pc /\ q.code = req[r].code /\ q.status = req[r].status
          /\ q.found = req[r].found /\ q.before = Changed
      BY <2>1 DEF Request, Seen
    <3> HIDE DEF q
    <3>3. LookupInv(r)'
      BY <2>1, <3>1, <3>2 DEF RequestInv, LookupInv, Changed, None
    <3>4. FileInv(r)'
      BY <2>1, <3>1, <3>2 DEF RequestInv, FileInv
    <3>5. StatusInv(r)'
      BY <2>1, <3>1, <3>2 DEF RequestInv, StatusInv, Attested, Change
    <3> QED
      BY <3>1, <3>2, <3>3, <3>4, <3>5 DEF RequestInv
  <2> QED
    BY <2>2, <2>3
<1>2. req' \in [Requests -> Request]
  BY <1>1 DEF Change
<1>3. TypeOK'
  BY <1>2, SigningAssumption DEF IInv, TypeOK, Change
<1> QED
  BY <1>1, <1>3 DEF IInv

\* An edit is such a change.
LEMMA EditStep == IInv /\ Edit => IInv'
<1> SUFFICES ASSUME IInv, Edit PROVE IInv'
  OBVIOUS
<1>1. manifest' \in Revisions
  BY SigningAssumption DEF Edit, Change, IInv, TypeOK, Revisions
<1> QED
  BY <1>1, ChangeStep DEF Edit, IInv, TypeOK

\* So is a delivery, which also adds the signature that was made.
LEMMA DeliverStep == IInv /\ Deliver => IInv'
<1> SUFFICES ASSUME IInv, Deliver PROVE IInv'
  OBVIOUS
<1>1. bundle' \in Signatures /\ bundle' \in Bundles
  BY DEF Deliver, Bundles
<1> QED
  BY <1>1, ChangeStep DEF Deliver, IInv, TypeOK

\* So is a withdrawal.
LEMMA WithdrawStep == IInv /\ Withdraw => IInv'
BY ChangeStep DEF Withdraw, IInv, TypeOK, Bundles

-----------------------------------------------------------------------------
(* One request moves *)

\* A step of r alone preserves the invariant if it does so for r.
LEMMA OneRequest ==
  ASSUME NEW r \in Requests, IInv, UNCHANGED world,
         req' \in [Requests -> Request],
         \A s \in Requests \ {r} : req'[s] = req[s],
         blobs' \in {blobs, blobs \cup {r}, blobs \ {r}},
         RequestInv(r)'
  PROVE  IInv'
<1>1. TypeOK'
  BY DEF IInv, TypeOK, world
<1>2. ASSUME NEW s \in Requests
      PROVE  RequestInv(s)'
  <2>1. CASE s = r
    BY <2>1
  <2>2. CASE s # r
    <3>1. req'[s] = req[s] /\ (s \in blobs' <=> s \in blobs) /\ RequestInv(s)
      BY <2>2 DEF IInv
    <3>2. LookupInv(s)' /\ StatusInv(s)'
      BY <3>1 DEF RequestInv, LookupInv, StatusInv, Attested, world
    <3>3. FileInv(s)'
      BY <3>1 DEF RequestInv, FileInv
    <3> QED
      BY <3>2, <3>3 DEF RequestInv
  <2> QED
    BY <2>1, <2>2
<1> QED
  BY <1>1, <1>2 DEF IInv, world

\* What is left to show of a step that makes r's record q.
LEMMA RecordStep ==
  ASSUME NEW r \in Requests, NEW q \in Request, IInv, UNCHANGED world,
         req' = [req EXCEPT ![r] = q],
         blobs' \in {blobs, blobs \cup {r}, blobs \ {r}},
         LookupInv(r)', FileInv(r)', StatusInv(r)'
  PROVE  IInv'
<1>1. req' \in [Requests -> Request] /\ \A s \in Requests \ {r} : req'[s] = req[s]
  BY DEF IInv, TypeOK
<1> QED
  BY <1>1, OneRequest DEF RequestInv

\* Every step of a request starts from these facts.
LEMMA Known ==
  ASSUME NEW r \in Requests, IInv
  PROVE  /\ req \in [Requests -> Request] /\ req[r] \in Request
         /\ LookupInv(r) /\ FileInv(r) /\ StatusInv(r)
BY DEF IInv, TypeOK, RequestInv

\* A call that arrives waits and holds nothing.
LEMMA ArriveStep ==
  ASSUME NEW r \in Requests, IInv, Arrive(r)
  PROVE  IInv'
<1>1. PICK route \in Routes : req' = [req EXCEPT ![r].pc = "queued", ![r].route = route]
  BY DEF Arrive
<1> DEFINE q == [req[r] EXCEPT !.pc = "queued", !.route = route]
<1>2. req' = [req EXCEPT ![r] = q]
  BY <1>1
<1>3. "queued" \in Steps
  BY DEF Steps
<1>4. q \in Request /\ q.pc = "queued" /\ q.code = req[r].code /\ q.status = req[r].status
  BY <1>3, Known DEF Request
<1> HIDE DEF q
<1>5. req'[r] = q /\ req[r].pc = "new"
  BY <1>2, Known DEF Arrive
<1>6. LookupInv(r)'
  BY <1>4, <1>5 DEF LookupInv, Holding
<1>7. FileInv(r)' /\ StatusInv(r)'
  BY <1>4, <1>5, Known DEF Arrive, FileInv, StatusInv
<1> QED
  BY <1>2, <1>4, <1>6, <1>7, RecordStep DEF Arrive

\* The codes an answer may have.
LEMMA AnswerCodes == {200, 404, 500} \subseteq Codes \ {0}
BY DEF Codes

\* Before verify writes the blob, and while it is not answered, r has no file.
LEMMA NoFileYet ==
  ASSUME NEW r \in Requests, IInv, req[r].pc \notin {"run", "unlink", "done"}
  PROVE  r \notin blobs
<1>1. FileInv(r)
  BY Known
<1>2. 500 # 0
  BY AnswerCodes
<1> QED
  BY <1>1, <1>2 DEF FileInv

\* r goes on to another step without an answer.
LEMMA GotoStep ==
  ASSUME NEW r \in Requests, NEW pc \in Steps \ {"unlink", "done"}, IInv, Goto(r, pc),
         req[r].pc \notin {"run", "unlink", "done"},
         blobs' = IF pc = "run" THEN blobs \cup {r} ELSE blobs,
         pc \in Holding => req[r].pc \in Holding,
         pc \in {"which", "write", "run"} => req[r].before # None
  PROVE  IInv'
<1> DEFINE q == [req[r] EXCEPT !.pc = pc]
<1>1. req' = [req EXCEPT ![r] = q] /\ UNCHANGED world
  BY DEF Goto
<1>2. /\ q \in Request /\ q.pc = pc /\ q.code = req[r].code /\ q.status = req[r].status
      /\ q.found = req[r].found /\ q.before = req[r].before
  BY Known DEF Request
<1> HIDE DEF q
<1>3. req'[r] = q
  BY <1>1, Known
<1>4. LookupInv(r)'
  BY <1>1, <1>2, <1>3, Known DEF LookupInv, Holding, world
<1>5. FileInv(r)'
  <2>1. FileInv(r) /\ r \notin blobs
    BY Known, NoFileYet
  <2> QED
    BY <1>2, <1>3, <2>1 DEF FileInv
<1>6. StatusInv(r)'
  <2>1. StatusInv(r)
    BY Known
  <2> QED
    BY <1>2, <1>3, <2>1 DEF StatusInv
<1> QED
  BY <1>1, <1>2, <1>4, <1>5, <1>6, RecordStep

\* r is answered before cosign is asked.
LEMMA AnswerStep ==
  ASSUME NEW r \in Requests, NEW code \in Codes \ {0}, NEW status \in {"", "unsigned", "unverified"},
         IInv, Answer(r, code, status),
         req[r].pc \notin {"run", "unlink", "done"},
         blobs' \in {blobs, blobs \cup {r}}, code = 500 \/ UNCHANGED blobs,
         status = "unsigned" /\ req[r].before # Changed => req[r].before = None,
         status = "unverified" => req[r].before # None
  PROVE  IInv'
<1> DEFINE q == [req[r] EXCEPT !.pc = "done", !.code = code, !.status = status]
<1>1. req' = [req EXCEPT ![r] = q] /\ UNCHANGED world
  BY DEF Answer
<1>2. "done" \in Steps /\ status \in Statuses
  BY DEF Steps, Statuses
<1>3. /\ q \in Request /\ q.pc = "done" /\ q.code = code /\ q.status = status
      /\ q.before = req[r].before
  BY <1>2, Known DEF Request
<1> HIDE DEF q
<1>4. req'[r] = q
  BY <1>1, Known
<1>5. LookupInv(r)'
  BY <1>3, <1>4 DEF LookupInv, Holding
<1>6. FileInv(r)'
  <2>1. r \notin blobs
    BY NoFileYet
  <2>2. CASE code = 500
    BY <2>2, <1>3, <1>4 DEF FileInv
  <2>3. CASE UNCHANGED blobs
    BY <2>1, <2>3, <1>3, <1>4 DEF FileInv
  <2> QED
    BY <2>2, <2>3
<1>7. StatusInv(r)'
  BY <1>3, <1>4 DEF StatusInv
<1> QED
  BY <1>1, <1>3, <1>5, <1>6, <1>7, RecordStep

\* The first catalog read fixes what the answer is about.
LEMMA GetFeatureStep ==
  ASSUME NEW r \in Requests, IInv, GetFeature(r)
  PROVE  IInv'
<1>1. CASE manifest = 0
  <2>1. Answer(r, 404, "") /\ blobs' = blobs /\ req[r].pc = "get"
    BY <1>1 DEF GetFeature
  <2>2. 404 \in Codes \ {0}
    BY AnswerCodes
  <2> QED
    BY <2>1, <2>2, AnswerStep
<1>2. CASE manifest # 0
  <2> DEFINE q == [req[r] EXCEPT !.pc = "list", !.found = manifest, !.before = bundle]
  <2>1. req' = [req EXCEPT ![r] = q] /\ UNCHANGED world /\ blobs' = blobs /\ req[r].pc = "get"
    BY <1>2 DEF GetFeature
  <2>2. "list" \in Steps /\ manifest \in Revisions /\ bundle \in Seen
    BY DEF Steps, IInv, TypeOK, Seen
  <2>3. /\ q \in Request /\ q.pc = "list" /\ q.found = manifest /\ q.before = bundle
        /\ q.code = req[r].code /\ q.status = req[r].status
    BY <2>2, Known DEF Request
  <2> HIDE DEF q
  <2>4. req'[r] = q
    BY <2>1, Known
  <2>5. LookupInv(r)'
    BY <1>2, <2>1, <2>3, <2>4 DEF LookupInv, Holding, world
  <2>6. FileInv(r)'
    BY <2>1, <2>3, <2>4, Known DEF FileInv
  <2>7. StatusInv(r)'
    BY <2>1, <2>3, <2>4, Known DEF StatusInv
  <2> QED
    BY <2>1, <2>3, <2>5, <2>6, <2>7, RecordStep
<1> QED
  BY <1>1, <1>2

\* cosign's verdict, if it speaks of the bundle it finds then.
LEMMA VerdictStep ==
  ASSUME NEW r \in Requests, NEW status \in {"verified", "failed", "unverified"}, IInv, Verdict(r, status),
         status = "verified" => Verifies(r)
  PROVE  IInv'
<1> DEFINE q == [req[r] EXCEPT !.pc = "unlink", !.status = status]
<1>1. req' = [req EXCEPT ![r] = q] /\ UNCHANGED world /\ blobs' = blobs /\ req[r].pc = "run"
  BY DEF Verdict
<1>2. "unlink" \in Steps /\ status \in Statuses
  BY DEF Steps, Statuses
<1>3. /\ q \in Request /\ q.pc = "unlink" /\ q.status = status
      /\ q.found = req[r].found /\ q.before = req[r].before /\ q.code = req[r].code
  BY <1>2, Known DEF Request
<1> HIDE DEF q
<1>4. req'[r] = q
  BY <1>1, Known
<1>5. LookupInv(r)'
  BY <1>1, <1>3, <1>4, Known DEF LookupInv, Holding, world
<1>6. FileInv(r)'
  BY <1>1, <1>3, <1>4, Known DEF FileInv
<1>7. /\ req[r].found # 0 /\ req[r].before # None
      /\ req[r].before # Changed => req[r].before = bundle
      /\ bundle \in signed \cup {None}
  BY <1>1, Known DEF LookupInv, Holding, IInv
<1>8. signed' = signed /\ identity' = identity
  BY <1>1 DEF world
<1>9. StatusInv(r)'
  <2>1. CASE status = "verified"
    <3>1. bundle.rev = req[r].found /\ (identity => bundle.by = "ci")
      BY <2>1 DEF Verifies
    <3>2. bundle \in signed
      BY <1>7, <3>1 DEF None
    <3>3. /\ req'[r].status = "verified" /\ req'[r].pc = "unlink" /\ req'[r].before = req[r].before
          /\ req'[r].found = req[r].found
      BY <2>1, <1>3, <1>4
    <3>4. \E s \in signed' : s.rev = req'[r].found /\ (identity' => s.by = "ci")
      BY <1>8, <3>1, <3>2, <3>3
    <3>5. /\ req'[r].before # Changed => req'[r].before = bundle
          /\ req'[r].before # None
      BY <1>7, <3>3
    <3> QED
      BY <3>1, <3>3, <3>4, <3>5 DEF StatusInv, Attested
  <2>2. CASE status = "failed"
    BY <2>2, <1>3, <1>4, <1>7 DEF StatusInv
  <2>3. CASE status = "unverified"
    BY <2>3, <1>3, <1>4, <1>7 DEF StatusInv
  <2> QED
    BY <2>1, <2>2, <2>3
<1> QED
  BY <1>1, <1>3, <1>5, <1>6, <1>9, RecordStep

\* The finally clause takes the file away before the answer is given.
LEMMA UnlinkStep ==
  ASSUME NEW r \in Requests, IInv, Unlink(r)
  PROVE  IInv'
<1> DEFINE q == [req[r] EXCEPT !.pc = "done", !.code = 200, !.found = req[r].found, !.status = req[r].status]
<1>1. req' = [req EXCEPT ![r] = q] /\ UNCHANGED world /\ blobs' = blobs \ {r} /\ req[r].pc = "unlink"
  BY DEF Unlink, Return
<1>2. "done" \in Steps /\ 200 \in Codes
  BY DEF Steps, Codes
<1>3. req[r].found \in Revisions /\ req[r].status \in Statuses
  BY Known DEF Request
<1>4. /\ q \in Request /\ q.pc = "done" /\ q.code = 200 /\ q.status = req[r].status
      /\ q.found = req[r].found /\ q.before = req[r].before
  BY <1>2, <1>3, Known DEF Request
<1> HIDE DEF q
<1>5. req'[r] = q
  BY <1>1, Known
<1>6. LookupInv(r)'
  BY <1>4, <1>5 DEF LookupInv, Holding
<1>7. FileInv(r)'
  BY <1>1, <1>4, <1>5 DEF FileInv
<1>8. signed' = signed /\ identity' = identity
  BY <1>1 DEF world
<1>9. StatusInv(r)'
  <2>1. /\ req[r].status \in {"verified", "failed", "unverified"}
        /\ req[r].status = "verified" => Attested(req[r].found)
        /\ req[r].before # Changed =>
             /\ req[r].before = None => req[r].status = "unsigned"
             /\ req[r].status = "verified" => req[r].before.rev = req[r].found
    BY <1>1, Known DEF StatusInv
  <2>2. /\ req'[r].pc = "done" /\ req'[r].status = req[r].status
        /\ req'[r].found = req[r].found /\ req'[r].before = req[r].before
    BY <1>4, <1>5
  <2>3. req'[r].status = "verified" => \E s \in signed' : s.rev = req'[r].found /\ (identity' => s.by = "ci")
    BY <1>8, <2>1, <2>2 DEF Attested
  <2> QED
    BY <2>1, <2>2, <2>3 DEF StatusInv, Attested
<1> QED
  BY <1>1, <1>4, <1>6, <1>7, <1>9, RecordStep

-----------------------------------------------------------------------------
(* Every step *)

\* Every step a thread takes for a request.
LEMMA ServeStep ==
  ASSUME NEW r \in Requests, IInv, Serve(r) \/ CosignExits(r)
  PROVE  IInv'
<1>0. 200 \in Codes \ {0} /\ 500 \in Codes \ {0}
  BY AnswerCodes
<1>1. CASE Dispatch(r)
  <2>1. req[r].pc = "queued" /\ blobs' = blobs /\ "get" \in Steps \ {"unlink", "done"}
    BY <1>1 DEF Dispatch, Waiting, Steps
  <2>2. CASE req[r].route = "health"
    <3>1. Answer(r, 200, "")
      BY <1>1, <2>2 DEF Dispatch
    <3> QED
      BY <2>1, <3>1, <1>0, AnswerStep
  <2>3. CASE req[r].route # "health"
    <3>1. Goto(r, "get") /\ "get" \notin Holding
      BY <1>1, <2>3 DEF Dispatch, Holding
    <3> QED
      BY <2>1, <3>1, GotoStep
  <2> QED
    BY <2>2, <2>3
<1>2. CASE CatalogFails(r)
  <2>1. req[r].pc \in {"get", "list"} /\ blobs' = blobs /\ Answer(r, 500, "")
    BY <1>2 DEF CatalogFails
  <2> QED
    BY <2>1, <1>0, AnswerStep
<1>3. CASE GetFeature(r)
  BY <1>3, GetFeatureStep
<1>4. CASE ResolveBundle(r)
  <2>1. req[r].pc = "list" /\ blobs' = blobs /\ "exists" \in Steps \ {"unlink", "done"}
    BY <1>4 DEF ResolveBundle, Steps
  <2>2. req[r].found # 0 /\ (req[r].before # Changed => req[r].found = manifest)
    BY <2>1, Known DEF LookupInv, Holding
  <2>3. CASE manifest = 0
    <3>1. Answer(r, 200, "unsigned")
      BY <1>4, <2>3 DEF ResolveBundle
    <3>2. req[r].before = Changed
      BY <2>2, <2>3
    <3> QED
      BY <2>1, <3>1, <3>2, <1>0, AnswerStep
  <2>4. CASE manifest # 0
    <3>1. Goto(r, "exists") /\ req[r].pc \in Holding
      BY <1>4, <2>1, <2>4 DEF ResolveBundle, Holding
    <3> QED
      BY <2>1, <3>1, GotoStep
  <2> QED
    BY <2>3, <2>4
<1>5. CASE BundleExists(r)
  <2>1. req[r].pc = "exists" /\ blobs' = blobs /\ "which" \in Steps \ {"unlink", "done"}
    BY <1>5 DEF BundleExists, Steps
  <2>2. req[r].before # Changed => req[r].before = bundle
    BY <2>1, Known DEF LookupInv, Holding
  <2>3. CASE bundle = None
    <3>1. Answer(r, 200, "unsigned")
      BY <1>5, <2>3 DEF BundleExists
    <3> QED
      BY <2>1, <2>2, <2>3, <3>1, <1>0, AnswerStep
  <2>4. CASE bundle # None
    <3>1. Goto(r, "which") /\ req[r].pc \in Holding
      BY <1>5, <2>1, <2>4 DEF BundleExists, Holding
    <3>2. req[r].before # None
      BY <2>2, <2>4 DEF Changed, None
    <3> QED
      BY <2>1, <3>1, <3>2, GotoStep
  <2> QED
    BY <2>3, <2>4
<1>6. CASE CosignAvailable(r)
  <2>1. req[r].pc = "which" /\ blobs' = blobs /\ "write" \in Steps \ {"unlink", "done"}
    BY <1>6 DEF CosignAvailable, Steps
  <2>2. req[r].pc \in Holding /\ req[r].before # None
    BY <2>1, Known DEF LookupInv, Holding
  <2>3. CASE cosign
    <3>1. Goto(r, "write")
      BY <1>6, <2>3 DEF CosignAvailable
    <3> QED
      BY <2>1, <2>2, <3>1, GotoStep
  <2>4. CASE ~cosign
    <3>1. Answer(r, 200, "unverified")
      BY <1>6, <2>4 DEF CosignAvailable
    <3> QED
      BY <2>1, <2>2, <3>1, <1>0, AnswerStep
  <2> QED
    BY <2>3, <2>4
<1>7. CASE WriteBlob(r)
  <2>1. /\ req[r].pc = "write" /\ blobs' = blobs \cup {r} /\ Goto(r, "run")
        /\ "run" \in Steps \ {"unlink", "done"}
    BY <1>7 DEF WriteBlob, Steps
  <2>2. req[r].pc \in Holding /\ req[r].before # None
    BY <2>1, Known DEF LookupInv, Holding
  <2> QED
    BY <2>1, <2>2, GotoStep
<1>8. CASE WriteFails(r)
  <2>1. req[r].pc = "write" /\ blobs' \in {blobs, blobs \cup {r}} /\ Answer(r, 500, "")
    BY <1>8 DEF WriteFails
  <2> QED
    BY <2>1, <1>0, AnswerStep
<1>9. CASE CosignTimesOut(r)
  BY <1>9, VerdictStep DEF CosignTimesOut
<1>10. CASE Unlink(r)
  BY <1>10, UnlinkStep
<1>11. CASE CosignExits(r)
  <2>1. CASE Verifies(r) /\ Verdict(r, "verified")
    BY <2>1, VerdictStep
  <2>2. CASE Verdict(r, "failed")
    BY <2>2, VerdictStep
  <2> QED
    BY <1>11, <2>1, <2>2 DEF CosignExits
<1> QED
  BY <1>1, <1>2, <1>3, <1>4, <1>5, <1>6, <1>7, <1>8, <1>9, <1>10, <1>11 DEF Serve

\* A step that changes nothing keeps the invariant.
LEMMA Stutter ==
  ASSUME IInv, UNCHANGED vars
  PROVE  IInv'
<1>1. TypeOK' /\ bundle' \in signed' \cup {None}
  BY DEF vars, IInv, TypeOK
<1>2. ASSUME NEW r \in Requests
      PROVE  RequestInv(r)'
  <2>1. LookupInv(r)' /\ FileInv(r)'
    BY Known DEF vars, LookupInv, FileInv
  <2>2. StatusInv(r)'
    BY Known DEF vars, StatusInv, Attested
  <2> QED
    BY <2>1, <2>2 DEF RequestInv
<1> QED
  BY <1>1, <1>2 DEF IInv

\* Every step of the gateway, the cluster and CI keeps the invariant.
LEMMA NextStep == IInv /\ [Next]_vars => IInv'
<1> SUFFICES ASSUME IInv, [Next]_vars PROVE IInv'
  OBVIOUS
<1>1. CASE Edit
  BY <1>1, EditStep
<1>2. CASE Deliver
  BY <1>2, DeliverStep
<1>3. ASSUME NEW r \in Requests, Arrive(r) PROVE IInv'
  BY <1>3, ArriveStep
<1>4. ASSUME NEW r \in Requests, Serve(r) \/ CosignExits(r) PROVE IInv'
  BY <1>4, ServeStep
<1>5. CASE UNCHANGED vars
  BY <1>5, Stutter
<1>6. CASE Withdraw
  BY <1>6, WithdrawStep
<1> QED
  BY <1>1, <1>2, <1>3, <1>4, <1>5, <1>6 DEF Next

\* The inductive invariant holds of every state of feature_signature.
LEMMA Invariance == Spec => []IInv
BY InitIInv, NextStep, PTL DEF Spec

-----------------------------------------------------------------------------
(* The results *)

\* Every variable keeps its type, for any requests, pool and changes.
THEOREM TypeCorrect == Spec => []TypeOK
<1>1. IInv => TypeOK
  BY DEF IInv
<1> QED
  BY <1>1, Invariance, PTL

\* The status a request reports is sound, whatever is edited or delivered
\* while it runs and however many run (signing.py:72-110).
THEOREM VerdictSound == Spec => []VerdictIsSound
<1>1. IInv => VerdictIsSound
  <2> SUFFICES ASSUME IInv, NEW r \in Requests, req[r].pc = "done", req[r].status # ""
               PROVE  /\ req[r].status = "verified" => Attested(req[r].found)
                      /\ req[r].before # Changed =>
                           /\ req[r].status = "unsigned" <=> req[r].before = None
                           /\ req[r].status = "verified" => req[r].before.rev = req[r].found
    BY DEF VerdictIsSound
  <2>1. StatusInv(r)
    BY Known
  <2> QED
    BY <2>1 DEF StatusInv
<1> QED
  BY <1>1, Invariance, PTL

\* The finally clause leaves no file of a request that got an answer
\* (signing.py:94-107).
THEOREM BlobsTemporary == Spec => []BlobsAreTemporary
<1>1. IInv => BlobsAreTemporary
  BY DEF IInv, TypeOK, RequestInv, FileInv, BlobsAreTemporary
<1> QED
  BY <1>1, Invariance, PTL
=============================================================================
