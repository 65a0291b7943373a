------------------------------ MODULE Signing ------------------------------
(***************************************************************************)
(* gateway/signing.py and its route in gateway/main.py: what is reported   *)
(* of a feature's signature while the feature is edited and CI delivers    *)
(* and withdraws bundles.  The route is synchronous, so it runs on the     *)
(* thread pool that also answers the readiness probe, and it holds its     *)
(* thread while cosign runs.                                               *)
(*                                                                         *)
(* One feature.  A manifest and its canonical digest are its revision      *)
(* (sorted keys make the digest a function of the content).  A bundle is a *)
(* signature: the revision that was signed and who signed it, CI or some   *)
(* other identity of the same issuer.                                      *)
(***************************************************************************)
EXTENDS Integers, FiniteSets

CONSTANTS Requests,
          PoolSize,    \* threads for synchronous routes
          MaxChanges   \* bound on edits of the feature and moves of bundles

ASSUME SigningAssumption ==
  /\ IsFiniteSet(Requests)
  /\ PoolSize \in Nat \ {0}
  /\ MaxChanges \in Nat

VARIABLES manifest,  \* the revision the catalog has
          bundle,    \* what SIGNATURES_DIR/<name>.bundle holds
          signed,    \* the signatures that were made
          cosign,    \* cosign is on the PATH of this deployment
          identity,  \* SIGNING_IDENTITY is set in this deployment, to CI's
          changes,   \* edits and deliveries so far
          blobs,     \* the requests whose temporary file is on disk
          req        \* req[r]: a call of the signature route, or a probe

vars == <<manifest, bundle, signed, cosign, identity, changes, blobs, req>>
world == <<manifest, bundle, signed, cosign, identity, changes>>

Revisions == 0 .. MaxChanges + 1
Signatures == [rev : 1 .. MaxChanges + 1, by : {"ci", "other"}]

\* There is no bundle; it or the feature has changed since it was read.
None == [rev |-> 0, by |-> "nobody"]
Changed == [rev |-> 0, by |-> "changed"]

Steps == {"new", "queued", "get", "list", "exists", "which", "write", "run", "unlink", "done"}
Routes == {"signature", "health"}
Codes == {0, 200, 404, 500}
Statuses == {"", "unsigned", "unverified", "verified", "failed"}
Bundles == Signatures \cup {None}
Seen == Bundles \cup {Changed}

\* found is what the first catalog read returned.  before is for the
\* properties: the bundle at that read, or Changed once anything has changed.
Request == [pc : Steps, route : Routes, found : Revisions, before : Seen, code : Codes, status : Statuses]

Blank == [pc |-> "new", route |-> "signature", found |-> 0, before |-> Changed, code |-> 0, status |-> ""]

-----------------------------------------------------------------------------
(* The cluster and CI: external to the gateway *)

Change ==
  /\ changes < MaxChanges /\ changes' = changes + 1
  /\ req' = [r \in Requests |-> IF req[r].pc = "done" THEN req[r] ELSE [req[r] EXCEPT !.before = Changed]]
  /\ UNCHANGED <<cosign, identity, blobs>>

\* The feature is edited, deleted or created again.
Edit ==
  /\ Change
  /\ manifest' \in {0, changes + 2} \ {manifest}
  /\ UNCHANGED <<bundle, signed>>

\* sign.yml, or another workflow, signs a revision that was published at some
\* time, not always the newest, and its bundle replaces the one in
\* SIGNATURES_DIR; ...
Deliver ==
  /\ Change
  /\ bundle' \in {b \in Signatures : b.rev <= changes + 1} \ {bundle}
  /\ signed' = signed \cup {bundle'}
  /\ UNCHANGED manifest

\* ... or it is removed.
Withdraw ==
  /\ Change
  /\ bundle # None /\ bundle' = None
  /\ UNCHANGED <<manifest, signed>>

-----------------------------------------------------------------------------
(* The thread pool *)

Waiting(r) == req[r].pc = "queued"
Busy == {r \in Requests : req[r].pc \notin {"new", "queued", "done"}}

Arrive(r) ==
  /\ req[r].pc = "new"
  /\ \E route \in Routes : req' = [req EXCEPT ![r].pc = "queued", ![r].route = route]
  /\ UNCHANGED <<world, blobs>>

Goto(r, pc) == req' = [req EXCEPT ![r].pc = pc] /\ UNCHANGED world

Answer(r, code, status) ==
  /\ req' = [req EXCEPT ![r].pc = "done", ![r].code = code, ![r].status = status]
  /\ UNCHANGED world

\* A free thread takes the call; /health needs nothing else.
Dispatch(r) ==
  /\ Waiting(r) /\ Cardinality(Busy) < PoolSize
  /\ IF req[r].route = "health" THEN Answer(r, 200, "") ELSE Goto(r, "get")
  /\ UNCHANGED blobs

-----------------------------------------------------------------------------
(* feature_signature *)

\* catalog.get or catalog.list fails: an opaque 500.
CatalogFails(r) ==
  /\ req[r].pc \in {"get", "list"}
  /\ Answer(r, 500, "")
  /\ UNCHANGED blobs

GetFeature(r) ==
  /\ req[r].pc = "get"
  /\ IF manifest = 0 THEN Answer(r, 404, "")
     ELSE /\ req' = [req EXCEPT ![r].pc = "list", ![r].found = manifest, ![r].before = bundle]
          /\ UNCHANGED world
  /\ UNCHANGED blobs

\* resolve_bundle: the path is looked up among the names of a second catalog
\* read, and there is none when the feature is gone by then.
ResolveBundle(r) ==
  /\ req[r].pc = "list"
  /\ IF manifest = 0 THEN Answer(r, 200, "unsigned") ELSE Goto(r, "exists")
  /\ UNCHANGED blobs

BundleExists(r) ==
  /\ req[r].pc = "exists"
  /\ IF bundle = None THEN Answer(r, 200, "unsigned") ELSE Goto(r, "which")
  /\ UNCHANGED blobs

CosignAvailable(r) ==
  /\ req[r].pc = "which"
  /\ IF cosign THEN Goto(r, "write") ELSE Answer(r, 200, "unverified")
  /\ UNCHANGED blobs

WriteBlob(r) ==
  /\ req[r].pc = "write"
  /\ blobs' = blobs \cup {r}
  /\ Goto(r, "run")

\* The temporary file cannot be created, or not be written and stays behind:
\* neither is inside verify's try.
WriteFails(r) ==
  /\ req[r].pc = "write"
  /\ blobs' \in {blobs, blobs \cup {r}}
  /\ Answer(r, 500, "")

Verdict(r, status) ==
  /\ req[r].pc = "run"
  /\ req' = [req EXCEPT ![r].pc = "unlink", ![r].status = status]
  /\ UNCHANGED <<world, blobs>>

\* Defect: the identity is left out of the arguments.
VerifiesAnySigner(r) == bundle.rev = req[r].found

\* cosign can only exit with 0 for the blob that was signed.  Without an
\* identity to expect it takes any signer or, from version 2, refuses.
Verifies(r) == bundle.rev = req[r].found /\ (identity => bundle.by = "ci")

\* cosign is a process of its own that may take any time and reads the bundle
\* when it gets there.  Whatever else it exits with, and for whatever reason
\* (the signature, the arguments, the transparency log), is a failure.
CosignExits(r) == (Verifies(r) /\ Verdict(r, "verified")) \/ Verdict(r, "failed")

\* Defect: subprocess.run without a timeout.
WaitForCosign(r) == FALSE /\ Verdict(r, "unverified")

\* The 30 seconds are over, or cosign could not be started.
CosignTimesOut(r) == Verdict(r, "unverified")

\* verify returns the digest of found and a status.
Return(r, files, found, status) ==
  /\ req[r].pc = "unlink"
  /\ blobs' = files
  /\ req' = [req EXCEPT ![r].pc = "done", ![r].code = 200, ![r].found = found, ![r].status = status]
  /\ UNCHANGED world

\* Defect: the file is removed after the try statement.
UnlinkOnVerdict(r) ==
  Return(r, IF req[r].status = "unverified" THEN blobs ELSE blobs \ {r}, req[r].found, req[r].status)

\* Defect: the answer is put together from a fresh read of the catalog.
UnlinkRereads(r) == Return(r, blobs \ {r}, manifest, req[r].status)

\* Defect: a status the documentation does not have.
UnlinkErrorStatus(r) ==
  Return(r, blobs \ {r}, req[r].found, IF req[r].status = "failed" THEN "error" ELSE req[r].status)

\* finally: the file is removed, whatever happened.
Unlink(r) == Return(r, blobs \ {r}, req[r].found, req[r].status)

-----------------------------------------------------------------------------

Init ==
  /\ manifest = 1
  /\ bundle \in {None, [rev |-> 1, by |-> "ci"]}
  /\ signed = {bundle} \ {None}
  /\ cosign \in BOOLEAN /\ identity \in BOOLEAN /\ (identity => cosign)
  /\ changes = 0
  /\ blobs = {}
  /\ req = [r \in Requests |-> Blank]

Serve(r) ==
  \/ Dispatch(r) \/ CatalogFails(r) \/ GetFeature(r) \/ ResolveBundle(r) \/ BundleExists(r)
  \/ CosignAvailable(r) \/ WriteBlob(r) \/ WriteFails(r) \/ CosignTimesOut(r) \/ Unlink(r)

Next == Edit \/ Deliver \/ Withdraw \/ \E r \in Requests : Arrive(r) \/ Serve(r) \/ CosignExits(r)

\* Threads run, the API server answers or fails, the pool hands a free thread
\* to a waiting call, and subprocess.run gives up after 30 seconds.  cosign
\* itself need not end.
Fairness == \A r \in Requests : WF_vars(Serve(r))

Spec == Init /\ [][Next]_vars /\ Fairness

-----------------------------------------------------------------------------
(* Properties *)

TypeOK ==
  /\ manifest \in Revisions /\ bundle \in Bundles /\ signed \subseteq Signatures
  /\ cosign \in BOOLEAN /\ identity \in BOOLEAN
  /\ changes \in 0 .. MaxChanges
  /\ blobs \subseteq Requests
  /\ req \in [Requests -> Request]

\* A signature of rev was made, by CI where the deployment names it.
Attested(rev) == \E s \in signed : s.rev = rev /\ (identity => s.by = "ci")

\* The digest reported as verified is one that was signed, and that CI signed
\* where the deployment names it, whatever was edited or delivered while the
\* request ran; and when nothing changed meanwhile, "unsigned" says exactly
\* that there is no bundle and "verified" that it is this manifest's.
\* "failed" says nothing of the bundle (signing.py:72-110, main.py:127-136).
VerdictIsSound ==
  \A r \in Requests : req[r].pc = "done" /\ req[r].status # "" =>
    /\ req[r].status = "verified" => Attested(req[r].found)
    /\ req[r].before # Changed =>
         /\ req[r].status = "unsigned" <=> req[r].before = None
         /\ req[r].status = "verified" => req[r].before.rev = req[r].found

\* No answered request leaves its temporary file behind, also when cosign
\* could not run or was killed (signing.py:94-107).
BlobsAreTemporary ==
  \A r \in blobs : req[r].pc \in {"run", "unlink"} \/ req[r].code = 500

\* Every call ends, also the readiness probe that waits for a thread while
\* others hold theirs for a cosign that hangs (signing.py:102, main.py:107,
\* 123; deploy/gateway/gateway.yaml:55).
EveryCallEnds == \A r \in Requests : Waiting(r) ~> (req[r].pc = "done")
=============================================================================
