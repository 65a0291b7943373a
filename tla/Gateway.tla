------------------------------ MODULE Gateway ------------------------------
(***************************************************************************)
(* The gateway: concurrent requests over REST, chat and MCP                *)
(* (gateway/main.py, gateway/mcp.py).  In cluster mode they go through the *)
(* Kubernetes catalog (gateway/catalog.py) and the gRPC invoker            *)
(* (gateway/invoker.py), while Feature resources are edited and workloads  *)
(* rolled out underneath; in dev mode through a fixed catalog and handlers *)
(* in the gateway's own process (gateway/samples.py).                      *)
(*                                                                         *)
(* A handler reads the catalog twice: once to find, rank and validate, and *)
(* again inside _resolve to find the endpoint.  Both are calls of the API  *)
(* server, so the resource may change in between, and the workload changes *)
(* independently of both.  The calls block: from its first read until the  *)
(* gRPC call a REST or MCP handler keeps the event loop.  A chat handler   *)
(* gives it up at every event it streams.                                  *)
(*                                                                         *)
(* A schema is a model value, a payload the set of schemas that accept it. *)
(* All features provide one capability.  Which of its providers ranks      *)
(* first is left open here (Marketplace.tla).  A feature id is             *)
(* vendor/name@1.0.0: feature_from_cr never sets a version.                *)
(***************************************************************************)
EXTENDS Integers, FiniteSets

CONSTANTS Requests, Names, Vendors, Schemas,
          Malformed,   \* an inputSchema that is not JSON
          Payloads,    \* sets of schemas
          Edited,      \* names of the features that change
          MaxEdits     \* bound on the changes of Feature resources

ASSUME GatewayAssumption ==
  /\ IsFiniteSet(Requests)
  /\ Vendors # {} /\ Names # {} /\ Schemas # {} /\ Payloads # {}
  /\ Malformed \notin Schemas
  /\ Payloads \subseteq SUBSET Schemas
  /\ Edited \subseteq Names
  /\ MaxEdits \in Nat

VARIABLES mode,     \* "cluster" or "dev", for good
          cr,       \* cr[n]: the Feature resource called n, or the sample
          pod,      \* pod[n]: the workload behind n's endpoint
          edits,    \* resource changes so far
          req,      \* req[r]: the request r
          ran,      \* ran[r]: how often a workload or sample executed r
          metrics   \* MetricsStore, latencies left out

cluster == <<mode, cr, pod, edits>>
gateway == <<req, ran, metrics>>
vars == <<mode, cr, pod, edits, req, ran, metrics>>

Revisions == 0 .. MaxEdits
FeatureIds == Vendors \X Names
Faces == {"rest", "chat", "mcp"}

\* HTTP statuses, also for what chat and MCP say in other words.  499: the
\* caller went away.
Codes == {0, 200, 404, 422, 500, 503, 499}

\* What spec.inputSchema can hold.
Declared == Schemas \cup {Malformed}

Resource == [exists : BOOLEAN, vendor : Vendors, schema : Declared,
             endpoint : BOOLEAN, rev : Revisions]

\* What a workload was built from, and whether it is running.
Workload == [up : BOOLEAN, vendor : Vendors, schema : Declared, rev : Revisions]

\* What executing a request can come to: "odd" is an output that cannot be
\* encoded (not a JSON number), "raised" an undeclared exception.
Outcomes == {"none", "ok", "odd", "invalid", "error", "raised"}

Steps == {"new", "received", "validated", "sent", "done"}
Purposes == {"invoke", "browse", "other"}

\* A request invokes a feature, browses the catalog, or is answered from the
\* message alone.  fid and rev are what the first catalog read found; reply
\* and by what the workload answered and what it was.
Request == [pc : Steps, kind : Purposes, face : Faces,
            capability : BOOLEAN, name : Names, payload : Payloads,
            fid : FeatureIds, rev : Revisions,
            reply : Outcomes, by : Workload, code : Codes]

\* FeatureMetrics without latencies.
Counts == [inv : Nat, succ : Nat]

\* Arbitrary values for what no step has set yet.
AnyVendor == CHOOSE v \in Vendors : TRUE
AnyName == CHOOSE n \in Names : TRUE
AnySchema == CHOOSE s \in Schemas : TRUE
AnyWorkload == [up |-> TRUE, vendor |-> AnyVendor, schema |-> AnySchema, rev |-> 0]
Blank == [pc |-> "new", kind |-> "invoke", face |-> "rest", capability |-> FALSE, name |-> AnyName,
          payload |-> CHOOSE p \in Payloads : TRUE, fid |-> <<AnyVendor, AnyName>>, rev |-> 0,
          reply |-> "none", by |-> AnyWorkload, code |-> 0]

-----------------------------------------------------------------------------
(* The cluster: external to the gateway *)

\* A Feature is created or its spec edited.
Apply(n) ==
  /\ mode = "cluster" /\ edits < MaxEdits
  /\ edits' = edits + 1
  /\ \E v \in Vendors, s \in Declared :
       cr' = [cr EXCEPT ![n] = [exists |-> TRUE, vendor |-> v, schema |-> s,
                                endpoint |-> @.exists /\ @.endpoint, rev |-> edits + 1]]
  /\ UNCHANGED <<mode, pod, gateway>>

Delete(n) ==
  /\ mode = "cluster" /\ edits < MaxEdits /\ cr[n].exists
  /\ edits' = edits + 1
  /\ cr' = [cr EXCEPT ![n].exists = FALSE, ![n].endpoint = FALSE, ![n].rev = edits + 1]
  /\ UNCHANGED <<mode, pod, gateway>>

\* The operator has published the endpoint of an existing Feature.
Publish(n) ==
  /\ cr[n].exists /\ ~cr[n].endpoint
  /\ cr' = [cr EXCEPT ![n].endpoint = TRUE]
  /\ UNCHANGED <<mode, pod, edits, gateway>>

\* The pods behind the endpoint have become those of the current revision.
Rollout(n) ==
  /\ pod[n].rev # cr[n].rev
  /\ pod' = [pod EXCEPT ![n] = [up |-> cr[n].exists, vendor |-> cr[n].vendor,
                                schema |-> cr[n].schema, rev |-> cr[n].rev]]
  /\ UNCHANGED <<mode, cr, edits, gateway>>

-----------------------------------------------------------------------------
(* Answers and what they record *)

\* The handler returns; only what the caller and the counters know remains.
End(r, reply, code) ==
  req' = [req EXCEPT ![r] = [Blank EXCEPT !.pc = "done", !.code = code, !.kind = req[r].kind,
                                          !.face = req[r].face, !.fid = req[r].fid, !.reply = reply]]

\* Defect: unavailability is not held against the feature.
RecordSuccessOnly(r, success) ==
  IF req[r].face = "mcp" \/ ~success THEN UNCHANGED metrics
  ELSE metrics' = [metrics EXCEPT ![req[r].fid].inv = @ + 1, ![req[r].fid].succ = @ + 1]

\* store.record under the id of the first catalog read; mcp._call has no
\* store and records nothing.
Record(r, success) ==
  IF req[r].face = "mcp" THEN UNCHANGED metrics
  ELSE metrics' = [metrics EXCEPT ![req[r].fid].inv = @ + 1,
                                  ![req[r].fid].succ = IF success THEN @ + 1 ELSE @]

AnswerUnrecorded(r, code) ==
  End(r, req[r].reply, code) /\ UNCHANGED <<cluster, ran, metrics>>

AnswerRecorded(r, code) ==
  End(r, req[r].reply, code) /\ Record(r, code = 200) /\ UNCHANGED <<cluster, ran>>

-----------------------------------------------------------------------------
(* The handlers, up to the first catalog read and validation *)

\* A REST call by name or by capability, a chat line, or an MCP tools/call.
Receive(r) ==
  /\ req[r].pc = "new"
  /\ \E face \in Faces, capability \in BOOLEAN, n \in Names, p \in Payloads :
       /\ face = "mcp" => ~capability
       /\ capability => n = AnyName
       /\ req' = [req EXCEPT ![r].pc = "received", ![r].face = face, ![r].capability = capability,
                             ![r].name = n, ![r].payload = p]
  /\ UNCHANGED <<cluster, ran, metrics>>

\* Any MCP message without an id but initialize, which gets no response; an
\* MCP initialize or unknown method; chat's help, or a line whose JSON does
\* not parse: no catalog, no invoker.
Notify(r) ==
  /\ req[r].pc = "new"
  /\ req' = [req EXCEPT ![r] = [@ EXCEPT !.pc = "done", !.kind = "other", !.code = 200]]
  /\ UNCHANGED <<cluster, ran, metrics>>

Existing == {n \in Names : cr[n].exists}

\* json.loads in feature_from_cr raises on a malformed schema, and so does
\* the whole listing.
Parses(names) == \A n \in names : cr[n].schema # Malformed

\* The listings of REST, chat and MCP, and GET of one feature or capability:
\* a listing parses every resource, and may be of none.
Browse(r) ==
  /\ req[r].pc = "new"
  /\ \E names \in {Existing} \cup {Existing \cap {n} : n \in Names}, code \in {200, 404, 500} :
       /\ code = 200 => Parses(names)
       /\ code = 404 => names = {}
       /\ code = 500 => mode = "cluster"
       /\ req' = [req EXCEPT ![r] = [@ EXCEPT !.pc = "done", !.kind = "browse", !.code = code]]
  /\ UNCHANGED <<cluster, ran, metrics>>

\* What the first catalog read returns: one feature, or all of them.
Found(r) == IF req[r].capability THEN Existing ELSE Existing \cap {req[r].name}

\* The API server failed, or a resource cannot be parsed: an opaque 500.
LookupFails(r) == mode = "cluster" /\ req[r].pc = "received" /\ AnswerUnrecorded(r, 500)

NotFound(r) ==
  /\ req[r].pc = "received" /\ Found(r) = {}
  /\ AnswerUnrecorded(r, 404)

Mismatch(r) ==
  req[r].pc = "received" /\ Parses(Found(r)) /\ \E n \in Found(r) : cr[n].schema \notin req[r].payload

\* Defect: an error code that clients are not told about.
RejectBadRequest(r) == Mismatch(r) /\ AnswerUnrecorded(r, 400)

\* collect_errors found something.
Reject(r) == Mismatch(r) /\ AnswerUnrecorded(r, 422)

\* The invoker is asked for n, found or ranked first.
Choose(r, n) ==
  /\ req[r].pc = "received" /\ Parses(Found(r))
  /\ req' = [req EXCEPT ![r].pc = "validated", ![r].capability = FALSE, ![r].name = n,
                        ![r].fid = <<cr[n].vendor, n>>, ![r].rev = cr[n].rev]
  /\ UNCHANGED <<cluster, ran, metrics>>

\* Defect: the input is not validated.
AcceptUnchecked(r) == \E n \in Found(r) : Choose(r, n)

\* n accepts the input.
Accept(r) == \E n \in Found(r) : cr[n].schema \in req[r].payload /\ Choose(r, n)

-----------------------------------------------------------------------------
(* LocalInvoker.invoke *)

\* What the sample handlers can do with an input their schema accepts.
SampleOutcomes(n) ==
  CASE n = "calculator" -> {"ok", "odd", "invalid", "raised"}
    [] n = "clock" -> {"ok", "raised"}
    [] OTHER -> {"ok"}

\* The handler runs in the event loop's thread.  An output that cannot be
\* encoded has been recorded as a success when that shows.
RunLocally(r) ==
  /\ mode = "dev" /\ req[r].pc = "validated"
  /\ ran' = [ran EXCEPT ![r] = @ + 1]
  /\ \E o \in SampleOutcomes(req[r].name) :
       /\ End(r, o, CASE o = "ok" -> 200 [] o = "invalid" -> 422 [] OTHER -> 500)
       /\ IF o \in {"ok", "odd"} THEN Record(r, TRUE) ELSE UNCHANGED metrics
  /\ UNCHANGED cluster

-----------------------------------------------------------------------------
(* GrpcInvoker.invoke *)

Dispatching(r) == mode = "cluster" /\ req[r].pc = "validated"

\* The second catalog read failed, or the request could not be encoded.
\* (In the latter case a channel may have been opened; nothing shows it.)
DispatchFails(r) == Dispatching(r) /\ AnswerUnrecorded(r, 500)

\* _resolve raises FeatureUnavailable: gone, or not published yet.
NoEndpoint(r) ==
  /\ Dispatching(r)
  /\ Parses({req[r].name} \cap Existing)
  /\ ~cr[req[r].name].endpoint
  /\ AnswerRecorded(r, 503)

\* The call is on its way, over a new channel or the one kept for the
\* endpoint; a channel that cannot connect shows in Expire.
Send(r) ==
  /\ Dispatching(r)
  /\ cr[req[r].name].endpoint /\ cr[req[r].name].schema # Malformed
  /\ req' = [req EXCEPT ![r].pc = "sent"]
  /\ UNCHANGED <<cluster, ran, metrics>>

\* The workload runs the call; its answer is on the way.  External.
Execute(r) ==
  /\ req[r].pc = "sent" /\ req[r].reply = "none"
  /\ pod[req[r].name].up
  /\ \E answer \in {"ok", "odd", "invalid", "error"} :
       req' = [req EXCEPT ![r].reply = answer, ![r].by = pod[req[r].name]]
  /\ ran' = [ran EXCEPT ![r] = @ + 1]
  /\ UNCHANGED <<cluster, metrics>>

\* The answer arrives: a result, one that MessageToDict refuses,
\* INVALID_ARGUMENT, or another error status.
Respond(r) ==
  /\ req[r].pc = "sent"
  /\ \/ req[r].reply = "ok" /\ AnswerRecorded(r, 200)
     \/ req[r].reply = "odd" /\ AnswerUnrecorded(r, 500)
     \/ req[r].reply = "invalid" /\ AnswerUnrecorded(r, 422)
     \/ req[r].reply = "error" /\ AnswerRecorded(r, 503)

\* Defect: a call without an answer waits for ever.
ExpireAnswered(r) == req[r].pc = "sent" /\ req[r].reply # "none" /\ AnswerRecorded(r, 503)

\* Defect: a call that failed is sent again.
ExpireResends(r) ==
  /\ req[r].pc = "sent"
  /\ req' = [req EXCEPT ![r].reply = "none"]
  /\ UNCHANGED <<cluster, ran, metrics>>

\* The connection failed or the deadline passed, whatever the workload did.
Expire(r) == req[r].pc = "sent" /\ AnswerRecorded(r, 503)

\* A chat client went away: the stream's task is cancelled at its await.
Disconnect(r) ==
  /\ req[r].face = "chat" /\ req[r].pc \in {"received", "validated", "sent"}
  /\ AnswerUnrecorded(r, 499)

-----------------------------------------------------------------------------

\* Whether q's handler is between two awaits.
Blocks(q) == req[q].face # "chat" /\ req[q].pc \in {"received", "validated"}

LoopFree(r) == \A q \in Requests \ {r} : ~Blocks(q)

\* The samples, or Features that are published and running; some of those
\* that change may be created later.
Init ==
  /\ mode \in {"cluster", "dev"}
  /\ \E later \in SUBSET Edited :
       /\ mode = "dev" => later = {}
       /\ cr = [n \in Names |-> [exists |-> n \notin later, vendor |-> AnyVendor, schema |-> AnySchema,
                                  endpoint |-> n \notin later, rev |-> 0]]
       /\ pod = [n \in Names |-> [AnyWorkload EXCEPT !.up = n \notin later]]
  /\ req = [r \in Requests |-> Blank]
  /\ edits = 0
  /\ ran = [r \in Requests |-> 0]
  /\ metrics = [f \in FeatureIds |-> [inv |-> 0, succ |-> 0]]

Cluster == \E n \in Edited : Apply(n) \/ Delete(n) \/ Publish(n) \/ Rollout(n)

Handle(r) ==
  /\ LoopFree(r)
  /\ \/ LookupFails(r) \/ NotFound(r) \/ Reject(r) \/ Accept(r) \/ RunLocally(r)
     \/ DispatchFails(r) \/ NoEndpoint(r) \/ Send(r)
     \/ Respond(r) \/ Expire(r)

\* Listings over REST run on other threads, and no listing changes anything.
Next ==
  \/ Cluster
  \/ \E r \in Requests :
       \/ LoopFree(r) /\ (Receive(r) \/ Disconnect(r))
       \/ Notify(r) \/ Browse(r) \/ Handle(r) \/ Execute(r)

\* The event loop runs every handler that can go on, the API server answers
\* or fails, and every gRPC call carries a deadline.
Fairness == \A r \in Requests : WF_vars(Handle(r))

Spec == Init /\ [][Next]_vars /\ Fairness

-----------------------------------------------------------------------------
(* Properties *)

TypeOK ==
  /\ mode \in {"cluster", "dev"}
  /\ cr \in [Names -> Resource]
  /\ pod \in [Names -> Workload]
  /\ edits \in Revisions
  /\ req \in [Requests -> Request]
  /\ ran \in [Requests -> Nat]
  /\ metrics \in [FeatureIds -> Counts]

\* The invocations of f over REST and chat that were answered with code.
Told(f, code) ==
  {r \in Requests : req[r].kind = "invoke" /\ req[r].face # "mcp" /\ req[r].fid = f /\ req[r].code = code}

\* Answered with an error because the recorded output could not be encoded.
Spoilt(f) == {r \in Told(f, 500) : mode = "dev" /\ req[r].reply = "odd"}

\* The counters a feature is ranked by are what the REST and chat handlers
\* answered: one success for every 200, one failure for every 503, and
\* nothing for listings, caller errors, gateway errors and callers who hung
\* up.  The one exception is a sample's output that is recorded as a success
\* and cannot be encoded (main.py:138-172, 371-387).
CountersMatchAnswers ==
  \A f \in FeatureIds :
    /\ metrics[f].succ = Cardinality(Told(f, 200)) + Cardinality(Spoilt(f))
    /\ metrics[f].inv = metrics[f].succ + Cardinality(Told(f, 503))

\* What only browses or asks for no response executes nothing, a request the
\* gateway refused (404, 422 by validation, 500) never reached a workload, a
\* 200 was executed, and no request is executed twice, whatever expires
\* meanwhile (mcp.py:51-53, main.py:138-172, invoker.py:109-117).
AnswersMatchWork ==
  \A r \in Requests :
    /\ ran[r] <= 1
    /\ req[r].kind # "invoke" \/ req[r].code = 404 => ran[r] = 0
    /\ req[r].code \in {422, 500} /\ req[r].reply = "none" => ran[r] = 0
    /\ req[r].kind = "invoke" /\ req[r].code = 200 => ran[r] = 1

\* When the workload that ran the request is of the revision the gateway
\* looked up, it accepts the input, and it is the one that gets the credit
\* (main.py:140, 144-148).  Nothing is promised across revisions.
RevisionAgrees ==
  \A r \in Requests : req[r].pc = "sent" /\ req[r].reply # "none" /\ req[r].by.rev = req[r].rev =>
    /\ req[r].by.schema \in req[r].payload
    /\ req[r].by.vendor = req[r].fid[1]

\* Every request is answered or given up, also when the workload never
\* answers (invoker.py:111).
EveryRequestEnds == \A r \in Requests : (req[r].pc = "received") ~> (req[r].pc = "done")

\* validation.py:3-5: "a feature never sees malformed arguments".
NeverSeesMalformedInput ==
  \A r \in Requests : req[r].pc = "sent" /\ req[r].reply # "none" =>
    req[r].by.schema \in req[r].payload

\* ranking.py:3: "every invocation records an outcome".
EveryInvocationRecorded ==
  \A f \in FeatureIds :
    metrics[f].succ >= Cardinality({r \in Requests :
      req[r].kind = "invoke" /\ req[r].fid = f /\ req[r].code = 200})
=============================================================================
