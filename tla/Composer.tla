------------------------------ MODULE Composer ------------------------------
(***************************************************************************)
(* gateway/composer.py and the composite routes of gateway/main.py:        *)
(* concurrent runs of pipelines of capabilities, while composites are      *)
(* published and replaced underneath.  Every await of Composer.run is an   *)
(* invocation of a workload; other runs, and the thread-pool route that    *)
(* publishes composites, proceed meanwhile.                                *)
(*                                                                         *)
(* A value is a dict: who produced it (<<run, step>>, the caller's input   *)
(* being step 0) and the paths that lead to something inside it.  What a   *)
(* workload answers is open: no output is validated.  A reference is a     *)
(* name into the run's context and a path from there.  The catalog is      *)
(* fixed here (Gateway.tla has its changes) and providers are not told     *)
(* apart (Marketplace.tla ranks them).                                     *)
(***************************************************************************)
EXTENDS AgentDsl

CONSTANTS Runs, CompositeNames,
          Shapes,        \* what a value can hold: sets of paths
          Capabilities,  \* the capabilities the catalog has providers for
          Builtin,       \* the composites registered at start-up, in order
          Library,       \* the composites that get published: steps and output
          Documents,     \* agent documents that get compiled and published
          MaxPublishes   \* bound on publications

\* Not a composite.
NoSpec == [steps |-> <<>>, output |-> {}, required |-> {}, broken |-> FALSE, missing |-> TRUE]

IsSequence(s) == Len(s) \in Nat /\ DOMAIN s = 1 .. Len(s)

ASSUME ComposerAssumption ==
  /\ IsFiniteSet(Runs) /\ CompositeNames # {}
  /\ IsSequence(Builtin) /\ (\A doc \in Documents : IsSequence(doc)) /\ \A spec \in Library : IsSequence(spec.steps)
  /\ MaxPublishes \in Nat
  /\ NoSpec \notin Library
  /\ \A i \in DOMAIN Builtin : Builtin[i].name \in CompositeNames /\ Builtin[i].spec \in Library
  /\ \A i, j \in DOMAIN Builtin : Builtin[i].name = Builtin[j].name => i = j
  /\ \A doc \in Documents : Parses(doc) => AgentName(doc) \in CompositeNames

VARIABLES composites,  \* the registry: name -> composite, or NoSpec
          order,       \* the names in it, in the dict's order
          publishes,   \* publications so far
          run,         \* run[r]: an invocation of a composite, or a listing
          recorded     \* recorded[c]: MetricsStore's counters, by capability

registry == <<composites, order, publishes>>
vars == <<composites, order, publishes, run, recorded>>

Composites == Library \cup {Compiled(doc) : doc \in {d \in Documents : Parses(d)}}
Specs == Composites \cup {NoSpec}
StepNames == {"input"} \cup UNION {{s.steps[i].name : i \in DOMAIN s.steps} : s \in Composites}

Errors == {"none", "reference", "provider", "invalid", "rejected", "unavailable", "raised",
           "unknown", "schema", "changed"}

\* A run's trace holds, per executed step, the producers of its inputs, and
\* used those of the step being called; odd says that a step's output or the
\* run's has a value JSON cannot carry.  A listing has shown some names;
\* known are those registered when it began.
Blank == [pc |-> "new", shown |-> <<>>, known |-> {}, name |-> CHOOSE n \in CompositeNames : TRUE,
          spec |-> NoSpec, ctx |-> <<>>,
          trace |-> <<>>, used |-> {}, output |-> {}, odd |-> FALSE, error |-> "none"]

-----------------------------------------------------------------------------
(* The registry *)

Names(o) == {o[i] : i \in DOMAIN o}

\* Defect: the composite is taken out and put in again, as the newest.
OrderedAnew(n) == Append(SelectSeq(order, LAMBDA m : m # n), n)

\* A new key goes last, one that is there keeps its place.
Ordered(n) == IF n \in Names(order) THEN order ELSE Append(order, n)

Put(n, spec) ==
  /\ publishes < MaxPublishes
  /\ publishes' = publishes + 1
  /\ composites' = [composites EXCEPT ![n] = spec]
  /\ order' = Ordered(n)
  /\ UNCHANGED <<run, recorded>>

\* POST /compose, on the thread pool: a composite of that name is replaced.
Compose(n) == \E spec \in Library : Put(n, spec)

\* POST /agents/compile with publish; a document that does not parse, or is
\* not published, changes nothing.
CompileAgent(doc) == Parses(doc) /\ Put(AgentName(doc), Compiled(doc))

\* GET /composites, on another thread of the pool: the iterator remembers the
\* size of the dict ...
ListBegin(r) ==
  /\ run[r].pc = "new"
  /\ run' = [run EXCEPT ![r] = [@ EXCEPT !.pc = "listing", !.known = Names(order)]]
  /\ UNCHANGED <<registry, recorded>>

\* ... and the loop ends with a RuntimeError, a 500, once it has changed.
ListNext(r) ==
  /\ run[r].pc = "listing"
  /\ LET i == Len(run[r].shown) + 1 IN
       IF Len(order) # Cardinality(run[r].known)
         THEN run' = [run EXCEPT ![r] = [@ EXCEPT !.pc = "done", !.error = "changed", !.shown = <<>>]]
       ELSE IF i > Len(order) THEN run' = [run EXCEPT ![r] = [@ EXCEPT !.pc = "done"]]
       ELSE run' = [run EXCEPT ![r] = [run[r] EXCEPT !.shown = Append(@, order[i])]]
  /\ UNCHANGED <<registry, recorded>>

-----------------------------------------------------------------------------
(* References *)

\* Defect: the composite is looked up again after every await.
PlanReread(r) == composites[run[r].name]

\* The run keeps the composite object it was started with.
Plan(r) == run[r].spec

\* Every part leads on from where the parts before it have led.
Resolves(ref, ctx) ==
  /\ ref[1] \in DOMAIN ctx
  /\ \A k \in 2 .. Len(ref) : SubSeq(ref, 2, k) \in ctx[ref[1]].paths

AllResolve(refs, ctx) == \A ref \in refs : Resolves(ref, ctx)

Sources(refs, ctx) == {ctx[ref[1]].by : ref \in refs}

\* ctx[name] = v.
Extend(ctx, name, v) == [n \in DOMAIN ctx \cup {name} |-> IF n = name THEN v ELSE ctx[n]]

-----------------------------------------------------------------------------
(* invoke_composite *)

\* Defect: the input is not validated.
AcceptsAny(spec, paths) == TRUE

\* collect_errors on the composite's input schema: nothing required is missing.
Accepts(spec, paths) == \A f \in spec.required : <<f>> \in paths

\* 404, 500 (the posted schema is none, and the validator stumbles over it),
\* 422 (something is missing or of a wrong type), or a run of the composite
\* registered now.
Invoke(r) ==
  /\ run[r].pc = "new"
  /\ \E n \in CompositeNames, paths \in Shapes :
       LET input == [k \in {"input"} |-> [by |-> <<r, 0>>, paths |-> paths]] IN
       \/ /\ composites[n] = NoSpec
          /\ run' = [run EXCEPT ![r] = [@ EXCEPT !.pc = "done", !.name = n, !.error = "unknown"]]
       \/ /\ composites[n].broken
          /\ run' = [run EXCEPT ![r] = [@ EXCEPT !.pc = "done", !.name = n, !.error = "raised"]]
       \/ /\ composites[n] # NoSpec
          /\ run' = [run EXCEPT ![r] = [@ EXCEPT !.pc = "done", !.name = n, !.error = "schema"]]
       \/ /\ composites[n] # NoSpec /\ Accepts(composites[n], paths)
          /\ run' = [run EXCEPT ![r] = [@ EXCEPT !.pc = "step", !.name = n, !.spec = composites[n], !.ctx = input]]
  /\ UNCHANGED <<registry, recorded>>

-----------------------------------------------------------------------------
(* Composer.run *)

\* Defect: what has been put together so far is returned with the error.
FailKeepingOutput(r, error) ==
  run' = [run EXCEPT ![r] = [@ EXCEPT !.pc = "done", !.error = error, !.used = {}, !.ctx = <<>>,
                     !.output = Sources({ref \in Plan(r).output : Resolves(ref, run[r].ctx)}, run[r].ctx)]]

\* fail: an empty output and the trace so far, which may be odd; the run's
\* locals are gone.
Fail(r, error) ==
  \E odd \in BOOLEAN :
    /\ odd => run[r].trace # <<>> /\ error # "raised"
    /\ run' = [run EXCEPT ![r] = [@ EXCEPT !.pc = "done", !.error = error, !.used = {}, !.ctx = <<>>, !.odd = odd]]

Current(r) == Plan(r).steps[Len(run[r].trace) + 1]

InStep(r) == run[r].pc = "step" /\ Len(run[r].trace) < Len(Plan(r).steps)

BadReference(r) ==
  /\ InStep(r) /\ ~AllResolve(Current(r).inputs, run[r].ctx)
  /\ Fail(r, "reference")
  /\ UNCHANGED <<registry, recorded>>

\* _run_capability looks for providers in the catalog.
NoProvider(r) ==
  /\ InStep(r) /\ AllResolve(Current(r).inputs, run[r].ctx)
  /\ Current(r).capability \notin Capabilities
  /\ Fail(r, "provider")
  /\ UNCHANGED <<registry, recorded>>

\* The best provider's schema refuses the step's input.
InvalidInput(r) ==
  /\ InStep(r) /\ AllResolve(Current(r).inputs, run[r].ctx)
  /\ Current(r).capability \in Capabilities
  /\ Fail(r, "invalid")
  /\ UNCHANGED <<registry, recorded>>

Call(r) ==
  /\ InStep(r) /\ AllResolve(Current(r).inputs, run[r].ctx)
  /\ Current(r).capability \in Capabilities
  /\ run' = [run EXCEPT ![r] = [@ EXCEPT !.pc = "called", !.used = Sources(Current(r).inputs, run[r].ctx)]]
  /\ UNCHANGED <<registry, recorded>>

\* Defect: only successes are recorded.
RecordSuccesses(c, success) ==
  recorded' = [recorded EXCEPT ![c].inv = IF success THEN @ + 1 ELSE @,
                               ![c].succ = IF success THEN @ + 1 ELSE @]

\* Defect: the invocation is counted on the failure path only.
RecordFailures(c, success) ==
  recorded' = [recorded EXCEPT ![c].inv = IF success THEN @ ELSE @ + 1,
                               ![c].succ = IF success THEN @ + 1 ELSE @]

Record(c, success) ==
  recorded' = [recorded EXCEPT ![c] = [inv |-> @.inv + 1, succ |-> IF success THEN @.succ + 1 ELSE @.succ]]

\* The step's output, whatever it holds, enters the context and the trace.
Answered(r) ==
  /\ run[r].pc = "called"
  /\ Record(Current(r).capability, TRUE)
  /\ \E paths \in Shapes :
       run' = [run EXCEPT ![r] = [run[r] EXCEPT
                 !.pc = "step", !.used = {}, !.trace = Append(@, run[r].used),
                 !.ctx = Extend(@, Current(r).name, [by |-> <<r, Len(run[r].trace) + 1>>, paths |-> paths])]]
  /\ UNCHANGED registry

Rejected(r) ==
  /\ run[r].pc = "called"
  /\ Fail(r, "rejected")
  /\ UNCHANGED <<registry, recorded>>

\* Defect: a call that failed, or took too long, is made again.
UnavailableRetried(r) ==
  /\ run[r].pc = "called"
  /\ run' = [run EXCEPT ![r] = [@ EXCEPT !.pc = "step", !.used = {}]]
  /\ UNCHANGED <<registry, recorded>>

\* An error status, no connection, or no answer before the deadline.
Unavailable(r) ==
  /\ run[r].pc = "called"
  /\ Record(Current(r).capability, FALSE)
  /\ Fail(r, "unavailable")
  /\ UNCHANGED registry

\* Any other exception, of the catalog or of the invoker, passes through
\* Composer.run: the caller gets a 500 and no result.
Raise(r) ==
  /\ InStep(r) \/ run[r].pc = "called"
  /\ Fail(r, "raised")
  /\ UNCHANGED <<registry, recorded>>

AllRan(r) == run[r].pc = "step" /\ Len(run[r].trace) = Len(Plan(r).steps)

\* Either the trace is odd, or what the output takes from the caller's input.
Succeed(r) ==
  /\ AllRan(r) /\ AllResolve(Plan(r).output, run[r].ctx)
  /\ \E odd \in BOOLEAN :
       /\ odd => run[r].trace # <<>> \/ Plan(r).output # {}
       /\ run' = [run EXCEPT ![r] = [@ EXCEPT !.pc = "done", !.ctx = <<>>, !.odd = odd,
                                              !.output = Sources(Plan(r).output, run[r].ctx)]]
  /\ UNCHANGED <<registry, recorded>>

\* The output is put together, or one of its references fails.
Finish(r) ==
  \/ Succeed(r)
  \/ /\ AllRan(r) /\ ~AllResolve(Plan(r).output, run[r].ctx)
     /\ Fail(r, "reference")
     /\ UNCHANGED <<registry, recorded>>

-----------------------------------------------------------------------------

Init ==
  /\ order = [i \in DOMAIN Builtin |-> Builtin[i].name]
  /\ composites = [n \in CompositeNames |->
       IF n \in Names(order) THEN Builtin[CHOOSE i \in DOMAIN Builtin : order[i] = n].spec ELSE NoSpec]
  /\ publishes = 0
  /\ run = [r \in Runs |-> Blank]
  /\ recorded = [c \in Capabilities |-> [inv |-> 0, succ |-> 0]]

\* What happens to a run when nobody answers it.
Advance(r) ==
  \/ BadReference(r) \/ NoProvider(r) \/ InvalidInput(r) \/ Call(r)
  \/ Unavailable(r) \/ Finish(r) \/ ListNext(r)

Next ==
  \/ \E n \in CompositeNames : Compose(n)
  \/ \E doc \in Documents : CompileAgent(doc)
  \/ \E r \in Runs : \/ ListBegin(r) \/ Invoke(r) \/ Advance(r)
                      \/ Answered(r) \/ Rejected(r) \/ Raise(r)

\* The event loop resumes every run, and every invocation has a deadline
\* (RequestContext's default timeout).  No workload has to answer.
Fairness == \A r \in Runs : WF_vars(Advance(r))

Spec == Init /\ [][Next]_vars /\ Fairness

-----------------------------------------------------------------------------
(* Properties *)

TypeOK ==
  /\ composites \in [CompositeNames -> Specs]
  /\ publishes \in 0 .. MaxPublishes
  /\ Names(order) = {n \in CompositeNames : composites[n] # NoSpec}
  /\ \A r \in Runs :
       /\ DOMAIN run[r] = DOMAIN Blank
       /\ run[r].pc \in {"new", "listing", "step", "called", "done"} /\ run[r].error \in Errors
       /\ run[r].spec \in Specs /\ run[r].odd \in BOOLEAN /\ DOMAIN run[r].ctx \subseteq StepNames
       /\ \A n \in DOMAIN run[r].ctx : run[r].ctx[n].by[1] \in Runs /\ run[r].ctx[n].paths \in Shapes
  /\ \A c \in Capabilities : recorded[c].succ <= recorded[c].inv

\* The step of a composite that a reference to name from step i means: the
\* last earlier one so called, or the caller's input.
Meant(spec, i, name) ==
  LET earlier == {j \in 1 .. i - 1 : spec.steps[j].name = name}
  IN  IF earlier = {} THEN 0 ELSE CHOOSE j \in earlier : \A k \in earlier : k <= j

MeantBy(r, spec, i, refs) == {<<r, Meant(spec, i, ref[1])>> : ref \in refs}

\* Every step that ran, and the output of a run that succeeded, took its
\* values from the caller's input and the steps of the same run that the
\* composite had when the run began: never from another run, from a later
\* publication or from a value overwritten since (composer.py:99-126,
\* main.py:294, 319).
DataFlowsAsComposed ==
  \A r \in Runs :
    /\ \A i \in DOMAIN run[r].trace :
         /\ i <= Len(run[r].spec.steps)
         /\ run[r].trace[i] = MeantBy(r, run[r].spec, i, run[r].spec.steps[i].inputs)
    /\ run[r].pc = "done" /\ run[r].error = "none" =>
         run[r].output = MeantBy(r, run[r].spec, Len(run[r].spec.steps) + 1, run[r].spec.output)

\* A run either has its whole output, all of its steps having run, or an
\* error and no output, whichever step failed (composer.py:102-105, 107-126).
AllOrNothing ==
  \A r \in Runs : run[r].pc = "done" =>
    IF run[r].error = "none" THEN Len(run[r].trace) = Len(run[r].spec.steps)
                             ELSE run[r].output = {}

StepsRun(c) ==
  UNION {{<<r, i>> : i \in {j \in DOMAIN run[r].trace : run[r].spec.steps[j].capability = c}} : r \in Runs}

StepsUnavailable(c) ==
  {r \in Runs : run[r].error = "unavailable" /\ run[r].spec.steps[Len(run[r].trace) + 1].capability = c}

\* A listing that succeeds, while composites are published on other threads,
\* shows every composite registered when it began, once (main.py:280-282,
\* 294, 307).
ListingIsComplete ==
  \A r \in Runs : run[r].pc = "done" /\ run[r].known # {} /\ run[r].error = "none" =>
    Names(run[r].shown) = run[r].known /\ Len(run[r].shown) = Cardinality(run[r].known)

\* A reference to the whole output of an earlier step, to the whole input or
\* to a field of it that the composite requires; nothing is known of what is
\* inside that field.
Sound(spec, i, ref) ==
  \/ \E j \in 1 .. i - 1 : ref = <<spec.steps[j].name>>
  \/ ref = <<"input">>
  \/ \E f \in spec.required : ref = <<"input", f>>

\* Every reference is one, and no step hides the input.
SelfContained(spec) ==
  /\ \A i \in DOMAIN spec.steps : /\ spec.steps[i].name # "input"
                                 /\ \A ref \in spec.steps[i].inputs : Sound(spec, i, ref)
  /\ \A ref \in spec.output : Sound(spec, Len(spec.steps) + 1, ref)

\* A composite that can be seen to be self-contained, compiled from a
\* document or posted, never fails on a reference: validation of the caller's
\* input and the context that steps extend are enough (main.py:322,
\* composer.py:99-125, agentdsl.py:75-107).
SelfContainedResolves ==
  \A r \in Runs : run[r].error = "reference" => ~SelfContained(run[r].spec)

\* What invoke_composite answers over HTTP: a result, with or without an
\* error, is a 500 when its trace or output cannot be encoded.
Reply(r) ==
  LET e == run[r].error
      fails == e = "raised" \/ run[r].odd
  IN
  [status |-> CASE e = "unknown" -> 404 [] e = "schema" -> 422 [] fails -> 500 [] OTHER -> 200,
   json |-> ~fails,
   error |-> e \notin {"none", "unknown", "schema", "raised"},
   output |-> IF e = "none" THEN "output" ELSE "nothing"]

\* A generated client returns an output exactly when the run succeeded and
\* its result can be encoded.  It raises every other end of a run, in every
\* language; what is refused before it runs is raised by the JavaScript and
\* TypeScript clients only (agentdsl.py:202-205, 241-247, 265-268, 285-288,
\* 319-323; main.py:317-325).
ClientsReportFailure ==
  \A r \in Runs, lang \in Clients : run[r].pc = "done" /\ run[r].known = {} =>
    LET seen == ClientSees(lang, Reply(r)) IN
      /\ seen = "output" <=> run[r].error = "none" /\ ~run[r].odd
      /\ seen = "nothing" => run[r].spec = NoSpec /\ ~ChecksStatus(lang)

\* The effects of a pipeline that stops half way stay, and are counted: the
\* outcomes recorded are the steps in the traces plus the steps that ended a
\* run as unavailable (main.py:256-267).
EveryStepCounted ==
  \A c \in Capabilities :
    /\ recorded[c].succ = Cardinality(StepsRun(c))
    /\ recorded[c].inv = recorded[c].succ + Cardinality(StepsUnavailable(c))

\* Every run ends, whatever its composite is replaced by meanwhile and
\* however often no workload answers (composer.py:107-126, main.py:258,
\* models.py:87).
EveryRunEnds == \A r \in Runs : (run[r].pc # "new") ~> (run[r].pc = "done")

\* composer.py:9: "Composites compose recursively (a step may target another
\* composite)": no step fails for want of a provider when its capability is
\* that of another composite, published at that moment.
StepMayTargetComposite ==
  [][\A r \in Runs : run[r].error = "none" /\ run'[r].error = "provider" =>
       LET target == Current(r).capability
       IN  target \in CompositeNames \ {run[r].name} => composites[target] = NoSpec]_vars
=============================================================================
