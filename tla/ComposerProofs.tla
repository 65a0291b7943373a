--------------------------- MODULE ComposerProofs ---------------------------
(***************************************************************************)
(* What a run of a composite returns, reports and leaves in the counters,  *)
(* and what a listing shows, for every number of concurrent runs and any   *)
(* publications underneath.                                                *)
(***************************************************************************)
EXTENDS Composer, FiniteSetTheorems, SequenceTheorems, TLAPS

-----------------------------------------------------------------------------
(* The inductive invariant *)

Producers == SUBSET (Runs \X Nat)
Value == [by : Runs \X Nat, paths : Shapes]
Contexts == UNION {[D -> Value] : D \in SUBSET StepNames}
Traces == Seq(Producers)
Listings == Seq(CompositeNames)
Phases == {"new", "listing", "step", "called", "done"}
KnownNames == SUBSET CompositeNames

RunType == [pc : Phases, shown : Listings, known : KnownNames, name : CompositeNames, spec : Specs, ctx : Contexts,
            trace : Traces, used : Producers, output : Producers, odd : BOOLEAN, error : Errors]

Active(q) == q.pc \in {"step", "called"}

\* Where a run stands: what is still empty, and how far its trace has come.
PhaseInv(q) ==
  /\ q.pc # "done" => q.error = "none" /\ q.output = {}
  /\ q.pc \in {"new", "listing"} => q.spec = NoSpec /\ q.trace = <<>>
  /\ q.pc = "new" => q.known = {} /\ q.shown = <<>>
  /\ Active(q) => q.known = {}
  /\ q.pc = "called" => /\ Len(q.trace) < Len(q.spec.steps)
                        /\ q.spec.steps[Len(q.trace) + 1].capability \in Capabilities
  /\ q.pc = "done" /\ q.error = "none" => Len(q.trace) = Len(q.spec.steps)
  /\ q.error # "none" => q.output = {}
  /\ q.error \in {"unknown", "schema"} => q.spec = NoSpec

\* The trace, the context and the inputs at hand are what the composite
\* means by its references.
FlowInv(r, q) ==
  /\ Len(q.trace) <= Len(q.spec.steps)
  /\ \A i \in 1 .. Len(q.trace) : q.trace[i] = MeantBy(r, q.spec, i, q.spec.steps[i].inputs)
  /\ Active(q) => \A n \in DOMAIN q.ctx : q.ctx[n].by = <<r, Meant(q.spec, Len(q.trace) + 1, n)>>
  /\ q.pc = "called" =>
       q.used = MeantBy(r, q.spec, Len(q.trace) + 1, q.spec.steps[Len(q.trace) + 1].inputs)
  /\ q.pc = "done" /\ q.error = "none" => q.output = MeantBy(r, q.spec, Len(q.spec.steps) + 1, q.spec.output)

\* The context knows the input and every step that ran, and the input keeps
\* what was required of it.
ContextInv(q) ==
  /\ Active(q) =>
       /\ "input" \in DOMAIN q.ctx
       /\ \A j \in 1 .. Len(q.trace) : q.spec.steps[j].name \in DOMAIN q.ctx
       /\ SelfContained(q.spec) => Accepts(q.spec, q.ctx["input"].paths)
  /\ q.error = "reference" => ~SelfContained(q.spec)

\* A listing follows the order of the registry o, of which it knows a prefix.
ListInv(q, o) ==
  /\ q.pc = "listing" =>
       /\ Cardinality(q.known) <= Len(o)
       /\ q.known = {o[i] : i \in 1 .. Cardinality(q.known)}
       /\ Len(q.shown) <= Cardinality(q.known)
       /\ \A i \in 1 .. Len(q.shown) : q.shown[i] = o[i]
  /\ q.pc = "done" /\ q.known # {} /\ q.error = "none" =>
       Names(q.shown) = q.known /\ Len(q.shown) = Cardinality(q.known)
  /\ IsFiniteSet(q.known)

\* The registry's order has no name twice.
RegistryInv ==
  /\ composites \in [CompositeNames -> Specs]
  /\ publishes \in 0 .. MaxPublishes
  /\ order \in Seq(CompositeNames)
  /\ Names(order) = {n \in CompositeNames : composites[n] # NoSpec}
  /\ \A i, j \in DOMAIN order : order[i] = order[j] => i = j

\* StepsRun and StepsUnavailable of the runs rs.
StepsOf(rs, c) ==
  UNION {{<<r, i>> : i \in {j \in DOMAIN rs[r].trace : rs[r].spec.steps[j].capability = c}} : r \in Runs}
UnavailableOf(rs, c) ==
  {r \in Runs : rs[r].error = "unavailable" /\ rs[r].spec.steps[Len(rs[r].trace) + 1].capability = c}

Tally == [inv : Nat, succ : Nat]

\* The counters count the runs rs.
Counted(rec, rs, c) ==
  /\ IsFiniteSet(StepsOf(rs, c))
  /\ rec[c].succ = Cardinality(StepsOf(rs, c))
  /\ rec[c].inv = rec[c].succ + Cardinality(UnavailableOf(rs, c))

RunInv(r, q, o) == PhaseInv(q) /\ FlowInv(r, q) /\ ContextInv(q) /\ ListInv(q, o)

IInv ==
  /\ RegistryInv
  /\ run \in [Runs -> RunType]
  /\ \A r \in Runs : RunInv(r, run[r], order)
  /\ recorded \in [Capabilities -> Tally]
  /\ \A c \in Capabilities : Counted(recorded, run, c)
-----------------------------------------------------------------------------
(* Composites, references and contexts *)

\* The steps of every composite, compiled ones too, are a sequence.
LEMMA SpecSteps ==
  ASSUME NEW spec \in Specs
  PROVE  Len(spec.steps) \in Nat /\ DOMAIN spec.steps = 1 .. Len(spec.steps)
<1>1. CASE spec = NoSpec
  <2>1. spec.steps = <<>>
    BY <1>1 DEF NoSpec
  <2> QED
    BY <2>1
<1>2. CASE spec \in Library
  BY <1>2, ComposerAssumption DEF IsSequence
<1>3. ASSUME NEW doc \in Documents, Parses(doc), spec = Compiled(doc)
      PROVE  Len(spec.steps) \in Nat /\ DOMAIN spec.steps = 1 .. Len(spec.steps)
  <2> DEFINE n == Cardinality(Lines(doc, "step"))
             st(k) == NthOf(doc, Lines(doc, "step"), k)
             step(k) == [name |-> st(k).name, capability |-> st(k).capability, inputs |-> Inputs(st(k).args)]
  <2>1. n \in Nat
    <3>1. DOMAIN doc = 1 .. Len(doc) /\ Len(doc) \in Nat
      BY ComposerAssumption DEF IsSequence
    <3>2. IsFiniteSet(1 .. Len(doc))
      BY <3>1, FS_Interval
    <3>3. Lines(doc, "step") \in SUBSET (1 .. Len(doc))
      BY <3>1 DEF Lines
    <3> QED
      BY <3>2, <3>3, FS_Subset, FS_CardinalityType
  <2>2. spec.steps = [k \in 1 .. n |-> step(k)]
    BY <1>3 DEF Compiled, Steps
  <2> HIDE DEF n, step
  <2>3. Len([k \in 1 .. n |-> step(k)]) = n
    <3> DEFINE s == [k \in 1 .. n |-> step(k)]
    <3>1. s \in Seq({step(k) : k \in 1 .. n})
      BY <2>1
    <3> QED
      BY <2>1, <3>1
  <2> QED
    BY <2>1, <2>2, <2>3
<1> QED
  BY <1>1, <1>2, <1>3 DEF Specs, Composites

\* The composite that is not there is none of them.
LEMMA NoSpecApart == NoSpec \notin Composites
<1>1. \A doc : Compiled(doc) # NoSpec
  <2>1. \A doc : Compiled(doc).missing = FALSE /\ NoSpec.missing = TRUE
    BY DEF Compiled, NoSpec
  <2> QED
    BY <2>1
<1> QED
  BY <1>1, ComposerAssumption DEF Composites

\* A context has values under some of the names of steps.
LEMMA ContextParts ==
  ASSUME NEW ctx \in Contexts
  PROVE  DOMAIN ctx \subseteq StepNames /\ \A n \in DOMAIN ctx : ctx[n] \in Value
<1>1. PICK D \in SUBSET StepNames : ctx \in [D -> Value]
  BY DEF Contexts
<1> QED
  BY <1>1

\* Anything of that shape is one.
LEMMA ContextMade ==
  ASSUME NEW D \in SUBSET StepNames, NEW ctx \in [D -> Value]
  PROVE  ctx \in Contexts
  BY DEF Contexts

\* The empty one is.
LEMMA ContextEmpty == <<>> \in Contexts
<1>1. <<>> \in [{} -> Value] /\ {} \in SUBSET StepNames
  OBVIOUS
<1> QED
  BY <1>1, ContextMade

\* Assigning a step's output to its name keeps a context one.
LEMMA ContextExtended ==
  ASSUME NEW ctx \in Contexts, NEW name \in StepNames, NEW v \in Value
  PROVE  /\ Extend(ctx, name, v) \in Contexts
         /\ DOMAIN Extend(ctx, name, v) = DOMAIN ctx \cup {name}
         /\ Extend(ctx, name, v)[name] = v
         /\ \A n \in DOMAIN ctx : n # name => Extend(ctx, name, v)[n] = ctx[n]
<1> DEFINE D == DOMAIN ctx \cup {name}
<1>1. D \in SUBSET StepNames
  BY ContextParts
<1>2. Extend(ctx, name, v) \in [D -> Value]
  BY ContextParts DEF Extend
<1> HIDE DEF D
<1>3. Extend(ctx, name, v) \in Contexts
  BY <1>1, <1>2, ContextMade
<1> QED
  BY <1>3 DEF Extend

\* Before the first step every reference means the caller's input ...
LEMMA MeantFirst ==
  ASSUME NEW spec, NEW name
  PROVE  Meant(spec, 1, name) = 0
  BY DEF Meant

\* ... and each step takes over its own name, and no other.
LEMMA MeantNext ==
  ASSUME NEW spec, NEW k \in Nat, k >= 1, NEW name
  PROVE  Meant(spec, k + 1, name) = IF spec.steps[k].name = name THEN k ELSE Meant(spec, k, name)
<1> DEFINE E(i) == {j \in 1 .. i - 1 : spec.steps[j].name = name}
<1>1. ASSUME NEW i PROVE Meant(spec, i, name) = IF E(i) = {} THEN 0 ELSE CHOOSE j \in E(i) : \A l \in E(i) : l <= j
  BY DEF Meant
<1>2. CASE spec.steps[k].name = name
  <2>1. k \in E(k + 1) /\ \A l \in E(k + 1) : l \in Nat /\ l <= k
    BY <1>2
  <2> HIDE DEF E
  <2>2. \A j \in E(k + 1) : (\A l \in E(k + 1) : l <= j) => j = k
    BY <2>1
  <2>3. \A l \in E(k + 1) : l <= k
    BY <2>1
  <2>4. (CHOOSE j \in E(k + 1) : \A l \in E(k + 1) : l <= j) = k
    BY <2>1, <2>2, <2>3
  <2> QED
    BY <1>1, <1>2, <2>1, <2>4
<1>3. CASE spec.steps[k].name # name
  <2>1. E(k + 1) = E(k)
    BY <1>3
  <2> HIDE DEF E
  <2> QED
    BY <1>1, <1>3, <2>1
<1> QED
  BY <1>2, <1>3

\* Every name of the context leads to the producer the composite means before
\* step k.
Leads(ctx, r, spec, k) == \A n \in DOMAIN ctx : ctx[n].by = <<r, Meant(spec, k, n)>>

\* So the context that has a step's output leads where the next step means.
LEMMA ContextMeant ==
  ASSUME NEW r, NEW spec, NEW k \in Nat, k >= 1, NEW ctx \in Contexts, Leads(ctx, r, spec, k),
         spec.steps[k].name \in StepNames, NEW v \in Value, v.by = <<r, k>>
  PROVE  Leads(Extend(ctx, spec.steps[k].name, v), r, spec, k + 1)
<1> DEFINE name == spec.steps[k].name
<1> SUFFICES ASSUME NEW n \in DOMAIN Extend(ctx, name, v)
             PROVE  Extend(ctx, name, v)[n].by = <<r, Meant(spec, k + 1, n)>>
  BY DEF Leads
<1>1. Meant(spec, k + 1, n) = IF name = n THEN k ELSE Meant(spec, k, n)
  BY MeantNext
<1>2. name \in StepNames
  OBVIOUS
<1> HIDE DEF name
<1>3. /\ DOMAIN Extend(ctx, name, v) = DOMAIN ctx \cup {name} /\ Extend(ctx, name, v)[name] = v
      /\ \A m \in DOMAIN ctx : m # name => Extend(ctx, name, v)[m] = ctx[m]
  BY <1>2, ContextExtended
<1>4. CASE n = name
  BY <1>1, <1>3, <1>4
<1>5. CASE n # name
  BY <1>1, <1>3, <1>5 DEF Leads
<1> QED
  BY <1>4, <1>5

\* References that resolve lead where the composite means them to.
LEMMA SourcesMeant ==
  ASSUME NEW r, NEW spec, NEW k, NEW ctx, NEW refs, AllResolve(refs, ctx),
         \A n \in DOMAIN ctx : ctx[n].by = <<r, Meant(spec, k, n)>>
  PROVE  Sources(refs, ctx) = MeantBy(r, spec, k, refs)
<1>1. \A ref \in refs : ctx[ref[1]].by = <<r, Meant(spec, k, ref[1])>>
  BY DEF AllResolve, Resolves
<1> QED
  BY <1>1 DEF Sources, MeantBy

\* What a step reads was produced by runs.
LEMMA SourcesType ==
  ASSUME NEW ctx \in Contexts, NEW refs, AllResolve(refs, ctx)
  PROVE  Sources(refs, ctx) \in Producers
<1>1. \A ref \in refs : ctx[ref[1]].by \in Runs \X Nat
  BY ContextParts DEF AllResolve, Resolves, Value
<1> QED
  BY <1>1 DEF Sources, Producers

\* A sound reference resolves in a context that has the earlier steps and
\* an input that was accepted.
LEMMA SoundResolves ==
  ASSUME NEW spec, NEW k \in Nat, NEW ctx, NEW ref, Sound(spec, k + 1, ref),
         "input" \in DOMAIN ctx, \A j \in 1 .. k : spec.steps[j].name \in DOMAIN ctx,
         Accepts(spec, ctx["input"].paths)
  PROVE  Resolves(ref, ctx)
<1>1. CASE \E j \in 1 .. k : ref = <<spec.steps[j].name>>
  BY <1>1 DEF Resolves
<1>2. CASE ref = <<"input">>
  BY <1>2 DEF Resolves
<1>3. ASSUME NEW f \in spec.required, ref = <<"input", f>> PROVE Resolves(ref, ctx)
  <2>1. ref[1] = "input" /\ 2 .. Len(ref) = {2}
    BY <1>3
  <2>2. SubSeq(<<"input", f>>, 2, 2) = <<f>>
    <3> DEFINE path == <<"input", f>>
               part == SubSeq(path, 2, 2)
    <3>1. \A i \in 2 .. 2 : path[i] \in {f}
      OBVIOUS
    <3>2. path[2] = f
      OBVIOUS
    <3> HIDE DEF path
    <3>3. /\ part \in Seq({f}) /\ Len(part) = IF 2 <= 2 THEN 2 - 2 + 1 ELSE 0
          /\ \A i \in 1 .. 2 - 2 + 1 : part[i] = path[2 + i - 1]
      BY <3>1, SubSeqProperties
    <3> HIDE DEF part
    <3>4. part \in Seq({f}) /\ Len(part) = 1 /\ part[1] = f
      BY <3>2, <3>3
    <3>5. part = <<f>>
      BY <3>4
    <3> QED
      BY <3>5 DEF part, path
  <2>3. <<f>> \in ctx["input"].paths
    BY DEF Accepts
  <2> QED
    BY <1>3, <2>1, <2>2, <2>3 DEF Resolves
<1>4. 1 .. k + 1 - 1 = 1 .. k
  OBVIOUS
<1> QED
  BY <1>1, <1>2, <1>3, <1>4 DEF Sound

-----------------------------------------------------------------------------
(* The registry *)

\* A sequence without repetitions is as long as it has elements.
LEMMA NamesCounted ==
  ASSUME NEW S, NEW o \in Seq(S), \A i, j \in DOMAIN o : o[i] = o[j] => i = j
  PROVE  IsFiniteSet(Names(o)) /\ Cardinality(Names(o)) = Len(o)
<1>1. Len(o) \in Nat /\ DOMAIN o = 1 .. Len(o)
  OBVIOUS
<1>2. o \in Bijection(1 .. Len(o), Names(o))
  <2>1. o \in [1 .. Len(o) -> Names(o)] /\ \A n \in Names(o) : \E i \in 1 .. Len(o) : o[i] = n
    BY <1>1 DEF Names
  <2>2. \A i, j \in 1 .. Len(o) : o[i] = o[j] => i = j
    BY <1>1
  <2> QED
    BY <2>1, <2>2 DEF Bijection, Injection, Surjection, IsInjective
<1>3. ExistsBijection(1 .. Len(o), Names(o))
  BY <1>2 DEF ExistsBijection
<1>4. IsFiniteSet(1 .. Len(o))
  BY <1>1, FS_Interval
<1> QED
  BY <1>1, <1>3, <1>4, FS_Bijection, FS_CountingElements

\* o is a prefix of p.
Extends(p, o) == Len(o) <= Len(p) /\ \A i \in 1 .. Len(o) : p[i] = o[i]

\* Publishing a composite keeps the registry in order: a name that is there
\* stays in its place, a new one goes last.
LEMMA PutRegistry ==
  ASSUME RegistryInv, NEW n \in CompositeNames, NEW spec \in Composites, Put(n, spec)
  PROVE  RegistryInv' /\ Extends(order', order)
<1>1. /\ publishes < MaxPublishes /\ publishes' = publishes + 1
      /\ composites' = [composites EXCEPT ![n] = spec]
      /\ order' = IF n \in Names(order) THEN order ELSE Append(order, n)
  BY DEF Put, Ordered
<1>2. /\ composites \in [CompositeNames -> Specs] /\ publishes \in 0 .. MaxPublishes
      /\ order \in Seq(CompositeNames) /\ Len(order) \in Nat /\ DOMAIN order = 1 .. Len(order)
      /\ Names(order) = {m \in CompositeNames : composites[m] # NoSpec}
      /\ \A i, j \in DOMAIN order : order[i] = order[j] => i = j
  BY DEF RegistryInv
<1>3. spec \in Specs /\ spec # NoSpec
  BY NoSpecApart DEF Specs
<1>4. composites' \in [CompositeNames -> Specs] /\ publishes' \in 0 .. MaxPublishes
  BY <1>1, <1>2, <1>3, ComposerAssumption
<1>5. {m \in CompositeNames : composites'[m] # NoSpec} = Names(order) \cup {n}
  BY <1>1, <1>2, <1>3
<1>6. CASE n \in Names(order)
  <2>1. order' = order
    BY <1>1, <1>6
  <2>2. Names(order) = Names(order) \cup {n}
    BY <1>6
  <2> QED
    BY <1>2, <1>4, <1>5, <2>1, <2>2 DEF RegistryInv, Extends
<1>7. CASE n \notin Names(order)
  <2>1. order' = Append(order, n)
    BY <1>1, <1>7
  <2>2. /\ order' \in Seq(CompositeNames) /\ Len(order') = Len(order) + 1
        /\ DOMAIN order' = 1 .. Len(order) + 1
        /\ \A i \in 1 .. Len(order) : order'[i] = order[i]
        /\ order'[Len(order) + 1] = n
    BY <1>2, <2>1
  <2>3. Names(order') = Names(order) \cup {n}
    <3>1. Names(order') = {order'[i] : i \in 1 .. Len(order) + 1} /\ Names(order) = {order[i] : i \in 1 .. Len(order)}
      BY <1>2, <2>2 DEF Names
    <3>2. \A i : i \in 1 .. Len(order) + 1 <=> i \in 1 .. Len(order) \/ i = Len(order) + 1
      BY <1>2
    <3> QED
      BY <2>2, <3>1, <3>2
  <2>4. ASSUME NEW i \in DOMAIN order', NEW j \in DOMAIN order', order'[i] = order'[j] PROVE i = j
    <3>1. \A k \in 1 .. Len(order) : order[k] # n
      BY <1>2, <1>7 DEF Names
    <3> QED
      BY <1>2, <2>2, <2>4, <3>1
  <2>5. Extends(order', order)
    BY <1>2, <2>2 DEF Extends
  <2> QED
    BY <1>4, <1>5, <2>2, <2>3, <2>4, <2>5 DEF RegistryInv
<1> QED
  BY <1>6, <1>7

\* A listing's prefix is one of the longer order too.
LEMMA ListKept ==
  ASSUME NEW q \in RunType, NEW o, NEW p, Len(o) \in Nat, Len(p) \in Nat, Extends(p, o), ListInv(q, o)
  PROVE  ListInv(q, p)
<1> DEFINE k == Cardinality(q.known)
<1>1. k \in Nat /\ Len(q.shown) \in Nat
  BY FS_CardinalityType DEF ListInv, RunType, Listings
<1>2. CASE q.pc = "listing"
  <2>1. /\ k <= Len(o) /\ q.known = {o[i] : i \in 1 .. k}
        /\ Len(q.shown) <= k /\ \A i \in 1 .. Len(q.shown) : q.shown[i] = o[i]
    BY <1>2 DEF ListInv
  <2>2. k <= Len(p) /\ \A i \in 1 .. k : p[i] = o[i]
    BY <1>1, <2>1 DEF Extends
  <2>3. {o[i] : i \in 1 .. k} = {p[i] : i \in 1 .. k}
    BY <2>2
  <2>4. \A i \in 1 .. Len(q.shown) : q.shown[i] = p[i]
    BY <1>1, <2>1, <2>2
  <2> QED
    BY <1>2, <2>1, <2>2, <2>3, <2>4 DEF ListInv
<1>3. CASE q.pc # "listing"
  BY <1>3 DEF ListInv
<1> QED
  BY <1>2, <1>3

-----------------------------------------------------------------------------
(* One run changes *)

\* A step of r that leaves r's record well formed leaves all of them so.
LEMMA OneRun ==
  ASSUME run \in [Runs -> RunType], \A s \in Runs : RunInv(s, run[s], order),
         NEW r \in Runs, NEW q \in RunType, RunInv(r, q, order), run' = [run EXCEPT ![r] = q], order' = order
  PROVE  run' \in [Runs -> RunType] /\ \A s \in Runs : RunInv(s, run'[s], order')
<1>1. run' \in [Runs -> RunType]
  OBVIOUS
<1>2. ASSUME NEW s \in Runs PROVE RunInv(s, run'[s], order)
  BY <1>2
<1> QED
  BY <1>1, <1>2

\* A step that neither extends r's trace nor ends r as unavailable is not
\* counted; the composite is fixed once there is a trace.
LEMMA NothingCounted ==
  ASSUME run \in [Runs -> RunType], NEW r \in Runs, NEW q \in RunType, run' = [run EXCEPT ![r] = q],
         q.trace = run[r].trace, q.spec = run[r].spec \/ q.trace = <<>>,
         run[r].error = "none", q.error # "unavailable",
         recorded' = recorded, NEW c \in Capabilities, Counted(recorded, run, c)
  PROVE  Counted(recorded', run', c)
<1>1. \A s \in Runs : run'[s] = IF s = r THEN q ELSE run[s]
  OBVIOUS
<1>2. ASSUME NEW s \in Runs
      PROVE  {j \in DOMAIN run'[s].trace : run'[s].spec.steps[j].capability = c}
               = {j \in DOMAIN run[s].trace : run[s].spec.steps[j].capability = c}
  <2>1. CASE s # r
    BY <1>1, <2>1
  <2>2. CASE s = r /\ q.spec = run[r].spec
    BY <1>1, <2>2
  <2>3. CASE s = r /\ q.trace = <<>>
    BY <1>1, <2>3
  <2> QED
    BY <2>1, <2>2, <2>3
<1>3. StepsOf(run', c) = StepsOf(run, c)
  BY <1>2 DEF StepsOf
<1>4. UnavailableOf(run', c) = UnavailableOf(run, c)
  BY <1>1 DEF UnavailableOf
<1> QED
  BY <1>3, <1>4 DEF Counted

-----------------------------------------------------------------------------
(* What each step makes of a run *)

\* The parts of a run's record.
LEMMA RunParts ==
  ASSUME NEW q \in RunType
  PROVE  /\ q.pc \in Phases /\ q.error \in Errors /\ q.spec \in Specs /\ q.ctx \in Contexts
         /\ q.trace \in Traces /\ Len(q.trace) \in Nat /\ DOMAIN q.trace = 1 .. Len(q.trace)
         /\ q.used \in Producers /\ q.output \in Producers /\ q.odd \in BOOLEAN
         /\ q.shown \in Listings /\ Len(q.shown) \in Nat /\ DOMAIN q.shown = 1 .. Len(q.shown)
         /\ q.known \in KnownNames /\ q.name \in CompositeNames
         /\ Len(q.spec.steps) \in Nat /\ DOMAIN q.spec.steps = 1 .. Len(q.spec.steps)
<1>1. /\ q.pc \in Phases /\ q.error \in Errors /\ q.spec \in Specs /\ q.ctx \in Contexts
      /\ q.trace \in Traces /\ q.used \in Producers /\ q.output \in Producers /\ q.odd \in BOOLEAN
      /\ q.shown \in Listings /\ q.known \in KnownNames /\ q.name \in CompositeNames
  BY DEF RunType
<1>2. /\ Len(q.trace) \in Nat /\ DOMAIN q.trace = 1 .. Len(q.trace)
      /\ Len(q.shown) \in Nat /\ DOMAIN q.shown = 1 .. Len(q.shown)
  BY <1>1 DEF Traces, Listings
<1> QED
  BY <1>1, <1>2, SpecSteps

\* The sets a new value is taken from.
LEMMA Constants ==
  /\ {} \in Producers /\ {} \in KnownNames /\ <<>> \in Traces /\ <<>> \in Listings
  /\ \A pc \in {"new", "listing", "step", "called", "done"} : pc \in Phases
  /\ Phases = {"new", "listing", "step", "called", "done"}
  /\ \A e \in {"none", "reference", "provider", "invalid", "rejected", "unavailable", "raised", "unknown", "schema",
               "changed"} : e \in Errors
<1>1. {} \in Producers /\ {} \in KnownNames
  BY DEF Producers, KnownNames
<1>2. <<>> \in Traces /\ <<>> \in Listings
  BY DEF Traces, Listings
<1> QED
  BY <1>1, <1>2 DEF Phases, Errors

\* A failure keeps the trace and returns no output.
LEMMA FailedRun ==
  ASSUME NEW r, NEW o, NEW p \in RunType, RunInv(r, p, o), Active(p),
         NEW error \in Errors \ {"none", "unknown", "schema"},
         error = "reference" => ~SelfContained(p.spec), NEW odd \in BOOLEAN,
         NEW q, q = [p EXCEPT !.pc = "done", !.error = error, !.used = {}, !.ctx = <<>>, !.odd = odd]
  PROVE  q \in RunType /\ RunInv(r, q, o)
<1>1. q \in RunType
  BY Constants, ContextEmpty DEF RunType
<1>2. /\ q.pc = "done" /\ q.error = error /\ q.spec = p.spec /\ q.trace = p.trace
      /\ q.output = p.output /\ q.known = p.known /\ q.shown = p.shown
  BY DEF RunType
<1>3. p.output = {} /\ p.known = {}
  BY DEF RunInv, PhaseInv, Active
<1>4. PhaseInv(q)
  BY <1>2, <1>3 DEF PhaseInv, Active
<1>5. FlowInv(r, q)
  BY <1>2 DEF RunInv, FlowInv, Active
<1>6. ContextInv(q)
  BY <1>2 DEF ContextInv, Active
<1>7. ListInv(q, o)
  BY <1>2, <1>3 DEF RunInv, ListInv
<1> QED
  BY <1>1, <1>4, <1>5, <1>6, <1>7 DEF RunInv

\* A call reads what the composite means.
LEMMA CalledRun ==
  ASSUME NEW r, NEW o, NEW p \in RunType, RunInv(r, p, o), p.pc = "step",
         Len(p.trace) < Len(p.spec.steps),
         AllResolve(p.spec.steps[Len(p.trace) + 1].inputs, p.ctx),
         p.spec.steps[Len(p.trace) + 1].capability \in Capabilities,
         NEW q, q = [p EXCEPT !.pc = "called", !.used = Sources(p.spec.steps[Len(p.trace) + 1].inputs, p.ctx)]
  PROVE  q \in RunType /\ RunInv(r, q, o)
<1> DEFINE u == Sources(p.spec.steps[Len(p.trace) + 1].inputs, p.ctx)
<1>1. u \in Producers
  BY SourcesType, RunParts
<1>2. u = MeantBy(r, p.spec, Len(p.trace) + 1, p.spec.steps[Len(p.trace) + 1].inputs)
  BY SourcesMeant DEF RunInv, FlowInv, Active
<1> HIDE DEF u
<1>3. q = [p EXCEPT !.pc = "called", !.used = u]
  BY DEF u
<1>4. q \in RunType
  BY <1>1, <1>3, Constants DEF RunType
<1>5. /\ q.pc = "called" /\ q.error = p.error /\ q.spec = p.spec /\ q.trace = p.trace /\ q.ctx = p.ctx
      /\ q.output = p.output /\ q.known = p.known /\ q.shown = p.shown /\ q.used = u
  BY <1>3 DEF RunType
<1>6. PhaseInv(q)
  BY <1>5 DEF RunInv, PhaseInv, Active
<1>7. FlowInv(r, q)
  BY <1>2, <1>5 DEF RunInv, FlowInv, Active
<1>8. ContextInv(q)
  BY <1>5 DEF RunInv, ContextInv, Active
<1>9. ListInv(q, o)
  BY <1>5, <1>6 DEF RunInv, ListInv, PhaseInv, Active
<1> QED
  BY <1>4, <1>6, <1>7, <1>8, <1>9 DEF RunInv

\* q is p after the workload has answered.
AnsweredWith(r, p, paths, q) ==
  q = [p EXCEPT !.pc = "step", !.used = {}, !.trace = Append(@, p.used),
                !.ctx = Extend(@, p.spec.steps[Len(p.trace) + 1].name,
                               [by |-> <<r, Len(p.trace) + 1>>, paths |-> paths])]

\* An answer becomes what its step's name means from now on.
LEMMA AnsweredRun ==
  ASSUME NEW r \in Runs, NEW o, NEW p \in RunType, RunInv(r, p, o), p.pc = "called", NEW paths \in Shapes,
         NEW q, AnsweredWith(r, p, paths, q)
  PROVE  q \in RunType /\ RunInv(r, q, o)
<1> DEFINE k == Len(p.trace) + 1
           name == p.spec.steps[k].name
           v == [by |-> <<r, k>>, paths |-> paths]
           c == Extend(p.ctx, name, v)
           t == Append(p.trace, p.used)
<1>1. /\ k \in Nat /\ k >= 1 /\ k <= Len(p.spec.steps) /\ Len(p.trace) = k - 1 /\ Len(p.spec.steps) \in Nat
      /\ p.spec # NoSpec /\ p.error = "none" /\ p.output = {} /\ p.known = {}
  <2>1. Len(p.trace) < Len(p.spec.steps) /\ p.error = "none" /\ p.output = {} /\ p.known = {}
    BY DEF RunInv, PhaseInv, Active
  <2>2. Len(NoSpec.steps) = 0
    BY DEF NoSpec
  <2> QED
    BY <2>1, <2>2, RunParts
<1>2. name \in StepNames
  <2>1. p.spec \in Composites /\ k \in DOMAIN p.spec.steps
    BY <1>1, RunParts DEF Specs
  <2> QED
    BY <2>1 DEF StepNames
<1>3. v \in Value /\ v.by = <<r, k>> /\ v.paths = paths
  BY <1>1 DEF Value
<1>4. /\ c \in Contexts /\ DOMAIN c = DOMAIN p.ctx \cup {name} /\ c[name] = v
      /\ \A n \in DOMAIN p.ctx : n # name => c[n] = p.ctx[n]
  <2> DEFINE x == p.ctx
  <2>1. x \in Contexts
    BY RunParts
  <2>2. v \in Value
    BY <1>3
  <2> HIDE DEF k, name, v, x
  <2>3. /\ Extend(x, name, v) \in Contexts /\ DOMAIN Extend(x, name, v) = DOMAIN x \cup {name}
        /\ Extend(x, name, v)[name] = v
        /\ \A n \in DOMAIN x : n # name => Extend(x, name, v)[n] = x[n]
    BY <1>2, <2>1, <2>2, ContextExtended
  <2> QED
    BY <2>3 DEF x
<1>5. t \in Traces /\ Len(t) = k /\ t[k] = p.used /\ \A i \in 1 .. k - 1 : t[i] = p.trace[i]
  BY <1>1, RunParts DEF Traces
<1>6. q = [p EXCEPT !.pc = "step", !.used = {}, !.trace = t, !.ctx = c]
  BY DEF AnsweredWith
<1>7. name = p.spec.steps[k].name
  OBVIOUS
<1>8. /\ p.used = MeantBy(r, p.spec, k, p.spec.steps[k].inputs)
      /\ Leads(p.ctx, r, p.spec, k)
  BY DEF RunInv, FlowInv, Active, Leads
<1> HIDE DEF c, t, k, name, v
<1>9. \A n \in DOMAIN c : c[n].by = <<r, Meant(p.spec, k + 1, n)>>
  <2>1. p.ctx \in Contexts
    BY RunParts
  <2>2. p.spec.steps[k].name \in StepNames
    BY <1>2, <1>7
  <2>3. Leads(Extend(p.ctx, p.spec.steps[k].name, v), r, p.spec, k + 1)
    BY <1>1, <1>3, <1>8, <2>1, <2>2, ContextMeant
  <2> QED
    BY <1>7, <2>3 DEF c, Leads
<1>10. q \in RunType
  BY <1>4, <1>5, <1>6, Constants DEF RunType
<1>11. /\ q.pc = "step" /\ q.error = p.error /\ q.spec = p.spec /\ q.trace = t /\ q.ctx = c
      /\ q.output = p.output /\ q.known = p.known /\ q.shown = p.shown
  BY <1>6 DEF RunType
<1>12. PhaseInv(q)
  BY <1>1, <1>11 DEF PhaseInv, Active
<1>13. FlowInv(r, q)
  <2>1. \A i \in 1 .. Len(q.trace) : q.trace[i] = MeantBy(r, q.spec, i, q.spec.steps[i].inputs)
    <3>1. \A i \in 1 .. k - 1 : p.trace[i] = MeantBy(r, p.spec, i, p.spec.steps[i].inputs)
      BY <1>1 DEF RunInv, FlowInv
    <3>2. p.used = MeantBy(r, p.spec, k, p.spec.steps[k].inputs)
      BY <1>8
    <3>3. \A i \in 1 .. k : i = k \/ i \in 1 .. k - 1
      BY <1>1
    <3> QED
      BY <1>5, <1>11, <3>1, <3>2, <3>3
  <2>2. ASSUME NEW n \in DOMAIN q.ctx PROVE q.ctx[n].by = <<r, Meant(q.spec, Len(q.trace) + 1, n)>>
    BY <1>5, <1>9, <1>11, <2>2
  <2> QED
    BY <1>1, <1>5, <1>11, <2>1, <2>2 DEF FlowInv
<1>14. ContextInv(q)
  <2>1. /\ "input" \in DOMAIN p.ctx /\ \A j \in 1 .. k - 1 : p.spec.steps[j].name \in DOMAIN p.ctx
        /\ SelfContained(p.spec) => Accepts(p.spec, p.ctx["input"].paths)
    BY <1>1 DEF RunInv, ContextInv, Active
  <2>2. \A j \in 1 .. k : j = k \/ j \in 1 .. k - 1
    BY <1>1
  <2>3. SelfContained(p.spec) => name # "input"
    BY <1>1, <1>7, RunParts DEF SelfContained
  <2> QED
    BY <1>1, <1>4, <1>5, <1>11, <1>7, <2>1, <2>2, <2>3 DEF ContextInv, Active
<1>15. ListInv(q, o)
  BY <1>1, <1>11 DEF RunInv, ListInv
<1> QED
  BY <1>10, <1>12, <1>13, <1>14, <1>15 DEF RunInv

\* The output is put together from what the composite means.
LEMMA SucceededRun ==
  ASSUME NEW r, NEW o, NEW p \in RunType, RunInv(r, p, o), p.pc = "step",
         Len(p.trace) = Len(p.spec.steps), AllResolve(p.spec.output, p.ctx),
         NEW odd \in BOOLEAN,
         NEW q, q = [p EXCEPT !.pc = "done", !.ctx = <<>>, !.odd = odd, !.output = Sources(p.spec.output, p.ctx)]
  PROVE  q \in RunType /\ RunInv(r, q, o)
<1> DEFINE u == Sources(p.spec.output, p.ctx)
<1>1. u \in Producers
  BY SourcesType, RunParts
<1>2. u = MeantBy(r, p.spec, Len(p.spec.steps) + 1, p.spec.output)
  BY SourcesMeant DEF RunInv, FlowInv, Active
<1> HIDE DEF u
<1>3. q = [p EXCEPT !.pc = "done", !.ctx = <<>>, !.odd = odd, !.output = u]
  BY DEF u
<1>4. q \in RunType
  BY <1>1, <1>3, Constants, ContextEmpty DEF RunType
<1>5. /\ q.pc = "done" /\ q.error = p.error /\ q.spec = p.spec /\ q.trace = p.trace
      /\ q.output = u /\ q.known = p.known /\ q.shown = p.shown
  BY <1>3 DEF RunType
<1>6. p.error = "none" /\ p.known = {}
  BY DEF RunInv, PhaseInv, Active
<1>7. PhaseInv(q)
  BY <1>5, <1>6 DEF PhaseInv, Active
<1>8. FlowInv(r, q)
  BY <1>2, <1>5 DEF RunInv, FlowInv, Active
<1>9. ContextInv(q)
  BY <1>5, <1>6 DEF ContextInv, Active
<1>10. ListInv(q, o)
  BY <1>5, <1>6 DEF RunInv, ListInv
<1> QED
  BY <1>4, <1>7, <1>8, <1>9, <1>10 DEF RunInv

\* What is refused never had a composite.
LEMMA RefusedRun ==
  ASSUME NEW r, NEW o, NEW p \in RunType, RunInv(r, p, o), p.pc = "new",
         NEW error \in {"unknown", "raised", "schema"}, NEW n \in CompositeNames,
         NEW q, q = [p EXCEPT !.pc = "done", !.name = n, !.error = error]
  PROVE  q \in RunType /\ RunInv(r, q, o)
<1>1. error \in Errors
  BY Constants
<1>2. q \in RunType
  BY <1>1, Constants DEF RunType
<1>3. /\ q.pc = "done" /\ q.error = error /\ q.spec = p.spec /\ q.trace = p.trace
      /\ q.output = p.output /\ q.known = p.known /\ q.shown = p.shown
  BY DEF RunType
<1>4. p.output = {} /\ p.known = {} /\ p.spec = NoSpec
  BY DEF RunInv, PhaseInv
<1>5. PhaseInv(q)
  BY <1>3, <1>4 DEF PhaseInv, Active
<1>6. FlowInv(r, q)
  BY <1>3 DEF RunInv, FlowInv, Active
<1>7. ContextInv(q)
  BY <1>3 DEF ContextInv, Active
<1>8. ListInv(q, o)
  BY <1>3, <1>4 DEF RunInv, ListInv
<1> QED
  BY <1>2, <1>5, <1>6, <1>7, <1>8 DEF RunInv

\* The context of a run that starts.
LEMMA InputContext ==
  ASSUME NEW r \in Runs, NEW paths \in Shapes,
         NEW c, c = [k \in {"input"} |-> [by |-> <<r, 0>>, paths |-> paths]]
  PROVE  c \in Contexts /\ DOMAIN c = {"input"} /\ c["input"].by = <<r, 0>> /\ c["input"].paths = paths
<1>1. [by |-> <<r, 0>>, paths |-> paths] \in Value
  BY DEF Value
<1>2. c \in [{"input"} -> Value] /\ {"input"} \in SUBSET StepNames
  BY <1>1 DEF StepNames
<1>3. c \in Contexts
  BY <1>2, ContextMade
<1> QED
  BY <1>3

\* An accepted run starts with the input, which has what is required.
LEMMA StartedRun ==
  ASSUME NEW r \in Runs, NEW o, NEW p \in RunType, RunInv(r, p, o), p.pc = "new",
         NEW n \in CompositeNames, NEW spec \in Specs, NEW c \in Contexts, DOMAIN c = {"input"},
         c["input"].by = <<r, 0>>, Accepts(spec, c["input"].paths),
         NEW q, q = [p EXCEPT !.pc = "step", !.name = n, !.spec = spec, !.ctx = c]
  PROVE  q \in RunType /\ RunInv(r, q, o)
<1>1. q \in RunType
  BY Constants DEF RunType
<1>2. /\ q.pc = "step" /\ q.error = p.error /\ q.spec = spec /\ q.trace = p.trace /\ q.ctx = c
      /\ q.output = p.output /\ q.known = p.known /\ q.shown = p.shown
  BY DEF RunType
<1>3. p.output = {} /\ p.known = {} /\ p.error = "none" /\ p.trace = <<>>
  BY DEF RunInv, PhaseInv
<1>4. Len(q.trace) = 0 /\ Len(spec.steps) \in Nat
  BY <1>2, <1>3, SpecSteps
<1>5. PhaseInv(q)
  BY <1>2, <1>3 DEF PhaseInv, Active
<1>6. FlowInv(r, q)
  <2>1. Meant(spec, 1, "input") = 0
    BY MeantFirst
  <2> QED
    BY <1>2, <1>4, <2>1 DEF FlowInv, Active
<1>7. ContextInv(q)
  BY <1>2, <1>3, <1>4 DEF ContextInv, Active
<1>8. ListInv(q, o)
  BY <1>2, <1>3 DEF RunInv, ListInv
<1> QED
  BY <1>1, <1>5, <1>6, <1>7, <1>8 DEF RunInv

\* A listing begins with the whole order as its prefix.
LEMMA ListBegun ==
  ASSUME NEW r, NEW o \in Seq(CompositeNames), \A i, j \in DOMAIN o : o[i] = o[j] => i = j,
         NEW p \in RunType, RunInv(r, p, o), p.pc = "new",
         NEW q, q = [p EXCEPT !.pc = "listing", !.known = Names(o)]
  PROVE  q \in RunType /\ RunInv(r, q, o)
<1>1. /\ Len(o) \in Nat /\ DOMAIN o = 1 .. Len(o)
      /\ IsFiniteSet(Names(o)) /\ Cardinality(Names(o)) = Len(o)
  BY NamesCounted
<1>2. Names(o) \in KnownNames /\ Names(o) = {o[i] : i \in 1 .. Len(o)}
  BY <1>1 DEF Names, KnownNames
<1> DEFINE k == Names(o)
<1> HIDE DEF k
<1>3. q = [p EXCEPT !.pc = "listing", !.known = k]
  BY DEF k
<1>4. q \in RunType
  BY <1>2, <1>3, Constants DEF RunType, k
<1>5. /\ q.pc = "listing" /\ q.error = p.error /\ q.spec = p.spec /\ q.trace = p.trace
      /\ q.output = p.output /\ q.known = k /\ q.shown = p.shown
  BY <1>3 DEF RunType
<1>6. p.output = {} /\ p.error = "none" /\ p.shown = <<>> /\ p.spec = NoSpec /\ p.trace = <<>>
  BY DEF RunInv, PhaseInv
<1>7. PhaseInv(q)
  BY <1>5, <1>6 DEF PhaseInv, Active
<1>8. FlowInv(r, q)
  BY <1>5, <1>6 DEF RunInv, FlowInv, Active
<1>9. ContextInv(q)
  BY <1>5, <1>6 DEF ContextInv, Active
<1>10. ListInv(q, o)
  <2>1. Len(q.shown) = 0
    BY <1>5, <1>6
  <2>2. /\ Cardinality(q.known) = Len(o) /\ IsFiniteSet(q.known)
        /\ q.known = {o[i] : i \in 1 .. Len(o)}
    BY <1>1, <1>2, <1>5 DEF k
  <2>3. Len(o) <= Len(o) /\ Len(q.shown) <= Len(o) /\ \A i \in 1 .. Len(q.shown) : q.shown[i] = o[i]
    BY <1>1, <2>1
  <2> QED
    BY <1>5, <2>2, <2>3 DEF ListInv
<1> QED
  BY <1>4, <1>7, <1>8, <1>9, <1>10 DEF RunInv

\* A listing goes on only while the registry is as large as it was, and then
\* what it knows is the whole order.
LEMMA Listed ==
  ASSUME NEW r, NEW o \in Seq(CompositeNames), \A i, j \in DOMAIN o : o[i] = o[j] => i = j,
         NEW p \in RunType, RunInv(r, p, o), p.pc = "listing",
         NEW q, LET i == Len(p.shown) + 1 IN
                  IF Len(o) # Cardinality(p.known)
                    THEN q = [p EXCEPT !.pc = "done", !.error = "changed", !.shown = <<>>]
                  ELSE IF i > Len(o) THEN q = [p EXCEPT !.pc = "done"]
                  ELSE q = [p EXCEPT !.shown = Append(@, o[i])]
  PROVE  q \in RunType /\ RunInv(r, q, o)
<1>1. /\ p.output = {} /\ p.error = "none" /\ p.spec = NoSpec /\ p.trace = <<>> /\ Len(p.spec.steps) = 0
      /\ p.known = {o[i] : i \in 1 .. Cardinality(p.known)} /\ IsFiniteSet(p.known)
      /\ Len(p.shown) <= Cardinality(p.known) /\ \A i \in 1 .. Len(p.shown) : p.shown[i] = o[i]
  BY DEF RunInv, PhaseInv, ListInv, NoSpec
<1>2. Len(o) \in Nat /\ DOMAIN o = 1 .. Len(o) /\ Len(p.shown) \in Nat /\ Cardinality(p.known) \in Nat
  BY <1>1, RunParts, FS_CardinalityType
<1>3. CASE Len(o) # Cardinality(p.known)
  <2>1. q = [p EXCEPT !.pc = "done", !.error = "changed", !.shown = <<>>]
    BY <1>3
  <2>2. q \in RunType
    BY <2>1, Constants DEF RunType
  <2>3. /\ q.pc = "done" /\ q.error = "changed" /\ q.spec = p.spec /\ q.trace = p.trace
        /\ q.output = p.output /\ q.known = p.known
    BY <2>1 DEF RunType
  <2>4. PhaseInv(q) /\ ContextInv(q) /\ ListInv(q, o)
    BY <1>1, <2>3 DEF PhaseInv, ContextInv, ListInv, Active
  <2>5. FlowInv(r, q)
    BY <2>3 DEF RunInv, FlowInv, Active
  <2> QED
    BY <2>2, <2>4, <2>5 DEF RunInv
<1>4. CASE Len(o) = Cardinality(p.known) /\ Len(p.shown) + 1 > Len(o)
  <2>1. q = [p EXCEPT !.pc = "done"]
    BY <1>4
  <2>2. q \in RunType
    BY <2>1, Constants DEF RunType
  <2>3. /\ q.pc = "done" /\ q.error = p.error /\ q.spec = p.spec /\ q.trace = p.trace
        /\ q.output = p.output /\ q.known = p.known /\ q.shown = p.shown
    BY <2>1 DEF RunType
  <2>4. Len(p.shown) = Len(o) /\ Names(p.shown) = {p.shown[i] : i \in 1 .. Len(o)}
    BY <1>1, <1>2, <1>4, RunParts DEF Names
  <2>5. Names(p.shown) = p.known
    BY <1>1, <1>4, <2>4
  <2>6. PhaseInv(q)
    BY <1>1, <2>3 DEF PhaseInv, Active
  <2>7. ContextInv(q)
    BY <1>1, <2>3 DEF ContextInv, Active
  <2>8. ListInv(q, o)
    BY <1>1, <1>4, <2>3, <2>4, <2>5 DEF ListInv
  <2>9. FlowInv(r, q)
    <3>1. MeantBy(r, NoSpec, Len(NoSpec.steps) + 1, NoSpec.output) = {}
      BY DEF MeantBy, NoSpec
    <3> QED
      BY <1>1, <2>3, <3>1 DEF RunInv, FlowInv, Active
  <2> QED
    BY <2>2, <2>6, <2>7, <2>8, <2>9 DEF RunInv
<1>5. CASE Len(o) = Cardinality(p.known) /\ ~(Len(p.shown) + 1 > Len(o))
  <2> DEFINE s == Append(p.shown, o[Len(p.shown) + 1])
  <2>1. q = [p EXCEPT !.shown = s]
    BY <1>5
  <2>2. s \in Listings /\ Len(s) = Len(p.shown) + 1 /\ \A i \in 1 .. Len(p.shown) + 1 : s[i] = o[i]
    BY <1>1, <1>2, <1>5, RunParts DEF Listings
  <2> HIDE DEF s
  <2>3. q \in RunType
    BY <2>1, <2>2, Constants DEF RunType
  <2>4. /\ q.pc = "listing" /\ q.error = p.error /\ q.spec = p.spec /\ q.trace = p.trace
        /\ q.output = p.output /\ q.known = p.known /\ q.shown = s
    BY <2>1 DEF RunType
  <2>5. PhaseInv(q)
    BY <1>1, <2>4 DEF PhaseInv, Active
  <2>6. ContextInv(q)
    BY <1>1, <2>4 DEF ContextInv, Active
  <2>7. FlowInv(r, q)
    BY <2>4 DEF RunInv, FlowInv, Active
  <2>8. ListInv(q, o)
    BY <1>1, <1>2, <1>5, <2>2, <2>4 DEF ListInv
  <2> QED
    BY <2>3, <2>5, <2>6, <2>7, <2>8 DEF RunInv
<1> QED
  BY <1>3, <1>4, <1>5

-----------------------------------------------------------------------------
(* What is counted *)

\* The steps of a capability that ran, one by one.
LEMMA StepsMember ==
  ASSUME NEW rs, NEW c, NEW e
  PROVE  e \in StepsOf(rs, c) <=>
           \E s \in Runs : \E j \in DOMAIN rs[s].trace : rs[s].spec.steps[j].capability = c /\ e = <<s, j>>
  BY DEF StepsOf

\* MetricsStore.record changes one feature's counters.
LEMMA RecordTally ==
  ASSUME recorded \in [Capabilities -> Tally], NEW d \in Capabilities, NEW success \in BOOLEAN, Record(d, success)
  PROVE  /\ recorded' \in [Capabilities -> Tally]
         /\ \A c \in Capabilities : c # d => recorded'[c] = recorded[c]
         /\ recorded'[d].inv = recorded[d].inv + 1
         /\ success => recorded'[d].succ = recorded[d].succ + 1
         /\ ~success => recorded'[d].succ = recorded[d].succ
<1> DEFINE new == [inv |-> recorded[d].inv + 1, succ |-> IF success THEN recorded[d].succ + 1 ELSE recorded[d].succ]
<1>1. recorded[d].inv \in Nat /\ recorded[d].succ \in Nat
  BY DEF Tally
<1>2. /\ new \in Tally /\ new.inv = recorded[d].inv + 1
      /\ success => new.succ = recorded[d].succ + 1
      /\ ~success => new.succ = recorded[d].succ
  BY <1>1 DEF Tally
<1>3. recorded' = [recorded EXCEPT ![d] = new]
  BY DEF Record
<1> HIDE DEF new
<1> QED
  BY <1>2, <1>3

\* The capability of the step p is at.
NextCapability(p) == p.spec.steps[Len(p.trace) + 1].capability

\* The run r becomes q, and no other changes.
Becomes(r, q) == run' = [run EXCEPT ![r] = q]

\* q has run one step more than p.
OneStepMore(p, q) == q.trace = Append(p.trace, p.used) /\ q.spec = p.spec

\* A step that is answered is counted once, as a success.
LEMMA AnswerCounted ==
  ASSUME run \in [Runs -> RunType], recorded \in [Capabilities -> Tally],
         NEW r \in Runs, NEW q \in RunType, Becomes(r, q), OneStepMore(run[r], q),
         run[r].error = "none", q.error = "none", NextCapability(run[r]) \in Capabilities,
         Record(NextCapability(run[r]), TRUE),
         NEW c \in Capabilities, Counted(recorded, run, c)
  PROVE  Counted(recorded', run', c)
<1> DEFINE p == run[r]
           k == Len(p.trace) + 1
           d == NextCapability(p)
           S == StepsOf(run, c)
           U == UnavailableOf(run, c)
<1>1. \A s \in Runs : run'[s] = IF s = r THEN q ELSE run[s]
  BY DEF Becomes
<1>2. /\ p \in RunType /\ p.trace \in Traces /\ p.used \in Producers
      /\ Len(p.trace) \in Nat /\ DOMAIN p.trace = 1 .. Len(p.trace)
  BY RunParts
<1>3. k \in Nat /\ DOMAIN q.trace = DOMAIN p.trace \cup {k} /\ k \notin DOMAIN p.trace
  <2>1. DOMAIN Append(p.trace, p.used) = 1 .. Len(p.trace) + 1
    BY <1>2 DEF Traces
  <2> QED
    BY <1>2, <2>1 DEF OneStepMore
<1>4. U = UnavailableOf(run', c)
  BY <1>1 DEF UnavailableOf
<1>5. d = p.spec.steps[k].capability
  BY DEF NextCapability
<1>6. q.spec = p.spec
  BY DEF OneStepMore
<1>7. d \in Capabilities /\ Record(d, TRUE)
  OBVIOUS
<1> HIDE DEF p, k, d
<1>8. StepsOf(run', c) = IF c = d THEN S \cup {<<r, k>>} ELSE S
  <2>1. ASSUME NEW e
        PROVE  e \in StepsOf(run', c) <=> e \in S \/ (c = d /\ e = <<r, k>>)
    <3>1. e \in StepsOf(run', c) <=>
            \E s \in Runs : \E j \in DOMAIN run'[s].trace : run'[s].spec.steps[j].capability = c /\ e = <<s, j>>
      <4> DEFINE rs == run'
      <4> HIDE DEF rs
      <4>1. e \in StepsOf(rs, c) <=>
              \E s \in Runs : \E j \in DOMAIN rs[s].trace : rs[s].spec.steps[j].capability = c /\ e = <<s, j>>
        BY StepsMember
      <4> QED
        BY <4>1 DEF rs
    <3>2. e \in S <=> \E s \in Runs : \E j \in DOMAIN run[s].trace :
                        run[s].spec.steps[j].capability = c /\ e = <<s, j>>
      BY StepsMember
    <3>3. ASSUME NEW s \in Runs
          PROVE  (\E j \in DOMAIN run'[s].trace : run'[s].spec.steps[j].capability = c /\ e = <<s, j>>) <=>
                   \/ \E j \in DOMAIN run[s].trace : run[s].spec.steps[j].capability = c /\ e = <<s, j>>
                   \/ s = r /\ c = d /\ e = <<r, k>>
      <4>1. CASE s # r
        BY <1>1, <4>1
      <4>2. CASE s = r
        <5>1. run'[s] = q /\ run[s] = p
          BY <1>1, <4>2 DEF p
        <5> QED
          BY <1>3, <1>5, <1>6, <4>2, <5>1
      <4> QED
        BY <4>1, <4>2
    <3> HIDE DEF S
    <3> QED
      BY <3>1, <3>2, <3>3
  <2> HIDE DEF S
  <2>2. CASE c = d
    BY <2>1, <2>2
  <2>3. CASE c # d
    BY <2>1, <2>3
  <2> QED
    BY <2>2, <2>3
<1>9. <<r, k>> \notin S
  <2> SUFFICES ASSUME <<r, k>> \in S PROVE FALSE
    OBVIOUS
  <2>1. PICK s \in Runs : \E j \in DOMAIN run[s].trace : <<r, k>> = <<s, j>>
    BY StepsMember
  <2> QED
    BY <1>3, <2>1 DEF p
<1>10. /\ IsFiniteSet(S) /\ recorded[c].succ = Cardinality(S) /\ recorded[c].inv = recorded[c].succ + Cardinality(U)
      /\ recorded[c].succ \in Nat
  BY DEF Counted, Tally
<1>11. IsFiniteSet(U) /\ Cardinality(U) \in Nat
  <2>1. U \in SUBSET Runs
    BY DEF UnavailableOf
  <2> HIDE DEF U
  <2> QED
    BY <2>1, ComposerAssumption, FS_Subset, FS_CardinalityType
<1> HIDE DEF S, U
<1>12. /\ c # d => recorded'[c] = recorded[c]
       /\ recorded'[d].inv = recorded[d].inv + 1 /\ recorded'[d].succ = recorded[d].succ + 1
  BY <1>7, RecordTally
<1>13. CASE c = d
  <2>1. StepsOf(run', c) = S \cup {<<r, k>>}
    BY <1>8, <1>13
  <2>2. IsFiniteSet(S \cup {<<r, k>>}) /\ Cardinality(S \cup {<<r, k>>}) = Cardinality(S) + 1
    BY <1>9, <1>10, FS_AddElement
  <2>3. recorded'[c].inv = recorded[c].inv + 1 /\ recorded'[c].succ = recorded[c].succ + 1
    BY <1>12, <1>13, Zenon
  <2>4. recorded'[c].succ = Cardinality(S) + 1 /\ recorded'[c].inv = recorded'[c].succ + Cardinality(U)
    BY <1>10, <1>11, <2>3
  <2> QED
    BY <1>4, <2>1, <2>2, <2>4 DEF Counted
<1>14. CASE c # d
  BY <1>4, <1>8, <1>10, <1>12, <1>14 DEF Counted
<1> QED
  BY <1>13, <1>14

\* A run that ends as unavailable is counted once, as an invocation.
LEMMA FailureCounted ==
  ASSUME run \in [Runs -> RunType], recorded \in [Capabilities -> Tally],
         NEW r \in Runs, NEW q \in RunType, Becomes(r, q), q.trace = run[r].trace, q.spec = run[r].spec,
         run[r].error = "none", q.error = "unavailable", NextCapability(run[r]) \in Capabilities,
         Record(NextCapability(run[r]), FALSE),
         NEW c \in Capabilities, Counted(recorded, run, c)
  PROVE  Counted(recorded', run', c)
<1> DEFINE d == NextCapability(run[r])
           S == StepsOf(run, c)
           U == UnavailableOf(run, c)
<1>1. \A s \in Runs : run'[s] = IF s = r THEN q ELSE run[s]
  BY DEF Becomes
<1>2. StepsOf(run', c) = S
  <2>1. ASSUME NEW s \in Runs
        PROVE  {j \in DOMAIN run'[s].trace : run'[s].spec.steps[j].capability = c}
                 = {j \in DOMAIN run[s].trace : run[s].spec.steps[j].capability = c}
    BY <1>1
  <2> QED
    BY <2>1 DEF StepsOf
<1>3. UnavailableOf(run', c) = IF c = d THEN U \cup {r} ELSE U
  <2>1. ASSUME NEW s \in Runs PROVE s \in UnavailableOf(run', c) <=> s \in U \/ (c = d /\ s = r)
    <3>1. CASE s # r
      BY <1>1, <3>1 DEF UnavailableOf
    <3>2. CASE s = r
      BY <1>1, <3>2 DEF UnavailableOf, NextCapability
    <3> QED
      BY <3>1, <3>2
  <2>2. U \subseteq Runs /\ UnavailableOf(run', c) \subseteq Runs
    BY DEF UnavailableOf
  <2> HIDE DEF U
  <2> QED
    BY <2>1, <2>2
<1>4. r \notin U /\ U \in SUBSET Runs
  BY DEF UnavailableOf
<1>5. /\ IsFiniteSet(S) /\ recorded[c].succ = Cardinality(S) /\ recorded[c].inv = recorded[c].succ + Cardinality(U)
      /\ recorded[c].succ \in Nat
  BY DEF Counted, Tally
<1> HIDE DEF S, U, d
<1>6. IsFiniteSet(U) /\ Cardinality(U) \in Nat
  BY <1>4, ComposerAssumption, FS_Subset, FS_CardinalityType
<1>7. /\ c # d => recorded'[c] = recorded[c]
      /\ recorded'[d].inv = recorded[d].inv + 1 /\ recorded'[d].succ = recorded[d].succ
  BY RecordTally DEF d
<1>8. CASE c = d
  <2>1. Cardinality(U \cup {r}) = Cardinality(U) + 1
    BY <1>4, <1>6, FS_AddElement
  <2>2. UnavailableOf(run', c) = U \cup {r}
    BY <1>3, <1>8
  <2>3. recorded'[c].inv = recorded[c].inv + 1 /\ recorded'[c].succ = recorded[c].succ
    BY <1>7, <1>8, Zenon
  <2>4. recorded'[c].succ = Cardinality(S) /\ recorded'[c].inv = recorded'[c].succ + (Cardinality(U) + 1)
    BY <1>5, <1>6, <2>3
  <2> QED
    BY <1>2, <1>5, <2>1, <2>2, <2>4 DEF Counted
<1>9. CASE c # d
  BY <1>2, <1>3, <1>5, <1>7, <1>9 DEF Counted
<1> QED
  BY <1>8, <1>9

-----------------------------------------------------------------------------
(* The actions *)

\* A step of r that is not counted.
LEMMA UncountedStep ==
  ASSUME IInv, NEW r \in Runs, NEW q \in RunType, RunInv(r, q, order), run' = [run EXCEPT ![r] = q],
         q.trace = run[r].trace, q.spec = run[r].spec \/ q.trace = <<>>,
         run[r].error = "none", q.error # "unavailable",
         UNCHANGED <<registry, recorded>>
  PROVE  IInv'
<1>1. RegistryInv' /\ order' = order /\ recorded' = recorded /\ recorded' \in [Capabilities -> Tally]
  BY DEF IInv, RegistryInv, registry, Names
<1>2. run' \in [Runs -> RunType] /\ \A s \in Runs : RunInv(s, run'[s], order')
  BY <1>1, OneRun DEF IInv
<1>3. \A c \in Capabilities : Counted(recorded', run', c)
  BY <1>1, NothingCounted DEF IInv
<1> QED
  BY <1>1, <1>2, <1>3 DEF IInv

\* What holds of a run that is under way.
LEMMA UnderWay ==
  ASSUME IInv, NEW r \in Runs
  PROVE  /\ run[r] \in RunType /\ RunInv(r, run[r], order)
         /\ run[r].pc # "done" => run[r].error = "none"
         /\ run[r].pc \in {"new", "listing"} => run[r].trace = <<>>
  BY DEF IInv, RunInv, PhaseInv

\* Every failure but one goes uncounted.
LEMMA FailStep ==
  ASSUME IInv, NEW r \in Runs, Active(run[r]), NEW error \in Errors \ {"none", "unknown", "schema", "unavailable"},
         error = "reference" => ~SelfContained(run[r].spec), Fail(r, error), UNCHANGED <<registry, recorded>>
  PROVE  IInv'
<1>0. PICK odd \in BOOLEAN :
        run' = [run EXCEPT ![r] = [@ EXCEPT !.pc = "done", !.error = error, !.used = {}, !.ctx = <<>>, !.odd = odd]]
  BY DEF Fail
<1> DEFINE q == [run[r] EXCEPT !.pc = "done", !.error = error, !.used = {}, !.ctx = <<>>, !.odd = odd]
<1>1. run[r] \in RunType /\ RunInv(r, run[r], order) /\ run[r].error = "none"
  BY UnderWay DEF Active
<1>2. q \in RunType /\ RunInv(r, q, order)
  BY <1>1, FailedRun
<1>3. q.trace = run[r].trace /\ q.spec = run[r].spec /\ q.error = error
  BY <1>1 DEF RunType
<1>4. run' = [run EXCEPT ![r] = q]
  BY <1>0
<1> HIDE DEF q
<1> QED
  BY <1>1, <1>2, <1>3, <1>4, UncountedStep

\* In a composite that is self-contained every reference resolves.
LEMMA ReferencesResolve ==
  ASSUME IInv, NEW r \in Runs, Active(run[r]), SelfContained(run[r].spec)
  PROVE  /\ Len(run[r].trace) < Len(run[r].spec.steps) => AllResolve(Current(r).inputs, run[r].ctx)
         /\ Len(run[r].trace) = Len(run[r].spec.steps) => AllResolve(run[r].spec.output, run[r].ctx)
<1> DEFINE p == run[r]
           spec == run[r].spec
           k == Len(p.trace)
<1>1. /\ "input" \in DOMAIN p.ctx /\ \A j \in 1 .. k : spec.steps[j].name \in DOMAIN p.ctx
      /\ Accepts(spec, p.ctx["input"].paths)
  BY UnderWay DEF RunInv, ContextInv
<1>2. k \in Nat /\ Len(spec.steps) \in Nat /\ DOMAIN spec.steps = 1 .. Len(spec.steps)
  BY UnderWay, RunParts
<1>3. /\ \A i \in DOMAIN spec.steps : \A ref \in spec.steps[i].inputs : Sound(spec, i, ref)
      /\ \A ref \in spec.output : Sound(spec, Len(spec.steps) + 1, ref)
  BY DEF SelfContained
<1>4. Current(r) = spec.steps[k + 1]
  BY DEF Current, Plan
<1> HIDE DEF p, spec, k
<1>5. ASSUME NEW ref, Sound(spec, k + 1, ref) PROVE Resolves(ref, p.ctx)
  BY <1>1, <1>2, <1>5, SoundResolves
<1>6. k < Len(spec.steps) => AllResolve(Current(r).inputs, p.ctx)
  <2>1. k < Len(spec.steps) => k + 1 \in DOMAIN spec.steps
    BY <1>2
  <2> QED
    BY <1>3, <1>4, <1>5, <2>1 DEF AllResolve
<1>7. k = Len(spec.steps) => AllResolve(spec.output, p.ctx)
  BY <1>3, <1>5 DEF AllResolve
<1> QED
  BY <1>6, <1>7 DEF p, spec, k

\* Failures before a step is called.
LEMMA RefusedStep ==
  ASSUME IInv, NEW r \in Runs, BadReference(r) \/ NoProvider(r) \/ InvalidInput(r)
  PROVE  IInv'
<1>1. run[r].pc = "step" /\ Active(run[r]) /\ Len(run[r].trace) < Len(run[r].spec.steps)
  BY DEF BadReference, NoProvider, InvalidInput, InStep, Active, Plan
<1>2. CASE BadReference(r)
  <2>1. ~SelfContained(run[r].spec)
    BY <1>1, <1>2, ReferencesResolve DEF BadReference
  <2>2. "reference" \in Errors \ {"none", "unknown", "schema", "unavailable"}
    BY DEF Errors
  <2>3. Fail(r, "reference") /\ UNCHANGED <<registry, recorded>>
    BY <1>2 DEF BadReference
  <2> QED
    BY <1>1, <2>1, <2>2, <2>3, FailStep
<1>3. CASE NoProvider(r)
  <2>1. "provider" \in Errors \ {"none", "unknown", "schema", "unavailable"} /\ "provider" # "reference"
    BY DEF Errors
  <2>2. Fail(r, "provider") /\ UNCHANGED <<registry, recorded>>
    BY <1>3 DEF NoProvider
  <2> QED
    BY <1>1, <2>1, <2>2, FailStep
<1>4. CASE InvalidInput(r)
  <2>1. "invalid" \in Errors \ {"none", "unknown", "schema", "unavailable"} /\ "invalid" # "reference"
    BY DEF Errors
  <2>2. Fail(r, "invalid") /\ UNCHANGED <<registry, recorded>>
    BY <1>4 DEF InvalidInput
  <2> QED
    BY <1>1, <2>1, <2>2, FailStep
<1> QED
  BY <1>2, <1>3, <1>4

\* A call begins with the values its references lead to.
LEMMA CallStep ==
  ASSUME IInv, NEW r \in Runs, Call(r)
  PROVE  IInv'
<1> DEFINE u == Sources(Current(r).inputs, run[r].ctx)
           q == [run[r] EXCEPT !.pc = "called", !.used = u]
<1>1. /\ run[r].pc = "step" /\ Len(run[r].trace) < Len(run[r].spec.steps)
      /\ Current(r) = run[r].spec.steps[Len(run[r].trace) + 1]
      /\ AllResolve(Current(r).inputs, run[r].ctx) /\ Current(r).capability \in Capabilities
      /\ run' = [run EXCEPT ![r] = q] /\ UNCHANGED <<registry, recorded>>
  BY DEF Call, InStep, Plan, Current
<1>2. run[r] \in RunType /\ RunInv(r, run[r], order) /\ run[r].error = "none"
  BY <1>1, UnderWay
<1>3. q \in RunType /\ RunInv(r, q, order)
  BY <1>1, <1>2, CalledRun
<1>4. q.trace = run[r].trace /\ q.spec = run[r].spec /\ q.error = run[r].error
  BY <1>2 DEF RunType
<1> HIDE DEF q
<1> QED
  BY <1>1, <1>2, <1>3, <1>4, UncountedStep

\* An answer extends the trace and the context, and is counted.
LEMMA AnsweredStep ==
  ASSUME IInv, NEW r \in Runs, Answered(r)
  PROVE  IInv'
<1>1. /\ run[r].pc = "called" /\ UNCHANGED registry
      /\ Record(Current(r).capability, TRUE)
      /\ Current(r) = run[r].spec.steps[Len(run[r].trace) + 1]
  BY DEF Answered, Current, Plan
<1>2. PICK paths \in Shapes :
        run' = [run EXCEPT ![r] = [run[r] EXCEPT
                  !.pc = "step", !.used = {}, !.trace = Append(@, run[r].used),
                  !.ctx = Extend(@, Current(r).name, [by |-> <<r, Len(run[r].trace) + 1>>, paths |-> paths])]]
  BY Zenon DEF Answered
<1> DEFINE q == [run[r] EXCEPT
                   !.pc = "step", !.used = {}, !.trace = Append(@, run[r].used),
                   !.ctx = Extend(@, Current(r).name, [by |-> <<r, Len(run[r].trace) + 1>>, paths |-> paths])]
           d == Current(r).capability
<1>3. run[r] \in RunType /\ RunInv(r, run[r], order) /\ run[r].error = "none"
  BY <1>1, UnderWay
<1>4. q \in RunType /\ RunInv(r, q, order)
  <2>1. AnsweredWith(r, run[r], paths, q)
    BY <1>1 DEF AnsweredWith
  <2> HIDE DEF q
  <2> QED
    BY <1>1, <1>3, <2>1, AnsweredRun
<1>5. q.trace = Append(run[r].trace, run[r].used) /\ q.spec = run[r].spec /\ q.error = run[r].error
  BY <1>3 DEF RunType
<1>6. run' = [run EXCEPT ![r] = q]
  BY <1>2
<1>7. d \in Capabilities /\ d = NextCapability(run[r]) /\ Record(d, TRUE)
  BY <1>1, <1>3 DEF RunInv, PhaseInv, NextCapability
<1> HIDE DEF q, d
<1>8. RegistryInv' /\ order' = order
  BY <1>1 DEF IInv, RegistryInv, registry, Names
<1>9. run' \in [Runs -> RunType] /\ \A s \in Runs : RunInv(s, run'[s], order')
  BY <1>4, <1>6, <1>8, OneRun DEF IInv
<1>10. recorded' \in [Capabilities -> Tally]
  BY <1>7, RecordTally DEF IInv
<1>11. \A c \in Capabilities : Counted(recorded', run', c)
  <2>1. Becomes(r, q) /\ OneStepMore(run[r], q)
    BY <1>5, <1>6 DEF Becomes, OneStepMore
  <2> QED
    BY <1>3, <1>4, <1>5, <1>7, <2>1, AnswerCounted DEF IInv
<1> QED
  BY <1>8, <1>9, <1>10, <1>11 DEF IInv

\* An unavailable workload ends the run, and is counted.
LEMMA UnavailableStep ==
  ASSUME IInv, NEW r \in Runs, Unavailable(r)
  PROVE  IInv'
<1>0. PICK odd \in BOOLEAN : run' = [run EXCEPT ![r] = [@ EXCEPT
              !.pc = "done", !.error = "unavailable", !.used = {}, !.ctx = <<>>, !.odd = odd]]
  BY DEF Unavailable, Fail
<1> DEFINE q == [run[r] EXCEPT !.pc = "done", !.error = "unavailable", !.used = {}, !.ctx = <<>>, !.odd = odd]
           d == Current(r).capability
<1>1. /\ run[r].pc = "called" /\ UNCHANGED registry
      /\ Record(d, FALSE) /\ run' = [run EXCEPT ![r] = q]
      /\ Current(r) = run[r].spec.steps[Len(run[r].trace) + 1]
  BY <1>0 DEF Unavailable, Current, Plan
<1>2. run[r] \in RunType /\ RunInv(r, run[r], order) /\ run[r].error = "none" /\ Active(run[r])
  BY <1>1, UnderWay DEF Active
<1>3. q \in RunType /\ RunInv(r, q, order)
  <2>1. "unavailable" \in Errors \ {"none", "unknown", "schema"} /\ "unavailable" # "reference"
    BY DEF Errors
  <2> QED
    BY <1>2, <2>1, FailedRun
<1>4. q.trace = run[r].trace /\ q.spec = run[r].spec /\ q.error = "unavailable"
  BY <1>2 DEF RunType
<1>5. d \in Capabilities /\ d = NextCapability(run[r])
  BY <1>1, <1>2 DEF RunInv, PhaseInv, NextCapability
<1> HIDE DEF q, d
<1>6. RegistryInv' /\ order' = order
  BY <1>1 DEF IInv, RegistryInv, registry, Names
<1>7. run' \in [Runs -> RunType] /\ \A s \in Runs : RunInv(s, run'[s], order')
  BY <1>1, <1>3, <1>6, OneRun DEF IInv
<1>8. recorded' \in [Capabilities -> Tally]
  BY <1>1, <1>5, RecordTally DEF IInv
<1>9. \A c \in Capabilities : Counted(recorded', run', c)
  <2>1. Becomes(r, q)
    BY <1>1 DEF Becomes
  <2> QED
    BY <1>1, <1>2, <1>3, <1>4, <1>5, <2>1, FailureCounted DEF IInv
<1> QED
  BY <1>6, <1>7, <1>8, <1>9 DEF IInv

\* A rejection or an exception ends the run, and is not counted.
LEMMA AbortedStep ==
  ASSUME IInv, NEW r \in Runs, Rejected(r) \/ Raise(r)
  PROVE  IInv'
<1>1. Active(run[r])
  BY DEF Rejected, Raise, InStep, Active
<1>2. CASE Rejected(r)
  <2>1. "rejected" \in Errors \ {"none", "unknown", "schema", "unavailable"} /\ "rejected" # "reference"
    BY DEF Errors
  <2>2. Fail(r, "rejected") /\ UNCHANGED <<registry, recorded>>
    BY <1>2 DEF Rejected
  <2> QED
    BY <1>1, <2>1, <2>2, FailStep
<1>3. CASE Raise(r)
  <2>1. "raised" \in Errors \ {"none", "unknown", "schema", "unavailable"} /\ "raised" # "reference"
    BY DEF Errors
  <2>2. Fail(r, "raised") /\ UNCHANGED <<registry, recorded>>
    BY <1>3 DEF Raise
  <2> QED
    BY <1>1, <2>1, <2>2, FailStep
<1> QED
  BY <1>2, <1>3

\* The end of the pipeline: the output, or a reference that fails.
LEMMA FinishStep ==
  ASSUME IInv, NEW r \in Runs, Finish(r)
  PROVE  IInv'
<1>1. run[r].pc = "step" /\ Active(run[r]) /\ Len(run[r].trace) = Len(run[r].spec.steps)
  BY DEF Finish, Succeed, AllRan, Active, Plan
<1>2. run[r] \in RunType /\ RunInv(r, run[r], order) /\ run[r].error = "none"
  BY <1>1, UnderWay
<1>3. CASE Succeed(r)
  <2>0. PICK odd \in BOOLEAN :
          run' = [run EXCEPT ![r] = [@ EXCEPT !.pc = "done", !.ctx = <<>>, !.odd = odd,
                                              !.output = Sources(run[r].spec.output, run[r].ctx)]]
    BY <1>3 DEF Succeed, Plan
  <2> DEFINE q == [run[r] EXCEPT !.pc = "done", !.ctx = <<>>, !.odd = odd,
                                 !.output = Sources(run[r].spec.output, run[r].ctx)]
  <2>1. AllResolve(run[r].spec.output, run[r].ctx) /\ run' = [run EXCEPT ![r] = q] /\ UNCHANGED <<registry, recorded>>
    BY <1>3, <2>0 DEF Succeed, Plan
  <2>2. q \in RunType /\ RunInv(r, q, order)
    BY <1>1, <1>2, <2>1, SucceededRun
  <2>3. q.trace = run[r].trace /\ q.spec = run[r].spec /\ q.error = run[r].error
    BY <1>2 DEF RunType
  <2> HIDE DEF q
  <2> QED
    BY <1>2, <2>1, <2>2, <2>3, UncountedStep
<1>4. CASE ~AllResolve(run[r].spec.output, run[r].ctx) /\ Fail(r, "reference") /\ UNCHANGED <<registry, recorded>>
  <2>1. ~SelfContained(run[r].spec)
    BY <1>1, <1>4, ReferencesResolve
  <2>2. "reference" \in Errors \ {"none", "unknown", "schema", "unavailable"}
    BY DEF Errors
  <2> QED
    BY <1>1, <1>4, <2>1, <2>2, FailStep
<1> QED
  BY <1>3, <1>4 DEF Finish, Plan

\* A request for a composite is refused or begins a run.
LEMMA InvokeStep ==
  ASSUME IInv, NEW r \in Runs, Invoke(r)
  PROVE  IInv'
<1>1. run[r].pc = "new" /\ UNCHANGED <<registry, recorded>>
  BY DEF Invoke
<1>2. /\ run[r] \in RunType /\ RunInv(r, run[r], order) /\ run[r].error = "none" /\ run[r].trace = <<>>
  BY <1>1, UnderWay
<1>3. PICK n \in CompositeNames, paths \in Shapes :
        \/ run' = [run EXCEPT ![r] = [run[r] EXCEPT !.pc = "done", !.name = n, !.error = "unknown"]]
        \/ run' = [run EXCEPT ![r] = [run[r] EXCEPT !.pc = "done", !.name = n, !.error = "raised"]]
        \/ run' = [run EXCEPT ![r] = [run[r] EXCEPT !.pc = "done", !.name = n, !.error = "schema"]]
        \/ /\ Accepts(composites[n], paths)
           /\ run' = [run EXCEPT ![r] = [run[r] EXCEPT !.pc = "step", !.name = n, !.spec = composites[n],
                        !.ctx = [k \in {"input"} |-> [by |-> <<r, 0>>, paths |-> paths]]]]
  BY DEF Invoke
<1>4. ASSUME NEW error \in {"unknown", "raised", "schema"},
             run' = [run EXCEPT ![r] = [run[r] EXCEPT !.pc = "done", !.name = n, !.error = error]]
      PROVE  IInv'
  <2> DEFINE q == [run[r] EXCEPT !.pc = "done", !.name = n, !.error = error]
  <2>1. q \in RunType /\ RunInv(r, q, order)
    BY <1>1, <1>2, RefusedRun
  <2>2. q.trace = run[r].trace /\ q.spec = run[r].spec /\ q.error = error
    BY <1>2 DEF RunType
  <2>3. run' = [run EXCEPT ![r] = q]
    BY <1>4
  <2> HIDE DEF q
  <2> QED
    BY <1>1, <1>2, <2>1, <2>2, <2>3, UncountedStep
<1>5. CASE /\ Accepts(composites[n], paths)
           /\ run' = [run EXCEPT ![r] = [run[r] EXCEPT !.pc = "step", !.name = n, !.spec = composites[n],
                        !.ctx = [k \in {"input"} |-> [by |-> <<r, 0>>, paths |-> paths]]]]
  <2> DEFINE spec == composites[n]
             c == [k \in {"input"} |-> [by |-> <<r, 0>>, paths |-> paths]]
             q == [run[r] EXCEPT !.pc = "step", !.name = n, !.spec = spec, !.ctx = c]
  <2>1. /\ spec \in Specs /\ Accepts(spec, paths)
        /\ c \in Contexts /\ DOMAIN c = {"input"} /\ c["input"].by = <<r, 0>> /\ c["input"].paths = paths
    BY <1>5, InputContext DEF IInv, RegistryInv
  <2>2. q \in RunType /\ RunInv(r, q, order)
    <3> HIDE DEF spec, c
    <3> QED
      BY <1>1, <1>2, <2>1, StartedRun
  <2>3. q.trace = run[r].trace /\ q.error = run[r].error
    BY <1>2 DEF RunType
  <2>4. run' = [run EXCEPT ![r] = q]
    BY <1>5
  <2> HIDE DEF q
  <2> QED
    BY <1>1, <1>2, <2>2, <2>3, <2>4, UncountedStep
<1> QED
  BY <1>3, <1>4, <1>5

\* A listing goes through the names.
LEMMA ListStep ==
  ASSUME IInv, NEW r \in Runs, ListBegin(r) \/ ListNext(r)
  PROVE  IInv'
<1>1. order \in Seq(CompositeNames) /\ \A i, j \in DOMAIN order : order[i] = order[j] => i = j
  BY DEF IInv, RegistryInv
<1>2. /\ UNCHANGED <<registry, recorded>> /\ run[r] \in RunType /\ RunInv(r, run[r], order)
      /\ run[r].error = "none" /\ run[r].trace = <<>>
  BY UnderWay DEF ListBegin, ListNext
<1>3. CASE ListBegin(r)
  <2> DEFINE q == [run[r] EXCEPT !.pc = "listing", !.known = Names(order)]
  <2>1. run[r].pc = "new" /\ run' = [run EXCEPT ![r] = q]
    BY <1>3 DEF ListBegin
  <2>2. q \in RunType /\ RunInv(r, q, order)
    BY <1>1, <1>2, <2>1, ListBegun
  <2>3. q.trace = run[r].trace /\ q.error = run[r].error
    BY <1>2 DEF RunType
  <2> HIDE DEF q
  <2> QED
    BY <1>2, <2>1, <2>2, <2>3, UncountedStep
<1>4. CASE ListNext(r)
  <2> DEFINE i == Len(run[r].shown) + 1
             q == IF Len(order) # Cardinality(run[r].known)
                    THEN [run[r] EXCEPT !.pc = "done", !.error = "changed", !.shown = <<>>]
                  ELSE IF i > Len(order) THEN [run[r] EXCEPT !.pc = "done"]
                  ELSE [run[r] EXCEPT !.shown = Append(@, order[i])]
  <2>1. run[r].pc = "listing" /\ run' = [run EXCEPT ![r] = q]
    <3>1. CASE Len(order) # Cardinality(run[r].known)
      BY <1>4, <3>1 DEF ListNext
    <3>2. CASE Len(order) = Cardinality(run[r].known) /\ i > Len(order)
      BY <1>4, <3>2 DEF ListNext
    <3>3. CASE Len(order) = Cardinality(run[r].known) /\ ~(i > Len(order))
      <4>1. run' = [run EXCEPT ![r] = [run[r] EXCEPT !.shown = Append(@, order[Len(run[r].shown) + 1])]]
        BY <1>4, <3>3 DEF ListNext
      <4> QED
        BY <1>4, <3>3, <4>1 DEF ListNext
    <3> QED
      BY <3>1, <3>2, <3>3
  <2>2. IF Len(order) # Cardinality(run[r].known)
          THEN q = [run[r] EXCEPT !.pc = "done", !.error = "changed", !.shown = <<>>]
        ELSE IF i > Len(order) THEN q = [run[r] EXCEPT !.pc = "done"]
        ELSE q = [run[r] EXCEPT !.shown = Append(@, order[i])]
    OBVIOUS
  <2>3. q.trace = run[r].trace /\ (q.error = run[r].error \/ q.error = "changed")
    BY <1>2 DEF RunType
  <2> HIDE DEF q
  <2>4. q \in RunType /\ RunInv(r, q, order)
    BY <1>1, <1>2, <2>1, <2>2, Listed
  <2> QED
    BY <1>2, <2>1, <2>3, <2>4, UncountedStep
<1> QED
  BY <1>3, <1>4

\* Publications touch no run.
LEMMA PutStep ==
  ASSUME IInv, NEW n \in CompositeNames, NEW spec \in Composites, Put(n, spec)
  PROVE  IInv'
<1>1. RegistryInv' /\ Extends(order', order)
  BY PutRegistry DEF IInv
<1>2. run' = run /\ recorded' = recorded
  BY DEF Put
<1>3. Len(order) \in Nat /\ Len(order') \in Nat
  BY <1>1 DEF IInv, RegistryInv
<1>4. ASSUME NEW r \in Runs PROVE RunInv(r, run[r], order')
  <2> DEFINE o == order'
  <2> HIDE DEF o
  <2>1. Extends(o, order) /\ Len(o) \in Nat
    BY <1>1, <1>3 DEF o
  <2>2. run[r] \in RunType /\ RunInv(r, run[r], order)
    BY UnderWay
  <2>3. ListInv(run[r], o)
    BY <1>3, <2>1, <2>2, ListKept DEF RunInv
  <2> QED
    BY <2>2, <2>3 DEF RunInv, o
<1> QED
  BY <1>1, <1>2, <1>4 DEF IInv

\* The registry, the runs and the counters stay as described.
LEMMA Invariance == Spec => []IInv
<1>1. Init => IInv
  <2> SUFFICES ASSUME Init PROVE IInv
    OBVIOUS
  <2>1. /\ Len(Builtin) \in Nat /\ DOMAIN Builtin = 1 .. Len(Builtin)
        /\ order = [i \in DOMAIN Builtin |-> Builtin[i].name]
        /\ \A i \in DOMAIN Builtin : Builtin[i].name \in CompositeNames /\ Builtin[i].spec \in Library
        /\ \A i, j \in DOMAIN Builtin : Builtin[i].name = Builtin[j].name => i = j
    BY ComposerAssumption DEF Init, IsSequence
  <2>2. /\ order \in Seq(CompositeNames) /\ DOMAIN order = DOMAIN Builtin
        /\ \A i \in DOMAIN Builtin : order[i] = Builtin[i].name
    BY <2>1
  <2>3. \A i, j \in DOMAIN order : order[i] = order[j] => i = j
    BY <2>1, <2>2
  <2>4. ASSUME NEW n \in CompositeNames
        PROVE  composites[n] \in Specs /\ (n \in Names(order) <=> composites[n] # NoSpec)
    <3>1. CASE n \in Names(order)
      <4> DEFINE i == CHOOSE j \in DOMAIN Builtin : order[j] = n
      <4>1. \E j \in DOMAIN Builtin : order[j] = n
        BY <2>2, <3>1 DEF Names
      <4>2. i \in DOMAIN Builtin
        BY <4>1
      <4>3. composites[n] = Builtin[i].spec
        BY <3>1 DEF Init
      <4> HIDE DEF i
      <4>4. composites[n] \in Library
        BY <2>1, <4>2, <4>3
      <4> QED
        BY <3>1, <4>4, ComposerAssumption DEF Specs, Composites
    <3>2. CASE n \notin Names(order)
      <4>1. composites[n] = NoSpec
        BY <3>2 DEF Init
      <4> QED
        BY <3>2, <4>1 DEF Specs
    <3> QED
      BY <3>1, <3>2
  <2>5. RegistryInv
    <3>1. composites \in [CompositeNames -> Specs]
      BY <2>4 DEF Init
    <3>2. Names(order) \subseteq CompositeNames
      BY <2>2 DEF Names
    <3>3. publishes \in 0 .. MaxPublishes
      BY ComposerAssumption DEF Init
    <3> QED
      BY <2>2, <2>3, <2>4, <3>1, <3>2, <3>3 DEF RegistryInv
  <2>6. /\ Blank \in RunType /\ Blank.pc = "new" /\ Blank.error = "none" /\ Blank.output = {} /\ Blank.known = {}
        /\ Blank.shown = <<>> /\ Blank.spec = NoSpec /\ Blank.trace = <<>>
    <3>1. (CHOOSE n \in CompositeNames : TRUE) \in CompositeNames
      BY ComposerAssumption
    <3>2. NoSpec \in Specs
      BY DEF Specs
    <3> HIDE DEF NoSpec
    <3> QED
      BY <3>1, <3>2, Constants, ContextEmpty DEF Blank, RunType
  <2>7. ASSUME NEW r \in Runs PROVE RunInv(r, Blank, order)
    <3>1. Len(Blank.trace) = 0 /\ Len(Blank.spec.steps) = 0
      BY <2>6 DEF NoSpec
    <3>2. PhaseInv(Blank)
      BY <2>6 DEF PhaseInv, Active
    <3>3. FlowInv(r, Blank)
      BY <2>6, <3>1 DEF FlowInv, Active
    <3>4. ContextInv(Blank)
      BY <2>6 DEF ContextInv, Active
    <3>5. ListInv(Blank, order)
      BY <2>6, FS_EmptySet DEF ListInv
    <3> QED
      BY <3>2, <3>3, <3>4, <3>5 DEF RunInv
  <2>8. run \in [Runs -> RunType] /\ \A r \in Runs : run[r] = Blank
    BY <2>6 DEF Init
  <2>9. recorded \in [Capabilities -> Tally] /\ \A c \in Capabilities : recorded[c].inv = 0 /\ recorded[c].succ = 0
    BY DEF Init, Tally
  <2>10. ASSUME NEW c \in Capabilities PROVE Counted(recorded, run, c)
    <3>1. StepsOf(run, c) = {}
      <4>1. \A r \in Runs : DOMAIN run[r].trace = {}
        BY <2>6, <2>8
      <4> QED
        BY <4>1 DEF StepsOf
    <3>2. UnavailableOf(run, c) = {}
      BY <2>6, <2>8 DEF UnavailableOf
    <3> QED
      BY <2>9, <3>1, <3>2, FS_EmptySet DEF Counted
  <2> QED
    BY <2>5, <2>7, <2>8, <2>9, <2>10 DEF IInv
<1>2. IInv /\ [Next]_vars => IInv'
  <2> SUFFICES ASSUME IInv, [Next]_vars PROVE IInv'
    OBVIOUS
  <2>1. ASSUME NEW n \in CompositeNames, Compose(n) PROVE IInv'
    BY <2>1, PutStep DEF Compose, Composites
  <2>2. ASSUME NEW doc \in Documents, CompileAgent(doc) PROVE IInv'
    <3>1. AgentName(doc) \in CompositeNames /\ Compiled(doc) \in Composites /\ Put(AgentName(doc), Compiled(doc))
      BY <2>2, ComposerAssumption DEF CompileAgent, Composites
    <3> QED
      BY <3>1, PutStep
  <2>3. ASSUME NEW r \in Runs, \/ ListBegin(r) \/ Invoke(r) \/ Advance(r)
                               \/ Answered(r) \/ Rejected(r) \/ Raise(r) PROVE IInv'
    BY <2>3, ListStep, InvokeStep, RefusedStep, CallStep, AnsweredStep, UnavailableStep,
       AbortedStep, FinishStep DEF Advance
  <2>4. CASE UNCHANGED vars
    <3>1. /\ composites' = composites /\ order' = order /\ publishes' = publishes
          /\ run' = run /\ recorded' = recorded
      BY <2>4 DEF vars
    <3> QED
      BY <3>1 DEF IInv, RegistryInv, Names
  <2> QED
    BY <2>1, <2>2, <2>3, <2>4 DEF Next
<1> QED
  BY <1>1, <1>2, PTL DEF Spec

-----------------------------------------------------------------------------
(* The theorems *)

\* The registry and its order agree, a run's context only ever has names of
\* steps, and no capability has more successes than invocations
\* (composer.py:99-126, main.py:256-267, 280-307).
THEOREM TypeCorrect == Spec => []TypeOK
<1>1. IInv => TypeOK
  <2> SUFFICES ASSUME IInv PROVE TypeOK
    OBVIOUS
  <2>1. ASSUME NEW r \in Runs
        PROVE  /\ DOMAIN run[r] = DOMAIN Blank
               /\ run[r].pc \in {"new", "listing", "step", "called", "done"} /\ run[r].error \in Errors
               /\ run[r].spec \in Specs /\ run[r].odd \in BOOLEAN /\ DOMAIN run[r].ctx \subseteq StepNames
               /\ \A n \in DOMAIN run[r].ctx : run[r].ctx[n].by[1] \in Runs /\ run[r].ctx[n].paths \in Shapes
    <3>1. run[r] \in RunType
      BY UnderWay
    <3>2. DOMAIN run[r] = DOMAIN Blank
      BY <3>1 DEF RunType, Blank
    <3>3. /\ run[r].pc \in Phases /\ run[r].error \in Errors /\ run[r].odd \in BOOLEAN
          /\ run[r].spec \in Specs /\ run[r].ctx \in Contexts
      BY <3>1, RunParts
    <3>4. DOMAIN run[r].ctx \subseteq StepNames /\ \A n \in DOMAIN run[r].ctx : run[r].ctx[n] \in Value
      BY <3>3, ContextParts
    <3> QED
      BY <3>2, <3>3, <3>4 DEF Phases, Value
  <2>2. ASSUME NEW c \in Capabilities PROVE recorded[c].succ <= recorded[c].inv
    <3>1. recorded[c].succ \in Nat /\ recorded[c].inv = recorded[c].succ + Cardinality(UnavailableOf(run, c))
      BY DEF IInv, Counted, Tally
    <3>2. UnavailableOf(run, c) \in SUBSET Runs
      BY DEF UnavailableOf
    <3>3. Cardinality(UnavailableOf(run, c)) \in Nat
      BY <3>2, ComposerAssumption, FS_Subset, FS_CardinalityType
    <3> QED
      BY <3>1, <3>3
  <2> QED
    BY <2>1, <2>2 DEF TypeOK, IInv, RegistryInv
<1> QED
  BY <1>1, Invariance, PTL

\* Whatever runs concurrently and is published meanwhile, every step and the
\* output take their values from where the composite the run began with
\* means them to (composer.py:99-126, main.py:294, 319).
THEOREM DataFlows == Spec => []DataFlowsAsComposed
<1>1. IInv => DataFlowsAsComposed
  <2> SUFFICES ASSUME IInv, NEW r \in Runs
               PROVE  /\ \A i \in DOMAIN run[r].trace :
                           /\ i <= Len(run[r].spec.steps)
                           /\ run[r].trace[i] = MeantBy(r, run[r].spec, i, run[r].spec.steps[i].inputs)
                      /\ run[r].pc = "done" /\ run[r].error = "none" =>
                           run[r].output = MeantBy(r, run[r].spec, Len(run[r].spec.steps) + 1, run[r].spec.output)
    BY DEF DataFlowsAsComposed
  <2>1. FlowInv(r, run[r]) /\ run[r] \in RunType
    BY UnderWay DEF RunInv
  <2>2. Len(run[r].trace) \in Nat /\ DOMAIN run[r].trace = 1 .. Len(run[r].trace) /\ Len(run[r].spec.steps) \in Nat
    BY <2>1, RunParts
  <2> QED
    BY <2>1, <2>2 DEF FlowInv
<1> QED
  BY <1>1, Invariance, PTL

\* A run ends with its whole output, all of its steps having run, or with an
\* error and nothing (composer.py:102-126).
THEOREM WholeOrNothing == Spec => []AllOrNothing
<1>1. IInv => AllOrNothing
  BY UnderWay DEF AllOrNothing, RunInv, PhaseInv
<1> QED
  BY <1>1, Invariance, PTL

\* The outcomes recorded are exactly the steps that ran and the steps that
\* ended a run as unavailable, however the runs interleave
\* (main.py:256-267).
THEOREM StepsCounted == Spec => []EveryStepCounted
<1>1. IInv => EveryStepCounted
  <2>1. \A c : StepsRun(c) = StepsOf(run, c) /\ StepsUnavailable(c) = UnavailableOf(run, c)
    BY DEF StepsRun, StepsOf, StepsUnavailable, UnavailableOf
  <2> QED
    BY <2>1 DEF IInv, Counted, EveryStepCounted
<1> QED
  BY <1>1, Invariance, PTL

\* A listing that succeeds shows what was registered when it began, once,
\* however many composites are published meanwhile (main.py:280-282, 294,
\* 307).
THEOREM ListingsComplete == Spec => []ListingIsComplete
<1>1. IInv => ListingIsComplete
  BY UnderWay DEF ListingIsComplete, RunInv, ListInv
<1> QED
  BY <1>1, Invariance, PTL

\* A self-contained composite never fails on a reference, whatever its
\* callers send and its workloads answer (main.py:322, composer.py:73-82,
\* 99-125).
THEOREM ReferencesSound == Spec => []SelfContainedResolves
<1>1. IInv => SelfContainedResolves
  BY UnderWay DEF SelfContainedResolves, RunInv, ContextInv
<1> QED
  BY <1>1, Invariance, PTL

\* A generated client returns an output exactly when the run succeeded and
\* its result can be encoded, in every language; what only some of them miss
\* is what was refused before it ran (agentdsl.py:202-323, main.py:317-325).
THEOREM FailuresReported == Spec => []ClientsReportFailure
<1>1. IInv => ClientsReportFailure
  <2> SUFFICES ASSUME IInv, NEW r \in Runs, NEW lang \in Clients, run[r].pc = "done", run[r].known = {}
               PROVE  LET seen == ClientSees(lang, Reply(r)) IN
                        /\ seen = "output" <=> run[r].error = "none" /\ ~run[r].odd
                        /\ seen = "nothing" => run[r].spec = NoSpec /\ ~ChecksStatus(lang)
    BY DEF ClientsReportFailure
  <2>1. /\ run[r].error \in Errors /\ run[r].odd \in BOOLEAN
        /\ run[r].error \in {"unknown", "schema"} => run[r].spec = NoSpec
    BY UnderWay, RunParts DEF RunInv, PhaseInv
  <2> DEFINE e == run[r].error
             odd == run[r].odd
             reply == Reply(r)
  <2>2. /\ reply.json <=> ~(e = "raised" \/ odd)
        /\ reply.error <=> e \notin {"none", "unknown", "schema", "raised"}
        /\ reply.output = IF e = "none" THEN "output" ELSE "nothing"
        /\ e = "none" /\ ~odd => reply.status = 200
        /\ e \in {"unknown", "schema"} => reply.status # 200
    <3>1. e = "none" /\ ~odd => reply.status = 200
      BY DEF Reply
    <3>2. e \in {"unknown", "schema"} => reply.status # 200
      BY DEF Reply
    <3>3. reply.json <=> ~(e = "raised" \/ odd)
      BY <2>1 DEF Reply
    <3> QED
      BY <3>1, <3>2, <3>3 DEF Reply
  <2> HIDE DEF e, odd, reply
  <2>3. /\ ClientSees(lang, reply) = "output" <=> e = "none" /\ ~odd
        /\ ClientSees(lang, reply) = "nothing" => e \in {"unknown", "schema"} /\ ~ChecksStatus(lang)
    BY <2>2 DEF ClientSees
  <2> QED
    BY <2>1, <2>3 DEF e, odd, reply
<1> QED
  BY <1>1, Invariance, PTL
=============================================================================
