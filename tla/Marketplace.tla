---------------------------- MODULE Marketplace ----------------------------
(***************************************************************************)
(* How the gateway picks a provider of a capability and learns from what   *)
(* happens: gateway/ranking.py's MetricsPolicy over gateway/catalog.py's   *)
(* baseline order, and the capability route of gateway/main.py.  One       *)
(* capability, its providers fixed, requests one at a time (Gateway.tla    *)
(* has the interleavings); what an invocation answers is the environment's *)
(* choice.                                                                 *)
(*                                                                         *)
(* Scores are exact rationals where the code has floats.  Scaled by 20,    *)
(* the trust priors 0.10, 0.05 and 0 are 2, 1 and 0 and the cold-start     *)
(* base 0.7 is 14; a latency is counted in units of 500 ms, so that the    *)
(* penalty avg / 1000 * 0.1 is avg in those units.                         *)
(***************************************************************************)
EXTENDS Versions, FiniteSets

CONSTANTS Providers,      \* records: name, place, vendor, trust, version, latencies
          Ranges,         \* the version ranges requests ask for
          NoVendor,       \* a request that pins no vendor
          MaxInvocations, \* counters stop here, see Countable
          FullTraffic     \* FALSE: only well-formed capability requests without a vendor pin

\* A catalog is finite.  Names are keys of the dev catalog's dict or names of
\* resources in one namespace; place is the dict's order of insertion;
\* latencies is how long a success takes, in units of 500 ms.
ASSUME MarketplaceAssumption ==
  /\ IsFiniteSet(Providers)
  /\ \A p \in Providers : /\ p.name \in Int /\ p.place \in Int /\ p.vendor \in Int \ {NoVendor}
                         /\ p.version \in Seq(Nat \cup {NonNumeric}) /\ p.latencies \subseteq Nat
  /\ \A p, q \in Providers : p.name = q.name \/ p.place = q.place => p = q
  /\ MaxInvocations \in Nat /\ FullTraffic \in BOOLEAN

VARIABLES store,  \* store[p]: what MetricsStore holds for p's feature id
          served  \* the last capability request: what it asked and got

vars == <<store, served>>

Vendors == {p.vendor : p \in Providers}
Counters == [inv : 0 .. MaxInvocations, succ : 0 .. MaxInvocations, total : Nat]
Nobody == [vendor |-> NoVendor, name |-> 0, place |-> 0, trust |-> "None", version |-> <<0>>, latencies |-> {}]

TrustRank(trust) == CASE trust = "Official" -> 0 [] trust = "Verified" -> 1 [] OTHER -> 2

\* Defect: the tiers are weighed the wrong way round.
TrustPriorInverted(trust) == TrustRank(trust)

TrustPrior(trust) == 2 - TrustRank(trust)

-----------------------------------------------------------------------------
(* rank_features: the baseline order *)

\* Defect: the newest-first key loses its minus sign.
VersionKeyAscending(p) == SemverKey(p.version)

\* The second sort key: the numbers negated, so that newer sorts first.
VersionKey(p) == LET k == SemverKey(p.version) IN [i \in 1 .. Len(k) |-> -k[i]]

\* The sort key: trust tier, then version, then vendor.
KeyBefore(p, q) ==
  \/ TrustRank(p.trust) < TrustRank(q.trust)
  \/ /\ TrustRank(p.trust) = TrustRank(q.trust)
     /\ \/ TupleLess(VersionKey(p), VersionKey(q))
        \/ VersionKey(p) = VersionKey(q) /\ p.vendor < q.vendor

\* sorted is stable: equal keys stay in the order of the list that is
\* ranked.  The routes rank what list() returns, which is sorted by name, ...
BaselineBefore(p, q) == KeyBefore(p, q) \/ (~KeyBefore(q, p) /\ p.name < q.name)

\* ... the in-memory catalog's summaries and resolve the values of its dict.
SeededBefore(p, q) == KeyBefore(p, q) \/ (~KeyBefore(q, p) /\ p.place < q.place)

\* resolve_feature there, and the provider summarize_capabilities shows as
\* preferred.
Preferred(ps) == CHOOSE p \in ps : \A q \in ps \ {p} : SeededBefore(p, q)

-----------------------------------------------------------------------------
(* MetricsPolicy *)

\* success_rate + prior - penalty as a fraction of positive denominator; the
\* optimistic 14/20 instead of the rate before any data; no penalty before
\* the first success.
Weigh(c, prior) ==
  IF c.inv = 0 THEN [num |-> 14 + prior, den |-> 1]
  ELSE IF c.succ = 0 THEN [num |-> prior, den |-> 1]
  ELSE [num |-> 20 * c.succ * c.succ + prior * c.inv * c.succ - c.total * c.inv, den |-> c.inv * c.succ]

\* Defect: the prior of a trusted vendor outweighs any success rate.
ScoreTrustFirst(p) == Weigh(store[p], 20 * TrustPrior(p.trust))

\* Defect: the average latency is taken before the first success.
ScoreNoGuard(p) == [Weigh(store[p], TrustPrior(p.trust)) EXCEPT
                      !.den = IF store[p].inv = 0 THEN 1 ELSE store[p].inv * store[p].succ]

Score(p) == Weigh(store[p], TrustPrior(p.trust))

Higher(a, b) == a.num * b.den > b.num * a.den

\* MetricsPolicy.rank: by score, ties in baseline order.
Before(p, q) ==
  \/ Higher(Score(p), Score(q))
  \/ ~Higher(Score(q), Score(p)) /\ BaselineBefore(p, q)

-----------------------------------------------------------------------------
(* The capability route *)

\* _providers: the providers that meet both pins.
Candidates(vendor, range) ==
  {p \in Providers : vendor \in {NoVendor, p.vendor} /\ MatchVersion(p.version, range)}

Top(ps) == CHOOSE p \in ps : \A q \in ps \ {p} : Before(p, q)

\* Counters are capped without losing anything the ranking can tell: at the
\* bound only outcomes that leave the rate and the average alone are taken.
Countable(p, success, latency) ==
  \/ store[p].inv < MaxInvocations
  \/ success /\ store[p].succ = store[p].inv /\ store[p].total = latency * store[p].succ
  \/ ~success /\ store[p].succ = 0

\* MetricsStore.record.
Record(p, success, latency) ==
  /\ Countable(p, success, latency)
  /\ IF store[p].inv < MaxInvocations
       THEN store' = [store EXCEPT ![p] =
              [inv   |-> @.inv + 1,
               succ  |-> IF success THEN @.succ + 1 ELSE @.succ,
               total |-> IF success THEN @.total + latency ELSE @.total]]
       ELSE UNCHANGED store

\* What _invoke makes of the workload's answer: a success and an
\* unavailability are recorded, a caller error is not.
Outcome(p) ==
  \/ \E latency \in p.latencies : Record(p, TRUE, latency)
  \/ Record(p, FALSE, 0)
  \/ FullTraffic /\ UNCHANGED store

\* The parity makes serving the same request twice a visible step; 2: none
\* has been served.
Serve(vendor, range, p) ==
  served' = [vendor |-> vendor, range |-> range, provider |-> p,
             parity |-> IF served.parity = 0 THEN 1 ELSE 0]

NothingServed == [vendor |-> NoVendor, range |-> [op |-> "any", blank |-> FALSE, parts |-> <<0>>, dots |-> 0],
                  provider |-> Nobody, parity |-> 2]

NotFound(vendor, range) ==
  /\ Candidates(vendor, range) = {}
  /\ Serve(vendor, range, Nobody)
  /\ UNCHANGED store

Invoke(vendor, range) ==
  /\ Candidates(vendor, range) # {}
  /\ LET p == Top(Candidates(vendor, range)) IN
       /\ Serve(vendor, range, p)
       /\ Outcome(p)

Pins == IF FullTraffic THEN {NoVendor} \cup Vendors ELSE {NoVendor}

InvokeCapability ==
  \E vendor \in Pins, range \in Ranges : NotFound(vendor, range) \/ Invoke(vendor, range)

\* A direct /features/{name}/invoke feeds the same counters.
InvokeFeature == FullTraffic /\ \E p \in Providers : Outcome(p) /\ UNCHANGED served

-----------------------------------------------------------------------------

Init ==
  /\ store = [p \in Providers |-> [inv |-> 0, succ |-> 0, total |-> 0]]
  /\ served = NothingServed

Next == InvokeCapability \/ InvokeFeature

\* Agents keep asking for the capability.
Spec == Init /\ [][Next]_vars /\ WF_vars(InvokeCapability)

-----------------------------------------------------------------------------
(* Properties *)

TypeOK ==
  /\ store \in [Providers -> Counters]
  /\ served.provider \in Providers \cup {Nobody}
  /\ \A p \in Providers : Score(p).den > 0

Eligible(vendor, range) ==
  {p \in Providers : vendor \in {NoVendor, p.vendor} /\ Satisfies(p.version, range)}

\* A capability request is answered by a provider that meets its vendor pin
\* and its version range as documented, and is refused only when there is
\* none (main.py:90-96, 224-233; catalog.py:63-107).
PinsHonoured ==
  served # NothingServed =>
  LET e == Eligible(served.vendor, served.range)
  IN  IF e = {} THEN served.provider = Nobody ELSE served.provider \in e

\* ... and no eligible provider had a higher score, nor, at the same score
\* and trust, a newer version (main.py:225; ranking.py:102-105; the order
\* catalog.py:111 documents).
BestServed ==
  [][served'.provider # Nobody /\ served' # served =>
       \A q \in Eligible(served'.vendor, served'.range) :
         LET p == served'.provider IN
           \/ Higher(Score(p), Score(q))
           \/ /\ ~Higher(Score(q), Score(p))
              /\ p.trust = q.trust => ~TupleLess(Triple(p.version), Triple(q.version))]_vars

\* README.md:138: a vendor that performs overtakes a more trusted one that
\* does not.  A success rate more than 10% higher, at no higher an average
\* latency, always ranks first (ranking.py:27, 92-100).
PerformanceBeatsTrust ==
  \A p, q \in Providers :
    LET c == store[p]
        d == store[q]
    IN  /\ c.inv > 0 /\ d.inv > 0 /\ d.succ > 0
        /\ 10 * (c.succ * d.inv - d.succ * c.inv) > c.inv * d.inv
        /\ c.total * d.succ <= d.total * c.succ
        => Before(p, q)

\* As long as nothing observed tells providers apart (their counters are the
\* same: none has been called, or all have failed as often, or succeeded as
\* often in the same time), the learning policy picks a provider that the
\* catalog could show as preferred, one of the same tier, version and vendor:
\* models.py:109-110, samples.py:147-148 "trust beats version"
\* (ranking.py:91-105, catalog.py:110-142).  Two releases that tie in the key
\* may swap places, as the summaries do not sort by name.
AlikeFollowsBaseline ==
  \A ps \in (SUBSET Providers) \ {{}} : (\A p, q \in ps : store[p] = store[q]) =>
    ~KeyBefore(Preferred(ps), Top(ps)) /\ ~KeyBefore(Top(ps), Preferred(ps))

\* What "so a new provider isn't starved" (ranking.py:84-85, README.md:130)
\* promises while requests for the capability keep coming.
NobodyStarves == \A p \in Providers : <>(store[p].inv > 0)
=============================================================================
