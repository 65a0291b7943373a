------------------------- MODULE MarketplaceProofs -------------------------
(***************************************************************************)
(* Who is served is who the documentation promises, for every catalog,     *)
(* every range written with a recognised operator and every history of     *)
(* outcomes.  The order of the ranking is shown to be a strict total one   *)
(* first, so that a selection has one answer.                              *)
(***************************************************************************)
EXTENDS Marketplace, VersionsProofs, FiniteSetTheorems

-----------------------------------------------------------------------------
(* A finite set has a first element in every strict total order *)

\* R orders S: of two different elements exactly one comes before the other,
\* and what comes before a predecessor comes before.
Orders(R, S) ==
  /\ \A p, q \in S : p # q => (<<p, q>> \in R <=> <<q, p>> \notin R)
  /\ \A p, q, r \in S : p # q /\ <<p, q>> \in R /\ <<q, r>> \in R => <<p, r>> \in R

\* The element with the fewest predecessors has none.
LEMMA FirstExists ==
  ASSUME NEW S, IsFiniteSet(S), S # {}, NEW R, Orders(R, S)
  PROVE  \E p \in S : \A q \in S \ {p} : <<p, q>> \in R
<1> DEFINE Pred(p) == {q \in S \ {p} : <<q, p>> \in R}
           D == {Cardinality(Pred(p)) : p \in S}
<1>1. ASSUME NEW p \in S PROVE IsFiniteSet(Pred(p)) /\ Cardinality(Pred(p)) \in Nat
  <2>1. Pred(p) \in SUBSET S
    OBVIOUS
  <2> HIDE DEF Pred
  <2>2. IsFiniteSet(Pred(p))
    BY <2>1, FS_Subset
  <2> QED
    BY <2>2, FS_CardinalityType
<1>2. PICK n \in D : \A k \in D : n <= k
  <2>1. D \subseteq Nat /\ D # {}
    BY <1>1
  <2> HIDE DEF D
  <2> QED
    BY <2>1, LeastElement
<1>3. PICK p \in S : n = Cardinality(Pred(p))
  OBVIOUS
<1>4. ASSUME NEW q \in S \ {p}, <<p, q>> \notin R PROVE FALSE
  <2>1. <<q, p>> \in R
    BY <1>4 DEF Orders
  <2>2. Pred(q) \in SUBSET Pred(p)
    <3> SUFFICES ASSUME NEW r \in S, r # q, <<r, q>> \in R PROVE r # p /\ <<r, p>> \in R
      OBVIOUS
    <3> QED
      BY <1>4, <2>1 DEF Orders
  <2>3. q \in Pred(p) /\ q \notin Pred(q)
    BY <2>1
  <2>4. Cardinality(Pred(p)) <= Cardinality(Pred(q))
    BY <1>2, <1>3
  <2>5. Pred(q) # Pred(p)
    BY <2>3
  <2>6. Cardinality(Pred(p)) \in Nat /\ Cardinality(Pred(q)) \in Nat /\ IsFiniteSet(Pred(p))
    BY <1>1
  <2> HIDE DEF Pred
  <2>7. /\ Cardinality(Pred(q)) <= Cardinality(Pred(p))
        /\ (Cardinality(Pred(p)) = Cardinality(Pred(q)) => Pred(p) = Pred(q))
    BY <2>2, <2>6, FS_Subset
  <2> QED
    BY <2>4, <2>5, <2>6, <2>7
<1> QED
  BY <1>4

-----------------------------------------------------------------------------
(* The baseline order *)

\* A trust tier is one of three.
LEMMA Tiers ==
  ASSUME NEW trust
  PROVE  TrustRank(trust) \in 0 .. 2 /\ TrustPrior(trust) \in 0 .. 2
<1>1. TrustRank(trust) \in 0 .. 2
  <2>1. CASE trust = "Official"
    BY <2>1 DEF TrustRank
  <2>2. CASE trust = "Verified"
    BY <2>2 DEF TrustRank
  <2>3. CASE trust # "Official" /\ trust # "Verified"
    BY <2>3 DEF TrustRank
  <2> QED
    BY <2>1, <2>2, <2>3
<1> QED
  BY <1>1 DEF TrustPrior

\* A version sorts by a tuple of numbers.
LEMMA Keys ==
  ASSUME NEW p \in Providers
  PROVE  VersionKey(p) \in Seq(Int) /\ p.vendor \in Int
<1>1. p.version \in Seq(Nat \cup {NonNumeric})
  BY MarketplaceAssumption
<1>2. SemverKey(p.version) \in Seq(Nat)
  BY <1>1 DEF SemverKey, NonNumeric
<1>3. VersionKey(p) \in Seq(Int)
  BY <1>2 DEF VersionKey
<1> QED
  BY <1>3, MarketplaceAssumption

\* The sort key puts no two providers each before the other, ...
LEMMA KeyAsymmetric ==
  ASSUME NEW p \in Providers, NEW q \in Providers, KeyBefore(p, q)
  PROVE  ~KeyBefore(q, p)
<1> DEFINE a == VersionKey(p)
           b == VersionKey(q)
<1>1. a \in Seq(Int) /\ b \in Seq(Int) /\ p.vendor \in Int /\ q.vendor \in Int
  BY Keys
<1>2. TrustRank(p.trust) \in Int /\ TrustRank(q.trust) \in Int
  BY Tiers
<1>3. \/ TrustRank(p.trust) < TrustRank(q.trust)
      \/ /\ TrustRank(p.trust) = TrustRank(q.trust)
         /\ TupleLess(a, b) \/ (a = b /\ p.vendor < q.vendor)
  BY DEF KeyBefore
<1>4. KeyBefore(q, p) <=>
        \/ TrustRank(q.trust) < TrustRank(p.trust)
        \/ /\ TrustRank(q.trust) = TrustRank(p.trust)
           /\ TupleLess(b, a) \/ (b = a /\ q.vendor < p.vendor)
  BY DEF KeyBefore
<1> HIDE DEF a, b
<1>5. ~(TupleLess(a, b) /\ TupleLess(b, a))
  BY <1>1, TupleTransitive, TupleIrreflexive
<1>6. a = b => ~TupleLess(a, b) /\ ~TupleLess(b, a)
  BY <1>1, TupleIrreflexive
<1> QED
  BY <1>1, <1>2, <1>3, <1>4, <1>5, <1>6

\* ... and a provider between two others in it, or level with one of them,
\* separates neither: what is before one is before the other or after it.
LEMMA KeyWeak ==
  ASSUME NEW p \in Providers, NEW q \in Providers, NEW r \in Providers, KeyBefore(p, r)
  PROVE  KeyBefore(p, q) \/ KeyBefore(q, r)
<1> DEFINE a == VersionKey(p)
           b == VersionKey(q)
           c == VersionKey(r)
<1>1. /\ a \in Seq(Int) /\ b \in Seq(Int) /\ c \in Seq(Int)
      /\ p.vendor \in Int /\ q.vendor \in Int /\ r.vendor \in Int
  BY Keys
<1>2. TrustRank(p.trust) \in Int /\ TrustRank(q.trust) \in Int /\ TrustRank(r.trust) \in Int
  BY Tiers
<1>3. \/ TrustRank(p.trust) < TrustRank(r.trust)
      \/ /\ TrustRank(p.trust) = TrustRank(r.trust)
         /\ TupleLess(a, c) \/ (a = c /\ p.vendor < r.vendor)
  BY DEF KeyBefore
<1>4. /\ KeyBefore(p, q) <=>
           \/ TrustRank(p.trust) < TrustRank(q.trust)
           \/ /\ TrustRank(p.trust) = TrustRank(q.trust)
              /\ TupleLess(a, b) \/ (a = b /\ p.vendor < q.vendor)
      /\ KeyBefore(q, r) <=>
           \/ TrustRank(q.trust) < TrustRank(r.trust)
           \/ /\ TrustRank(q.trust) = TrustRank(r.trust)
              /\ TupleLess(b, c) \/ (b = c /\ q.vendor < r.vendor)
  BY DEF KeyBefore
<1> HIDE DEF a, b, c
<1>5. a # b => TupleLess(a, b) \/ TupleLess(b, a)
  BY <1>1, TupleTotal
<1>6. b # c => TupleLess(b, c) \/ TupleLess(c, b)
  BY <1>1, TupleTotal
<1>7. TupleLess(b, a) /\ TupleLess(a, c) => TupleLess(b, c)
  BY <1>1, TupleTransitive
<1> QED
  BY <1>1, <1>2, <1>3, <1>4, <1>5, <1>6, <1>7

\* Sorted by the key from a list where p, q and r stand at i, j and k, of two
\* providers exactly one comes before the other, and what comes before a
\* predecessor comes before.
LEMMA StableSort ==
  ASSUME NEW p \in Providers, NEW q \in Providers, NEW r \in Providers, NEW i \in Int, NEW j \in Int, NEW k \in Int
  PROVE  LET pq == KeyBefore(p, q) \/ (~KeyBefore(q, p) /\ i < j)
             qp == KeyBefore(q, p) \/ (~KeyBefore(p, q) /\ j < i)
             qr == KeyBefore(q, r) \/ (~KeyBefore(r, q) /\ j < k)
             pr == KeyBefore(p, r) \/ (~KeyBefore(r, p) /\ i < k)
         IN  (i # j => (pq <=> ~qp)) /\ (pq /\ qr => pr)
<1>1. ~(KeyBefore(p, q) /\ KeyBefore(q, p)) /\ ~(KeyBefore(q, r) /\ KeyBefore(r, q))
  BY KeyAsymmetric
<1>2. KeyBefore(p, q) => KeyBefore(p, r) \/ KeyBefore(r, q)
  BY KeyWeak
<1>3. KeyBefore(q, r) => KeyBefore(q, p) \/ KeyBefore(p, r)
  BY KeyWeak
<1>4. KeyBefore(r, p) => KeyBefore(r, q) \/ KeyBefore(q, p)
  BY KeyWeak
<1>5. (i # j => (i < j <=> ~(j < i))) /\ (i < j /\ j < k => i < k)
  OBVIOUS
<1> QED
  BY <1>1, <1>2, <1>3, <1>4, <1>5

\* So the baseline order of a listing leaves no two providers in the same
\* place, ...
LEMMA BaselineTotal ==
  ASSUME NEW p \in Providers, NEW q \in Providers, p # q
  PROVE  BaselineBefore(p, q) <=> ~BaselineBefore(q, p)
<1>1. p.name \in Int /\ q.name \in Int /\ p.name # q.name
  BY MarketplaceAssumption
<1> QED
  BY <1>1, StableSort DEF BaselineBefore

\* ... and is transitive, ...
LEMMA BaselineTransitive ==
  ASSUME NEW p \in Providers, NEW q \in Providers, NEW r \in Providers,
         BaselineBefore(p, q), BaselineBefore(q, r)
  PROVE  BaselineBefore(p, r)
<1>1. p.name \in Int /\ q.name \in Int /\ r.name \in Int
  BY MarketplaceAssumption
<1> QED
  BY <1>1, StableSort DEF BaselineBefore

\* ... and so is the order of the dev catalog's dict.
LEMMA SeededOrders ==
  ASSUME NEW p \in Providers, NEW q \in Providers, NEW r \in Providers
  PROVE  /\ p # q => (SeededBefore(p, q) <=> ~SeededBefore(q, p))
         /\ SeededBefore(p, q) /\ SeededBefore(q, r) => SeededBefore(p, r)
<1>1. p.place \in Int /\ q.place \in Int /\ r.place \in Int /\ (p # q => p.place # q.place)
  BY MarketplaceAssumption
<1> QED
  BY <1>1, StableSort DEF SeededBefore
-----------------------------------------------------------------------------
(* Fractions *)

Fractions == [num : Int, den : Nat \ {0}]

\* Multiplying by a positive number keeps the order.
LEMMA Scaling ==
  ASSUME NEW x \in Int, NEW y \in Int, NEW k \in Nat \ {0}
  PROVE  (x < y) <=> (x * k < y * k)
<1>1. k \in Int /\ k > 0 /\ x * k \in Int /\ y * k \in Int
  OBVIOUS
<1>2. ASSUME x < y PROVE x * k < y * k
  BY <1>1, <1>2
<1>3. ASSUME y <= x PROVE y * k <= x * k
  BY <1>1, <1>3
<1> QED
  BY <1>1, <1>2, <1>3

\* Higher orders the values of fractions ...
LEMMA HigherAsymmetric ==
  ASSUME NEW x \in Fractions, NEW y \in Fractions, Higher(x, y)
  PROVE  ~Higher(y, x)
<1>1. x.num * y.den \in Int /\ y.num * x.den \in Int
  BY DEF Fractions
<1> QED
  BY <1>1 DEF Higher

\* ... from high to low: a comparison survives a step down on either side.
LEMMA HigherChain ==
  ASSUME NEW x \in Fractions, NEW y \in Fractions, NEW z \in Fractions,
         ~Higher(y, x), ~Higher(z, y)
  PROVE  /\ ~Higher(z, x)
         /\ Higher(x, y) \/ Higher(y, z) => Higher(x, z)
<1> DEFINE a == x.num
           u == x.den
           b == y.num
           v == y.den
           c == z.num
           w == z.den
<1>1. a \in Int /\ b \in Int /\ c \in Int /\ u \in Nat \ {0} /\ v \in Nat \ {0} /\ w \in Nat \ {0}
  BY DEF Fractions
<1>2. /\ ~(b * u > a * v) /\ ~(c * v > b * w)
      /\ Higher(x, y) <=> a * v > b * u
      /\ Higher(y, z) <=> b * w > c * v
      /\ Higher(x, z) <=> a * w > c * u
      /\ Higher(z, x) <=> c * u > a * w
  BY DEF Higher
<1> HIDE DEF a, b, c, u, v, w
<1>3. a * v \in Int /\ b * u \in Int /\ b * w \in Int /\ c * v \in Int /\ a * w \in Int /\ c * u \in Int
  BY <1>1
<1>4. /\ (a * v < b * u) <=> ((a * v) * w < (b * u) * w)
      /\ (b * u < a * v) <=> ((b * u) * w < (a * v) * w)
      /\ (b * w < c * v) <=> ((b * w) * u < (c * v) * u)
      /\ (c * v < b * w) <=> ((c * v) * u < (b * w) * u)
      /\ (a * w < c * u) <=> ((a * w) * v < (c * u) * v)
      /\ (c * u < a * w) <=> ((c * u) * v < (a * w) * v)
  BY <1>1, <1>3, Scaling
<1>5. /\ (a * v) * w \in Int /\ (b * u) * w \in Int /\ (c * v) * u \in Int
      /\ (b * w) * u = (b * u) * w /\ (a * w) * v = (a * v) * w /\ (c * u) * v = (c * v) * u
  BY <1>1
<1> QED
  BY <1>2, <1>3, <1>4, <1>5
-----------------------------------------------------------------------------
(* The ranking *)

Stored == store \in [Providers -> Counters]

\* A score is a fraction of positive denominator, before the first outcome
\* and before the first success too.
LEMMA ScoreType ==
  ASSUME Stored, NEW p \in Providers
  PROVE  Score(p) \in Fractions
<1> DEFINE c == store[p]
           prior == TrustPrior(p.trust)
<1>1. c.inv \in Nat /\ c.succ \in Nat /\ c.total \in Nat /\ prior \in Int
  BY Tiers, MarketplaceAssumption DEF Stored, Counters
<1>2. Score(p) = Weigh(c, prior)
  BY DEF Score
<1> HIDE DEF c, prior
<1>3. CASE c.inv = 0
  BY <1>1, <1>2, <1>3 DEF Weigh, Fractions
<1>4. CASE c.inv # 0 /\ c.succ = 0
  BY <1>1, <1>2, <1>4 DEF Weigh, Fractions
<1>5. CASE c.inv # 0 /\ c.succ # 0
  <2>1. Weigh(c, prior) = [num |-> 20 * c.succ * c.succ + prior * c.inv * c.succ - c.total * c.inv, den |-> c.inv * c.succ]
    BY <1>1, <1>5 DEF Weigh
  <2>2. 20 * c.succ * c.succ + prior * c.inv * c.succ - c.total * c.inv \in Int
    BY <1>1
  <2>3. c.inv * c.succ \in Nat \ {0}
    BY <1>1, <1>5
  <2> QED
    BY <1>2, <2>1, <2>2, <2>3 DEF Fractions
<1> QED
  BY <1>3, <1>4, <1>5

\* Of two providers exactly one comes first ...
LEMMA BeforeTotal ==
  ASSUME Stored, NEW p \in Providers, NEW q \in Providers, p # q
  PROVE  Before(p, q) <=> ~Before(q, p)
<1>1. BaselineBefore(p, q) <=> ~BaselineBefore(q, p)
  BY BaselineTotal
<1>2. ~(Higher(Score(p), Score(q)) /\ Higher(Score(q), Score(p)))
  BY ScoreType, HigherAsymmetric
<1> QED
  BY <1>1, <1>2 DEF Before

\* ... and the ranking is transitive.
LEMMA BeforeTransitive ==
  ASSUME Stored, NEW p \in Providers, NEW q \in Providers, NEW r \in Providers,
         Before(p, q), Before(q, r)
  PROVE  Before(p, r)
<1> DEFINE x == Score(p)
           y == Score(q)
           z == Score(r)
<1>1. x \in Fractions /\ y \in Fractions /\ z \in Fractions
  BY ScoreType
<1>2. /\ Higher(x, y) \/ (~Higher(y, x) /\ BaselineBefore(p, q))
      /\ Higher(y, z) \/ (~Higher(z, y) /\ BaselineBefore(q, r))
      /\ Before(p, r) <=> Higher(x, z) \/ (~Higher(z, x) /\ BaselineBefore(p, r))
  BY DEF Before
<1> HIDE DEF x, y, z
<1>3. ~Higher(y, x) /\ ~Higher(z, y)
  BY <1>1, <1>2, HigherAsymmetric
<1>4. ~Higher(z, x) /\ (Higher(x, y) \/ Higher(y, z) => Higher(x, z))
  BY <1>1, <1>3, HigherChain
<1>5. BaselineBefore(p, q) /\ BaselineBefore(q, r) => BaselineBefore(p, r)
  BY BaselineTransitive
<1> QED
  BY <1>2, <1>4, <1>5

\* Every selection has a first provider, and one only.
LEMMA TopIsFirst ==
  ASSUME Stored, NEW ps, ps \subseteq Providers, ps # {}
  PROVE  /\ Top(ps) \in ps /\ \A q \in ps \ {Top(ps)} : Before(Top(ps), q)
         /\ \A p \in ps : (\A q \in ps \ {p} : Before(p, q)) => p = Top(ps)
<1> DEFINE R == {e \in ps \X ps : Before(e[1], e[2])}
<1>1. \A p, q \in ps : <<p, q>> \in R <=> Before(p, q)
  OBVIOUS
<1>2. Orders(R, ps)
  <2> HIDE DEF R
  <2>1. \A p, q \in ps : p # q => (Before(p, q) <=> ~Before(q, p))
    BY BeforeTotal
  <2>2. \A p, q, r \in ps : Before(p, q) /\ Before(q, r) => Before(p, r)
    BY BeforeTransitive
  <2> QED
    BY <1>1, <2>1, <2>2 DEF Orders
<1>3. IsFiniteSet(ps)
  BY MarketplaceAssumption, FS_Subset
<1> HIDE DEF R
<1>4. PICK p \in ps : \A q \in ps \ {p} : <<p, q>> \in R
  BY <1>2, <1>3, FirstExists
<1>5. \E f \in ps : \A q \in ps \ {f} : Before(f, q)
  BY <1>1, <1>4
<1>6. Top(ps) \in ps /\ \A q \in ps \ {Top(ps)} : Before(Top(ps), q)
  BY <1>5, Zenon DEF Top
<1>7. ASSUME NEW f \in ps, \A q \in ps \ {f} : Before(f, q) PROVE f = Top(ps)
  <2> SUFFICES ASSUME f # Top(ps) PROVE FALSE
    OBVIOUS
  <2>1. Before(f, Top(ps)) /\ Before(Top(ps), f)
    BY <1>6, <1>7
  <2> QED
    BY <1>6, <2>1, BeforeTotal
<1> QED
  BY <1>6, <1>7

\* The same for the provider the catalog shows.
LEMMA PreferredIsFirst ==
  ASSUME NEW ps, ps \subseteq Providers, ps # {}
  PROVE  Preferred(ps) \in ps /\ \A q \in ps \ {Preferred(ps)} : SeededBefore(Preferred(ps), q)
<1> DEFINE R == {e \in ps \X ps : SeededBefore(e[1], e[2])}
<1>1. \A p, q \in ps : <<p, q>> \in R <=> SeededBefore(p, q)
  OBVIOUS
<1>2. Orders(R, ps)
  <2> HIDE DEF R
  <2>1. \A p, q, r \in ps : /\ p # q => (SeededBefore(p, q) <=> ~SeededBefore(q, p))
                            /\ SeededBefore(p, q) /\ SeededBefore(q, r) => SeededBefore(p, r)
    BY SeededOrders
  <2> QED
    BY <1>1, <2>1 DEF Orders
<1>3. IsFiniteSet(ps)
  BY MarketplaceAssumption, FS_Subset
<1> HIDE DEF R
<1>4. PICK p \in ps : \A q \in ps \ {p} : <<p, q>> \in R
  BY <1>2, <1>3, FirstExists
<1>5. \E f \in ps : \A q \in ps \ {f} : SeededBefore(f, q)
  BY <1>1, <1>4
<1> QED
  BY <1>5, Zenon DEF Preferred

-----------------------------------------------------------------------------
(* What the counters say *)

\* The difference of two scores, over their common denominator: what the
\* success rates, the trust priors and the average latencies contribute.
LEMMA Difference ==
  ASSUME NEW ci \in Int, NEW cs \in Int, NEW ct \in Int, NEW di \in Int, NEW ds \in Int, NEW dt \in Int,
         NEW P \in Int, NEW Q \in Int
  PROVE  (20 * cs * cs + P * ci * cs - ct * ci) * (di * ds) - (20 * ds * ds + Q * di * ds - dt * di) * (ci * cs)
           = 20 * ((cs * ds) * (cs * di - ds * ci)) + (P - Q) * ((ci * di) * (cs * ds))
               + (ci * di) * (dt * cs - ct * ds)
  OBVIOUS

\* A product with a factor zero, and only that, is zero; a product of
\* numbers of one sign is not negative.
LEMMA Products ==
  ASSUME NEW x \in Int, NEW y \in Int
  PROVE  /\ x * y \in Int /\ (x * y = 0 <=> x = 0 \/ y = 0)
         /\ x >= 0 /\ y >= 0 => x * y >= 0
         /\ x > 0 /\ y > 0 => x * y > 0
  OBVIOUS

\* Two providers with the same counters have the same score up to their trust
\* priors, which never speak against the baseline order.
LEMMA AlikeRanks ==
  ASSUME Stored, NEW p \in Providers, NEW q \in Providers, store[p] = store[q], BaselineBefore(p, q)
  PROVE  Before(p, q)
<1> DEFINE c == store[p]
           P == TrustPrior(p.trust)
           Q == TrustPrior(q.trust)
<1>1. c.inv \in Nat /\ c.succ \in Nat /\ c.total \in Nat
  BY MarketplaceAssumption DEF Stored, Counters
<1>2. P \in Int /\ Q \in Int /\ Q <= P
  BY Tiers DEF TrustPrior, BaselineBefore, KeyBefore
<1>3. Score(p) = Weigh(c, P) /\ Score(q) = Weigh(c, Q)
  BY DEF Score
<1> HIDE DEF c, P, Q
<1>4. ~Higher(Weigh(c, Q), Weigh(c, P))
  <2>1. CASE c.inv = 0
    BY <1>1, <1>2, <2>1 DEF Weigh, Higher
  <2>2. CASE c.inv # 0 /\ c.succ = 0
    BY <1>1, <1>2, <2>2 DEF Weigh, Higher
  <2>3. CASE c.inv # 0 /\ c.succ # 0
    <3> DEFINE A == (20 * c.succ * c.succ + P * c.inv * c.succ - c.total * c.inv) * (c.inv * c.succ)
               B == (20 * c.succ * c.succ + Q * c.inv * c.succ - c.total * c.inv) * (c.inv * c.succ)
               K == (c.inv * c.inv) * (c.succ * c.succ)
    <3>1. Higher(Weigh(c, Q), Weigh(c, P)) <=> B > A
      BY <1>1, <2>3 DEF Weigh, Higher
    <3>2. A - B = 20 * ((c.succ * c.succ) * (c.succ * c.inv - c.succ * c.inv)) + (P - Q) * K
                    + (c.inv * c.inv) * (c.total * c.succ - c.total * c.succ)
      BY <1>1, <1>2, Difference
    <3>3. A \in Int /\ B \in Int /\ K \in Int /\ K >= 0
      BY <1>1, <1>2, Products
    <3>4. c.succ * c.inv - c.succ * c.inv = 0 /\ c.total * c.succ - c.total * c.succ = 0
      BY <1>1
    <3>5. (c.succ * c.succ) * 0 = 0 /\ (c.inv * c.inv) * 0 = 0
      BY <1>1, Products
    <3> HIDE DEF A, B, K
    <3>6. A - B = (P - Q) * K
      <4>1. (P - Q) * K \in Int
        BY <1>2, <3>3
      <4> QED
        BY <3>2, <3>4, <3>5, <4>1
    <3>7. (P - Q) * K >= 0
      BY <1>2, <3>3, Products
    <3> QED
      BY <3>1, <3>3, <3>6, <3>7
  <2> QED
    BY <2>1, <2>2, <2>3
<1> QED
  BY <1>3, <1>4 DEF Before

\* A success rate more than 10% higher, at no higher a latency, outweighs
\* every trust prior.
LEMMA PerformanceRanks ==
  ASSUME Stored, NEW p \in Providers, NEW q \in Providers,
         store[p].inv > 0, store[q].inv > 0, store[q].succ > 0,
         10 * (store[p].succ * store[q].inv - store[q].succ * store[p].inv) > store[p].inv * store[q].inv,
         store[p].total * store[q].succ <= store[q].total * store[p].succ
  PROVE  Before(p, q)
<1> DEFINE c == store[p]
           d == store[q]
           P == TrustPrior(p.trust)
           Q == TrustPrior(q.trust)
<1>1. /\ c.inv \in Nat /\ c.succ \in Nat /\ c.total \in Nat
      /\ d.inv \in Nat /\ d.succ \in Nat /\ d.total \in Nat
  BY MarketplaceAssumption DEF Stored, Counters
<1>2. P \in Int /\ Q \in Int /\ P - Q >= -2
  BY Tiers
<1>3. /\ c.inv > 0 /\ d.inv > 0 /\ d.succ > 0
      /\ 10 * (c.succ * d.inv - d.succ * c.inv) > c.inv * d.inv
      /\ c.total * d.succ <= d.total * c.succ
  OBVIOUS
<1>4. Score(p) = Weigh(c, P) /\ Score(q) = Weigh(d, Q)
  BY DEF Score
<1> HIDE DEF c, d, P, Q
<1> DEFINE A == (20 * c.succ * c.succ + P * c.inv * c.succ - c.total * c.inv) * (d.inv * d.succ)
           B == (20 * d.succ * d.succ + Q * d.inv * d.succ - d.total * d.inv) * (c.inv * c.succ)
           I == c.inv * d.inv
           S == c.succ * d.succ
           G == c.succ * d.inv - d.succ * c.inv
           L == d.total * c.succ - c.total * d.succ
<1>5. c.succ > 0
  <2>1. d.succ * c.inv \in Int /\ d.succ * c.inv > 0 /\ c.inv * d.inv > 0 /\ c.inv * d.inv \in Int
    BY <1>1, <1>3, Products
  <2>2. c.succ = 0 => c.succ * d.inv = 0
    BY <1>1, Products
  <2> QED
    BY <1>1, <1>3, <2>1, <2>2
<1>6. Higher(Weigh(c, P), Weigh(d, Q)) <=> A > B
  BY <1>1, <1>3, <1>5 DEF Weigh, Higher
<1>7. A - B = 20 * (S * G) + (P - Q) * (I * S) + I * L
  BY <1>1, <1>2, Difference
<1>8. /\ A \in Int /\ B \in Int /\ G \in Int /\ L \in Int /\ L >= 0 /\ 10 * G > I
      /\ I \in Int /\ S \in Int /\ I > 0 /\ S > 0
  BY <1>1, <1>2, <1>3, <1>5, Products
<1> HIDE DEF A, B, I, S, G, L
<1>9. 20 * (S * G) > 2 * (I * S)
  <2>1. S * (10 * G - I) > 0
    BY <1>8, Products
  <2>2. S * (10 * G - I) = 10 * (S * G) - I * S /\ S * G \in Int /\ I * S \in Int
    BY <1>8
  <2> QED
    BY <2>1, <2>2
<1>10. (P - Q) * (I * S) >= -2 * (I * S)
  <2>1. (P - Q + 2) * (I * S) >= 0
    BY <1>2, <1>8, Products
  <2>2. (P - Q + 2) * (I * S) = (P - Q) * (I * S) + 2 * (I * S) /\ (P - Q) * (I * S) \in Int /\ I * S \in Int
    BY <1>2, <1>8
  <2> QED
    BY <2>1, <2>2
<1>11. I * L >= 0 /\ I * L \in Int /\ S * G \in Int /\ I * S \in Int /\ (P - Q) * (I * S) \in Int
  BY <1>2, <1>8, Products
<1> QED
  BY <1>4, <1>6, <1>7, <1>8, <1>9, <1>10, <1>11 DEF Before
-----------------------------------------------------------------------------
(* The inductive invariant *)

\* Nothing succeeds without having been invoked, so counting a success stays
\* within the bound on invocations.
SuccessesInvoked == \A p \in Providers : store[p].succ <= store[p].inv

\* The last request asked for a range that is asked for and got a candidate
\* if there was one; which providers are candidates never changes.
CandidateServed ==
  served # NothingServed =>
    /\ served.range \in Ranges
    /\ LET c == Candidates(served.vendor, served.range)
       IN  IF c = {} THEN served.provider = Nobody ELSE served.provider \in c

IInv == Stored /\ SuccessesInvoked /\ CandidateServed

\* MetricsStore.record keeps the counters in range.
LEMMA RecordStored ==
  ASSUME Stored, SuccessesInvoked, NEW p \in Providers, NEW success \in BOOLEAN, NEW latency \in Nat,
         Record(p, success, latency)
  PROVE  Stored' /\ SuccessesInvoked'
<1>1. CASE ~(store[p].inv < MaxInvocations)
  BY <1>1 DEF Record, Stored, SuccessesInvoked
<1>2. CASE store[p].inv < MaxInvocations
  <2> DEFINE c == store[p]
             new == [inv   |-> c.inv + 1,
                     succ  |-> IF success THEN c.succ + 1 ELSE c.succ,
                     total |-> IF success THEN c.total + latency ELSE c.total]
  <2>1. /\ c.inv \in Nat /\ c.succ \in Nat /\ c.total \in Nat /\ MaxInvocations \in Nat
        /\ c.succ <= c.inv /\ c.inv < MaxInvocations
    BY <1>2, MarketplaceAssumption DEF Stored, SuccessesInvoked, Counters
  <2>2. store' = [store EXCEPT ![p] = new]
    BY <1>2 DEF Record
  <2> HIDE DEF c
  <2>3. new \in Counters /\ new.succ <= new.inv
    BY <2>1 DEF Counters
  <2> HIDE DEF new
  <2>4. Stored'
    BY <2>2, <2>3 DEF Stored
  <2>5. SuccessesInvoked'
    BY <2>2, <2>3 DEF Stored, SuccessesInvoked
  <2> QED
    BY <2>4, <2>5
<1> QED
  BY <1>1, <1>2

\* So does every answer of the workload.
LEMMA OutcomeStored ==
  ASSUME Stored, SuccessesInvoked, NEW p \in Providers, Outcome(p)
  PROVE  Stored' /\ SuccessesInvoked'
<1>1. CASE \E latency \in p.latencies : Record(p, TRUE, latency)
  BY <1>1, RecordStored, MarketplaceAssumption
<1>2. CASE Record(p, FALSE, 0)
  BY <1>2, RecordStored
<1>3. CASE UNCHANGED store
  BY <1>3 DEF Stored, SuccessesInvoked
<1> QED
  BY <1>1, <1>2, <1>3 DEF Outcome

\* Only providers of the catalog are candidates.
LEMMA CandidatesProvide ==
  ASSUME NEW vendor, NEW range
  PROVE  Candidates(vendor, range) \subseteq Providers
  BY DEF Candidates

\* What a request leaves behind, given who was chosen.
LEMMA Served ==
  ASSUME NEW vendor, NEW range \in Ranges, NEW p, Serve(vendor, range, p),
         LET c == Candidates(vendor, range) IN IF c = {} THEN p = Nobody ELSE p \in c
  PROVE  CandidateServed'
<1>1. served'.vendor = vendor /\ served'.range = range /\ served'.provider = p
  BY DEF Serve
<1>2. LET c == Candidates(served'.vendor, served'.range)
      IN  IF c = {} THEN served'.provider = Nobody ELSE served'.provider \in c
  BY <1>1
<1>3. CandidateServed' <=>
        (served' # NothingServed' =>
          /\ served'.range \in Ranges
          /\ LET c == Candidates(served'.vendor, served'.range)
             IN  IF c = {} THEN served'.provider = Nobody ELSE served'.provider \in c)
  BY DEF CandidateServed
<1> QED
  BY <1>1, <1>2, <1>3

\* The three conjuncts hold in every reachable state.
LEMMA Invariance == Spec => []IInv
<1>1. Init => IInv
  <2> SUFFICES ASSUME Init PROVE IInv
    OBVIOUS
  <2>1. [inv |-> 0, succ |-> 0, total |-> 0] \in Counters
    BY MarketplaceAssumption DEF Counters
  <2>2. Stored /\ SuccessesInvoked
    BY <2>1 DEF Init, Stored, SuccessesInvoked
  <2>3. CandidateServed
    BY DEF Init, CandidateServed
  <2> QED
    BY <2>2, <2>3 DEF IInv
<1>2. IInv /\ [Next]_vars => IInv'
  <2> SUFFICES ASSUME IInv, [Next]_vars PROVE IInv'
    OBVIOUS
  <2> USE DEF IInv
  <2>1. ASSUME NEW vendor \in Pins, NEW range \in Ranges, NotFound(vendor, range) PROVE IInv'
    <3>1. Stored' /\ SuccessesInvoked'
      BY <2>1 DEF NotFound, Stored, SuccessesInvoked
    <3>2. CandidateServed'
      BY <2>1, Served DEF NotFound
    <3> QED
      BY <3>1, <3>2
  <2>2. ASSUME NEW vendor \in Pins, NEW range \in Ranges, Invoke(vendor, range) PROVE IInv'
    <3> DEFINE p == Top(Candidates(vendor, range))
    <3>1. Candidates(vendor, range) # {} /\ Serve(vendor, range, p) /\ Outcome(p)
      BY <2>2 DEF Invoke
    <3>2. p \in Candidates(vendor, range)
      BY <3>1, TopIsFirst, CandidatesProvide
    <3> HIDE DEF p
    <3>3. Stored' /\ SuccessesInvoked'
      BY <3>1, <3>2, CandidatesProvide, OutcomeStored
    <3>4. CandidateServed'
      BY <3>1, <3>2, Served
    <3> QED
      BY <3>3, <3>4
  <2>3. CASE InvokeFeature
    <3>1. Stored' /\ SuccessesInvoked'
      BY <2>3, OutcomeStored DEF InvokeFeature
    <3>2. CandidateServed'
      BY <2>3 DEF InvokeFeature, CandidateServed
    <3> QED
      BY <3>1, <3>2
  <2>4. CASE UNCHANGED vars
    BY <2>4 DEF vars, Stored, SuccessesInvoked, CandidateServed
  <2> QED
    BY <2>1, <2>2, <2>3, <2>4 DEF Next, InvokeCapability
<1> QED
  BY <1>1, <1>2, PTL DEF Spec
-----------------------------------------------------------------------------
(* The theorems *)

\* The counters stay in range, a request is answered by a provider or by
\* nobody, and no score divides by zero (ranking.py:49-69, 91-100).
THEOREM TypeCorrect == Spec => []TypeOK
<1>1. IInv => TypeOK
  <2> SUFFICES ASSUME IInv PROVE TypeOK
    OBVIOUS
  <2>1. served.provider \in Providers \cup {Nobody}
    BY CandidatesProvide DEF IInv, CandidateServed, NothingServed
  <2>2. \A p \in Providers : Score(p).den > 0
    BY ScoreType DEF IInv, Fractions
  <2> QED
    BY <2>1, <2>2 DEF TypeOK, IInv, Stored
<1> QED
  BY <1>1, Invariance, PTL

\* A success rate more than 10% higher, at no higher an average latency,
\* overtakes any trust tier (ranking.py:27, 92-100).
THEOREM PerformanceWins == Spec => []PerformanceBeatsTrust
<1>1. IInv => PerformanceBeatsTrust
  BY PerformanceRanks DEF IInv, PerformanceBeatsTrust
<1> QED
  BY <1>1, Invariance, PTL

\* Among providers that nothing observed tells apart, the learning policy
\* picks one that no other precedes in the key the catalog shows its preferred
\* provider by, however either list is ordered (ranking.py:91-105,
\* catalog.py:110-142).
THEOREM BaselineFollowed == Spec => []AlikeFollowsBaseline
<1>1. IInv => AlikeFollowsBaseline
  <2> SUFFICES ASSUME IInv, NEW ps \in (SUBSET Providers) \ {{}}, \A p, q \in ps : store[p] = store[q]
               PROVE  ~KeyBefore(Preferred(ps), Top(ps)) /\ ~KeyBefore(Top(ps), Preferred(ps))
    BY DEF AlikeFollowsBaseline
  <2> DEFINE s == Preferred(ps)
             t == Top(ps)
  <2>1. s \in ps /\ \A q \in ps \ {s} : SeededBefore(s, q)
    BY PreferredIsFirst
  <2>2. t \in ps /\ \A q \in ps \ {t} : Before(t, q)
    BY TopIsFirst DEF IInv
  <2>3. s \in Providers /\ t \in Providers /\ store[s] = store[t]
    BY <2>1, <2>2
  <2> HIDE DEF s, t
  <2>4. ~KeyBefore(s, s) /\ ~KeyBefore(t, t)
    BY <2>3, KeyAsymmetric
  <2>5. s # t => ~KeyBefore(t, s)
    BY <2>1, <2>2, <2>3, KeyAsymmetric DEF SeededBefore
  <2>6. s # t => ~KeyBefore(s, t)
    <3> SUFFICES ASSUME s # t, KeyBefore(s, t) PROVE FALSE
      OBVIOUS
    <3>1. BaselineBefore(s, t)
      BY DEF BaselineBefore
    <3>2. Before(s, t)
      BY <2>3, <3>1, AlikeRanks DEF IInv
    <3>3. Before(t, s)
      BY <2>1, <2>2
    <3> QED
      BY <2>3, <3>2, <3>3, BeforeTotal DEF IInv
  <2> QED
    BY <2>4, <2>5, <2>6 DEF s, t
<1> QED
  BY <1>1, Invariance, PTL

\* Requests write their ranges the way match_version's docstring does.
RangesDocumented ==
  \A range \in Ranges : /\ range.op \in Recognised /\ range.blank = FALSE
                        /\ range.parts \in Parts /\ range.parts # <<>> /\ range.dots = 0

\* For such ranges the candidates are the providers the documentation names.
LEMMA CandidatesEligible ==
  ASSUME RangesDocumented, NEW vendor, NEW range \in Ranges
  PROVE  Candidates(vendor, range) = Eligible(vendor, range)
<1>1. ASSUME NEW p \in Providers PROVE MatchVersion(p.version, range) <=> Satisfies(p.version, range)
  <2>1. p.version \in Parts
    BY MarketplaceAssumption DEF Parts
  <2> QED
    BY <2>1, RangesAsDocumented DEF RangesDocumented
<1> QED
  BY <1>1 DEF Candidates, Eligible

\* A request whose range is written as documented is answered by a provider
\* that meets both its pins, and is refused only when there is none
\* (main.py:90-96, 224-233; catalog.py:63-107).
THEOREM PinsKept ==
  ASSUME RangesDocumented
  PROVE  Spec => []PinsHonoured
<1>1. IInv => PinsHonoured
  BY CandidatesEligible DEF IInv, CandidateServed, PinsHonoured
<1> QED
  BY <1>1, Invariance, PTL

\* Versions are written with major, minor and patch level.
VersionsFull == \A p \in Providers : Len(p.version) >= 3

\* Then the sort key that comes first belongs to no older version.
LEMMA NewestFirst ==
  ASSUME VersionsFull, NEW p \in Providers, NEW q \in Providers,
         TupleLess(Triple(p.version), Triple(q.version))
  PROVE  TupleLess(VersionKey(q), VersionKey(p))
<1> DEFINE s == SemverKey(p.version)
           t == SemverKey(q.version)
<1>1. p.version \in Parts /\ q.version \in Parts
  BY MarketplaceAssumption DEF Parts
<1>2. s \in Seq(Nat) /\ t \in Seq(Nat) /\ Len(s) >= 3 /\ Len(t) >= 3
  BY <1>1 DEF SemverKey, VersionsFull, Parts, NonNumeric
<1>3. /\ VersionKey(p) = [i \in 1 .. Len(s) |-> -s[i]]
      /\ VersionKey(q) = [i \in 1 .. Len(t) |-> -t[i]]
      /\ Triple(p.version) = SubSeq(s \o <<0, 0, 0>>, 1, 3)
      /\ Triple(q.version) = SubSeq(t \o <<0, 0, 0>>, 1, 3)
  BY DEF VersionKey, Triple
<1>4. Triple(p.version) \in Triples /\ Triple(q.version) \in Triples
  BY <1>1, TripleType
<1> HIDE DEF s, t
<1>5. \A i \in 1 .. 3 : Triple(p.version)[i] = s[i] /\ Triple(q.version)[i] = t[i]
  <2> DEFINE z == <<0, 0, 0>>
  <2>1. z \in Seq(Nat) /\ Len(z) = 3
    OBVIOUS
  <2> HIDE DEF z
  <2>2. /\ Len(s \o z) = Len(s) + Len(z) /\ Len(t \o z) = Len(t) + Len(z)
        /\ s \o z \in Seq(Nat) /\ t \o z \in Seq(Nat)
        /\ \A i \in 1 .. Len(s) + Len(z) : (s \o z)[i] = IF i <= Len(s) THEN s[i] ELSE z[i - Len(s)]
        /\ \A i \in 1 .. Len(t) + Len(z) : (t \o z)[i] = IF i <= Len(t) THEN t[i] ELSE z[i - Len(t)]
    BY <1>2, <2>1, ConcatProperties, Zenon
  <2>3. \A i \in 1 .. 3 : (s \o z)[i] = s[i] /\ (t \o z)[i] = t[i]
    BY <1>2, <2>1, <2>2
  <2>4. Triple(p.version) = SubSeq(s \o z, 1, 3) /\ Triple(q.version) = SubSeq(t \o z, 1, 3)
    BY <1>3 DEF z
  <2>5. ASSUME NEW k \in Seq(Nat), Len(k) >= 3 PROVE \A i \in 1 .. 3 : SubSeq(k, 1, 3)[i] = k[i]
    BY <2>5
  <2>6. Len(s \o z) >= 3 /\ Len(t \o z) >= 3
    BY <1>2, <2>1, <2>2
  <2> QED
    BY <2>2, <2>3, <2>4, <2>5, <2>6
<1>6. PICK i \in 1 .. 3 : s[i] < t[i] /\ \A j \in 1 .. i - 1 : s[j] = t[j]
  <2>1. Less(Triple(p.version), Triple(q.version))
    BY <1>4, TripleOrder
  <2>2. CASE s[1] < t[1]
    BY <2>2
  <2>3. CASE s[1] = t[1] /\ s[2] < t[2]
    BY <2>3
  <2>4. CASE s[1] = t[1] /\ s[2] = t[2] /\ s[3] < t[3]
    BY <2>4
  <2> QED
    BY <1>5, <2>1, <2>2, <2>3, <2>4 DEF Less
<1>7. /\ Len(VersionKey(p)) = Len(s) /\ Len(VersionKey(q)) = Len(t)
      /\ VersionKey(q)[i] < VersionKey(p)[i]
      /\ \A j \in 1 .. i - 1 : VersionKey(q)[j] = VersionKey(p)[j]
  <2>1. VersionKey(p) = [j \in 1 .. Len(s) |-> -s[j]] /\ VersionKey(q) = [j \in 1 .. Len(t) |-> -t[j]]
    BY <1>3
  <2>2. ASSUME NEW k \in Seq(Nat), Len(k) >= 3, NEW n, n = [j \in 1 .. Len(k) |-> -k[j]]
        PROVE  Len(n) = Len(k) /\ \A j \in 1 .. 3 : n[j] = -k[j] /\ k[j] \in Nat
    <3>1. Len(k) \in Nat /\ DOMAIN n = 1 .. Len(k)
      BY <2>2
    <3>2. n \in Seq(Int)
      BY <2>2
    <3>3. Len(n) = Len(k)
      BY <3>1, <3>2
    <3>4. \A j \in 1 .. 3 : n[j] = -k[j] /\ k[j] \in Nat
      BY <2>2, <3>1
    <3> QED
      BY <3>3, <3>4
  <2>3. /\ Len(VersionKey(p)) = Len(s) /\ \A j \in 1 .. 3 : VersionKey(p)[j] = -s[j] /\ s[j] \in Nat
        /\ Len(VersionKey(q)) = Len(t) /\ \A j \in 1 .. 3 : VersionKey(q)[j] = -t[j] /\ t[j] \in Nat
    BY <1>2, <2>1, <2>2
  <2>4. VersionKey(q)[i] < VersionKey(p)[i]
    <3>1. VersionKey(p)[i] = -s[i] /\ VersionKey(q)[i] = -t[i] /\ s[i] \in Nat /\ t[i] \in Nat /\ s[i] < t[i]
      BY <1>6, <2>3
    <3> QED
      BY <3>1
  <2>5. ASSUME NEW j \in 1 .. i - 1 PROVE VersionKey(q)[j] = VersionKey(p)[j]
    <3>1. j \in 1 .. 3 /\ s[j] = t[j]
      BY <1>6
    <3> QED
      BY <2>3, <3>1
  <2> QED
    BY <2>3, <2>4, <2>5
<1>8. i \in 1 .. Len(VersionKey(p)) /\ i <= Len(VersionKey(q)) + 1
  BY <1>2, <1>7
<1> QED
  BY <1>7, <1>8 DEF TupleLess

\* The provider that serves is a best one: no eligible provider had a higher
\* score, nor, at the same score and trust, a newer version (main.py:225;
\* ranking.py:102-105; catalog.py:110-124).  Without full versions this
\* fails, see ShortVersionFirst.
THEOREM BestIsServed ==
  ASSUME RangesDocumented, VersionsFull
  PROVE  Spec => BestServed
<1>1. ASSUME IInv, [Next]_vars, served'.provider # Nobody, served' # served,
             NEW q \in Eligible(served'.vendor, served'.range)
      PROVE  LET p == served'.provider IN
               \/ Higher(Score(p), Score(q))
               \/ /\ ~Higher(Score(q), Score(p))
                  /\ p.trust = q.trust => ~TupleLess(Triple(p.version), Triple(q.version))
  <2>1. PICK vendor \in Pins, range \in Ranges : Invoke(vendor, range)
    BY <1>1 DEF Next, InvokeCapability, InvokeFeature, NotFound, Serve, vars
  <2> DEFINE p == Top(Candidates(vendor, range))
  <2>2. /\ Candidates(vendor, range) # {}
        /\ served'.vendor = vendor /\ served'.range = range /\ served'.provider = p
    BY <2>1 DEF Invoke, Serve
  <2>3. q \in Candidates(vendor, range)
    BY <1>1, <2>2, CandidatesEligible
  <2>4. /\ p \in Candidates(vendor, range) /\ (q # p => Before(p, q))
        /\ p \in Providers /\ q \in Providers
    BY <1>1, <2>2, <2>3, TopIsFirst, CandidatesProvide DEF IInv
  <2> HIDE DEF p
  <2>5. Score(p) \in Fractions /\ Score(q) \in Fractions
    BY <1>1, <2>4, ScoreType DEF IInv
  <2>6. VersionKey(p) \in Seq(Int) /\ VersionKey(q) \in Seq(Int)
    BY <2>4, Keys
  <2>7. CASE q = p
    <3>1. ~Higher(Score(q), Score(p))
      BY <2>5, <2>7, HigherAsymmetric
    <3>2. ~TupleLess(Triple(p.version), Triple(q.version))
      BY <2>4, <2>6, <2>7, NewestFirst, TupleIrreflexive
    <3> QED
      BY <2>2, <3>1, <3>2
  <2>8. CASE q # p
    <3>1. CASE Higher(Score(p), Score(q))
      BY <2>2, <3>1
    <3>2. CASE ~Higher(Score(q), Score(p)) /\ BaselineBefore(p, q)
      <4>1. ~KeyBefore(q, p)
        BY <2>4, <3>2, KeyAsymmetric DEF BaselineBefore
      <4>2. p.trust = q.trust => ~TupleLess(VersionKey(q), VersionKey(p))
        BY <4>1 DEF KeyBefore
      <4>3. p.trust = q.trust => ~TupleLess(Triple(p.version), Triple(q.version))
        BY <2>4, <4>2, NewestFirst
      <4> QED
        BY <2>2, <3>2, <4>3
    <3> QED
      BY <2>4, <2>8, <3>1, <3>2 DEF Before
  <2> QED
    BY <2>7, <2>8
<1>2. IInv /\ [Next]_vars =>
        [served'.provider # Nobody /\ served' # served =>
           \A q \in Eligible(served'.vendor, served'.range) :
             LET p == served'.provider IN
               \/ Higher(Score(p), Score(q))
               \/ /\ ~Higher(Score(q), Score(p))
                  /\ p.trust = q.trust => ~TupleLess(Triple(p.version), Triple(q.version))]_vars
  BY <1>1, Zenon
<1> QED
  BY <1>2, Invariance, PTL DEF Spec, BestServed

\* The hypothesis is needed: a release without a patch level is sorted before
\* the newer one that patches it (catalog.py:121).
THEOREM ShortVersionFirst ==
  ASSUME NEW p, NEW q, p.version \in Parts, q.version \in Parts, Len(p.version) = 2, Len(q.version) = 3,
         \A i \in 1 .. 2 : p.version[i] = q.version[i], q.version[3] \in Nat \ {0}
  PROVE  TupleLess(Triple(p.version), Triple(q.version)) /\ TupleLess(VersionKey(p), VersionKey(q))
<1> DEFINE s == SemverKey(p.version)
           t == SemverKey(q.version)
           z == <<0, 0, 0>>
<1>1. /\ s \in Seq(Nat) /\ t \in Seq(Nat) /\ Len(s) = 2 /\ Len(t) = 3
      /\ s[1] = t[1] /\ s[2] = t[2] /\ t[3] > 0
  BY DEF SemverKey, Parts, NonNumeric
<1>2. VersionKey(p) = [i \in 1 .. Len(s) |-> -s[i]] /\ VersionKey(q) = [i \in 1 .. Len(t) |-> -t[i]]
  BY DEF VersionKey
<1>3. Triple(p.version) = SubSeq(s \o z, 1, 3) /\ Triple(q.version) = SubSeq(t \o z, 1, 3)
  BY DEF Triple
<1>4. z \in Seq(Nat) /\ Len(z) = 3 /\ z[1] = 0
  OBVIOUS
<1>5. Triple(p.version) \in Triples /\ Triple(q.version) \in Triples
  BY TripleType
<1> HIDE DEF s, t, z
<1>6. TupleLess(VersionKey(p), VersionKey(q))
  <2> DEFINE a == VersionKey(p)
             b == VersionKey(q)
  <2>1. Len(a) = 2 /\ Len(b) = 3 /\ a[1] = b[1] /\ a[2] = b[2]
    BY <1>1, <1>2
  <2> HIDE DEF a, b
  <2>2. TupleLess(a, b)
    BY <2>1 DEF TupleLess
  <2> QED
    BY <2>2 DEF a, b
<1> DEFINE u == s \o z
           w == t \o z
<1>7. /\ u \in Seq(Nat) /\ Len(u) = 5 /\ u[1] = s[1] /\ u[2] = s[2] /\ u[3] = 0
      /\ w \in Seq(Nat) /\ Len(w) = 6 /\ w[1] = t[1] /\ w[2] = t[2] /\ w[3] = t[3]
  <2>1. s \in Seq(Nat) /\ t \in Seq(Nat) /\ z \in Seq(Nat)
    BY <1>1, <1>4
  <2>2. /\ u \in Seq(Nat) /\ Len(u) = Len(s) + Len(z) /\ w \in Seq(Nat) /\ Len(w) = Len(t) + Len(z)
        /\ \A i \in 1 .. Len(s) + Len(z) : u[i] = IF i <= Len(s) THEN s[i] ELSE z[i - Len(s)]
        /\ \A i \in 1 .. Len(t) + Len(z) : w[i] = IF i <= Len(t) THEN t[i] ELSE z[i - Len(t)]
    BY <2>1, ConcatProperties, Zenon
  <2> QED
    BY <1>1, <1>4, <2>2
<1>8. ASSUME NEW k \in Seq(Nat), Len(k) >= 3
      PROVE  SubSeq(k, 1, 3)[1] = k[1] /\ SubSeq(k, 1, 3)[2] = k[2] /\ SubSeq(k, 1, 3)[3] = k[3]
  BY <1>8
<1> HIDE DEF u, w
<1>9. Less(Triple(p.version), Triple(q.version))
  <2> DEFINE a == Triple(p.version)
             b == Triple(q.version)
  <2>1. a = SubSeq(u, 1, 3) /\ b = SubSeq(w, 1, 3)
    BY <1>3 DEF u, w
  <2> HIDE DEF a, b
  <2>2. a[1] = u[1] /\ a[2] = u[2] /\ a[3] = u[3] /\ b[1] = w[1] /\ b[2] = w[2] /\ b[3] = w[3]
    BY <1>7, <1>8, <2>1
  <2>3. Less(a, b)
    BY <1>1, <1>7, <2>2 DEF Less
  <2> QED
    BY <2>3 DEF a, b
<1> QED
  BY <1>5, <1>6, <1>9, TripleOrder
=============================================================================
