--------------------------- MODULE VersionsProofs ---------------------------
(***************************************************************************)
(* match_version means what its docstring says, for every version and      *)
(* every range written with an operator the code recognises.               *)
(***************************************************************************)
EXTENDS Versions, SequenceTheorems, WellFoundedInduction, TLAPS

Parts == Seq(Nat \cup {NonNumeric})
Triples == {s \in Seq(Nat) : Len(s) = 3}

\* A version normalises to three natural numbers, however many parts it has.
LEMMA TripleType ==
  ASSUME NEW p \in Parts
  PROVE  Triple(p) \in Triples
  <1>1. SemverKey(p) \in Seq(Nat)
    BY DEF Parts, SemverKey, NonNumeric
  <1>2. SemverKey(p) \o <<0, 0, 0>> \in Seq(Nat) /\ Len(SemverKey(p) \o <<0, 0, 0>>) >= 3
    BY <1>1
  <1> QED BY <1>2 DEF Triple, Triples

\* A triple has three parts, each a natural number.
LEMMA TripleParts ==
  ASSUME NEW a \in Triples
  PROVE  a \in Seq(Nat) /\ Len(a) = 3 /\ a[1] \in Nat /\ a[2] \in Nat /\ a[3] \in Nat
  <1>1. a \in Seq(Nat) /\ Len(a) = 3
    BY DEF Triples
  <1> QED BY <1>1

\* On triples Python's tuple order is the three-way comparison.
LEMMA TripleOrder ==
  ASSUME NEW a \in Triples, NEW b \in Triples
  PROVE  /\ TupleLess(a, b) <=> Less(a, b)
         /\ \A i \in 1 .. 3 : a[i] \in Nat /\ b[i] \in Nat
         /\ a = b <=> (a[1] = b[1] /\ a[2] = b[2] /\ a[3] = b[3])
  <1>1. \A i \in 1 .. 3 : a[i] \in Nat /\ b[i] \in Nat
    BY TripleParts
  <1>2. Len(a) = 3 /\ Len(b) = 3 /\ a \in Seq(Nat) /\ b \in Seq(Nat)
    BY TripleParts
  <1>3. TupleLess(a, b) => Less(a, b)
    BY <1>1, <1>2 DEF TupleLess, Less
  <1>4. Less(a, b) => TupleLess(a, b)
    <2>1. CASE a[1] < b[1]
      BY <1>1, <1>2, <2>1 DEF TupleLess
    <2>2. CASE a[1] = b[1] /\ a[2] < b[2]
      BY <1>1, <1>2, <2>2 DEF TupleLess
    <2>3. CASE a[1] = b[1] /\ a[2] = b[2] /\ a[3] < b[3]
      BY <1>1, <1>2, <2>3 DEF TupleLess
    <2> QED BY <2>1, <2>2, <2>3 DEF Less
  <1>5. a = b <=> (a[1] = b[1] /\ a[2] = b[2] /\ a[3] = b[3])
    <2>1. ASSUME a[1] = b[1], a[2] = b[2], a[3] = b[3]
          PROVE  Len(a) = Len(b) /\ \A i \in 1 .. Len(a) : a[i] = b[i]
      BY <1>2, <2>1
    <2> QED BY <1>2, <2>1, SeqEqual
  <1> QED BY <1>1, <1>3, <1>4, <1>5

\* "^base": between base and CaretUpper lie exactly the later versions with
\* the same left-most non-zero number (catalog.py:67, 78-86).
LEMMA CaretIsCompatible ==
  ASSUME NEW v \in Triples, NEW b \in Triples
  PROVE  AtMost(b, v) /\ Less(v, CaretUpper(b)) <=> Compatible(v, b) /\ ~TupleLess(v, b)
  <1>1. /\ v[1] \in Nat /\ v[2] \in Nat /\ v[3] \in Nat
        /\ b[1] \in Nat /\ b[2] \in Nat /\ b[3] \in Nat
    BY TripleParts
  <1>2. TupleLess(v, b) <=> Less(v, b)
    BY TripleOrder
  <1>3. CASE b[1] > 0
    BY <1>1, <1>2, <1>3 DEF AtMost, Less, CaretUpper, Compatible
  <1>4. CASE b[1] = 0 /\ b[2] > 0
    BY <1>1, <1>2, <1>4 DEF AtMost, Less, CaretUpper, Compatible
  <1>5. CASE b[1] = 0 /\ b[2] = 0
    BY <1>1, <1>2, <1>5 DEF AtMost, Less, CaretUpper, Compatible
  <1> QED BY <1>1, <1>3, <1>4, <1>5

\* "~base": likewise for the patch level, or the minor level when only the
\* major number is written (catalog.py:68, 88-92).
LEMMA TildeIsPatchLevel ==
  ASSUME NEW v \in Triples, NEW b \in Triples, NEW n \in Nat \ {0}, n = 1 => b[2] = 0 /\ b[3] = 0
  PROVE  AtMost(b, v) /\ Less(v, TildeUpper(b, n)) <=> PatchLevel(v, b, n) /\ ~TupleLess(v, b)
  <1>1. /\ v[1] \in Nat /\ v[2] \in Nat /\ v[3] \in Nat
        /\ b[1] \in Nat /\ b[2] \in Nat /\ b[3] \in Nat
    BY TripleParts
  <1>2. TupleLess(v, b) <=> Less(v, b)
    BY TripleOrder
  <1>3. CASE n = 1
    BY <1>1, <1>2, <1>3 DEF AtMost, Less, TildeUpper, PatchLevel
  <1>4. CASE n >= 2
    BY <1>1, <1>2, <1>4 DEF AtMost, Less, TildeUpper, PatchLevel
  <1> QED BY <1>3, <1>4

\* A version of one part is padded with zeros.
LEMMA OnePart ==
  ASSUME NEW p \in Parts, Len(p) = 1
  PROVE  Triple(p)[2] = 0 /\ Triple(p)[3] = 0
  <1>1. SemverKey(p) \in Seq(Nat) /\ Len(SemverKey(p)) = 1
    BY DEF Parts, SemverKey, NonNumeric
  <1> SUFFICES ASSUME NEW s \in Seq(Nat), Len(s) = 1
               PROVE  SubSeq(s \o <<0, 0, 0>>, 1, 3)[2] = 0 /\ SubSeq(s \o <<0, 0, 0>>, 1, 3)[3] = 0
    BY <1>1 DEF Triple
  <1>2. PICK z : z = <<0, 0, 0>>
    OBVIOUS
  <1>3. z \in Seq(Nat) /\ Len(z) = 3 /\ z[1] = 0 /\ z[2] = 0
    BY <1>2
  <1>4. PICK k : k = s \o z
    OBVIOUS
  <1>5. /\ k \in Seq(Nat) /\ Len(k) = Len(s) + Len(z)
        /\ \A i \in 1 .. Len(s) + Len(z) : k[i] = IF i <= Len(s) THEN s[i] ELSE z[i - Len(s)]
    BY <1>3, <1>4, ConcatProperties, Zenon
  <1>6. Len(k) = 4 /\ k[2] = 0 /\ k[3] = 0
    BY <1>3, <1>5
  <1>7. SubSeq(k, 1, 3)[2] = 0 /\ SubSeq(k, 1, 3)[3] = 0
    BY <1>5, <1>6
  <1> QED BY <1>2, <1>4, <1>7

\* A range written with a recognised operator, no blank after it and no dot in
\* a suffix, matches exactly the versions its documentation says
\* (catalog.py:63-107).  "~1-rc.1" means patch-level, not minor.
THEOREM RangesAsDocumented ==
  ASSUME NEW version \in Parts, NEW range,
         range.op \in Recognised, range.blank = FALSE,
         range.parts \in Parts, range.parts # <<>>, range.dots = 0
  PROVE  MatchVersion(version, range) <=> Satisfies(version, range)
  <1> DEFINE v == Triple(version)
             b == Triple(range.parts)
             n == Len(range.parts)
  <1>1. v \in Triples /\ b \in Triples
    BY TripleType
  <1>2. Operand(range) = range.parts
    BY DEF Operand
  <1>3. n \in Nat \ {0} /\ (n = 1 => b[2] = 0 /\ b[3] = 0)
    BY OnePart DEF Parts
  <1>4. /\ TupleLess(v, b) <=> Less(v, b)
        /\ TupleLess(b, v) <=> Less(b, v)
    BY <1>1, TripleOrder
  <1>5. CASE range.op = "^"
    <2>1. MatchVersion(version, range) <=> AtMost(b, v) /\ Less(v, CaretUpper(b))
      BY <1>2, <1>5 DEF MatchVersion
    <2>2. Satisfies(version, range) <=> Compatible(v, b) /\ ~TupleLess(v, b)
      BY <1>5 DEF Satisfies
    <2> QED BY <2>1, <2>2, <1>1, CaretIsCompatible
  <1>6. CASE range.op = "~"
    <2>1. MatchVersion(version, range) <=> AtMost(b, v) /\ Less(v, TildeUpper(b, n))
      BY <1>2, <1>3, <1>6 DEF MatchVersion
    <2>2. Satisfies(version, range) <=> PatchLevel(v, b, n) /\ ~TupleLess(v, b)
      BY <1>6 DEF Satisfies
    <2> QED BY <2>1, <2>2, <1>1, <1>3, TildeIsPatchLevel
  <1>7. CASE range.op \in {"any", "", ">=", "<=", ">", "<", "=="}
    BY <1>2, <1>4, <1>7 DEF MatchVersion, Satisfies, AtMost
  <1> QED BY <1>5, <1>6, <1>7 DEF Recognised

-----------------------------------------------------------------------------
(* Python's order on tuples is a strict total order *)

\* Every set of natural numbers has a least element.
LEMMA LeastElement ==
  ASSUME NEW S, S \subseteq Nat, S # {}
  PROVE  \E n \in S : \A k \in S : n <= k
<1> DEFINE R == {e \in Nat \X Nat : e[1] < e[2]}
<1>1. IsWellFoundedOn(R, Nat)
  BY NatLessThanWellFounded DEF OpToRel
<1>2. PICK n \in S : \A k \in S : ~(<<k, n>> \in R)
  BY <1>1, WFMin
<1>3. ASSUME NEW k \in S PROVE n <= k
  <2>1. k \in Nat /\ n \in Nat /\ <<k, n>> \notin R
    BY <1>2
  <2> QED
    BY <2>1
<1> QED
  BY <1>3

\* No tuple is less than itself ...
LEMMA TupleIrreflexive ==
  ASSUME NEW a \in Seq(Int)
  PROVE  ~TupleLess(a, a)
<1>1. Len(a) \in Nat /\ \A i \in 1 .. Len(a) : a[i] \in Int
  OBVIOUS
<1> QED
  BY <1>1 DEF TupleLess

\* ... and what is less than something less is less.
LEMMA TupleTransitive ==
  ASSUME NEW a \in Seq(Int), NEW b \in Seq(Int), NEW c \in Seq(Int), TupleLess(a, b), TupleLess(b, c)
  PROVE  TupleLess(a, c)
<1>1. /\ Len(a) \in Nat /\ Len(b) \in Nat /\ Len(c) \in Nat
      /\ \A i \in 1 .. Len(a) : a[i] \in Int
      /\ \A i \in 1 .. Len(b) : b[i] \in Int
      /\ \A i \in 1 .. Len(c) : c[i] \in Int
  OBVIOUS
<1>2. PICK i \in 1 .. Len(b) : i <= Len(a) + 1 /\ (\A k \in 1 .. i - 1 : a[k] = b[k]) /\ (i > Len(a) \/ a[i] < b[i])
  BY DEF TupleLess
<1>3. PICK j \in 1 .. Len(c) : j <= Len(b) + 1 /\ (\A k \in 1 .. j - 1 : b[k] = c[k]) /\ (j > Len(b) \/ b[j] < c[j])
  BY DEF TupleLess
<1>4. CASE i < j
  <2>1. i \in 1 .. Len(c) /\ b[i] = c[i] /\ \A k \in 1 .. i - 1 : a[k] = c[k]
    BY <1>1, <1>2, <1>3, <1>4
  <2> QED
    BY <1>1, <1>2, <2>1 DEF TupleLess
<1>5. CASE j <= i
  <2>1. j <= Len(a) + 1 /\ j <= Len(b) /\ b[j] < c[j] /\ \A k \in 1 .. j - 1 : a[k] = c[k]
    BY <1>1, <1>2, <1>3, <1>5
  <2>2. j > Len(a) \/ a[j] < c[j]
    <3>1. CASE j < i
      BY <1>1, <1>2, <2>1, <3>1
    <3>2. CASE j = i
      BY <1>1, <1>2, <2>1, <3>2
    <3> QED
      BY <1>5, <3>1, <3>2
  <2> QED
    BY <1>3, <2>1, <2>2 DEF TupleLess
<1> QED
  BY <1>4, <1>5

\* Of two different tuples one is less: the first place where they differ
\* decides.
LEMMA TupleTotal ==
  ASSUME NEW a \in Seq(Int), NEW b \in Seq(Int), a # b
  PROVE  TupleLess(a, b) \/ TupleLess(b, a)
<1> DEFINE Differ(i) == \/ (i <= Len(a)) # (i <= Len(b))
                        \/ i <= Len(a) /\ i <= Len(b) /\ a[i] # b[i]
           D == {i \in Nat : i >= 1 /\ Differ(i)}
<1>1. /\ Len(a) \in Nat /\ Len(b) \in Nat
      /\ \A i \in 1 .. Len(a) : a[i] \in Int
      /\ \A i \in 1 .. Len(b) : b[i] \in Int
  OBVIOUS
<1>2. D # {}
  <2> SUFFICES ASSUME D = {} PROVE a = b
    OBVIOUS
  <2>1. \A i \in Nat : i >= 1 => ~Differ(i)
    OBVIOUS
  <2>2. Len(a) = Len(b)
    <3>1. CASE Len(a) < Len(b)
      <4>1. Len(b) >= 1 /\ Differ(Len(b))
        BY <1>1, <3>1
      <4> QED
        BY <1>1, <2>1, <4>1
    <3>2. CASE Len(b) < Len(a)
      <4>1. Len(a) >= 1 /\ Differ(Len(a))
        BY <1>1, <3>2
      <4> QED
        BY <1>1, <2>1, <4>1
    <3> QED
      BY <1>1, <3>1, <3>2
  <2>3. \A i \in 1 .. Len(a) : a[i] = b[i]
    BY <1>1, <2>1, <2>2
  <2> QED
    BY <2>2, <2>3, SeqEqual
<1>3. PICK i \in D : \A k \in D : i <= k
  <2>1. D \subseteq Nat
    OBVIOUS
  <2> HIDE DEF D
  <2> QED
    BY <1>2, <2>1, LeastElement
<1>4. i \in Nat /\ i >= 1 /\ Differ(i)
  OBVIOUS
<1>5. ASSUME NEW k \in 1 .. i - 1 PROVE ~Differ(k)
  <2>1. k \in Nat /\ k >= 1 /\ ~(i <= k)
    BY <1>4
  <2> QED
    BY <1>3, <2>1
<1>6. ASSUME NEW k \in 1 .. i - 1 PROVE k <= Len(a) /\ k <= Len(b) /\ a[k] = b[k]
  <2>1. i - 1 \in Nat /\ (i - 1 >= 1 => ~Differ(i - 1))
    BY <1>4, <1>5
  <2>2. i - 1 <= Len(a) /\ i - 1 <= Len(b)
    BY <1>1, <1>4, <2>1
  <2> QED
    BY <1>1, <1>4, <1>5, <2>2
<1>7. i <= Len(a) + 1 /\ i <= Len(b) + 1
  <2>1. CASE i = 1
    BY <1>1, <2>1
  <2>2. CASE i > 1
    BY <1>1, <1>4, <1>6, <2>2
  <2> QED
    BY <1>4, <2>1, <2>2
<1>8. CASE i <= Len(a) /\ i <= Len(b)
  <2>1. a[i] < b[i] \/ b[i] < a[i]
    BY <1>1, <1>4, <1>8
  <2> QED
    BY <1>1, <1>4, <1>6, <1>7, <1>8, <2>1 DEF TupleLess
<1>9. CASE i <= Len(b) /\ ~(i <= Len(a))
  <2>1. i \in 1 .. Len(b) /\ i > Len(a) /\ \A k \in 1 .. i - 1 : a[k] = b[k]
    BY <1>1, <1>4, <1>6, <1>9
  <2> QED
    BY <1>7, <2>1 DEF TupleLess
<1>10. CASE i <= Len(a) /\ ~(i <= Len(b))
  <2>1. i \in 1 .. Len(a) /\ i > Len(b) /\ \A k \in 1 .. i - 1 : b[k] = a[k]
    BY <1>1, <1>4, <1>6, <1>10
  <2> QED
    BY <1>7, <2>1 DEF TupleLess
<1> QED
  BY <1>4, <1>8, <1>9, <1>10
=============================================================================
