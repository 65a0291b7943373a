------------------------------ MODULE Versions ------------------------------
(***************************************************************************)
(* gateway/catalog.py's version arithmetic: _semver_key, _triple,          *)
(* match_version and the version part of rank_features' sort key.          *)
(*                                                                         *)
(* A version string is the sequence of its dot-separated parts, each a     *)
(* number or NonNumeric (a part for which str.isdigit() is false); a       *)
(* "-suffix" has been cut off.  A version range is the operator it is      *)
(* written with, whether a blank follows the operator, the parts after it, *)
(* and how many dots its "-suffix" has: "~" counts them before the cut.    *)
(***************************************************************************)
EXTENDS Integers, Sequences

NonNumeric == -1

\* _semver_key: a part that is not a number counts as 0.
SemverKey(parts) == [i \in 1 .. Len(parts) |-> IF parts[i] = NonNumeric THEN 0 ELSE parts[i]]

\* _triple: padded with zeros, cut after the patch level.
Triple(parts) == SubSeq(SemverKey(parts) \o <<0, 0, 0>>, 1, 3)

\* Python's order on tuples of numbers; a proper prefix is the smaller one.
TupleLess(a, b) ==
  \E i \in 1 .. Len(b) :
    /\ i <= Len(a) + 1
    /\ \A j \in 1 .. i - 1 : a[j] = b[j]
    /\ i > Len(a) \/ a[i] < b[i]

\* The order on triples.
Less(a, b) ==
  \/ a[1] < b[1]
  \/ a[1] = b[1] /\ a[2] < b[2]
  \/ a[1] = b[1] /\ a[2] = b[2] /\ a[3] < b[3]

AtMost(a, b) == ~Less(b, a)

\* Defect: the upper end of a caret range ignores leading zeros.
CaretUpperMajor(base) == <<base[1] + 1, 0, 0>>

\* Where "^base" ends: after the last version with the same left-most
\* non-zero number.
CaretUpper(base) ==
  IF base[1] > 0 THEN <<base[1] + 1, 0, 0>>
  ELSE IF base[2] > 0 THEN <<0, base[2] + 1, 0>>
  ELSE <<0, 0, base[3] + 1>>

\* Where "~base" ends: it depends on how many parts were written, those of a
\* suffix included.
TildeUpper(base, written) ==
  IF written >= 2 THEN <<base[1], base[2] + 1, 0>> ELSE <<base[1] + 1, 0, 0>>

\* The operators match_version knows; "any" stands for "", "*", "latest", "x".
Recognised == {"any", "", "^", "~", ">=", "<=", ">", "<", "=="}

\* What is left for _triple once the operator is stripped: an operator that
\* is not recognised, or a blank, sticks to the first part.
Operand(range) ==
  IF range.op \in Recognised /\ ~range.blank THEN range.parts
  ELSE [range.parts EXCEPT ![1] = NonNumeric]

\* match_version.
MatchVersion(version, range) ==
  LET v == Triple(version)
      base == Triple(Operand(range))
      op == range.op
  IN  \/ op = "any"
      \/ op = "^"  /\ AtMost(base, v) /\ Less(v, CaretUpper(base))
      \/ op = "~"  /\ AtMost(base, v) /\ Less(v, TildeUpper(base, Len(range.parts) + range.dots))
      \/ op = ">=" /\ AtMost(base, v)
      \/ op = "<=" /\ AtMost(v, base)
      \/ op = ">"  /\ Less(base, v)
      \/ op = "<"  /\ Less(v, base)
      \/ op \in {"==", "=", ""} /\ v = base

-----------------------------------------------------------------------------
(* What the docstring of match_version says the ranges mean, by components. *)

\* "same left-most non-zero": everything up to it agrees.
Compatible(v, b) ==
  /\ v[1] = b[1]
  /\ b[1] = 0 => v[2] = b[2]
  /\ b[1] = 0 /\ b[2] = 0 => v[3] = b[3]

\* "patch-level (or minor if only ~1)".
PatchLevel(v, b, written) == v[1] = b[1] /\ (written >= 2 => v[2] = b[2])

Satisfies(version, range) ==
  LET v == Triple(version)
      b == Triple(range.parts)
  IN  CASE range.op = "any" -> TRUE
        [] range.op = "^" -> Compatible(v, b) /\ ~TupleLess(v, b)
        [] range.op = "~" -> PatchLevel(v, b, Len(range.parts)) /\ ~TupleLess(v, b)
        [] range.op = ">=" -> ~TupleLess(v, b)
        [] range.op = "<=" -> ~TupleLess(b, v)
        [] range.op = ">" -> TupleLess(b, v)
        [] range.op = "<" -> TupleLess(v, b)
        [] range.op \in {"=", "==", ""} -> v = b
=============================================================================
