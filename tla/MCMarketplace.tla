--------------------------- MODULE MCMarketplace ---------------------------
(***************************************************************************)
(* Small instances of Marketplace.  Vendors and names are numbers in       *)
(* alphabetical order.                                                     *)
(***************************************************************************)
EXTENDS Marketplace

Provider(name, place, vendor, trust, version, latencies) ==
  [name |-> name, place |-> place, vendor |-> vendor, trust |-> trust, version |-> version, latencies |-> latencies]

\* A trusted pre-1.0 provider and three community releases of another vendor,
\* two of them of the same version and seeded against the order of names.
MCProviders ==
  {Provider(1, 4, 2, "Official", <<0, 3, 0>>, {3}), Provider(2, 3, 1, "Community", <<1, 2, 0>>, {0}),
   Provider(3, 2, 1, "Community", <<1, 3, 0>>, {0}), Provider(4, 1, 1, "Community", <<1, 3, 0>>, {0})}
TwoProviders == {p \in MCProviders : p.name <= 2}

Range(op, parts) == [op |-> op, blank |-> FALSE, parts |-> parts, dots |-> 0]

MCRanges == {Range("any", <<0>>), Range("^", <<0, 2, 0>>),
             Range("~", <<1, 2>>), Range("", <<1, 3, 0>>)}
AnyVersion == {Range("any", <<0>>)}
EqualsRange == {Range("=", <<1, 2, 0>>)}
=============================================================================
