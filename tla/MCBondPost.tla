----------------------------- MODULE MCBondPost -----------------------------
(* Instances of BondPost for TLC. *)
EXTENDS BondPost

CONSTANT t1

Bond(t, amount, skip, custom) ==
  [task |-> t, amount |-> amount, skip |-> skip, custom |-> custom]

(* The price may change. *)
PriceRange == [t \in {t1} |-> {1, 2}]

(* The quoted amount, with and without the allowance check, and an amount  *)
(* that may be below the price, through an --rpc-url.                      *)
Mixed == {Bond(t1, 0, FALSE, FALSE), Bond(t1, 0, TRUE, FALSE), Bond(t1, 1, FALSE, TRUE)}
=============================================================================
