---------------------------- MODULE MCEscrowSign ----------------------------
(***************************************************************************)
(* Instances of EscrowSign.                                                *)
(***************************************************************************)
EXTENDS EscrowSign, TLC

CONSTANTS r1, r2, b1, b2

Prices == [b \in {b1, b2} |-> IF b = b1 THEN 1 ELSE 2]

Sign(b, own) == [bid |-> b, skip |-> FALSE, skew |-> 0, custom |-> own]
Late(b, own) == [bid |-> b, skip |-> own, skew |-> -1, custom |-> own]

(* Two bids of one wallet, one through an --rpc-url. *)
TwoBids == (r1 :> Sign(b1, FALSE)) @@ (r2 :> Sign(b2, TRUE))
(* One bid from two slots on a host whose clock is slow, one of them        *)
(* without preflight and through an --rpc-url.                              *)
OneBid == (r1 :> Late(b1, FALSE)) @@ (r2 :> Late(b1, TRUE))

Shared == {TwoBids, OneBid}
=============================================================================
