-------------------------- MODULE MCWalletSigning --------------------------
(***************************************************************************)
(* Instances of WalletSigning.  Two directories; the file of wallet w1 is  *)
(* reached as "a" and "b" (both in d1), the file of w2 as "z", in d1 too;  *)
(* "c" in d2 is a link to the file of w1.                                  *)
(***************************************************************************)
EXTENDS WalletSigning, TLC

CONSTANTS p1, p2, e1

MCPath == {"a", "b", "c", "z"}
MCKeystore == {"f1", "f2"}
MCDir == {"d1", "d2"}
MCWallet == {"w1", "w2"}
MCDirOf == [s \in MCPath |-> IF s = "c" THEN "d2" ELSE "d1"]
MCFileOf == [s \in MCPath |-> IF s = "z" THEN "f2" ELSE "f1"]
MCWalletOf == [f \in MCKeystore |-> IF f = "f1" THEN "w1" ELSE "w2"]

(* Two posts and an escrow, all with the key of w1. *)
MixedCmd == p1 :> "post" @@ p2 :> "post" @@ e1 :> "escrow"
MixedPath == p1 :> "a" @@ p2 :> "b" @@ e1 :> "a"

(* Two posts share a keystore, an escrow has the key of another wallet to   *)
(* itself.                                                                  *)
LockedCmd == p1 :> "post" @@ p2 :> "post" @@ e1 :> "escrow"
LockedPath == p1 :> "a" @@ p2 :> "b" @@ e1 :> "z"
=============================================================================
