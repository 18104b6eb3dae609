---------------------------- MODULE MCAgentSetup ----------------------------
(* Instances of AgentSetup for TLC. *)
EXTENDS AgentSetup, TLC

Set == [cmd |-> "set"]
InitWith(wallet, explicit, given) ==
  [cmd |-> "init", wallet |-> wallet, explicit |-> explicit, given |-> given]

(* Every command line without --keystore-path, ...                         *)
DefaultPaths ==
  {Set} \cup {InitWith(w, FALSE, given) : w \in {"auto", "skip", "byow", "generate"},
                                         given \in BOOLEAN}
(* ... and a wallet generated into a given file.                           *)
OwnPath == {InitWith("generate", TRUE, FALSE)}

(* The slots are interchangeable. *)
SlotSymmetry == Permutations(Slot)
=============================================================================
