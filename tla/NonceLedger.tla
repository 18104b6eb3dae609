----------------------------- MODULE NonceLedger -----------------------------
(***************************************************************************)
(* What the wallet lock promises, without lock, nonce or network: each     *)
(* address has a ledger that only grows at its end, and a sender that was  *)
(* told "accepted" was told about an entry of its own that is in it.       *)
(* Reading the nonce, signing and sending look like one indivisible step.  *)
(***************************************************************************)
EXTENDS Integers, Sequences

CONSTANTS
  Sender, Account,
  AccountOf    \* AccountOf[s]: the account s signs for

VARIABLES
  ledger,   \* ledger[a]: the entries of account a, in nonce order
  told      \* told[s]: <<e>> when s was told that its entry e is in, else <<>>

vars == <<ledger, told>>

Init ==
  /\ ledger = [a \in Account |-> <<>>]
  /\ told = [s \in Sender |-> <<>>]

(* The transaction of s takes the next free nonce of its account. *)
Submit(s) ==
  LET a == AccountOf[s]
      n == Len(ledger[a])
      e == ledger'[a][n + 1]
  IN  /\ Len(ledger'[a]) = n + 1
      /\ e.by = s /\ e.nonce = n
      /\ ledger' = [ledger EXCEPT ![a] = Append(@, e)]
      /\ UNCHANGED told

(* s learns that an entry of its own is in. *)
Tell(s) ==
  \E i \in 1 .. Len(ledger[AccountOf[s]]) :
    LET e == ledger[AccountOf[s]][i] IN
    /\ e.by = s
    /\ told' = [told EXCEPT ![s] = <<e>>]
    /\ UNCHANGED ledger

(* The run of s is over. *)
Leave(s) ==
  /\ told' = [told EXCEPT ![s] = <<>>]
  /\ UNCHANGED ledger

Next == \E s \in Sender : Submit(s) \/ Tell(s) \/ Leave(s)

Spec == Init /\ [][Next]_vars
=============================================================================
