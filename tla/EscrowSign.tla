----------------------------- MODULE EscrowSign -----------------------------
(***************************************************************************)
(* `taskfast escrow sign` (cmd/escrow.rs): fetch the escrow parameters of  *)
(* an accepted bid, sign the approval with the server's deadline, approve  *)
(* the token if the allowance is short, open the escrow on chain, finalize *)
(* with the server.  Several runs of one poster wallet, for the same or    *)
(* for different bids, share the wallet's balance and the allowance it     *)
(* gave the escrow contract.                                               *)
(*                                                                         *)
(* External: the server (issues deadlines, finalizes a bid once) and the   *)
(* chain (executes a broadcast transaction at some later time, or drops    *)
(* it).  Time is the server's clock; the clients' clocks are off by skew.  *)
(***************************************************************************)
EXTENDS Integers, FiniteSets

CONSTANTS
  Run,         \* slots in which the command runs, again and again
  Bid,
  Total,       \* Total[b]: deposit + platform fee of bid b
  Funds,       \* the wallet's balance at the start
  Commands,    \* what the slots may run: functions from Run to Invocation
  Grants,      \* how far ahead the server may issue a deadline
  MinLifetime, \* poster_approval_min_lifetime
  MaxTime,     \* bound on the clock
  MaxRuns,     \* bound on the runs of a slot
  NoEscrow

(* The bid, --skip-allowance-check, how far the clock of the host is ahead  *)
(* of the server's, and whether there is an --rpc-url.                      *)
Invocation == [bid : Bid, skip : BOOLEAN, skew : Int, custom : BOOLEAN]

ASSUME ConstantsAssumption ==
  /\ Total \in [Bid -> Nat]
  /\ Funds \in Nat
  /\ Commands \subseteq [Run -> Invocation]
  /\ Grants \subseteq Nat /\ Grants # {}
  /\ MinLifetime \in Nat
  /\ MaxTime \in Nat /\ MaxRuns \in Nat
  /\ NoEscrow \notin [by : Run, salt : 1 .. MaxRuns, bid : Bid]

VARIABLES
  now,        \* the server's clock
  pc,         \* pc[r]: the next step of r's current run
  salt,       \* salt[r]: number of r's current run: its random salt
  inv,        \* inv[r]: what r runs, every time
  deadline,   \* deadline[r]: the deadline r's approval is signed with
  attempts,   \* attempts[r]: re-signs after deadline_below_minimum
  balance, allowance,
  pool,       \* broadcast transactions not executed yet
  receipt,    \* executed transactions: a function to "ok" or "reverted"
  final,      \* final[b]: the escrow the server finalized bid b with
  opens,      \* opens[r]: open transactions r's current run broadcast (history)
  touched     \* touched[r]: another run moved the allowance or the balance
              \* since r looked at them (history)

client == <<pc, salt, inv, deadline, attempts>>
ledger == <<balance, allowance, pool, receipt, opens, touched>>
vars == <<now, pc, salt, inv, deadline, attempts, balance, allowance, pool, receipt,
          final, opens, touched>>

Ended == {"idle", "done", "failed"}
PcValue == Ended \cup {"fetched", "balance", "allowance", "approve", "approving",
                       "recheck", "open", "opening", "finalize", "refetch"}

(* compute_escrow_id: every parameter but the random salt is the bid's. *)
Escrow == [by : Run, salt : 1 .. MaxRuns, bid : Bid]
BidOf(r) == inv[r].bid
EscrowOf(r) == [by |-> r, salt |-> salt[r], bid |-> BidOf(r)]
TxOf(r, kind) == [kind |-> kind, escrow |-> EscrowOf(r)]
Tx == [kind : {"approve", "open"}, escrow : Escrow]

Price(r) == Total[BidOf(r)]

(* The escrows that exist on chain. *)
Opened == {t.escrow : t \in {x \in DOMAIN receipt :
                               x.kind = "open" /\ receipt[x] = "ok"}}

Goto(r, to) == pc' = [pc EXCEPT ![r] = to]

Init ==
  /\ now = 0
  /\ pc = [r \in Run |-> "idle"]
  /\ salt = [r \in Run |-> 0]
  /\ inv \in Commands
  /\ deadline = [r \in Run |-> 0]
  /\ attempts = [r \in Run |-> 0]
  /\ balance = Funds
  /\ allowance = 0
  /\ pool = {}
  /\ receipt = <<>>
  /\ final = [b \in Bid |-> NoEscrow]
  /\ opens = [r \in Run |-> 0]
  /\ touched = [r \in Run |-> FALSE]

-----------------------------------------------------------------------------
(* The command.                                                            *)

(* GET /bids/{id}/escrow/params: refused unless the bid awaits its escrow.  *)
(* The server issues a fresh deadline with every answer.                    *)
Issue(r, d) == deadline' = [deadline EXCEPT ![r] = d]

Fetch(r) ==
  /\ pc[r] \in Ended
  /\ salt[r] < MaxRuns
  /\ salt' = [salt EXCEPT ![r] = @ + 1]
  /\ attempts' = [attempts EXCEPT ![r] = 0]
  /\ \/ /\ final[BidOf(r)] = NoEscrow
        /\ \E g \in Grants : Issue(r, now + g)
        /\ Goto(r, "fetched")
     \/ /\ final[BidOf(r)] # NoEscrow
        /\ Goto(r, "failed")
        /\ UNCHANGED deadline
  /\ opens' = [opens EXCEPT ![r] = 0]
  /\ UNCHANGED <<now, inv, balance, allowance, pool, receipt, final, touched>>

(* server_deadline_or_abort, on the client's clock. *)
AboveFloor(r, d) ==
  LET clock == now + inv[r].skew
      remaining == IF d > clock THEN d - clock ELSE 0
  IN  remaining >= MinLifetime

(* The floor check comes before anything is signed or broadcast. *)
CheckDeadline(r) ==
  /\ pc[r] = "fetched"
  /\ Goto(r, IF ~AboveFloor(r, deadline[r]) THEN "failed"
             ELSE IF inv[r].skip THEN "open" ELSE "balance")
  /\ UNCHANGED <<now, salt, inv, deadline, attempts, ledger, final>>

ReadBalance(r) ==
  /\ pc[r] = "balance"
  /\ Goto(r, IF balance < Price(r) THEN "failed" ELSE "allowance")
  /\ touched' = [touched EXCEPT ![r] = FALSE]
  /\ UNCHANGED <<now, salt, inv, deadline, attempts, balance, allowance, pool, receipt,
                 opens, final>>

(* The allowance must cover deposit and fee (escrow.rs:413-415).  The slip  *)
(* is content with any allowance at all.                                    *)
ShortOfAny(r) == allowance = 0
Short(r) == allowance < Price(r)

ReadAllowance(r) ==
  /\ pc[r] = "allowance"
  /\ Goto(r, IF Short(r) THEN "approve" ELSE "open")
  /\ UNCHANGED <<now, salt, inv, deadline, attempts, ledger, final>>

(* sign_and_broadcast_tx.  The answer may be lost although the transaction  *)
(* is under way, which ends the run.                                        *)
Broadcast(r, kind, next) ==
  /\ pool' = pool \cup {TxOf(r, kind)}
  /\ \/ Goto(r, next)
     \/ Goto(r, "failed")
  /\ opens' = [opens EXCEPT ![r] = IF kind = "open" THEN @ + 1 ELSE @]
  /\ UNCHANGED <<now, salt, inv, deadline, attempts, balance, allowance, receipt, final, touched>>

BroadcastApprove(r) ==
  /\ pc[r] = "approve"
  /\ Broadcast(r, "approve", "approving")

(* wait_for_receipt; a receipt that does not come in time is Timeout(r). *)
ReceiptOf(r, kind, next) ==
  /\ TxOf(r, kind) \in DOMAIN receipt
  /\ Goto(r, IF receipt[TxOf(r, kind)] = "ok" THEN next ELSE "failed")
  /\ UNCHANGED <<now, salt, inv, deadline, attempts, ledger, final>>

ApproveReceipt(r) == pc[r] = "approving" /\ ReceiptOf(r, "approve", "recheck")

Recheck(r) ==
  /\ pc[r] = "recheck"
  /\ Goto(r, IF Short(r) THEN "failed" ELSE "open")
  /\ UNCHANGED <<now, salt, inv, deadline, attempts, ledger, final>>

CanOpen(b) == allowance >= Total[b] /\ balance >= Total[b]

(* The gas estimate of an open that would revert now is an RPC error, and   *)
(* nothing is broadcast.                                                    *)
BroadcastOpen(r) ==
  /\ pc[r] = "open"
  /\ \/ /\ CanOpen(BidOf(r))
        /\ Broadcast(r, "open", "opening")
     \/ /\ ~CanOpen(BidOf(r))
        /\ Goto(r, "failed")
        /\ UNCHANGED <<now, salt, inv, deadline, attempts, ledger, final>>

OpenUnconfirmed(r) ==
  /\ pc[r] = "opening"
  /\ Goto(r, "finalize")
  /\ UNCHANGED <<now, salt, inv, deadline, attempts, ledger, final>>

OpenReceipt(r) == pc[r] = "opening" /\ ReceiptOf(r, "open", "finalize")

(* POST /bids/{id}/escrow/finalize.  The server wants the bid still waiting *)
(* and the deadline above the floor on its own clock; its answer may be     *)
(* lost.  Only deadline_below_minimum is answered by one more attempt.      *)
ConflictIsSuccess == "done"
OnConflict == "failed"

BelowMinimum(r) == deadline[r] - now < MinLifetime

(* One re-sign per run. *)
SignAgain(r) == attempts[r] = 0

Finalize(r) ==
  /\ pc[r] = "finalize"
  /\ \/ /\ final[BidOf(r)] = NoEscrow
        /\ ~BelowMinimum(r)
        /\ final' = [final EXCEPT ![BidOf(r)] = EscrowOf(r)]
        /\ \/ Goto(r, "done")
           \/ Goto(r, "failed")
     \/ /\ final[BidOf(r)] = NoEscrow
        /\ BelowMinimum(r)
        /\ Goto(r, IF SignAgain(r) THEN "refetch" ELSE "failed")
        /\ UNCHANGED final
     \/ /\ final[BidOf(r)] # NoEscrow
        /\ Goto(r, OnConflict)
        /\ UNCHANGED final
  /\ UNCHANGED <<now, salt, inv, deadline, attempts, ledger>>

(* Fresh parameters and a new signature over the same escrow id; the floor  *)
(* check again, now with the escrow already funded.  (Two slips: not        *)
(* counting the attempt, and going back to the open.)                       *)
RefetchTo(r, next) ==
  /\ pc[r] = "refetch"
  /\ attempts' = [attempts EXCEPT ![r] = @ + 1]
  /\ \/ /\ final[BidOf(r)] = NoEscrow
        /\ \E g \in Grants :
             /\ Issue(r, now + g)
             /\ Goto(r, IF AboveFloor(r, now + g) THEN next ELSE "failed")
     \/ /\ final[BidOf(r)] # NoEscrow
        /\ Goto(r, "failed")
        /\ UNCHANGED deadline
  /\ UNCHANGED <<now, salt, inv, ledger, final>>

RefetchUncounted(r) ==
  /\ pc[r] = "refetch"
  /\ final[BidOf(r)] = NoEscrow
  /\ \E g \in Grants : Issue(r, now + g)
  /\ Goto(r, "finalize")
  /\ UNCHANGED <<now, salt, inv, attempts, ledger, final>>

RefetchAndReopen(r) == RefetchTo(r, "open")

Refetch(r) == RefetchTo(r, "finalize")

(* A request fails, a receipt does not come in time, the process is killed. *)
Fail(r) ==
  /\ pc[r] \notin Ended
  /\ Goto(r, "failed")
  /\ UNCHANGED <<now, salt, inv, deadline, attempts, ledger, final>>

-----------------------------------------------------------------------------
(* The environment.                                                        *)

Tick ==
  /\ now < MaxTime
  /\ now' = now + 1
  /\ UNCHANGED <<client, ledger, final>>

(* The approve call asks for exactly what open will take.  The slip rounds  *)
(* it up.                                                                   *)
GenerousAmount(b) == Total[b] + 1
ApprovalAmount(b) == Total[b]

(* approve sets the allowance; open takes the price out of the allowance    *)
(* and the balance, or reverts.                                             *)
Execute(t) ==
  LET b == t.escrow.bid
      ok == t.kind = "approve" \/ CanOpen(b)
  IN  /\ t \in pool
      /\ pool' = pool \ {t}
      /\ receipt' = [x \in DOMAIN receipt \cup {t} |->
                       IF x = t THEN (IF ok THEN "ok" ELSE "reverted") ELSE receipt[x]]
      /\ CASE t.kind = "approve" ->
                /\ allowance' = ApprovalAmount(b)
                /\ UNCHANGED balance
           [] t.kind = "open" /\ ok ->
                /\ allowance' = allowance - Total[b]
                /\ balance' = balance - Total[b]
           [] OTHER -> UNCHANGED <<balance, allowance>>
      /\ touched' = [q \in Run |->
                       touched[q] \/ (ok /\ t.escrow # EscrowOf(q))]
      /\ UNCHANGED <<now, client, opens, final>>

Evict(t) ==
  /\ t \in pool
  /\ pool' = pool \ {t}
  /\ UNCHANGED <<now, client, balance, allowance, receipt, opens, final, touched>>

-----------------------------------------------------------------------------

Step(r) ==
  \/ CheckDeadline(r)
  \/ ReadBalance(r)
  \/ ReadAllowance(r)
  \/ BroadcastApprove(r)
  \/ ApproveReceipt(r)
  \/ Recheck(r)
  \/ BroadcastOpen(r)
  \/ OpenReceipt(r)
  \/ Finalize(r)
  \/ Refetch(r)

(* A receipt wait ends at the receipt timeout. *)
Timeout(r) == pc[r] \in {"approving", "opening"} /\ Fail(r)

Next ==
  \/ \E r \in Run : Fetch(r) \/ Step(r) \/ Fail(r)
  \/ Tick
  \/ \E t \in pool : Execute(t) \/ Evict(t)

Spec == Init /\ [][Next]_vars

(* What a run does without its RPC endpoint. *)
StepAlone(r) == CheckDeadline(r) \/ Finalize(r) \/ Refetch(r)

(* Every request to the API ends, for its client has a timeout              *)
(* (client.rs:40), and so does every request to the deployment's RPC proxy, *)
(* sent with the same client; receipt polling gives up at its timeout.  The *)
(* client of an --rpc-url has none (mod.rs:227): a request of such a run    *)
(* need not end, and a receipt poll that hangs does not look at the time.   *)
(* Nothing is assumed of the chain.                                         *)
FairSpec ==
  /\ Spec
  /\ \A r \in Run : WF_vars(StepAlone(r))
  /\ \A r \in Run : WF_vars(~inv[r].custom /\ (Step(r) \/ Timeout(r)))

-----------------------------------------------------------------------------
(* Properties.                                                             *)

TypeOK ==
  /\ now \in 0 .. MaxTime
  /\ pc \in [Run -> PcValue]
  /\ salt \in [Run -> 0 .. MaxRuns]
  /\ inv \in [Run -> Invocation]
  /\ deadline \in [Run -> Nat]
  /\ attempts \in [Run -> 0 .. 1]
  /\ balance \in Nat /\ allowance \in Nat
  /\ pool \subseteq Tx
  /\ DOMAIN receipt \subseteq Tx
  /\ final \in [Bid -> Escrow \cup {NoEscrow}]
  /\ opens \in [Run -> Nat]
  /\ touched \in [Run -> BOOLEAN]

(* A finalized bid names an escrow that exists on chain: the command posts  *)
(* finalize only once the open is mined and did not revert (escrow.rs:470). *)
FinalizedIsFunded ==
  \A b \in Bid : final[b] # NoEscrow => final[b] \in Opened

(* A success envelope means the server finalized the bid with the escrow    *)
(* this very run opened, whatever other runs did meanwhile.                 *)
SuccessIsFinal ==
  \A r \in Run : pc[r] = "done" => final[BidOf(r)] = EscrowOf(r)

(* escrow.rs:481-487, "no new tx, no orphaned escrow": a run broadcasts its *)
(* open once, also when the server rejects the deadline after the open was  *)
(* mined and the run signs the same escrow again.                           *)
OneOpenPerRun == \A r \in Run : opens[r] <= 1

(* The preflight suffices: past it, the open of a run can succeed, unless a *)
(* transaction of another run moved the balance or the allowance since.     *)
(* (With --skip-allowance-check there is no preflight.)                     *)
PreflightSound ==
  \A r \in Run :
    pc[r] = "open" /\ ~inv[r].skip => CanOpen(BidOf(r)) \/ touched[r]

(* No standing allowance: once every run so far has succeeded, however they *)
(* interleaved, the escrow contract may not draw anything from the wallet.  *)
AllowanceUsedUp ==
  (\A r \in Run : salt[r] <= 1 /\ pc[r] \in {"idle", "done"}) => allowance = 0

(* r waits for an answer of its RPC endpoint. *)
AtNode(r) == pc[r] \in {"balance", "allowance", "approve", "approving", "recheck",
                       "open", "opening"}

(* A run ends, or stands for ever at an --rpc-url that never answers: the   *)
(* single re-sign (escrow.rs:487, 506) keeps the finalize loop from going   *)
(* on for as long as the server rejects the deadline.                       *)
RunEnds ==
  \A r \in Run :
    pc[r] = "fetched" ~> pc[r] \in Ended \/ [](inv[r].custom /\ AtNode(r))
=============================================================================
