------------------------------ MODULE BondPost ------------------------------
(***************************************************************************)
(* `taskfast bond post` (cmd/bond.rs): quote the bond of a task, preflight *)
(* the balance and the allowance, approve, TaskBond.post, report the hash, *)
(* and ask the server until it has verified the bond.  Commands for the    *)
(* same or for different tasks share a wallet; any of them may fail or be  *)
(* killed anywhere, and be run again.                                      *)
(*                                                                         *)
(* External: the server (prices a bond until a row for it exists, takes a  *)
(* report only while the bond awaits one, verifies later) and the chain    *)
(* (executes a transaction at some time, or drops it).                     *)
(***************************************************************************)
EXTENDS Integers

CONSTANTS
  Slot,        \* processes that may run at the same time
  Task,
  Invocations, \* command lines the user gives (see Invocation)
  Prices,      \* Prices[t]: what the server may ask for the bond of t
  Funds,       \* the wallet's balance at the start
  MaxRuns      \* bound on the commands started

(* Every command is a new run with a new number, standing for its salt. *)
Id == 1 .. MaxRuns
None == 0

(* The task, --amount, --skip-allowance-check, whether there is an --rpc-url.*)
Invocation == [task : Task, amount : Nat, skip : BOOLEAN, custom : BOOLEAN]

ASSUME ConstantsAssumption ==
  /\ Invocations \subseteq Invocation
  /\ Prices \in [Task -> SUBSET (Nat \ {0})]
  /\ Task # {}
  /\ Funds \in Nat /\ MaxRuns \in Nat

VARIABLES
  runs,      \* commands started
  proc,      \* proc[p]: the command slot p runs
  balance, allowance,
  pool,      \* broadcast transactions not executed yet
  reverted, mined, \* executed transactions
  price,     \* price[t]: the amount the server requires
  status,    \* status[t]: the server's bond_status
  claims,    \* reported transactions
  verified   \* verified[t]: the commands started when t's bond was verified
             \* (history)

money == <<balance, allowance, pool, reverted, mined>>
server == <<price, status, claims, verified>>
vars == <<runs, proc, money, server>>

Status == {"null", "posting", "posted"}
Ended == {"idle", "done", "failed"}
PcValue == Ended \cup {"balance", "allowance", "approve", "approving", "recheck",
                       "post", "posting", "report", "verify"}

(* said is the bond_status of the envelope; row, whether the bond had a row*)
(* when the command asked for its price.                                   *)
Process == [id : Id \cup {None}, pc : PcValue, task : Task, skip : BOOLEAN,
            custom : BOOLEAN, amount : Nat, said : Status, row : BOOLEAN]

(* taskRef is the task; salt is the number of the run. *)
TxOf(p, kind) ==
  [kind |-> kind, by |-> proc[p].id, task |-> proc[p].task, amount |-> proc[p].amount]
Bonds == {x \in mined : x.kind = "post"}

(* What the verifier compares with the BondPosted event. *)
Sufficient(x) == x \in Bonds /\ x.amount >= price[x.task]

Goto(p, pc) == proc' = [proc EXCEPT ![p].pc = pc]

Init ==
  /\ runs = 0
  /\ proc = [p \in Slot |->
               [id |-> None, pc |-> "idle", task |-> CHOOSE t \in Task : TRUE,
                skip |-> FALSE, custom |-> FALSE, amount |-> 0, said |-> "null",
                row |-> FALSE]]
  /\ balance = Funds /\ allowance = 0
  /\ pool = {} /\ reverted = {} /\ mined = {}
  /\ price \in {f \in [Task -> UNION {Prices[t] : t \in Task}] :
                  \A t \in Task : f[t] \in Prices[t]}
  /\ status = [t \in Task |-> "null"]
  /\ claims = {}
  /\ verified = [t \in Task |-> MaxRuns]

-----------------------------------------------------------------------------
(* The command.                                                            *)

(* --amount, else the quoted amount. *)
Offer(inv) == IF inv.amount = 0 THEN price[inv.task] ELSE inv.amount

(* Slip: takes any amount *)
AnyAmount(inv) == TRUE

(* A smaller bond never verifies. *)
Acceptable(inv) == Offer(inv) >= price[inv.task]

(* Slip: does not look at the status *)
NeverPosted(t) == FALSE

AlreadyPosted(t) == status[t] = "posted"

(* rand::random: a salt no other run has. *)
NewSalt == runs + 1

(* GET stake/quote: nothing to do for a verified bond; an amount below the *)
(* quote is refused; else the signer and the network are resolved.         *)
Quote(p, inv) ==
  LET Begin(pc, said) ==
        proc' = [proc EXCEPT ![p] =
          [id |-> NewSalt, pc |-> pc, task |-> inv.task, skip |-> inv.skip,
           custom |-> inv.custom, amount |-> Offer(inv), said |-> said,
           row |-> status[inv.task] # "null"]]
  IN  /\ proc[p].pc \in Ended /\ runs < MaxRuns
      /\ runs' = runs + 1
      /\ IF AlreadyPosted(inv.task) THEN Begin("done", "posted")
         ELSE Begin(IF Acceptable(inv) THEN "balance" ELSE "failed", "null")
      /\ UNCHANGED <<money, server>>

ReadBalance(p) ==
  /\ proc[p].pc = "balance"
  /\ Goto(p, IF balance < proc[p].amount THEN "failed"
             ELSE IF proc[p].skip THEN "post" ELSE "allowance")
  /\ UNCHANGED <<runs, money, server>>

Short(p) == allowance < proc[p].amount

ReadAllowance(p) ==
  /\ proc[p].pc = "allowance"
  /\ Goto(p, IF Short(p) THEN "approve" ELSE "post")
  /\ UNCHANGED <<runs, money, server>>

(* sign_and_broadcast_tx: its answer may be lost although the transaction  *)
(* is under way, which ends the command.                                   *)
Broadcast(p, kind, next) ==
  /\ pool' = pool \cup {TxOf(p, kind)}
  /\ Goto(p, next) \/ Goto(p, "failed")
  /\ UNCHANGED <<runs, balance, allowance, reverted, mined, server>>

Approve(p) == proc[p].pc = "approve" /\ Broadcast(p, "approve", "approving")

(* wait_for_receipt: no receipt in time is Fail. *)
Receipt(p, kind, next) ==
  /\ TxOf(p, kind) \in mined \cup reverted
  /\ Goto(p, IF TxOf(p, kind) \in mined THEN next ELSE "failed")
  /\ UNCHANGED <<runs, money, server>>

ApproveReceipt(p) == proc[p].pc = "approving" /\ Receipt(p, "approve", "recheck")

Recheck(p) ==
  /\ proc[p].pc = "recheck"
  /\ Goto(p, IF Short(p) THEN "failed" ELSE "post")
  /\ UNCHANGED <<runs, money, server>>

CanPost(amount) == allowance >= amount /\ balance >= amount

(* The gas estimate of a post that would revert now is an RPC error. *)
Post(p) ==
  /\ proc[p].pc = "post"
  /\ \/ CanPost(proc[p].amount) /\ Broadcast(p, "post", "posting")
     \/ /\ ~CanPost(proc[p].amount)
        /\ Goto(p, "failed")
        /\ UNCHANGED <<runs, money, server>>

(* Slip: reports what it has sent *)
PostUnconfirmed(p) ==
  /\ proc[p].pc = "posting"
  /\ Goto(p, "report")
  /\ UNCHANGED <<runs, money, server>>

PostReceipt(p) == proc[p].pc = "posting" /\ Receipt(p, "post", "report")

(* POST stake/report: refused unless the bond awaits it; the answer may be *)
(* lost.                                                                   *)
Report(p) ==
  /\ proc[p].pc = "report"
  /\ \/ /\ status[proc[p].task] = "posting"
        /\ claims' = claims \cup {TxOf(p, "post")}
        /\ Goto(p, "verify") \/ Goto(p, "failed")
     \/ /\ status[proc[p].task] # "posting"
        /\ Goto(p, "failed")
        /\ UNCHANGED claims
  /\ UNCHANGED <<runs, money, price, status, verified>>

(* Slip: a report that was taken is a bond that is posted *)
PollTrusts(p) ==
  /\ proc[p].pc = "verify"
  /\ proc' = [proc EXCEPT ![p].said = "posted", ![p].pc = "done"]
  /\ UNCHANGED <<runs, money, server>>

(* poll_until_posted: a quote, remembered; a failed quote changes nothing. *)
Poll(p) ==
  /\ proc[p].pc = "verify"
  /\ proc' = [proc EXCEPT ![p].said = status[proc[p].task],
                          ![p].pc = IF status[proc[p].task] = "posted" THEN "done" ELSE @]
  /\ UNCHANGED <<runs, money, server>>

(* Slip: gives up only if it has seen the bond posted *)
Persist(p) ==
  /\ proc[p].pc = "verify" /\ proc[p].said = "posted"
  /\ Goto(p, "done")
  /\ UNCHANGED <<runs, money, server>>

(* The verify timeout is no failure: the last status is reported. *)
VerifyTimeout(p) ==
  /\ proc[p].pc = "verify"
  /\ Goto(p, "done")
  /\ UNCHANGED <<runs, money, server>>

(* A request fails, a receipt does not come in time, the process is killed.*)
Fail(p) ==
  /\ proc[p].pc \notin Ended
  /\ Goto(p, "failed")
  /\ UNCHANGED <<runs, money, server>>

-----------------------------------------------------------------------------
(* The environment.                                                        *)

(* approve sets the allowance; post takes the amount out of the allowance  *)
(* and the balance, or reverts.                                            *)
Execute(x) ==
  LET ok == x.kind = "approve" \/ CanPost(x.amount)
  IN  /\ x \in pool
      /\ pool' = pool \ {x}
      /\ mined' = IF ok THEN mined \cup {x} ELSE mined
      /\ reverted' = IF ok THEN reverted ELSE reverted \cup {x}
      /\ allowance' = IF x.kind = "approve" THEN x.amount
                      ELSE IF ok THEN allowance - x.amount ELSE allowance
      /\ balance' = IF x.kind = "post" /\ ok THEN balance - x.amount ELSE balance
      /\ UNCHANGED <<runs, proc, server>>

Evict(x) ==
  /\ x \in pool
  /\ pool' = pool \ {x}
  /\ UNCHANGED <<runs, proc, balance, allowance, reverted, mined, server>>

(* The price follows the task's value until the server has a row for the   *)
(* bond; then the row's is authoritative.                                  *)
Reprice(t) ==
  /\ status[t] = "null"
  /\ \E n \in Prices[t] : price' = [price EXCEPT ![t] = n]
  /\ UNCHANGED <<runs, proc, money, status, claims, verified>>

AwaitBond(t) ==
  /\ status[t] = "null"
  /\ status' = [status EXCEPT ![t] = "posting"]
  /\ UNCHANGED <<runs, proc, money, price, claims, verified>>

Verify(t) ==
  /\ status[t] = "posting"
  /\ \E x \in claims : x.task = t /\ Sufficient(x)
  /\ status' = [status EXCEPT ![t] = "posted"]
  /\ verified' = [verified EXCEPT ![t] = runs]
  /\ UNCHANGED <<runs, proc, money, price, claims>>

-----------------------------------------------------------------------------
(* A step of the command that a timeout does not replace, and a timeout.   *)
Step(p) ==
  \/ ReadBalance(p) \/ ReadAllowance(p) \/ Approve(p) \/ ApproveReceipt(p)
  \/ Recheck(p) \/ Post(p) \/ PostReceipt(p) \/ Report(p)
Timeout(p) == proc[p].pc \in {"approving", "posting"} /\ Fail(p)

Next ==
  \/ \E p \in Slot :
       \/ \E inv \in Invocations : Quote(p, inv)
       \/ Step(p) \/ Poll(p) \/ VerifyTimeout(p) \/ Fail(p)
  \/ \E x \in pool : Execute(x) \/ Evict(x)
  \/ \E t \in Task : Reprice(t) \/ AwaitBond(t) \/ Verify(t)

Spec == Init /\ [][Next]_vars

(* Every request to the API, and to the deployment's RPC proxy with the    *)
(* same client, ends by its timeout (client.rs:40); receipts and the       *)
(* verification are waited for until a deadline; the server verifies what  *)
(* was reported.  The client of an --rpc-url has no timeout (mod.rs:227):  *)
(* a request of such a command need not end, and a receipt poll that hangs *)
(* does not look at the time.  Nothing is assumed of the chain.            *)
FairSpec ==
  /\ Spec
  /\ \A p \in Slot :
       /\ WF_vars(~proc[p].custom /\ (Step(p) \/ Timeout(p)))
       /\ WF_vars(Report(p))
       /\ WF_vars(VerifyTimeout(p))
  /\ \A t \in Task : WF_vars(Verify(t))

-----------------------------------------------------------------------------
(* Every variable has its type, and no two slots share a run.              *)
TypeOK ==
  /\ runs \in 0 .. MaxRuns
  /\ proc \in [Slot -> Process]
  /\ \A p, q \in Slot : proc[p].id = proc[q].id => p = q \/ proc[p].id = None
  /\ balance \in Nat /\ allowance \in Nat
  /\ \A x \in pool \cup reverted \cup mined \cup claims :
       /\ x.kind \in {"approve", "post"} /\ x.by \in 1 .. runs
       /\ x.task \in Task /\ x.amount \in Nat
  /\ price \in [Task -> Nat]
  /\ status \in [Task -> Status]
  /\ verified \in [Task -> 0 .. MaxRuns]

(* A reported hash "is a claim, not proof", but a sound one: it is a bond  *)
(* on chain, whichever run gave it and however late it was executed (a post*)
(* that reverted or that nobody has seen mined is not reported).           *)
ClaimsAreBonds == claims \subseteq Bonds

(* An envelope that says posted is true, now and from then on: the task has*)
(* a bond on chain that is worth the price.                                *)
SaysPosted ==
  \A p \in Slot :
    proc[p].pc = "done" /\ proc[p].said = "posted" =>
      /\ status[proc[p].task] = "posted"
      /\ \E x \in claims : x.task = proc[p].task /\ Sufficient(x)

(* Step 2: "an already-posted bond is a no-op".  Runs may well post two    *)
(* bonds for a task, each with a salt of its own (a rerun after a lost     *)
(* answer does), but no run that starts when the server has verified one.  *)
NoBondAfterVerified ==
  \A x \in pool \cup reverted \cup mined : x.by <= verified[x.task]

(* Step 3, "a smaller bond never verifies": a report that was taken from a *)
(* run that was quoted the row's price leads to a verified bond, also when *)
(* the run dies or gives up asking.                                        *)
ReportLeadsToPosted ==
  \A p \in Slot, t \in Task :
    (proc[p].pc = "verify" /\ proc[p].task = t /\ proc[p].row) ~> status[t] = "posted"

(* p waits for an answer of its RPC endpoint. *)
AtNode(p) == proc[p].pc \in {"balance", "allowance", "approve", "approving",
                            "recheck", "post", "posting"}

(* A command ends, however long the server takes to verify, for the poll of*)
(* step 12 is bounded; or it stands for ever at an --rpc-url that never    *)
(* answers.                                                                *)
BondRunEnds ==
  \A p \in Slot :
    proc[p].pc = "balance" ~>
      proc[p].pc \in Ended \/ [](proc[p].custom /\ AtNode(p))
=============================================================================
