--------------------------- MODULE BondPostProofs ---------------------------
(***************************************************************************)
(* Proofs about BondPost, for any number of slots, tasks, command lines,   *)
(* prices and runs.                                                        *)
(***************************************************************************)
EXTENDS BondPost, TLAPS

(***************************************************************************)
(* The invariant.  Runs are numbered as they start; ...                    *)
(***************************************************************************)
Numbered ==
  \A p \in Slot : /\ proc[p].id \in 0 .. runs
                  /\ proc[p].pc # "idle" => proc[p].id # None

(* ... a run reports, or has reported, a post it has seen mined; ...       *)
Mined == \A p \in Slot : proc[p].pc \in {"report", "verify"} => TxOf(p, "post") \in mined

(* ... a bond is posted for a claim that is worth the price, which no      *)
(* longer moves, and a run says so only if it is; ...                      *)
Backed == \A t \in Task : status[t] = "posted" =>
            \E x \in claims : x.task = t /\ Sufficient(x)
SaidTruly == \A p \in Slot : proc[p].said = "posted" => status[proc[p].task] = "posted"

(* ... and what is under way for a task began before its bond was verified. *)
Unverified == \A t \in Task : status[t] # "posted" => verified[t] = MaxRuns
BeganBefore == \A p \in Slot : proc[p].pc \notin Ended => proc[p].id <= verified[proc[p].task]

BondInv ==
  /\ TypeOK /\ Numbered /\ Mined /\ Backed /\ SaidTruly /\ Unverified /\ BeganBefore
  /\ ClaimsAreBonds /\ NoBondAfterVerified

LEMMA TxFields ==
  ASSUME NEW p \in Slot, NEW kind
  PROVE  /\ TxOf(p, kind).kind = kind /\ TxOf(p, kind).by = proc[p].id
         /\ TxOf(p, kind).task = proc[p].task /\ TxOf(p, kind).amount = proc[p].amount
BY DEF TxOf

LEMMA PriceType == Init => price \in [Task -> Nat]
<1> SUFFICES ASSUME Init PROVE price \in [Task -> Nat]
  OBVIOUS
<1>1. /\ price \in [Task -> UNION {Prices[t] : t \in Task}]
      /\ \A t \in Task : price[t] \in Prices[t]
  BY DEF Init
<1>2. \A t \in Task : Prices[t] \subseteq Nat
  BY ConstantsAssumption
<1> QED
  BY <1>1, <1>2

LEMMA BondInvInit == Init => BondInv
<1> SUFFICES ASSUME Init PROVE BondInv
  OBVIOUS
<1>1. (CHOOSE t \in Task : TRUE) \in Task
  BY ConstantsAssumption
<1>2. proc \in [Slot -> Process]
  BY <1>1 DEF Init, Process, PcValue, Ended, Status, None, Id
<1>3. TypeOK
  BY <1>2, PriceType, ConstantsAssumption DEF Init, TypeOK, Status
<1> QED
  BY <1>3 DEF Init, BondInv, Numbered, Mined, Backed, SaidTruly, Unverified, BeganBefore,
       ClaimsAreBonds, NoBondAfterVerified, Bonds, Ended, None

(***************************************************************************)
(* A step of a run that has started: it may send a transaction, report a   *)
(* mined one, and learn the status.                                        *)
(***************************************************************************)

LEMMA RunStep ==
  ASSUME BondInv, NEW p \in Slot, proc[p].pc \notin Ended,
         NEW to \in PcValue, NEW said \in Status,
         proc' = [proc EXCEPT ![p].pc = to, ![p].said = said],
         UNCHANGED <<runs, balance, allowance, reverted, mined, price, status, verified>>,
         to # "idle",
         to \in {"report", "verify"} => TxOf(p, "post") \in mined,
         said \in {proc[p].said, status[proc[p].task]},
         pool' = pool \/ \E kind \in {"approve", "post"} : pool' = pool \cup {TxOf(p, kind)},
         \/ claims' = claims
         \/ TxOf(p, "post") \in mined /\ claims' = claims \cup {TxOf(p, "post")}
  PROVE  BondInv'
<1> USE DEF BondInv
<1>1. proc \in [Slot -> Process]
  BY DEF TypeOK
<1>2. /\ \A q \in Slot : q # p => proc'[q] = proc[q]
      /\ proc'[p].pc = to /\ proc'[p].said = said /\ proc' \in [Slot -> Process]
      /\ \A q \in Slot : proc'[q].id = proc[q].id /\ proc'[q].task = proc[q].task
                         /\ proc'[q].amount = proc[q].amount
  BY <1>1 DEF Process
<1>3. \A q \in Slot : TxOf(q, "post")' = TxOf(q, "post")
  BY <1>2 DEF TxOf
<1>4. \A kind : /\ TxOf(p, kind).kind = kind /\ TxOf(p, kind).by = proc[p].id
                /\ TxOf(p, kind).task = proc[p].task /\ TxOf(p, kind).amount = proc[p].amount
  BY TxFields
<1>5. /\ proc[p].id \in 1 .. runs /\ proc[p].task \in Task /\ proc[p].amount \in Nat
      /\ proc[p].id <= verified[proc[p].task]
  BY <1>1 DEF Numbered, BeganBefore, Process, Ended, None, TypeOK
<1>6. \A x \in pool' \ pool : /\ x.kind \in {"approve", "post"} /\ x.by = proc[p].id
                              /\ x.task = proc[p].task /\ x.amount = proc[p].amount
  BY <1>4
<1>7. \A x \in claims' \ claims : x = TxOf(p, "post") /\ x \in mined
  OBVIOUS
<1>8. TypeOK'
  <2>1. \A x \in (pool' \ pool) \cup (claims' \ claims) :
          /\ x.kind \in {"approve", "post"} /\ x.by \in 1 .. runs
          /\ x.task \in Task /\ x.amount \in Nat
    BY <1>4, <1>5, <1>6, <1>7
  <2>2. \A x \in pool' \cup reverted \cup mined \cup claims' :
          /\ x.kind \in {"approve", "post"} /\ x.by \in 1 .. runs
          /\ x.task \in Task /\ x.amount \in Nat
    BY <2>1 DEF TypeOK
  <2> QED
    BY <1>2, <2>2 DEF TypeOK
<1>9. Numbered'
  BY <1>2, <1>5 DEF Numbered, Ended, None
<1>10. Mined'
  BY <1>2, <1>3 DEF Mined
<1>11. Backed' /\ Unverified'
  BY DEF Backed, Unverified, Sufficient, Bonds
<1>12. SaidTruly' /\ BeganBefore'
  BY <1>2, <1>5 DEF SaidTruly, BeganBefore
<1>13. ClaimsAreBonds'
  BY <1>4, <1>7 DEF ClaimsAreBonds, Bonds
<1>14. NoBondAfterVerified'
  BY <1>5, <1>6 DEF NoBondAfterVerified
<1> QED
  BY <1>8, <1>9, <1>10, <1>11, <1>12, <1>13, <1>14

LEMMA GotoStep ==
  ASSUME BondInv, NEW p \in Slot, proc[p].pc \notin Ended,
         NEW to \in PcValue, Goto(p, to),
         UNCHANGED <<runs, balance, allowance, reverted, mined, price, status, verified>>,
         to # "idle",
         to \in {"report", "verify"} => TxOf(p, "post") \in mined,
         pool' = pool \/ \E kind \in {"approve", "post"} : pool' = pool \cup {TxOf(p, kind)},
         \/ claims' = claims
         \/ TxOf(p, "post") \in mined /\ claims' = claims \cup {TxOf(p, "post")}
  PROVE  BondInv'
<1> DEFINE said == proc[p].said
<1>1. proc \in [Slot -> Process] /\ said \in Status
  BY DEF BondInv, TypeOK, Process
<1>2. proc' = [proc EXCEPT ![p].pc = to, ![p].said = said]
  BY <1>1 DEF Goto, Process
<1> HIDE DEF said
<1>3. said \in {proc[p].said, status[proc[p].task]}
  BY DEF said
<1> QED
  BY <1>1, <1>2, <1>3, RunStep

LEMMA CommandStep ==
  ASSUME BondInv, NEW p \in Slot, Step(p) \/ Poll(p) \/ VerifyTimeout(p) \/ Fail(p)
  PROVE  BondInv'
<1> USE DEF money, server
<1>1. CASE \/ ReadBalance(p) \/ ReadAllowance(p) \/ Recheck(p) \/ VerifyTimeout(p) \/ Fail(p)
  <2>1. PICK to \in {"failed", "post", "allowance", "approve", "done"} : Goto(p, to)
    BY <1>1 DEF ReadBalance, ReadAllowance, Recheck, VerifyTimeout, Fail
  <2>2. proc[p].pc \notin Ended
    BY <1>1 DEF ReadBalance, ReadAllowance, Recheck, VerifyTimeout, Fail, Ended
  <2>3. UNCHANGED <<runs, money, server>>
    BY <1>1 DEF ReadBalance, ReadAllowance, Recheck, VerifyTimeout, Fail
  <2> QED
    BY <2>1, <2>2, <2>3, GotoStep DEF PcValue, Ended
<1>2. CASE Approve(p) \/ Post(p)
  <2>1. PICK kind \in {"approve", "post"}, to \in {"approving", "posting", "failed"} :
          Goto(p, to) /\ pool' \in {pool, pool \cup {TxOf(p, kind)}}
    BY <1>2 DEF Approve, Post, Broadcast
  <2>2. proc[p].pc \notin Ended
    BY <1>2 DEF Approve, Post, Ended
  <2>3. UNCHANGED <<runs, balance, allowance, reverted, mined, price, status, claims, verified>>
    BY <1>2 DEF Approve, Post, Broadcast
  <2> QED
    BY <2>1, <2>2, <2>3, GotoStep DEF PcValue, Ended
<1>3. CASE ApproveReceipt(p)
  <2>1. PICK to \in {"recheck", "failed"} : Goto(p, to)
    BY <1>3 DEF ApproveReceipt, Receipt
  <2> QED
    BY <1>3, <2>1, GotoStep DEF ApproveReceipt, Receipt, PcValue, Ended
<1>4. CASE PostReceipt(p)
  <2>1. PICK to \in {"report", "failed"} :
          Goto(p, to) /\ (to = "report" => TxOf(p, "post") \in mined)
    BY <1>4 DEF PostReceipt, Receipt
  <2> QED
    BY <1>4, <2>1, GotoStep DEF PostReceipt, Receipt, PcValue, Ended
<1>5. CASE Report(p)
  <2>1. TxOf(p, "post") \in mined /\ proc[p].pc \notin Ended
    BY <1>5 DEF Report, BondInv, Mined, Ended
  <2>2. PICK to \in {"verify", "failed"} : Goto(p, to)
    BY <1>5 DEF Report
  <2>3. claims' \in {claims, claims \cup {TxOf(p, "post")}}
    BY <1>5 DEF Report
  <2> QED
    BY <1>5, <2>1, <2>2, <2>3, GotoStep DEF Report, PcValue, Ended
<1>6. CASE Poll(p)
  <2>1. proc \in [Slot -> Process] /\ status \in [Task -> Status]
    BY DEF BondInv, TypeOK
  <2> DEFINE said == status[proc[p].task]
             to == IF said = "posted" THEN "done" ELSE "verify"
  <2>2. said \in Status /\ proc[p].pc = "verify"
    BY <1>6, <2>1 DEF Poll, Process
  <2>3. proc' = [proc EXCEPT ![p].pc = to, ![p].said = said]
    BY <1>6, <2>1, <2>2 DEF Poll, Process
  <2>4. to \in PcValue /\ to # "idle" /\ TxOf(p, "post") \in mined
    BY <2>2 DEF PcValue, Ended, BondInv, Mined
  <2>5. said \in {proc[p].said, status[proc[p].task]}
    OBVIOUS
  <2> HIDE DEF said, to
  <2> QED
    BY <1>6, <2>2, <2>3, <2>4, <2>5, RunStep DEF Poll, Ended
<1> QED
  BY <1>1, <1>2, <1>3, <1>4, <1>5, <1>6 DEF Step

(***************************************************************************)
(* A new run has a number no transaction has, and none if the bond is      *)
(* verified already does anything.                                         *)
(***************************************************************************)
LEMMA QuoteStep ==
  ASSUME BondInv, NEW p \in Slot, NEW inv \in Invocations, Quote(p, inv)
  PROVE  BondInv'
<1> USE DEF BondInv
<1> DEFINE t == inv.task
<1>1. t \in Task /\ inv.amount \in Nat /\ inv.skip \in BOOLEAN /\ inv.custom \in BOOLEAN
  BY ConstantsAssumption DEF Invocation
<1>2. /\ proc \in [Slot -> Process] /\ runs \in 0 .. MaxRuns /\ runs < MaxRuns
      /\ price[t] \in Nat /\ status[t] \in Status /\ MaxRuns \in Nat
  BY <1>1, ConstantsAssumption DEF TypeOK, Quote
<1>3. PICK pc \in {"done", "balance", "failed"}, said \in {"posted", "null"} :
        /\ proc' = [proc EXCEPT ![p] =
             [id |-> runs + 1, pc |-> pc, task |-> t, skip |-> inv.skip,
              custom |-> inv.custom, amount |-> Offer(inv), said |-> said,
              row |-> status[t] # "null"]]
        /\ said = "posted" => status[t] = "posted"
        /\ pc = "balance" => status[t] # "posted"
  BY DEF Quote, NewSalt, AlreadyPosted
<1>4. /\ runs' = runs + 1
      /\ UNCHANGED <<balance, allowance, pool, reverted, mined, price, status, claims, verified>>
  BY DEF Quote, money, server
<1>5. Offer(inv) \in Nat
  BY <1>1, <1>2 DEF Offer
<1>6. /\ \A q \in Slot : q # p => proc'[q] = proc[q]
      /\ proc'[p].id = runs + 1 /\ proc'[p].pc = pc /\ proc'[p].task = t
      /\ proc'[p].said = said /\ proc' \in [Slot -> Process]
  BY <1>1, <1>2, <1>3, <1>5 DEF Process, PcValue, Ended, Status, Id
<1>7. \A q \in Slot : q # p => proc'[q].id \in 0 .. runs
  BY <1>6 DEF Numbered
<1>8. TypeOK'
  <2>1. \A a, b \in Slot : proc'[a].id = proc'[b].id => a = b \/ proc'[a].id = None
    <3>1. ASSUME NEW a \in Slot, NEW b \in Slot, proc'[a].id = proc'[b].id
          PROVE  a = b \/ proc'[a].id = None
      <4>1. CASE a # p /\ b # p
        BY <1>6, <3>1, <4>1 DEF TypeOK
      <4>2. CASE a = p \/ b = p
        BY <1>2, <1>6, <1>7, <3>1, <4>2
      <4> QED
        BY <4>1, <4>2
    <3> QED
      BY <3>1
  <2>2. \A x \in pool \cup reverted \cup mined \cup claims :
          /\ x.kind \in {"approve", "post"} /\ x.by \in 1 .. runs + 1
          /\ x.task \in Task /\ x.amount \in Nat
    BY <1>2 DEF TypeOK
  <2> QED
    BY <1>2, <1>4, <1>6, <2>1, <2>2 DEF TypeOK
<1>9. Numbered'
  BY <1>2, <1>4, <1>6, <1>7 DEF Numbered, None
<1>10. Mined'
  <2>1. \A q \in Slot : q # p => TxOf(q, "post")' = TxOf(q, "post")
    BY <1>6 DEF TxOf
  <2> QED
    BY <1>4, <1>6, <2>1 DEF Mined
<1>11. Backed' /\ Unverified' /\ ClaimsAreBonds' /\ NoBondAfterVerified'
  BY <1>4 DEF Backed, Unverified, ClaimsAreBonds, NoBondAfterVerified, Sufficient, Bonds
<1>12. SaidTruly'
  BY <1>3, <1>4, <1>6 DEF SaidTruly
<1>13. BeganBefore'
  BY <1>1, <1>2, <1>3, <1>4, <1>6 DEF BeganBefore, Unverified, Ended
<1> QED
  BY <1>8, <1>9, <1>10, <1>11, <1>12, <1>13

(***************************************************************************)
(* The chain and the server.                                               *)
(***************************************************************************)
LEMMA ExecuteStep ==
  ASSUME BondInv, NEW x \in pool, Execute(x)
  PROVE  BondInv'
<1> USE DEF BondInv
<1>1. /\ UNCHANGED <<runs, proc, price, status, claims, verified>>
      /\ mined \subseteq mined' /\ pool' \cup reverted' \cup mined' \subseteq
                                    pool \cup reverted \cup mined
  BY DEF Execute, server
<1>2. x.amount \in Nat /\ x.kind \in {"approve", "post"} /\ balance \in Nat /\ allowance \in Nat
  BY DEF TypeOK
<1>3. balance' \in Nat /\ allowance' \in Nat
  BY <1>2 DEF Execute, CanPost
<1>4. TypeOK'
  BY <1>1, <1>3 DEF TypeOK
<1>5. Numbered' /\ SaidTruly' /\ Unverified' /\ BeganBefore'
  BY <1>1 DEF Numbered, SaidTruly, Unverified, BeganBefore
<1>6. Mined'
  BY <1>1 DEF Mined, TxOf
<1>7. Bonds \subseteq Bonds'
  BY <1>1 DEF Bonds
<1>8. Backed' /\ ClaimsAreBonds'
  BY <1>1, <1>7 DEF Backed, Sufficient, ClaimsAreBonds
<1>9. NoBondAfterVerified'
  BY <1>1 DEF NoBondAfterVerified
<1> QED
  BY <1>4, <1>5, <1>6, <1>8, <1>9

LEMMA ServerStep ==
  ASSUME BondInv, NEW t \in Task, Reprice(t) \/ AwaitBond(t) \/ Verify(t)
  PROVE  BondInv'
<1> USE DEF BondInv
<1>1. /\ UNCHANGED <<runs, proc, balance, allowance, pool, reverted, mined, claims>>
      /\ status[t] # "posted" /\ status \in [Task -> Status] /\ price \in [Task -> Nat]
  BY DEF Reprice, AwaitBond, Verify, money, TypeOK
<1>2. UNCHANGED Bonds /\ \A p \in Slot : TxOf(p, "post")' = TxOf(p, "post")
  BY <1>1 DEF Bonds, TxOf
<1>3. Numbered' /\ Mined' /\ ClaimsAreBonds'
  BY <1>1, <1>2 DEF Numbered, Mined, ClaimsAreBonds
<1>4. CASE Reprice(t)
  <2>1. UNCHANGED <<status, verified>> /\ price' \in [Task -> Nat]
        /\ \A u \in Task : u # t => price'[u] = price[u]
    BY <1>1, <1>4, ConstantsAssumption DEF Reprice
  <2>2. TypeOK' /\ SaidTruly' /\ Unverified' /\ BeganBefore' /\ NoBondAfterVerified'
    BY <1>1, <2>1 DEF TypeOK, SaidTruly, Unverified, BeganBefore, NoBondAfterVerified
  <2>3. Backed'
    BY <1>1, <1>2, <2>1 DEF Backed, Sufficient
  <2> QED
    BY <1>3, <2>2, <2>3
<1>5. CASE AwaitBond(t)
  <2>1. UNCHANGED <<price, verified>> /\ status' \in [Task -> Status]
        /\ \A u \in Task : status'[u] = "posted" <=> status[u] = "posted"
    BY <1>1, <1>5 DEF AwaitBond, Status
  <2>2. \A p \in Slot : proc[p].task \in Task
    BY DEF TypeOK, Process
  <2>3. TypeOK' /\ SaidTruly' /\ Unverified' /\ BeganBefore' /\ NoBondAfterVerified'
    BY <1>1, <2>1, <2>2 DEF TypeOK, SaidTruly, Unverified, BeganBefore, NoBondAfterVerified
  <2>4. Backed'
    BY <1>1, <1>2, <2>1 DEF Backed, Sufficient
  <2> QED
    BY <1>3, <2>3, <2>4
<1>6. CASE Verify(t)
  <2>1. /\ UNCHANGED price /\ verified \in [Task -> 0 .. MaxRuns] /\ runs \in 0 .. MaxRuns
        /\ verified' = [verified EXCEPT ![t] = runs]
        /\ status' = [status EXCEPT ![t] = "posted"]
    BY <1>6 DEF Verify, TypeOK
  <2>2. \A p \in Slot : proc[p].task \in Task /\ proc[p].id <= runs
    BY <2>1 DEF TypeOK, Process, Numbered
  <2>3. TypeOK'
    BY <1>1, <2>1 DEF TypeOK, Status
  <2>4. SaidTruly' /\ Unverified' /\ BeganBefore'
    BY <1>1, <2>1, <2>2 DEF SaidTruly, Unverified, BeganBefore
  <2>5. NoBondAfterVerified'
    <3>1. \A x \in pool \cup reverted \cup mined : x.by \in 1 .. runs /\ x.task \in Task
      BY DEF TypeOK
    <3> QED
      BY <1>1, <2>1, <3>1 DEF NoBondAfterVerified
  <2>6. Backed'
    <3>1. \E x \in claims : x.task = t /\ Sufficient(x)
      BY <1>6 DEF Verify
    <3>2. \A x : Sufficient(x)' <=> Sufficient(x)
      BY <1>2, <2>1 DEF Sufficient
    <3> QED
      BY <1>1, <2>1, <3>1, <3>2 DEF Backed
  <2> QED
    BY <1>3, <2>3, <2>4, <2>5, <2>6
<1> QED
  BY <1>4, <1>5, <1>6

LEMMA BondInvStep == BondInv /\ [Next]_vars => BondInv'
<1> SUFFICES ASSUME BondInv, [Next]_vars PROVE BondInv'
  OBVIOUS
<1>1. CASE UNCHANGED vars
  <2>1. UNCHANGED <<runs, proc, balance, allowance, pool, reverted, mined, price, status,
                    claims, verified>>
    BY <1>1 DEF vars, money, server
  <2> QED
    BY <2>1 DEF BondInv, TypeOK, Numbered, Mined, Backed, SaidTruly, Unverified, BeganBefore,
         ClaimsAreBonds, NoBondAfterVerified, Sufficient, Bonds, TxOf
<1>2. ASSUME NEW x \in pool, Evict(x) PROVE BondInv'
  <2>1. /\ UNCHANGED <<runs, proc, balance, allowance, reverted, mined, price, status,
                       claims, verified>>
        /\ pool' \subseteq pool
    BY <1>2 DEF Evict, server
  <2> QED
    BY <2>1 DEF BondInv, TypeOK, Numbered, Mined, Backed, SaidTruly, Unverified, BeganBefore,
         ClaimsAreBonds, NoBondAfterVerified, Sufficient, Bonds, TxOf
<1> QED
  BY <1>1, <1>2, QuoteStep, CommandStep, ExecuteStep, ServerStep DEF Next

LEMMA BondInvariance == Spec => []BondInv
BY BondInvInit, BondInvStep, PTL DEF Spec

(* Every variable of BondPost has its type in every reachable state.       *)
THEOREM BondTypeCorrect == Spec => []TypeOK
<1>1. BondInv => TypeOK
  BY DEF BondInv
<1> QED
  BY <1>1, BondInvariance, PTL

(* A reported hash is a bond on chain (bond.rs:394-413).                   *)
THEOREM ClaimSafety == Spec => []ClaimsAreBonds
<1>1. BondInv => ClaimsAreBonds
  BY DEF BondInv
<1> QED
  BY <1>1, BondInvariance, PTL

(* An envelope that says posted is true (bond.rs:438-459).                 *)
THEOREM SaysSafety == Spec => []SaysPosted
<1>1. BondInv => SaysPosted
  <2>1. ASSUME BondInv, NEW p \in Slot PROVE proc[p].task \in Task
    BY <2>1 DEF BondInv, TypeOK, Process
  <2> QED
    BY <2>1 DEF BondInv, SaysPosted, SaidTruly, Backed
<1> QED
  BY <1>1, BondInvariance, PTL

(* No run that starts when the server has verified a task's bond sends     *)
(* another transaction for it (bond.rs:187-197).                           *)
THEOREM BondedOnce == Spec => []NoBondAfterVerified
<1>1. BondInv => NoBondAfterVerified
  BY DEF BondInv
<1> QED
  BY <1>1, BondInvariance, PTL
=============================================================================
