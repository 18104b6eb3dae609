-------------------------- MODULE EscrowSignProofs --------------------------
(***************************************************************************)
(* Proofs about EscrowSign, for any number of slots, bids, runs and prices *)
(* and any clock.                                                          *)
(***************************************************************************)
EXTENDS EscrowSign, TLAPS

(***************************************************************************)
(* The invariant.  A run has a salt of its own, ...                        *)
(***************************************************************************)
Begun == \A r \in Run : pc[r] # "idle" => salt[r] \in 1 .. MaxRuns

(* ... which no transaction had before it; ... *)
Known == pool \cup DOMAIN receipt
SaltsUsed == \A t \in Known : t.escrow.salt <= salt[t.escrow.by]

(* ... its open is not sent before the step that sends it, and then once, ... *)
Before == {"fetched", "balance", "allowance", "approve", "approving", "recheck", "open"}
Unsent == \A r \in Run : pc[r] \in Before =>
            opens[r] = 0 /\ TxOf(r, "open") \notin Known

(* ... so a mined open stays as it is, ... *)
OpenOnce == \A t \in pool : t.kind = "open" => t \notin DOMAIN receipt

(* ... and is there from the receipt on.  A run signs again once. *)
Funded == \A r \in Run : pc[r] \in {"finalize", "refetch"} => EscrowOf(r) \in Opened
SignedOnce == \A r \in Run : pc[r] = "refetch" => attempts[r] = 0

EscrowInv ==
  /\ TypeOK /\ Begun /\ SaltsUsed /\ Unsent /\ OpenOnce /\ Funded /\ SignedOnce
  /\ FinalizedIsFunded /\ SuccessIsFinal /\ OneOpenPerRun

(***************************************************************************)
(* Types.                                                                  *)
(***************************************************************************)

LEMMA BidType ==
  ASSUME TypeOK, NEW r \in Run
  PROVE  BidOf(r) \in Bid /\ Price(r) \in Nat
BY ConstantsAssumption DEF TypeOK, Invocation, BidOf, Price

LEMMA EscrowType ==
  ASSUME TypeOK, Begun, NEW r \in Run, pc[r] # "idle"
  PROVE  /\ EscrowOf(r) \in Escrow /\ EscrowOf(r) # NoEscrow
         /\ TxOf(r, "approve") \in Tx /\ TxOf(r, "open") \in Tx
BY BidType, ConstantsAssumption DEF Begun, EscrowOf, Escrow, TxOf, Tx

LEMMA EscrowInvInit == Init => EscrowInv
<1> SUFFICES ASSUME Init PROVE EscrowInv
  OBVIOUS
<1>1. inv \in [Run -> Invocation]
  BY ConstantsAssumption DEF Init
<1>2. Known = {}
  BY DEF Init, Known
<1>3. TypeOK
  BY <1>1, ConstantsAssumption DEF Init, TypeOK, PcValue, Ended
<1> QED
  BY <1>2, <1>3 DEF Init, EscrowInv, Begun, SaltsUsed, Unsent, OpenOnce, Funded, SignedOnce,
       FinalizedIsFunded, SuccessIsFinal, OneOpenPerRun, Before

LEMMA TypeClient ==
  ASSUME EscrowInv, NEW r \in Run, Fetch(r) \/ Step(r) \/ Fail(r)
  PROVE  TypeOK'
<1> USE DEF TypeOK, PcValue, Ended, Goto, ledger
<1>1. TypeOK /\ Begun /\ SignedOnce
  BY DEF EscrowInv
<1>2. CASE Fetch(r)
  BY <1>1, <1>2, ConstantsAssumption DEF Fetch, Issue
<1>3. CASE \/ CheckDeadline(r) \/ ReadBalance(r) \/ ReadAllowance(r) \/ ApproveReceipt(r)
           \/ Recheck(r) \/ OpenReceipt(r) \/ Fail(r)
  BY <1>1, <1>3 DEF CheckDeadline, ReadBalance, ReadAllowance, ApproveReceipt, Recheck,
       OpenReceipt, ReceiptOf, Fail
<1>4. CASE BroadcastApprove(r)
  BY <1>1, <1>4, EscrowType DEF BroadcastApprove, Broadcast
<1>5. CASE BroadcastOpen(r)
  BY <1>1, <1>5, EscrowType DEF BroadcastOpen, Broadcast
<1>6. CASE Finalize(r)
  BY <1>1, <1>6, EscrowType, BidType DEF Finalize, OnConflict
<1>7. CASE Refetch(r)
  BY <1>1, <1>7, ConstantsAssumption DEF Refetch, RefetchTo, Issue, SignedOnce
<1> QED
  BY <1>2, <1>3, <1>4, <1>5, <1>6, <1>7 DEF Step

LEMMA TypeChain ==
  ASSUME EscrowInv, Tick \/ \E t \in pool : Execute(t) \/ Evict(t)
  PROVE  TypeOK'
<1>1. TypeOK
  BY DEF EscrowInv
<1>2. CASE Tick
  BY <1>1, <1>2, ConstantsAssumption DEF TypeOK, Tick, client, ledger
<1>3. ASSUME NEW t \in pool, Execute(t) PROVE TypeOK'
  <2>1. t \in Tx /\ Total[t.escrow.bid] \in Nat
    BY <1>1, ConstantsAssumption DEF TypeOK, Tx, Escrow
  <2>2. balance' \in Nat /\ allowance' \in Nat
    BY <1>1, <1>3, <2>1 DEF TypeOK, Execute, CanOpen, ApprovalAmount, Tx
  <2>3. DOMAIN receipt' \subseteq Tx
    BY <1>1, <1>3, <2>1 DEF TypeOK, Execute
  <2> QED
    BY <1>1, <1>3, <2>2, <2>3 DEF TypeOK, Execute, client
<1>4. ASSUME NEW t \in pool, Evict(t) PROVE TypeOK'
  BY <1>1, <1>4 DEF TypeOK, Evict, client
<1> QED
  BY <1>2, <1>3, <1>4

(***************************************************************************)
(* Steps of a run that sends nothing, is not finalized and is not new.     *)
(***************************************************************************)

LEMMA QuietStep ==
  ASSUME EscrowInv, TypeOK', NEW r \in Run, NEW to,
         UNCHANGED <<salt, inv, pool, receipt, opens, final>>,
         pc' = [pc EXCEPT ![r] = to], pc[r] # "idle", to \notin {"idle", "done"},
         to \in Before => pc[r] \in Before,
         to \in {"finalize", "refetch"} => EscrowOf(r) \in Opened,
         to = "refetch" => attempts[r] = 0,
         \/ UNCHANGED attempts
         \/ to # "refetch" /\ \E n : attempts' = [attempts EXCEPT ![r] = n]
  PROVE  EscrowInv'
<1> USE DEF EscrowInv
<1>1. /\ \A q \in Run : pc'[q] = IF q = r THEN to ELSE pc[q]
      /\ \A q \in Run : q # r => attempts'[q] = attempts[q]
  BY DEF TypeOK
<1>2. /\ \A q \in Run : EscrowOf(q)' = EscrowOf(q) /\ BidOf(q)' = BidOf(q)
      /\ \A q \in Run : TxOf(q, "open")' = TxOf(q, "open")
      /\ Opened' = Opened /\ Known' = Known
  BY DEF EscrowOf, BidOf, TxOf, Opened, Known
<1>3. Begun'
  BY <1>1 DEF Begun
<1>4. SaltsUsed' /\ OpenOnce'
  BY <1>2 DEF SaltsUsed, OpenOnce
<1>5. Unsent'
  BY <1>1, <1>2 DEF Unsent
<1>6. Funded'
  BY <1>1, <1>2 DEF Funded
<1>7. SignedOnce'
  BY <1>1 DEF SignedOnce, TypeOK
<1>8. FinalizedIsFunded' /\ OneOpenPerRun'
  BY <1>2 DEF FinalizedIsFunded, OneOpenPerRun
<1>9. SuccessIsFinal'
  BY <1>1, <1>2 DEF SuccessIsFinal
<1> QED
  BY <1>3, <1>4, <1>5, <1>6, <1>7, <1>8, <1>9

(* A receipt that says ok is an escrow on chain. *)
LEMMA MinedIsOpened ==
  ASSUME NEW r \in Run, TxOf(r, "open") \in DOMAIN receipt, receipt[TxOf(r, "open")] = "ok"
  PROVE  EscrowOf(r) \in Opened
<1> DEFINE x == TxOf(r, "open")
<1>1. x.kind = "open" /\ x.escrow = EscrowOf(r)
  BY DEF TxOf
<1>2. x \in {y \in DOMAIN receipt : y.kind = "open" /\ receipt[y] = "ok"}
  BY <1>1
<1> QED
  BY <1>1, <1>2 DEF Opened

LEMMA QuietSteps ==
  ASSUME EscrowInv, TypeOK', NEW r \in Run,
         \/ CheckDeadline(r) \/ ReadBalance(r) \/ ReadAllowance(r) \/ ApproveReceipt(r)
         \/ Recheck(r) \/ OpenReceipt(r) \/ Refetch(r) \/ Fail(r)
  PROVE  EscrowInv'
<1> USE DEF Goto, ledger
<1>1. CASE CheckDeadline(r)
  <2>1. PICK to \in {"failed", "open", "balance"} : pc' = [pc EXCEPT ![r] = to]
    BY <1>1 DEF CheckDeadline
  <2> QED
    BY <1>1, <2>1, QuietStep DEF CheckDeadline, Before
<1>2. CASE ReadBalance(r)
  <2>1. PICK to \in {"failed", "allowance"} : pc' = [pc EXCEPT ![r] = to]
    BY <1>2 DEF ReadBalance
  <2> QED
    BY <1>2, <2>1, QuietStep DEF ReadBalance, Before
<1>3. CASE ReadAllowance(r)
  <2>1. PICK to \in {"approve", "open"} : pc' = [pc EXCEPT ![r] = to]
    BY <1>3 DEF ReadAllowance
  <2> QED
    BY <1>3, <2>1, QuietStep DEF ReadAllowance, Before
<1>4. CASE ApproveReceipt(r)
  <2>1. PICK to \in {"recheck", "failed"} : pc' = [pc EXCEPT ![r] = to]
    BY <1>4 DEF ApproveReceipt, ReceiptOf
  <2> QED
    BY <1>4, <2>1, QuietStep DEF ApproveReceipt, ReceiptOf, Before
<1>5. CASE Recheck(r)
  <2>1. PICK to \in {"failed", "open"} : pc' = [pc EXCEPT ![r] = to]
    BY <1>5 DEF Recheck
  <2> QED
    BY <1>5, <2>1, QuietStep DEF Recheck, Before
<1>6. CASE OpenReceipt(r)
  <2>1. CASE receipt[TxOf(r, "open")] = "ok"
    <3>1. pc' = [pc EXCEPT ![r] = "finalize"] /\ EscrowOf(r) \in Opened
      BY <1>6, <2>1, MinedIsOpened DEF OpenReceipt, ReceiptOf
    <3> QED
      BY <1>6, <3>1, QuietStep DEF OpenReceipt, ReceiptOf, Before
  <2>2. CASE receipt[TxOf(r, "open")] # "ok"
    <3>1. pc' = [pc EXCEPT ![r] = "failed"]
      BY <1>6, <2>2 DEF OpenReceipt, ReceiptOf
    <3> QED
      BY <1>6, <3>1, QuietStep DEF OpenReceipt, ReceiptOf, Before
  <2> QED
    BY <2>1, <2>2
<1>7. CASE Refetch(r)
  <2>1. PICK to \in {"finalize", "failed"} : pc' = [pc EXCEPT ![r] = to]
    BY <1>7 DEF Refetch, RefetchTo
  <2>2. pc[r] = "refetch" /\ EscrowOf(r) \in Opened
    BY <1>7 DEF Refetch, RefetchTo, EscrowInv, Funded
  <2>3. attempts' = [attempts EXCEPT ![r] = attempts[r] + 1]
    BY <1>7 DEF Refetch, RefetchTo
  <2> HIDE DEF Goto
  <2> QED
    BY <1>7, <2>1, <2>2, <2>3, QuietStep DEF Refetch, RefetchTo, Before
<1>8. CASE Fail(r)
  BY <1>8, QuietStep DEF Fail, Before, Ended
<1> QED
  BY <1>1, <1>2, <1>3, <1>4, <1>5, <1>6, <1>7, <1>8

(***************************************************************************)
(* A new run, the two broadcasts, and finalize.                            *)
(***************************************************************************)

(* No transaction has the salt of the new run. *)
LEMMA FetchStep ==
  ASSUME EscrowInv, TypeOK', NEW r \in Run, Fetch(r)
  PROVE  EscrowInv'
<1> USE DEF EscrowInv
<1>1. /\ pc'[r] \in {"fetched", "failed"} /\ salt'[r] = salt[r] + 1
      /\ opens' = [opens EXCEPT ![r] = 0]
      /\ \A q \in Run : q # r => pc'[q] = pc[q] /\ salt'[q] = salt[q]
      /\ UNCHANGED <<inv, pool, receipt, final>>
  BY DEF Fetch, Goto, TypeOK
<1>2. \A q \in Run : salt[q] \in Nat /\ salt'[q] \in 0 .. MaxRuns /\ salt'[q] >= salt[q]
  BY <1>1, ConstantsAssumption DEF TypeOK
<1>3. /\ \A q \in Run : q # r => EscrowOf(q)' = EscrowOf(q)
      /\ \A q \in Run : q # r => TxOf(q, "open")' = TxOf(q, "open")
      /\ \A q \in Run : BidOf(q)' = BidOf(q)
      /\ Opened' = Opened /\ Known' = Known
  BY <1>1 DEF EscrowOf, BidOf, TxOf, Opened, Known
<1>4. Begun'
  BY <1>1, <1>2, ConstantsAssumption DEF Begun
<1>5. SaltsUsed'
  <2>1. ASSUME NEW t \in Known PROVE t.escrow.salt <= salt'[t.escrow.by]
    <3>1. t \in Tx /\ t.escrow.by \in Run /\ t.escrow.salt \in Nat
      BY ConstantsAssumption DEF Known, TypeOK, Tx, Escrow
    <3>2. t.escrow.salt <= salt[t.escrow.by]
      BY DEF SaltsUsed
    <3> QED
      BY <1>2, <3>1, <3>2
  <2> QED
    BY <1>3, <2>1 DEF SaltsUsed
<1>6. TxOf(r, "open")' \notin Known
  <2>1. TxOf(r, "open")'.escrow.salt = salt[r] + 1 /\ TxOf(r, "open")'.escrow.by = r
    BY <1>1 DEF TxOf, EscrowOf
  <2> QED
    BY <1>2, <2>1 DEF SaltsUsed
<1>7. Unsent'
  BY <1>1, <1>3, <1>6 DEF Unsent, TypeOK
<1>8. OpenOnce' /\ Funded' /\ SignedOnce'
  <2>1. \A q \in Run : q # r => attempts'[q] = attempts[q]
    BY DEF Fetch, TypeOK
  <2> QED
    BY <1>1, <1>3, <2>1 DEF OpenOnce, Funded, SignedOnce
<1>9. FinalizedIsFunded' /\ SuccessIsFinal' /\ OneOpenPerRun'
  BY <1>1, <1>3 DEF FinalizedIsFunded, SuccessIsFinal, OneOpenPerRun, TypeOK
<1> QED
  BY <1>4, <1>5, <1>7, <1>8, <1>9

(* What goes into the pool is of the run that sends it. *)
LEMMA BroadcastStep ==
  ASSUME EscrowInv, TypeOK', NEW r \in Run, NEW kind \in {"approve", "open"}, NEW next,
         pc[r] \in Before, Broadcast(r, kind, next),
         kind = "approve" => next = "approving",
         kind = "open" => next = "opening"
  PROVE  EscrowInv'
<1> USE DEF EscrowInv
<1> DEFINE tx == TxOf(r, kind)
<1>1. PICK to \in {next, "failed"} : pc' = [pc EXCEPT ![r] = to]
  BY DEF Broadcast, Goto
<1>2. /\ \A q \in Run : pc'[q] = IF q = r THEN to ELSE pc[q]
      /\ pool' = pool \cup {tx}
      /\ UNCHANGED <<salt, inv, attempts, receipt, final>>
  BY <1>1 DEF Broadcast, TypeOK
<1>3. /\ \A q \in Run : EscrowOf(q)' = EscrowOf(q) /\ BidOf(q)' = BidOf(q)
      /\ \A q \in Run : TxOf(q, "open")' = TxOf(q, "open")
      /\ Opened' = Opened /\ Known' = Known \cup {tx}
  BY <1>2 DEF EscrowOf, BidOf, TxOf, Opened, Known
<1>4. /\ tx.kind = kind /\ tx.escrow.by = r /\ tx.escrow.salt = salt[r]
      /\ salt[r] \in Nat
  BY ConstantsAssumption DEF TxOf, EscrowOf, TypeOK
<1>5. kind = "open" => to \notin Before /\ opens[r] = 0 /\ tx \notin Known
  BY DEF Unsent, Before
<1>6. \A q \in Run : opens'[q] = IF q = r /\ kind = "open" THEN opens[q] + 1 ELSE opens[q]
  BY DEF Broadcast, TypeOK
<1>7. Begun'
  BY <1>2 DEF Begun, Before
<1>8. SaltsUsed'
  BY <1>2, <1>3, <1>4 DEF SaltsUsed
<1>9. Unsent'
  <2>1. ASSUME NEW q \in Run, pc'[q] \in Before
        PROVE  opens'[q] = 0 /\ TxOf(q, "open") \notin Known \cup {tx}
    <3>1. pc[q] \in Before
      BY <1>2, <2>1
    <3>2. ~(q = r /\ kind = "open")
      BY <1>2, <1>5, <2>1
    <3>3. TxOf(q, "open") # tx
      BY <3>2 DEF TxOf, EscrowOf
    <3> QED
      BY <1>6, <3>1, <3>2, <3>3 DEF Unsent
  <2> QED
    BY <1>3, <2>1 DEF Unsent
<1>10. OpenOnce'
  BY <1>2, <1>4, <1>5 DEF OpenOnce, Known
<1>11. Funded' /\ SignedOnce' /\ FinalizedIsFunded' /\ SuccessIsFinal'
  BY <1>2, <1>3 DEF Funded, SignedOnce, FinalizedIsFunded, SuccessIsFinal
<1>12. OneOpenPerRun'
  BY <1>5, <1>6 DEF OneOpenPerRun
<1> QED
  BY <1>7, <1>8, <1>9, <1>10, <1>11, <1>12

LEMMA FinalizeStep ==
  ASSUME EscrowInv, TypeOK', NEW r \in Run, Finalize(r)
  PROVE  EscrowInv'
<1> USE DEF EscrowInv
<1>1. /\ pc[r] = "finalize" /\ EscrowOf(r) \in Opened
      /\ UNCHANGED <<salt, inv, pool, receipt, opens, attempts>>
  BY DEF Finalize, Funded, ledger
<1>2. CASE UNCHANGED final
  <2>1. PICK to \in {"failed", "refetch"} :
          pc' = [pc EXCEPT ![r] = to] /\ (to = "refetch" => attempts[r] = 0)
    <3>1. EscrowOf(r) # NoEscrow /\ BidOf(r) \in Bid
      BY <1>1, EscrowType, BidType
    <3>2. final'[BidOf(r)] = final[BidOf(r)]
      BY <1>2
    <3> QED
      BY <3>1, <3>2 DEF Finalize, OnConflict, Goto, SignAgain, TypeOK
  <2> QED
    BY <1>1, <1>2, <2>1, QuietStep DEF Before
<1>3. CASE /\ final[BidOf(r)] = NoEscrow
           /\ final' = [final EXCEPT ![BidOf(r)] = EscrowOf(r)]
           /\ Goto(r, "done") \/ Goto(r, "failed")
  <2>1. PICK to \in {"done", "failed"} : pc' = [pc EXCEPT ![r] = to]
    BY <1>3 DEF Goto
  <2>2. \A q \in Run : pc'[q] = IF q = r THEN to ELSE pc[q]
    BY <2>1 DEF TypeOK
  <2>3. /\ \A q \in Run : EscrowOf(q)' = EscrowOf(q) /\ BidOf(q)' = BidOf(q)
        /\ \A q \in Run : TxOf(q, "open")' = TxOf(q, "open")
        /\ Opened' = Opened /\ Known' = Known
    BY <1>1 DEF EscrowOf, BidOf, TxOf, Opened, Known
  <2>4. \A b \in Bid : final'[b] = IF b = BidOf(r) THEN EscrowOf(r) ELSE final[b]
    BY <1>3, BidType DEF TypeOK
  <2>5. Begun' /\ Unsent' /\ Funded' /\ SignedOnce'
    BY <1>1, <2>2, <2>3 DEF Begun, Unsent, Funded, SignedOnce, Before
  <2>6. SaltsUsed' /\ OpenOnce' /\ OneOpenPerRun'
    BY <1>1, <2>3 DEF SaltsUsed, OpenOnce, OneOpenPerRun
  <2>7. FinalizedIsFunded'
    BY <1>1, <2>3, <2>4 DEF FinalizedIsFunded
  <2>8. SuccessIsFinal'
    <3>1. ASSUME NEW q \in Run, pc'[q] = "done" PROVE final'[BidOf(q)] = EscrowOf(q)
      <4>1. CASE q = r
        BY <2>4, <4>1, BidType
      <4>2. CASE q # r
        <5>1. final[BidOf(q)] = EscrowOf(q) /\ EscrowOf(q) # NoEscrow /\ BidOf(q) \in Bid
          BY <2>2, <3>1, <4>2, EscrowType, BidType DEF SuccessIsFinal
        <5> QED
          BY <1>3, <2>4, <5>1
      <4> QED
        BY <4>1, <4>2
    <3> QED
      BY <2>3, <3>1 DEF SuccessIsFinal
  <2> QED
    BY <2>5, <2>6, <2>7, <2>8
<1> QED
  BY <1>2, <1>3 DEF Finalize

(***************************************************************************)
(* The chain and the clock.                                                *)
(***************************************************************************)

(* Executing a transaction does not take an escrow away: an open is        *)
(* executed once.                                                          *)
LEMMA OpenedStays ==
  ASSUME EscrowInv, NEW t \in pool, Execute(t)
  PROVE  Opened \subseteq Opened'
<1> SUFFICES ASSUME NEW e \in Opened PROVE e \in Opened'
  OBVIOUS
<1>1. PICK x \in DOMAIN receipt : x.kind = "open" /\ receipt[x] = "ok" /\ x.escrow = e
  BY DEF Opened
<1>2. x # t
  BY <1>1 DEF EscrowInv, OpenOnce
<1>3. x \in DOMAIN receipt' /\ receipt'[x] = "ok"
  BY <1>1, <1>2 DEF Execute
<1>4. x \in {y \in DOMAIN receipt' : y.kind = "open" /\ receipt'[y] = "ok"}
  BY <1>1, <1>3
<1> QED
  BY <1>1, <1>4 DEF Opened

LEMMA ChainStep ==
  ASSUME EscrowInv, TypeOK', Tick \/ \E t \in pool : Execute(t) \/ Evict(t)
  PROVE  EscrowInv'
<1> USE DEF EscrowInv
<1>1. /\ UNCHANGED <<pc, salt, inv, attempts, opens, final>>
      /\ pool' \subseteq pool /\ Known' \subseteq Known
      /\ \A x \in pool' : x \in DOMAIN receipt' => x \in DOMAIN receipt
      /\ Opened \subseteq Opened'
  <2>1. CASE Tick
    BY <2>1 DEF Tick, client, ledger, Known, Opened
  <2>2. ASSUME NEW t \in pool, Execute(t)
        PROVE  /\ pool' = pool \ {t} /\ DOMAIN receipt' = DOMAIN receipt \cup {t}
               /\ UNCHANGED <<pc, salt, inv, attempts, opens, final>>
    BY <2>2 DEF Execute, client
  <2>3. ASSUME NEW t \in pool, Evict(t)
        PROVE  /\ pool' = pool \ {t} /\ receipt' = receipt
               /\ UNCHANGED <<pc, salt, inv, attempts, opens, final>>
    BY <2>3 DEF Evict, client
  <2>4. ASSUME NEW t \in pool, Evict(t) PROVE Opened' = Opened
    BY <2>3, <2>4 DEF Opened
  <2> QED
    BY <2>1, <2>2, <2>3, <2>4, OpenedStays DEF Known
<1>2. /\ \A q \in Run : EscrowOf(q)' = EscrowOf(q) /\ BidOf(q)' = BidOf(q)
      /\ \A q \in Run : TxOf(q, "open")' = TxOf(q, "open")
  BY <1>1 DEF EscrowOf, BidOf, TxOf
<1>3. Begun' /\ SaltsUsed' /\ Unsent' /\ OpenOnce'
  BY <1>1, <1>2 DEF Begun, SaltsUsed, Unsent, OpenOnce
<1>4. Funded' /\ SignedOnce' /\ FinalizedIsFunded' /\ SuccessIsFinal' /\ OneOpenPerRun'
  BY <1>1, <1>2 DEF Funded, SignedOnce, FinalizedIsFunded, SuccessIsFinal, OneOpenPerRun
<1> QED
  BY <1>3, <1>4

LEMMA EscrowInvStep == EscrowInv /\ [Next]_vars => EscrowInv'
<1> SUFFICES ASSUME EscrowInv, [Next]_vars PROVE EscrowInv'
  OBVIOUS
<1>1. CASE UNCHANGED vars
  <2>1. UNCHANGED <<now, pc, salt, inv, deadline, attempts, balance, allowance, pool, receipt,
                    final, opens, touched>>
    BY <1>1 DEF vars
  <2> QED
    BY <2>1 DEF EscrowInv, TypeOK, Begun, SaltsUsed, Unsent, OpenOnce, Funded, SignedOnce,
         FinalizedIsFunded, SuccessIsFinal, OneOpenPerRun, Known, Opened, EscrowOf, BidOf, TxOf
<1>2. ASSUME NEW r \in Run, Fetch(r) PROVE EscrowInv'
  BY <1>2, TypeClient, FetchStep
<1>3. ASSUME NEW r \in Run, Step(r) PROVE EscrowInv'
  <2>1. TypeOK'
    BY <1>3, TypeClient
  <2>2. CASE BroadcastApprove(r)
    BY <2>1, <2>2, BroadcastStep DEF BroadcastApprove, Before
  <2>3. CASE BroadcastOpen(r)
    <3>1. CASE Broadcast(r, "open", "opening")
      BY <2>1, <2>3, <3>1, BroadcastStep DEF BroadcastOpen, Before
    <3>2. CASE Goto(r, "failed") /\ UNCHANGED <<salt, inv, attempts, ledger, final>>
      <4>1. /\ pc[r] # "idle" /\ pc' = [pc EXCEPT ![r] = "failed"]
            /\ "failed" \notin Before \cup {"idle", "done", "finalize", "refetch"}
        BY <2>3, <3>2 DEF BroadcastOpen, Goto, Before
      <4>2. UNCHANGED <<salt, inv, attempts, pool, receipt, opens, final>>
        BY <3>2 DEF ledger
      <4> QED
        BY <2>1, <4>1, <4>2, QuietStep
    <3> QED
      BY <2>3, <3>1, <3>2 DEF BroadcastOpen
  <2>4. CASE Finalize(r)
    BY <2>1, <2>4, FinalizeStep
  <2> QED
    BY <1>3, <2>1, <2>2, <2>3, <2>4, QuietSteps DEF Step
<1>4. ASSUME NEW r \in Run, Fail(r) PROVE EscrowInv'
  BY <1>4, TypeClient, QuietSteps
<1>5. CASE Tick \/ \E t \in pool : Execute(t) \/ Evict(t)
  BY <1>5, TypeChain, ChainStep
<1> QED
  BY <1>1, <1>2, <1>3, <1>4, <1>5 DEF Next

LEMMA EscrowInvariance == Spec => []EscrowInv
BY EscrowInvInit, EscrowInvStep, PTL DEF Spec

(* Every variable of EscrowSign has its type in every reachable state. *)
THEOREM EscrowTypeCorrect == Spec => []TypeOK
<1>1. EscrowInv => TypeOK
  BY DEF EscrowInv
<1> QED
  BY <1>1, EscrowInvariance, PTL

(* A finalized bid names an escrow that is on chain, whatever other runs do *)
(* and whatever is lost (escrow.rs:470).                                    *)
THEOREM FinalizedSafety == Spec => []FinalizedIsFunded
<1>1. EscrowInv => FinalizedIsFunded
  BY DEF EscrowInv
<1> QED
  BY <1>1, EscrowInvariance, PTL

(* A run that reports success opened the very escrow its bid is final with. *)
THEOREM SuccessSafety == Spec => []SuccessIsFinal
<1>1. EscrowInv => SuccessIsFinal
  BY DEF EscrowInv
<1> QED
  BY <1>1, EscrowInvariance, PTL

(* No run sends its open twice, also not when it signs again                *)
(* (escrow.rs:481-487).                                                     *)
THEOREM OpenSafety == Spec => []OneOpenPerRun
<1>1. EscrowInv => OneOpenPerRun
  BY DEF EscrowInv
<1> QED
  BY <1>1, EscrowInvariance, PTL

(***************************************************************************)
(* The preflight.  What a run has read of the wallet still holds unless    *)
(* another run's transaction was executed since.                           *)
(***************************************************************************)

Solvent(r) ==
  /\ pc[r] \in {"allowance", "approve", "approving", "recheck", "open"} =>
       balance >= Price(r)
  /\ pc[r] = "open" => allowance >= Price(r)
Preflight == \A r \in Run : inv[r].skip \/ touched[r] \/ Solvent(r)

LEMMA PreflightRun ==
  ASSUME EscrowInv, TypeOK', Preflight, NEW r \in Run, Fetch(r) \/ Step(r) \/ Fail(r)
  PROVE  Preflight'
<1> USE DEF EscrowInv
<1>1. /\ UNCHANGED <<inv, balance, allowance>>
      /\ \A q \in Run : q # r => pc'[q] = pc[q] /\ touched'[q] = touched[q]
  BY DEF Step, Fetch, CheckDeadline, ReadBalance, ReadAllowance, BroadcastApprove,
       ApproveReceipt, Recheck, BroadcastOpen, OpenReceipt, Finalize, Refetch, RefetchTo, Fail,
       Broadcast, ReceiptOf, Goto, ledger, TypeOK
<1>2. \A q \in Run : Price(q)' = Price(q)
  BY <1>1 DEF Price, BidOf
<1>3. ASSUME NEW q \in Run, q # r PROVE inv'[q].skip \/ touched'[q] \/ Solvent(q)'
  BY <1>1, <1>2, <1>3 DEF Preflight, Solvent
<1>4. inv'[r].skip \/ touched'[r] \/ Solvent(r)'
  <2>1. inv[r].skip \/ touched[r] \/ Solvent(r)
    BY DEF Preflight
  <2>2. Price(r) \in Nat /\ balance \in Nat /\ allowance \in Nat
    BY BidType DEF TypeOK
  <2> USE DEF Goto, TypeOK, Solvent
  <2>3. CASE Fetch(r)
    BY <2>3 DEF Fetch
  <2>4. CASE CheckDeadline(r)
    BY <1>1, <2>4 DEF CheckDeadline
  <2>5. CASE ReadBalance(r)
    BY <1>1, <1>2, <2>2, <2>5 DEF ReadBalance
  <2>6. CASE ReadAllowance(r) \/ Recheck(r)
    BY <1>1, <1>2, <2>1, <2>2, <2>6 DEF ReadAllowance, Recheck, Short, ledger
  <2>7. CASE BroadcastApprove(r) \/ ApproveReceipt(r)
    BY <1>1, <1>2, <2>1, <2>7 DEF BroadcastApprove, ApproveReceipt, Broadcast, ReceiptOf, ledger
  <2>8. CASE \/ BroadcastOpen(r) \/ OpenReceipt(r) \/ Finalize(r) \/ Refetch(r) \/ Fail(r)
    <3>1. pc'[r] \in {"opening", "finalize", "refetch", "done", "failed"}
      BY <2>8 DEF BroadcastOpen, OpenReceipt, Finalize, Refetch, RefetchTo, Fail, Broadcast,
           ReceiptOf, OnConflict
    <3> QED
      BY <3>1
  <2> QED
    BY <2>3, <2>4, <2>5, <2>6, <2>7, <2>8 DEF Step
<1> QED
  BY <1>3, <1>4 DEF Preflight

(* A run's own approval gives it what it needs, its open is not sent yet. *)
LEMMA PreflightExecute ==
  ASSUME EscrowInv, Preflight, NEW t \in pool, Execute(t)
  PROVE  Preflight'
<1> USE DEF EscrowInv
<1>1. t \in Tx /\ Total[t.escrow.bid] \in Nat /\ balance \in Nat /\ allowance \in Nat
  BY ConstantsAssumption DEF TypeOK, Tx, Escrow
<1>2. UNCHANGED <<pc, inv, salt>>
  BY DEF Execute, client
<1>3. ASSUME NEW q \in Run, ~inv[q].skip, ~touched'[q] PROVE Solvent(q)'
  <2>1. ~touched[q] /\ Solvent(q) /\ Price(q) \in Nat
    BY <1>3, BidType DEF Preflight, Execute, TypeOK
  <2>2. Price(q)' = Price(q) /\ EscrowOf(q)' = EscrowOf(q)
    BY <1>2 DEF Price, BidOf, EscrowOf
  <2>3. CASE t.escrow = EscrowOf(q) /\ t.kind = "approve"
    <3>1. t.escrow.bid = BidOf(q)
      BY <2>3 DEF EscrowOf
    <3>2. allowance' = Price(q) /\ balance' = balance
      BY <2>3, <3>1 DEF Execute, ApprovalAmount, Price
    <3> QED
      BY <1>2, <2>1, <2>2, <3>2 DEF Solvent
  <2>4. CASE t.escrow = EscrowOf(q) /\ t.kind = "open"
    <3>1. t = TxOf(q, "open")
      BY <1>1, <2>4 DEF Tx, TxOf
    <3>2. pc[q] \notin Before
      BY <3>1 DEF Unsent, Known
    <3> QED
      BY <1>2, <3>2 DEF Solvent, Before
  <2>5. CASE t.escrow # EscrowOf(q)
    <3>1. t.kind = "open" /\ ~CanOpen(t.escrow.bid)
      BY <1>1, <1>3, <2>5 DEF Execute, Tx
    <3>2. UNCHANGED <<balance, allowance>>
      BY <3>1 DEF Execute
    <3> QED
      BY <1>2, <2>1, <2>2, <3>2 DEF Solvent
  <2> QED
    BY <1>1, <2>3, <2>4, <2>5 DEF Tx
<1> QED
  BY <1>2, <1>3 DEF Preflight

LEMMA PreflightStep ==
  ASSUME EscrowInv, EscrowInv', Preflight, [Next]_vars
  PROVE  Preflight'
<1>1. CASE UNCHANGED <<pc, inv, balance, allowance, touched>>
  BY <1>1 DEF Preflight, Solvent, Price, BidOf
<1>2. UNCHANGED vars => UNCHANGED <<pc, inv, balance, allowance, touched>>
  BY DEF vars
<1>3. ASSUME NEW t \in pool, Evict(t) PROVE UNCHANGED <<pc, inv, balance, allowance, touched>>
  BY <1>3 DEF Evict, client
<1>4. Tick => UNCHANGED <<pc, inv, balance, allowance, touched>>
  BY DEF Tick, client, ledger
<1>5. TypeOK'
  BY DEF EscrowInv
<1> QED
  BY <1>1, <1>2, <1>3, <1>4, <1>5, PreflightRun, PreflightExecute DEF Next

(* Past the preflight the open of a run can succeed, unless another run's   *)
(* transaction moved the balance or the allowance in between                *)
(* (escrow.rs:424-459).                                                     *)
THEOREM PreflightSafety == Spec => []PreflightSound
<1>1. Init => Preflight
  BY DEF Init, Preflight, Solvent
<1>2. EscrowInv /\ Preflight => PreflightSound
  BY DEF Preflight, Solvent, PreflightSound, CanOpen, Price
<1>3. EscrowInv /\ EscrowInv' /\ Preflight /\ [Next]_vars => Preflight'
  BY PreflightStep
<1> QED
  BY <1>1, <1>2, <1>3, EscrowInvariance, PTL DEF Spec

(***************************************************************************)
(* The allowance.  A run's approval is sent at the step that sends it, and *)
(* is waited for; ...                                                      *)
(***************************************************************************)

ApproveUnsent == \A r \in Run : pc[r] \in {"fetched", "balance", "allowance", "approve"} =>
                   TxOf(r, "approve") \notin Known
ApprovePending == \A r \in Run : TxOf(r, "approve") \in pool =>
                    /\ pc[r] \in {"approving", "failed"}
                    /\ TxOf(r, "approve") \notin DOMAIN receipt

(* ... so an allowance left is at most the price of an open that is still   *)
(* to come, unless a run has failed (a second run may follow a failed one). *)
Owing == {"approving", "recheck", "open", "opening"}
Owed(r) ==
  \/ salt[r] > 1
  \/ pc[r] = "failed"
  \/ pc[r] \in Owing /\ EscrowOf(r) \notin Opened /\ allowance <= Price(r)
AllowanceOwed == allowance = 0 \/ \E r \in Run : Owed(r)

(* A slot runs the same command every time. *)
OwnBid == \A t \in Known : t.escrow.bid = BidOf(t.escrow.by)

AllowanceInv == ApproveUnsent /\ ApprovePending /\ OwnBid /\ AllowanceOwed

(* Steps of a run that leave the pool and the receipts alone. *)
LEMMA AllowanceQuiet ==
  ASSUME EscrowInv, AllowanceInv, NEW r \in Run, NEW to,
         UNCHANGED <<salt, inv, allowance, pool, receipt>>,
         pc' = [pc EXCEPT ![r] = to],
         to \in {"fetched", "balance", "allowance", "approve"} =>
           pc[r] \in {"fetched", "balance", "allowance", "approve"},
         pc[r] = "approving" /\ to # "failed" => TxOf(r, "approve") \in DOMAIN receipt,
         pc[r] = "failed" => to = "failed",
         pc[r] \in Owing /\ EscrowOf(r) \notin Opened => to \in Owing \cup {"failed"}
  PROVE  AllowanceInv'
<1> USE DEF EscrowInv, AllowanceInv
<1>1. \A q \in Run : pc'[q] = IF q = r THEN to ELSE pc[q]
  BY DEF TypeOK
<1>2. /\ \A q \in Run : EscrowOf(q)' = EscrowOf(q) /\ Price(q)' = Price(q)
      /\ \A q \in Run : TxOf(q, "approve")' = TxOf(q, "approve")
      /\ Opened' = Opened /\ Known' = Known
  BY DEF EscrowOf, BidOf, Price, TxOf, Opened, Known
<1>3. ApproveUnsent'
  BY <1>1, <1>2 DEF ApproveUnsent
<1>4. ApprovePending'
  BY <1>1, <1>2 DEF ApprovePending
<1>5. AllowanceOwed'
  <2>1. ASSUME NEW q \in Run, Owed(q) PROVE Owed(q)'
    BY <1>1, <1>2, <2>1 DEF Owed
  <2> QED
    BY <2>1 DEF AllowanceOwed
<1>6. OwnBid'
  BY <1>2 DEF OwnBid, BidOf
<1> QED
  BY <1>3, <1>4, <1>5, <1>6

(* A new run is the slot's first, or counts from now on. *)
LEMMA AllowanceFetch ==
  ASSUME EscrowInv, AllowanceInv, NEW r \in Run, Fetch(r)
  PROVE  AllowanceInv'
<1> USE DEF EscrowInv, AllowanceInv
<1>1. /\ pc'[r] \in {"fetched", "failed"} /\ salt'[r] = salt[r] + 1 /\ pc[r] \in Ended
      /\ \A q \in Run : q # r => pc'[q] = pc[q] /\ salt'[q] = salt[q]
      /\ UNCHANGED <<inv, allowance, pool, receipt>>
  BY DEF Fetch, Goto, TypeOK
<1>2. /\ \A q \in Run : q # r => EscrowOf(q)' = EscrowOf(q)
      /\ \A q \in Run : q # r => TxOf(q, "approve")' = TxOf(q, "approve")
      /\ \A q \in Run : Price(q)' = Price(q)
      /\ Opened' = Opened /\ Known' = Known
  BY <1>1 DEF EscrowOf, BidOf, Price, TxOf, Opened, Known
<1>3. TxOf(r, "approve")' \notin Known
  <2>1. TxOf(r, "approve")'.escrow.salt = salt[r] + 1 /\ TxOf(r, "approve")'.escrow.by = r
    BY <1>1 DEF TxOf, EscrowOf
  <2> QED
    BY <2>1 DEF SaltsUsed, TypeOK
<1>4. ApproveUnsent'
  BY <1>1, <1>2, <1>3 DEF ApproveUnsent
<1>5. ApprovePending'
  BY <1>1, <1>2, <1>3 DEF ApprovePending, Known
<1>6. AllowanceOwed'
  <2>1. ASSUME NEW q \in Run, Owed(q) PROVE Owed(q)'
    <3>1. CASE q = r
      <4>1. pc[r] # "idle" => salt[r] \in Nat /\ salt[r] >= 1
        BY ConstantsAssumption DEF Begun
      <4>2. salt[r] > 1 \/ pc[r] # "idle"
        BY <2>1, <3>1 DEF Owed, Owing
      <4>3. salt'[r] > 1
        BY <1>1, <4>1, <4>2 DEF TypeOK
      <4> QED
        BY <3>1, <4>3 DEF Owed
    <3>2. CASE q # r
      BY <1>1, <1>2, <2>1, <3>2 DEF Owed
    <3> QED
      BY <3>1, <3>2
  <2> QED
    BY <1>1, <2>1 DEF AllowanceOwed
<1>7. OwnBid'
  BY <1>1, <1>2 DEF OwnBid, BidOf
<1> QED
  BY <1>4, <1>5, <1>6, <1>7

LEMMA AllowanceBroadcast ==
  ASSUME EscrowInv, AllowanceInv, NEW r \in Run, NEW kind \in {"approve", "open"}, NEW next,
         Broadcast(r, kind, next),
         kind = "approve" => pc[r] = "approve" /\ next = "approving",
         kind = "open" => pc[r] = "open" /\ next = "opening"
  PROVE  AllowanceInv'
<1> USE DEF EscrowInv, AllowanceInv
<1> DEFINE tx == TxOf(r, kind)
<1>1. PICK to \in {next, "failed"} : pc' = [pc EXCEPT ![r] = to]
  BY DEF Broadcast, Goto
<1>2. /\ \A q \in Run : pc'[q] = IF q = r THEN to ELSE pc[q]
      /\ pool' = pool \cup {tx}
      /\ UNCHANGED <<salt, inv, allowance, receipt>>
  BY <1>1 DEF Broadcast, TypeOK
<1>3. /\ \A q \in Run : EscrowOf(q)' = EscrowOf(q) /\ Price(q)' = Price(q)
      /\ \A q \in Run : TxOf(q, "approve")' = TxOf(q, "approve")
      /\ Opened' = Opened /\ Known' = Known \cup {tx}
  BY <1>2 DEF EscrowOf, BidOf, Price, TxOf, Opened, Known
<1>4. \A q \in Run : TxOf(q, "approve") = tx => q = r /\ kind = "approve"
  BY DEF TxOf, EscrowOf
<1>5. ApproveUnsent'
  BY <1>1, <1>2, <1>3, <1>4 DEF ApproveUnsent
<1>6. ApprovePending'
  <2>1. ASSUME NEW q \in Run, TxOf(q, "approve") \in pool \cup {tx}
        PROVE  pc'[q] \in {"approving", "failed"} /\ TxOf(q, "approve") \notin DOMAIN receipt
    <3>1. CASE q = r /\ kind = "approve"
      <4>1. tx \notin Known
        BY <3>1 DEF ApproveUnsent
      <4> QED
        BY <1>1, <1>2, <3>1, <4>1 DEF Known
    <3>2. CASE q = r /\ kind = "open"
      BY <1>4, <2>1, <3>2 DEF ApprovePending
    <3>3. CASE q # r
      BY <1>2, <1>4, <2>1, <3>3 DEF ApprovePending
    <3> QED
      BY <3>1, <3>2, <3>3
  <2> QED
    BY <1>2, <1>3, <2>1 DEF ApprovePending
<1>7. AllowanceOwed'
  <2>1. ASSUME NEW q \in Run, Owed(q) PROVE Owed(q)'
    BY <1>1, <1>2, <1>3, <2>1 DEF Owed, Owing
  <2> QED
    BY <1>2, <2>1 DEF AllowanceOwed
<1>8. OwnBid'
  <2>1. tx.escrow.by = r /\ tx.escrow.bid = BidOf(r)
    BY DEF TxOf, EscrowOf
  <2>2. \A q : BidOf(q)' = BidOf(q)
    BY <1>2 DEF BidOf
  <2> QED
    BY <1>3, <2>1, <2>2 DEF OwnBid
<1> QED
  BY <1>5, <1>6, <1>7, <1>8

LEMMA AllowanceRun ==
  ASSUME EscrowInv, AllowanceInv, NEW r \in Run, Fetch(r) \/ Step(r) \/ Fail(r)
  PROVE  AllowanceInv'
<1> USE DEF Goto, ledger
<1>1. CASE CheckDeadline(r)
  <2>1. PICK to \in {"failed", "open", "balance"} : pc' = [pc EXCEPT ![r] = to]
    BY <1>1 DEF CheckDeadline
  <2> QED
    BY <1>1, <2>1, AllowanceQuiet DEF CheckDeadline, Owing
<1>2. CASE ReadBalance(r)
  <2>1. PICK to \in {"failed", "allowance"} : pc' = [pc EXCEPT ![r] = to]
    BY <1>2 DEF ReadBalance
  <2> QED
    BY <1>2, <2>1, AllowanceQuiet DEF ReadBalance, Owing
<1>3. CASE ReadAllowance(r)
  <2>1. PICK to \in {"approve", "open"} : pc' = [pc EXCEPT ![r] = to]
    BY <1>3 DEF ReadAllowance
  <2> QED
    BY <1>3, <2>1, AllowanceQuiet DEF ReadAllowance, Owing
<1>4. CASE ApproveReceipt(r)
  <2>1. PICK to \in {"recheck", "failed"} : pc' = [pc EXCEPT ![r] = to]
    BY <1>4 DEF ApproveReceipt, ReceiptOf
  <2> QED
    BY <1>4, <2>1, AllowanceQuiet DEF ApproveReceipt, ReceiptOf, Owing
<1>5. CASE Recheck(r)
  <2>1. PICK to \in {"failed", "open"} : pc' = [pc EXCEPT ![r] = to]
    BY <1>5 DEF Recheck
  <2> QED
    BY <1>5, <2>1, AllowanceQuiet DEF Recheck, Owing
<1>6. CASE OpenReceipt(r)
  <2>1. PICK to \in {"finalize", "failed"} :
          pc' = [pc EXCEPT ![r] = to] /\ (to = "finalize" => EscrowOf(r) \in Opened)
    BY <1>6, MinedIsOpened DEF OpenReceipt, ReceiptOf
  <2> QED
    BY <1>6, <2>1, AllowanceQuiet DEF OpenReceipt, ReceiptOf, Owing
<1>7. CASE Finalize(r)
  <2>1. PICK to \in {"done", "failed", "refetch"} : pc' = [pc EXCEPT ![r] = to]
    BY <1>7 DEF Finalize, OnConflict
  <2> QED
    BY <1>7, <2>1, AllowanceQuiet DEF Finalize, Owing
<1>8. CASE Refetch(r)
  <2>1. PICK to \in {"finalize", "failed"} : pc' = [pc EXCEPT ![r] = to]
    BY <1>8 DEF Refetch, RefetchTo
  <2> QED
    BY <1>8, <2>1, AllowanceQuiet DEF Refetch, RefetchTo, Owing
<1>9. CASE Fail(r)
  BY <1>9, AllowanceQuiet DEF Fail
<1>10. CASE BroadcastApprove(r)
  BY <1>10, AllowanceBroadcast DEF BroadcastApprove
<1>11. CASE BroadcastOpen(r)
  <2>1. CASE Broadcast(r, "open", "opening")
    BY <1>11, <2>1, AllowanceBroadcast DEF BroadcastOpen
  <2>2. CASE pc' = [pc EXCEPT ![r] = "failed"] /\ UNCHANGED <<salt, inv, ledger>>
    BY <1>11, <2>2, AllowanceQuiet DEF BroadcastOpen
  <2> QED
    BY <1>11, <2>1, <2>2 DEF BroadcastOpen
<1> QED
  BY <1>1, <1>2, <1>3, <1>4, <1>5, <1>6, <1>7, <1>8, <1>9, <1>10, <1>11, AllowanceFetch
  DEF Step

(* An approval executed while its run still counts is owed by that run, an  *)
(* open takes its own price away.                                           *)
LEMMA AllowanceExecute ==
  ASSUME EscrowInv, AllowanceInv, NEW t \in pool, Execute(t)
  PROVE  AllowanceInv'
<1> USE DEF EscrowInv, AllowanceInv
<1> DEFINE r == t.escrow.by
<1>1. /\ t \in Tx /\ r \in Run /\ t.escrow \in Escrow /\ t.escrow.salt \in Nat /\ t.escrow.salt >= 1
      /\ t.escrow.salt <= salt[r] /\ t.escrow.bid = BidOf(r) /\ salt[r] \in Nat
      /\ Total[t.escrow.bid] \in Nat /\ allowance \in Nat
      /\ t.kind \in {"approve", "open"}
  BY ConstantsAssumption DEF TypeOK, Tx, Escrow, SaltsUsed, OwnBid, Known
<1>2. /\ UNCHANGED <<pc, salt, inv>>
      /\ pool' = pool \ {t} /\ DOMAIN receipt' = DOMAIN receipt \cup {t}
      /\ \A x \in DOMAIN receipt : x # t => receipt'[x] = receipt[x]
  BY DEF Execute, client
<1>3. /\ \A q \in Run : EscrowOf(q)' = EscrowOf(q) /\ Price(q)' = Price(q)
      /\ \A q \in Run : TxOf(q, "approve")' = TxOf(q, "approve")
      /\ Known' = Known /\ \A q \in Run : BidOf(q)' = BidOf(q)
      /\ \A q : BidOf(q)' = BidOf(q)
  BY <1>2 DEF EscrowOf, BidOf, Price, TxOf, Known
<1>4. Opened' \subseteq Opened \cup (IF t.kind = "open" THEN {t.escrow} ELSE {})
  BY <1>2 DEF Opened
<1>5. ApproveUnsent' /\ OwnBid'
  BY <1>2, <1>3 DEF ApproveUnsent, OwnBid
<1>6. ApprovePending'
  BY <1>2, <1>3 DEF ApprovePending
<1>7. CASE t.kind = "approve"
  <2>1. allowance' = Price(r)
    BY <1>1, <1>7 DEF Execute, ApprovalAmount, Price
  <2>2. Owed(r)'
    <3>1. CASE salt[r] > 1
      BY <1>1, <1>2, <3>1 DEF Owed
    <3>2. CASE salt[r] <= 1
      <4>1. t.escrow = EscrowOf(r)
        <5>1. t.escrow.salt = salt[r]
          BY <1>1, <3>2
        <5> QED
          BY <1>1, <5>1 DEF EscrowOf, Escrow
      <4>2. t = TxOf(r, "approve")
        BY <1>1, <1>7, <4>1 DEF TxOf, Tx
      <4>3. pc[r] \in {"approving", "failed"}
        BY <1>1, <4>2 DEF ApprovePending
      <4>4. pc[r] = "approving" => EscrowOf(r) \notin Opened
        <5>1. SUFFICES ASSUME pc[r] = "approving", EscrowOf(r) \in Opened PROVE FALSE
          OBVIOUS
        <5>2. PICK x \in DOMAIN receipt : x.kind = "open" /\ x.escrow = EscrowOf(r)
          BY <5>1 DEF Opened
        <5>3. x = TxOf(r, "open")
          BY <5>2 DEF TxOf, TypeOK, Tx
        <5> QED
          BY <1>1, <5>1, <5>3 DEF Unsent, Before, Known
      <4>5. Price(r) \in Nat /\ Price(r)' = Price(r)
        BY <1>1, <1>3 DEF Price
      <4> QED
        BY <1>1, <1>2, <1>3, <1>4, <1>7, <2>1, <4>3, <4>4, <4>5 DEF Owed, Owing
    <3> QED
      BY <1>1, <3>1, <3>2
  <2>3. AllowanceOwed'
    BY <1>1, <2>2 DEF AllowanceOwed
  <2> QED
    BY <1>5, <1>6, <2>3
<1>8. CASE t.kind = "open" /\ CanOpen(t.escrow.bid)
  <2>1. allowance' = allowance - Total[t.escrow.bid] /\ allowance' \in Nat
    BY <1>1, <1>8 DEF Execute, CanOpen
  <2>2. ASSUME allowance' # 0, NEW q \in Run, Owed(q) PROVE Owed(q)'
    <3>1. CASE salt[q] > 1 \/ pc[q] = "failed"
      BY <1>2, <3>1 DEF Owed
    <3>2. CASE pc[q] \in Owing /\ EscrowOf(q) \notin Opened /\ allowance <= Price(q)
      <4>1. t.escrow # EscrowOf(q)
        <5>1. SUFFICES ASSUME t.escrow = EscrowOf(q) PROVE FALSE
          OBVIOUS
        <5>2. Total[t.escrow.bid] = Price(q)
          BY <5>1 DEF EscrowOf, Price
        <5> QED
          BY <1>1, <2>1, <2>2, <3>2, <5>2
      <4>2. EscrowOf(q)' \notin Opened'
        BY <1>3, <1>4, <3>2, <4>1
      <4>3. Price(q)' = Price(q) /\ Price(q) \in Nat
        BY <1>3, BidType
      <4>4. allowance' <= Price(q)'
        BY <1>1, <2>1, <3>2, <4>3
      <4> QED
        BY <1>2, <3>2, <4>2, <4>4 DEF Owed
    <3> QED
      BY <2>2, <3>1, <3>2 DEF Owed
  <2>3. AllowanceOwed'
    BY <1>1, <2>1, <2>2 DEF AllowanceOwed
  <2> QED
    BY <1>5, <1>6, <2>3
<1>9. CASE t.kind = "open" /\ ~CanOpen(t.escrow.bid)
  <2>1. allowance' = allowance
    BY <1>9 DEF Execute
  <2>2. receipt'[t] # "ok"
    BY <1>9 DEF Execute
  <2>3. Opened' \subseteq Opened
    BY <1>2, <2>2 DEF Opened
  <2>4. ASSUME NEW q \in Run, Owed(q) PROVE Owed(q)'
    BY <1>2, <1>3, <2>1, <2>3, <2>4 DEF Owed
  <2>5. AllowanceOwed'
    BY <2>1, <2>4 DEF AllowanceOwed
  <2> QED
    BY <1>5, <1>6, <2>5
<1> QED
  BY <1>1, <1>7, <1>8, <1>9

LEMMA AllowanceStep == EscrowInv /\ AllowanceInv /\ [Next]_vars => AllowanceInv'
<1> SUFFICES ASSUME EscrowInv, AllowanceInv, [Next]_vars PROVE AllowanceInv'
  OBVIOUS
<1>1. CASE /\ UNCHANGED <<pc, salt, inv, allowance, receipt>>
           /\ pool' \subseteq pool
  <2>1. /\ \A q \in Run : EscrowOf(q)' = EscrowOf(q) /\ Price(q)' = Price(q)
        /\ \A q \in Run : TxOf(q, "approve")' = TxOf(q, "approve")
        /\ Opened' = Opened /\ Known' \subseteq Known /\ \A q : BidOf(q)' = BidOf(q)
    BY <1>1 DEF EscrowOf, BidOf, Price, TxOf, Opened, Known
  <2>2. ApproveUnsent' /\ ApprovePending' /\ OwnBid'
    BY <1>1, <2>1 DEF AllowanceInv, ApproveUnsent, ApprovePending, OwnBid
  <2>3. AllowanceOwed'
    BY <1>1, <2>1 DEF AllowanceInv, AllowanceOwed, Owed
  <2> QED
    BY <2>2, <2>3 DEF AllowanceInv
<1>2. UNCHANGED vars \/ Tick \/ (\E t \in pool : Evict(t)) =>
        /\ UNCHANGED <<pc, salt, inv, allowance, receipt>>
        /\ pool' \subseteq pool
  BY DEF vars, Tick, Evict, client, ledger
<1> QED
  BY <1>1, <1>2, AllowanceRun, AllowanceExecute DEF Next

(* Once every run so far has succeeded the escrow contract may not draw     *)
(* anything from the wallet, however the runs interleaved: the approval is  *)
(* for exactly what the open will take (escrow.rs:436-440), and an approval *)
(* overwritten or drawn by another run fails the run it was for.            *)
THEOREM AllowanceSafety == Spec => []AllowanceUsedUp
<1>1. Init => AllowanceInv
  BY DEF Init, AllowanceInv, ApproveUnsent, ApprovePending, OwnBid, AllowanceOwed, Known
<1>2. EscrowInv /\ AllowanceInv => AllowanceUsedUp
  BY DEF AllowanceInv, AllowanceOwed, Owed, Owing, AllowanceUsedUp, EscrowInv, TypeOK
<1>3. EscrowInv /\ AllowanceInv /\ [Next]_vars => AllowanceInv'
  BY AllowanceStep
<1> QED
  BY <1>1, <1>2, <1>3, EscrowInvariance, PTL DEF Spec
=============================================================================
