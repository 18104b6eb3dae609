------------------------ MODULE WalletSigningProofs ------------------------
(***************************************************************************)
(* Proofs about WalletSigning, for any number of processes, keystores,     *)
(* directories and runs.                                                   *)
(***************************************************************************)
EXTENDS WalletSigning, SequenceTheorems, TLAPS

(***************************************************************************)
(* Types.                                                                  *)
(***************************************************************************)

LEMMA CurIsTx ==
  ASSUME TypeOK, NEW p \in Proc
  PROVE  Cur(p) \in Tx
BY DEF TypeOK, Cur, Tx

LEMMA ConstantTypes ==
  ASSUME NEW p \in Proc
  PROVE  LockOf(p) \in Dir /\ KeyOf(p) \in Wallet
BY ConstantsAssumption DEF LockOf, KeyOf

(* A ReleasedLock is still a function from directories to holders. *)
LEMMA ReleasedLockType ==
  ASSUME TypeOK, NEW p \in Proc
  PROVE  ReleasedLock(p) \in [Dir -> Proc \cup {NoProc}]
BY DEF TypeOK, ReleasedLock

LEMMA TypeInit == Init => TypeOK
<1>1. <<>> \in Seq(Tx)
  OBVIOUS
<1> QED
  BY <1>1 DEF Init, TypeOK, PcValue, Ended

(* The steps of a process. *)
LEMMA TypeProcess ==
  ASSUME TypeOK, NEW p \in Proc, Start(p) \/ Advance(p) \/ Crash(p)
  PROVE  TypeOK'
<1> USE DEF TypeOK, PcValue, Ended, Critical
<1>1. ReleasedLock(p) \in [Dir -> Proc \cup {NoProc}]
  BY ReleasedLockType
<1>2. CASE Start(p)
  <2>1. PICK n \in TxCounts(p) : left' = [left EXCEPT ![p] = n]
    BY <1>2 DEF Start
  <2>2. n \in Int
    BY DEF TxCounts
  <2> QED
    BY <1>2, <2>1, <2>2 DEF Start, nodeVars
<1>3. CASE Acquire(p)
  BY <1>3, ConstantTypes DEF Acquire, nodeVars
<1>4. CASE Proceed(p)
  BY <1>4 DEF Proceed, nodeVars
<1>5. CASE ReadNonce(p)
  <2>1. PendingNonce(KeyOf(p)) \in Nat
    BY ConstantTypes DEF PendingNonce
  <2> QED
    BY <1>5, <2>1 DEF ReadNonce, nodeVars
<1>6. CASE Broadcast(p)
  <2>1. [by |-> p, seq |-> sent[p] + 1, nonce |-> nonce[p]] \in Tx
    BY DEF Tx
  <2> QED
    BY <1>6, <2>1 DEF Broadcast, nodeVars
<1>7. CASE RpcFail(p) \/ GiveUp(p) \/ ReceiptFails(p) \/ Crash(p)
  BY <1>1, <1>7 DEF RpcFail, GiveUp, ReceiptFails, Crash, End, nodeVars
<1>8. CASE Answered(p)
  BY <1>1, <1>8 DEF Answered, End, nodeVars
<1>9. CASE SubmitDraft(p)
  BY <1>1, <1>9 DEF SubmitDraft, End, nodeVars
<1>10. CASE Confirmed(p)
  BY <1>10 DEF Confirmed, nodeVars
<1> QED
  BY <1>2, <1>3, <1>4, <1>5, <1>6, <1>7, <1>8, <1>9, <1>10 DEF Advance

(* What the node does with a transaction leaves a chain that is no shorter. *)
LEMMA ReceiveChain ==
  ASSUME TypeOK, NEW m \in wire, Receive(m)
  PROVE  /\ chain' \in [Wallet -> Seq(Tx)]
         /\ \A w \in Wallet : Len(chain'[w]) >= Len(chain[w])
         /\ m.nonce < Len(chain'[KeyOf(m.by)])
<1>1. m \in Tx /\ m.by \in Proc /\ m.nonce \in Nat
  BY DEF TypeOK, Tx
<1> DEFINE k == KeyOf(m.by)
<1>2. k \in Wallet
  BY <1>1, ConstantTypes
<1>3. chain[k] \in Seq(Tx) /\ Len(chain[k]) \in Nat
  BY <1>2 DEF TypeOK
<1>4. CASE /\ m.nonce = Len(chain[k])
           /\ chain' = [chain EXCEPT ![k] = Append(@, m)]
  <2>1. /\ Append(chain[k], m) \in Seq(Tx)
        /\ Len(Append(chain[k], m)) = Len(chain[k]) + 1
    BY <1>1, <1>3
  <2> QED
    BY <1>2, <1>3, <1>4, <2>1 DEF TypeOK
<1>5. CASE m.nonce < Len(chain[k]) /\ UNCHANGED chain
  BY <1>2, <1>5 DEF TypeOK
<1>6. CASE /\ m.nonce \in mined[k] .. Len(chain[k]) - 1
           /\ chain' = [chain EXCEPT ![k][m.nonce + 1] = m]
  <2>1. mined[k] \in Nat
    BY <1>2 DEF TypeOK
  <2>2. m.nonce + 1 \in 1 .. Len(chain[k])
    BY <1>1, <1>3, <1>6, <2>1
  <2>3. /\ [chain[k] EXCEPT ![m.nonce + 1] = m] \in Seq(Tx)
        /\ Len([chain[k] EXCEPT ![m.nonce + 1] = m]) = Len(chain[k])
    BY <1>1, <1>3, <2>2, ExceptSeq
  <2> QED
    BY <1>2, <1>3, <1>6, <2>2, <2>3 DEF TypeOK
<1> QED
  BY <1>4, <1>5, <1>6 DEF Receive

LEMMA TypeNode ==
  ASSUME TypeOK, Next,
         \/ \E m \in wire : Receive(m) \/ Drop(m)
         \/ \E w \in Wallet : Mine(w)
  PROVE  TypeOK'
<1>1. ASSUME NEW m \in wire, Receive(m) PROVE TypeOK'
  <2>1. m \in Tx /\ m.by \in Proc
    BY DEF TypeOK, Tx
  <2>2. chain' \in [Wallet -> Seq(Tx)]
    BY <1>1, ReceiveChain
  <2>3. reply' \in [Proc -> {"none", "accepted", "refused"}]
    BY <1>1, <2>1 DEF TypeOK, Receive, Verdict
  <2>4. wire' \subseteq Tx /\ seen' \subseteq Tx /\ late' \subseteq seen'
    BY <1>1, <2>1 DEF TypeOK, Receive
  <2> QED
    BY <1>1, <2>2, <2>3, <2>4 DEF TypeOK, Receive
<1>2. ASSUME NEW m \in wire, Drop(m) PROVE TypeOK'
  BY <1>2 DEF TypeOK, Drop, procVars, nodeVars
<1>3. ASSUME NEW w \in Wallet, Mine(w) PROVE TypeOK'
  BY <1>3 DEF TypeOK, Mine, procVars
<1> QED
  BY <1>1, <1>2, <1>3

LEMMA TypeStep == TypeOK /\ [Next]_vars => TypeOK'
<1> SUFFICES ASSUME TypeOK, [Next]_vars PROVE TypeOK'
  OBVIOUS
<1>1. CASE UNCHANGED vars
  BY <1>1 DEF TypeOK, vars
<1>2. CASE Next
  BY <1>2, TypeProcess, TypeNode DEF Next
<1> QED
  BY <1>1, <1>2

(* Type correctness: in every reachable state the variables have the types *)
(* TypeOK gives them, and only received transactions are ever called late. *)
THEOREM TypeCorrect == Spec => []TypeOK
BY TypeInit, TypeStep, PTL DEF Spec

(***************************************************************************)
(* The nonce invariant.                                                    *)
(***************************************************************************)

LEMMA NonceInit == Init => NonceInv
BY DEF Init, NonceInv, HolderKnown, SeenSettled, NonceFresh, NonceExclusive,
       Unsettled, Critical, Poster

(* A step of a process leaves the node's histories and the chain alone. *)
LEMMA ProcessFrame ==
  ASSUME NEW p \in Proc, Start(p) \/ Advance(p) \/ Crash(p)
  PROVE  UNCHANGED nodeVars
BY DEF Start, Advance, Crash, Acquire, Proceed, ReadNonce, Broadcast, RpcFail,
       Answered, GiveUp, SubmitDraft, Confirmed, ReceiptFails

LEMMA HolderProcess ==
  ASSUME TypeOK, HolderKnown, NEW p \in Proc, Start(p) \/ Advance(p) \/ Crash(p)
  PROVE  HolderKnown'
<1> SUFFICES ASSUME NEW q \in Poster, pc'[q] \in Critical
             PROVE  lock'[LockOf(q)] = q
  BY DEF HolderKnown, LockOf, Poster
<1>1. q \in Proc /\ LockOf(q) \in Dir /\ LockOf(p) \in Dir /\ NoProc \notin Proc
  BY ConstantTypes, ConstantsAssumption DEF Poster
<1> USE DEF TypeOK, HolderKnown, Critical
<1>2. CASE Acquire(p)
  BY <1>1, <1>2 DEF Acquire
<1>3. CASE /\ lock' = ReleasedLock(p)
           /\ \E how \in {"done", "failed"} : pc' = [pc EXCEPT ![p] = how]
  <2>1. q # p /\ pc[q] \in Critical
    BY <1>1, <1>3
  <2> QED
    BY <1>1, <1>3, <2>1 DEF ReleasedLock
<1>4. CASE /\ lock' = lock
           /\ q # p \/ q \notin Poster \/ pc[p] \in Critical
           /\ \E s \in PcValue : pc' = [pc EXCEPT ![p] = s]
  BY <1>1, <1>4
<1>5. CASE Start(p)
  BY <1>1, <1>4, <1>5 DEF Start, PcValue
<1>6. CASE Proceed(p)
  BY <1>1, <1>4, <1>6 DEF Proceed, PcValue
<1>7. CASE ReadNonce(p) \/ Broadcast(p) \/ Confirmed(p)
  BY <1>1, <1>4, <1>7 DEF ReadNonce, Broadcast, Confirmed, PcValue, Ended
<1>8. CASE RpcFail(p) \/ GiveUp(p) \/ SubmitDraft(p) \/ ReceiptFails(p) \/ Crash(p)
  BY <1>3, <1>8 DEF RpcFail, GiveUp, SubmitDraft, ReceiptFails, Crash, End
<1>9. CASE Answered(p)
  BY <1>3, <1>4, <1>9 DEF Answered, End, PcValue
<1> QED
  BY <1>2, <1>5, <1>6, <1>7, <1>8, <1>9 DEF Advance

(* Two posts under one lock are never past it together. *)
LEMMA OneHolder ==
  ASSUME HolderKnown, NEW p \in Poster, NEW q \in Poster,
         SameLock(p, q), pc[p] \in Critical, pc[q] \in Critical
  PROVE  p = q
BY DEF HolderKnown, SameLock

LEMMA FreshProcess ==
  ASSUME TypeOK, SeenSettled, NonceFresh,
         NEW p \in Proc, Start(p) \/ Advance(p) \/ Crash(p)
  PROVE  NonceFresh'
<1> SUFFICES ASSUME NEW q \in Poster, Unsettled(q)',
                    NEW b \in seen' \ late',
                    SameLock(b.by, q), KeyOf(b.by) = KeyOf(q)
             PROVE  b.nonce < nonce'[q]
  BY DEF NonceFresh, Poster, SameLock, KeyOf, LockOf
<1>1. q \in Proc /\ b \in seen \ late /\ chain' = chain
  BY ProcessFrame DEF Poster, nodeVars
<1>2. b.nonce < nonce[q] => b.nonce < nonce'[q] \/ ReadNonce(p)
  BY DEF Start, Advance, Crash, Acquire, Proceed, Broadcast, RpcFail,
         Answered, GiveUp, SubmitDraft, Confirmed, ReceiptFails
<1>3. CASE ReadNonce(p) /\ q = p
  <2>1. b.nonce < PendingNonce(KeyOf(q))
    BY <1>1 DEF SeenSettled, PendingNonce
  <2> QED
    BY <1>1, <1>3, <2>1 DEF ReadNonce, TypeOK
<1>4. CASE Broadcast(p) /\ q = p
  <2>1. Unsettled(q)
    BY <1>4 DEF Broadcast, Unsettled
  <2> QED
    BY <1>1, <1>2, <1>4, <2>1 DEF NonceFresh, Broadcast
<1>5. CASE q # p
  <2>1. pc'[q] = pc[q] /\ Cur(q)' = Cur(q) /\ nonce'[q] = nonce[q]
    BY <1>1, <1>5 DEF TypeOK, Cur, Start, Advance, Crash, Acquire, Proceed, ReadNonce,
       Broadcast, RpcFail, Answered, GiveUp, SubmitDraft, Confirmed, ReceiptFails, End
  <2>2. Cur(q) \in wire' => Cur(q) \in wire
    BY <1>5 DEF Cur, Start, Advance, Crash, Acquire, Proceed, ReadNonce,
       Broadcast, RpcFail, Answered, GiveUp, SubmitDraft, Confirmed, ReceiptFails
  <2>3. Unsettled(q)
    BY <2>1, <2>2 DEF Unsettled
  <2> QED
    BY <1>1, <2>1, <2>3 DEF NonceFresh
<1>6. CASE q = p /\ ~ReadNonce(p) /\ ~Broadcast(p)
  <2>1. pc'[q] \notin {"nonced", "wait"}
    BY <1>1, <1>6 DEF TypeOK, Start, Advance, Crash, Acquire, Proceed, RpcFail,
       Answered, GiveUp, SubmitDraft, Confirmed, ReceiptFails, End
  <2> QED
    BY <2>1 DEF Unsettled
<1> QED
  BY <1>3, <1>4, <1>5, <1>6

LEMMA NonceProcess ==
  ASSUME TypeOK, NonceInv, NEW p \in Proc, Start(p) \/ Advance(p) \/ Crash(p)
  PROVE  NonceInv'
<1>1. HolderKnown'
  BY HolderProcess DEF NonceInv
<1>2. NonceFresh'
  BY FreshProcess DEF NonceInv
<1>3. chain' = chain /\ seen' = seen /\ late' = late
  BY ProcessFrame DEF nodeVars
<1>4. SeenSettled' /\ NonceExclusive'
  BY <1>3 DEF NonceInv, SeenSettled, NonceExclusive, SameNonce, SameLock, KeyOf,
              LockOf, Poster
<1> QED
  BY <1>1, <1>2, <1>4 DEF NonceInv

(* The node receives a transaction: the one step that can make two equal   *)
(* nonces meet.                                                            *)
LEMMA NonceReceive ==
  ASSUME TypeOK, NonceInv, NEW m \in wire, Receive(m)
  PROVE  NonceInv'
<1>1. m \in Tx /\ m.by \in Proc /\ m.nonce \in Nat /\ seen \subseteq Tx
  BY DEF TypeOK, Tx
<1>2. /\ pc' = pc /\ lock' = lock /\ nonce' = nonce /\ sent' = sent
      /\ wire' = wire \ {m} /\ seen' = seen \cup {m}
      /\ late' = IF pc[m.by] = "wait" /\ m = Cur(m.by) THEN late ELSE late \cup {m}
  BY DEF Receive
<1>3. HolderKnown'
  BY <1>2 DEF NonceInv, HolderKnown, LockOf
<1>4. SeenSettled'
  <2> SUFFICES ASSUME NEW a \in seen \cup {m}
               PROVE  a.nonce < Len(chain'[KeyOf(a.by)])
    BY <1>2 DEF SeenSettled, KeyOf
  <2>1. CASE a = m
    BY <2>1, ReceiveChain
  <2>2. CASE a \in seen
    <3>1. a.by \in Proc /\ a.nonce \in Nat /\ KeyOf(a.by) \in Wallet
      BY <1>1, <2>2, ConstantTypes DEF Tx
    <3>2. Len(chain[KeyOf(a.by)]) \in Nat /\ Len(chain'[KeyOf(a.by)]) \in Nat
      BY <3>1, ReceiveChain DEF TypeOK
    <3> QED
      BY <2>2, <3>1, <3>2, ReceiveChain DEF NonceInv, SeenSettled
  <2> QED
    BY <2>1, <2>2
<1>5. NonceFresh'
  <2> SUFFICES ASSUME NEW q \in Poster, Unsettled(q)',
                      NEW b \in seen' \ late',
                      SameLock(b.by, q), KeyOf(b.by) = KeyOf(q)
               PROVE  b.nonce < nonce[q]
    BY <1>2 DEF NonceFresh, SameLock, KeyOf, LockOf
  <2>1. Cur(q)' = Cur(q) /\ pc'[q] = pc[q]
    BY <1>2 DEF Cur
  <2>2. Unsettled(q) /\ ~(pc[q] = "wait" /\ m = Cur(q))
    BY <1>2, <2>1 DEF Unsettled
  <2>3. CASE b \in seen \ late
    BY <2>2, <2>3 DEF NonceInv, NonceFresh
  <2>4. CASE b \notin seen \ late
    <3>1. b = m /\ pc[b.by] = "wait" /\ m = Cur(b.by)
      BY <1>2, <2>4
    <3>2. b.by \in Poster /\ pc[b.by] \in Critical /\ pc[q] \in Critical
      BY <2>2, <3>1 DEF SameLock, Critical, Unsettled
    <3>3. b.by = q
      BY <3>2, OneHolder DEF NonceInv
    <3> QED
      BY <2>2, <3>1, <3>3
  <2> QED
    BY <2>3, <2>4
<1>6. ASSUME NEW b \in seen \ late, m \notin late', SameNonce(b, m), SameLock(b.by, m.by)
      PROVE  FALSE
  <2>1. pc[m.by] = "wait" /\ m = Cur(m.by)
    BY <1>2, <1>6
  <2>2. Unsettled(m.by) /\ m.nonce = nonce[m.by] /\ m.by \in Poster
    BY <1>6, <2>1 DEF Unsettled, SameLock, Cur
  <2>3. b.nonce < m.nonce
    BY <1>6, <2>2 DEF NonceInv, NonceFresh, SameNonce
  <2> QED
    BY <1>1, <1>6, <2>3 DEF SameNonce
<1>7. NonceExclusive'
  <2> SUFFICES ASSUME NEW a \in seen', NEW b \in seen', SameNonce(a, b), a # b,
                      a \notin late', b \notin late', SameLock(a.by, b.by)
               PROVE  FALSE
    BY DEF NonceExclusive, SameNonce, SameLock, KeyOf, LockOf
  <2>1. late \subseteq late'
    BY <1>2
  <2>2. CASE a = m
    <3>1. SameNonce(b, m) /\ SameLock(b.by, m.by)
      BY <2>2 DEF SameNonce, SameLock
    <3> QED
      BY <1>2, <1>6, <2>1, <2>2, <3>1
  <2>3. CASE b = m
    BY <1>2, <1>6, <2>1, <2>3
  <2>4. CASE a # m /\ b # m
    BY <1>2, <2>1, <2>4 DEF NonceInv, NonceExclusive
  <2> QED
    BY <2>2, <2>3, <2>4
<1> QED
  BY <1>3, <1>4, <1>5, <1>7 DEF NonceInv

LEMMA NonceStep == TypeOK /\ NonceInv /\ [Next]_vars => NonceInv'
<1> SUFFICES ASSUME TypeOK, NonceInv, [Next]_vars PROVE NonceInv'
  OBVIOUS
<1> USE DEF NonceInv, HolderKnown, SeenSettled, NonceFresh, NonceExclusive, Unsettled,
            Cur, SameNonce, SameLock, KeyOf, LockOf
<1>1. CASE UNCHANGED vars
  BY <1>1 DEF vars
<1>2. ASSUME NEW m \in wire, Drop(m) PROVE NonceInv'
  BY <1>2 DEF Drop, procVars, nodeVars
<1>3. ASSUME NEW w \in Wallet, Mine(w) PROVE NonceInv'
  BY <1>3 DEF Mine, procVars
<1> QED
  BY <1>1, <1>2, <1>3, NonceProcess, NonceReceive DEF Next

(* For any number of posts, keystores and directories: two transactions    *)
(* with one nonce reach the node only when their senders do not contend    *)
(* for one lock file, or one of them was abandoned on its way.             *)
THEOREM NonceSafety == Spec => []NonceExclusive
<1>1. Spec => []NonceInv
  BY TypeCorrect, NonceInit, NonceStep, PTL DEF Spec
<1>2. NonceInv => NonceExclusive
  BY DEF NonceInv
<1> QED
  BY <1>1, <1>2, PTL

(***************************************************************************)
(* The voucher.                                                            *)
(***************************************************************************)

(* VoucherOnChain is not inductive.  A post has a voucher from the moment   *)
(* the node accepted its broadcast; by then the node has received it, its   *)
(* sender was waiting, and no transaction is ever received twice, so it is  *)
(* never called late.                                                       *)
SentOnce ==
  /\ \A m \in wire \cup seen : m.seq <= sent[m.by]
  /\ wire \cap seen = {}

HasVoucher(p) ==
  (pc[p] = "wait" /\ reply[p] = "accepted") \/ pc[p] \in {"sent", "done"}

Stands(p) ==
  nonce[p] < Len(chain[KeyOf(p)]) /\ chain[KeyOf(p)][nonce[p] + 1] = Cur(p)

Displaced(p) ==
  \E b \in seen : /\ SameNonce(b, Cur(p)) /\ b # Cur(p)
                  /\ b \in late \/ ~SameLock(b.by, p)

Vouched ==
  \A p \in Poster : HasVoucher(p) => /\ Cur(p) \in seen \ late
                                     /\ Stands(p) \/ Displaced(p)

VoucherInv == SentOnce /\ Vouched

LEMMA SentOnceProcess ==
  ASSUME TypeOK, SentOnce, NEW p \in Proc, Start(p) \/ Advance(p) \/ Crash(p)
  PROVE  SentOnce'
<1>1. seen' = seen
  BY ProcessFrame DEF nodeVars
<1>2. \A m \in wire \cup seen : m \in Tx /\ m.by \in Proc /\ m.seq \in Nat
  BY DEF TypeOK, Tx
<1>3. CASE Broadcast(p)
  <2> DEFINE t == [by |-> p, seq |-> sent[p] + 1, nonce |-> nonce[p]]
  <2>1. sent[p] \in Nat /\ sent' = [sent EXCEPT ![p] = sent[p] + 1] /\ wire' = wire \cup {t}
    BY <1>3 DEF Broadcast, TypeOK
  <2>2. t \notin seen
    BY <2>1 DEF SentOnce
  <2>3. ASSUME NEW m \in wire \cup seen PROVE m.seq <= sent'[m.by]
    BY <1>2, <2>1 DEF SentOnce, TypeOK
  <2>4. t.seq <= sent'[t.by]
    BY <2>1 DEF TypeOK
  <2> QED
    BY <1>1, <2>1, <2>2, <2>3, <2>4 DEF SentOnce
<1>4. CASE ~Broadcast(p)
  <2>1. wire' = wire /\ sent' = sent
    BY <1>4 DEF Start, Advance, Crash, Acquire, Proceed, ReadNonce, RpcFail, Answered,
       GiveUp, SubmitDraft, Confirmed, ReceiptFails
  <2> QED
    BY <1>1, <2>1 DEF SentOnce
<1> QED
  BY <1>3, <1>4

(* A process gets no voucher by itself, and keeps the one it has to the end *)
(* of its run.                                                              *)
LEMMA VouchedProcess ==
  ASSUME TypeOK, Vouched, NEW p \in Proc, Start(p) \/ Advance(p) \/ Crash(p)
  PROVE  Vouched'
<1> SUFFICES ASSUME NEW q \in Poster, HasVoucher(q)'
             PROVE  (Cur(q) \in seen \ late /\ (Stands(q) \/ Displaced(q)))'
  BY DEF Vouched, Poster
<1>1. q \in Proc /\ UNCHANGED <<chain, seen, late>>
  BY ProcessFrame DEF Poster, nodeVars
<1>2. HasVoucher(q) /\ nonce'[q] = nonce[q] /\ sent'[q] = sent[q]
  <2>1. CASE q # p
    BY <1>1, <2>1 DEF HasVoucher, TypeOK, Start, Advance, Crash, Acquire, Proceed, ReadNonce,
       Broadcast, RpcFail, Answered, GiveUp, SubmitDraft, Confirmed, ReceiptFails, End
  <2>2. CASE q = p
    BY <1>1, <2>2 DEF HasVoucher, TypeOK, Start, Advance, Crash, Acquire, Proceed, ReadNonce,
       Broadcast, RpcFail, Answered, GiveUp, SubmitDraft, Confirmed, ReceiptFails, End
  <2> QED
    BY <2>1, <2>2
<1>3. Cur(q)' = Cur(q)
  BY <1>2 DEF Cur
<1> QED
  BY <1>1, <1>2, <1>3 DEF Vouched, Stands, Displaced, SameNonce, SameLock, KeyOf, LockOf

LEMMA VoucherReceive ==
  ASSUME TypeOK, NonceInv, VoucherInv, NEW m \in wire, Receive(m)
  PROVE  VoucherInv'
<1>1. m \in Tx /\ m.by \in Proc /\ m.nonce \in Nat
  BY DEF TypeOK, Tx
<1>2. /\ pc' = pc /\ nonce' = nonce /\ sent' = sent
      /\ wire' = wire \ {m} /\ seen' = seen \cup {m}
      /\ late' = IF pc[m.by] = "wait" /\ m = Cur(m.by) THEN late ELSE late \cup {m}
  BY DEF Receive
<1>3. SentOnce'
  BY <1>2 DEF VoucherInv, SentOnce
<1>4. ASSUME NEW q \in Poster, HasVoucher(q)'
      PROVE  (Cur(q) \in seen \ late /\ (Stands(q) \/ Displaced(q)))'
  <2> DEFINE k == KeyOf(q)
  <2>1. /\ q \in Proc /\ k \in Wallet /\ nonce[q] \in Nat
        /\ Cur(q)' = Cur(q) /\ Cur(q).nonce = nonce[q] /\ Cur(q).by = q
    BY <1>2, ConstantTypes DEF Poster, TypeOK, Cur
  <2>2. chain[k] \in Seq(Tx) /\ Len(chain[k]) \in Nat
    BY <2>1 DEF TypeOK
  <2>3. CASE m = Cur(q) /\ pc[q] = "wait"
    <3>1. reply' = [reply EXCEPT ![q] = "accepted"]
      BY <1>2, <1>4, <2>1, <2>3 DEF HasVoucher, Receive, Verdict, TypeOK
    <3>2. m \in seen' \ late'
      BY <1>2, <2>1, <2>3 DEF VoucherInv, SentOnce, TypeOK
    <3>3. \/ /\ m.nonce = Len(chain[k])
             /\ chain' = [chain EXCEPT ![k] = Append(@, m)]
          \/ /\ m.nonce \in mined[k] .. Len(chain[k]) - 1
             /\ chain' = [chain EXCEPT ![k][m.nonce + 1] = m]
      BY <2>1, <2>3, <3>1 DEF Receive, Verdict, TypeOK
    <3>4. chain'[k][m.nonce + 1] = m
      BY <1>1, <2>1, <2>2, <3>3 DEF TypeOK
    <3>5. nonce[q] < Len(chain'[k])
      BY <2>1, <2>3, ReceiveChain
    <3> QED
      BY <1>2, <2>1, <2>3, <3>2, <3>4, <3>5 DEF Stands, KeyOf
  <2>4. CASE ~(m = Cur(q) /\ pc[q] = "wait")
    <3>1. reply'[q] = reply[q]
      BY <1>1, <2>1, <2>4 DEF Receive, Verdict, Cur, TypeOK
    <3>2. HasVoucher(q) /\ Cur(q) \in seen \ late /\ m # Cur(q)
      BY <1>2, <1>4, <3>1 DEF HasVoucher, VoucherInv, Vouched, SentOnce
    <3>3. Cur(q) \in seen' \ late'
      BY <1>2, <3>2
    <3>4. Displaced(q) => Displaced(q)'
      BY <1>2, <2>1 DEF Displaced, SameNonce, SameLock, KeyOf, LockOf
    <3>5. CASE SameNonce(m, Cur(q))
      <4>1. m \in late' \/ ~SameLock(m.by, q)
        <5> SUFFICES ASSUME m \notin late', SameLock(m.by, q) PROVE FALSE
          OBVIOUS
        <5>1. pc[m.by] = "wait" /\ m = Cur(m.by) /\ m.by \in Poster
          BY <1>2 DEF SameLock
        <5>2. Unsettled(m.by) /\ m.nonce = nonce[m.by]
          BY <5>1 DEF Unsettled, Cur
        <5>3. Cur(q).nonce < nonce[m.by]
          BY <2>1, <3>2, <3>5, <5>1, <5>2 DEF NonceInv, NonceFresh, SameLock, SameNonce
        <5> QED
          BY <1>1, <2>1, <3>5, <5>2, <5>3 DEF SameNonce
      <4> QED
        BY <1>2, <2>1, <3>2, <3>3, <3>5, <4>1
        DEF Displaced, SameNonce, SameLock, KeyOf, LockOf
    <3>6. CASE ~SameNonce(m, Cur(q)) /\ Stands(q)
      <4>1. KeyOf(m.by) = k => m.nonce # nonce[q]
        BY <2>1, <3>6 DEF SameNonce
      <4>2. chain'[k][nonce[q] + 1] = chain[k][nonce[q] + 1]
        <5> DEFINE j == KeyOf(m.by)
        <5>1. j \in Wallet /\ chain[j] \in Seq(Tx) /\ chain \in [Wallet -> Seq(Tx)]
          BY <1>1, ConstantTypes DEF TypeOK
        <5>2. nonce[q] < Len(chain[k])
          BY <3>6 DEF Stands
        <5>3. CASE m.nonce = Len(chain[j]) /\ chain' = [chain EXCEPT ![j] = Append(chain[j], m)]
          <6>1. CASE j = k
            BY <2>1, <2>2, <5>1, <5>2, <5>3, <6>1
          <6>2. CASE j # k
            BY <2>1, <5>1, <5>3, <6>2
          <6> QED
            BY <6>1, <6>2
        <5>4. CASE UNCHANGED chain
          BY <5>4
        <5>5. CASE chain' = [chain EXCEPT ![j][m.nonce + 1] = m]
          <6>1. CASE j = k
            BY <1>1, <2>1, <2>2, <4>1, <5>1, <5>2, <5>5, <6>1
          <6>2. CASE j # k
            BY <2>1, <5>1, <5>5, <6>2
          <6> QED
            BY <6>1, <6>2
        <5> QED
          BY <5>3, <5>4, <5>5 DEF Receive
      <4>3. nonce[q] < Len(chain'[k])
        BY <2>1, <2>2, <3>6, ReceiveChain DEF Stands
      <4> QED
        BY <1>2, <2>1, <3>3, <3>6, <4>2, <4>3 DEF Stands, KeyOf
    <3>7. Stands(q) \/ Displaced(q)
      BY <3>2 DEF VoucherInv, Vouched
    <3> QED
      BY <2>1, <3>3, <3>4, <3>5, <3>6, <3>7
  <2> QED
    BY <2>3, <2>4
<1> QED
  BY <1>3, <1>4 DEF VoucherInv, Vouched, Poster

LEMMA VoucherStep == TypeOK /\ NonceInv /\ VoucherInv /\ [Next]_vars => VoucherInv'
<1> SUFFICES ASSUME TypeOK, NonceInv, VoucherInv, [Next]_vars PROVE VoucherInv'
  OBVIOUS
<1> USE DEF VoucherInv, SentOnce, Vouched, HasVoucher, Stands, Displaced, Cur,
            SameNonce, SameLock, KeyOf, LockOf
<1>1. CASE UNCHANGED vars
  BY <1>1 DEF vars
<1>2. ASSUME NEW m \in wire, Drop(m) PROVE VoucherInv'
  BY <1>2 DEF Drop, procVars, nodeVars
<1>3. ASSUME NEW w \in Wallet, Mine(w) PROVE VoucherInv'
  BY <1>3 DEF Mine, procVars
<1> QED
  BY <1>1, <1>2, <1>3, SentOnceProcess, VouchedProcess, VoucherReceive DEF Next

(* For any number of posts and of senders that ignore the lock: the hash a *)
(* post reports as its voucher (post.rs) names the transaction the chain   *)
(* has at that nonce, unless one outside the lock's protection took it.    *)
THEOREM VoucherSafety == Spec => []VoucherOnChain
<1>1. Init => VoucherInv
  BY DEF Init, VoucherInv, SentOnce, Vouched, HasVoucher, Poster
<1>2. Spec => [](TypeOK /\ NonceInv /\ VoucherInv)
  BY <1>1, TypeCorrect, NonceInit, NonceStep, VoucherStep, PTL DEF Spec
<1>3. VoucherInv => VoucherOnChain
  BY DEF VoucherInv, Vouched, HasVoucher, Stands, Displaced, VoucherOnChain
<1> QED
  BY <1>2, <1>3, PTL

(***************************************************************************)
(* The ledger.  Where nobody signs with a key outside the lock that guards *)
(* it, and nobody stops waiting for a broadcast under way, ...             *)
(***************************************************************************)

AllLocked ==
  /\ ~Lossy
  /\ \A p, q \in Proc : p # q /\ KeyOf(p) = KeyOf(q) => SameLock(p, q)

(* ... a transaction under way is the one its sender waits for, its nonce   *)
(* is the next of the ledger, and an answer is about an entry.              *)
InFlight == \A m \in wire : pc[m.by] = "wait" /\ m = Cur(m.by)
AtTop == \A p \in Proc : Unsettled(p) => nonce[p] = Len(chain[KeyOf(p)])
AnswerIn == \A p \in Proc :
  /\ reply[p] # "refused"
  /\ pc[p] = "wait" /\ reply[p] = "accepted" => Stands(p) /\ Cur(p) \notin wire

LedgerInv == TypeOK /\ HolderKnown /\ InFlight /\ AtTop /\ AnswerIn

(* A process moves itself only. *)
LEMMA ProcessOthers ==
  ASSUME TypeOK, NEW p \in Proc, Start(p) \/ Advance(p) \/ Crash(p), NEW q \in Proc, q # p
  PROVE  pc'[q] = pc[q] /\ reply'[q] = reply[q] /\ nonce'[q] = nonce[q] /\ Cur(q)' = Cur(q)
BY DEF TypeOK, Cur, Start, Advance, Crash, Acquire, Proceed, ReadNonce, Broadcast, RpcFail,
       Answered, GiveUp, SubmitDraft, Confirmed, ReceiptFails, End

LEMMA LedgerProcess ==
  ASSUME AllLocked, LedgerInv, TypeOK', NEW p \in Proc, Start(p) \/ Advance(p) \/ Crash(p)
  PROVE  LedgerInv'
<1> USE DEF LedgerInv
<1>1. HolderKnown' /\ chain' = chain
  BY HolderProcess, ProcessFrame DEF nodeVars
<1>2. \A q \in Proc : q # p =>
        pc'[q] = pc[q] /\ reply'[q] = reply[q] /\ nonce'[q] = nonce[q] /\ Cur(q)' = Cur(q)
  BY ProcessOthers
<1>3. \A q : Cur(q).by = q
  BY DEF Cur
<1>4. \A m \in wire : m.by \in Proc
  BY DEF TypeOK, Tx
<1>5. CASE Broadcast(p)
  <2>1. /\ pc[p] = "nonced" /\ pc'[p] = "wait" /\ reply'[p] = "none"
        /\ nonce'[p] = nonce[p] /\ wire' = wire \cup {Cur(p)'}
        /\ (Cur(p)').by = p
    BY <1>5 DEF Broadcast, TypeOK, Cur
  <2>2. InFlight'
    <3>1. \A m \in wire : m.by # p
      BY <2>1 DEF InFlight
    <3>2. ASSUME NEW m \in wire' PROVE pc'[m.by] = "wait" /\ m = Cur(m.by)'
      <4>1. CASE m \in wire
        BY <1>2, <1>4, <3>1, <4>1 DEF InFlight
      <4>2. CASE m = Cur(p)'
        BY <2>1, <4>2
      <4> QED
        BY <2>1, <4>1, <4>2
    <3> QED
      BY <3>2 DEF InFlight, Cur
  <2>3. AtTop'
    <3>1. ASSUME NEW q \in Proc, Unsettled(q)' PROVE nonce'[q] = Len(chain[KeyOf(q)])
      <4>1. CASE q = p
        BY <2>1, <4>1 DEF AtTop, Unsettled
      <4>2. CASE q # p
        <5>1. Cur(q) # Cur(p)'
          BY <1>3, <2>1, <4>2
        <5> QED
          BY <1>2, <2>1, <3>1, <4>2, <5>1 DEF AtTop, Unsettled
      <4> QED
        BY <4>1, <4>2
    <3> QED
      BY <1>1, <3>1 DEF AtTop, KeyOf
  <2>4. AnswerIn'
    <3>1. ASSUME NEW q \in Proc, q # p
          PROVE  /\ reply'[q] # "refused"
                 /\ pc'[q] = "wait" /\ reply'[q] = "accepted" =>
                      Stands(q)' /\ Cur(q)' \notin wire'
      <4>1. Cur(q) # Cur(p)'
        BY <1>3, <2>1, <3>1
      <4> QED
        BY <1>1, <1>2, <2>1, <3>1, <4>1 DEF AnswerIn, Stands, KeyOf
    <3> QED
      BY <2>1, <3>1 DEF AnswerIn
  <2> QED
    BY <1>1, <2>2, <2>3, <2>4
<1>6. CASE ~Broadcast(p)
  <2>1. wire' = wire /\ reply' = reply
    BY <1>6 DEF Start, Advance, Crash, Acquire, Proceed, ReadNonce, RpcFail, Answered, GiveUp,
       SubmitDraft, Confirmed, ReceiptFails
  <2>2. ~(pc[p] = "wait" /\ Cur(p) \in wire)
    <3>1. SUFFICES ASSUME pc[p] = "wait", Cur(p) \in wire PROVE FALSE
      OBVIOUS
    <3>2. Answered(p) \/ GiveUp(p) \/ Crash(p)
      BY <1>6, <3>1 DEF Start, Advance, Acquire, Proceed, ReadNonce, RpcFail, SubmitDraft,
         Confirmed, ReceiptFails, Ended
    <3>3. Answered(p)
      BY <3>1, <3>2 DEF GiveUp, Crash, AllLocked
    <3> QED
      BY <3>1, <3>3 DEF Answered, AnswerIn
  <2>3. pc'[p] # "wait" /\ (pc'[p] = "nonced" => ReadNonce(p))
    BY <1>6 DEF TypeOK, Start, Advance, Crash, Acquire, Proceed, ReadNonce, RpcFail, Answered,
       GiveUp, SubmitDraft, Confirmed, ReceiptFails, End
  <2>4. \A m \in wire : m.by # p
    BY <2>2 DEF InFlight
  <2>5. InFlight'
    <3>1. \A m \in wire : pc'[m.by] = "wait" /\ m = Cur(m.by)'
      BY <1>2, <1>4, <2>4 DEF InFlight
    <3> QED
      BY <2>1, <3>1 DEF InFlight, Cur
  <2>6. AtTop'
    <3>1. ASSUME NEW q \in Proc, Unsettled(q)' PROVE nonce'[q] = Len(chain[KeyOf(q)])
      <4>1. CASE q = p
        <5>1. ReadNonce(p)
          BY <2>3, <3>1, <4>1 DEF Unsettled
        <5> QED
          BY <4>1, <5>1 DEF ReadNonce, PendingNonce, TypeOK
      <4>2. CASE q # p
        BY <1>2, <2>1, <3>1, <4>2 DEF AtTop, Unsettled
      <4> QED
        BY <4>1, <4>2
    <3> QED
      BY <1>1, <3>1 DEF AtTop, KeyOf
  <2>7. AnswerIn'
    <3>1. ASSUME NEW q \in Proc, pc'[q] = "wait", reply[q] = "accepted"
          PROVE  Stands(q)' /\ Cur(q)' \notin wire
      BY <1>1, <1>2, <2>3, <3>1 DEF AnswerIn, Stands, KeyOf
    <3> QED
      BY <2>1, <3>1 DEF AnswerIn
  <2> QED
    BY <1>1, <2>5, <2>6, <2>7
<1> QED
  BY <1>5, <1>6

(* What arrives is appended: it has the next nonce, and whoever else has    *)
(* read that nonce would hold the same lock.                                *)
LEMMA LedgerAppend ==
  ASSUME LedgerInv, NEW m \in wire, Receive(m)
  PROVE  /\ m \in Tx /\ m.by \in Proc /\ pc[m.by] = "wait" /\ m = Cur(m.by)
         /\ KeyOf(m.by) \in Wallet /\ m.nonce = Len(chain[KeyOf(m.by)])
         /\ chain' = [chain EXCEPT ![KeyOf(m.by)] = Append(@, m)]
         /\ reply' = [reply EXCEPT ![m.by] = "accepted"]
         /\ UNCHANGED <<pc, nonce, sent, lock>> /\ wire' = wire \ {m}
<1> USE DEF LedgerInv
<1>1. m \in Tx /\ m.by \in Proc /\ KeyOf(m.by) \in Wallet
  BY ConstantTypes DEF TypeOK, Tx
<1>2. pc[m.by] = "wait" /\ m = Cur(m.by)
  BY DEF InFlight
<1>3. m.nonce = Len(chain[KeyOf(m.by)])
  BY <1>1, <1>2 DEF AtTop, Unsettled, Cur
<1>4. Len(chain[KeyOf(m.by)]) \in Nat
  BY <1>1 DEF TypeOK
<1> QED
  BY <1>1, <1>2, <1>3, <1>4 DEF Receive, Verdict

LEMMA LedgerReceive ==
  ASSUME AllLocked, LedgerInv, TypeOK', NEW m \in wire, Receive(m)
  PROVE  LedgerInv'
<1> USE DEF LedgerInv
<1> DEFINE k == KeyOf(m.by)
<1>1. /\ m \in Tx /\ m.by \in Proc /\ pc[m.by] = "wait" /\ m = Cur(m.by)
      /\ k \in Wallet /\ m.nonce = Len(chain[k])
      /\ chain' = [chain EXCEPT ![k] = Append(chain[k], m)]
      /\ reply' = [reply EXCEPT ![m.by] = "accepted"]
      /\ UNCHANGED <<pc, nonce, sent, lock>> /\ wire' = wire \ {m}
  BY LedgerAppend
<1>2. /\ \A q : Cur(q)' = Cur(q)
      /\ chain[k] \in Seq(Tx) /\ chain \in [Wallet -> Seq(Tx)] /\ reply' \in [Proc -> {"none", "accepted", "refused"}]
  BY <1>1 DEF Cur, TypeOK
<1>3. HolderKnown' /\ InFlight'
  BY <1>1, <1>2 DEF HolderKnown, LockOf, InFlight
<1>4. AtTop'
  <2>1. ASSUME NEW q \in Proc, Unsettled(q)' PROVE nonce[q] = Len(chain'[KeyOf(q)])
    <3>1. Unsettled(q) /\ q # m.by
      BY <1>1, <1>2, <2>1 DEF Unsettled
    <3>2. KeyOf(q) # k
      <4>1. SUFFICES ASSUME KeyOf(q) = k PROVE FALSE
        OBVIOUS
      <4>2. SameLock(q, m.by) /\ q \in Poster /\ m.by \in Poster
        BY <1>1, <3>1, <4>1 DEF AllLocked, SameLock
      <4>3. pc[q] \in Critical /\ pc[m.by] \in Critical
        BY <1>1, <3>1 DEF Unsettled, Critical
      <4> QED
        BY <3>1, <4>2, <4>3, OneHolder
    <3>3. KeyOf(q) \in Wallet /\ chain'[KeyOf(q)] = chain[KeyOf(q)]
      BY <1>1, <1>2, <3>2, ConstantTypes
    <3> QED
      BY <3>1, <3>3 DEF AtTop
  <2> QED
    BY <1>1, <2>1 DEF AtTop, KeyOf
<1>5. AnswerIn'
  <2>1. ASSUME NEW q \in Proc, pc[q] = "wait", reply'[q] = "accepted"
        PROVE  Stands(q)' /\ Cur(q) \notin wire'
    <3>1. CASE q = m.by
      <4>1. chain'[k][m.nonce + 1] = m /\ m.nonce < Len(chain'[k])
        BY <1>1, <1>2
      <4>2. nonce[q] = m.nonce
        BY <1>1, <3>1 DEF Cur
      <4>3. KeyOf(q)' = k
        BY <3>1 DEF KeyOf
      <4> QED
        BY <1>1, <1>2, <3>1, <4>1, <4>2, <4>3 DEF Stands
    <3>2. CASE q # m.by
      <4>1. reply[q] = "accepted" /\ Stands(q) /\ Cur(q) \notin wire
        BY <1>1, <1>2, <2>1, <3>2 DEF AnswerIn, TypeOK
      <4>2. KeyOf(q) \in Wallet /\ chain[KeyOf(q)] \in Seq(Tx) /\ nonce[q] \in Nat
        BY <1>2, ConstantTypes DEF TypeOK
      <4>3. /\ nonce[q] < Len(chain'[KeyOf(q)])
            /\ chain'[KeyOf(q)][nonce[q] + 1] = chain[KeyOf(q)][nonce[q] + 1]
        <5>1. CASE KeyOf(q) = k
          BY <1>1, <1>2, <4>1, <4>2, <5>1 DEF Stands
        <5>2. CASE KeyOf(q) # k
          BY <1>1, <1>2, <4>1, <4>2, <5>2 DEF Stands
        <5> QED
          BY <5>1, <5>2
      <4> QED
        BY <1>1, <1>2, <4>1, <4>3 DEF Stands, KeyOf
    <3> QED
      BY <3>1, <3>2
  <2>2. \A q \in Proc : reply'[q] # "refused"
    BY <1>1 DEF AnswerIn, TypeOK
  <2> QED
    BY <1>1, <1>2, <2>1, <2>2 DEF AnswerIn
<1> QED
  BY <1>3, <1>4, <1>5

LEMMA LedgerStep == AllLocked /\ LedgerInv /\ [Next]_vars => LedgerInv'
<1> SUFFICES ASSUME AllLocked, LedgerInv, [Next]_vars PROVE LedgerInv'
  OBVIOUS
<1>1. TypeOK'
  BY TypeStep DEF LedgerInv
<1> USE DEF LedgerInv, HolderKnown, InFlight, AtTop, AnswerIn, Unsettled, Stands, Cur, KeyOf, LockOf
<1>2. CASE UNCHANGED vars
  BY <1>1, <1>2 DEF vars
<1>3. ASSUME NEW m \in wire, Drop(m) PROVE LedgerInv'
  BY <1>1, <1>3 DEF Drop, procVars, nodeVars
<1>4. ASSUME NEW w \in Wallet, Mine(w) PROVE LedgerInv'
  BY <1>1, <1>4 DEF Mine, procVars
<1> QED
  BY <1>1, <1>2, <1>3, <1>4, LedgerProcess, LedgerReceive DEF Next

(* The steps of WalletSigning as steps of the ledger: a process tells its   *)
(* sender of an entry, takes it back with its next run, or stutters; ...    *)
LEMMA LedgerInit == Init => Ledger!Init /\ LedgerInv
<1> SUFFICES ASSUME Init PROVE Ledger!Init /\ LedgerInv
  OBVIOUS
<1>1. TypeOK /\ HolderKnown
  BY TypeInit, NonceInit DEF NonceInv
<1>2. InFlight /\ AtTop /\ AnswerIn
  BY DEF Init, InFlight, AtTop, AnswerIn, Unsettled
<1>3. chain = [w \in Wallet |-> <<>>] /\ Told = [p \in Proc |-> <<>>]
  BY DEF Init, Told
<1> QED
  BY <1>1, <1>2, <1>3 DEF LedgerInv, Ledger!Init

(* Only the entry of the process that moves can change in Told. *)
LEMMA ToldProcess ==
  ASSUME TypeOK, NEW p \in Proc, Start(p) \/ Advance(p) \/ Crash(p)
  PROVE  Told' = [Told EXCEPT ![p] = IF pc'[p] \in {"sent", "done"} THEN <<Cur(p)'>> ELSE <<>>]
<1>1. \A q \in Proc : q # p => pc'[q] = pc[q] /\ Cur(q)' = Cur(q)
  BY ProcessOthers
<1>2. Told' = [q \in Proc |-> IF pc'[q] \in {"sent", "done"} THEN <<Cur(q)'>> ELSE <<>>]
  BY DEF Told, Cur
<1> QED
  BY <1>1, <1>2 DEF Told

LEMMA RefineProcess ==
  ASSUME LedgerInv, NEW p \in Proc, Start(p) \/ Advance(p) \/ Crash(p)
  PROVE  [Ledger!Next]_(Ledger!vars)
<1> USE DEF LedgerInv
<1>1. chain' = chain
  BY ProcessFrame DEF nodeVars
<1>2. Told' = [Told EXCEPT ![p] = IF pc'[p] \in {"sent", "done"} THEN <<Cur(p)'>> ELSE <<>>]
  BY ToldProcess
<1>3. CASE pc'[p] \notin {"sent", "done"}
  <2>1. Ledger!Leave(p)
    BY <1>1, <1>2, <1>3 DEF Ledger!Leave
  <2> QED
    BY <2>1 DEF Ledger!Next
<1>4. CASE pc'[p] \in {"sent", "done"} /\ pc[p] = "wait"
  <2>1. Answered(p)
    BY <1>4 DEF TypeOK, Start, Advance, Crash, Acquire, Proceed, ReadNonce, Broadcast, RpcFail,
       GiveUp, SubmitDraft, Confirmed, ReceiptFails, End, Ended
  <2>2. reply[p] = "accepted" /\ Cur(p)' = Cur(p)
    BY <2>1 DEF Answered, AnswerIn, Cur
  <2>3. Stands(p)
    BY <1>4, <2>2 DEF AnswerIn
  <2>4. KeyOf(p) \in Wallet /\ nonce[p] \in Nat /\ Len(chain[KeyOf(p)]) \in Nat
    BY ConstantTypes DEF TypeOK
  <2>5. /\ nonce[p] + 1 \in 1 .. Len(chain[KeyOf(p)])
        /\ chain[KeyOf(p)][nonce[p] + 1] = Cur(p)
        /\ Cur(p).by = p
    BY <2>3, <2>4 DEF Stands, Cur
  <2>6. Told' = [Told EXCEPT ![p] = <<Cur(p)>>]
    BY <1>2, <1>4, <2>2
  <2>7. Ledger!Tell(p)
    BY <1>1, <2>5, <2>6 DEF Ledger!Tell
  <2> QED
    BY <2>7 DEF Ledger!Next
<1>5. CASE pc'[p] \in {"sent", "done"} /\ pc[p] # "wait"
  <2>1. SubmitDraft(p) \/ Confirmed(p)
    BY <1>5 DEF TypeOK, Start, Advance, Crash, Acquire, Proceed, ReadNonce, Broadcast, RpcFail,
       Answered, GiveUp, ReceiptFails, End
  <2>2. pc[p] = "sent" /\ Cur(p)' = Cur(p)
    BY <2>1 DEF SubmitDraft, Confirmed, Cur
  <2>3. Told' = Told
    BY <1>2, <1>5, <2>2 DEF Told
  <2> QED
    BY <1>1, <2>3 DEF Ledger!vars
<1> QED
  BY <1>3, <1>4, <1>5

(* ... the node's receipt of a transaction is the sender's Submit.          *)
LEMMA RefineReceive ==
  ASSUME LedgerInv, NEW m \in wire, Receive(m)
  PROVE  [Ledger!Next]_(Ledger!vars)
<1> DEFINE k == KeyOf(m.by)
<1>1. /\ m \in Tx /\ m.by \in Proc /\ k \in Wallet /\ m.nonce = Len(chain[k])
      /\ chain' = [chain EXCEPT ![k] = Append(@, m)]
      /\ UNCHANGED <<pc, nonce, sent>>
  BY LedgerAppend
<1>2. Told' = Told
  BY <1>1 DEF Told, Cur
<1>3. chain \in [Wallet -> Seq(Tx)] /\ chain[k] \in Seq(Tx)
  BY <1>1 DEF LedgerInv, TypeOK
<1>4. Len(chain'[k]) = Len(chain[k]) + 1 /\ chain'[k][Len(chain[k]) + 1] = m
  BY <1>1, <1>3
<1>5. Ledger!Submit(m.by)
  BY <1>1, <1>2, <1>4 DEF Ledger!Submit
<1> QED
  BY <1>1, <1>5 DEF Ledger!Next

LEMMA RefineStep == LedgerInv /\ [Next]_vars => [Ledger!Next]_(Ledger!vars)
<1> SUFFICES ASSUME LedgerInv, [Next]_vars PROVE [Ledger!Next]_(Ledger!vars)
  OBVIOUS
<1> USE DEF Ledger!vars, Told, Cur
<1>1. CASE UNCHANGED vars
  BY <1>1 DEF vars
<1>2. ASSUME NEW m \in wire, Drop(m) PROVE UNCHANGED Ledger!vars
  BY <1>2 DEF Drop, procVars, nodeVars
<1>3. ASSUME NEW w \in Wallet, Mine(w) PROVE UNCHANGED Ledger!vars
  BY <1>3 DEF Mine, procVars
<1> QED
  BY <1>1, <1>2, <1>3, RefineProcess, RefineReceive DEF Next

(* wallet_lock.rs:13-18: where every two senders of a wallet are posts      *)
(* under one lock and nobody stops waiting for a broadcast under way,       *)
(* reading the nonce, signing and broadcasting are together one step: the   *)
(* processes, the lock and the node do what NonceLedger does, for any       *)
(* number of senders, wallets, lock files and runs.                         *)
THEOREM LedgerRefinement ==
  ASSUME AllLocked
  PROVE  Spec => SerializedNonces
<1>1. LedgerInv /\ [Next]_vars => LedgerInv'
  BY LedgerStep
<1> QED
  BY <1>1, LedgerInit, RefineStep, PTL DEF Spec, SerializedNonces, Ledger!Spec

(* What the ledger makes of a report: the transaction a run has the hash of *)
(* is in the chain, at its nonce, as long as the run stands.                *)
Reported == \A p \in Proc : pc[p] \in {"sent", "done"} => Stands(p)

LEMMA ReportedStep == AllLocked /\ LedgerInv /\ Reported /\ [Next]_vars => Reported'
<1> SUFFICES ASSUME LedgerInv, Reported, [Next]_vars,
                    NEW p \in Proc, pc'[p] \in {"sent", "done"}
             PROVE  Stands(p)'
  BY DEF Reported
<1> USE DEF LedgerInv
<1>1. ASSUME chain' = chain, Cur(p)' = Cur(p), nonce'[p] = nonce[p], Stands(p)
      PROVE  Stands(p)'
  BY <1>1 DEF Stands, KeyOf
<1>2. ASSUME NEW q \in Proc, Start(q) \/ Advance(q) \/ Crash(q) PROVE Stands(p)'
  <2>1. chain' = chain
    BY <1>2, ProcessFrame DEF nodeVars
  <2>2. CASE p # q
    BY <1>1, <1>2, <2>1, <2>2, ProcessOthers DEF Reported
  <2>3. CASE p = q
    <3>1. Answered(p) \/ SubmitDraft(p) \/ Confirmed(p)
      BY <1>2, <2>3 DEF TypeOK, Start, Advance, Crash, Acquire, Proceed, ReadNonce, Broadcast,
         RpcFail, GiveUp, ReceiptFails, End
    <3>2. Cur(p)' = Cur(p) /\ nonce'[p] = nonce[p]
      BY <3>1 DEF Answered, SubmitDraft, Confirmed, Cur
    <3>3. pc[p] = "sent" \/ (pc[p] = "wait" /\ reply[p] = "accepted")
      BY <3>1 DEF Answered, AnswerIn, SubmitDraft, Confirmed
    <3> QED
      BY <1>1, <2>1, <3>2, <3>3 DEF Reported, AnswerIn
  <2> QED
    BY <2>2, <2>3
<1>3. ASSUME NEW m \in wire, Receive(m) PROVE Stands(p)'
  <2> DEFINE k == KeyOf(m.by)
  <2>1. /\ k \in Wallet /\ chain' = [chain EXCEPT ![k] = Append(@, m)] /\ m \in Tx
        /\ UNCHANGED <<pc, nonce, sent>>
    BY <1>3, LedgerAppend
  <2>2. Stands(p) /\ Cur(p)' = Cur(p)
    BY <2>1 DEF Reported, Cur
  <2>3. /\ KeyOf(p) \in Wallet /\ chain[KeyOf(p)] \in Seq(Tx) /\ chain \in [Wallet -> Seq(Tx)]
        /\ nonce[p] \in Nat
    BY ConstantTypes DEF TypeOK
  <2>4. /\ nonce[p] < Len(chain'[KeyOf(p)])
        /\ chain'[KeyOf(p)][nonce[p] + 1] = chain[KeyOf(p)][nonce[p] + 1]
    <3>1. CASE KeyOf(p) = k
      BY <2>1, <2>2, <2>3, <3>1 DEF Stands
    <3>2. CASE KeyOf(p) # k
      BY <2>1, <2>2, <2>3, <3>2 DEF Stands
    <3> QED
      BY <3>1, <3>2
  <2> QED
    BY <2>1, <2>2, <2>4 DEF Stands, KeyOf
<1>4. CASE UNCHANGED vars \/ (\E m \in wire : Drop(m)) \/ (\E w \in Wallet : Mine(w))
  <2>1. UNCHANGED <<pc, nonce, sent, chain>>
    BY <1>4 DEF vars, Drop, Mine, procVars, nodeVars
  <2> QED
    BY <1>1, <2>1 DEF Reported, Cur
<1> QED
  BY <1>2, <1>3, <1>4 DEF Next

(* Under the hypotheses of the refinement VoucherOnChain needs no exception *)
(* and is not about posts alone: whatever hash a post, an escrow, a bond or *)
(* a cast of such a wallet goes on with, the node holds that transaction    *)
(* at that nonce, and nothing takes its place (wallet_lock.rs:10-18).       *)
THEOREM ReportSafety ==
  ASSUME AllLocked
  PROVE  Spec => []Reported
<1>1. Init => LedgerInv /\ Reported
  BY LedgerInit DEF Init, Reported
<1>2. LedgerInv /\ [Next]_vars => LedgerInv'
  BY LedgerStep
<1>3. LedgerInv /\ Reported /\ [Next]_vars => Reported'
  BY ReportedStep
<1> QED
  BY <1>1, <1>2, <1>3, PTL DEF Spec
=============================================================================
