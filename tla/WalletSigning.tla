--------------------------- MODULE WalletSigning ---------------------------
(***************************************************************************)
(* Several `taskfast` processes sign transactions with keystores of one    *)
(* host and broadcast them through a Tempo RPC node.  `taskfast post`      *)
(* holds an exclusive lock beside its keystore while it signs and          *)
(* broadcasts (wallet_lock.rs); `escrow sign`, `bond post` and `cast send` *)
(* run the same signing code (tempo_rpc.rs) without the lock.              *)
(*                                                                         *)
(* The node is external: it keeps, for each address, the transactions it   *)
(* accepted, in nonce order, and how many of them are mined.  What the     *)
(* node does with a nonce it has already accepted follows the comment of   *)
(* wallet_lock.rs:10: the second arrival is dropped, or, while the first   *)
(* one is not mined, takes its place (a better gas price).                 *)
(***************************************************************************)
EXTENDS Integers, Sequences

CONSTANTS
  Proc,       \* CLI invocations that may run at the same time
  Path,       \* spellings of --keystore / keystore_path
  Keystore,   \* keystore files, links resolved
  Dir,        \* directories
  Wallet,     \* addresses
  Cmd,        \* Cmd[p]: the subcommand process p runs
  PathOf,     \* PathOf[p]: the spelling p was given
  DirOf,      \* DirOf[s]: the directory that holds the last component of s
  FileOf,     \* FileOf[s]: the file s resolves to
  WalletOf,   \* WalletOf[f]: the address whose key file f holds
  Custom,     \* processes given an RPC endpoint of their own (--rpc-url)
  Lossy,      \* may a sender stop waiting while its broadcast is under way?
  MaxRuns,    \* bound: how often each process slot is used
  NoProc      \* "nobody holds the lock"

Command == {"post", "escrow", "bond", "cast"}

ASSUME ConstantsAssumption ==
  /\ Cmd \in [Proc -> Command]
  /\ PathOf \in [Proc -> Path]
  /\ DirOf \in [Path -> Dir]
  /\ FileOf \in [Path -> Keystore]
  /\ WalletOf \in [Keystore -> Wallet]
  /\ Custom \subseteq Proc
  /\ Lossy \in BOOLEAN
  /\ MaxRuns \in Nat
  /\ NoProc \notin Proc

VARIABLES
  pc,      \* pc[p]: where process p stands
  lock,    \* lock[d]: the process whose guard holds d's .taskfast-wallet.lock
  nonce,   \* nonce[p]: the nonce p read for the transaction it builds
  sent,    \* sent[p]: how many transactions slot p has broadcast
  left,    \* left[p]: transactions this run of p still has to broadcast
  runs,    \* runs[p]: how often slot p was used
  reply,   \* reply[p]: the node's verdict on p's current broadcast
  wire,    \* raw transactions on their way to the node
  chain,   \* chain[w]: what the node accepted for w; position n+1 is nonce n
  mined,   \* mined[w]: how many of them are in a block
  seen,    \* history: every transaction the node received
  late     \* history: those whose sender had stopped waiting by then

procVars == <<pc, nonce, sent, left, runs, reply>>
nodeVars == <<chain, mined, seen, late>>
vars == <<pc, lock, nonce, sent, left, runs, reply, wire, chain, mined, seen, late>>

Tx == [by : Proc, seq : Nat, nonce : Nat]

Poster == {p \in Proc : Cmd[p] = "post"}
KeyOf(p) == WalletOf[FileOf[PathOf[p]]]

(* lock_path_for: the lock file sits in the directory of the path as given. *)
LockOf(p) == DirOf[PathOf[p]]

Ended == {"idle", "done", "failed"}
Critical == {"signing", "nonced", "wait", "sent"}
PcValue == Ended \cup Critical \cup {"ready"}

(* The transaction p broadcast last. *)
Cur(p) == [by |-> p, seq |-> sent[p], nonce |-> nonce[p]]

(* eth_getTransactionCount(address, "pending"); the other is a slip: the     *)
(* "latest" count.                                                          *)
LatestNonce(w) == mined[w]
PendingNonce(w) == Len(chain[w])

(* The locks once p's guard is dropped (or, wrongly, leaked). *)
LeakedLock(p) == lock
ReleasedLock(p) == [d \in Dir |-> IF lock[d] = p THEN NoProc ELSE lock[d]]

Init ==
  /\ pc = [p \in Proc |-> "idle"]
  /\ lock = [d \in Dir |-> NoProc]
  /\ nonce = [p \in Proc |-> 0]
  /\ sent = [p \in Proc |-> 0]
  /\ left = [p \in Proc |-> 0]
  /\ runs = [p \in Proc |-> 0]
  /\ reply = [p \in Proc |-> "none"]
  /\ wire = {}
  /\ chain = [w \in Wallet |-> <<>>]
  /\ mined = [w \in Wallet |-> 0]
  /\ seen = {}
  /\ late = {}

-----------------------------------------------------------------------------
(* The processes.                                                          *)

(* Every return of the command, early or not, drops the guard. *)
End(p, how) ==
  /\ pc' = [pc EXCEPT ![p] = how]
  /\ lock' = ReleasedLock(p)

(* Up to the point where the signer is loaded nothing of this model moves.  *)
(* escrow and bond send one transaction when the allowance suffices and two *)
(* (approve, then open or post) when it does not.                           *)
TxCounts(p) == IF Cmd[p] \in {"escrow", "bond"} THEN {1, 2} ELSE {1}

Start(p) ==
  /\ pc[p] \in Ended
  /\ runs[p] < MaxRuns
  /\ pc' = [pc EXCEPT ![p] = "ready"]
  /\ runs' = [runs EXCEPT ![p] = @ + 1]
  /\ left' \in {[left EXCEPT ![p] = n] : n \in TxCounts(p)}
  /\ UNCHANGED <<lock, nonce, sent, reply, wire, nodeVars>>

(* wallet_lock::acquire blocks until nobody holds the lock file.  (Two       *)
(* slips to tell apart: not blocking, and a guard that is dropped at once.) *)
AcquireAlways(p) ==
  /\ pc[p] = "ready"
  /\ p \in Poster
  /\ pc' = [pc EXCEPT ![p] = "signing"]
  /\ lock' = [lock EXCEPT ![LockOf(p)] = p]
  /\ UNCHANGED <<nonce, sent, left, runs, reply, wire, nodeVars>>

AcquireUnheld(p) ==
  /\ pc[p] = "ready"
  /\ p \in Poster
  /\ lock[LockOf(p)] = NoProc
  /\ pc' = [pc EXCEPT ![p] = "signing"]
  /\ UNCHANGED <<lock, nonce, sent, left, runs, reply, wire, nodeVars>>

Acquire(p) ==
  /\ pc[p] = "ready"
  /\ p \in Poster
  /\ lock[LockOf(p)] = NoProc
  /\ pc' = [pc EXCEPT ![p] = "signing"]
  /\ lock' = [lock EXCEPT ![LockOf(p)] = p]
  /\ UNCHANGED <<nonce, sent, left, runs, reply, wire, nodeVars>>

(* The other commands go straight to signing. *)
Proceed(p) ==
  /\ pc[p] = "ready"
  /\ p \notin Poster
  /\ pc' = [pc EXCEPT ![p] = "signing"]
  /\ UNCHANGED <<lock, nonce, sent, left, runs, reply, wire, nodeVars>>

(* sign_tx: eth_chainId, then the nonce. *)
ReadNonce(p) ==
  /\ pc[p] = "signing"
  /\ pc' = [pc EXCEPT ![p] = "nonced"]
  /\ nonce' = [nonce EXCEPT ![p] = PendingNonce(KeyOf(p))]
  /\ UNCHANGED <<lock, sent, left, runs, reply, wire, nodeVars>>

(* sign_tx: gas price, gas estimate, signature; then the raw transaction is *)
(* sent.  A 429 is answered before the node sees anything, so its retries   *)
(* are the same broadcast.                                                  *)
Broadcast(p) ==
  /\ pc[p] = "nonced"
  /\ pc' = [pc EXCEPT ![p] = "wait"]
  /\ sent' = [sent EXCEPT ![p] = @ + 1]
  /\ left' = [left EXCEPT ![p] = @ - 1]
  /\ reply' = [reply EXCEPT ![p] = "none"]
  /\ wire' = wire \cup {[by |-> p, seq |-> sent[p] + 1, nonce |-> nonce[p]]}
  /\ UNCHANGED <<lock, nonce, runs, nodeVars>>

(* Any RPC of sign_tx fails, or the retries of a throttled one run out.     *)
RpcFail(p) ==
  /\ pc[p] \in {"signing", "nonced"}
  /\ End(p, "failed")
  /\ UNCHANGED <<nonce, sent, left, runs, reply, wire, nodeVars>>

(* The answer to eth_sendRawTransaction: the hash, or an RPC error. *)
Answered(p) ==
  /\ pc[p] = "wait"
  /\ \/ /\ reply[p] = "accepted"
        /\ pc' = [pc EXCEPT ![p] = "sent"]
        /\ UNCHANGED lock
     \/ /\ reply[p] = "refused"
        /\ End(p, "failed")
  /\ UNCHANGED <<nonce, sent, left, runs, reply, wire, nodeVars>>

(* The answer never comes: connection error or request timeout, which is    *)
(* not retried.  Unless Lossy, this is only seen of a broadcast that is no  *)
(* longer under way.                                                        *)
GiveUp(p) ==
  /\ pc[p] = "wait"
  /\ Lossy \/ Cur(p) \notin wire
  /\ End(p, "failed")
  /\ UNCHANGED <<nonce, sent, left, runs, reply, wire, nodeVars>>

(* post: the voucher goes to POST /task_drafts/{id}/submit, still under the *)
(* guard; whatever the answer, run() returns and the guard is dropped.      *)
SubmitDraft(p) ==
  /\ pc[p] = "sent"
  /\ p \in Poster
  /\ \E how \in {"done", "failed"} : End(p, how)
  /\ UNCHANGED <<nonce, sent, left, runs, reply, wire, nodeVars>>

(* The other commands poll the receipt: the transaction is mined in its     *)
(* nonce's place, and the run goes on to its next transaction or ends.      *)
Confirmed(p) ==
  /\ pc[p] = "sent"
  /\ p \notin Poster
  /\ nonce[p] < mined[KeyOf(p)]
  /\ chain[KeyOf(p)][nonce[p] + 1] = Cur(p)
  /\ pc' = [pc EXCEPT ![p] = IF left[p] > 0 THEN "signing" ELSE "done"]
  /\ UNCHANGED <<lock, nonce, sent, left, runs, reply, wire, nodeVars>>

(* The receipt says reverted, or does not come within the receipt timeout. *)
ReceiptFails(p) ==
  /\ pc[p] = "sent"
  /\ p \notin Poster
  /\ End(p, "failed")
  /\ UNCHANGED <<nonce, sent, left, runs, reply, wire, nodeVars>>

(* The process is killed; the kernel closes the lock file. *)
Crash(p) ==
  /\ pc[p] \notin Ended
  /\ Lossy \/ Cur(p) \notin wire
  /\ End(p, "failed")
  /\ UNCHANGED <<nonce, sent, left, runs, reply, wire, nodeVars>>

-----------------------------------------------------------------------------
(* The node and the network.                                               *)

Verdict(m, r) ==
  reply' = IF pc[m.by] = "wait" /\ m = Cur(m.by)
           THEN [reply EXCEPT ![m.by] = r] ELSE reply

Receive(m) ==
  LET w == KeyOf(m.by) IN
  /\ m \in wire
  /\ wire' = wire \ {m}
  /\ seen' = seen \cup {m}
  /\ late' = IF pc[m.by] = "wait" /\ m = Cur(m.by) THEN late ELSE late \cup {m}
  /\ \/ /\ m.nonce = Len(chain[w])
        /\ chain' = [chain EXCEPT ![w] = Append(@, m)]
        /\ Verdict(m, "accepted")
     \/ /\ m.nonce < Len(chain[w])
        /\ Verdict(m, "refused")
        /\ UNCHANGED chain
     \/ /\ m.nonce \in mined[w] .. Len(chain[w]) - 1
        /\ chain' = [chain EXCEPT ![w][m.nonce + 1] = m]
        /\ Verdict(m, "accepted")
  /\ UNCHANGED <<pc, lock, nonce, sent, left, runs, mined>>

(* A request that never arrives. *)
Drop(m) ==
  /\ m \in wire
  /\ wire' = wire \ {m}
  /\ UNCHANGED <<procVars, lock, nodeVars>>

Mine(w) ==
  /\ mined[w] < Len(chain[w])
  /\ mined' = [mined EXCEPT ![w] = @ + 1]
  /\ UNCHANGED <<procVars, lock, wire, chain, seen, late>>

-----------------------------------------------------------------------------

Advance(p) ==
  \/ Acquire(p)
  \/ Proceed(p)
  \/ ReadNonce(p)
  \/ Broadcast(p)
  \/ RpcFail(p)
  \/ Answered(p)
  \/ GiveUp(p)
  \/ SubmitDraft(p)
  \/ Confirmed(p)
  \/ ReceiptFails(p)

Next ==
  \/ \E p \in Proc : Start(p) \/ Advance(p) \/ Crash(p)
  \/ \E m \in wire : Receive(m) \/ Drop(m)
  \/ \E w \in Wallet : Mine(w)

Spec == Init /\ [][Next]_vars

(* What p does without waiting for its RPC endpoint; the draft goes to the   *)
(* API, whose client has a timeout.                                         *)
AdvanceAlone(p) == Acquire(p) \/ Proceed(p) \/ Answered(p) \/ SubmitDraft(p)

(* A running process keeps executing.  Every request to the deployment's    *)
(* RPC proxy ends: the HTTP client it shares with the API has a 30 s        *)
(* timeout (client.rs:40).  A request to a custom endpoint need not end:    *)
(* its client has none (mod.rs:227).  Nothing is assumed of the node, the   *)
(* chain, or of anybody starting a process.                                 *)
FairSpec ==
  /\ Spec
  /\ \A p \in Proc \ Custom : WF_vars(Advance(p))
  /\ \A p \in Custom : WF_vars(AdvanceAlone(p))

-----------------------------------------------------------------------------
(* Properties.                                                             *)

TypeOK ==
  /\ pc \in [Proc -> PcValue]
  /\ lock \in [Dir -> Proc \cup {NoProc}]
  /\ nonce \in [Proc -> Nat]
  /\ sent \in [Proc -> Nat]
  /\ left \in [Proc -> Int]
  /\ runs \in [Proc -> Nat]
  /\ reply \in [Proc -> {"none", "accepted", "refused"}]
  /\ wire \subseteq Tx
  /\ chain \in [Wallet -> Seq(Tx)]
  /\ mined \in [Wallet -> Nat]
  /\ seen \subseteq Tx
  /\ late \subseteq seen

(* Two processes that contend for one lock file and sign with one key. *)
SameLock(p, q) == p \in Poster /\ q \in Poster /\ LockOf(p) = LockOf(q)

SameNonce(a, b) == KeyOf(a.by) = KeyOf(b.by) /\ a.nonce = b.nonce

(* What wallet_lock.rs is for: two transactions of one address reach the    *)
(* node with one nonce only if their senders do not share the lock, or one  *)
(* of them arrived after its sender had stopped waiting for it (a timeout   *)
(* or a crash released the lock while the broadcast was still under way).   *)
NonceExclusive ==
  \A a, b \in seen :
    SameNonce(a, b) /\ a # b =>
      a \in late \/ b \in late \/ ~SameLock(a.by, b.by)

(* NonceExclusive is not inductive.  It follows from three facts: a post    *)
(* past the lock is the holder of its lock file; whatever the node received *)
(* lies below its pending count; and while a post has a nonce that has not  *)
(* reached the node, the senders under its lock have sent smaller ones.     *)
HolderKnown ==
  \A p \in Poster : pc[p] \in Critical => lock[LockOf(p)] = p

SeenSettled == \A a \in seen : a.nonce < Len(chain[KeyOf(a.by)])

Unsettled(p) == pc[p] = "nonced" \/ (pc[p] = "wait" /\ Cur(p) \in wire)

NonceFresh ==
  \A p \in Poster : Unsettled(p) =>
    \A b \in seen \ late :
      SameLock(b.by, p) /\ KeyOf(b.by) = KeyOf(p) => b.nonce < nonce[p]

NonceInv == HolderKnown /\ SeenSettled /\ NonceFresh /\ NonceExclusive

(* The hash a post hands to the server as its voucher names the transaction *)
(* the chain holds at that nonce, unless a transaction outside the lock's   *)
(* protection was sent with the same nonce.                                 *)
VoucherOnChain ==
  \A p \in Poster :
    pc[p] \in {"sent", "done"} =>
      \/ /\ nonce[p] < Len(chain[KeyOf(p)])
         /\ chain[KeyOf(p)][nonce[p] + 1] = Cur(p)
      \/ \E b \in seen :
           /\ SameNonce(b, Cur(p)) /\ b # Cur(p)
           /\ b \in late \/ ~SameLock(b.by, p)

(* p waits for an answer of its RPC endpoint: in sign_tx, for the hash, or,  *)
(* unless it posts, for the receipt.                                        *)
AtNode(p) ==
  \/ pc[p] \in {"signing", "nonced"}
  \/ pc[p] = "wait" /\ reply[p] = "none"
  \/ pc[p] = "sent" /\ p \notin Poster

(* wallet_lock.rs:16-19, "no stale-lock problem": whatever fails, crashes   *)
(* or hangs around it, a run that got as far as the lock ends.  The one     *)
(* thing that can stop it is an endpoint without a timeout (mod.rs:227)     *)
(* that never answers: its own, or that of a post under the same lock,      *)
(* which then keeps the lock for ever.                                      *)
EveryRunEnds ==
  \A p \in Proc :
    pc[p] = "ready" ~>
      \/ pc[p] \in Ended
      \/ \E q \in Custom : (q = p \/ SameLock(p, q)) /\ []AtNode(q)

(* The lock makes nonce, signature and broadcast one step: told is the      *)
(* transaction a sender has the hash of, as long as its run stands.         *)
Told == [p \in Proc |->
           IF pc[p] \in {"sent", "done"} THEN <<Cur(p)>> ELSE <<>>]
Ledger == INSTANCE NonceLedger WITH
            Sender <- Proc, Account <- Wallet,
            AccountOf <- [p \in Proc |-> KeyOf(p)],
            ledger <- chain, told <- Told

(* When the senders of a wallet are posts under one lock, or one sender     *)
(* only, and no broadcast is abandoned, the whole of WalletSigning behaves  *)
(* like NonceLedger: no transaction is refused, none is replaced, none      *)
(* reported without being in the chain (wallet_lock.rs:13-18).              *)
SerializedNonces == Ledger!Spec
=============================================================================
