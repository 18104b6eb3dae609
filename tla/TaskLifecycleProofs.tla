------------------------ MODULE TaskLifecycleProofs ------------------------
(***************************************************************************)
(* Proofs about TaskLifecycle, for any agents, files, bounds and clocks.   *)
(***************************************************************************)
EXTENDS TaskLifecycle, SequenceTheorems, TLAPS

(***************************************************************************)
(* The invariant.  Of the server: an assigned task has a holder, and one   *)
(* that has been begun is known to have been.                              *)
(***************************************************************************)
Held == srv.status = "assigned" => srv.holder # None
Begun == srv.status \in AtOrPastInProgress => srv.begun # {}

(* Of an upload: what has been obtained is stored, distinct, and of the    *)
(* files given, one by one; so is what the ticket at hand has become, and  *)
(* there is none before its one PUT; a submission comes after the last file.   *)
Stored(c, st) ==
  /\ Len(c.ids) <= Len(c.files)
  /\ \A i \in 1 .. Len(c.ids) : /\ c.ids[i] \in 1 .. Len(st)
                                /\ st[c.ids[i]].file = c.files[i]
                                /\ \A j \in 1 .. i - 1 : c.ids[j] # c.ids[i]
AtFile(c) == c.pc \in {"initiate", "put", "multipart", "complete", "backoff"} =>
  /\ c.op \in {"upload", "submit"} /\ Len(c.ids) < Len(c.files)
Ticketed(c, st) ==
  /\ c.pc \notin {"complete", "backoff"} => c.ticket = NewTicket
  /\ c.ticket.puts <= 1
  /\ c.ticket.art > 0 => /\ c.ticket.art \in 1 .. Len(st)
                         /\ st[c.ticket.art].file = c.files[Len(c.ids) + 1]
                         /\ \A i \in 1 .. Len(c.ids) : c.ids[i] # c.ticket.art
Posting(c) == c.pc = "post" => Len(c.ids) = Len(c.files)
Uploading(c, st) == Stored(c, st) /\ AtFile(c) /\ Ticketed(c, st) /\ Posting(c)

TaskInv ==
  /\ TypeOK /\ Held /\ Begun /\ GoalReached
  /\ \A p \in Agents : Uploading(cmd[p], srv.stored)

LEMMA IdleIsFree ==
  /\ Idle \in Cmd /\ Idle.pc = "idle" /\ Idle.ids = <<>> /\ Idle.ticket = NewTicket
  /\ \A st : Uploading(Idle, st)
<1>1. Idle \in Cmd /\ Idle.pc = "idle" /\ Idle.ids = <<>> /\ Idle.ticket = NewTicket
  BY EmptySeq DEF Idle, Cmd, NewTicket
<1>2. Len(Idle.ids) = 0 /\ Len(Idle.files) = 0 /\ Idle.ticket.art = 0 /\ Idle.ticket.puts = 0
  BY EmptySeq DEF Idle, NewTicket
<1> QED
  BY <1>1, <1>2 DEF Uploading, Stored, AtFile, Ticketed, Posting

LEMMA TaskInit == Init => TaskInv
<1> SUFFICES ASSUME Init PROVE TaskInv
  OBVIOUS
<1>1. /\ srv \in Srv /\ srv.status = "blocked_on_submission_fee_debt"
  BY EmptySeq DEF Init, Srv, Statuses, BidStatuses
<1>2. cmd = [p \in Agents |-> Idle] /\ dry \in BOOLEAN /\ told = {}
  BY DEF Init
<1> QED
  BY <1>1, <1>2, IdleIsFree
  DEF TaskInv, TypeOK, Held, Begun, GoalReached, AtOrPastInProgress

(***************************************************************************)
(* What every step of the server's records keeps.                          *)
(***************************************************************************)
Grows(st, new) == /\ Len(st) <= Len(new)
                  /\ \A i \in 1 .. Len(st) : new[i].file = st[i].file
Keeps ==
  /\ srv' \in Srv /\ Held' /\ Begun' /\ srv.begun \subseteq srv'.begun
  /\ srv.status \in SettlementNote => srv'.status \in SettlementNote
  /\ Grows(srv.stored, srv'.stored)

LEMMA GrowthKeepsUploads ==
  ASSUME NEW c \in Cmd, NEW st \in Seq(Artifact), NEW new \in Seq(Artifact),
         Uploading(c, st), Grows(st, new)
  PROVE  Uploading(c, new)
<1>1. Len(st) \in Nat /\ Len(new) \in Nat /\ c.ticket.art \in Nat
  BY LenProperties DEF Cmd
<1>2. Stored(c, new)
  <2>1. ASSUME NEW i \in 1 .. Len(c.ids)
        PROVE  /\ c.ids[i] \in 1 .. Len(new) /\ new[c.ids[i]].file = c.files[i]
               /\ \A j \in 1 .. i - 1 : c.ids[j] # c.ids[i]
    <3>1. /\ c.ids[i] \in 1 .. Len(st) /\ st[c.ids[i]].file = c.files[i]
          /\ \A j \in 1 .. i - 1 : c.ids[j] # c.ids[i]
      BY <2>1 DEF Uploading, Stored
    <3> QED
      BY <1>1, <3>1 DEF Grows
  <2> QED
    BY <2>1 DEF Uploading, Stored
<1>3. Ticketed(c, new)
  BY <1>1 DEF Uploading, Ticketed, Grows
<1> QED
  BY <1>2, <1>3 DEF Uploading

(***************************************************************************)
(* A step of one agent, or of none: it is enough to look at its command    *)
(* and at what it reports.                                                 *)
(***************************************************************************)
LEMMA StepOf ==
  ASSUME TaskInv, Keeps, NEW p \in Agents, dry' = dry,
         cmd' \in [Agents -> Cmd], \A q \in Agents : q # p => cmd'[q] = cmd[q],
         Uploading(cmd'[p], srv'.stored),
         \/ told' = told
         \/ /\ told' = told \cup {p}
            /\ p \in Workers => srv'.begun # {}
            /\ p = Poster => srv'.status \in SettlementNote
  PROVE  TaskInv'
<1>1. TypeOK' /\ Held' /\ Begun'
  BY DEF TaskInv, TypeOK, Keeps
<1>2. GoalReached'
  BY TaskAssumption DEF TaskInv, GoalReached, Keeps, SettlementNote, TypeOK, Agents
<1>3. ASSUME NEW q \in Agents PROVE Uploading(cmd'[q], srv'.stored)
  <2>1. CASE q = p
    BY <2>1
  <2>2. CASE q # p
    <3>1. cmd'[q] = cmd[q] /\ Uploading(cmd[q], srv.stored) /\ cmd[q] \in Cmd
      BY <2>2 DEF TaskInv, TypeOK
    <3>2. /\ srv.stored \in Seq(Artifact) /\ srv'.stored \in Seq(Artifact)
          /\ Grows(srv.stored, srv'.stored)
      BY DEF TaskInv, TypeOK, Keeps, Srv
    <3> QED
      BY <3>1, <3>2, GrowthKeepsUploads
  <2> QED
    BY <2>1, <2>2
<1> QED
  BY <1>1, <1>2, <1>3 DEF TaskInv

LEMMA NoCommandStep ==
  ASSUME TaskInv, Keeps, UNCHANGED <<cmd, dry, told>>
  PROVE  TaskInv'
<1>1. Poster \in Agents
  BY DEF Agents
<1>2. cmd' \in [Agents -> Cmd] /\ cmd[Poster] \in Cmd
  BY <1>1 DEF TaskInv, TypeOK
<1>3. Uploading(cmd'[Poster], srv'.stored)
  <2>1. /\ srv.stored \in Seq(Artifact) /\ srv'.stored \in Seq(Artifact)
        /\ Grows(srv.stored, srv'.stored) /\ Uploading(cmd[Poster], srv.stored)
    BY <1>1 DEF TaskInv, TypeOK, Keeps, Srv
  <2> QED
    BY <1>2, <2>1, GrowthKeepsUploads
<1> QED
  BY <1>1, <1>2, <1>3, StepOf

(***************************************************************************)
(* The server's records.                                                   *)
(***************************************************************************)
LEMMA Unmoved == ASSUME TaskInv, srv' = srv PROVE Keeps
<1>1. Len(srv.stored) \in Nat
  BY LenProperties DEF TaskInv, TypeOK, Srv
<1> QED
  BY <1>1 DEF Keeps, Grows, TaskInv, TypeOK, Held, Begun

(* The status moves, and fields besides the artifacts and who has begun.   *)
LEMMA Moved ==
  ASSUME TaskInv, srv' \in Srv, srv'.stored = srv.stored, srv.begun \subseteq srv'.begun,
         srv'.status = "assigned" => srv'.holder # None,
         srv'.status \in AtOrPastInProgress =>
           srv.status \in AtOrPastInProgress \/ srv'.begun # {},
         srv.status \in SettlementNote => srv'.status \in SettlementNote
  PROVE  Keeps
<1>1. Len(srv.stored) \in Nat
  BY LenProperties DEF TaskInv, TypeOK, Srv
<1>2. Begun'
  BY DEF TaskInv, Begun
<1> QED
  BY <1>1, <1>2 DEF Keeps, Grows, Held

LEMMA ToFields ==
  ASSUME srv \in Srv, NEW s \in Statuses
  PROVE  /\ To(s) \in Srv /\ To(s).status = s /\ To(s).holder = srv.holder
         /\ To(s).stored = srv.stored /\ To(s).begun = srv.begun /\ To(s).sub = srv.sub
BY DEF To, Srv

LEMMA VacatedFields ==
  ASSUME srv \in Srv, NEW s \in Statuses
  PROVE  /\ Vacated(s) \in Srv /\ Vacated(s).status = s
         /\ Vacated(s).stored = srv.stored /\ Vacated(s).begun = srv.begun
         /\ Vacated(s).sub = srv.sub
BY DEF Vacated, Srv, BidStatuses

(* ... to a status other than "assigned", by who may move it there.         *)
LEMMA MovedTo ==
  ASSUME TaskInv, NEW s \in Statuses, s # "assigned",
         s \in AtOrPastInProgress => srv.status \in AtOrPastInProgress,
         srv.status \in SettlementNote => s \in SettlementNote,
         srv' \in Srv, srv'.status = s, srv'.stored = srv.stored, srv'.begun = srv.begun
  PROVE  Keeps
BY Moved

LEMMA BidKeeps ==
  ASSUME TaskInv, NEW w \in Workers,
         BidCreate(w) \/ BidCancel(w) \/ BidAccept(w) \/ BidReject(w)
  PROVE  Keeps
<1>1. srv \in Srv /\ Held
  BY DEF TaskInv, TypeOK
<1>2. \A s \in Statuses, b \in BidStatuses :
        LET r == [To(s) EXCEPT !.bid[w] = b] IN
        /\ r \in Srv /\ r.status = s /\ r.stored = srv.stored /\ r.begun = srv.begun
  BY <1>1 DEF To, Srv
<1>3. \A b \in BidStatuses :
        LET r == [srv EXCEPT !.bid[w] = b] IN
        /\ r \in Srv /\ r.status = srv.status /\ r.holder = srv.holder
        /\ r.stored = srv.stored /\ r.begun = srv.begun
  BY <1>1 DEF Srv
<1>4. CASE BidCreate(w)
  BY <1>1, <1>2, <1>4, MovedTo DEF BidCreate, Mutating, Statuses, BidStatuses,
     AtOrPastInProgress, SettlementNote
<1>5. CASE BidAccept(w)
  BY <1>1, <1>2, <1>5, MovedTo DEF BidAccept, Mutating, Statuses, BidStatuses,
     AtOrPastInProgress, SettlementNote
<1>6. CASE BidCancel(w) \/ BidReject(w)
  BY <1>1, <1>3, <1>6, Moved DEF BidCancel, BidReject, Mutating, BidStatuses, Held
<1> QED
  BY <1>4, <1>5, <1>6

LEMMA StatusKeeps ==
  ASSUME TaskInv, Approve \/ Dispute \/ RetryFee \/ FeePaid \/ ReviewLapsed \/ BiddingLapsed
  PROVE  Keeps
<1>1. srv \in Srv
  BY DEF TaskInv, TypeOK
<1>2. PICK s \in {"complete", "disputed", "pending_evaluation", "expired"} :
        /\ srv' = To(s)
        /\ s \in {"complete", "disputed"} => srv.status = "under_review"
        /\ srv.status \notin SettlementNote
  BY DEF Approve, Dispute, RetryFee, FeePaid, ReviewLapsed, BiddingLapsed, Mutating,
     SettlementNote
<1>3. s \in Statuses
  BY DEF Statuses
<1> QED
  BY <1>1, <1>2, <1>3, ToFields, MovedTo DEF AtOrPastInProgress

LEMMA VacantKeeps ==
  ASSUME TaskInv,
         \/ Cancel \/ Reopen \/ PickupLapsed \/ Overdue
         \/ \E w \in Workers : Refuse(w) \/ Concede(w) \/ Abort(w)
  PROVE  Keeps
<1>1. srv \in Srv
  BY DEF TaskInv, TypeOK
<1>2. PICK s \in {"cancelled", "open", "unassigned", "abandoned"} :
        srv' = Vacated(s) /\ srv.status \notin SettlementNote
  BY DEF Cancel, Reopen, PickupLapsed, Overdue, Refuse, Concede, Abort, Mutating, SettlementNote
<1>3. s \in Statuses
  BY DEF Statuses
<1> QED
  BY <1>1, <1>2, <1>3, VacatedFields, MovedTo DEF AtOrPastInProgress

LEMMA OtherKeeps ==
  ASSUME TaskInv,
         Open \/ Edit \/ SideRecord \/ \E w \in Workers : Reassign(w)
  PROVE  Keeps
<1>1. srv \in Srv /\ Held
  BY DEF TaskInv, TypeOK
<1>2. CASE Open
  <2>1. srv' \in Srv /\ srv'.status = "open" /\ srv'.stored = srv.stored
        /\ srv'.begun = srv.begun
    BY <1>1, <1>2 DEF Open, Mutating, Vacated, Srv, Statuses, BidStatuses
  <2> QED
    BY <1>2, <2>1, MovedTo DEF Open, Mutating, Statuses, AtOrPastInProgress, SettlementNote
<1>3. CASE Edit \/ SideRecord
  <2>1. /\ srv' \in Srv /\ srv'.status = srv.status /\ srv'.stored = srv.stored
        /\ srv'.begun = srv.begun /\ srv'.holder = srv.holder
    <3>1. srv' = [srv EXCEPT !.side = srv.side + 1]
      BY <1>3 DEF Edit, SideRecord, Mutating, Aside
    <3>2. srv.side + 1 \in Nat
      BY <1>1 DEF Srv
    <3> QED
      BY <1>1, <3>1, <3>2 DEF Srv
  <2> QED
    BY <1>1, <2>1, Moved DEF Held
<1>4. ASSUME NEW w \in Workers, Reassign(w) PROVE Keeps
  <2>1. srv' \in Srv /\ srv'.status = "payment_pending" /\ srv'.stored = srv.stored
        /\ srv'.begun = srv.begun
    BY <1>1, <1>4 DEF Reassign, Mutating, To, Srv, Statuses
  <2> QED
    BY <1>4, <2>1, MovedTo DEF Reassign, Mutating, Statuses, AtOrPastInProgress, SettlementNote
<1> QED
  BY <1>2, <1>3, <1>4

LEMMA DeleteKeeps ==
  ASSUME TaskInv, NEW i \in DOMAIN srv.stored, ArtifactDelete(i)
  PROVE  Keeps
<1>1. srv \in Srv /\ Held /\ Begun /\ srv.stored \in Seq(Artifact)
  BY DEF TaskInv, TypeOK, Srv
<1>2. /\ Len(srv.stored) \in Nat /\ i \in 1 .. Len(srv.stored)
      /\ srv.stored[i] \in Artifact
  BY <1>1, LenProperties, ElementOfSeq
<1> DEFINE gone == [srv.stored[i] EXCEPT !.live = FALSE]
           new == [srv.stored EXCEPT ![i] = gone]
<1>3. gone \in Artifact /\ gone.file = srv.stored[i].file
  BY <1>2 DEF Artifact
<1>4. srv' = [srv EXCEPT !.stored = new]
  BY DEF ArtifactDelete, Mutating
<1> HIDE DEF gone
<1>5. /\ new \in Seq(Artifact) /\ Len(new) = Len(srv.stored)
      /\ \A j \in 1 .. Len(srv.stored) : new[j] = IF j = i THEN gone ELSE srv.stored[j]
  BY <1>1, <1>2, <1>3, ExceptSeq
<1>6. Grows(srv.stored, new)
  BY <1>2, <1>3, <1>5 DEF Grows
<1> HIDE DEF new
<1>7. /\ srv' \in Srv /\ srv'.status = srv.status /\ srv'.stored = new
      /\ srv'.begun = srv.begun /\ srv'.holder = srv.holder
  BY <1>1, <1>4, <1>5 DEF Srv
<1> QED
  BY <1>1, <1>6, <1>7 DEF Keeps, Held, Begun

LEMMA OneCallStep == ASSUME TaskInv, OneCall PROVE TaskInv'
<1>1. UNCHANGED <<cmd, dry, told>>
  BY DEF OneCall, Mutating, BidCreate, BidCancel, BidAccept, BidReject, Reassign, Refuse,
     Concede, Abort, Approve, Dispute, Cancel, Reopen, Open, RetryFee, Edit, SideRecord,
     MessageSend, ReviewCreate, Stake, UpdateMe, SubmitCid, UpdateCidStatus, BackerAdd,
     BackerRevoke, ArtifactDelete
<1>2. Keeps
  BY BidKeeps, StatusKeeps, VacantKeeps, OtherKeeps, DeleteKeeps
  DEF OneCall, MessageSend, ReviewCreate, Stake, UpdateMe, SubmitCid, UpdateCidStatus,
      BackerAdd, BackerRevoke
<1> QED
  BY <1>1, <1>2, NoCommandStep

LEMMA ServerStep == ASSUME TaskInv, Server PROVE TaskInv'
<1>1. UNCHANGED <<cmd, dry, told>> /\ srv \in Srv /\ Held
  BY DEF Server, TaskInv, TypeOK
<1>2. ASSUME Evaluated PROVE Keeps
  <2>1. PICK s \in {"rejected", "unassigned", "open"} : srv' = To(s)
    BY <1>2 DEF Evaluated
  <2> QED
    BY <1>1, <1>2, <2>1, ToFields, MovedTo DEF Evaluated, Statuses, AtOrPastInProgress,
       SettlementNote
<1>3. ASSUME EscrowFinalized PROVE Keeps
  <2>1. PICK w \in Workers :
          srv' = [To("assigned") EXCEPT !.holder = w, !.escrow = TRUE,
                      !.bid[w] = IF srv.direct THEN @ ELSE "accepted"]
    BY <1>3 DEF EscrowFinalized
  <2>2. \A b \in BidStatuses :
          LET r == [To("assigned") EXCEPT !.holder = w, !.escrow = TRUE, !.bid[w] = b] IN
          /\ r \in Srv /\ r.status = "assigned" /\ r.holder = w
          /\ r.stored = srv.stored /\ r.begun = srv.begun
    BY <1>1 DEF To, Srv, Statuses
  <2>3. /\ srv' \in Srv /\ srv'.status = "assigned" /\ srv'.holder = w
        /\ srv'.stored = srv.stored /\ srv'.begun = srv.begun
    BY <1>1, <2>1 DEF To, Srv, Statuses, BidStatuses
  <2> QED
    BY <1>3, <2>3, Moved, TaskAssumption
    DEF EscrowFinalized, AtOrPastInProgress, SettlementNote
<1>4. ASSUME AutoClaimed PROVE Keeps
  <2>1. srv.holder \in Workers
    BY <1>1, <1>4 DEF AutoClaimed, Held, Srv
  <2>2. /\ srv' \in Srv /\ srv'.status = "in_progress" /\ srv'.stored = srv.stored
        /\ srv'.begun = srv.begun \cup {srv.holder}
    BY <1>1, <1>4, <2>1 DEF AutoClaimed, To, Srv, Statuses
  <2> QED
    BY <1>4, <2>2, Moved DEF AutoClaimed, SettlementNote
<1>5. ASSUME Resolved PROVE Keeps
  BY <1>1, <1>5, ToFields, VacatedFields, MovedTo
  DEF Resolved, Statuses, AtOrPastInProgress, SettlementNote
<1>6. ASSUME Disbursing \/ Settled PROVE Keeps
  <2>1. PICK s \in {"disbursement_pending", "settled"} :
          srv' \in {To(s), [To(s) EXCEPT !.escrow = FALSE]}
    BY <1>6 DEF Disbursing, Settled
  <2>2. srv' \in Srv /\ srv'.status = s /\ srv'.stored = srv.stored /\ srv'.begun = srv.begun
    BY <1>1, <2>1 DEF To, Srv, Statuses
  <2> QED
    BY <1>6, <2>2, MovedTo DEF Disbursing, Settled, Statuses, AtOrPastInProgress,
       SettlementNote
<1>7. Keeps
  BY <1>2, <1>3, <1>4, <1>5, <1>6, StatusKeeps, VacantKeeps DEF Server
<1> QED
  BY <1>1, <1>7, NoCommandStep

(***************************************************************************)
(* Claim and settle.                                                       *)
(***************************************************************************)
LEMMA CmdFields ==
  ASSUME TaskInv, NEW p \in Agents
  PROVE  /\ cmd[p] \in Cmd /\ Uploading(cmd[p], srv.stored)
         /\ DOMAIN cmd = Agents /\ cmd \in [Agents -> Cmd]
BY DEF TaskInv, TypeOK

(* A command that is over, whether it reports or not.                      *)
LEMMA OverStep ==
  ASSUME TaskInv, Keeps, NEW p \in Agents,
         \/ Over(p)
         \/ /\ Report(p)
            /\ p \in Workers => srv'.begun # {}
            /\ p = Poster => srv'.status \in SettlementNote
  PROVE  TaskInv'
<1>1. cmd' = [cmd EXCEPT ![p] = Idle] /\ dry' = dry
  BY DEF Over, Report
<1>2. /\ cmd' \in [Agents -> Cmd] /\ cmd'[p] = Idle
      /\ \A q \in Agents : q # p => cmd'[q] = cmd[q]
  BY <1>1, CmdFields, IdleIsFree
<1> QED
  BY <1>1, <1>2, IdleIsFree, StepOf DEF Over, Report

(* A command that goes on, and whose uploads stay as they are.             *)
LEMMA GotoStep ==
  ASSUME TaskInv, srv' = srv, UNCHANGED <<dry, told>>, NEW p \in Agents,
         cmd' \in [Agents -> Cmd], \A q \in Agents : q # p => cmd'[q] = cmd[q],
         cmd'[p].ids = cmd[p].ids, cmd'[p].files = cmd[p].files,
         cmd'[p].ticket = cmd[p].ticket,
         AtFile(cmd'[p]), Posting(cmd'[p]),
         \/ cmd[p].ticket = NewTicket
         \/ cmd'[p].pc \in {"complete", "backoff"}
  PROVE  TaskInv'
<1>1. Uploading(cmd[p], srv.stored) /\ srv'.stored = srv.stored
  BY CmdFields
<1>2. Uploading(cmd'[p], srv'.stored)
  BY <1>1 DEF Uploading, Stored, Ticketed
<1> QED
  BY <1>2, Unmoved, StepOf

LEMMA ClaimStep ==
  ASSUME TaskInv, NEW w \in Workers, Claim(w) \/ ClaimRecheck(w)
  PROVE  TaskInv'
<1>1. w \in Agents /\ w # Poster /\ srv \in Srv
  BY TaskAssumption DEF Agents, TaskInv, TypeOK
<1>2. CASE /\ Claim(w) /\ srv.status = "assigned" /\ srv.holder = w
           /\ srv' = [To("in_progress") EXCEPT !.begun = @ \cup {w}]
           /\ Report(w) \/ Over(w)
  <2>1. /\ srv' \in Srv /\ srv'.status = "in_progress" /\ srv'.stored = srv.stored
        /\ srv'.begun = srv.begun \cup {w}
    BY <1>1, <1>2 DEF To, Srv, Statuses
  <2>2. Keeps
    BY <1>2, <2>1, Moved DEF SettlementNote
  <2> QED
    BY <1>1, <1>2, <2>1, <2>2, OverStep
<1>3. CASE /\ At(w, "idle") /\ ~dry /\ UNCHANGED <<srv, dry, told>>
           /\ cmd' = [cmd EXCEPT ![w].op = "claim", ![w].pc = "claim_recheck"]
  <2>1. /\ cmd' \in [Agents -> Cmd] /\ \A q \in Agents : q # w => cmd'[q] = cmd[q]
        /\ cmd'[w].ids = cmd[w].ids /\ cmd'[w].files = cmd[w].files
        /\ cmd'[w].ticket = cmd[w].ticket /\ cmd'[w].pc = "claim_recheck"
    BY <1>1, <1>3, CmdFields DEF Cmd
  <2>2. cmd[w].ticket = NewTicket
    BY <1>1, <1>3, CmdFields DEF At, Uploading, Ticketed
  <2> QED
    BY <1>1, <1>3, <2>1, <2>2, GotoStep DEF AtFile, Posting
<1>4. CASE ClaimRecheck(w)
  <2>1. srv.status \in AtOrPastInProgress => srv'.begun # {}
    BY <1>4 DEF ClaimRecheck, TaskInv, Begun
  <2>2. Keeps
    BY <1>4, Unmoved DEF ClaimRecheck
  <2> QED
    BY <1>1, <1>4, <2>1, <2>2, OverStep DEF ClaimRecheck
<1> QED
  BY <1>2, <1>3, <1>4 DEF Claim

LEMMA SettleStep ==
  ASSUME TaskInv, Settle \/ SettleSign \/ SettlePost \/ SettleRecheck
  PROVE  TaskInv'
<1>1. Poster \in Agents /\ Poster \notin Workers /\ srv \in Srv
  BY TaskAssumption DEF Agents, TaskInv, TypeOK
<1>2. ASSUME At(Poster, "idle") \/ At(Poster, "settle_sign") \/ At(Poster, "settle_post"),
             NEW to \in {"settle_sign", "settle_post", "settle_recheck"},
             \/ cmd' = [cmd EXCEPT ![Poster].op = "settle", ![Poster].pc = to]
             \/ cmd' = [cmd EXCEPT ![Poster].pc = to],
             srv' = srv, UNCHANGED <<dry, told>>
      PROVE  TaskInv'
  <2>1. /\ cmd' \in [Agents -> Cmd] /\ \A q \in Agents : q # Poster => cmd'[q] = cmd[q]
        /\ cmd'[Poster].ids = cmd[Poster].ids /\ cmd'[Poster].files = cmd[Poster].files
        /\ cmd'[Poster].ticket = cmd[Poster].ticket /\ cmd'[Poster].pc = to
    <3>1. cmd \in [Agents -> Cmd] /\ cmd[Poster] \in Cmd
      BY <1>1, CmdFields
    <3>2. CASE cmd' = [cmd EXCEPT ![Poster].op = "settle", ![Poster].pc = to]
      BY <1>1, <1>2, <3>1, <3>2 DEF Cmd
    <3>3. CASE cmd' = [cmd EXCEPT ![Poster].pc = to]
      BY <1>1, <1>2, <3>1, <3>3 DEF Cmd
    <3> QED
      BY <1>2, <3>2, <3>3
  <2>2. cmd[Poster].ticket = NewTicket
    BY <1>1, <1>2, CmdFields DEF At, Uploading, Ticketed
  <2> QED
    BY <1>1, <1>2, <2>1, <2>2, GotoStep DEF AtFile, Posting
<1>3. CASE Settle
  <2>1. CASE srv.status \in SettlementNote /\ Report(Poster)
    BY <1>1, <1>3, <2>1, Unmoved, OverStep DEF Settle
  <2>2. CASE /\ cmd' = [cmd EXCEPT ![Poster].op = "settle", ![Poster].pc = "settle_sign"]
             /\ UNCHANGED <<dry, told>>
    BY <1>2, <1>3, <2>2 DEF Settle
  <2> QED
    BY <1>3, <2>1, <2>2 DEF Settle
<1>4. CASE SettleSign
  <2>1. CASE Over(Poster)
    BY <1>1, <1>4, <2>1, Unmoved, OverStep DEF SettleSign
  <2>2. CASE ~dry /\ Goto(Poster, "settle_post")
    BY <1>2, <1>4, <2>2 DEF SettleSign, Goto
  <2> QED
    BY <1>4, <2>1, <2>2 DEF SettleSign
<1>5. CASE SettlePost
  <2>1. CASE /\ srv.status \in {"complete", "disbursement_pending"}
             /\ srv' \in {To("disbursement_pending"), To("settled")}
             /\ Report(Poster) \/ Over(Poster)
    <3>1. PICK s \in {"disbursement_pending", "settled"} : srv' = To(s)
      BY <2>1
    <3>2. s \in Statuses
      BY DEF Statuses
    <3>3. Keeps /\ srv'.status \in SettlementNote
      BY <1>1, <2>1, <3>1, <3>2, ToFields, MovedTo DEF AtOrPastInProgress, SettlementNote
    <3> QED
      BY <1>1, <2>1, <3>3, OverStep
  <2>2. CASE UNCHANGED srv /\ Over(Poster)
    BY <1>1, <2>2, Unmoved, OverStep
  <2>3. CASE UNCHANGED srv /\ Goto(Poster, "settle_recheck")
    BY <1>2, <1>5, <2>3 DEF SettlePost, Goto
  <2> QED
    BY <1>5, <2>1, <2>2, <2>3 DEF SettlePost
<1>6. CASE SettleRecheck
  BY <1>1, <1>6, Unmoved, OverStep DEF SettleRecheck
<1> QED
  BY <1>3, <1>4, <1>5, <1>6

(***************************************************************************)
(* Uploads and submissions.                                                *)
(***************************************************************************)
LEMMA UploadStep == ASSUME TaskInv, NEW w \in Workers, Upload(w) PROVE TaskInv'
<1>1. w \in Agents
  BY DEF Agents
<1>2. PICK op \in {"upload", "submit"}, files \in Uploads :
        /\ op = "upload" => Len(files) = 1
        /\ cmd' = [cmd EXCEPT ![w] =
             [Idle EXCEPT !.op = op, !.files = files,
                          !.pc = IF files = <<>> THEN "post" ELSE "initiate"]]
  BY DEF Upload
<1> DEFINE c == [Idle EXCEPT !.op = op, !.files = files,
                             !.pc = IF files = <<>> THEN "post" ELSE "initiate"]
<1>3. files \in Seq(Files) /\ Len(files) \in Nat /\ (files # <<>> => Len(files) > 0)
  BY TaskAssumption, LenProperties, EmptySeq
<1>4. /\ c \in Cmd /\ c.ids = <<>> /\ c.ticket = NewTicket /\ c.files = files /\ c.op = op
      /\ c.pc = IF files = <<>> THEN "post" ELSE "initiate"
  BY <1>3, IdleIsFree, EmptySeq DEF Cmd, Idle
<1> HIDE DEF c
<1>5. Uploading(c, srv.stored)
  <2>1. Len(c.ids) = 0 /\ c.ticket.art = 0 /\ c.ticket.puts = 0
    BY <1>4, EmptySeq DEF NewTicket
  <2>2. files = <<>> => Len(files) = 0
    BY EmptySeq
  <2> QED
    BY <1>3, <1>4, <2>1, <2>2 DEF Uploading, Stored, AtFile, Ticketed, Posting
<1>6. /\ cmd' \in [Agents -> Cmd] /\ cmd'[w] = c
      /\ \A q \in Agents : q # w => cmd'[q] = cmd[q]
  BY <1>1, <1>2, <1>4, CmdFields DEF c
<1> QED
  BY <1>1, <1>5, <1>6, Unmoved, StepOf DEF Upload

LEMMA PlaceStep ==
  ASSUME TaskInv, NEW w \in Workers, Initiate(w) \/ Put(w) \/ Wake(w)
  PROVE  TaskInv'
<1>1. w \in Agents /\ w # Poster /\ srv' = srv
  BY TaskAssumption DEF Agents, Initiate, Put, Wake
<1>2. /\ cmd \in [Agents -> Cmd] /\ cmd[w] \in Cmd
      /\ cmd[w].pc \in {"initiate", "put", "backoff"}
      /\ Uploading(cmd[w], srv.stored) /\ AtFile(cmd[w]) /\ UNCHANGED dry
  BY <1>1, CmdFields DEF Initiate, Put, Wake, At, Over, Goto, Uploading
<1>3. CASE Over(w)
  BY <1>1, <1>3, Unmoved, OverStep
<1>4. ASSUME NEW pc \in {"put", "multipart", "complete"}, Goto(w, pc),
             cmd[w].pc = "initiate" \/ pc = "complete"
      PROVE  TaskInv'
  <2>1. /\ cmd' \in [Agents -> Cmd] /\ \A q \in Agents : q # w => cmd'[q] = cmd[q]
        /\ cmd'[w].ids = cmd[w].ids /\ cmd'[w].files = cmd[w].files /\ cmd'[w].op = cmd[w].op
        /\ cmd'[w].ticket = cmd[w].ticket /\ cmd'[w].pc = pc
    BY <1>1, <1>2, <1>4 DEF Goto, Cmd
  <2>2. cmd[w].pc = "initiate" => cmd[w].ticket = NewTicket
    BY <1>2 DEF Uploading, Ticketed
  <2>3. AtFile(cmd'[w]) /\ Posting(cmd'[w])
    BY <1>2, <2>1 DEF AtFile, Posting
  <2> QED
    BY <1>1, <1>2, <1>4, <2>1, <2>2, <2>3, GotoStep DEF Goto
<1>5. CASE Put(w)
  <2>1. CASE cmd' = [cmd EXCEPT ![w] = Idle]
    BY <1>3, <1>5, <2>1 DEF Put, Over
  <2>2. CASE \E left \in 0 .. Expiry :
               cmd' = [cmd EXCEPT ![w].pc = "complete", ![w].left = left, ![w].delay = BaseDelay,
                         ![w].ticket.puts = @ + 1, ![w].ticket.blob = TRUE]
    <3>1. PICK left \in 0 .. Expiry :
            cmd' = [cmd EXCEPT ![w].pc = "complete", ![w].left = left, ![w].delay = BaseDelay,
                         ![w].ticket.puts = @ + 1, ![w].ticket.blob = TRUE]
      BY <2>2
    <3>2. left \in Nat /\ BaseDelay \in Nat
      BY TaskAssumption
    <3>3. cmd[w].ticket = [puts |-> 0, blob |-> FALSE, art |-> 0] /\ cmd[w].pc = "put"
      BY <1>2, <1>5 DEF Put, At, Uploading, Ticketed, NewTicket
    <3>4. /\ cmd'[w].ids = cmd[w].ids /\ cmd'[w].files = cmd[w].files
          /\ cmd'[w].op = cmd[w].op /\ cmd'[w].pc = "complete" /\ cmd'[w].left = left
          /\ cmd'[w].ticket = [puts |-> 1, blob |-> TRUE, art |-> 0]
          /\ cmd'[w] \in Cmd
      BY <1>1, <1>2, <3>1, <3>2, <3>3 DEF Cmd
    <3>5. cmd' \in [Agents -> Cmd] /\ \A q \in Agents : q # w => cmd'[q] = cmd[q]
      BY <1>1, <1>2, <3>1, <3>4
    <3>6. Uploading(cmd'[w], srv'.stored)
      BY <1>1, <1>2, <3>3, <3>4 DEF Uploading, Stored, AtFile, Ticketed, Posting
    <3> QED
      BY <1>1, <1>2, <1>5, <3>5, <3>6, Unmoved, StepOf DEF Put
  <2> QED
    BY <1>5, <2>1, <2>2 DEF Put
<1>6. CASE Initiate(w)
  BY <1>3, <1>4, <1>6 DEF Initiate, At
<1>7. CASE Wake(w)
  BY <1>4, <1>7 DEF Wake
<1> QED
  BY <1>5, <1>6, <1>7

LEMMA StoreFields ==
  ASSUME TaskInv, NEW w \in Workers, Len(cmd[w].ids) < Len(cmd[w].files), StoreNext(w)
  PROVE  /\ Keeps /\ Len(srv'.stored) = Len(srv.stored) + 1
         /\ srv'.stored[Len(srv'.stored)].file = NextFile(w)
<1>1. /\ srv \in Srv /\ srv.stored \in Seq(Artifact) /\ Len(srv.stored) \in Nat /\ w \in Agents
  BY LenProperties DEF TaskInv, TypeOK, Srv, Agents
<1>2. NextFile(w) \in Files
  <2>1. cmd[w].files \in Seq(Files) /\ cmd[w].ids \in Seq(Nat)
    BY <1>1, CmdFields DEF Cmd
  <2>2. Len(cmd[w].files) \in Nat /\ Len(cmd[w].ids) \in Nat
    BY <2>1, LenProperties
  <2>3. Len(cmd[w].ids) + 1 \in 1 .. Len(cmd[w].files)
    BY <2>2
  <2> QED
    BY <2>1, <2>3, ElementOfSeq DEF NextFile
<1> DEFINE x == [file |-> NextFile(w), live |-> TRUE]
           new == Append(srv.stored, x)
<1>3. x \in Artifact /\ x.file = NextFile(w)
  BY <1>2 DEF Artifact
<1>4. srv' = [srv EXCEPT !.stored = new]
  BY DEF StoreNext
<1> HIDE DEF x
<1>5. /\ new \in Seq(Artifact) /\ Len(new) = Len(srv.stored) + 1
      /\ \A i \in 1 .. Len(srv.stored) : new[i] = srv.stored[i]
      /\ new[Len(srv.stored) + 1] = x
  BY <1>1, <1>3, AppendProperties
<1>6. Grows(srv.stored, new)
  BY <1>1, <1>5 DEF Grows
<1> HIDE DEF new
<1>7. /\ srv' \in Srv /\ srv'.status = srv.status /\ srv'.stored = new
      /\ srv'.begun = srv.begun /\ srv'.holder = srv.holder
  BY <1>1, <1>4, <1>5 DEF Srv
<1> QED
  BY <1>3, <1>5, <1>6, <1>7 DEF Keeps, Held, Begun, TaskInv

(* An artifact has been obtained: the one of the ticket, or the new one.   *)
LEMMA ObtainedStep ==
  ASSUME TaskInv, Keeps, NEW w \in Workers, NEW id \in Nat,
         cmd[w].pc \in {"multipart", "complete"},
         id \in 1 .. Len(srv'.stored), srv'.stored[id].file = NextFile(w),
         \A i \in 1 .. Len(cmd[w].ids) : cmd[w].ids[i] # id,
         Obtained(w, id)
  PROVE  TaskInv'
<1>1. w \in Agents /\ w # Poster
  BY TaskAssumption DEF Agents
<1>2. /\ cmd \in [Agents -> Cmd] /\ cmd[w] \in Cmd /\ UNCHANGED <<dry, told>>
      /\ srv.stored \in Seq(Artifact) /\ srv'.stored \in Seq(Artifact)
      /\ Uploading(cmd[w], srv.stored)
  BY <1>1, CmdFields DEF Obtained, TaskInv, TypeOK, Keeps, Srv
<1>3. Uploading(cmd[w], srv'.stored)
  BY <1>2, GrowthKeepsUploads DEF Keeps
<1> DEFINE ids == Append(cmd[w].ids, id)
           pc == IF Len(ids) = Len(cmd[w].files) THEN "post" ELSE "initiate"
           c == [Idle EXCEPT !.op = cmd[w].op, !.files = cmd[w].files, !.ids = ids, !.pc = pc]
<1>4. /\ cmd[w].ids \in Seq(Nat) /\ cmd[w].files \in Seq(Files)
      /\ Len(cmd[w].ids) \in Nat /\ Len(cmd[w].files) \in Nat
      /\ Len(cmd[w].ids) < Len(cmd[w].files) /\ cmd[w].op \in {"upload", "submit"}
  <2>1. cmd[w].ids \in Seq(Nat) /\ cmd[w].files \in Seq(Files)
    BY <1>2 DEF Cmd
  <2> QED
    BY <1>2, <2>1, LenProperties DEF Uploading, AtFile
<1>5. /\ ids \in Seq(Nat) /\ Len(ids) = Len(cmd[w].ids) + 1
      /\ \A i \in 1 .. Len(cmd[w].ids) : ids[i] = cmd[w].ids[i]
      /\ ids[Len(cmd[w].ids) + 1] = id
  BY <1>4, AppendProperties
<1>6. cmd' = [cmd EXCEPT ![w] = IF cmd[w].op = "upload" THEN Idle ELSE c]
  BY DEF Obtained
<1> HIDE DEF ids
<1>7. /\ c \in Cmd /\ c.ids = ids /\ c.files = cmd[w].files /\ c.op = cmd[w].op
      /\ c.pc = pc /\ c.ticket = NewTicket
  BY <1>4, <1>5, IdleIsFree DEF Cmd, Idle
<1>8. Uploading(c, srv'.stored)
  <2>1. Stored(c, srv'.stored)
    <3>1. ASSUME NEW i \in 1 .. Len(ids)
          PROVE  /\ ids[i] \in 1 .. Len(srv'.stored)
                 /\ srv'.stored[ids[i]].file = cmd[w].files[i]
                 /\ \A j \in 1 .. i - 1 : ids[j] # ids[i]
      <4>1. CASE i \in 1 .. Len(cmd[w].ids)
        <5>1. /\ cmd[w].ids[i] \in 1 .. Len(srv'.stored)
              /\ srv'.stored[cmd[w].ids[i]].file = cmd[w].files[i]
              /\ \A j \in 1 .. i - 1 : cmd[w].ids[j] # cmd[w].ids[i]
          BY <1>3, <4>1 DEF Uploading, Stored
        <5>2. ids[i] = cmd[w].ids[i]
          BY <1>5, <4>1
        <5>3. \A j \in 1 .. i - 1 : j \in 1 .. Len(cmd[w].ids)
          BY <1>4, <4>1
        <5>4. \A j \in 1 .. i - 1 : ids[j] = cmd[w].ids[j]
          BY <1>5, <5>3
        <5> QED
          BY <5>1, <5>2, <5>4
      <4>2. CASE i = Len(cmd[w].ids) + 1
        <5>1. ids[i] = id
          BY <1>5, <4>2
        <5>2. \A j \in 1 .. i - 1 : j \in 1 .. Len(cmd[w].ids)
          BY <1>4, <4>2
        <5>3. \A j \in 1 .. i - 1 : ids[j] # id
          BY <1>5, <5>2
        <5> QED
          BY <4>2, <5>1, <5>3 DEF NextFile
      <4>3. i \in 1 .. Len(cmd[w].ids) \/ i = Len(cmd[w].ids) + 1
        BY <1>4, <1>5
      <4> QED
        BY <4>1, <4>2, <4>3
    <3>2. Len(c.ids) <= Len(c.files)
      BY <1>4, <1>5, <1>7
    <3> QED
      BY <1>7, <3>1, <3>2 DEF Stored
  <2>2. c.ticket.art = 0 /\ c.ticket.puts = 0
    BY <1>7 DEF NewTicket
  <2>3. Ticketed(c, srv'.stored)
    BY <1>7, <2>2 DEF Ticketed
  <2>4. AtFile(c) /\ Posting(c)
    <3>1. Len(c.ids) = Len(cmd[w].files) \/ Len(c.ids) < Len(c.files)
      BY <1>4, <1>5, <1>7
    <3>2. CASE Len(c.ids) = Len(cmd[w].files)
      BY <1>7, <3>2 DEF AtFile, Posting
    <3>3. CASE Len(c.ids) < Len(c.files) /\ Len(c.ids) # Len(cmd[w].files)
      BY <1>4, <1>7, <3>3 DEF AtFile, Posting
    <3> QED
      BY <3>1, <3>2, <3>3
  <2> QED
    BY <2>1, <2>3, <2>4 DEF Uploading
<1> HIDE DEF c
<1>9. /\ cmd' \in [Agents -> Cmd] /\ \A q \in Agents : q # w => cmd'[q] = cmd[q]
      /\ Uploading(cmd'[w], srv'.stored)
  BY <1>1, <1>2, <1>6, <1>7, <1>8, IdleIsFree
<1> QED
  BY <1>1, <1>2, <1>9, StepOf

(* Complete has failed and is tried again, or given up.                    *)
LEMMA AgainStep ==
  ASSUME TaskInv, Keeps, NEW w \in Workers, NEW spent \in 0 .. 1, NEW art \in Nat,
         cmd[w].pc = "complete",
         art > 0 => /\ art \in 1 .. Len(srv'.stored)
                    /\ srv'.stored[art].file = NextFile(w)
                    /\ \A i \in 1 .. Len(cmd[w].ids) : cmd[w].ids[i] # art,
         TryAgain(w, spent, art)
  PROVE  TaskInv'
<1>1. w \in Agents /\ w # Poster
  BY TaskAssumption DEF Agents
<1>2. CASE Over(w)
  BY <1>1, <1>2, OverStep
<1>3. CASE /\ spent + cmd[w].delay < cmd[w].left
           /\ cmd' = [cmd EXCEPT ![w].left = @ - spent - cmd[w].delay, ![w].delay = Doubled(@),
                                 ![w].ticket.art = art, ![w].pc = "backoff"]
           /\ UNCHANGED <<dry, told>>
  <2>1. /\ cmd \in [Agents -> Cmd] /\ cmd[w] \in Cmd
        /\ srv.stored \in Seq(Artifact) /\ srv'.stored \in Seq(Artifact)
        /\ Uploading(cmd[w], srv.stored)
    BY <1>1, CmdFields DEF TaskInv, TypeOK, Keeps, Srv
  <2>2. Uploading(cmd[w], srv'.stored)
    BY <2>1, GrowthKeepsUploads DEF Keeps
  <2>3. /\ cmd[w].left - spent - cmd[w].delay \in Nat /\ Doubled(cmd[w].delay) \in Nat
        /\ cmd[w].ticket \in [puts : Nat, blob : BOOLEAN, art : Nat]
    <3>1. /\ cmd[w].left \in Nat /\ cmd[w].delay \in Nat
          /\ cmd[w].ticket \in [puts : Nat, blob : BOOLEAN, art : Nat]
          /\ MaxBackoff \in Nat /\ spent \in Nat
      BY <2>1, TaskAssumption DEF Cmd
    <3>2. Doubled(cmd[w].delay) \in Nat
      BY <3>1 DEF Doubled
    <3>3. spent + cmd[w].delay < cmd[w].left
      BY <1>3
    <3> QED
      BY <3>1, <3>2, <3>3
  <2>4. /\ cmd'[w].ids = cmd[w].ids /\ cmd'[w].files = cmd[w].files
        /\ cmd'[w].op = cmd[w].op /\ cmd'[w].pc = "backoff"
        /\ cmd'[w].ticket.art = art /\ cmd'[w].ticket.puts = cmd[w].ticket.puts
        /\ cmd'[w] \in Cmd
    BY <1>1, <1>3, <2>1, <2>3 DEF Cmd
  <2>5. cmd' \in [Agents -> Cmd] /\ \A q \in Agents : q # w => cmd'[q] = cmd[q]
    BY <1>1, <1>3, <2>1, <2>4
  <2>6. Uploading(cmd'[w], srv'.stored)
    BY <2>2, <2>4 DEF Uploading, Stored, AtFile, Ticketed, Posting, NextFile
  <2> QED
    BY <1>1, <1>3, <2>5, <2>6, StepOf
<1> QED
  BY <1>2, <1>3 DEF TryAgain

LEMMA StoreStep ==
  ASSUME TaskInv, NEW w \in Workers, Complete(w) \/ Multipart(w)
  PROVE  TaskInv'
<1>1. w \in Agents /\ w # Poster
  BY TaskAssumption DEF Agents
<1>2. /\ cmd[w] \in Cmd /\ Uploading(cmd[w], srv.stored)
      /\ cmd[w].pc \in {"complete", "multipart"} /\ Len(cmd[w].ids) < Len(cmd[w].files)
      /\ srv.stored \in Seq(Artifact) /\ Len(srv.stored) \in Nat
  BY <1>1, CmdFields, LenProperties
  DEF Complete, Multipart, At, Uploading, AtFile, TaskInv, TypeOK, Srv
<1>3. CASE Over(w) /\ UNCHANGED srv
  BY <1>1, <1>3, Unmoved, OverStep
<1> DEFINE art == cmd[w].ticket.art
           next == Len(srv'.stored)
<1>4. /\ art \in Nat
      /\ art > 0 => /\ art \in 1 .. Len(srv.stored) /\ srv.stored[art].file = NextFile(w)
                    /\ \A i \in 1 .. Len(cmd[w].ids) : cmd[w].ids[i] # art
  BY <1>2 DEF Cmd, Uploading, Ticketed, NextFile
<1>5. StoreNext(w) => /\ Keeps /\ next \in Nat /\ next \in 1 .. Len(srv'.stored)
                      /\ srv'.stored[next].file = NextFile(w)
                      /\ \A i \in 1 .. Len(cmd[w].ids) : cmd[w].ids[i] # next
  <2>1. \A i \in 1 .. Len(cmd[w].ids) : cmd[w].ids[i] \in 1 .. Len(srv.stored)
    BY <1>2 DEF Uploading, Stored
  <2> QED
    BY <1>2, <2>1, StoreFields
<1>6. UNCHANGED srv => Keeps
  BY Unmoved
<1>7. CASE Complete(w)
  <2>0. cmd[w].pc = "complete"
    BY <1>7 DEF Complete, At
  <2>1. ASSUME UNCHANGED srv, NEW spent \in 0 .. 1, TryAgain(w, spent, art)
        PROVE  TaskInv'
    BY <1>2, <1>4, <1>6, <2>0, <2>1, AgainStep
  <2>2. CASE art > 0 /\ UNCHANGED srv /\ Obtained(w, art)
    BY <1>2, <1>4, <1>6, <2>0, <2>2, ObtainedStep
  <2>3. ASSUME StoreNext(w), Obtained(w, next) PROVE TaskInv'
    BY <1>2, <1>5, <2>0, <2>3, ObtainedStep
  <2>4. ASSUME StoreNext(w), NEW spent \in 0 .. 1, TryAgain(w, spent, next)
        PROVE  TaskInv'
    BY <1>2, <1>5, <2>0, <2>4, AgainStep
  <2>5. ASSUME StoreNext(w), Over(w) PROVE TaskInv'
    BY <1>1, <1>5, <2>5, OverStep
  <2> QED
    BY <1>3, <1>7, <2>1, <2>2, <2>3, <2>4, <2>5 DEF Complete
<1>8. CASE Multipart(w)
  <2>1. ASSUME StoreNext(w), Over(w) PROVE TaskInv'
    BY <1>1, <1>5, <2>1, OverStep
  <2>2. ASSUME StoreNext(w), Obtained(w, next) PROVE TaskInv'
    <3>1. cmd[w].pc = "multipart"
      BY <1>8 DEF Multipart, At
    <3> QED
      BY <1>2, <1>5, <2>2, <3>1, ObtainedStep
  <2> QED
    BY <1>3, <1>8, <2>1, <2>2 DEF Multipart
<1> QED
  BY <1>7, <1>8

LEMMA PostFields ==
  ASSUME TaskInv, NEW w \in Workers, Post(w), srv' # srv
  PROVE  /\ Keeps /\ srv'.stored = srv.stored /\ srv'.sub = cmd[w].ids
         /\ \A i \in ToSet(cmd[w].ids) : srv.stored[i].live
<1>1. srv \in Srv /\ cmd[w].ids \in Seq(Nat)
  BY DEF TaskInv, TypeOK, Cmd, Agents
<1>2. PICK s \in {"under_review", "complete", "cancelled"} :
        /\ srv' = [To(s) EXCEPT !.sub = cmd[w].ids]
        /\ srv.status \in {"in_progress", "disputed"}
        /\ \A i \in ToSet(cmd[w].ids) : srv.stored[i].live
  BY DEF Post, SubmitKind
<1>3. /\ srv' \in Srv /\ srv'.status = s /\ srv'.stored = srv.stored
      /\ srv'.begun = srv.begun /\ srv'.sub = cmd[w].ids
  BY <1>1, <1>2 DEF To, Srv, Statuses
<1>4. Keeps
  BY <1>2, <1>3, MovedTo DEF Statuses, AtOrPastInProgress, SettlementNote
<1> QED
  BY <1>2, <1>3, <1>4

LEMMA PostStep == ASSUME TaskInv, NEW w \in Workers, Post(w) PROVE TaskInv'
<1>1. w \in Agents
  BY DEF Agents
<1>2. Keeps
  BY PostFields, Unmoved
<1> QED
  BY <1>1, <1>2, OverStep DEF Post

LEMMA TaskStep == TaskInv /\ [Next]_vars => TaskInv'
<1> SUFFICES ASSUME TaskInv, [Next]_vars PROVE TaskInv'
  OBVIOUS
<1>1. CASE UNCHANGED vars
  <2>1. Keeps /\ UNCHANGED <<cmd, dry, told>>
    BY <1>1, Unmoved DEF vars
  <2> QED
    BY <2>1, NoCommandStep
<1>2. CASE Next
  <2>1. ASSUME NEW p \in Agents, Continue(p) PROVE TaskInv'
    BY <2>1, SettleStep, ClaimStep, PlaceStep, StoreStep, PostStep DEF Continue
  <2> QED
    BY <1>2, <2>1, OneCallStep, ServerStep, SettleStep, ClaimStep, UploadStep, PlaceStep
    DEF Next
<1> QED
  BY <1>1, <1>2

LEMMA TaskInvariant == Spec => []TaskInv
BY TaskInit, TaskStep, PTL DEF Spec

(* Type correctness.                                                       *)
THEOREM TaskTypeCorrect == Spec => []TypeOK
<1>1. TaskInv => TypeOK
  BY DEF TaskInv
<1> QED
  BY <1>1, TaskInvariant, PTL

(* A claim or a settlement that is reported as done is done, although the  *)
(* report may rest on a look at a task that others move.                   *)
THEOREM GoalSafety == Spec => []GoalReached
<1>1. TaskInv => GoalReached
  BY DEF TaskInv
<1> QED
  BY <1>1, TaskInvariant, PTL

(* The bytes of a ticket are sent once at most, and a command's artifacts  *)
(* are distinct.                                                           *)
THEOREM PutSafety == Spec => []PutOnce
<1>1. ASSUME TaskInv, NEW w \in Workers
      PROVE  /\ cmd[w].ticket.puts <= 1 /\ IsInjective(cmd[w].ids)
             /\ cmd[w].ticket.art \notin ToSet(cmd[w].ids)
  <2>1. cmd[w] \in Cmd /\ Stored(cmd[w], srv.stored) /\ Ticketed(cmd[w], srv.stored)
    BY <1>1, CmdFields DEF Agents, Uploading
  <2>2. /\ cmd[w].ids \in Seq(Nat) /\ DOMAIN cmd[w].ids = 1 .. Len(cmd[w].ids)
        /\ Len(cmd[w].ids) \in Nat /\ cmd[w].ticket.puts <= 1 /\ cmd[w].ticket.art \in Nat
    BY <2>1, LenProperties DEF Cmd, Ticketed
  <2>3. ASSUME NEW a \in 1 .. Len(cmd[w].ids), NEW b \in 1 .. Len(cmd[w].ids),
               cmd[w].ids[a] = cmd[w].ids[b]
        PROVE  a = b
    <3>1. CASE a < b
      BY <2>1, <2>2, <2>3, <3>1 DEF Stored
    <3>2. CASE b < a
      BY <2>1, <2>2, <2>3, <3>2 DEF Stored
    <3> QED
      BY <2>2, <3>1, <3>2
  <2>4. ASSUME NEW i \in 1 .. Len(cmd[w].ids) PROVE cmd[w].ids[i] # cmd[w].ticket.art
    <3>1. cmd[w].ids[i] > 0
      BY <2>1, <2>4 DEF Stored
    <3> QED
      BY <2>1, <2>2, <2>4, <3>1 DEF Ticketed
  <2> QED
    BY <2>2, <2>3, <2>4 DEF IsInjective, ToSet
<1>2. TaskInv => PutOnce
  BY <1>1 DEF PutOnce
<1> QED
  BY <1>2, TaskInvariant, PTL

(* Every step but a submission leaves the recorded one alone.              *)
LEMMA SubKept ==
  ASSUME TaskInv, Next, \A w \in Workers : ~Post(w)
  PROVE  srv'.sub = srv.sub
<1>1. srv \in Srv
  BY DEF TaskInv, TypeOK
<1>2. \A s : To(s).sub = srv.sub /\ Vacated(s).sub = srv.sub
  BY <1>1 DEF To, Vacated, Srv
<1>3. ASSUME OneCall PROVE srv'.sub = srv.sub
  <2>1. \A r : /\ [srv EXCEPT !.bid = r].sub = srv.sub
               /\ [srv EXCEPT !.stored = r].sub = srv.sub
    BY <1>1 DEF Srv
  <2> QED
    BY <1>1, <1>3
    DEF OneCall, Mutating, BidCreate, BidCancel, BidAccept, BidReject, Reassign, Refuse,
        Concede, Abort, Approve, Dispute, Cancel, Reopen, Open, RetryFee, Edit, SideRecord,
        MessageSend, ReviewCreate, Stake, UpdateMe, SubmitCid, UpdateCidStatus, BackerAdd,
        BackerRevoke, ArtifactDelete, To, Vacated, Aside, Srv
<1>4. ASSUME Server PROVE srv'.sub = srv.sub
  BY <1>1, <1>2, <1>4
  DEF Server, FeePaid, Evaluated, EscrowFinalized, AutoClaimed, PickupLapsed, BiddingLapsed,
      Overdue, ReviewLapsed, Resolved, Disbursing, Settled, To, Srv
<1>5. ASSUME NEW w \in Workers, Complete(w) \/ Multipart(w) PROVE srv'.sub = srv.sub
  BY <1>1, <1>5 DEF Complete, Multipart, StoreNext, Srv
<1>6. ASSUME SettlePost PROVE srv'.sub = srv.sub
  BY <1>2, <1>6 DEF SettlePost
<1>7. ASSUME NEW w \in Workers, Claim(w) PROVE srv'.sub = srv.sub
  BY <1>1, <1>7 DEF Claim, To, Srv
<1> QED
  BY <1>3, <1>4, <1>5, <1>6, <1>7
  DEF Next, Continue, Settle, SettleSign, SettleRecheck, Upload, ClaimRecheck, Initiate, Put,
      Wake

(* A recorded submission names one live artifact for every file of its     *)
(* command, in that order: for any number of files and of agents.          *)
THEOREM SubmissionSafety == Spec => SubmissionIsWhole
<1>1. ASSUME TaskInv, Next, srv'.sub # srv.sub
      PROVE  \E w \in Workers :
               /\ cmd[w].pc = "post" /\ Len(srv'.sub) = Len(cmd[w].files)
               /\ \A i \in DOMAIN srv'.sub :
                    srv'.stored[srv'.sub[i]] = [file |-> cmd[w].files[i], live |-> TRUE]
  <2>1. PICK w \in Workers : Post(w)
    BY <1>1, SubKept
  <2>2. /\ srv'.stored = srv.stored /\ srv'.sub = cmd[w].ids
        /\ \A i \in ToSet(cmd[w].ids) : srv.stored[i].live
    BY <1>1, <2>1, PostFields
  <2>3. /\ cmd[w].pc = "post" /\ Uploading(cmd[w], srv.stored) /\ cmd[w].ids \in Seq(Nat)
        /\ srv.stored \in Seq(Artifact)
    BY <1>1, <2>1, CmdFields DEF Post, At, Agents, Cmd, TaskInv, TypeOK, Srv
  <2>4. Len(srv'.sub) = Len(cmd[w].files) /\ DOMAIN cmd[w].ids = 1 .. Len(cmd[w].ids)
    BY <2>2, <2>3, LenProperties DEF Uploading, Posting
  <2>5. ASSUME NEW i \in DOMAIN cmd[w].ids
        PROVE  srv.stored[cmd[w].ids[i]] = [file |-> cmd[w].files[i], live |-> TRUE]
    <3>1. /\ cmd[w].ids[i] \in 1 .. Len(srv.stored)
          /\ srv.stored[cmd[w].ids[i]].file = cmd[w].files[i]
      BY <2>3, <2>4, <2>5 DEF Uploading, Stored
    <3>2. srv.stored[cmd[w].ids[i]].live
      BY <2>2 DEF ToSet
    <3>3. srv.stored[cmd[w].ids[i]] \in Artifact
      BY <2>3, <3>1, ElementOfSeq
    <3> QED
      BY <3>1, <3>2, <3>3 DEF Artifact
  <2> QED
    BY <2>2, <2>3, <2>4, <2>5
<1>2. TaskInv /\ [Next]_vars =>
        [srv'.sub /= srv.sub =>
          \E w \in Workers :
            /\ cmd[w].pc = "post" /\ Len(srv'.sub) = Len(cmd[w].files)
            /\ \A i \in DOMAIN srv'.sub :
                 srv'.stored[srv'.sub[i]] = [file |-> cmd[w].files[i], live |-> TRUE]]_vars
  BY <1>1
<1> QED
  BY <1>2, TaskInvariant, PTL DEF Spec, SubmissionIsWhole
=============================================================================
