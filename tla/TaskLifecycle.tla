--------------------------- MODULE TaskLifecycle ---------------------------
(***************************************************************************)
(* The commands that move one task from auction to settlement: `bid`,      *)
(* `task`, `artifact`, `settle`, and the one-call commands around them     *)
(* (`review`, `message`, `stake`, `backer`, `agent update-me`).  They are  *)
(* processes that share nothing but the server's task, which also moves on *)
(* its own (deadlines, automatic disbursement).                            *)
(*                                                                         *)
(* A call is one step.  The server may answer, refuse, be unreachable, or  *)
(* apply the call and have its answer lost; no command repeats a call,     *)
(* with one exception, the completion of an upload.  A command of one call *)
(* is therefore one action; claim, settle and the uploads keep their place *)
(* in cmd.  The server (status machine, tickets, bids) is external.        *)
(***************************************************************************)
EXTENDS Integers, Sequences, SequencesExt

CONSTANTS Workers,      \* the agents that bid and work
          None,         \* nobody
          Files,        \* artifact files
          Uploads,      \* the --artifact lists that are tried
          Local,        \* TRUE iff the environment is Local
          AllowCustom,  \* --allow-custom-endpoints
          Expiry,       \* bound: time units from the PUT to expires_at
          BaseDelay,    \* RetryPolicy::base_delay
          MaxBackoff,   \* MAX_COMPLETE_BACKOFF
          MaxStored,    \* bound: artifacts stored, in all
          MaxSide       \* bound: side records

Poster == "poster"

ASSUME TaskAssumption ==
    /\ None \notin Workers /\ Poster \notin Workers
    /\ Uploads \subseteq Seq(Files)
    /\ {Local, AllowCustom} \subseteq BOOLEAN
    /\ {Expiry, MaxStored, MaxSide} \subseteq Nat
    /\ {BaseDelay, MaxBackoff} \subseteq Nat \ {0}

VARIABLES srv,   \* the server's records of the task
          cmd,   \* where the command of several calls of an agent stands
          dry,   \* TRUE iff the commands are given --dry-run
          told   \* those whose claim or settle has been reported as done

vars == <<srv, cmd, dry, told>>

Agents == Workers \cup {Poster}

Statuses == {"blocked_on_submission_fee_debt", "pending_evaluation", "rejected",
             "open", "bidding", "payment_pending", "assigned", "unassigned",
             "in_progress", "under_review", "disputed", "complete",
             "disbursement_pending", "settled", "cancelled", "expired", "abandoned"}
BidStatuses == {"none", "pending", "accepted_pending_escrow", "accepted",
                "rejected", "withdrawn"}

(* an upload ticket: the PUTs made, whether storage has the bytes, and the
   artifact the server has made of it, 0 if none *)
NewTicket == [puts |-> 0, blob |-> FALSE, art |-> 0]

Idle == [op |-> "none", pc |-> "idle", files |-> <<>>, ids |-> <<>>,
         ticket |-> NewTicket, left |-> 0, delay |-> 0]

Artifact == [file : Files, live : BOOLEAN]
Srv == [status : Statuses, holder : Workers \cup {None}, direct : BOOLEAN,
        bid : [Workers -> BidStatuses], escrow : BOOLEAN, begun : SUBSET Workers,
        stored : Seq(Artifact), sub : Seq(Nat), side : Nat]
Cmd == [op : {"none", "claim", "settle", "upload", "submit"},
        pc : {"idle", "claim_recheck", "settle_sign", "settle_post", "settle_recheck",
              "initiate", "put", "multipart", "complete", "backoff", "post"},
        files : Seq(Files), ids : Seq(Nat),
        ticket : [puts : Nat, blob : BOOLEAN, art : Nat], left : Nat, delay : Nat]

TypeOK == srv \in Srv /\ cmd \in [Agents -> Cmd] /\ dry \in BOOLEAN /\ told \subseteq Agents

Init ==
    /\ \E direct \in BOOLEAN :
         srv = [status |-> "blocked_on_submission_fee_debt", holder |-> None,
                direct |-> direct, bid |-> [w \in Workers |-> "none"],
                escrow |-> FALSE, begun |-> {}, stored |-> <<>>,
                sub |-> <<>>, side |-> 0]
    /\ cmd = [p \in Agents |-> Idle]
    /\ dry \in BOOLEAN
    /\ told = {}
-----------------------------------------------------------------------------
(* One-call commands.  Every one of them parses its arguments, returns what it
   would do under --dry-run, wants a key, makes one call, and maps a failure to
   an error, in that order.  may says when the server accepts the call and next
   what it then records; the answer may be lost.  On every other way out (bad
   arguments, a dry run, no key, a refusal, no connection) all stays as it is. *)

Mutating(may, next) == ~dry /\ may /\ srv' = next /\ UNCHANGED <<cmd, dry, told>>

To(s) == [srv EXCEPT !.status = s]
Vacated(s) == [srv EXCEPT !.status = s, !.holder = None, !.escrow = FALSE,
                          !.bid = [w \in Workers |-> "none"]]
Aside == [srv EXCEPT !.side = @ + 1]

(* bid: create wants a price, reject a reason that is not blank if one is given *)
BidCreate(w) == Mutating(srv.status \in {"open", "bidding"} /\ srv.bid[w] = "none",
                         [To("bidding") EXCEPT !.bid[w] = "pending"])
BidCancel(w) == Mutating(srv.bid[w] = "pending", [srv EXCEPT !.bid[w] = "withdrawn"])
BidAccept(w) == Mutating(srv.status = "bidding" /\ srv.bid[w] = "pending",
                         [To("payment_pending") EXCEPT !.bid[w] = "accepted_pending_escrow"])
BidReject(w) == Mutating(srv.bid[w] = "pending", [srv EXCEPT !.bid[w] = "rejected"])

(* task, the poster's side: dispute wants a reason, edit at least one change *)
Approve == Mutating(srv.status = "under_review", To("complete"))
Dispute == Mutating(srv.status = "under_review", To("disputed"))
Cancel == Mutating(srv.status \in {"open", "bidding", "assigned", "unassigned", "abandoned"},
                   Vacated("cancelled"))
Reassign(w) == Mutating(srv.status = "unassigned", [To("payment_pending") EXCEPT !.holder = w])
Reopen == Mutating(srv.status = "abandoned", Vacated("open"))
Open == Mutating(srv.status = "unassigned", [Vacated("open") EXCEPT !.direct = FALSE])
RetryFee == Mutating(srv.status = "blocked_on_submission_fee_debt", To("pending_evaluation"))
Edit == Mutating(srv.status \in {"pending_evaluation", "open", "bidding"}
                   /\ srv.side < MaxSide, Aside)

(* task, the worker's side *)
Refuse(w) == Mutating(srv.status = "assigned" /\ srv.holder = w /\ srv.direct,
                      Vacated("unassigned"))
Concede(w) == Mutating(srv.status = "disputed" /\ srv.holder = w, Vacated("cancelled"))
Abort(w) == Mutating(srv.status = "in_progress" /\ srv.holder = w,
                     Vacated(IF srv.direct THEN "unassigned" ELSE "open"))

(* records beside the task: a message or a review wants its text, a review a
   rating in 1..5, a stake a positive amount and a wallet for an external
   backer, a backer its wallet, update-me at least one change, a CID its text *)
SideRecord == Mutating(srv.side < MaxSide, Aside)
MessageSend == SideRecord
ReviewCreate == SideRecord
Stake == SideRecord
UpdateMe == SideRecord
SubmitCid == SideRecord
UpdateCidStatus == SideRecord
(* approved with the user's token: the human key if it is not blank, else the
   API key *)
BackerAdd == SideRecord
BackerRevoke == SideRecord

ArtifactDelete(i) ==
    Mutating(srv.stored[i].live, [srv EXCEPT !.stored[i].live = FALSE])
-----------------------------------------------------------------------------
(* Commands of several calls.  A command that fails is over; one that ends well
   is over too, and claim and settle report it. *)
Over(p) == cmd' = [cmd EXCEPT ![p] = Idle] /\ UNCHANGED <<dry, told>>
Report(p) == /\ cmd' = [cmd EXCEPT ![p] = Idle]
             /\ told' = told \cup {p} /\ UNCHANGED dry
Goto(p, pc) == cmd' = [cmd EXCEPT ![p].pc = pc] /\ UNCHANGED <<dry, told>>
At(p, pc) == cmd[p].pc = pc

(* task claim: the call itself, then, only if the answer was 409
   invalid_status, one look at the task.  The server forbids the call to
   anybody but the holder, if there is one. *)
Claim(w) ==
    /\ At(w, "idle") /\ ~dry
    /\ \/ /\ srv.status = "assigned" /\ srv.holder = w
          /\ srv' = [To("in_progress") EXCEPT !.begun = @ \cup {w}]
          /\ Report(w) \/ Over(w)  \* the answer is lost
       \/ /\ srv.status /= "assigned" /\ srv.holder \in {w, None}
          /\ UNCHANGED srv
          /\ cmd' = [cmd EXCEPT ![w].op = "claim", ![w].pc = "claim_recheck"]
          /\ UNCHANGED <<dry, told>>

(* status_at_or_past_in_progress; "remedied" is no status of the server's *)
AtOrPastInProgress == {"in_progress", "under_review", "disputed", "complete",
                       "disbursement_pending", "settled"}

(* A failed look, or another status, leaves the first answer: a refusal. *)
ClaimRecheck(w) ==
    /\ At(w, "claim_recheck") /\ UNCHANGED srv
    /\ \/ Over(w)
       \/ srv.status \in AtOrPastInProgress /\ Report(w)

(* slip: complete is as good as settled *)
SlipSettlementNote == {"settled", "disbursement_pending", "complete"}

SettlementNote == {"settled", "disbursement_pending"}

(* settle, up to the signature: the task with the budget gate (oversize and no
   --yes), the escrow and the deadline, if it is not overridden *)
Settle ==
    /\ At(Poster, "idle") /\ UNCHANGED srv
    /\ \E gated, deadline, override \in BOOLEAN :
         /\ ~gated
         /\ \/ /\ ~srv.escrow /\ srv.status \in SettlementNote
               /\ Report(Poster)
            \/ /\ srv.escrow /\ (deadline \/ override)
               /\ cmd' = [cmd EXCEPT ![Poster].op = "settle", ![Poster].pc = "settle_sign"]
               /\ UNCHANGED <<dry, told>>

(* The domain is the task's own or, if it has none, the one of readiness; the
   key is loaded, compared with the expected address, and signs.  Any of it may
   fail, and a dry run ends with the signature. *)
SettleSign ==
    /\ At(Poster, "settle_sign") /\ UNCHANGED srv
    /\ Over(Poster) \/ (~dry /\ Goto(Poster, "settle_post"))

(* the call, and the two 409 codes, task_not_eligible and escrow_not_ready,
   after which the task is looked at once *)
SettlePost ==
    /\ At(Poster, "settle_post")
    /\ \/ /\ srv.status \in {"complete", "disbursement_pending"} /\ srv.escrow
          /\ srv' \in {To("disbursement_pending"), To("settled")}
          /\ Report(Poster) \/ Over(Poster)
       \/ UNCHANGED srv /\ Over(Poster)
       \/ /\ srv.status \notin {"complete", "disbursement_pending"} \/ ~srv.escrow
          /\ UNCHANGED srv /\ Goto(Poster, "settle_recheck")

SettleRecheck ==
    /\ At(Poster, "settle_recheck") /\ UNCHANGED srv
    /\ \/ Over(Poster)
       \/ srv.status \in SettlementNote /\ Report(Poster)
-----------------------------------------------------------------------------
(* artifact upload, task submit, task remedy: every file is looked for before
   the dry-run fork and the first call *)
Upload(w) ==
    /\ At(w, "idle") /\ ~dry
    /\ \E op \in {"upload", "submit"}, files \in Uploads :
         /\ op = "upload" => Len(files) = 1
         /\ cmd' = [cmd EXCEPT ![w] =
              [Idle EXCEPT !.op = op, !.files = files,
                           !.pc = IF files = <<>> THEN "post" ELSE "initiate"]]
    /\ UNCHANGED <<srv, dry, told>>

NextFile(w) == cmd[w].files[Len(cmd[w].ids) + 1]

(* the server takes files from the holder, before the submission *)
Uploadable(w) == srv.holder = w /\ srv.status \in {"assigned", "in_progress", "disputed"}

(* slip: submit what there is after a failed upload *)
SlipInitiate(w) ==
    /\ At(w, "initiate") /\ UNCHANGED srv
    /\ Goto(w, "post") \/ (Uploadable(w) /\ Goto(w, "put"))

(* upload_file, up to the PUT: the file may be gone by now, the call may fail or
   its answer be lost, and the URL may not point to R2; a 404 or a multipart
   answer is good in the Local environment only *)
Initiate(w) ==
    /\ At(w, "initiate") /\ UNCHANGED srv
    /\ \/ Over(w)
       \/ Local /\ Goto(w, "multipart")
       \/ \E r2 \in BOOLEAN : Uploadable(w) /\ (r2 \/ AllowCustom) /\ Goto(w, "put")

(* put_presigned_upload: one attempt.  The bytes may have arrived although the
   answer did not; time passes. *)
Put(w) ==
    /\ At(w, "put") /\ UNCHANGED <<srv, dry, told>>
    /\ \/ cmd' = [cmd EXCEPT ![w] = Idle]
       \/ \E left \in 0..Expiry :
            cmd' = [cmd EXCEPT ![w].pc = "complete", ![w].left = left, ![w].delay = BaseDelay,
                      ![w].ticket.puts = @ + 1, ![w].ticket.blob = TRUE]

(* the artifact is in: end, go on with the next file, or submit *)
Obtained(w, id) ==
    LET ids == Append(cmd[w].ids, id) IN
    /\ cmd' = [cmd EXCEPT ![w] =
         IF cmd[w].op = "upload" THEN Idle
         ELSE [Idle EXCEPT !.op = cmd[w].op, !.files = cmd[w].files, !.ids = ids,
                 !.pc = IF Len(ids) = Len(cmd[w].files) THEN "post" ELSE "initiate"]]
    /\ UNCHANGED <<dry, told>>

StoreNext(w) ==
    /\ Len(srv.stored) < MaxStored
    /\ srv' = [srv EXCEPT !.stored = Append(@, [file |-> NextFile(w), live |-> TRUE])]

Doubled(delay) == IF 2 * delay < MaxBackoff THEN 2 * delay ELSE MaxBackoff

(* slip: start over with the PUT when complete fails *)
SlipTryAgain(w, spent, art) ==
    IF spent + cmd[w].delay >= cmd[w].left THEN Over(w) ELSE Goto(w, "put")

(* slip: no look at the clock *)
SlipNoDeadline(w, spent, art) ==
    /\ cmd' = [cmd EXCEPT ![w].delay = Doubled(@), ![w].ticket.art = art, ![w].pc = "backoff"]
    /\ UNCHANGED <<dry, told>>

(* an attempt that took spent has failed in a way worth repeating *)
TryAgain(w, spent, art) ==
    \/ spent + cmd[w].delay >= cmd[w].left /\ Over(w)
    \/ /\ spent + cmd[w].delay < cmd[w].left
       /\ cmd' = [cmd EXCEPT ![w].left = @ - spent - cmd[w].delay, ![w].delay = Doubled(@),
                             ![w].ticket.art = art, ![w].pc = "backoff"]
       /\ UNCHANGED <<dry, told>>

Wake(w) == At(w, "backoff") /\ UNCHANGED srv /\ Goto(w, "complete")

(* complete_artifact_upload, one attempt: 503 and transport failures, also of
   the answer's body, are repeated until the ticket expires; any other failure
   ends the command, also when the server has stored the artifact (a 500, an
   answer above the cap or that is no artifact).  The server is idempotent: a
   ticket it has made an artifact of is answered with that artifact. *)
Complete(w) ==
    LET art == cmd[w].ticket.art IN
    /\ At(w, "complete")
    /\ \/ UNCHANGED srv /\ Over(w)
       \/ UNCHANGED srv /\ \E spent \in 0..1 : TryAgain(w, spent, art)
       \/ art > 0 /\ UNCHANGED srv /\ Obtained(w, art)
       \/ /\ art = 0 /\ StoreNext(w)
          /\ \/ Obtained(w, Len(srv'.stored))
             \/ Over(w)
             \/ \E spent \in 0..1 : TryAgain(w, spent, Len(srv'.stored))

(* upload_artifact: the file is read once more, and sent through the app *)
Multipart(w) ==
    /\ At(w, "multipart")
    /\ \/ UNCHANGED srv /\ Over(w)
       \/ Uploadable(w) /\ StoreNext(w) /\ (Over(w) \/ Obtained(w, Len(srv'.stored)))

(* SubmitKind: from which status the server takes it, and where it leads; a
   remedy is judged at once *)
SubmitKind == {[from |-> "in_progress", to |-> {"under_review"}],
               [from |-> "disputed", to |-> {"under_review", "complete", "cancelled"}]}

(* submit_completion or submit_remedy; the server wants artifacts that are there *)
Post(w) ==
    /\ At(w, "post")
    /\ \/ UNCHANGED srv
       \/ /\ srv.holder = w
          /\ \A i \in ToSet(cmd[w].ids) : srv.stored[i].live
          /\ \E kind \in SubmitKind : /\ srv.status = kind.from
                                     /\ \E s \in kind.to :
                                          srv' = [To(s) EXCEPT !.sub = cmd[w].ids]
    /\ Over(w)
-----------------------------------------------------------------------------
(* What the server does by itself *)
FeePaid == srv.status = "blocked_on_submission_fee_debt" /\ srv' = To("pending_evaluation")
Evaluated ==
    /\ srv.status = "pending_evaluation"
    /\ srv' \in {To("rejected"), To(IF srv.direct THEN "unassigned" ELSE "open")}
(* escrow sign has opened and finalised the escrow (module EscrowSign) *)
EscrowFinalized ==
    /\ srv.status = "payment_pending"
    /\ \E w \in Workers :
         /\ srv.holder = w \/ srv.bid[w] = "accepted_pending_escrow"
         /\ srv' = [To("assigned") EXCEPT !.holder = w, !.escrow = TRUE,
                      !.bid[w] = IF srv.direct THEN @ ELSE "accepted"]
(* work-start receipts *)
AutoClaimed == /\ srv.status = "assigned"
               /\ srv' = [To("in_progress") EXCEPT !.begun = @ \cup {srv.holder}]
PickupLapsed == /\ srv.status = "assigned"
                /\ srv' = Vacated(IF srv.direct THEN "unassigned" ELSE "abandoned")
BiddingLapsed == srv.status \in {"open", "bidding"} /\ srv' = To("expired")
Overdue == srv.status = "in_progress" /\ srv' = Vacated("abandoned")
ReviewLapsed == srv.status = "under_review" /\ srv' = To("complete")
Resolved == srv.status = "disputed" /\ srv' \in {To("complete"), Vacated("cancelled")}
Disbursing == /\ srv.status = "complete"
              /\ srv' \in {To("disbursement_pending"),
                           [To("disbursement_pending") EXCEPT !.escrow = FALSE]}
Settled == /\ srv.status = "disbursement_pending"
           /\ srv' \in {To("settled"), [To("settled") EXCEPT !.escrow = FALSE]}

Server ==
    /\ \/ FeePaid \/ Evaluated \/ EscrowFinalized \/ AutoClaimed \/ PickupLapsed
       \/ BiddingLapsed \/ Overdue \/ ReviewLapsed \/ Resolved \/ Disbursing \/ Settled
    /\ UNCHANGED <<cmd, dry, told>>

OneCall ==
    \/ \E w \in Workers : \/ BidCreate(w) \/ BidCancel(w) \/ BidAccept(w) \/ BidReject(w)
                          \/ Reassign(w) \/ Refuse(w) \/ Concede(w) \/ Abort(w)
    \/ Approve \/ Dispute \/ Cancel \/ Reopen \/ Open \/ RetryFee \/ Edit
    \/ MessageSend \/ ReviewCreate \/ Stake \/ UpdateMe \/ SubmitCid \/ UpdateCidStatus
    \/ BackerAdd \/ BackerRevoke
    \/ \E i \in DOMAIN srv.stored : ArtifactDelete(i)

(* a command that has started goes on *)
Continue(p) ==
    \/ p = Poster /\ (SettleSign \/ SettlePost \/ SettleRecheck)
    \/ /\ p \in Workers
       /\ \/ ClaimRecheck(p) \/ Initiate(p) \/ Complete(p) \/ Wake(p)
          \/ Multipart(p) \/ Post(p)

Next ==
    \/ OneCall \/ Server \/ Settle
    \/ \E w \in Workers : Claim(w) \/ Upload(w) \/ Put(w)
    \/ \E p \in Agents : Continue(p)

(* Every call to the API is answered or fails, by the timeouts of its client
   (30 s, 5 min for complete), so a command that has started goes on.  Nothing
   is assumed of the PUT, which has no total timeout (client.rs:403-415), of
   who starts a command, and of what the server does by itself. *)
Spec == Init /\ [][Next]_vars /\ \A p \in Agents : WF_vars(Continue(p))
-----------------------------------------------------------------------------
(* A claim or a settlement that is reported as done is done: the task has been
   in progress, or its settlement is under way or over.  The report may rest on
   a 409 and a look at a task that other parties move meanwhile. *)
GoalReached ==
    /\ told \cap Workers /= {} => srv.begun /= {}
    /\ Poster \in told => srv.status \in {"disbursement_pending", "settled"}

(* The recorded submission names one live artifact for every --artifact of the
   command that sent it, in that order: a failed upload ends the command. *)
SubmissionIsWhole ==
    [][srv'.sub /= srv.sub =>
         \E w \in Workers :
           /\ cmd[w].pc = "post" /\ Len(srv'.sub) = Len(cmd[w].files)
           /\ \A i \in DOMAIN srv'.sub :
                srv'.stored[srv'.sub[i]] = [file |-> cmd[w].files[i], live |-> TRUE]]_vars

(* The bytes of a ticket are sent at most once, whatever complete answers and
   however often it is repeated, and no two live artifacts come from one file
   of one command. *)
PutOnce ==
    \A w \in Workers : /\ cmd[w].ticket.puts <= 1
                      /\ IsInjective(cmd[w].ids)
                      /\ cmd[w].ticket.art \notin ToSet(cmd[w].ids)

(* A command that has started ends, for complete is not repeated for ever, or
   stands in a PUT that never ends. *)
CommandEnds ==
    \A p \in Agents : cmd[p].pc /= "idle" ~> cmd[p].pc = "idle" \/ [](cmd[p].pc = "put")
=============================================================================
