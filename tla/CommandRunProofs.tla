-------------------------- MODULE CommandRunProofs --------------------------
(***************************************************************************)
(* Proofs about CommandRun, for any number of retries and any plan of the  *)
(* commands, and about RetryLoops, for any policy.                         *)
(***************************************************************************)
EXTENDS CommandRun, RetryLoops, SequenceTheorems, TLAPS

(***************************************************************************)
(* The invariant of a run: before the command's function runs nothing has  *)
(* been asked, it runs only if the base is allowed, and while it runs no   *)
(* broadcast is out that a retry could repeat.                             *)
(***************************************************************************)
Calls == [to : {"base", "node"}, taken : {0, 1}]
Untouched == phase \in {"load", "parts"} => sent = {} /\ rpc.taken = 0
Guarded == phase = "run" => EndpointGuard(ctx)

CommandInv == TypeOK /\ Untouched /\ Guarded /\ KeyStaysHome /\ TakenOnce /\ rpc \in Calls

LEMMA ReadsAreSequences == \A q \in Reads : q \in Seq(Step)
<1>1. {TaskList, TaskGet, TaskBids, ArtifactList, ArtifactGet, MessageList, Conversations,
       PaymentGet, BackerList, AgentGet, Dispute, ReviewList} \subseteq Seq(Step)
  BY DEF Step, TaskList, TaskGet, TaskBids, ArtifactList, ArtifactGet, MessageList,
         Conversations, PaymentGet, BackerList, AgentGet, Dispute, ReviewList
<1>2. {BidList, PaymentList, AgentList, Discover, PlatformConfig, WalletBalance, WebhookGet,
       SubscriptionList, EventsPoll, Schema} \subseteq Seq(Step)
  BY DEF Step, BidList, PaymentList, AgentList, Discover, PlatformConfig, WalletBalance,
         WebhookGet, SubscriptionList, EventsPoll, Schema
<1>3. {Me, Ping, EventsAck, EventsStream} \subseteq Seq(Step)
  BY DEF Step, Me, Ping, EventsAck, EventsStream
<1> QED
  BY <1>1, <1>2, <1>3 DEF Reads

LEMMA WritesAreSequences == \A q \in Writes : q \in Seq(Step)
<1>1. {BidWrite, TaskWrite, ArtifactWrite, MessageSend, ReviewCreate, StakePost, UpdateMe,
       BackerWrite} \subseteq Seq(Step)
  BY DEF Step, BidWrite, TaskWrite, ArtifactWrite, MessageSend, ReviewCreate, StakePost,
         UpdateMe, BackerWrite
<1>2. {WebhookTest, WebhookDelete, Subscribe, TaskClaim} \subseteq Seq(Step)
  BY DEF Step, WebhookTest, WebhookDelete, Subscribe, TaskClaim
<1> QED
  BY <1>1, <1>2 DEF Writes

LEMMA PlansAreSequences == \A q \in Plans : q \in Seq(Step)
<1>1. {ConfigShow, ConfigWrite, Skills, CastCall, CastRpc, Artifact} \subseteq Seq(Step)
  BY DEF Step, ConfigShow, ConfigWrite, Skills, CastCall, CastRpc, Artifact
<1>2. WebhookRegister \in Seq(Step)
  BY DEF Step, WebhookRegister
<1>3. Submit \in Seq(Step)
  BY DEF Step, Submit
<1>4. Settle \in Seq(Step)
  BY DEF Step, Settle
<1>5. CastSend \in Seq(Step)
  BY DEF Step, CastSend
<1>6. PostTask \in Seq(Step)
  BY DEF Step, PostTask
<1>7. BondPost \in Seq(Step)
  BY DEF Step, BondPost
<1>8. EscrowSign \in Seq(Step)
  BY DEF Step, EscrowSign
<1>9. InitRun \in Seq(Step)
  BY DEF Step, InitRun
<1> QED
  BY <1>1, <1>2, <1>3, <1>4, <1>5, <1>6, <1>7, <1>8, <1>9, ReadsAreSequences,
     WritesAreSequences DEF Plans

LEMMA CommandInit == Init => CommandInv
<1> SUFFICES ASSUME Init PROVE CommandInv
  OBVIOUS
<1>1. /\ phase = "load" /\ sent = {} /\ corr = "empty" /\ lost = FALSE /\ tries = 0
      /\ rpc = [to |-> "base", taken |-> 0] /\ plan \in Plans
      /\ ctx.key = FALSE /\ ctx.rpc = "none"
  BY DEF Init
<1>2. TypeOK
  BY <1>1, PlansAreSequences DEF TypeOK, Rpc
<1>3. KeyStaysHome /\ TakenOnce /\ Untouched /\ Guarded /\ rpc \in Calls
  BY <1>1 DEF KeyStaysHome, TakenOnce, Untouched, Guarded, Calls
<1> QED
  BY <1>2, <1>3 DEF CommandInv

(***************************************************************************)
(* What is left of a plan, and the steps put in front of it.               *)
(***************************************************************************)
LEMMA Rest ==
  ASSUME plan \in Seq(Step), plan # <<>>
  PROVE  /\ Tail(plan) \in Seq(Step)
         /\ \A q \in Seq(Step) : q \o Tail(plan) \in Seq(Step)
<1>1. Tail(plan) \in Seq(Step)
  BY HeadTailProperties
<1> QED
  BY <1>1, ConcatProperties

(***************************************************************************)
(* A step of the command's function: at most one request, with the key     *)
(* only to the base.                                                       *)
(***************************************************************************)
Slot == {"empty", "id"}
Asks == \/ UNCHANGED made
        \/ \E r \in Request : /\ r.key => r.to = "base"
                              /\ sent' = sent \cup {r} /\ lost' \in BOOLEAN /\ corr' \in Slot

LEMMA Answers ==
  ASSUME CommandInv, NEW to \in {"base", "node", "storage"}, NEW key \in BOOLEAN,
         key => to = "base",
         \/ \E seen \in BOOLEAN : Answer(to, key, seen)
         \/ NoAnswer(to, key) /\ corr' \in {corr, "empty"}
  PROVE  Asks
<1>1. corr \in Slot
  BY DEF CommandInv, TypeOK, Slot
<1>2. /\ [to |-> to, key |-> key] \in Request
      /\ [to |-> to, key |-> key].key => [to |-> to, key |-> key].to = "base"
  BY DEF Request
<1>3. sent' = sent \cup {[to |-> to, key |-> key]} /\ lost' \in BOOLEAN
  BY DEF Answer, NoAnswer
<1>4. corr' \in Slot
  BY <1>1 DEF Answer, Slot
<1> QED
  BY <1>2, <1>3, <1>4 DEF Asks

LEMMA RunStep ==
  ASSUME CommandInv, phase = "run", phase' \in {"run", "done"}, UNCHANGED ctx,
         plan' \in Seq(Step), Asks, rpc' \in Calls, rpc'.taken = 1 => phase' = "done",
         tries' \in Nat
  PROVE  CommandInv'
<1>1. KeyStaysHome' /\ sent' \subseteq Request /\ lost' \in BOOLEAN /\ corr' \in Slot
  <2>1. /\ KeyStaysHome /\ EndpointGuard(ctx) /\ sent \subseteq Request
        /\ lost \in BOOLEAN /\ corr \in Slot
    BY DEF CommandInv, TypeOK, Guarded, Slot
  <2>2. CASE UNCHANGED made
    BY <2>1, <2>2 DEF made, KeyStaysHome
  <2>3. CASE \E r \in Request : /\ r.key => r.to = "base"
                                /\ sent' = sent \cup {r} /\ lost' \in BOOLEAN /\ corr' \in Slot
    BY <2>1, <2>3 DEF KeyStaysHome, EndpointGuard
  <2> QED
    BY <2>2, <2>3 DEF Asks
<1>2. TypeOK'
  <2>1. rpc' \in Rpc
    BY DEF Calls, Rpc
  <2> QED
    BY <1>1, <2>1 DEF CommandInv, TypeOK, Slot
<1>3. TakenOnce' /\ Untouched' /\ Guarded'
  BY DEF CommandInv, TakenOnce, Untouched, Guarded, EndpointGuard, Calls
<1> QED
  BY <1>1, <1>2, <1>3 DEF CommandInv

LEMMA RunFields ==
  ASSUME CommandInv, phase = "run"
  PROVE  /\ rpc \in Calls /\ rpc.taken = 0 /\ tries \in Nat /\ plan \in Seq(Step)
         /\ ctx.key \in BOOLEAN /\ ctx.rpc \in {"none", "base", "node"}
BY DEF CommandInv, TypeOK, TakenOnce, Calls

(* Most steps leave JSON-RPC alone. *)
LEMMA PlainStep ==
  ASSUME CommandInv, phase = "run", phase' \in {"run", "done"},
         UNCHANGED <<ctx, rpc>>, plan' \in Seq(Step), Asks, tries' \in Nat
  PROVE  CommandInv'
<1>1. rpc' \in Calls /\ rpc'.taken # 1
  BY RunFields
<1> QED
  BY <1>1, RunStep

(***************************************************************************)
(* The actions of the function: those without a request, ...               *)
(***************************************************************************)
LEMMA QuietStep ==
  ASSUME CommandInv, Check \/ Known \/ DryRun \/ DryRunRpc \/ Client \/ Mint \/ Probe \/ File
                     \/ Finish
  PROVE  CommandInv'
<1>1. /\ phase = "run" /\ phase' \in {"run", "done"} /\ UNCHANGED <<ctx, rpc, tries, made>>
      /\ \/ plan' = plan
         \/ /\ plan # <<>>
            /\ plan' \in {Tail(plan), <<"key", "api">>, <<"anon">>, <<"upload">> \o Tail(plan),
                          <<"check", "greet", "dry", "api", "check">> \o Tail(plan)}
  BY DEF Check, Known, DryRun, DryRunRpc, Client, Mint, Probe, File, Finish, At, Next1, End
<1>2. {<<"key", "api">>, <<"anon">>, <<"upload">>} \subseteq Seq(Step)
  BY DEF Step
<1>3. <<"check", "greet", "dry", "api", "check">> \in Seq(Step)
  BY DEF Step
<1>4. plan' \in Seq(Step)
  BY <1>1, <1>2, <1>3, Rest, RunFields
<1> QED
  BY <1>1, <1>4, RunFields, PlainStep DEF Asks

(* ... calls of the API, ... *)
LEMMA CallStep ==
  ASSUME CommandInv, phase = "run", plan # <<>>, UNCHANGED <<ctx, rpc>>, tries' \in Nat,
         phase' \in {"run", "done"},
         plan' \in {plan, Tail(plan), <<"look">>, <<"raw">> \o Tail(plan),
                    <<"check", "put", "complete">> \o Tail(plan)},
         \/ UNCHANGED made
         \/ \E seen \in BOOLEAN : Answer("base", TRUE, seen)
         \/ NoAnswer("base", TRUE) /\ corr' \in {corr, "empty"}
  PROVE  CommandInv'
<1>1. Asks
  BY Answers DEF Asks
<1>2. {<<"look">>, <<"raw">>} \subseteq Seq(Step) /\ <<"check", "put", "complete">> \in Seq(Step)
  BY DEF Step
<1>3. plan' \in Seq(Step)
  BY <1>2, Rest, RunFields
<1> QED
  BY <1>1, <1>3, PlainStep

LEMMA GeneratedSteps ==
  ASSUME CommandInv, Api \/ Maybe \/ Raw \/ Try
  PROVE  CommandInv'
<1>1. phase = "run" /\ plan # <<>> /\ UNCHANGED <<ctx, rpc, tries>> /\ tries \in Nat
  BY RunFields DEF Api, Maybe, Raw, Try, At
<1>2. /\ phase' \in {"run", "done"} /\ plan' \in {plan, Tail(plan), <<"look">>}
      /\ \/ UNCHANGED made
         \/ Answer("base", TRUE, TRUE)
         \/ NoAnswer("base", TRUE) /\ corr' \in {corr, "empty"}
  BY <1>1 DEF Api, Maybe, Raw, Try, At, Generated, Answered, Lost, On, Next1, End
<1> QED
  BY <1>1, <1>2, CallStep

LEMMA NotedSteps ==
  ASSUME CommandInv, Soft \/ Refused \/ Greet \/ Look
  PROVE  CommandInv'
<1>1. phase = "run" /\ plan # <<>> /\ UNCHANGED <<ctx, rpc, tries>> /\ tries \in Nat
  BY RunFields DEF Soft, Refused, Greet, Look, At
<1>2. /\ phase' \in {"run", "done"} /\ plan' \in {plan, Tail(plan)}
      /\ \/ UNCHANGED made
         \/ \E seen \in BOOLEAN : Answer("base", TRUE, seen)
         \/ NoAnswer("base", TRUE) /\ corr' \in {corr, "empty"}
  BY <1>1 DEF Soft, Refused, Greet, Look, At, On, Next1, End
<1> QED
  BY <1>1, <1>2, CallStep

LEMMA UploadSteps ==
  ASSUME CommandInv, Initiate \/ Complete
  PROVE  CommandInv'
<1>1. phase = "run" /\ plan # <<>> /\ UNCHANGED <<ctx, rpc>> /\ tries \in Nat
  BY RunFields DEF Initiate, Complete, At
<1>2. tries' \in Nat
  <2>1. Initiate => tries' = tries
    BY DEF Initiate
  <2>2. Complete => tries' = 0 \/ tries' = tries + 1
    BY DEF Complete, Repeated
  <2> QED
    BY <1>1, <2>1, <2>2
<1>3. /\ phase' \in {"run", "done"}
      /\ plan' \in {plan, Tail(plan), <<"raw">> \o Tail(plan),
                    <<"check", "put", "complete">> \o Tail(plan)}
      /\ \/ \E seen \in BOOLEAN : Answer("base", TRUE, seen)
         \/ NoAnswer("base", TRUE) /\ corr' \in {corr, "empty"}
  <2>1. CASE Initiate
    BY <1>1, <2>1 DEF Initiate, At, Answered, Lost, End
  <2>2. CASE Complete
    BY <1>1, <2>2 DEF Complete, Repeated, At, Next1, End
  <2> QED
    BY <2>1, <2>2
<1> QED
  BY <1>1, <1>2, <1>3, CallStep

(* ... requests that are not the API client's, ... *)
LEMMA OtherSteps ==
  ASSUME CommandInv, Anonymous \/ FetchSchema \/ Put \/ Faucet
  PROVE  CommandInv'
<1>1. /\ phase = "run" /\ phase' \in {"run", "done"} /\ plan # <<>>
      /\ plan' \in {plan, Tail(plan)} /\ UNCHANGED <<ctx, rpc, tries>>
  BY DEF Anonymous, FetchSchema, Put, Faucet, At, On, Next1, End
<1>2. ctx.key \in BOOLEAN /\ tries' \in Nat /\ plan' \in Seq(Step)
  BY <1>1, RunFields, Rest
<1>3. \/ UNCHANGED made
      \/ \E to \in {"base", "node", "storage"}, key \in BOOLEAN :
           /\ key => to = "base"
           /\ \/ \E seen \in BOOLEAN : Answer(to, key, seen)
              \/ NoAnswer(to, key) /\ corr' \in {corr, "empty"}
  <2>1. CASE Anonymous
    BY <2>1 DEF Anonymous
  <2>2. CASE FetchSchema
    BY <1>2, <2>2 DEF FetchSchema
  <2>3. CASE Put
    BY <2>3 DEF Put
  <2>4. CASE Faucet
    BY <2>4 DEF Faucet
  <2> QED
    BY <2>1, <2>2, <2>3, <2>4
<1>4. Asks
  BY <1>3, Answers DEF Asks
<1> QED
  BY <1>1, <1>2, <1>4, PlainStep

(* ... those that may ask for the network's configuration first, ... *)
LEMMA NetworkSteps ==
  ASSUME CommandInv, FetchConfig \/ Advised \/ Guard
  PROVE  CommandInv'
<1>1. phase = "run" /\ plan # <<>> /\ UNCHANGED <<ctx, rpc, tries>> /\ tries \in Nat
  BY RunFields DEF FetchConfig, Advised, Guard, At
<1>2. /\ phase' \in {"run", "done"} /\ plan' \in {plan, Tail(plan)}
      /\ \/ UNCHANGED made
         \/ Answer("base", TRUE, TRUE)
         \/ NoAnswer("base", TRUE) /\ corr' \in {corr, "empty"}
  <2>1. CASE FetchConfig
    BY <1>1, <2>1 DEF FetchConfig, FetchNetwork, Answered, Lost, made, At, Next1, End
  <2>2. CASE Advised
    BY <1>1, <2>2 DEF Advised, made, Next1
  <2>3. CASE Guard
    BY <1>1, <2>3 DEF Guard, FetchNetwork, Answered, Lost, On, made, At, Next1, End
  <2> QED
    BY <2>1, <2>2, <2>3
<1> QED
  BY <1>1, <1>2, CallStep

LEMMA RouteStep == ASSUME CommandInv, Route PROVE CommandInv'
<1>1. phase = "run" /\ plan # <<>> /\ UNCHANGED <<ctx, tries>> /\ tries \in Nat
  BY RunFields DEF Route, At
<1>2. /\ rpc \in Calls /\ rpc.taken = 0
      /\ \A to \in {"base", "node"} : /\ [rpc EXCEPT !.to = to] \in Calls
                                      /\ [rpc EXCEPT !.to = to].taken = 0
  BY <1>1, RunFields DEF Calls
<1> DEFINE Follow == /\ phase' \in {"run", "done"} /\ plan' \in {plan, Tail(plan)}
                     /\ rpc' \in Calls /\ rpc'.taken = 0
<1>3. ASSUME NEW to \in {"base", "node"}, GoTo(to) PROVE Follow
  BY <1>1, <1>2, <1>3 DEF GoTo, Next1
<1>4. ASSUME NEW r, Refuse(r) PROVE Follow
  BY <1>1, <1>2, <1>4 DEF Refuse, End
<1>5. ASSUME NEW home, Proxied(home) PROVE Follow
  BY <1>3, <1>4, <1>5 DEF Proxied
<1>6. Lost /\ UNCHANGED rpc => Follow
  BY <1>1, <1>2 DEF Lost, End
<1>7. /\ Follow
      /\ \/ UNCHANGED made
         \/ Answer("base", TRUE, TRUE)
         \/ NoAnswer("base", TRUE) /\ corr' \in {corr, "empty"}
  <2> HIDE DEF Follow
  <2>1. ctx.rpc \in {"none", "base", "node"}
    BY <1>1, RunFields
  <2>2. Lost => NoAnswer("base", TRUE)
    BY DEF Lost
  <2> QED
    BY <1>3, <1>4, <1>5, <1>6, <2>1, <2>2 DEF Route, made
<1>8. Asks
  BY <1>7, Answers DEF Asks
<1>9. plan' \in Seq(Step)
  BY <1>1, <1>7, Rest, RunFields
<1> QED
  BY <1>1, <1>7, <1>8, <1>9, RunStep

(* ... and JSON-RPC, which is repeated only when throttled. *)
LEMMA JsonRpcStep == ASSUME CommandInv, JsonRpc PROVE CommandInv'
<1>1. phase = "run" /\ plan # <<>> /\ UNCHANGED ctx
  BY DEF JsonRpc, At
<1>2. /\ rpc.to \in {"base", "node"} /\ rpc.taken = 0 /\ tries \in Nat /\ plan \in Seq(Step)
      /\ rpc \in Calls
  BY <1>1, RunFields DEF Calls
<1>3. PICK answer \in {"good", "error", "throttled", "failing", "lost"}, taken \in BOOLEAN :
        LET had == rpc.taken + (IF taken THEN 1 ELSE 0) IN
        /\ answer = "throttled" => ~taken
        /\ IF answer = "lost" THEN NoAnswer(rpc.to, Keyed(rpc.to)) /\ UNCHANGED corr
           ELSE Answer(rpc.to, Keyed(rpc.to), FALSE)
        /\ IF Retried(answer) /\ tries < MaxRpcRetries
           THEN /\ tries' = tries + 1 /\ rpc' = [rpc EXCEPT !.taken = had]
                /\ UNCHANGED <<plan, phase, result>>
           ELSE /\ tries' = 0
                /\ rpc' = [rpc EXCEPT !.taken = IF answer = "good" THEN 0 ELSE had]
                /\ IF answer = "good" THEN Next1 ELSE End("server") /\ UNCHANGED plan
  BY DEF JsonRpc
<1>4. Asks
  <2>1. Keyed(rpc.to) \in BOOLEAN /\ (Keyed(rpc.to) => rpc.to = "base")
    BY DEF Keyed
  <2>2. \/ \E seen \in BOOLEAN : Answer(rpc.to, Keyed(rpc.to), seen)
        \/ NoAnswer(rpc.to, Keyed(rpc.to)) /\ corr' \in {corr, "empty"}
    BY <1>3
  <2> QED
    BY <1>2, <2>1, <2>2, Answers
<1>5. \A k \in {0, 1} : [rpc EXCEPT !.taken = k] \in Calls /\ [rpc EXCEPT !.taken = k].taken = k
  BY <1>2 DEF Calls
<1>6. CASE Retried(answer) /\ tries < MaxRpcRetries
  <2>1. rpc' = [rpc EXCEPT !.taken = 0] /\ tries' \in Nat /\ UNCHANGED <<plan, phase>>
    BY <1>2, <1>3, <1>6 DEF Retried
  <2> QED
    BY <1>1, <1>2, <1>4, <1>5, <2>1, RunStep
<1>7. CASE ~(Retried(answer) /\ tries < MaxRpcRetries)
  <2>1. \E k \in {0, 1} : rpc' = [rpc EXCEPT !.taken = k] /\ (answer = "good" => k = 0)
    BY <1>2, <1>3, <1>7
  <2>2. /\ phase' \in {"run", "done"} /\ plan' \in {plan, Tail(plan)} /\ tries' \in Nat
        /\ answer # "good" => phase' = "done"
    BY <1>1, <1>3, <1>7 DEF Next1, End
  <2>3. plan' \in Seq(Step)
    BY <1>1, <1>2, <2>2, Rest
  <2> QED
    BY <1>1, <1>4, <1>5, <2>1, <2>2, <2>3, RunStep
<1> QED
  BY <1>6, <1>7

(***************************************************************************)
(* Before the function runs, and after it.                                 *)
(***************************************************************************)
LEMMA BeforeStep == ASSUME CommandInv, Load \/ FromParts PROVE CommandInv'
<1>1. /\ phase \in {"load", "parts"} /\ phase' \in {"parts", "run", "done"}
      /\ UNCHANGED <<plan, rpc, tries, made>>
      /\ phase' = "run" => EndpointGuard(ctx)'
      /\ ctx'.key \in BOOLEAN /\ ctx'.rpc \in {"none", "base", "node"}
  <2>1. ctx.key \in BOOLEAN /\ ctx.rpc \in {"none", "base", "node"}
    BY DEF CommandInv, TypeOK
  <2>2. CASE Load
    BY <2>1, <2>2 DEF Load, End
  <2>3. CASE FromParts
    BY <2>1, <2>3 DEF FromParts, End, EndpointGuard
  <2> QED
    BY <2>2, <2>3
<1>2. sent = {} /\ rpc.taken = 0
  BY <1>1 DEF CommandInv, Untouched
<1>3. TypeOK' /\ KeyStaysHome' /\ TakenOnce' /\ Untouched' /\ Guarded'
  BY <1>1, <1>2 DEF CommandInv, TypeOK, KeyStaysHome, TakenOnce, Untouched, Guarded, made
<1> QED
  BY <1>1, <1>3 DEF CommandInv

LEMMA AfterStep == ASSUME CommandInv, Trace \/ Emit \/ Stream PROVE CommandInv'
<1>1. /\ phase' \in {"traced", "over"} /\ UNCHANGED <<plan, ctx, rpc, tries, sent, lost>>
      /\ corr' \in {corr, "empty"}
  BY DEF Trace, Emit, Stream, made
<1> QED
  BY <1>1 DEF CommandInv, TypeOK, KeyStaysHome, TakenOnce, Untouched, Guarded

LEMMA CommandStep == CommandInv /\ [Next]_vars => CommandInv'
<1> SUFFICES ASSUME CommandInv, [Next]_vars PROVE CommandInv'
  OBVIOUS
<1>1. CASE Next
  BY <1>1, QuietStep, GeneratedSteps, NotedSteps, UploadSteps, OtherSteps, NetworkSteps,
     RouteStep, JsonRpcStep, BeforeStep, AfterStep DEF Next, Timed
<1>2. CASE UNCHANGED vars
  BY <1>2 DEF vars, CommandInv, TypeOK, Untouched, Guarded, KeyStaysHome, TakenOnce,
     EndpointGuard
<1> QED
  BY <1>1, <1>2

LEMMA CommandInvariant == Spec => []CommandInv
BY CommandInit, CommandStep, PTL DEF Spec

(* Type correctness.                                                       *)
THEOREM CommandTypeCorrect == Spec => []TypeOK
<1>1. CommandInv => TypeOK
  BY DEF CommandInv
<1> QED
  BY <1>1, CommandInvariant, PTL

(* The API key leaves the program only for the origin of an allowed base:  *)
(* whatever the plan, the answers and the retries.                         *)
THEOREM KeySafety == Spec => []KeyStaysHome
<1>1. CommandInv => KeyStaysHome
  BY DEF CommandInv
<1> QED
  BY <1>1, CommandInvariant, PTL

(* The node takes a repeated call once at most, for any MaxRpcRetries.     *)
THEOREM RetrySafety == Spec => []TakenOnce
<1>1. CommandInv => TakenOnce
  BY DEF CommandInv
<1> QED
  BY <1>1, CommandInvariant, PTL

(***************************************************************************)
(* The retry loops.                                                        *)
(***************************************************************************)
(* Powers of two, as far as a u32 holds them; what holds of all of them     *)
(* would need induction.                                                   *)
LEMMA PowersDouble == \A k \in 0 .. 31 : 2^k \in Nat \ {0} /\ 2^(k + 1) = 2 * 2^k
<1> TAKE k \in 0 .. 31
<1>1. \/ k = 0 \/ k = 1 \/ k = 2 \/ k = 3 \/ k = 4 \/ k = 5 \/ k = 6 \/ k = 7 \/ k = 8 \/ k = 9 \/ k = 10
      \/ k = 11 \/ k = 12 \/ k = 13 \/ k = 14 \/ k = 15 \/ k = 16 \/ k = 17 \/ k = 18 \/ k = 19 \/ k = 20
      \/ k = 21 \/ k = 22 \/ k = 23 \/ k = 24 \/ k = 25 \/ k = 26 \/ k = 27 \/ k = 28 \/ k = 29 \/ k = 30 \/ k = 31
  OBVIOUS
<1>2. CASE k = 0 BY <1>2
<1>3. CASE k = 1 BY <1>3
<1>4. CASE k = 2 BY <1>4
<1>5. CASE k = 3 BY <1>5
<1>6. CASE k = 4 BY <1>6
<1>7. CASE k = 5 BY <1>7
<1>8. CASE k = 6 BY <1>8
<1>9. CASE k = 7 BY <1>9
<1>10. CASE k = 8 BY <1>10
<1>11. CASE k = 9 BY <1>11
<1>12. CASE k = 10 BY <1>12
<1>13. CASE k = 11 BY <1>13
<1>14. CASE k = 12 BY <1>14
<1>15. CASE k = 13 BY <1>15
<1>16. CASE k = 14 BY <1>16
<1>17. CASE k = 15 BY <1>17
<1>18. CASE k = 16 BY <1>18
<1>19. CASE k = 17 BY <1>19
<1>20. CASE k = 18 BY <1>20
<1>21. CASE k = 19 BY <1>21
<1>22. CASE k = 20 BY <1>22
<1>23. CASE k = 21 BY <1>23
<1>24. CASE k = 22 BY <1>24
<1>25. CASE k = 23 BY <1>25
<1>26. CASE k = 24 BY <1>26
<1>27. CASE k = 25 BY <1>27
<1>28. CASE k = 26 BY <1>28
<1>29. CASE k = 27 BY <1>29
<1>30. CASE k = 28 BY <1>30
<1>31. CASE k = 29 BY <1>31
<1>32. CASE k = 30 BY <1>32
<1>33. CASE k = 31 BY <1>33
<1> QED
  BY <1>1, <1>2, <1>3, <1>4, <1>5, <1>6, <1>7, <1>8, <1>9, <1>10, <1>11, <1>12,
     <1>13, <1>14, <1>15, <1>16, <1>17, <1>18, <1>19, <1>20, <1>21, <1>22,
     <1>23, <1>24, <1>25, <1>26, <1>27, <1>28, <1>29, <1>30, <1>31, <1>32, <1>33

(* What fits is not wrapped, and a larger factor is a larger product.       *)
LEMMA Unwrapped ==
  ASSUME NEW x \in Nat, x < Word
  PROVE  x % Word = x
BY LoopAssumption

LEMMA ProductGrows ==
  ASSUME NEW b \in Nat \ {0}, NEW x \in Nat \ {0}, NEW y \in Nat, x <= y
  PROVE  b * x \in Nat \ {0} /\ b * x <= b * y /\ b * y \in Nat
<1>1. b * x \in Nat /\ b * y \in Nat /\ b * x <= b * y
  OBVIOUS
<1>2. b * x # 0
  OBVIOUS
<1> QED
  BY <1>1, <1>2

(* What the loops are run with, but for the powers. *)
LEMMA Parameters ==
  /\ Word \in Nat \ {0} /\ MaxDuration \in Nat \ {0}
  /\ \A b \in Bases \cup Caps : b \in Nat \ {0}
BY LoopAssumption

(* The delay a loop chooses at its attempt n. *)
Own(n) == DelayAt(n, None)

(* The power fits the word, and is one of those a u32 holds. *)
Held(n) == loop = "client" => n \in 1 .. 32 /\ 2^(n - 1) < Word

LEMMA PowersGrow ==
  ASSUME NEW i \in 0 .. 31, NEW j \in 0 .. 31, j = i \/ j = i + 1
  PROVE  2^i \in Nat \ {0} /\ 2^j \in Nat \ {0} /\ 2^i <= 2^j
<1>1. 2^i \in Nat \ {0} /\ 2^j \in Nat \ {0} /\ 2^(i + 1) = 2 * 2^i
  BY PowersDouble
<1>2. CASE j = i
  BY <1>1, <1>2
<1>3. CASE j = i + 1
  <2>1. 2^j = 2 * 2^i
    BY <1>1, <1>3
  <2> QED
    BY <1>1, <2>1
<1> QED
  BY <1>2, <1>3

(* A delay a loop chooses itself is positive, within the loop's cap (the    *)
(* client's by a panic), and at most the next.                             *)
LEMMA ClientGrows ==
  ASSUME LoopTypeOK, loop = "client", NEW n \in Nat \ {0}, Held(n)
  PROVE  Own(n) \in Nat \ {0} /\ (Held(n + 1) => Own(n) <= Own(n + 1))
<1>1. n + 1 - 1 = n /\ n \in 1 .. 32 /\ 2^(n - 1) < Word /\ policy.base \in Nat \ {0}
  <2>1. n \in 1 .. 32 /\ 2^(n - 1) < Word
    BY Zenon DEF Held
  <2>2. policy.base \in Nat \ {0}
    BY Parameters DEF LoopTypeOK, Policy
  <2>3. n + 1 - 1 = n
    OBVIOUS
  <2> QED
    BY <2>1, <2>2, <2>3, Zenon
<1>2. \A k \in Nat : Own(k) = policy.base * (2^(k - 1) % Word)
  BY DEF Own, DelayAt, ClientDelay
<1>3. 2^(n - 1) \in Nat \ {0} /\ 2^(n - 1) % Word = 2^(n - 1)
  <2>1. n - 1 \in 0 .. 31
    BY <1>1
  <2>2. 2^(n - 1) \in Nat \ {0}
    BY <2>1, PowersGrow
  <2> QED
    BY <1>1, <2>2, Unwrapped
<1>4. Own(n) = policy.base * 2^(n - 1) /\ Own(n) \in Nat \ {0}
  BY <1>1, <1>2, <1>3, ProductGrows
<1>5. ASSUME Held(n + 1) PROVE Own(n) <= Own(n + 1)
  <2>1. n + 1 \in 1 .. 32 /\ 2^(n + 1 - 1) < Word
    BY <1>5 DEF Held
  <2>2. n \in 1 .. 31 /\ 2^n < Word
    BY <1>1, <2>1
  <2>3. 2^n \in Nat \ {0} /\ 2^(n - 1) <= 2^n
    <3>1. n - 1 \in 0 .. 31 /\ n \in 0 .. 31 /\ n = n - 1 + 1
      BY <2>2
    <3> QED
      BY <3>1, PowersGrow
  <2>4. 2^n % Word = 2^n
    BY <2>2, <2>3, Unwrapped
  <2>5. Own(n + 1) = policy.base * (2^(n + 1 - 1) % Word)
    BY <1>2
  <2>6. Own(n + 1) = policy.base * 2^n
    BY <1>1, <2>4, <2>5
  <2> QED
    BY <1>1, <1>3, <1>4, <2>3, <2>6, ProductGrows
<1> QED
  BY <1>4, <1>5

LEMMA AgentGrows ==
  ASSUME LoopTypeOK, loop = "agent", NEW n \in Nat \ {0}
  PROVE  Own(n) \in 1 .. Cap /\ Own(n) <= Own(n + 1)
<1> DEFINE i == Lesser(n - 1, MaxShift)
           j == Lesser(n, MaxShift)
<1>1. /\ i \in 0 .. 20 /\ j \in 0 .. 20 /\ i \in 0 .. MaxShift /\ j \in 0 .. MaxShift
      /\ j = i \/ j = i + 1
  BY LoopAssumption DEF Lesser
<1>2. Lesser(n + 1 - 1, MaxShift) = j
  BY DEF Lesser
<1>3. policy.base \in Nat \ {0} /\ policy.cap \in Nat \ {0} /\ Cap = policy.cap
  BY LoopAssumption DEF LoopTypeOK, Policy, Cap
<1>4. /\ Own(n) = Lesser(Lesser(policy.base * (2^i % Word), MaxDuration), policy.cap)
      /\ Own(n + 1) = Lesser(Lesser(policy.base * (2^j % Word), MaxDuration), policy.cap)
  BY <1>2 DEF Own, DelayAt, AgentDelay
<1> HIDE DEF i, j
<1>5. 2^i \in Nat \ {0} /\ 2^j \in Nat \ {0} /\ 2^i <= 2^j
  <2>1. i \in 0 .. 31 /\ j \in 0 .. 31
    BY <1>1
  <2> QED
    BY <1>1, <2>1, PowersGrow
<1>6. 2^i % Word = 2^i /\ 2^j % Word = 2^j
  BY <1>1, <1>5, Unwrapped, LoopAssumption
<1>7. /\ policy.base * 2^i \in Nat \ {0} /\ policy.base * 2^j \in Nat
      /\ policy.base * 2^i <= policy.base * 2^j
  BY <1>3, <1>5, ProductGrows
<1>8. MaxDuration \in Nat \ {0}
  BY LoopAssumption
<1> QED
  BY <1>3, <1>4, <1>6, <1>7, <1>8 DEF Lesser

LEMMA RpcGrows ==
  ASSUME loop = "rpc", NEW n \in Nat \ {0}
  PROVE  Own(n) \in 1 .. Cap /\ Own(n) <= Own(n + 1)
<1> DEFINE i == Lesser(n - 1, RpcShift)
           j == Lesser(n, RpcShift)
<1>1. i \in 0 .. 20 /\ j \in 0 .. 20 /\ (j = i \/ j = i + 1)
  BY LoopAssumption DEF Lesser
<1>2. Lesser(n + 1 - 1, RpcShift) = j
  BY DEF Lesser
<1>3. Own(n) = Lesser(RpcBase * 2^i, RpcCap) /\ Own(n + 1) = Lesser(RpcBase * 2^j, RpcCap)
  BY <1>2 DEF Own, DelayAt, RpcDelay, RpcBackoff
<1> HIDE DEF i, j
<1>4. 2^i \in Nat \ {0} /\ 2^j \in Nat \ {0} /\ 2^i <= 2^j
  <2>1. i \in 0 .. 31 /\ j \in 0 .. 31
    BY <1>1
  <2> QED
    BY <1>1, <2>1, PowersGrow
<1>5. /\ RpcBase * 2^i \in Nat \ {0} /\ RpcBase * 2^j \in Nat
      /\ RpcBase * 2^i <= RpcBase * 2^j
  BY <1>4, ProductGrows, LoopAssumption
<1> QED
  BY <1>3, <1>5, LoopAssumption DEF Lesser, Cap

LEMMA Grows ==
  ASSUME LoopTypeOK, NEW n \in Nat \ {0}, Held(n)
  PROVE  /\ Own(n) \in Nat \ {0} /\ (loop # "client" => Own(n) <= Cap)
         /\ Held(n + 1) => Own(n) <= Own(n + 1) /\ Own(n + 1) \in Nat \ {0}
<1>1. ASSUME NEW k \in Nat \ {0}, Held(k)
      PROVE  /\ Own(k) \in Nat \ {0} /\ (loop # "client" => Own(k) <= Cap)
             /\ Held(k + 1) => Own(k) <= Own(k + 1)
  <2>1. CASE loop = "client"
    BY <1>1, <2>1, ClientGrows
  <2>2. CASE loop = "agent"
    <3>1. Own(k) \in 1 .. Cap /\ Own(k) <= Own(k + 1)
      BY <1>1, <2>2, AgentGrows
    <3>2. Cap \in Nat
      BY <2>2, LoopAssumption DEF Cap, LoopTypeOK, Policy
    <3> QED
      BY <3>1, <3>2
  <2>3. CASE loop = "rpc"
    <3>1. Own(k) \in 1 .. Cap /\ Own(k) <= Own(k + 1) /\ Cap \in Nat
      BY <2>3, RpcGrows, LoopAssumption DEF Cap
    <3> QED
      BY <3>1
  <2> QED
    BY <2>1, <2>2, <2>3 DEF LoopTypeOK
<1> QED
  BY <1>1

(* The sleeps so far are those of the attempts so far, and the delays of    *)
(* the loop's own choice grow as far as the power of two holds.            *)
LoopInv ==
  /\ LoopTypeOK
  /\ Len(slept) = attempt - 1
  /\ attempt > 1 => attempt <= Limit
  /\ \A j \in 1 .. Len(slept) :
       /\ slept[j].delay = DelayAt(j, slept[j].wish)
       /\ loop = "client" /\ slept[j].wish = None => slept[j].delay <= MaxDuration
  /\ Fits => \A j \in 1 .. Len(slept) : \A i \in 1 .. j : Own(i) <= Own(j)

LEMMA DelaysAreNumbers ==
  ASSUME LoopTypeOK, NEW n \in Nat \ {0}, loop = "client" => n \in 1 .. 32,
         NEW wish \in RetryAfters \cup {None}
  PROVE  DelayAt(n, wish) \in Nat
<1>1. CASE wish # None
  <2>1. wish \in Nat /\ MaxRetryAfter \in Nat
    BY <1>1, LoopAssumption
  <2>2. DelayAt(n, wish) \in {wish, Lesser(wish, MaxRetryAfter)}
    BY <1>1 DEF DelayAt, ClientDelay, AgentDelay, RpcDelay, LoopTypeOK
  <2> QED
    BY <2>1, <2>2 DEF Lesser
<1>2. CASE wish = None /\ loop # "client"
  <2>1. Held(n)
    BY <1>2 DEF Held
  <2> QED
    BY <1>2, <2>1, Grows DEF Own
<1>3. CASE wish = None /\ loop = "client"
  <2>1. n - 1 \in 0 .. 31 /\ policy.base \in Nat /\ Word \in Nat \ {0}
    BY <1>3, Parameters DEF LoopTypeOK, Policy
  <2>2. 2^(n - 1) \in Nat
    BY <2>1, PowersGrow
  <2>3. 2^(n - 1) % Word \in Nat
    BY <2>1, <2>2
  <2>4. policy.base * (2^(n - 1) % Word) \in Nat
    BY <2>1, <2>3
  <2> QED
    BY <1>3, <2>4 DEF DelayAt, ClientDelay
<1> QED
  BY <1>1, <1>2, <1>3

LEMMA LoopStarts == LoopInit => LoopInv
<1> SUFFICES ASSUME LoopInit PROVE LoopInv
  OBVIOUS
<1>1. slept = <<>> /\ slept \in Seq(Sleep) /\ Len(slept) = 0
  BY DEF LoopInit
<1>2. LoopTypeOK
  BY <1>1 DEF LoopInit, LoopTypeOK
<1> QED
  BY <1>1, <1>2 DEF LoopInv, LoopInit

LEMMA RepeatStep ==
  ASSUME Attempts \subseteq 0 .. 33, LoopInv, NEW wish \in RetryAfters \cup {None}, Repeat(wish)
  PROVE  LoopInv'
<1> DEFINE new == [wish |-> wish, delay |-> DelayAt(attempt, wish)]
<1>1. /\ LoopTypeOK /\ slept \in Seq(Sleep) /\ Len(slept) = attempt - 1 /\ attempt \in Nat \ {0}
      /\ policy \in Policy /\ loop \in {"client", "agent", "rpc"}
  BY DEF LoopInv, LoopTypeOK
<1>2. /\ attempt < Limit /\ ~Overflows(wish) /\ slept' = Append(slept, new)
      /\ attempt' = attempt + 1 /\ UNCHANGED <<loop, policy, outcome>>
  BY DEF Repeat, Running
<1>3. Limit \in Nat /\ Limit' = Limit /\ (loop = "client" => attempt \in 1 .. 32)
  <2>1. policy.max \in Nat /\ policy.max <= 33
    <3>1. policy.max \in Attempts
      BY <1>1 DEF Policy
    <3>2. policy.max \in 0 .. 33
      BY <3>1
    <3> QED
      BY <3>2
  <2>2. MaxRetries \in Nat
    BY LoopAssumption
  <2>3. Limit \in Nat /\ Limit' = Limit /\ (loop = "client" => Limit <= 33)
    BY <1>2, <2>1, <2>2 DEF Limit
  <2> QED
    BY <1>1, <1>2, <2>3
<1>4. new \in Sleep
  <2>1. DelayAt(attempt, wish) \in Nat
    BY <1>1, <1>3, DelaysAreNumbers
  <2>2. wish \in Nat \cup {None}
    BY LoopAssumption
  <2> QED
    BY <2>1, <2>2 DEF Sleep
<1> HIDE DEF new
<1>5. /\ slept' \in Seq(Sleep) /\ Len(slept') = attempt /\ slept'[attempt] = new
      /\ \A j \in 1 .. attempt - 1 : slept'[j] = slept[j]
  BY <1>1, <1>2, <1>4
<1>6. LoopTypeOK'
  BY <1>1, <1>2, <1>5 DEF LoopTypeOK
<1>7. /\ \A n, w : DelayAt(n, w)' = DelayAt(n, w)
      /\ \A n : Own(n)' = Own(n)
  BY <1>2 DEF Own, DelayAt
<1>8. (attempt > 1 => attempt <= Limit)' /\ Len(slept') = attempt' - 1
  BY <1>1, <1>2, <1>3, <1>5
<1>9. \A j \in 1 .. Len(slept') :
        /\ slept'[j].delay = DelayAt(j, slept'[j].wish)
        /\ loop = "client" /\ slept'[j].wish = None => slept'[j].delay <= MaxDuration
  <2> SUFFICES ASSUME NEW j \in 1 .. attempt
               PROVE  /\ slept'[j].delay = DelayAt(j, slept'[j].wish)
                      /\ loop = "client" /\ slept'[j].wish = None
                           => slept'[j].delay <= MaxDuration
    BY <1>5
  <2>1. CASE j = attempt
    <3>1. new.wish = wish /\ new.delay = DelayAt(attempt, wish) /\ new.delay \in Nat
      BY <1>4 DEF new, Sleep
    <3>2. MaxDuration \in Nat
      BY LoopAssumption
    <3> QED
      BY <1>2, <1>5, <2>1, <3>1, <3>2 DEF Overflows
  <2>2. CASE j # attempt
    <3>1. j \in 1 .. Len(slept) /\ slept'[j] = slept[j]
      BY <1>1, <1>5, <2>2
    <3> QED
      BY <3>1 DEF LoopInv
  <2> QED
    BY <2>1, <2>2
<1>10. ASSUME Fits' PROVE \A j \in 1 .. attempt : \A i \in 1 .. j : Own(i) <= Own(j)
  <2>1. loop = "client" => \A i \in 1 .. attempt : 2^(i - 1) < Word
    <3>1. loop' = loop /\ DOMAIN slept' = 1 .. attempt
      BY <1>1, <1>2, <1>5
    <3>2. loop' = "client" => \A i \in DOMAIN slept' : 2^(i - 1) < Word
      BY <1>10, Zenon DEF Fits
    <3> QED
      BY <3>1, <3>2, Zenon
  <2>2. \A i \in 1 .. attempt : Held(i)
    <3>1. loop = "client" => \A i \in 1 .. attempt : i \in 1 .. 32
      BY <1>1, <1>3
    <3> QED
      BY <2>1, <3>1 DEF Held
  <2>3. Fits
    BY <1>1, <2>1 DEF Fits
  <2>4. \A j \in 1 .. attempt - 1 : \A i \in 1 .. j : Own(i) <= Own(j)
    BY <1>1, <2>3 DEF LoopInv
  <2>5. Own(attempt) \in Nat \ {0}
    BY <1>1, <2>2, Grows
  <2>6. ASSUME NEW i \in 1 .. attempt - 1 PROVE Own(i) <= Own(attempt)
    <3>1. attempt - 1 \in Nat \ {0} /\ attempt - 1 \in 1 .. attempt /\ i \in 1 .. attempt
      BY <1>1
    <3>2. Held(attempt - 1) /\ Held(attempt - 1 + 1) /\ Held(i)
      BY <1>1, <2>2, <3>1
    <3>3. Own(attempt - 1) <= Own(attempt - 1 + 1) /\ Own(attempt - 1) \in Nat
      BY <1>1, <3>1, <3>2, Grows
    <3>4. Own(i) <= Own(attempt - 1) /\ Own(i) \in Nat
      BY <1>1, <2>4, <3>1, <3>2, Grows
    <3>5. attempt - 1 + 1 = attempt
      BY <1>1
    <3> QED
      BY <2>5, <3>3, <3>4, <3>5
  <2> TAKE j \in 1 .. attempt
  <2> TAKE i \in 1 .. j
  <2>7. CASE j = attempt
    <3>1. CASE i = attempt
      BY <2>5, <2>7, <3>1
    <3>2. CASE i # attempt
      <4>1. i \in 1 .. attempt - 1
        BY <1>1, <2>7, <3>2
      <4> QED
        BY <2>6, <2>7, <4>1
    <3> QED
      BY <3>1, <3>2
  <2>8. CASE j # attempt
    <3>1. j \in 1 .. attempt - 1
      BY <1>1, <2>8
    <3> QED
      BY <2>4, <3>1
  <2> QED
    BY <2>7, <2>8
<1> QED
  BY <1>2, <1>5, <1>6, <1>7, <1>8, <1>9, <1>10 DEF LoopInv

LEMMA LoopStep ==
  ASSUME Attempts \subseteq 0 .. 33, LoopInv, [LoopNext]_loopVars
  PROVE  LoopInv'
<1>1. ASSUME UNCHANGED <<loop, policy, attempt, slept>>,
             outcome' \in {"running", "ok", "error", "panic"}
      PROVE  LoopInv'
  BY <1>1 DEF LoopInv, LoopTypeOK, Limit, Fits, Own, DelayAt
<1>2. CASE Succeed \/ Fail
  BY <1>1, <1>2 DEF Succeed, Fail, Running
<1>3. ASSUME NEW wish \in RetryAfters \cup {None}, Panic(wish) PROVE LoopInv'
  BY <1>1, <1>3 DEF Panic, Running
<1>4. ASSUME NEW wish \in RetryAfters \cup {None}, Repeat(wish) PROVE LoopInv'
  BY <1>4, RepeatStep
<1>5. CASE UNCHANGED loopVars
  BY <1>1, <1>5 DEF loopVars, LoopInv, LoopTypeOK
<1> QED
  BY <1>2, <1>3, <1>4, <1>5 DEF LoopNext

LEMMA InvIsGrowth ==
  ASSUME Attempts \subseteq 0 .. 33, LoopInv PROVE DelaysGrow
<1>1. /\ LoopTypeOK /\ slept \in Seq(Sleep) /\ Len(slept) = attempt - 1 /\ attempt \in Nat \ {0}
      /\ loop \in {"client", "agent", "rpc"} /\ policy \in Policy
      /\ attempt > 1 => attempt <= Limit
      /\ DOMAIN slept = 1 .. Len(slept)
  BY DEF LoopInv, LoopTypeOK
<1> SUFFICES ASSUME Fits, NEW j \in 1 .. Len(slept)
             PROVE  IF slept[j].wish = None
                    THEN /\ slept[j].delay \in 1 .. Cap
                         /\ \A i \in 1 .. j - 1 :
                              slept[i].wish = None => slept[i].delay <= slept[j].delay
                    ELSE slept[j].delay = IF loop = "rpc"
                                          THEN Lesser(slept[j].wish, MaxRetryAfter)
                                          ELSE slept[j].wish
  BY <1>1 DEF DelaysGrow
<1>2. \A i \in 1 .. Len(slept) : slept[i].delay = DelayAt(i, slept[i].wish)
  BY DEF LoopInv
<1>3. CASE slept[j].wish = None
  <2>1. loop = "client" => j \in 1 .. 32 /\ 2^(j - 1) < Word
    <3>1. policy.max \in 0 .. 33
      <4>1. policy.max \in Attempts
        BY <1>1 DEF Policy
      <4> QED
        BY <4>1
    <3>2. ASSUME loop = "client" PROVE j \in 1 .. 32
      <4>1. attempt > 1 /\ j <= attempt - 1 /\ j \in Nat \ {0}
        BY <1>1
      <4>2. attempt <= Limit /\ Limit = policy.max
        BY <1>1, <3>2, <4>1 DEF Limit
      <4>3. attempt <= 33
        <5>1. \A m \in 0 .. 33 : attempt <= m => attempt <= 33
          BY <4>1, <1>1
        <5> QED
          BY <3>1, <4>2, <5>1
      <4>4. attempt \in Nat
        BY <1>1
      <4> QED
        BY <4>1, <4>3, <4>4
    <3> QED
      BY <1>1, <3>2 DEF Fits
  <2>2. Held(j) /\ j \in Nat \ {0}
    BY <2>1 DEF Held
  <2>3. slept[j].delay = Own(j) /\ Own(j) \in Nat \ {0}
    BY <1>1, <1>2, <1>3, <2>2, Grows DEF Own
  <2>4. Own(j) <= Cap /\ Cap \in Nat
    <3>1. CASE loop = "client"
      BY <1>3, <2>3, <3>1, LoopAssumption DEF LoopInv, Cap
    <3>2. CASE loop # "client"
      <4>1. Cap \in Nat
        BY <1>1, <3>2, LoopAssumption DEF Cap, Policy
      <4> QED
        BY <1>1, <2>2, <3>2, <4>1, Grows
    <3> QED
      BY <3>1, <3>2
  <2>5. ASSUME NEW i \in 1 .. j - 1, slept[i].wish = None
        PROVE  slept[i].delay <= slept[j].delay
    <3>1. i \in 1 .. Len(slept) /\ i \in 1 .. j
      BY <1>1
    <3>2. slept[i].delay = Own(i)
      BY <1>2, <2>5, <3>1 DEF Own
    <3> QED
      BY <2>3, <3>1, <3>2 DEF LoopInv
  <2> QED
    BY <1>3, <2>3, <2>4, <2>5
<1>4. CASE slept[j].wish # None
  BY <1>1, <1>2, <1>4 DEF DelayAt, ClientDelay, AgentDelay, RpcDelay
<1> QED
  BY <1>3, <1>4

(* The delays of a whole run of any of the three loops, whatever the policy *)
(* and the waits the server asks for; 33 attempts are those whose powers a *)
(* u32 can hold.                                                           *)
THEOREM DelaySafety ==
  ASSUME Attempts \subseteq 0 .. 33
  PROVE  LoopSpec => []DelaysGrow
<1>1. LoopInit => LoopInv
  BY LoopStarts
<1>2. LoopInv /\ [LoopNext]_loopVars => LoopInv'
  BY LoopStep
<1>3. LoopInv => DelaysGrow
  BY InvIsGrowth
<1> QED
  BY <1>1, <1>2, <1>3, PTL DEF LoopSpec
=============================================================================
