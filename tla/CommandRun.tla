----------------------------- MODULE CommandRun -----------------------------
(***************************************************************************)
(* One invocation of the program, from the command line to the exit code:  *)
(* the config, the context, the calls of a command with their retries and  *)
(* their errors, the correlation id, the trace line and the envelope.      *)
(*                                                                         *)
(* A command is a plan, the sequence of what its function does:            *)
(*   check    arguments, answers, budget gate, keystore, a file: an error, *)
(*   known    what was asked for is done already: the end, or on           *)
(*   dry      the dry-run fork       dryrpc   after a look at --rpc-url    *)
(*   key      Ctx::client, wants an API key                                *)
(*   api      a generated call       raw      a hand-written one           *)
(*   maybe    a call made or not     wet      the same, not in a dry run   *)
(*   soft     a wet one whose failure is only noted                        *)
(*   refused  a call made or not, whose refusal is not the end             *)
(*   try      a call whose refusal is followed by a look                   *)
(*   mint     init without a key     greet    GET /users/me                *)
(*   file     an artifact or none    upload   its ticket                   *)
(*   put      the presigned PUT      complete the call after it            *)
(*   probe    ping's call            schema   the schema's                 *)
(*   guard    enforce_server_network_invariant                             *)
(*   network  GET /config/network    advised  the same, only for advice    *)
(*   route    where JSON-RPC goes    rpc      a JSON-RPC call              *)
(*   faucet   init's request to the faucet    stream   events stream       *)
(* Where the code makes any number of the same call (JSON-RPC reads,       *)
(* uploads, polls) a plan has two.  What the calls mean is the matter of   *)
(* the other modules.  A flag, an environment variable, a setting is read  *)
(* where the code first uses it.                                           *)
(***************************************************************************)
EXTENDS Integers, Sequences

CONSTANTS MaxRpcRetries, \* MAX_RPC_RETRIES
          MaxCompletes   \* repetitions of complete before the ticket expires

ASSUME CommandAssumption == MaxRpcRetries \in Nat /\ MaxCompletes \in Nat

VARIABLES phase,   \* "load", "parts", "run", "done", "traced" or "over"
          plan,    \* what is left of the plan
          ctx,     \* the context
          net,     \* the client's cache of GET /config/network
          rpc,     \* where JSON-RPC goes, broadcasts the node took
          tries,   \* repetitions of the call the plan is at
          corr,    \* LAST_CORR: "empty", or the "id" of an answer
          sent,    \* where requests went to, with the key or without
          lost,    \* was there no answer to the last request?
          result,  \* the command's outcome
          report   \* the correlation id and the exit code reported

vars == <<phase, plan, ctx, net, rpc, tries, corr, sent, lost, result, report>>
made == <<corr, sent, lost>>  \* what a request changes
-----------------------------------------------------------------------------
(* The plans: reads, with the checks of their arguments before the key, after
   it, or not at all; ... *)
TaskList == <<"check", "key", "api">>
TaskGet == <<"check", "key", "api">>
TaskBids == <<"check", "key", "api">>
ArtifactList == <<"check", "key", "api">>
ArtifactGet == <<"check", "key", "api">>
MessageList == <<"check", "key", "api">>
Conversations == <<"check", "key", "api">>
PaymentGet == <<"check", "key", "api">>
BackerList == <<"check", "key", "api">>
AgentGet == <<"check", "key", "api">>
Dispute == <<"check", "key", "api">>
ReviewList == <<"key", "check", "api">>
BidList == <<"key", "api">>
PaymentList == <<"key", "api">>
AgentList == <<"key", "api">>
Discover == <<"key", "api">>
PlatformConfig == <<"key", "api">>
WalletBalance == <<"key", "api">>
WebhookGet == <<"key", "api">>
SubscriptionList == <<"key", "api">>
Me == <<"check", "key", "raw", "check", "api">>
EventsPoll == <<"key", "raw">>
Ping == <<"probe">>
Schema == <<"schema", "check">>
EventsAck == <<"check">>
EventsStream == <<"stream">>

Reads == {TaskList, TaskGet, TaskBids, ArtifactList, ArtifactGet, MessageList, Conversations,
          PaymentGet, BackerList, AgentGet, Dispute, ReviewList, BidList, PaymentList,
          AgentList, Discover, PlatformConfig, WalletBalance, WebhookGet, SubscriptionList,
          Me, EventsPoll, Ping, Schema, EventsAck, EventsStream}

(* ... one call that changes something, after the dry-run fork; ... *)
BidWrite == <<"check", "dry", "key", "api">>
TaskWrite == <<"check", "dry", "key", "api">>
ArtifactWrite == <<"check", "dry", "key", "api">>
MessageSend == <<"check", "dry", "key", "api">>
ReviewCreate == <<"check", "dry", "key", "api">>
StakePost == <<"check", "dry", "key", "api">>
UpdateMe == <<"check", "dry", "key", "api">>
BackerWrite == <<"check", "dry", "key", "api">>
WebhookTest == <<"dry", "key", "api">>
WebhookDelete == <<"dry", "key", "api">>
Subscribe == <<"key", "check", "dry", "api">>
TaskClaim == <<"check", "dry", "key", "try">>

Writes == {BidWrite, TaskWrite, ArtifactWrite, MessageSend, ReviewCreate, StakePost, UpdateMe,
           BackerWrite, WebhookTest, WebhookDelete, Subscribe, TaskClaim}

(* ... and the others. *)
ConfigShow == <<"check">>
ConfigWrite == <<"check", "known", "dry", "check">>
Skills == <<"dry", "known", "check">>
WebhookRegister == <<"check", "dry", "key", "api", "check", "maybe">>
Artifact == <<"check", "dry", "key", "upload">>
Submit == <<"check", "dry", "key", "file", "file", "api">>
Settle == <<"check", "key", "api", "known", "maybe", "check", "dry", "try">>
CastCall == <<"check", "route", "rpc", "check">>
CastSend == <<"check", "dryrpc", "route", "rpc", "rpc">>
CastRpc == <<"check", "dryrpc", "route", "rpc">>
PostTask == <<"check", "dryrpc", "key", "route", "api", "check", "rpc", "rpc", "api">>
BondPost == <<"check", "key", "api", "known", "check", "network", "route", "check", "dry",
              "rpc", "rpc", "api", "soft", "soft">>
EscrowSign == <<"check", "key", "api", "check", "route", "dry", "rpc", "rpc",
                "refused", "maybe", "api">>
InitRun == <<"check", "mint", "api", "check", "guard", "api", "check", "wet", "check",
             "faucet", "soft", "soft", "api", "soft", "advised">>

Plans == Reads \cup Writes \cup
         {ConfigShow, ConfigWrite, Skills, WebhookRegister, Artifact, Submit, Settle, CastCall,
          CastSend, CastRpc, PostTask, BondPost, EscrowSign, InitRun}
-----------------------------------------------------------------------------
(* Errors: CmdError's code and exit code, and what a response is mapped to *)
ExitCode(r) ==
    CASE r = "ok" -> 0
      [] r = "dropped" -> 1
      [] r \in {"missing_api_key", "usage"} -> 2
      [] r = "auth" -> 3
      [] r = "rate_limited" -> 4
      [] r \in {"keystore", "signing"} -> 5
      [] r \in {"server", "network", "decode"} -> 6
      [] r = "validation" -> 7
      [] r = "unimplemented" -> 70

Classify == [unauthorized |-> "auth", invalid |-> "validation", throttled |-> "rate_limited",
             failing |-> "server", redirect |-> "server"]
(* a body that breaks off, is too large, or is not what it should be *)
ReadBody == {"network", "server", "decode"}
CallErrors == {Classify[s] : s \in DOMAIN Classify} \cup ReadBody

Network == [cached : BOOLEAN, exact : BOOLEAN, home : BOOLEAN]
Unread == [cached |-> FALSE, exact |-> FALSE, home |-> FALSE]

Step == {"check", "known", "dry", "dryrpc", "key", "api", "raw", "maybe", "wet", "soft",
         "refused", "try", "look", "mint", "greet", "file", "upload", "put", "complete",
         "probe", "anon", "schema", "guard", "network", "advised", "route", "rpc", "faucet",
         "stream"}
Request == [to : {"base", "node", "storage"}, key : BOOLEAN]
Rpc == [to : {"base", "node"}, taken : Nat]

TypeOK ==
    /\ phase \in {"load", "parts", "run", "done", "traced", "over"}
    /\ plan \in Seq(Step) /\ sent \subseteq Request /\ lost \in BOOLEAN
    /\ corr \in {"empty", "id"} /\ rpc \in Rpc /\ tries \in Nat
    /\ ctx.key \in BOOLEAN /\ ctx.rpc \in {"none", "base", "node"}

Init ==
    /\ phase = "load"
    /\ plan \in Plans
    /\ ctx = [env |-> "prod", base |-> "known", custom |-> FALSE, key |-> FALSE,
              dry |-> FALSE, rpc |-> "none"]
    /\ net = Unread /\ rpc = [to |-> "base", taken |-> 0] /\ tries = 0
    /\ corr = "empty" /\ sent = {} /\ lost = FALSE /\ result = "none"
    /\ report = [corr |-> "empty", exit |-> 0]
-----------------------------------------------------------------------------
End(r) == phase' = "done" /\ result' = r
Next1 == plan' = Tail(plan) /\ UNCHANGED <<phase, result>>

(* Config::load and Ctx::from_parts: an unreadable config, a malformed duration
   or a base that is not well known end the run before any call *)
Load ==
    /\ phase = "load"
    /\ \/ phase' = "parts" /\ UNCHANGED result
       \/ End("usage")
    /\ UNCHANGED <<plan, ctx, net, rpc, tries, made, report>>

(* slip: the guard does not look at api_base *)
SlipEndpointGuard(c) == TRUE

(* enforce_endpoint_guard *)
EndpointGuard(c) == c.custom \/ c.env = "local" \/ c.base /= "foreign"

FromParts ==
    /\ phase = "parts"
    /\ \/ End("usage") /\ UNCHANGED ctx
       \/ \E env \in {"local", "prod"}, base \in {"known", "foreign"},
             custom, key, dry \in BOOLEAN, url \in {"none", "base", "node"} :
            LET c == [env |-> env, base |-> base, custom |-> custom, key |-> key,
                      dry |-> dry, rpc |-> url] IN
            /\ ctx' = c
            /\ IF EndpointGuard(c) THEN phase' = "run" /\ UNCHANGED result ELSE End("usage")
    /\ UNCHANGED <<plan, net, rpc, tries, made, report>>

At(step) == phase = "run" /\ plan /= <<>> /\ Head(plan) = step

(* Arguments, enforce_budget_gate, the keystore and its address, files: checks of
   what is known by then; which of them fails is nobody's choice but the caller's. *)
CheckErrors == {"usage", "validation", "decode", "server", "keystore", "signing", "auth",
                "missing_api_key", "unimplemented"}
Check ==
    /\ At("check")
    /\ Next1 \/ (\E r \in CheckErrors : End(r) /\ UNCHANGED plan)
    /\ UNCHANGED <<ctx, net, rpc, tries, made, report>>

Known ==
    /\ At("known")
    /\ Next1 \/ (End("ok") /\ UNCHANGED plan)
    /\ UNCHANGED <<ctx, net, rpc, tries, made, report>>

(* validate_override_rpc_url, also when nothing is sent *)
OverrideAllowed == ctx.rpc = "none" \/ ctx.custom

DryRun ==
    /\ At("dry")
    /\ \/ ~ctx.dry /\ Next1
       \/ ctx.dry /\ UNCHANGED plan /\ End("ok")
    /\ UNCHANGED <<ctx, net, rpc, tries, made, report>>
DryRunRpc ==
    /\ At("dryrpc")
    /\ \/ ~ctx.dry /\ Next1
       \/ ctx.dry /\ UNCHANGED plan /\ End(IF OverrideAllowed THEN "ok" ELSE "usage")
    /\ UNCHANGED <<ctx, net, rpc, tries, made, report>>

(* Ctx::client; "auth" is a key no header can carry.  Ping and schema do
   without one, and a backer's key may be the owner's. *)
Client ==
    /\ At("key")
    /\ \/ ctx.key /\ (Next1 \/ (End("auth") /\ UNCHANGED plan))
       \/ ~ctx.key /\ End("missing_api_key") /\ UNCHANGED plan
    /\ UNCHANGED <<ctx, net, rpc, tries, made, report>>

(* init: with a key on; without one the owner's is asked for, greeted if it was
   typed in, and used to make an agent, whose key is the one from there on *)
Mint ==
    /\ At("mint")
    /\ \/ ctx.key /\ (Next1 \/ (End("auth") /\ UNCHANGED plan))
       \/ /\ ~ctx.key /\ UNCHANGED <<phase, result>>
          /\ plan' = <<"check", "greet", "dry", "api", "check">> \o Tail(plan)
    /\ UNCHANGED <<ctx, net, rpc, tries, made, report>>
-----------------------------------------------------------------------------
(* Every request of the API client carries the key, and none is redirected.  An
   answer may have an id, which is recorded where the code looks at it (seen). *)
Answer(to, key, seen) ==
    /\ sent' = sent \cup {[to |-> to, key |-> key]} /\ lost' = FALSE
    /\ \E id \in BOOLEAN : corr' = IF id /\ seen THEN "id" ELSE corr
NoAnswer(to, key) == sent' = sent \cup {[to |-> to, key |-> key]} /\ lost' = TRUE

(* a call that is answered: the id is recorded if the answer has one, whatever
   the status; then is what success leads to *)
Answered(then) ==
    /\ Answer("base", TRUE, TRUE)
    /\ \/ then
       \/ \E r \in CallErrors : End(r) /\ UNCHANGED <<plan, net>>

(* a call nobody answers *)
Lost == NoAnswer("base", TRUE) /\ End("network") /\ UNCHANGED <<plan, net>>

On == Next1 /\ UNCHANGED net

(* a generated call: the post-hook clears the slot if there is no answer *)
Generated == Answered(On) \/ (Lost /\ corr' = "empty")

Api == At("api") /\ Generated /\ UNCHANGED <<ctx, rpc, tries, report>>

(* a call the command may do without: settle's readiness, register's and
   escrow sign's second calls; register_wallet not in a dry run *)
Maybe ==
    /\ At("maybe") \/ At("wet")
    /\ \/ On /\ UNCHANGED made
       \/ (At("maybe") \/ ~ctx.dry) /\ Generated
    /\ UNCHANGED <<ctx, rpc, tries, report>>

(* calls whose failure is only noted: init's webhook and balance, bond's poll *)
Soft ==
    /\ At("soft")
    /\ \/ UNCHANGED made
       \/ ~ctx.dry /\ Answer("base", TRUE, TRUE)
       \/ ~ctx.dry /\ NoAnswer("base", TRUE) /\ corr' = "empty"
    /\ On /\ UNCHANGED <<ctx, rpc, tries, report>>

(* escrow sign: a finalize refused for its deadline is followed by another *)
Refused ==
    /\ At("refused") /\ On
    /\ UNCHANGED made \/ Answer("base", TRUE, TRUE)
    /\ UNCHANGED <<ctx, rpc, tries, report>>

(* a hand-written call: send()? returns before the slot is looked at *)
Raw ==
    /\ At("raw")
    /\ Answered(On) \/ (Lost /\ UNCHANGED corr)
    /\ UNCHANGED <<ctx, rpc, tries, report>>

(* get_user_profile: the id of a 404 is not recorded; a failure is no obstacle *)
Greet ==
    /\ At("greet") /\ On
    /\ \/ UNCHANGED made
       \/ \E seen \in BOOLEAN : Answer("base", TRUE, seen)
       \/ NoAnswer("base", TRUE) /\ UNCHANGED corr
    /\ UNCHANGED <<ctx, rpc, tries, report>>

(* claim and settle: after a conflict one look at the task, which may turn the
   refusal into a success; if it does not, the refusal stands *)
Try ==
    /\ At("try")
    /\ \/ Answered((Next1 \/ (plan' = <<"look">> /\ UNCHANGED <<phase, result>>))
                   /\ UNCHANGED net)
       \/ Lost /\ corr' = "empty"
    /\ UNCHANGED <<ctx, rpc, tries, report>>
Look ==
    /\ At("look")
    /\ \/ Answer("base", TRUE, TRUE) /\ (End("ok") \/ End("validation"))
       \/ NoAnswer("base", TRUE) /\ corr' = "empty" /\ End("validation")
    /\ UNCHANGED <<plan, ctx, net, rpc, tries, report>>

(* ping: with the key a generated call, without it any answer will do *)
Probe ==
    /\ At("probe") /\ plan' = IF ctx.key THEN <<"key", "api">> ELSE <<"anon">>
    /\ UNCHANGED <<phase, ctx, net, rpc, tries, made, result, report>>
Anonymous ==
    /\ At("anon")
    /\ \/ Answer("base", FALSE, FALSE) /\ Next1
       \/ NoAnswer("base", FALSE) /\ UNCHANGED <<corr, plan>> /\ End("network")
    /\ UNCHANGED <<ctx, net, rpc, tries, report>>

(* asyncapi.json, with the API client if there is a key and with a fresh one, for
   which no timeout is set, if there is none; its id is never looked at *)
FetchSchema ==
    /\ At("schema")
    /\ \/ /\ Answer("base", ctx.key, FALSE)
          /\ Next1 \/ (\E r \in ReadBody : End(r) /\ UNCHANGED plan)
       \/ NoAnswer("base", ctx.key) /\ UNCHANGED <<corr, plan>> /\ End("network")
    /\ UNCHANGED <<ctx, net, rpc, tries, report>>
-----------------------------------------------------------------------------
(* upload_file, for each --artifact *)
File ==
    /\ At("file")
    /\ plan' \in {Tail(plan), <<"upload">> \o Tail(plan)}
    /\ UNCHANGED <<phase, ctx, net, rpc, tries, made, result, report>>

(* initiate_artifact_upload: a ticket, whose URL is checked, or nothing, which in
   the Local environment leads to the multipart call; a 404 is not recorded *)
Initiate ==
    /\ At("upload")
    /\ \/ Answered(/\ plan' = <<"check", "put", "complete">> \o Tail(plan)
                   /\ UNCHANGED <<phase, result, net>>)
       \/ /\ \E seen \in BOOLEAN : Answer("base", TRUE, seen)
          /\ \/ ctx.env = "local" /\ plan' = <<"raw">> \o Tail(plan) /\ UNCHANGED <<phase, result>>
             \/ ctx.env /= "local" /\ End("server") /\ UNCHANGED plan
          /\ UNCHANGED net
       \/ Lost /\ UNCHANGED corr
    /\ UNCHANGED <<ctx, rpc, tries, report>>

(* put_presigned_upload: a client of its own, without the key and without a
   total timeout; only the body of a refusal is read where ids are recorded *)
Put ==
    /\ At("put")
    /\ \/ Answer("storage", FALSE, FALSE) /\ Next1
       \/ Answer("storage", FALSE, TRUE) /\ End("server") /\ UNCHANGED plan
       \/ NoAnswer("storage", FALSE) /\ End("network") /\ UNCHANGED <<corr, plan>>
    /\ UNCHANGED <<ctx, net, rpc, tries, report>>

(* slip: the expiry of the ticket is not looked at *)
SlipRepeated == UNCHANGED tries

Repeated == tries < MaxCompletes /\ tries' = tries + 1

(* complete_artifact_upload: repeated after a 503 or a broken connection, until
   the ticket expires *)
Complete ==
    /\ At("complete") /\ UNCHANGED <<ctx, net, rpc, report>>
    /\ \/ /\ Answer("base", TRUE, TRUE) /\ tries' = 0
          /\ Next1 \/ (\E r \in CallErrors : End(r) /\ UNCHANGED plan)
       \/ /\ Answer("base", TRUE, TRUE) \/ (NoAnswer("base", TRUE) /\ UNCHANGED corr)
          /\ UNCHANGED plan
          /\ \/ Repeated /\ UNCHANGED <<phase, result>>
             \/ tries' = 0 /\ \E r \in {"server", "network"} : End(r)
-----------------------------------------------------------------------------
(* fetch_network_config: cached once it has succeeded; then may read net' *)
FetchNetwork(then) ==
    \/ net.cached /\ UNCHANGED <<net, made>> /\ then
    \/ /\ ~net.cached
       /\ \/ Answered(net' \in {n \in Network : n.cached} /\ then)
          \/ Lost /\ UNCHANGED corr

FetchConfig ==
    /\ At("network")
    /\ FetchNetwork(Next1 \/ (End("server") /\ UNCHANGED plan))
    /\ UNCHANGED <<ctx, rpc, tries, report>>

(* init's advice on funding: what cannot be fetched is left out of it *)
Advised ==
    /\ At("advised") /\ Next1
    /\ \/ UNCHANGED <<net, made>>
       \/ /\ ~ctx.dry /\ ~net.cached
          /\ \/ Answer("base", TRUE, TRUE) /\ net' \in {n \in Network : n.cached} \cup {net}
             \/ NoAnswer("base", TRUE) /\ UNCHANGED <<corr, net>>
    /\ UNCHANGED <<ctx, rpc, tries, report>>

(* enforce_server_network_invariant, which init leaves out of a dry run *)
Guard ==
    /\ At("guard")
    /\ \/ /\ ctx.custom \/ ctx.env = "local" \/ ctx.dry
          /\ On /\ UNCHANGED made
       \/ /\ ~ctx.custom /\ ctx.env /= "local" /\ ~ctx.dry
          /\ \E strict \in BOOLEAN :
               FetchNetwork(IF net'.exact \/ ~strict THEN Next1
                            ELSE End("server") /\ UNCHANGED plan)
    /\ UNCHANGED <<ctx, rpc, tries, report>>

GoTo(to) == rpc' = [rpc EXCEPT !.to = to] /\ Next1
Refuse(r) == End(r) /\ UNCHANGED <<plan, rpc>>

(* is_proxy_rpc_url: the server's rpc_url must be of the base's origin *)
Proxied(home) == IF home THEN GoTo("base") ELSE Refuse("server")

(* resolve_rpc and its likes: an override wants --allow-custom-endpoints and,
   on mainnet, https; without one the deployment says where its proxy is *)
Route ==
    /\ At("route")
    /\ \/ /\ ctx.rpc /= "none" /\ UNCHANGED <<net, made>>
          /\ \/ Refuse("usage")
             \/ /\ OverrideAllowed
                /\ IF ctx.rpc = "base" /\ ~ctx.key THEN Refuse("missing_api_key")
                   ELSE GoTo(ctx.rpc)
       \/ /\ ctx.rpc = "none" /\ ~ctx.key
          /\ Refuse("missing_api_key") /\ UNCHANGED <<net, made>>
       \/ /\ ctx.rpc = "none" /\ ctx.key
          /\ \/ net.cached /\ UNCHANGED <<net, made>> /\ (Proxied(net.home) \/ Refuse("server"))
             \/ /\ ~net.cached /\ Answer("base", TRUE, TRUE)
                /\ \/ /\ net' \in {n \in Network : n.cached}
                      /\ \/ Proxied(net'.home)
                         \/ Refuse("server")  \* it does not have the network
                   \/ \E r \in CallErrors : Refuse(r) /\ UNCHANGED net
             \/ ~net.cached /\ Lost /\ UNCHANGED <<corr, rpc>>
    /\ UNCHANGED <<ctx, tries, report>>

(* slip: the key goes along wherever the URL points *)
SlipKeyed(to) == TRUE

(* rpc_http_client: the client with the key for the base, a fresh one, without
   a timeout, elsewhere *)
Keyed(to) == to = "base"

(* slip: a broken connection is worth a retry too *)
SlipRetried(answer) == answer \in {"throttled", "lost"}

Retried(answer) == answer = "throttled"

(* TempoRpcClient::call: 429 is repeated after RpcDelay, everything else is the
   caller's.  The node takes a broadcast it answers, perhaps one whose answer is
   lost, and none it throttles.  Nobody looks at ids here, the base's neither. *)
JsonRpc ==
    /\ At("rpc")
    /\ \E answer \in {"good", "error", "throttled", "failing", "lost"},
          taken \in BOOLEAN :
         LET had == rpc.taken + (IF taken THEN 1 ELSE 0) IN
         /\ answer = "good" => taken
         /\ answer = "throttled" => ~taken
         /\ IF answer = "lost" THEN NoAnswer(rpc.to, Keyed(rpc.to)) /\ UNCHANGED corr
            ELSE Answer(rpc.to, Keyed(rpc.to), FALSE)
         /\ IF Retried(answer) /\ tries < MaxRpcRetries
            THEN /\ tries' = tries + 1 /\ rpc' = [rpc EXCEPT !.taken = had]
                 /\ UNCHANGED <<plan, phase, result>>
            ELSE /\ tries' = 0
                 /\ rpc' = [rpc EXCEPT !.taken = IF answer = "good" THEN 0 ELSE had]
                 /\ IF answer = "good" THEN Next1 ELSE End("server") /\ UNCHANGED plan
    /\ UNCHANGED <<ctx, net, report>>

(* maybe_request_faucet: a fresh client again, and a failure is only noted *)
Faucet ==
    /\ At("faucet") /\ On
    /\ \/ UNCHANGED made
       \/ ~ctx.dry /\ (Answer("node", FALSE, FALSE) \/ (NoAnswer("node", FALSE) /\ UNCHANGED corr))
    /\ UNCHANGED <<ctx, rpc, tries, report>>
-----------------------------------------------------------------------------
Finish ==
    /\ phase = "run" /\ plan = <<>> /\ End("ok")
    /\ UNCHANGED <<plan, ctx, net, rpc, tries, made, report>>

(* take_corr, once, for trace and envelope; trace::emit writes its line to a file
   all runs append to, or, failing that, nothing, and the run goes on *)
Trace ==
    /\ phase = "done" /\ phase' = "traced"
    /\ report' = [corr |-> corr, exit |-> ExitCode(result)] /\ corr' = "empty"
    /\ UNCHANGED <<plan, ctx, net, rpc, tries, sent, lost, result>>

(* the envelope, and the end; a closed stdout makes println! panic *)
Emit ==
    /\ phase = "traced" /\ phase' = "over"
    /\ report' \in {report, [report EXCEPT !.exit = 101]}
    /\ UNCHANGED <<plan, ctx, net, rpc, tries, made, result>>

(* events stream runs until it is stopped, has its own output and its own exit
   code: a socket that is not to be reconnected is "dropped", auth_failed exits
   as "usage" does *)
Stream ==
    /\ At("stream") /\ phase' = "over"
    /\ \E r \in {"ok", "missing_api_key", "usage", "dropped"} :
         result' = r /\ report' = [report EXCEPT !.exit = ExitCode(r)]
    /\ UNCHANGED <<plan, ctx, net, rpc, tries, made>>

Timed == \/ Load \/ FromParts \/ Check \/ Known \/ DryRun \/ DryRunRpc \/ Client \/ Mint
         \/ Api \/ Maybe \/ Soft \/ Refused \/ Raw \/ Greet \/ Try \/ Look \/ Probe \/ Anonymous
         \/ File \/ Initiate \/ Complete \/ FetchConfig \/ Advised \/ Guard \/ Route
         \/ Finish \/ Trace \/ Emit

Next == Timed \/ FetchSchema \/ JsonRpc \/ Faucet \/ Put \/ Stream

(* The API client and ping's have timeouts, and so do a connect and a lookup.  A
   fresh client, for a node elsewhere, the faucet, storage or a schema without a
   key, waits for an answer for ever, and events stream for a signal. *)
Spec == /\ Init /\ [][Next]_vars /\ WF_vars(Timed)
        /\ WF_vars(ctx.key /\ FetchSchema) /\ WF_vars(rpc.to = "base" /\ JsonRpc)
-----------------------------------------------------------------------------
(* The API key leaves the program only for the origin of the base URL, and for
   a base that is not well known only in the Local environment or by the user's
   leave: whatever the server says of its proxy, wherever storage or the node
   is, however often a call is repeated. *)
KeyStaysHome ==
    \A r \in sent : r.key => /\ r.to = "base"
                             /\ ctx.base /= "foreign" \/ ctx.custom \/ ctx.env = "local"

(* A JSON-RPC call that has been repeated was taken by the node once at most: a
   429 is repeated, a broadcast the node may have is not. *)
TakenOnce == rpc.taken <= 1 /\ (rpc.taken = 1 => phase /= "run")

(* A run ends, or waits for ever where the code sets no timeout: for a node that
   is not behind the base, the faucet, storage, a schema without a key, or, as a
   stream, for a signal. *)
Waits == \/ At("rpc") /\ rpc.to = "node"
         \/ At("schema") /\ ~ctx.key
         \/ At("put") \/ At("faucet") \/ At("stream")
RunEnds == <>(phase = "over") \/ <>[]Waits

=============================================================================
