----------------------------- MODULE EventFeed -----------------------------
(***************************************************************************)
(* The ways an agent hears of events besides the socket of EventStream:    *)
(* `events poll`, one page per invocation with a cursor file               *)
(* (cmd/events/poll.rs), the library's stream_events, which polls for as   *)
(* long as its consumer asks (agent/events.rs), and webhooks, whose secret *)
(* `webhook register` and `init --webhook-url` keep in a file              *)
(* (cmd/webhook.rs, cmd/init.rs).  They share no state, so a behaviour is  *)
(* of one way.                                                             *)
(*                                                                         *)
(* Events are 1 .. tip, in the server's order, and a cursor is the last    *)
(* event before it, 0 if there is none.  At the tip the server sends a     *)
(* null cursor (spec/openapi.yaml:6418-6421) or the last event's           *)
(* (agent/tests/events.rs:148-167); both are allowed.                      *)
(***************************************************************************)
EXTENDS Integers, Sequences, SequencesExt, FiniteSets

CONSTANTS Slots,      \* processes that may run at once
          MaxEvents,  \* bound: events
          PageSize,   \* --limit, page_limit
          MaxHooks,   \* bound: webhooks created
          MaxFaults   \* bound: failures, deaths and polls with --cursor

ASSUME FeedAssumption ==
    /\ {MaxEvents, MaxHooks, MaxFaults} \subseteq Nat
    /\ PageSize \in Nat \ {0}

VARIABLES way,     \* "poll", "sdk" or "webhook"
          tip,     \* the last event
          bad,     \* the events the generated types cannot decode
          heard,   \* the events the agent has been given
          faults,  \* faults left
          polls,   \* the invocations of events poll
          file,    \* events.cursor; 0 if missing or empty
          lost,    \* events of a page that was persisted and never printed
          raced,   \* TRUE once two processes have overlapped
          sdk,     \* the state of stream_events
          hook,    \* the server's webhook: its secret, 0 if none; secrets made
          regs,    \* the commands that register a webhook
          temp,    \* the temporary file: "none", "empty" or a secret's number
          disk,    \* the secret file: likewise
          unkept   \* secrets the command had no file for, or failed to keep

pollVars == <<polls, file, lost>>
hookVars == <<hook, regs, temp, disk, unkept>>
vars == <<way, tip, bad, heard, faults, pollVars, raced, sdk, hookVars>>

Missing == -1
Empty == 0

NoPoll == [pc |-> "idle", from |-> 0, upto |-> 0, next |-> 0, keep |-> FALSE]
NoReg == [pc |-> "idle", secret |-> 0]

TypeOK ==
    /\ way \in {"poll", "sdk", "webhook"} /\ tip \in Nat /\ faults \in Nat
    /\ file \in Nat /\ raced \in BOOLEAN
    /\ polls \in [Slots -> [pc : {"idle", "ask", "raw", "persist", "write", "written", "print"},
                            from : Nat, upto : Nat, next : Nat, keep : BOOLEAN]]
    /\ sdk \in [cursor : 0 .. tip, buffer : Seq(Nat)]
    /\ hook \in [secret : Nat, made : Nat]
    /\ regs \in [Slots -> [pc : {"idle", "open", "fill", "rename", "subscribe"}, secret : Nat]]
    /\ {temp, disk} \subseteq Nat \cup {Missing}

Init ==
    /\ way \in {"poll", "sdk", "webhook"}
    /\ tip = 0 /\ bad = {} /\ faults = MaxFaults
    /\ heard = {} /\ file = 0 /\ lost = {} /\ raced = FALSE
    /\ polls = [p \in Slots |-> NoPoll]
    /\ sdk = [cursor |-> 0, buffer |-> <<>>]
    /\ hook = [secret |-> 0, made |-> 0]
    /\ regs = [p \in Slots |-> NoReg]
    /\ temp = Missing /\ disk = Missing /\ unkept = {}

Fault == faults > 0 /\ faults' = faults - 1

(* the server *)
Happen ==
    /\ way /= "webhook" /\ tip < MaxEvents /\ tip' = tip + 1
    /\ bad' \in {bad, bad \cup {tip + 1}}
    /\ UNCHANGED <<way, heard, faults, pollVars, raced, sdk, hookVars>>

PageEnd(c) == IF c + PageSize < tip THEN c + PageSize ELSE tip
NextCursors(c) == IF PageEnd(c) < tip THEN {PageEnd(c)} ELSE {0, PageEnd(c)}
-----------------------------------------------------------------------------
(* events poll *)
Poll(p, pc) == way = "poll" /\ polls[p].pc = pc

(* what the invocation holds: the cursor it asks from, then the page it was sent *)
Ask(p, c, keep) ==
    polls' = [polls EXCEPT ![p] = [pc |-> "ask", from |-> c, upto |-> 0, next |-> 0,
                                   keep |-> keep]]
TakePage(p) ==
    \E n \in NextCursors(polls[p].from) :
        polls' = [polls EXCEPT ![p] = [pc |-> "persist", from |-> polls[p].from,
                        upto |-> PageEnd(polls[p].from), next |-> n, keep |-> polls[p].keep]]

(* CursorState::resolve and effective_cursor.  Without --cursor the file is read;
   with "-", or with TASKFAST_NO_CURSOR_STATE=1, there is no file.  A cursor the
   user gives is one that was printed. *)
Resolve(p) ==
    /\ Poll(p, "idle")
    /\ \/ Ask(p, file, TRUE) /\ UNCHANGED faults
       \/ /\ Fault
          /\ \E c \in {c \in 0 .. tip : 1 .. c \subseteq heard \cup lost}, keep \in BOOLEAN :
               Ask(p, c, keep)
    /\ raced' = (raced \/ \E q \in Slots \ {p} : polls[q].pc /= "idle")
    /\ UNCHANGED <<way, tip, bad, heard, file, lost, sdk, hookVars>>

(* slip: no second, tolerant fetch *)
SlipFetch(p) ==
    /\ Poll(p, "ask")
    /\ IF bad \cap (polls[p].from + 1 .. PageEnd(polls[p].from)) = {}
       THEN TakePage(p)
       ELSE polls' = [polls EXCEPT ![p] = NoPoll]
    /\ UNCHANGED <<way, tip, bad, heard, faults, file, lost, raced, sdk, hookVars>>

(* list_events_page_tolerant: one strict call, and if that cannot be decoded a
   second that keeps what it cannot decode as unparseable *)
Fetch(p) ==
    /\ Poll(p, "ask")
    /\ IF bad \cap (polls[p].from + 1 .. PageEnd(polls[p].from)) = {}
       THEN TakePage(p)
       ELSE polls' = [polls EXCEPT ![p].pc = "raw"]
    /\ UNCHANGED <<way, tip, bad, heard, faults, file, lost, raced, sdk, hookVars>>

DecodeRaw(p) ==
    /\ Poll(p, "raw")
    /\ TakePage(p)
    /\ UNCHANGED <<way, tip, bad, heard, faults, file, lost, raced, sdk, hookVars>>

(* slip: has_more is false, so the next poll starts at the tip *)
SlipPersist(p) ==
    /\ Poll(p, "persist")
    /\ IF polls[p].keep
       THEN file' = 0 /\ polls' = [polls EXCEPT ![p].pc = "write",
                                     ![p].next = IF @ = 0 THEN tip ELSE @]
       ELSE UNCHANGED file /\ polls' = [polls EXCEPT ![p].pc = "print"]
    /\ UNCHANGED <<way, tip, bad, heard, faults, lost, raced, sdk, hookVars>>

(* persist_cursor: a null cursor leaves the file alone; fs::write empties the
   file, then writes *)
Persist(p) ==
    /\ Poll(p, "persist")
    /\ IF polls[p].keep /\ polls[p].next > 0
       THEN file' = 0 /\ polls' = [polls EXCEPT ![p].pc = "write"]
       ELSE UNCHANGED file /\ polls' = [polls EXCEPT ![p].pc = "print"]
    /\ UNCHANGED <<way, tip, bad, heard, faults, lost, raced, sdk, hookVars>>
WriteCursor(p) ==
    /\ Poll(p, "write")
    /\ file' = polls[p].next /\ polls' = [polls EXCEPT ![p].pc = "written"]
    /\ UNCHANGED <<way, tip, bad, heard, faults, lost, raced, sdk, hookVars>>

(* only a warning: the file could not be opened, or not be written *)
PersistFails(p) ==
    /\ Poll(p, "persist") \/ Poll(p, "write")
    /\ Fault /\ polls' = [polls EXCEPT ![p].pc = "print"]
    /\ UNCHANGED <<way, tip, bad, heard, file, lost, raced, sdk, hookVars>>

Page(p) == polls[p].from + 1 .. polls[p].upto

Show(p) ==
    /\ Poll(p, "print") \/ Poll(p, "written")
    /\ heard' = heard \cup Page(p)
    /\ polls' = [polls EXCEPT ![p] = NoPoll]
    /\ UNCHANGED <<way, tip, bad, faults, file, lost, raced, sdk, hookVars>>

(* a request fails, stdout is closed, the process is killed *)
Die(p) ==
    /\ way = "poll" /\ polls[p].pc /= "idle" /\ Fault
    /\ lost' = IF polls[p].pc = "written" THEN lost \cup Page(p) ELSE lost
    /\ polls' = [polls EXCEPT ![p] = NoPoll]
    /\ UNCHANGED <<way, tip, bad, heard, file, raced, sdk, hookVars>>
-----------------------------------------------------------------------------
(* stream_events.  The sleep before the next fetch is only time. *)
FetchPage ==
    /\ way = "sdk" /\ sdk.buffer = <<>>
    /\ bad \cap (sdk.cursor + 1 .. PageEnd(sdk.cursor)) = {}
    /\ \E next \in NextCursors(sdk.cursor) :
         sdk' = [cursor |-> IF next > 0 THEN next ELSE sdk.cursor,
                 buffer |-> [i \in 1 .. PageEnd(sdk.cursor) - sdk.cursor |-> sdk.cursor + i]]
    /\ UNCHANGED <<way, tip, bad, heard, faults, pollVars, raced, hookVars>>

Yield ==
    /\ way = "sdk" /\ sdk.buffer /= <<>>
    /\ heard' = heard \cup {Head(sdk.buffer)}
    /\ sdk' = [sdk EXCEPT !.buffer = Tail(@)]
    /\ UNCHANGED <<way, tip, bad, faults, pollVars, raced, hookVars>>

(* the consumer drops the stream and starts another where it has come to *)
Restream ==
    /\ way = "sdk" /\ Fault
    /\ \E c \in {c \in 0 .. tip : 1 .. c \subseteq heard} :
         sdk' = [cursor |-> c, buffer |-> <<>>]
    /\ UNCHANGED <<way, tip, bad, heard, pollVars, raced, hookVars>>
-----------------------------------------------------------------------------
(* webhook register, and init's step, which differ in what a failure ends *)
Reg(p, pc) == way = "webhook" /\ regs[p].pc = pc

(* the server's answer to the PUT has a secret only if it creates the webhook *)
Fresh == hook.secret = 0

(* slip: the file is written whatever the answer *)
SlipKeep(answered, given) == answered /\ given

(* persist_secret is for a secret and a --secret-file *)
Keep(answered, given) == answered /\ given /\ Fresh

(* configure_webhook; the answer may be lost, and so is the secret in it *)
Register(p) ==
    /\ Reg(p, "idle") /\ (Fresh => hook.made < MaxHooks)
    /\ \E answered, given \in BOOLEAN :
         /\ IF answered THEN UNCHANGED faults ELSE Fault
         /\ hook' = IF Fresh THEN [secret |-> hook.made + 1, made |-> hook.made + 1] ELSE hook
         /\ regs' = [regs EXCEPT ![p] =
              IF Keep(answered, given)
              THEN [pc |-> "open", secret |-> IF Fresh THEN hook.made + 1 ELSE 0]
              ELSE IF answered THEN [NoReg EXCEPT !.pc = "subscribe"] ELSE NoReg]
         /\ unkept' = IF Fresh /\ ~Keep(answered, given) THEN unkept \cup {hook.made + 1}
                      ELSE unkept
    /\ raced' = (raced \/ \E q \in Slots \ {p} : regs[q].pc /= "idle")
    /\ UNCHANGED <<way, tip, bad, heard, pollVars, sdk, temp, disk>>

(* persist_secret; once another command has renamed the temporary file, the
   descriptor may be the secret file's *)
OpenTemp(p) ==
    /\ Reg(p, "open") /\ temp' = Empty /\ regs' = [regs EXCEPT ![p].pc = "fill"]
    /\ UNCHANGED <<way, tip, bad, heard, faults, pollVars, raced, sdk, hook, disk, unkept>>
FillTemp(p) ==
    /\ Reg(p, "fill") /\ regs' = [regs EXCEPT ![p].pc = "rename"]
    /\ \/ temp /= Missing /\ temp' = regs[p].secret /\ UNCHANGED disk
       \/ raced /\ disk /= Missing /\ disk' = regs[p].secret /\ UNCHANGED temp
    /\ UNCHANGED <<way, tip, bad, heard, faults, pollVars, raced, sdk, hook, unkept>>
Rename(p) ==
    /\ Reg(p, "rename") /\ temp /= Missing
    /\ disk' = temp /\ temp' = Missing
    /\ regs' = [regs EXCEPT ![p] = [NoReg EXCEPT !.pc = "subscribe"]]
    /\ UNCHANGED <<way, tip, bad, heard, faults, pollVars, raced, sdk, hook, unkept>>

(* update_subscriptions, if there are --event, succeeds or fails *)
Subscribe(p) ==
    /\ Reg(p, "subscribe") /\ regs' = [regs EXCEPT ![p] = NoReg]
    /\ UNCHANGED <<way, tip, bad, heard, faults, pollVars, raced, sdk, hook, temp, disk, unkept>>

(* a file operation fails, the process is killed *)
Abort(p) ==
    /\ way = "webhook" /\ regs[p].pc \in {"open", "fill", "rename"}
    /\ IF temp = Missing /\ regs[p].pc = "rename" THEN UNCHANGED faults ELSE Fault
    /\ unkept' = unkept \cup {regs[p].secret}
    /\ regs' = [regs EXCEPT ![p] = NoReg]
    /\ UNCHANGED <<way, tip, bad, heard, pollVars, raced, sdk, hook, temp, disk>>

(* webhook delete; the secret file stays *)
Delete ==
    /\ way = "webhook" /\ hook.secret > 0 /\ hook' = [hook EXCEPT !.secret = 0]
    /\ UNCHANGED <<way, tip, bad, heard, faults, pollVars, raced, sdk, regs, temp, disk, unkept>>
-----------------------------------------------------------------------------
(* the agent's loop: polls without --cursor, and what an invocation does *)
Poller(p) == Resolve(p) \/ Fetch(p) \/ DecodeRaw(p) \/ Persist(p) \/ WriteCursor(p) \/ Show(p)
Hook(p) == Register(p) \/ OpenTemp(p) \/ FillTemp(p) \/ Rename(p) \/ Subscribe(p)

Next ==
    \/ Happen \/ FetchPage \/ Yield \/ Restream \/ Delete
    \/ \E p \in Slots : Poller(p) \/ PersistFails(p) \/ Die(p) \/ Hook(p) \/ Abort(p)

(* an agent polls again and again, a consumer asks for the next event *)
Spec == Init /\ [][Next]_vars /\ WF_vars(\E p \in Slots : Poller(p)) /\ WF_vars(FetchPage \/ Yield)
-----------------------------------------------------------------------------
(* Nothing before the cursor is missing: every event the cursor file has passed
   was printed, is about to be, or was on the page of an invocation that died
   between the write of the cursor and the print; every event stream_events has
   passed was yielded or is in its buffer.  However invocations overlap, fail to
   write, or leave the file empty. *)
Gapless ==
    /\ 1 .. file \subseteq heard \cup lost
                            \cup UNION {Page(p) : p \in {q \in Slots : polls[q].pc = "written"}}
    /\ 1 .. sdk.cursor \subseteq heard \cup ToSet(sdk.buffer)

(* Such a death costs one page: events are lost to deaths only, and a fault
   loses no more than the page of its invocation. *)
OnePageALoss == Cardinality(lost) <= PageSize * (MaxFaults - faults)

NoGap == Gapless /\ OnePageALoss

(* An agent that polls again and again with the cursor file hears of every
   event, one the types cannot decode included; a consumer of stream_events does
   if it can decode all of them.  Two things are left out: invocations of events
   poll that overlap, and the page of one that died after it had moved the
   cursor (see CursorWaitsForAck). *)
EveryEventHeard ==
    \A e \in 1 .. MaxEvents :
        way /= "webhook" /\ tip >= e ~> \/ e \in heard \cup lost \/ raced
                                        \/ way = "sdk" /\ bad /= {}

(* BOOT.md:303: "Yes (cursor advances only on subsequent ack)".  What lies before
   the stored cursor when no invocation is under way, the agent has been given. *)
CursorWaitsForAck ==
    (\A p \in Slots : polls[p].pc = "idle") => 1 .. file \subseteq heard

(* While commands do not overlap, the secret file is never half-written, and
   holds the secret of the webhook the server has, also after a later register
   that was given none; unless the one command that was told it had no file for
   it, failed to write it, or is still at it. *)
SecretKept ==
    ~raced => /\ disk /= Empty
              /\ hook.secret > 0 => \/ disk = hook.secret \/ hook.secret \in unkept
                                    \/ \E p \in Slots : regs[p].secret = hook.secret
=============================================================================
