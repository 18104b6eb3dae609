-------------------------- MODULE EventFeedProofs --------------------------
(***************************************************************************)
(* Proofs about EventFeed, for any number of processes, events, webhooks   *)
(* and faults and any size of a page.                                      *)
(***************************************************************************)
EXTENDS EventFeed, SequenceTheorems, FiniteSetTheorems, TLAPS

(***************************************************************************)
(* The invariant of `events poll`: a poll starts where everything before   *)
(* is known, and the cursor it is about to keep is the end of its page.    *)
(***************************************************************************)
Known == heard \cup lost \cup UNION {Page(p) : p \in {q \in Slots : polls[q].pc = "written"}}
Polled == \A p \in Slots :
  /\ polls[p].pc # "idle" => 1 .. polls[p].from \subseteq Known
  /\ polls[p].pc \in {"persist", "write"} => polls[p].next \in {0, polls[p].upto}

(***************************************************************************)
(* The invariant of the webhook's secret while no commands overlap: one is *)
(* under way at most, and what it has in hand is the server's secret, if   *)
(* there still is one.                                                     *)
(***************************************************************************)
Keeping(r) == r.pc \in {"open", "fill", "rename"}
Single == \A p, q \in Slots : p # q => regs[p].pc = "idle" \/ regs[q].pc = "idle"
InHand == \A p \in Slots :
  /\ ~Keeping(regs[p]) => regs[p].secret = 0
  /\ Keeping(regs[p]) => regs[p].secret > 0 /\ hook.secret \in {0, regs[p].secret}
  /\ regs[p].pc = "fill" => temp = Empty
  /\ regs[p].pc = "rename" => temp = regs[p].secret

FeedInv == TypeOK /\ Gapless /\ Polled
HookInv == SecretKept /\ (~raced => Single /\ InHand)

PollRecord == [pc : {"idle", "ask", "raw", "persist", "write", "written", "print"},
               from : Nat, upto : Nat, next : Nat, keep : BOOLEAN]
RegRecord == [pc : {"idle", "open", "fill", "rename", "subscribe"}, secret : Nat]

LEMMA FeedInit == Init => FeedInv /\ HookInv
<1> SUFFICES ASSUME Init PROVE FeedInv /\ HookInv
  OBVIOUS
<1>1. NoPoll \in PollRecord /\ NoReg \in RegRecord /\ NoPoll.pc = "idle"
      /\ NoReg.pc = "idle" /\ NoReg.secret = 0
  BY DEF NoPoll, NoReg, PollRecord, RegRecord
<1>2. TypeOK
  <2>1. polls \in [Slots -> PollRecord] /\ regs \in [Slots -> RegRecord]
    BY <1>1 DEF Init
  <2>2. sdk \in [cursor : 0 .. tip, buffer : Seq(Nat)]
    BY EmptySeq DEF Init
  <2>3. MaxFaults \in Nat
    BY FeedAssumption
  <2> QED
    BY <2>1, <2>2, <2>3 DEF Init, TypeOK, Missing, PollRecord, RegRecord
<1>3. Gapless /\ Polled
  BY <1>1 DEF Init, Gapless, Polled
<1>4. Single /\ InHand /\ SecretKept
  BY <1>1 DEF Init, Single, InHand, Keeping, SecretKept, Missing, Empty
<1> QED
  BY <1>2, <1>3, <1>4 DEF FeedInv, HookInv

(***************************************************************************)
(* A step of one poll, or of the feed around it.                           *)
(***************************************************************************)
LEMMA KnownKept ==
  ASSUME NEW p \in Slots, \A q \in Slots : q # p => polls'[q] = polls[q],
         heard \subseteq heard', lost \subseteq lost',
         polls[p].pc = "written" => \/ polls'[p] = polls[p]
                                    \/ Page(p) \subseteq heard' \cup lost'
  PROVE  Known \subseteq Known'
<1> SUFFICES ASSUME NEW e \in Known PROVE e \in Known'
  OBVIOUS
<1>1. CASE e \in heard \cup lost
  BY <1>1 DEF Known
<1>2. ASSUME NEW q \in Slots, polls[q].pc = "written", e \in Page(q) PROVE e \in Known'
  <2>1. CASE polls'[q] = polls[q]
    <3>1. polls'[q].pc = "written" /\ e \in Page(q)'
      BY <1>2, <2>1 DEF Page
    <3> QED
      BY <3>1 DEF Known
  <2>2. CASE q = p /\ Page(p) \subseteq heard' \cup lost'
    BY <1>2, <2>2 DEF Known
  <2> QED
    BY <1>2, <2>1, <2>2
<1> QED
  BY <1>1, <1>2 DEF Known

LEMMA PollStep ==
  ASSUME FeedInv, TypeOK', NEW p \in Slots, sdk' = sdk,
         \A q \in Slots : q # p => polls'[q] = polls[q],
         heard \subseteq heard', Known \subseteq Known', 1 .. file' \subseteq Known',
         polls'[p].pc # "idle" => 1 .. polls'[p].from \subseteq Known',
         polls'[p].pc \in {"persist", "write"} => polls'[p].next \in {0, polls'[p].upto}
  PROVE  FeedInv'
<1>1. Gapless'
  BY DEF FeedInv, Gapless, Known
<1>2. Polled'
  BY DEF FeedInv, Polled
<1> QED
  BY <1>1, <1>2 DEF FeedInv

LEMMA PollFields ==
  ASSUME FeedInv, NEW p \in Slots
  PROVE  /\ polls \in [Slots -> PollRecord] /\ polls[p] \in PollRecord
         /\ tip \in Nat /\ file \in Nat /\ 1 .. file \subseteq Known
         /\ polls[p].pc # "idle" => 1 .. polls[p].from \subseteq Known
         /\ polls[p].pc \in {"persist", "write"} => polls[p].next \in {0, polls[p].upto}
BY DEF FeedInv, TypeOK, PollRecord, Gapless, Known, Polled

LEMMA PageEndFields ==
  ASSUME NEW c \in Nat, tip \in Nat, NEW next \in NextCursors(c)
  PROVE  /\ PageEnd(c) \in Nat /\ PageEnd(c) <= tip /\ next \in {0, PageEnd(c)}
         /\ c <= tip => c <= PageEnd(c)
BY FeedAssumption DEF PageEnd, NextCursors

LEMMA FaultFields == ASSUME FeedInv, Fault \/ UNCHANGED faults PROVE faults' \in Nat
BY DEF FeedInv, TypeOK, Fault

(* What stays of the types when only the polls move.                       *)
LEMMA PollTypes ==
  ASSUME FeedInv, polls' \in [Slots -> PollRecord], file' \in Nat, faults' \in Nat,
         raced' \in BOOLEAN, UNCHANGED <<way, tip, sdk, hook, regs, temp, disk>>
  PROVE  TypeOK'
BY DEF FeedInv, TypeOK, PollRecord

LEMMA ResolveStep == ASSUME FeedInv, NEW p \in Slots, Resolve(p) PROVE FeedInv'
<1>1. /\ polls \in [Slots -> PollRecord] /\ polls[p] \in PollRecord /\ polls[p].pc = "idle"
      /\ file \in Nat /\ tip \in Nat /\ 1 .. file \subseteq Known
  BY PollFields DEF Resolve, Poll
<1>2. PICK c \in Nat, keep \in BOOLEAN :
        Ask(p, c, keep) /\ 1 .. c \subseteq Known
  <2>1. CASE Ask(p, file, TRUE)
    BY <1>1, <2>1
  <2>2. CASE \E c \in {c \in 0 .. tip : 1 .. c \subseteq heard \cup lost}, keep \in BOOLEAN :
               Ask(p, c, keep)
    BY <1>1, <2>2 DEF Known
  <2> QED
    BY <2>1, <2>2 DEF Resolve
<1>3. /\ polls' \in [Slots -> PollRecord] /\ polls'[p].pc = "ask" /\ polls'[p].from = c
      /\ \A q \in Slots : q # p => polls'[q] = polls[q]
  BY <1>1, <1>2 DEF PollRecord, Ask
<1>4. faults' \in Nat
  BY FaultFields DEF Resolve
<1>5. TypeOK'
  <2>1. raced' \in BOOLEAN
    BY DEF Resolve, FeedInv, TypeOK
  <2> QED
    BY <1>1, <1>3, <1>4, <2>1, PollTypes DEF Resolve, hookVars
<1>6. Known \subseteq Known'
  BY <1>1, <1>3, KnownKept DEF Resolve
<1> QED
  BY <1>1, <1>2, <1>3, <1>5, <1>6, PollStep DEF Resolve

LEMMA FetchStep ==
  ASSUME FeedInv, NEW p \in Slots, Fetch(p) \/ DecodeRaw(p)
  PROVE  FeedInv'
<1>1. /\ polls \in [Slots -> PollRecord] /\ polls[p] \in PollRecord
      /\ polls[p].pc \in {"ask", "raw"} /\ polls[p].from \in Nat
      /\ file \in Nat /\ tip \in Nat /\ 1 .. file \subseteq Known
      /\ 1 .. polls[p].from \subseteq Known
      /\ UNCHANGED <<way, tip, bad, heard, faults, file, lost, raced, sdk, hookVars>>
  BY PollFields DEF Fetch, DecodeRaw, Poll, PollRecord
<1>2. CASE polls' = [polls EXCEPT ![p].pc = "raw"]
  <2>1. /\ polls' \in [Slots -> PollRecord] /\ polls'[p].pc = "raw"
        /\ polls'[p].from = polls[p].from /\ \A q \in Slots : q # p => polls'[q] = polls[q]
    BY <1>1, <1>2 DEF PollRecord
  <2>2. TypeOK'
    BY <1>1, <2>1, FaultFields, PollTypes DEF hookVars, FeedInv, TypeOK
  <2>3. Known \subseteq Known'
    BY <1>1, KnownKept, <2>1
  <2> QED
    BY <1>1, <2>1, <2>2, <2>3, PollStep
<1>3. CASE TakePage(p)
  <2>1. PICK n \in NextCursors(polls[p].from) :
          polls' = [polls EXCEPT ![p] = [pc |-> "persist", from |-> polls[p].from,
                          upto |-> PageEnd(polls[p].from), next |-> n, keep |-> polls[p].keep]]
    BY <1>3 DEF TakePage
  <2>2. PageEnd(polls[p].from) \in Nat /\ n \in {0, PageEnd(polls[p].from)}
    BY <1>1, <2>1, PageEndFields
  <2>3. /\ polls' \in [Slots -> PollRecord] /\ polls'[p].pc = "persist"
        /\ polls'[p].from = polls[p].from /\ polls'[p].next \in {0, polls'[p].upto}
        /\ \A q \in Slots : q # p => polls'[q] = polls[q]
    BY <1>1, <2>1, <2>2 DEF PollRecord
  <2>4. TypeOK'
    BY <1>1, <2>3, FaultFields, PollTypes DEF hookVars, FeedInv, TypeOK
  <2>5. Known \subseteq Known'
    BY <1>1, <2>3, KnownKept
  <2> QED
    BY <1>1, <2>3, <2>4, <2>5, PollStep
<1> QED
  BY <1>2, <1>3 DEF Fetch, DecodeRaw

LEMMA CursorStep ==
  ASSUME FeedInv, NEW p \in Slots, Persist(p) \/ WriteCursor(p) \/ PersistFails(p)
  PROVE  FeedInv'
<1>1. /\ polls \in [Slots -> PollRecord] /\ polls[p] \in PollRecord
      /\ polls[p].pc \in {"persist", "write"} /\ polls[p].from \in Nat
      /\ polls[p].upto \in Nat /\ polls[p].next \in {0, polls[p].upto}
      /\ file \in Nat /\ 1 .. file \subseteq Known /\ 1 .. polls[p].from \subseteq Known
      /\ UNCHANGED <<way, tip, bad, heard, lost, raced, sdk, hookVars>>
  BY PollFields DEF Persist, WriteCursor, PersistFails, Poll, PollRecord
<1>2. faults' \in Nat
  BY FaultFields DEF Persist, WriteCursor, PersistFails
<1>3. PICK to \in {"write", "written", "print"} :
        /\ polls' = [polls EXCEPT ![p].pc = to]
        /\ file' \in {file, 0} \/ (to = "written" /\ file' = polls[p].next)
  BY DEF Persist, WriteCursor, PersistFails
<1>4. /\ polls' \in [Slots -> PollRecord] /\ polls'[p].pc = to
      /\ polls'[p].from = polls[p].from /\ polls'[p].upto = polls[p].upto
      /\ polls'[p].next = polls[p].next
      /\ \A q \in Slots : q # p => polls'[q] = polls[q]
  BY <1>1, <1>3 DEF PollRecord
<1>5. TypeOK'
  BY <1>1, <1>2, <1>3, <1>4, PollTypes DEF hookVars, FeedInv, TypeOK
<1>6. Known \subseteq Known'
  BY <1>1, <1>4, KnownKept
<1>7. 1 .. file' \subseteq Known'
  <2>1. CASE file' \in {file, 0}
    BY <1>1, <1>6, <2>1
  <2>2. CASE to = "written" /\ file' = polls[p].next
    <3>1. Page(p)' \subseteq Known'
      BY <1>4, <2>2 DEF Known
    <3>2. Page(p)' = polls[p].from + 1 .. polls[p].upto
      BY <1>4 DEF Page
    <3>3. 1 .. polls[p].next \subseteq 1 .. polls[p].from \cup (polls[p].from + 1 .. polls[p].upto)
      BY <1>1
    <3> QED
      BY <1>1, <1>6, <2>2, <3>1, <3>2, <3>3
  <2> QED
    BY <1>3, <2>1, <2>2
<1> QED
  BY <1>1, <1>4, <1>5, <1>6, <1>7, PollStep

LEMMA ShowStep == ASSUME FeedInv, NEW p \in Slots, Show(p) \/ Die(p) PROVE FeedInv'
<1>1. /\ polls \in [Slots -> PollRecord] /\ file \in Nat /\ 1 .. file \subseteq Known
      /\ UNCHANGED <<way, tip, bad, file, raced, sdk, hookVars>>
      /\ polls' = [polls EXCEPT ![p] = NoPoll]
  BY PollFields DEF Show, Die
<1>2. faults' \in Nat
  BY FaultFields DEF Show, Die
<1>3. /\ polls' \in [Slots -> PollRecord] /\ polls'[p].pc = "idle"
      /\ \A q \in Slots : q # p => polls'[q] = polls[q]
  BY <1>1 DEF PollRecord, NoPoll
<1>4. TypeOK'
  BY <1>1, <1>2, <1>3, PollTypes DEF hookVars, FeedInv, TypeOK
<1>5. /\ heard \subseteq heard' /\ lost \subseteq lost'
      /\ polls[p].pc = "written" => Page(p) \subseteq heard' \cup lost'
  BY DEF Show, Die
<1>6. Known \subseteq Known'
  BY <1>3, <1>5, KnownKept
<1> QED
  BY <1>1, <1>3, <1>4, <1>5, <1>6, PollStep

(***************************************************************************)
(* A step of stream_events, or of the server.                              *)
(***************************************************************************)
LEMMA PollsStay ==
  ASSUME FeedInv, UNCHANGED <<way, raced, hookVars, pollVars>>, heard \subseteq heard',
         tip' \in Nat, faults' \in Nat, sdk' \in [cursor : 0 .. tip', buffer : Seq(Nat)],
         1 .. sdk'.cursor \subseteq heard' \cup ToSet(sdk'.buffer)
  PROVE  FeedInv'
<1>1. TypeOK'
  BY DEF FeedInv, TypeOK, hookVars, pollVars
<1>2. Known \subseteq Known' /\ 1 .. file \subseteq Known
  BY DEF FeedInv, Gapless, Known, Page, pollVars
<1>3. Gapless'
  BY <1>2 DEF Gapless, Known, pollVars
<1>4. Polled'
  BY <1>2 DEF FeedInv, Polled, pollVars
<1> QED
  BY <1>1, <1>3, <1>4 DEF FeedInv

LEMMA HappenStep == ASSUME FeedInv, Happen PROVE FeedInv'
<1>1. tip' \in Nat /\ sdk' \in [cursor : 0 .. tip', buffer : Seq(Nat)] /\ faults' \in Nat
  BY DEF Happen, FeedInv, TypeOK
<1>2. 1 .. sdk'.cursor \subseteq heard' \cup ToSet(sdk'.buffer)
  BY DEF Happen, FeedInv, Gapless
<1> QED
  BY <1>1, <1>2, PollsStay DEF Happen

LEMMA FetchPageStep == ASSUME FeedInv, FetchPage PROVE FeedInv'
<1> DEFINE c == sdk.cursor
           buffer == [i \in 1 .. PageEnd(c) - c |-> c + i]
<1>1. c \in Nat /\ c <= tip /\ tip \in Nat /\ 1 .. c \subseteq heard /\ faults \in Nat
  <2>1. c \in 0 .. tip /\ tip \in Nat /\ faults \in Nat
        /\ 1 .. c \subseteq heard \cup ToSet(sdk.buffer)
    BY DEF FeedInv, TypeOK, Gapless
  <2>2. ToSet(sdk.buffer) = {}
    BY DEF FetchPage, ToSet
  <2> QED
    BY <2>1, <2>2
<1>2. PICK next \in NextCursors(c) :
        sdk' = [cursor |-> IF next > 0 THEN next ELSE c, buffer |-> buffer]
  BY DEF FetchPage
<1>3. /\ PageEnd(c) \in Nat /\ PageEnd(c) <= tip /\ c <= PageEnd(c)
      /\ next \in {0, PageEnd(c)}
  BY <1>1, <1>2, PageEndFields
<1>4. buffer \in Seq(Nat) /\ ToSet(buffer) = c + 1 .. PageEnd(c)
  <2>1. PageEnd(c) - c \in Nat
    BY <1>1, <1>3
  <2>2. DOMAIN buffer = 1 .. PageEnd(c) - c /\ \A i \in 1 .. PageEnd(c) - c : buffer[i] = c + i
    OBVIOUS
  <2>3. buffer \in Seq(Nat)
    <3>1. \A i \in 1 .. PageEnd(c) - c : c + i \in Nat
      BY <1>1, <1>3
    <3> QED
      BY <2>1, <3>1, IsASeq
  <2>4. ASSUME NEW e \in c + 1 .. PageEnd(c) PROVE e \in ToSet(buffer)
    <3>1. e - c \in 1 .. PageEnd(c) - c /\ c + (e - c) = e
      BY <1>1, <1>3
    <3> QED
      BY <2>2, <3>1 DEF ToSet
  <2>5. ASSUME NEW e \in ToSet(buffer) PROVE e \in c + 1 .. PageEnd(c)
    <3>1. PICK i \in 1 .. PageEnd(c) - c : e = c + i
      BY <2>2 DEF ToSet
    <3> QED
      BY <1>1, <1>3, <3>1
  <2> QED
    BY <2>3, <2>4, <2>5
<1>5. PICK d \in c .. PageEnd(c) : sdk' = [cursor |-> d, buffer |-> buffer]
  <2> DEFINE d == IF next > 0 THEN next ELSE c
  <2>1. d \in c .. PageEnd(c)
    BY <1>1, <1>3
  <2>2. sdk' = [cursor |-> d, buffer |-> buffer]
    BY <1>2
  <2> HIDE DEF d, buffer
  <2> QED
    BY <2>1, <2>2
<1> HIDE DEF c, buffer
<1>6. sdk' \in [cursor : 0 .. tip', buffer : Seq(Nat)]
  <2>1. d \in 0 .. tip /\ tip' = tip
    BY <1>1, <1>3, <1>5 DEF FetchPage
  <2> QED
    BY <1>4, <1>5, <2>1
<1>7. 1 .. sdk'.cursor \subseteq heard' \cup ToSet(sdk'.buffer)
  <2>1. 1 .. d \subseteq 1 .. c \cup (c + 1 .. PageEnd(c))
    BY <1>1, <1>3, <1>5
  <2>2. sdk'.cursor = d /\ sdk'.buffer = buffer /\ heard' = heard
    BY <1>5 DEF FetchPage
  <2> QED
    BY <1>1, <1>4, <2>1, <2>2
<1>8. tip' \in Nat /\ faults' \in Nat /\ heard' = heard
      /\ UNCHANGED <<way, raced, hookVars, pollVars>>
  BY <1>1 DEF FetchPage
<1> QED
  BY <1>6, <1>7, <1>8, PollsStay

LEMMA YieldStep == ASSUME FeedInv, Yield PROVE FeedInv'
<1> DEFINE b == sdk.buffer
<1>1. /\ sdk \in [cursor : 0 .. tip, buffer : Seq(Nat)] /\ b \in Seq(Nat) /\ b # <<>>
      /\ tip \in Nat /\ faults \in Nat
      /\ 1 .. sdk.cursor \subseteq heard \cup ToSet(b)
  BY DEF Yield, FeedInv, TypeOK, Gapless
<1>2. sdk' \in [cursor : 0 .. tip', buffer : Seq(Nat)] /\ sdk'.cursor = sdk.cursor
      /\ sdk'.buffer = Tail(b)
  <2>1. Tail(b) \in Seq(Nat)
    BY <1>1, HeadTailProperties
  <2> QED
    BY <1>1, <2>1 DEF Yield
<1>3. ToSet(b) \subseteq {Head(b)} \cup ToSet(Tail(b))
  <2> SUFFICES ASSUME NEW i \in DOMAIN b, i # 1 PROVE b[i] \in ToSet(Tail(b))
    BY <1>1 DEF ToSet
  <2>1. i \in 1 .. Len(b) /\ Len(b) \in Nat /\ i - 1 \in 1 .. Len(b) - 1 /\ (i - 1) + 1 = i
    BY <1>1
  <2>2. Len(Tail(b)) = Len(b) - 1 /\ DOMAIN Tail(b) = 1 .. Len(b) - 1
        /\ Tail(b)[i - 1] = b[(i - 1) + 1]
    BY <1>1, <2>1, HeadTailProperties
  <2> QED
    BY <2>1, <2>2 DEF ToSet
<1>4. heard' = heard \cup {Head(b)} /\ tip' = tip /\ faults' = faults
      /\ UNCHANGED <<way, raced, hookVars, pollVars>>
  BY DEF Yield
<1>5. 1 .. sdk'.cursor \subseteq heard' \cup ToSet(sdk'.buffer)
  BY <1>1, <1>2, <1>3, <1>4
<1> QED
  BY <1>1, <1>2, <1>4, <1>5, PollsStay

LEMMA RestreamStep == ASSUME FeedInv, Restream PROVE FeedInv'
<1>1. PICK c \in 0 .. tip : 1 .. c \subseteq heard /\ sdk' = [cursor |-> c, buffer |-> <<>>]
  BY DEF Restream
<1>2. /\ tip \in Nat /\ faults' \in Nat /\ tip' = tip /\ heard' = heard
      /\ UNCHANGED <<way, raced, hookVars, pollVars>>
  BY FaultFields DEF Restream, FeedInv, TypeOK
<1>3. <<>> \in Seq(Nat)
  BY EmptySeq
<1>4. sdk'.cursor = c /\ sdk'.buffer = <<>> /\ sdk' \in [cursor : 0 .. tip', buffer : Seq(Nat)]
  BY <1>1, <1>2, <1>3
<1>5. 1 .. sdk'.cursor \subseteq heard' \cup ToSet(sdk'.buffer)
  BY <1>1, <1>2, <1>4
<1> QED
  BY <1>2, <1>4, <1>5, PollsStay

(***************************************************************************)
(* A step of a command that registers a webhook.                           *)
(***************************************************************************)
LEMMA HooksMove ==
  ASSUME FeedInv, UNCHANGED <<way, tip, heard, sdk, pollVars>>, faults' \in Nat,
         raced' \in BOOLEAN, hook' \in [secret : Nat, made : Nat],
         regs' \in [Slots -> RegRecord], {temp', disk'} \subseteq Nat \cup {Missing}
  PROVE  FeedInv'
<1>1. TypeOK'
  BY DEF FeedInv, TypeOK, RegRecord, pollVars
<1>2. Gapless' /\ Polled'
  BY DEF FeedInv, Gapless, Polled, Known, Page, pollVars
<1> QED
  BY <1>1, <1>2 DEF FeedInv

LEMMA RegFields ==
  ASSUME FeedInv, HookInv
  PROVE  /\ regs \in [Slots -> RegRecord] /\ hook \in [secret : Nat, made : Nat]
         /\ hook.secret \in Nat /\ hook.made \in Nat /\ faults \in Nat
         /\ raced \in BOOLEAN /\ {temp, disk} \subseteq Nat \cup {Missing}
         /\ \A p \in Slots : regs[p] \in RegRecord /\ regs[p].secret \in Nat
         /\ ~raced => Single /\ InHand /\ disk # Empty
BY DEF FeedInv, TypeOK, HookInv, RegRecord, SecretKept

LEMMA RegStep ==
  ASSUME FeedInv, HookInv, NEW p \in Slots,
         \A q \in Slots : q # p => regs'[q] = regs[q] /\ regs[q].pc = "idle",
         ~raced, ~Keeping(regs'[p]) => regs'[p].secret = 0,
         Keeping(regs'[p]) => regs'[p].secret > 0 /\ hook'.secret \in {0, regs'[p].secret},
         regs'[p].pc = "fill" => temp' = Empty,
         regs'[p].pc = "rename" => temp' = regs'[p].secret
  PROVE  Single' /\ InHand'
<1>1. \A q \in Slots : q # p => regs'[q].pc = "idle" /\ regs'[q].secret = 0
  BY RegFields DEF InHand, Keeping
<1>2. Single'
  BY <1>1 DEF Single
<1>3. InHand'
  BY <1>1 DEF InHand, Keeping
<1> QED
  BY <1>2, <1>3

LEMMA RegisterStep == ASSUME FeedInv, HookInv, NEW p \in Slots, Register(p) PROVE (FeedInv /\ HookInv)'
<1> DEFINE new == hook.made + 1
<1>1. PICK answered, given \in BOOLEAN :
        /\ (answered /\ UNCHANGED faults) \/ Fault
        /\ hook' = IF Fresh THEN [secret |-> new, made |-> new] ELSE hook
        /\ regs' = [regs EXCEPT ![p] =
             IF Keep(answered, given) THEN [pc |-> "open", secret |-> IF Fresh THEN new ELSE 0]
             ELSE IF answered THEN [NoReg EXCEPT !.pc = "subscribe"] ELSE NoReg]
        /\ unkept' = IF Fresh /\ ~Keep(answered, given) THEN unkept \cup {new} ELSE unkept
  BY DEF Register
<1>2. /\ new \in Nat /\ new > 0 /\ regs[p].pc = "idle"
      /\ UNCHANGED <<way, tip, heard, sdk, pollVars, temp, disk>>
      /\ raced' = (raced \/ \E q \in Slots \ {p} : regs[q].pc # "idle")
  BY RegFields DEF Register, Reg
<1> HIDE DEF new
<1>3. \/ /\ Fresh /\ hook' = [secret |-> new, made |-> new] /\ unkept' = unkept
         /\ regs' = [regs EXCEPT ![p] = [pc |-> "open", secret |-> new]]
      \/ /\ Fresh /\ hook' = [secret |-> new, made |-> new] /\ new \in unkept'
         /\ \E pc \in {"idle", "subscribe"} : regs' = [regs EXCEPT ![p] = [pc |-> pc, secret |-> 0]]
      \/ /\ hook' = hook /\ unkept' = unkept
         /\ \E pc \in {"idle", "subscribe"} : regs' = [regs EXCEPT ![p] = [pc |-> pc, secret |-> 0]]
  <2>1. /\ NoReg = [pc |-> "idle", secret |-> 0]
        /\ [NoReg EXCEPT !.pc = "subscribe"] = [pc |-> "subscribe", secret |-> 0]
    BY DEF NoReg
  <2>2. CASE Keep(answered, given)
    BY <1>1, <2>2 DEF Keep
  <2>3. CASE ~Keep(answered, given)
    <3>1. \E pc \in {"idle", "subscribe"} : regs' = [regs EXCEPT ![p] = [pc |-> pc, secret |-> 0]]
      BY <1>1, <2>1, <2>3
    <3>2. Fresh => hook' = [secret |-> new, made |-> new] /\ new \in unkept'
      BY <1>1, <2>3
    <3>3. ~Fresh => hook' = hook /\ unkept' = unkept
      BY <1>1
    <3> QED
      BY <3>1, <3>2, <3>3
  <2> QED
    BY <2>2, <2>3
<1>4. FeedInv'
  <2>1. faults' \in Nat
    BY <1>1, FaultFields
  <2>2. hook' \in [secret : Nat, made : Nat] /\ regs' \in [Slots -> RegRecord]
    BY <1>2, <1>3, RegFields DEF RegRecord
  <2> QED
    BY <1>2, <2>1, <2>2, RegFields, HooksMove
<1>5. ASSUME ~raced' PROVE SecretKept' /\ Single' /\ InHand'
  <2>1. /\ ~raced /\ \A q \in Slots : regs[q].pc = "idle" /\ regs[q].secret = 0
        /\ \A q \in Slots : q # p => regs'[q] = regs[q]
    <3>1. ~raced /\ \A q \in Slots : regs[q].pc = "idle"
      BY <1>2, <1>5
    <3>2. InHand
      BY <3>1, RegFields
    <3> QED
      BY <1>3, <3>1, <3>2, RegFields DEF InHand, Keeping
  <2>2. \/ regs'[p] = [pc |-> "open", secret |-> new] /\ hook'.secret = new
        \/ regs'[p].pc \in {"idle", "subscribe"} /\ regs'[p].secret = 0
    BY <1>3, RegFields
  <2>3. Single' /\ InHand'
    BY <1>2, <2>1, <2>2, RegStep DEF Keeping
  <2>4. hook'.secret > 0 => \/ disk = hook'.secret \/ hook'.secret \in unkept'
                            \/ \E q \in Slots : regs'[q].secret = hook'.secret
    <3>1. CASE hook' = hook /\ unkept' = unkept
      BY <2>1, <3>1 DEF HookInv, SecretKept
    <3>2. CASE hook'.secret = new /\ new \in unkept'
      BY <3>2
    <3>3. CASE hook'.secret = new /\ regs' = [regs EXCEPT ![p] = [pc |-> "open", secret |-> new]]
      <4>1. regs'[p].secret = hook'.secret
        BY <3>3, RegFields
      <4> QED
        BY <4>1
    <3> QED
      BY <1>3, <3>1, <3>2, <3>3
  <2> QED
    BY <1>2, <2>1, <2>3, <2>4, RegFields DEF SecretKept
<1> QED
  BY <1>4, <1>5 DEF HookInv, SecretKept

LEMMA KeepStep ==
  ASSUME FeedInv, HookInv, NEW p \in Slots,
         OpenTemp(p) \/ FillTemp(p) \/ Rename(p) \/ Subscribe(p) \/ Abort(p)
  PROVE  (FeedInv /\ HookInv)'
<1>1. /\ regs[p].pc # "idle" /\ UNCHANGED <<way, tip, heard, sdk, pollVars, raced, hook>>
      /\ unkept \subseteq unkept'
  BY DEF OpenTemp, FillTemp, Rename, Subscribe, Abort, Reg
<1>2. faults' \in Nat
  BY FaultFields DEF OpenTemp, FillTemp, Rename, Subscribe, Abort
<1>3. PICK r \in RegRecord : regs' = [regs EXCEPT ![p] = r]
  <2>1. [NoReg EXCEPT !.pc = "subscribe"] \in RegRecord /\ NoReg \in RegRecord
    BY DEF NoReg, RegRecord
  <2>2. \A pc \in {"fill", "rename"} : [regs[p] EXCEPT !.pc = pc] \in RegRecord
    BY RegFields DEF RegRecord
  <2>3. \A pc \in {"fill", "rename"} : [regs EXCEPT ![p].pc = pc] = [regs EXCEPT ![p] = [regs[p] EXCEPT !.pc = pc]]
    BY RegFields
  <2> QED
    BY <2>1, <2>2, <2>3 DEF OpenTemp, FillTemp, Rename, Subscribe, Abort
<1>4. FeedInv'
  <2>1. {temp', disk'} \subseteq Nat \cup {Missing}
    BY RegFields DEF OpenTemp, FillTemp, Rename, Subscribe, Abort, Empty
  <2>2. regs' \in [Slots -> RegRecord]
    BY <1>3, RegFields
  <2> QED
    BY <1>1, <1>2, <2>1, <2>2, RegFields, HooksMove
<1>5. ASSUME ~raced PROVE SecretKept' /\ Single' /\ InHand'
  <2>1. \A q \in Slots : q # p => regs'[q] = regs[q] /\ regs[q].pc = "idle" /\ regs[q].secret = 0
    BY <1>1, <1>3, <1>5, RegFields DEF Single, InHand, Keeping
  <2>2. /\ regs'[p] = r /\ disk # Empty /\ regs[p].secret \in Nat
        /\ ~Keeping(regs[p]) => regs[p].secret = 0
        /\ Keeping(regs[p]) => regs[p].secret > 0 /\ hook.secret \in {0, regs[p].secret}
        /\ regs[p].pc = "fill" => temp = Empty
        /\ regs[p].pc = "rename" => temp = regs[p].secret
        /\ hook.secret > 0 => \/ disk = hook.secret \/ hook.secret \in unkept
                              \/ \E q \in Slots : regs[q].secret = hook.secret
    BY <1>3, <1>5, RegFields DEF InHand, HookInv, SecretKept
  <2>3. CASE OpenTemp(p) \/ FillTemp(p)
    <3>1. /\ regs'[p].secret = regs[p].secret /\ Keeping(regs[p]) /\ Keeping(regs'[p]) /\ disk' = disk
          /\ \/ regs'[p].pc = "fill" /\ temp' = Empty
             \/ regs'[p].pc = "rename" /\ temp' = regs[p].secret
      <4>1. CASE OpenTemp(p)
        <5>1. regs'[p] = [regs[p] EXCEPT !.pc = "fill"] /\ regs[p].pc = "open"
          BY <4>1, RegFields DEF OpenTemp, Reg
        <5>2. regs'[p].pc = "fill" /\ regs'[p].secret = regs[p].secret
          BY <5>1, RegFields DEF RegRecord
        <5> QED
          BY <4>1, <5>1, <5>2 DEF OpenTemp, Keeping
      <4>2. CASE FillTemp(p)
        <5>1. regs'[p] = [regs[p] EXCEPT !.pc = "rename"] /\ regs[p].pc = "fill"
          BY <4>2, RegFields DEF FillTemp, Reg
        <5>2. regs'[p].pc = "rename" /\ regs'[p].secret = regs[p].secret
          BY <5>1, RegFields DEF RegRecord
        <5> QED
          BY <1>5, <4>2, <5>1, <5>2 DEF FillTemp, Keeping
      <4> QED
        BY <2>3, <4>1, <4>2
    <3>2. Single' /\ InHand'
      BY <1>1, <1>5, <2>1, <2>2, <3>1, RegStep
    <3>3. \A q \in Slots : regs'[q].secret = regs[q].secret
      BY <2>1, <3>1
    <3> QED
      BY <1>1, <2>2, <3>1, <3>2, <3>3 DEF SecretKept
  <2>4. CASE Rename(p) \/ Subscribe(p) \/ Abort(p)
    <3>1. regs'[p].secret = 0 /\ regs'[p].pc \in {"idle", "subscribe"}
      BY <2>4, RegFields DEF Rename, Subscribe, Abort, NoReg
    <3>2. Single' /\ InHand'
      BY <1>1, <1>5, <2>1, <3>1, RegStep DEF Keeping
    <3>3. CASE Rename(p)
      <4>1. disk' = regs[p].secret /\ Keeping(regs[p])
        BY <2>2, <3>3 DEF Rename, Reg, Keeping
      <4>2. hook.secret > 0 => disk' = hook.secret
        BY <2>2, <4>1
      <4> QED
        BY <1>1, <2>2, <3>2, <4>1, <4>2 DEF SecretKept, Empty
    <3>4. CASE Subscribe(p)
      <4>1. regs[p].secret = 0 /\ disk' = disk
        BY <2>2, <3>4 DEF Subscribe, Reg, Keeping
      <4>2. \A q \in Slots : regs[q].secret = 0
        BY <2>1, <4>1
      <4> QED
        BY <1>1, <2>2, <3>2, <4>1, <4>2 DEF SecretKept
    <3>5. CASE Abort(p)
      <4>1. disk' = disk /\ regs[p].secret \in unkept'
        BY <3>5 DEF Abort
      <4>2. hook.secret > 0 => disk = hook.secret \/ hook.secret \in unkept'
        BY <1>1, <2>1, <2>2, <4>1
      <4> QED
        BY <1>1, <2>2, <3>2, <4>1, <4>2 DEF SecretKept
    <3> QED
      BY <2>4, <3>3, <3>4, <3>5
  <2> QED
    BY <2>3, <2>4
<1> QED
  BY <1>1, <1>4, <1>5 DEF HookInv, SecretKept

LEMMA DeleteStep == ASSUME FeedInv, HookInv, Delete PROVE (FeedInv /\ HookInv)'
<1>1. /\ hook' \in [secret : Nat, made : Nat] /\ hook'.secret = 0
      /\ UNCHANGED <<way, tip, heard, sdk, pollVars, faults, raced, regs, temp, disk>>
  BY RegFields DEF Delete
<1>2. FeedInv'
  BY <1>1, RegFields, HooksMove
<1>3. HookInv'
  BY <1>1, RegFields DEF HookInv, SecretKept, Single, InHand, Keeping
<1> QED
  BY <1>2, <1>3

(***************************************************************************)
(* The steps that leave the webhook alone, and the theorems.               *)
(***************************************************************************)
LEMMA HooksStay == ASSUME HookInv, FeedInv, UNCHANGED <<hookVars, raced>> PROVE HookInv'
BY DEF HookInv, hookVars, SecretKept, Single, InHand, Keeping

LEMMA FeedNext == FeedInv /\ HookInv /\ [Next]_vars => (FeedInv /\ HookInv)'
<1> SUFFICES ASSUME FeedInv, HookInv, [Next]_vars PROVE (FeedInv /\ HookInv)'
  OBVIOUS
<1>1. CASE Happen
  BY <1>1, HappenStep, HooksStay DEF Happen
<1>2. CASE FetchPage
  BY <1>2, FetchPageStep, HooksStay DEF FetchPage
<1>3. CASE Yield
  BY <1>3, YieldStep, HooksStay DEF Yield
<1>4. CASE Restream
  BY <1>4, RestreamStep, HooksStay DEF Restream
<1>5. CASE Delete
  BY <1>5, DeleteStep
<1>6. ASSUME NEW p \in Slots, Resolve(p) PROVE (FeedInv /\ HookInv)'
  BY <1>6, ResolveStep DEF Resolve, HookInv, hookVars, SecretKept, Single, InHand, Keeping
<1>7. ASSUME NEW p \in Slots, Fetch(p) \/ DecodeRaw(p) PROVE (FeedInv /\ HookInv)'
  BY <1>7, FetchStep, HooksStay DEF Fetch, DecodeRaw
<1>8. ASSUME NEW p \in Slots, Persist(p) \/ WriteCursor(p) \/ PersistFails(p)
      PROVE  (FeedInv /\ HookInv)'
  BY <1>8, CursorStep, HooksStay DEF Persist, WriteCursor, PersistFails
<1>9. ASSUME NEW p \in Slots, Show(p) \/ Die(p) PROVE (FeedInv /\ HookInv)'
  BY <1>9, ShowStep, HooksStay DEF Show, Die
<1>10. ASSUME NEW p \in Slots, Register(p) PROVE (FeedInv /\ HookInv)'
  BY <1>10, RegisterStep
<1>11. ASSUME NEW p \in Slots, OpenTemp(p) \/ FillTemp(p) \/ Rename(p) \/ Subscribe(p) \/ Abort(p)
       PROVE  (FeedInv /\ HookInv)'
  BY <1>11, KeepStep
<1>12. CASE UNCHANGED vars
  BY <1>12, PollsStay, HooksStay DEF FeedInv, TypeOK, Gapless, vars
<1> QED
  BY <1>1, <1>2, <1>3, <1>4, <1>5, <1>6, <1>7, <1>8, <1>9, <1>10, <1>11, <1>12
  DEF Next, Poller, Hook

LEMMA FeedInvariant == Spec => [](FeedInv /\ HookInv)
<1>1. Init => FeedInv /\ HookInv
  BY FeedInit
<1>2. FeedInv /\ HookInv /\ [Next]_vars => (FeedInv /\ HookInv)'
  BY FeedNext
<1> QED
  BY <1>1, <1>2, PTL DEF Spec

(* A cursor, a buffer, a command and the files always hold what they can hold. *)
THEOREM FeedTypeCorrect == Spec => []TypeOK
<1>1. FeedInv => TypeOK
  BY DEF FeedInv
<1> QED
  BY <1>1, FeedInvariant, PTL

(***************************************************************************)
(* What deaths cost: a page has PageSize events at most, and each death    *)
(* takes a fault.                                                          *)
(***************************************************************************)
PagesFit == \A p \in Slots : polls[p].upto <= polls[p].from + PageSize
LossInv == /\ IsFiniteSet(lost) /\ OnePageALoss
           /\ faults \in 0 .. MaxFaults /\ PagesFit

LEMMA PagesFitStep ==
  ASSUME PagesFit, NEW p \in Slots, NEW r \in PollRecord, polls \in [Slots -> PollRecord],
         r.upto <= r.from + PageSize, polls' = [polls EXCEPT ![p] = r]
  PROVE  PagesFit'
BY DEF PagesFit, PollRecord

(* Only Die adds to what is lost, and it costs a fault. *)
LEMMA LossStay ==
  ASSUME LossInv, lost' = lost, Fault \/ faults' = faults, PagesFit'
  PROVE  LossInv'
<1>1. faults' \in 0 .. MaxFaults /\ faults' <= faults
  BY FeedAssumption DEF LossInv, Fault
<1>2. PageSize * (MaxFaults - faults) <= PageSize * (MaxFaults - faults')
  <2>1. CASE faults' = faults
    <3>1. PageSize * (MaxFaults - faults) \in Int
      BY FeedAssumption DEF LossInv
    <3> QED
      BY <2>1, <3>1
  <2>2. CASE faults' = faults - 1
    <3>1. PageSize * (MaxFaults - faults') = PageSize * (MaxFaults - faults) + PageSize
      BY <2>2, FeedAssumption DEF LossInv
    <3>2. PageSize * (MaxFaults - faults) \in Int
      BY FeedAssumption DEF LossInv
    <3> QED
      BY <3>1, <3>2, FeedAssumption
  <2> QED
    BY <2>1, <2>2 DEF Fault
<1>3. Cardinality(lost) \in Nat
  BY FS_CardinalityType DEF LossInv
<1>4. OnePageALoss'
  BY <1>1, <1>2, <1>3, FeedAssumption DEF LossInv, OnePageALoss
<1> QED
  BY <1>1, <1>4 DEF LossInv

LEMMA DieLoss ==
  ASSUME LossInv, TypeOK, NEW p \in Slots, Die(p)
  PROVE  LossInv'
<1>1. polls \in [Slots -> PollRecord] /\ polls[p] \in PollRecord
  BY DEF TypeOK, PollRecord
<1>2. PagesFit'
  <2>1. NoPoll \in PollRecord /\ NoPoll.upto <= NoPoll.from + PageSize
    BY FeedAssumption DEF NoPoll, PollRecord
  <2> QED
    BY <1>1, <2>1, PagesFitStep DEF Die, LossInv
<1>3. CASE lost' = lost
  BY <1>2, <1>3, LossStay DEF Die
<1>4. CASE lost' = lost \cup Page(p)
  <2>1. IsFiniteSet(Page(p)) /\ Cardinality(Page(p)) <= PageSize
    <3>1. polls[p].from \in Nat /\ polls[p].upto \in Nat
          /\ polls[p].upto <= polls[p].from + PageSize
      BY <1>1 DEF PollRecord, LossInv, PagesFit
    <3>2. /\ IsFiniteSet(Page(p))
          /\ Cardinality(Page(p)) = IF polls[p].from + 1 > polls[p].upto THEN 0
                                    ELSE polls[p].upto - (polls[p].from + 1) + 1
      <4>1. polls[p].from + 1 \in Int /\ polls[p].upto \in Int
        BY <3>1
      <4> QED
        BY <4>1, FS_Interval, Zenon DEF Page
    <3> QED
      BY <3>1, <3>2, FeedAssumption
  <2>2. /\ IsFiniteSet(lost') /\ IsFiniteSet(lost \cap Page(p))
        /\ Cardinality(lost') = Cardinality(lost) + Cardinality(Page(p))
                                - Cardinality(lost \cap Page(p))
    <3>1. lost \cap Page(p) \in SUBSET lost
      OBVIOUS
    <3> QED
      BY <1>4, <2>1, <3>1, FS_Union, FS_Subset DEF LossInv
  <2>3. /\ Cardinality(lost) \in Nat /\ Cardinality(Page(p)) \in Nat
        /\ Cardinality(lost \cap Page(p)) \in Nat
    BY <2>1, <2>2, FS_CardinalityType DEF LossInv
  <2>4. faults' = faults - 1 /\ faults' \in 0 .. MaxFaults
    BY FeedAssumption DEF Die, Fault, LossInv
  <2>5. PageSize * (MaxFaults - faults') = PageSize * (MaxFaults - faults) + PageSize
    BY <2>4, FeedAssumption DEF LossInv
  <2>6. Cardinality(lost') <= PageSize * (MaxFaults - faults')
    <3>1. PageSize * (MaxFaults - faults) \in Int
      BY FeedAssumption DEF LossInv
    <3> QED
      BY <2>1, <2>2, <2>3, <2>5, <3>1, FeedAssumption DEF LossInv, OnePageALoss
  <2> QED
    BY <1>2, <2>2, <2>4, <2>6 DEF LossInv, OnePageALoss
<1> QED
  BY <1>3, <1>4 DEF Die

LEMMA TakePageFits ==
  ASSUME PagesFit, TypeOK, NEW p \in Slots, TakePage(p)
  PROVE  PagesFit'
<1>1. polls \in [Slots -> PollRecord] /\ polls[p] \in PollRecord /\ tip \in Nat
  BY DEF TypeOK, PollRecord
<1>2. PICK n \in NextCursors(polls[p].from) :
        polls' = [polls EXCEPT ![p] = [pc |-> "persist", from |-> polls[p].from,
                    upto |-> PageEnd(polls[p].from), next |-> n, keep |-> polls[p].keep]]
  BY DEF TakePage
<1>3. PageEnd(polls[p].from) \in Nat /\ PageEnd(polls[p].from) <= polls[p].from + PageSize
      /\ n \in Nat
  BY <1>1, FeedAssumption DEF PageEnd, NextCursors, PollRecord
<1> QED
  BY <1>1, <1>2, <1>3, PagesFitStep DEF PollRecord

LEMMA LossNext == LossInv /\ TypeOK /\ [Next]_vars => LossInv'
<1> SUFFICES ASSUME LossInv, TypeOK, [Next]_vars PROVE LossInv'
  OBVIOUS
<1>1. polls \in [Slots -> PollRecord]
  BY DEF TypeOK, PollRecord
<1>2. CASE Happen \/ FetchPage \/ Yield \/ Restream \/ Delete \/ UNCHANGED vars
  <2>1. polls' = polls /\ lost' = lost /\ (Fault \/ faults' = faults)
    BY <1>2 DEF Happen, FetchPage, Yield, Restream, Delete, vars, pollVars
  <2>2. PagesFit'
    BY <2>1 DEF LossInv, PagesFit
  <2> QED
    BY <2>1, <2>2, LossStay
<1>3. ASSUME NEW p \in Slots, Hook(p) \/ Abort(p) PROVE LossInv'
  <2>1. polls' = polls /\ lost' = lost /\ (Fault \/ faults' = faults)
    BY <1>3 DEF Hook, Register, OpenTemp, FillTemp, Rename, Subscribe, Abort, pollVars
  <2>2. PagesFit'
    BY <2>1 DEF LossInv, PagesFit
  <2> QED
    BY <2>1, <2>2, LossStay
<1>4. ASSUME NEW p \in Slots, Resolve(p) PROVE LossInv'
  <2>1. PICK c \in Nat, keep \in BOOLEAN : Ask(p, c, keep)
    <3>1. CASE Ask(p, file, TRUE)
      BY <3>1 DEF TypeOK
    <3>2. CASE \E c \in {c \in 0 .. tip : 1 .. c \subseteq heard \cup lost}, keep \in BOOLEAN :
                 Ask(p, c, keep)
      BY <3>2 DEF TypeOK
    <3> QED
      BY <1>4, <3>1, <3>2 DEF Resolve
  <2>2. PagesFit'
    <3> DEFINE r == [pc |-> "ask", from |-> c, upto |-> 0, next |-> 0, keep |-> keep]
    <3>1. r \in PollRecord /\ r.upto <= r.from + PageSize
      BY <2>1, FeedAssumption DEF PollRecord
    <3>2. polls' = [polls EXCEPT ![p] = r]
      BY <2>1 DEF Ask
    <3> QED
      BY <1>1, <3>1, <3>2, PagesFitStep DEF LossInv
  <2>3. lost' = lost /\ (Fault \/ faults' = faults)
    BY <1>4 DEF Resolve
  <2> QED
    BY <2>2, <2>3, LossStay
<1>5. ASSUME NEW p \in Slots, Fetch(p) \/ DecodeRaw(p) PROVE LossInv'
  <2>1. CASE TakePage(p)
    BY <1>5, <2>1, TakePageFits, LossStay DEF Fetch, DecodeRaw, LossInv
  <2>2. CASE polls' = [polls EXCEPT ![p].pc = "raw"]
    <3>1. PagesFit'
      BY <1>1, <2>2 DEF LossInv, PagesFit, PollRecord
    <3> QED
      BY <1>5, <3>1, LossStay DEF Fetch, DecodeRaw
  <2> QED
    BY <1>5, <2>1, <2>2 DEF Fetch, DecodeRaw
<1>6. ASSUME NEW p \in Slots, Persist(p) \/ WriteCursor(p) \/ PersistFails(p) PROVE LossInv'
  <2>1. \E pc \in {"write", "print", "written"} : polls' = [polls EXCEPT ![p].pc = pc]
    BY <1>6 DEF Persist, WriteCursor, PersistFails
  <2>2. PagesFit'
    BY <1>1, <2>1 DEF LossInv, PagesFit, PollRecord
  <2> QED
    BY <1>6, <2>2, LossStay DEF Persist, WriteCursor, PersistFails
<1>7. ASSUME NEW p \in Slots, Show(p) PROVE LossInv'
  <2>1. NoPoll \in PollRecord /\ NoPoll.upto <= NoPoll.from + PageSize
    BY FeedAssumption DEF NoPoll, PollRecord
  <2>2. PagesFit'
    BY <1>1, <1>7, <2>1, PagesFitStep DEF Show, LossInv
  <2> QED
    BY <1>7, <2>2, LossStay DEF Show
<1>8. ASSUME NEW p \in Slots, Die(p) PROVE LossInv'
  BY <1>8, DieLoss
<1> QED
  BY <1>2, <1>3, <1>4, <1>5, <1>6, <1>7, <1>8 DEF Next, Poller

LEMMA LossInit == Init => LossInv
<1> SUFFICES ASSUME Init PROVE LossInv
  OBVIOUS
<1>1. lost = {} /\ faults = MaxFaults /\ IsFiniteSet(lost) /\ Cardinality(lost) = 0
  BY FS_EmptySet DEF Init
<1>2. PagesFit
  BY FeedAssumption DEF Init, PagesFit, NoPoll
<1> QED
  BY <1>1, <1>2, FeedAssumption DEF LossInv, OnePageALoss

(* Neither `events poll` nor stream_events ever has its cursor past an event it
   neither gave out nor holds, but for the pages of invocations that died between
   the write of the cursor and the print; and those are one page for each death,
   however many invocations overlap.  Without deaths nothing is missing. *)
THEOREM CursorSafety == Spec => []NoGap
<1>1. FeedInv => Gapless /\ TypeOK
  BY DEF FeedInv
<1>2. Spec => []LossInv
  <2>1. Init => LossInv
    BY LossInit
  <2>2. LossInv /\ TypeOK /\ [Next]_vars => LossInv'
    BY LossNext
  <2> QED
    BY <1>1, <2>1, <2>2, FeedInvariant, PTL DEF Spec
<1>3. Gapless /\ LossInv => NoGap
  BY DEF NoGap, LossInv
<1> QED
  BY <1>1, <1>2, <1>3, FeedInvariant, PTL

(* While commands that register a webhook do not overlap, the secret file is never
   left empty, and the secret of the webhook in force is in it unless the command
   that was told it could not keep it. *)
THEOREM SecretSafety == Spec => []SecretKept
<1>1. HookInv => SecretKept
  BY DEF HookInv
<1> QED
  BY <1>1, FeedInvariant, PTL
=============================================================================
