-------------------------- MODULE AgentSetupProofs --------------------------
(***************************************************************************)
(* Proofs about AgentSetup, for any number of slots, commands and deleted  *)
(* agents.                                                                 *)
(***************************************************************************)
EXTENDS AgentSetup, TLAPS

(***************************************************************************)
(* Types.                                                                  *)
(***************************************************************************)

LEMMA ConfigTypes ==
  /\ Default \in Config
  /\ Idle \in Process
  /\ Idle.pc = "idle" /\ Idle.id = None
BY DEF Default, Config, Idle, Process, PcValue, Invocation

LEMMA ContentTypes ==
  /\ Blank \in Content /\ Torn \in Content
  /\ \A c \in Config : Whole(c) \in Content
BY DEF Content

(* What a command loads is a config. *)
LEMMA LoadedType ==
  ASSUME TypeOK
  PROVE  OnDisk \in Config
<1>1. \A x \in Content : x.cfg \in Config
  BY ConfigTypes DEF Content, Blank, Torn, Whole
<1> QED
  BY <1>1, ConfigTypes DEF TypeOK, OnDisk

LEMMA IdTypes ==
  /\ Byow \notin Id /\ None \notin Agent /\ Explicit \notin Id
  /\ Foreign \notin Id /\ Elsewhere \notin Id
  /\ Id \subseteq Wallet /\ Id \subseteq Path /\ Id \subseteq Agent
  /\ Byow \in Wallet /\ Elsewhere \in Wallet /\ Explicit \in Path /\ Foreign \in Agent
BY ConstantsAssumption DEF Id, Wallet, Path, Agent, Byow, Elsewhere, Foreign, None, Explicit

(* The process ends. *)
LEMMA TypeEnd ==
  ASSUME TypeOK, NEW p \in Slot, proc[p].pc # "idle", End(p)
  PROVE  /\ proc' = [proc EXCEPT ![p] = Idle]
         /\ proc' \in [Slot -> Process]
         /\ forgotten' \subseteq Agent
<1>1. proc[p].id \in Id
  BY ConstantsAssumption DEF TypeOK, Id
<1>2. Unsaved(p) \subseteq Agent
  BY <1>1, IdTypes DEF Unsaved
<1> QED
  BY <1>2, ConfigTypes DEF End, TypeOK

LEMMA TypeInit == Init => TypeOK
<1> SUFFICES ASSUME Init PROVE TypeOK
  OBVIOUS
<1>1. runs \in 0 .. MaxRuns
  BY ConstantsAssumption DEF Init
<1>2. proc \in [Slot -> Process] /\ \A p \in Slot : proc[p].pc = "idle"
  BY ConfigTypes DEF Init
<1>3. data \in [Id -> Content]
  BY ContentTypes DEF Init
<1>4. server \in [Agent -> [state : {"none", "active", "deleted"},
                           wallet : Wallet \cup {None}]]
  BY IdTypes DEF Init
<1> QED
  BY <1>1, <1>2, <1>3, <1>4 DEF Init, TypeOK

(* A step of a command from one place to the next. *)
LEMMA TypeMove ==
  ASSUME TypeOK, NEW p \in Slot, NEW pc \in PcValue, Step(p, pc)
  PROVE  proc' \in [Slot -> Process]
BY DEF TypeOK, Step, Process

(* The load, the key and the agent of a command. *)
LEMMA TypeResolve ==
  ASSUME TypeOK, NEW p \in Slot,
         \/ \E inv \in Invocations : Start(p, inv)
         \/ Load(p) \/ ResolveKey(p) \/ Mint(p) \/ Validate(p) \/ Readiness(p)
  PROVE  TypeOK'
<1>1. OnDisk \in Config /\ OnDisk.key \in Agent \cup {None}
  BY LoadedType DEF Config
<1>2. proc[p] \in Process
  BY DEF TypeOK
<1>3. CASE \E inv \in Invocations : Start(p, inv)
  <2>1. PICK inv \in Invocations : Start(p, inv)
    BY <1>3
  <2> DEFINE new == [Idle EXCEPT !.id = runs + 1, !.pc = "load", !.inv = inv,
                                 !.key = FirstKey(inv)]
  <2>2. runs < MaxRuns /\ runs' = runs + 1 /\ proc' = [proc EXCEPT ![p] = new]
    BY <2>1 DEF Start
  <2>3. runs + 1 \in Id
    BY <2>2, ConstantsAssumption DEF TypeOK, Id
  <2>4. inv \in Invocation
    BY ConstantsAssumption
  <2>5. new \in Process /\ new.id = runs + 1 /\ new.pc = "load"
    <3>1. FirstKey(inv) \in Agent \cup {None}
      BY <1>1, IdTypes DEF FirstKey
    <3> QED
      BY <2>3, <2>4, <3>1, ConfigTypes DEF Process, PcValue
  <2> HIDE DEF new
  <2>6. proc' \in [Slot -> Process] /\ runs' \in 0 .. MaxRuns
    BY <2>2, <2>3, <2>5 DEF TypeOK, Id
  <2>7. \A q \in Slot :
          /\ proc'[q].pc # "idle" => proc'[q].id \in 1 .. runs'
          /\ proc'[q].pc \in {"validate", "readiness", "generate", "write", "register"}
               => proc'[q].key # None
          /\ proc'[q].pc \in {"fill", "rename"} => proc'[q].inode # None
    BY <2>2, <2>5, ConstantsAssumption DEF TypeOK
  <2> QED
    BY <2>1, <2>6, <2>7 DEF Start, TypeOK, files
<1>4. CASE Load(p)
  <2>1. proc[p].pc = "load" /\ proc[p].id \in Id
    BY <1>4, ConstantsAssumption DEF Load, TypeOK, Id
  <2>2. Edited(p) \in Config
    BY <1>1, <2>1 DEF Edited, Config
  <2> QED
    BY <1>1, <1>4, <2>1, <2>2 DEF Load, TypeOK, files, Process, PcValue
<1>5. CASE ResolveKey(p)
  <2>1. KnownKey(p) \in Agent \cup {None}
    BY <1>2 DEF KnownKey, Process, Config
  <2> QED
    BY <1>5, <2>1 DEF ResolveKey, TypeOK, files, Process, PcValue
<1>6. CASE Mint(p)
  <2>1. proc[p].id \in Id /\ proc[p].id \in Agent /\ None \notin Agent
    BY <1>6, ConstantsAssumption, IdTypes DEF Mint, TypeOK, Id
  <2>2. server' \in [Agent -> [state : {"none", "active", "deleted"},
                          wallet : Wallet \cup {None}]]
    BY <1>6 DEF Mint, TypeOK
  <2>3. CASE proc' = [proc EXCEPT ![p].key = proc[p].id, ![p].pc = "validate"]
             /\ UNCHANGED forgotten
    BY <1>6, <2>1, <2>2, <2>3 DEF Mint, TypeOK, files, Process, PcValue
  <2>4. CASE proc' = [proc EXCEPT ![p] = Idle]
             /\ forgotten' = forgotten \cup {proc[p].id}
    BY <1>6, <2>1, <2>2, <2>4, ConfigTypes DEF Mint, TypeOK, files
  <2> QED
    BY <1>6, <2>3, <2>4 DEF Mint
<1>7. CASE Validate(p)
  <2>1. CASE Step(p, "readiness") /\ UNCHANGED <<hint, forgotten>>
    <3>1. proc' \in [Slot -> Process]
      BY <2>1, TypeMove DEF PcValue
    <3> QED
      BY <1>7, <2>1, <3>1 DEF Validate, Step, TypeOK, files
  <2>2. CASE hint' = (hint \/ proc[p].key # proc[p].id) /\ End(p)
    <3>1. /\ proc' = [proc EXCEPT ![p] = Idle]
          /\ proc' \in [Slot -> Process]
          /\ forgotten' \subseteq Agent
      BY <1>7, <2>2, TypeEnd DEF Validate
    <3> QED
      BY <1>7, <2>2, <3>1, ConfigTypes DEF Validate, TypeOK, files
  <2> QED
    BY <1>7, <2>1, <2>2 DEF Validate
<1>8. CASE Readiness(p)
  <2>1. CASE End(p)
    <3>1. /\ proc' = [proc EXCEPT ![p] = Idle]
          /\ proc' \in [Slot -> Process]
          /\ forgotten' \subseteq Agent
      BY <1>8, <2>1, TypeEnd DEF Readiness
    <3> QED
      BY <1>8, <3>1, ConfigTypes DEF Readiness, TypeOK, files
  <2>2. CASE proc' = [proc EXCEPT ![p].cfg = WithKey(p), ![p].pc = "save"]
             /\ UNCHANGED forgotten
    <3>1. WithKey(p) \in Config
      BY <1>2 DEF WithKey, Process, Config
    <3> QED
      BY <1>8, <2>2, <3>1 DEF Readiness, TypeOK, files, Process, PcValue
  <2>3. CASE (Step(p, "register") \/ Step(p, "generate")) /\ UNCHANGED forgotten
    <3>1. proc' \in [Slot -> Process]
      BY <2>3, TypeMove DEF PcValue
    <3>2. /\ proc[p].pc = "readiness"
          /\ UNCHANGED <<runs, config, temp, data, keystore, server, hint, note, raced, swapped>>
      BY <1>8 DEF Readiness, files
    <3>3. PICK pc \in {"register", "generate"} : proc' = [proc EXCEPT ![p].pc = pc]
      BY <2>3 DEF Step
    <3>4. proc[p].key # None /\ proc[p].id \in 1 .. runs
      BY <3>2 DEF TypeOK
    <3> QED
      BY <2>3, <3>1, <3>2, <3>3, <3>4 DEF TypeOK
  <2> QED
    BY <1>8, <2>1, <2>2, <2>3 DEF Readiness
<1> QED
  BY <1>3, <1>4, <1>5, <1>6, <1>7, <1>8

LEMMA StorePathType ==
  ASSUME TypeOK, NEW p \in Slot, proc[p].pc # "idle"
  PROVE  StorePath(p) \in Path
BY ConstantsAssumption, IdTypes DEF StorePath, TypeOK, Id

(* The key file and the registration. *)
LEMMA TypeProvision ==
  ASSUME TypeOK, NEW p \in Slot, Truncate(p) \/ WriteKey(p) \/ Register(p)
  PROVE  TypeOK'
<1>1. proc[p] \in Process /\ proc[p].id \in Id
  BY ConstantsAssumption DEF TypeOK, Id, Truncate, WriteKey, Register
<1>2. StorePath(p) \in Path
  BY StorePathType DEF Truncate, WriteKey, Register
<1>3. CASE Truncate(p)
  <2>1. proc' \in [Slot -> Process]
    BY <1>3, TypeMove DEF Truncate, PcValue
  <2> QED
    BY <1>2, <1>3, <2>1 DEF Truncate, Step, TypeOK, files
<1>4. CASE WriteKey(p)
  <2>1. proc' \in [Slot -> Process]
    BY <1>4, TypeMove DEF WriteKey, PcValue
  <2> QED
    BY <1>1, <1>2, <1>4, <2>1 DEF WriteKey, Step, TypeOK, files
<1>5. CASE Register(p)
  <2>1. NewWallet(p) \in Wallet
    BY <1>1, IdTypes DEF NewWallet
  <2>2. server' \in [Agent -> [state : {"none", "active", "deleted"},
                          wallet : Wallet \cup {None}]]
    BY <1>5, <2>1 DEF Register, TypeOK
  <2>3. CASE End(p)
    <3>1. /\ proc' = [proc EXCEPT ![p] = Idle]
          /\ proc' \in [Slot -> Process]
          /\ forgotten' \subseteq Agent
      BY <1>5, <2>3, TypeEnd DEF Register
    <3> QED
      BY <1>5, <2>2, <3>1, ConfigTypes DEF Register, TypeOK, files
  <2>4. CASE proc' = [proc EXCEPT ![p].cfg = WithWallet(p), ![p].pc = "save"]
             /\ UNCHANGED forgotten
    <3>1. WithWallet(p) \in Config
      BY <1>1, <1>2, IdTypes DEF WithWallet, WithKey, Process, Config
    <3> QED
      BY <1>5, <2>2, <2>4, <3>1 DEF Register, TypeOK, files, Process, PcValue
  <2> QED
    BY <1>5, <2>3, <2>4 DEF Register, OnWalletConflict
<1> QED
  BY <1>3, <1>4, <1>5

(* The save. *)
LEMMA TypeSave ==
  ASSUME TypeOK, NEW p \in Slot, OpenTemp(p) \/ FillTemp(p) \/ Rename(p)
  PROVE  TypeOK'
<1>1. proc[p] \in Process /\ proc[p].id \in Id
  BY ConstantsAssumption DEF TypeOK, Id, OpenTemp, FillTemp, Rename
<1>2. CASE OpenTemp(p)
  <2>1. PICK i \in Id : /\ temp' = i
                        /\ data' = [data EXCEPT ![i] = Blank]
                        /\ proc' = [proc EXCEPT ![p].inode = i, ![p].pc = "fill"]
    BY <1>1, <1>2 DEF OpenTemp, TypeOK
  <2>2. data' \in [Id -> Content]
    BY <2>1, ContentTypes DEF TypeOK
  <2>3. proc' \in [Slot -> Process]
    BY <1>1, <2>1 DEF TypeOK, Process, PcValue
  <2>4. i # None
    BY IdTypes
  <2> QED
    BY <1>2, <2>1, <2>2, <2>3, <2>4 DEF OpenTemp, TypeOK
<1>3. CASE FillTemp(p)
  <2>1. Whole(proc[p].cfg) \in Content
    BY <1>1, ContentTypes DEF Process
  <2>2. data' \in [Id -> Content]
    BY <1>3, <2>1, ContentTypes DEF FillTemp, TypeOK
  <2>3. proc' \in [Slot -> Process]
    BY <1>3, TypeMove DEF FillTemp, PcValue
  <2> QED
    BY <1>3, <2>2, <2>3 DEF FillTemp, Step, TypeOK
<1>4. CASE Rename(p)
  <2>1. CASE /\ Step(p, "finish") /\ swapped' = Swaps(proc[p])
             /\ forgotten' = forgotten \cup Replaced(proc[p])
    <3>3. Replaced(proc[p]) \subseteq Agent
      BY LoadedType DEF Replaced, Config
    <3>4. swapped' \in BOOLEAN /\ forgotten' \subseteq Agent
      BY <2>1, <3>3 DEF Swaps, TypeOK
    <3>1. proc' \in [Slot -> Process]
      BY <2>1, TypeMove DEF PcValue
    <3>2. /\ config' \in Id \cup {None} /\ temp' \in Id \cup {None}
          /\ note' \in Id \cup {None} /\ raced' \in BOOLEAN
          /\ UNCHANGED <<runs, data, keystore, server, hint>>
      BY <1>1, <1>4 DEF Rename, TypeOK
    <3> QED
      BY <1>1, <1>4, <2>1, <3>1, <3>2, <3>4 DEF Step, TypeOK, Rename
  <2>2. CASE End(p) /\ UNCHANGED <<config, temp, note, raced, swapped>>
    <3>1. /\ proc' = [proc EXCEPT ![p] = Idle]
          /\ proc' \in [Slot -> Process]
          /\ forgotten' \subseteq Agent
      BY <1>4, <2>2, TypeEnd DEF Rename
    <3> QED
      BY <1>4, <2>2, <3>1, ConfigTypes DEF Rename, TypeOK
  <2> QED
    BY <1>4, <2>1, <2>2 DEF Rename
<1> QED
  BY <1>2, <1>3, <1>4

(* The end of a command, the server, the user. *)
LEMMA TypeRest ==
  ASSUME TypeOK,
         \/ \E p \in Slot : Finish(p) \/ Abort(p)
         \/ \E a \in Agent : Delete(a)
         \/ FollowHint
  PROVE  TypeOK'
<1>1. CASE \E p \in Slot : Finish(p) \/ Abort(p)
  <2>1. PICK p \in Slot : Finish(p) \/ Abort(p)
    BY <1>1
  <2>2. /\ proc' = [proc EXCEPT ![p] = Idle]
        /\ proc' \in [Slot -> Process]
        /\ forgotten' \subseteq Agent
    BY <2>1, TypeEnd DEF Finish, Abort
  <2> QED
    BY <2>1, <2>2, ConfigTypes DEF Finish, Abort, TypeOK, files
<1>2. CASE \E a \in Agent : Delete(a)
  BY <1>2 DEF Delete, TypeOK, files
<1>3. CASE FollowHint
  <2>1. OnDisk.key \in Agent \cup {None}
    BY LoadedType DEF Config
  <2> QED
    BY <1>3, <2>1 DEF FollowHint, TypeOK
<1> QED
  BY <1>1, <1>2, <1>3

LEMMA TypeStep == TypeOK /\ [Next]_vars => TypeOK'
<1> SUFFICES ASSUME TypeOK, [Next]_vars PROVE TypeOK'
  OBVIOUS
<1>1. CASE UNCHANGED vars
  BY <1>1 DEF vars, files, TypeOK
<1>2. CASE Next
  <2>1. CASE \E p \in Slot : \/ \E inv \in Invocations : Start(p, inv)
                            \/ Load(p) \/ ResolveKey(p) \/ Mint(p)
                            \/ Validate(p) \/ Readiness(p)
    BY <2>1, TypeResolve
  <2>2. CASE \E p \in Slot : Truncate(p) \/ WriteKey(p) \/ Register(p)
    BY <2>2, TypeProvision
  <2>3. CASE \E p \in Slot : OpenTemp(p) \/ FillTemp(p) \/ Rename(p)
    BY <2>3, TypeSave
  <2>4. CASE \/ \E p \in Slot : Finish(p) \/ Abort(p)
             \/ \E a \in Agent : Delete(a)
             \/ FollowHint
    BY <2>4, TypeRest
  <2> QED
    BY <1>2, <2>1, <2>2, <2>3, <2>4 DEF Next
<1> QED
  BY <1>1, <1>2

(* Every variable of a host's setup keeps its type, a command past the     *)
(* resolution of the key has one, and no command saves without an open file.*)
THEOREM SetupTypeCorrect == Spec => []TypeOK
BY TypeInit, TypeStep, PTL DEF Spec

(***************************************************************************)
(* A registered wallet's key is on disk.                                   *)
(***************************************************************************)

LEMMA KeyInit == Init => KeyInv
<1> SUFFICES ASSUME Init PROVE KeyInv
  OBVIOUS
<1>1. TypeOK
  BY TypeInit
<1>2. \A p \in Slot : proc[p].pc = "idle"
  BY ConfigTypes DEF Init
<1>3. \A a \in Agent : server[a].wallet \notin Id /\ server[a].wallet \in {None, Elsewhere}
  BY IdTypes DEF Init
<1>4. OwnFile
  BY IdTypes DEF Init, OwnFile
<1>5. OwnRun /\ WrittenFirst
  BY <1>2 DEF OwnRun, WrittenFirst, Before
<1>6. NotYetRegistered /\ Stored
  BY <1>2, <1>3 DEF NotYetRegistered, Stored, Before
<1> QED
  BY <1>1, <1>4, <1>5, <1>6 DEF KeyInv

(* What a step of p may do that leaves keys and wallets alone: end, or go  *)
(* on without going back, and to the registration only with the key stored.*)
Onward(p) ==
  /\ proc[p].pc # "idle"
  /\ proc'[p].id = proc[p].id /\ proc'[p].inv = proc[p].inv
  /\ proc'[p].pc \in Before => proc[p].pc \in Before
  /\ proc'[p].pc \in Before \ {"load"} => proc[p].inv.cmd = "init"
  /\ proc'[p].pc \in {"generate", "write"} => proc[p].inv.wallet = "generate"
  /\ proc'[p].pc = "register" /\ proc[p].inv.wallet # "byow"
       => keystore[proc[p].id] = proc[p].id

LEMMA KeyQuiet ==
  ASSUME KeyInv, TypeOK', NEW p \in Slot,
         runs' = runs, keystore' = keystore,
         \A a \in Agent : server'[a].wallet = server[a].wallet,
         \A q \in Slot \ {p} : proc'[q] = proc[q],
         proc'[p].pc = "idle" \/ Onward(p)
  PROVE  KeyInv'
<1>1. OwnFile' /\ Stored'
  BY DEF KeyInv, OwnFile, Stored
<1>2. OwnRun'
  BY DEF KeyInv, OwnRun, Onward
<1>3. NotYetRegistered'
  BY DEF KeyInv, NotYetRegistered, Onward, Before
<1>4. WrittenFirst'
  BY DEF KeyInv, WrittenFirst, Onward, Before
<1> QED
  BY <1>1, <1>2, <1>3, <1>4 DEF KeyInv

LEMMA QuietEnd ==
  ASSUME TypeOK, NEW p \in Slot, proc' = [proc EXCEPT ![p] = Idle]
  PROVE  /\ \A q \in Slot \ {p} : proc'[q] = proc[q]
         /\ proc'[p].pc = "idle"
BY ConfigTypes DEF TypeOK

(* The steps of a command that change neither a key file nor a wallet. *)
LEMMA KeyOnward ==
  ASSUME KeyInv, TypeOK', NEW p \in Slot,
         \/ Load(p) \/ ResolveKey(p) \/ Mint(p) \/ Validate(p) \/ Readiness(p)
         \/ OpenTemp(p) \/ FillTemp(p) \/ Rename(p) \/ Finish(p) \/ Abort(p)
  PROVE  KeyInv'
<1>1. /\ runs' = runs /\ keystore' = keystore
      /\ proc[p].pc # "idle"
  BY DEF Load, ResolveKey, Mint, Validate, Readiness, OpenTemp, FillTemp, Rename,
         Finish, Abort
<1>2. \A a \in Agent : server'[a].wallet = server[a].wallet
  <2>1. CASE Mint(p)
    BY <2>1 DEF Mint, KeyInv, TypeOK
  <2>2. CASE UNCHANGED server
    BY <2>2
  <2> QED
    BY <2>1, <2>2 DEF Load, ResolveKey, Validate, Readiness, OpenTemp, FillTemp, Rename, Finish,
                      Abort
<1>3. TypeOK /\ proc[p] \in Process
  BY DEF KeyInv, TypeOK
<1>4. CASE proc' = [proc EXCEPT ![p] = Idle]
  BY <1>1, <1>2, <1>3, <1>4, QuietEnd, KeyQuiet
<1>5. CASE End(p)
  BY <1>4, <1>5 DEF End
<1>6. \A q \in Slot \ {p} : proc'[q] = proc[q]
  BY <1>3 DEF Load, ResolveKey, Mint, Validate, Readiness, OpenTemp, FillTemp,
              Rename, Finish, Abort, End, Step, TypeOK
<1>7. CASE Load(p)
  <2>1. Onward(p)
    BY <1>3, <1>7 DEF Load, Onward, Before, TypeOK, Process, Invocation
  <2> QED
    BY <1>1, <1>2, <1>6, <2>1, KeyQuiet
<1>8. CASE ResolveKey(p)
  <2>1. Onward(p)
    BY <1>3, <1>8 DEF ResolveKey, Onward, Before, TypeOK, Process, KeyInv, WrittenFirst
  <2> QED
    BY <1>1, <1>2, <1>6, <2>1, KeyQuiet
<1>9. CASE Mint(p)
  <2>1. CASE proc' = [proc EXCEPT ![p].key = proc[p].id, ![p].pc = "validate"]
    <3>1. Onward(p)
      BY <1>3, <1>9, <2>1 DEF Mint, Onward, Before, TypeOK, Process, KeyInv, WrittenFirst
    <3> QED
      BY <1>1, <1>2, <1>6, <3>1, KeyQuiet
  <2> QED
    BY <1>4, <1>9, <2>1 DEF Mint
<1>10. CASE Validate(p)
  <2>1. CASE Step(p, "readiness")
    <3>1. Onward(p)
      BY <1>3, <1>10, <2>1 DEF Validate, Step, Onward, Before, TypeOK, Process, KeyInv,
                               WrittenFirst
    <3> QED
      BY <1>1, <1>2, <1>6, <3>1, KeyQuiet
  <2> QED
    BY <1>5, <1>10, <2>1 DEF Validate
<1>11. CASE Readiness(p)
  <2>1. proc[p].pc = "readiness" /\ proc[p].inv.cmd = "init"
    BY <1>11 DEF Readiness, KeyInv, WrittenFirst, Before
  <2>2. CASE proc' = [proc EXCEPT ![p].cfg = WithKey(p), ![p].pc = "save"]
    <3>1. Onward(p)
      BY <1>3, <2>1, <2>2 DEF Onward, Before, TypeOK, Process
    <3> QED
      BY <1>1, <1>2, <1>6, <3>1, KeyQuiet
  <2>3. CASE proc[p].inv.wallet = "byow" /\ Step(p, "register")
    <3>1. Onward(p)
      BY <1>3, <2>1, <2>3 DEF Step, Onward, Before, TypeOK, Process
    <3> QED
      BY <1>1, <1>2, <1>6, <3>1, KeyQuiet
  <2>4. CASE proc[p].inv.wallet = "generate" /\ Step(p, "generate")
    <3>1. Onward(p)
      BY <1>3, <2>1, <2>4 DEF Step, Onward, Before, TypeOK, Process
    <3> QED
      BY <1>1, <1>2, <1>6, <3>1, KeyQuiet
  <2> QED
    BY <1>5, <1>11, <2>2, <2>3, <2>4 DEF Readiness
<1>12. CASE OpenTemp(p) \/ FillTemp(p)
  <2>1. Onward(p)
    BY <1>3, <1>12 DEF OpenTemp, FillTemp, Step, Onward, Before, TypeOK, Process
  <2> QED
    BY <1>1, <1>2, <1>6, <2>1, KeyQuiet
<1>13. CASE Rename(p)
  <2>1. CASE Step(p, "finish")
    <3>1. Onward(p)
      BY <1>3, <1>13, <2>1 DEF Rename, Step, Onward, Before, TypeOK, Process
    <3> QED
      BY <1>1, <1>2, <1>6, <3>1, KeyQuiet
  <2> QED
    BY <1>5, <1>13, <2>1 DEF Rename
<1>14. CASE Finish(p) \/ Abort(p)
  BY <1>5, <1>14 DEF Finish, Abort
<1> QED
  BY <1>7, <1>8, <1>9, <1>10, <1>11, <1>12, <1>13, <1>14

(* A new command has a new number. *)
LEMMA KeyStart ==
  ASSUME KeyInv, TypeOK', NEW p \in Slot, NEW inv \in Invocations, Start(p, inv)
  PROVE  KeyInv'
<1> DEFINE new == [Idle EXCEPT !.id = runs + 1, !.pc = "load", !.inv = inv,
                               !.key = FirstKey(inv)]
<1>1. new.id = runs + 1 /\ new.pc = "load" /\ new.inv = inv
  BY DEF Idle
<1> HIDE DEF new
<1>2. /\ runs' = runs + 1 /\ proc' = [proc EXCEPT ![p] = new]
      /\ UNCHANGED <<keystore, server>>
  BY DEF Start, new
<1>3. /\ proc \in [Slot -> Process] /\ runs \in Nat
      /\ \A q \in Slot : proc[q].pc # "idle" => proc[q].id \in 1 .. runs
  BY ConstantsAssumption DEF KeyInv, TypeOK
<1>4. proc'[p] = new /\ \A q \in Slot \ {p} : proc'[q] = proc[q]
  BY <1>2, <1>3
<1>5. OwnFile' /\ Stored'
  BY <1>2 DEF KeyInv, OwnFile, Stored
<1>6. OwnRun'
  BY <1>1, <1>3, <1>4 DEF KeyInv, OwnRun
<1>7. NotYetRegistered'
  <2>1. \A a \in Agent : server[a].wallet \in Id => server[a].wallet <= runs
    BY DEF KeyInv, NotYetRegistered
  <2>2. \A a \in Agent : server[a].wallet # runs + 1
    <3>1. runs + 1 \in Id
      BY <1>3, ConstantsAssumption DEF Start, Id
    <3> QED
      BY <1>3, <2>1, <3>1
  <2>3. \A a \in Agent : server'[a].wallet \in Id => server'[a].wallet <= runs'
    BY <1>2, <1>3, <2>1 DEF Id
  <2>4. \A a \in Agent, q \in Slot :
           proc'[q].pc \in Before => server'[a].wallet # proc'[q].id
    BY <1>1, <1>2, <1>4, <2>2 DEF KeyInv, NotYetRegistered
  <2> QED
    BY <2>3, <2>4 DEF NotYetRegistered
<1>8. WrittenFirst'
  BY <1>1, <1>2, <1>4 DEF KeyInv, WrittenFirst, Before
<1> QED
  BY <1>5, <1>6, <1>7, <1>8 DEF KeyInv

(* A generated key has a file of its own: nobody else's key is there. *)
LEMMA OwnStore ==
  ASSUME KeyInv, DefaultPathsOnly, NEW p \in Slot, proc[p].pc \in {"generate", "write"}
  PROVE  /\ StorePath(p) = proc[p].id
         /\ proc[p].id \in Id
<1>1. proc[p].inv \in Invocations /\ proc[p].inv.cmd = "init"
  BY DEF KeyInv, WrittenFirst, Before
<1>2. ~proc[p].inv.explicit
  BY <1>1 DEF DefaultPathsOnly
<1>3. proc[p].id \in Id
  BY ConstantsAssumption DEF KeyInv, TypeOK, Id
<1> QED
  BY <1>2, <1>3 DEF StorePath

LEMMA KeyFile ==
  ASSUME KeyInv, TypeOK', DefaultPathsOnly, NEW p \in Slot, Truncate(p) \/ WriteKey(p)
  PROVE  KeyInv'
<1>1. /\ proc[p].pc \in {"generate", "write"}
      /\ StorePath(p) = proc[p].id /\ proc[p].id \in Id
  BY OwnStore DEF Truncate, WriteKey
<1>2. PICK k \in {None, proc[p].id}, pc \in {"write", "register"} :
        /\ keystore' = [keystore EXCEPT ![proc[p].id] = k]
        /\ proc' = [proc EXCEPT ![p].pc = pc]
        /\ pc = "register" => k = proc[p].id
        /\ UNCHANGED <<runs, server>>
  BY <1>1 DEF Truncate, WriteKey, Step
<1>3. /\ proc \in [Slot -> Process] /\ keystore \in [Path -> Id \cup {None}]
      /\ Id \subseteq Path
  BY IdTypes DEF KeyInv, TypeOK
<1>4. /\ \A q \in Slot \ {p} : proc'[q] = proc[q]
      /\ proc'[p].pc = pc /\ proc'[p].id = proc[p].id /\ proc'[p].inv = proc[p].inv
  BY <1>2, <1>3 DEF Process
<1>5. /\ keystore'[proc[p].id] = k
      /\ \A f \in Id : f # proc[p].id => keystore'[f] = keystore[f]
  BY <1>1, <1>2, <1>3
<1>6. OwnFile'
  BY <1>2, <1>5 DEF KeyInv, OwnFile
<1>7. OwnRun'
  BY <1>1, <1>4 DEF KeyInv, OwnRun
<1>8. NotYetRegistered'
  BY <1>1, <1>2, <1>4 DEF KeyInv, NotYetRegistered, Before
<1>9. Stored'
  <2>1. \A a \in Agent : server[a].wallet # proc[p].id
    BY <1>1 DEF KeyInv, NotYetRegistered, Before
  <2> QED
    BY <1>2, <1>5, <2>1 DEF KeyInv, Stored
<1>10. WrittenFirst'
  <2>1. \A q \in Slot \ {p} : proc[q].pc = "register" => proc[q].id # proc[p].id
    BY <1>1 DEF KeyInv, OwnRun
  <2>2. \A q \in Slot : proc[q].pc = "register" => proc[q].id \in Id
    BY ConstantsAssumption DEF KeyInv, TypeOK, Id
  <2>3. \A q \in Slot \ {p} : proc[q].pc = "register" =>
                               keystore'[proc[q].id] = keystore[proc[q].id]
    BY <1>5, <2>1, <2>2
  <2> QED
    BY <1>1, <1>2, <1>4, <1>5, <2>3 DEF KeyInv, WrittenFirst, Before
<1> QED
  BY <1>6, <1>7, <1>8, <1>9, <1>10 DEF KeyInv

LEMMA KeyRegister ==
  ASSUME KeyInv, TypeOK', NEW p \in Slot, Register(p)
  PROVE  KeyInv'
<1>1. /\ TypeOK /\ proc \in [Slot -> Process] /\ proc[p] \in Process
      /\ proc[p].pc = "register" /\ proc[p].inv.cmd = "init"
      /\ UNCHANGED <<runs, keystore>>
  BY DEF Register, KeyInv, TypeOK, WrittenFirst, Before
<1>2. proc[p].id \in Id /\ proc[p].id <= runs
  BY <1>1, ConstantsAssumption DEF TypeOK, Id
<1>3. /\ \A q \in Slot \ {p} : proc'[q] = proc[q]
      /\ proc'[p].pc = "idle" \/ (proc'[p].pc = "save" /\ proc'[p].id = proc[p].id
                                  /\ proc'[p].inv = proc[p].inv)
  BY <1>1, ConfigTypes DEF Register, OnWalletConflict, End, Process
<1>4. proc'[p].pc = "idle" \/ Onward(p)
  BY <1>1, <1>3 DEF Onward, Before
<1>5. CASE UNCHANGED server
  BY <1>1, <1>3, <1>4, <1>5, KeyQuiet
<1>6. CASE server' = [server EXCEPT ![proc[p].key].wallet = NewWallet(p)]
  <2>1. \A a \in Agent : server'[a].wallet \in {server[a].wallet, NewWallet(p)}
    BY <1>1, <1>6 DEF TypeOK
  <2>2. /\ NewWallet(p) \in Id => NewWallet(p) = proc[p].id
        /\ NewWallet(p) \in Id => keystore[NewWallet(p)] = NewWallet(p)
        /\ NewWallet(p) \in {Byow, proc[p].id}
    BY <1>1, IdTypes DEF NewWallet, KeyInv, WrittenFirst
  <2>3. OwnFile' /\ Stored'
    BY <1>1, <2>1, <2>2 DEF KeyInv, OwnFile, Stored
  <2>4. OwnRun'
    BY <1>1, <1>3 DEF KeyInv, OwnRun
  <2>5. \A q \in Slot : proc'[q].pc \in Before =>
          /\ proc[q].pc \in Before /\ proc'[q].id = proc[q].id
          /\ proc[q].id \in Id /\ proc[q].id # proc[p].id
    BY <1>1, <1>3, ConstantsAssumption DEF KeyInv, OwnRun, TypeOK, Before, Id
  <2>6. NotYetRegistered'
    BY <1>1, <1>2, <2>1, <2>2, <2>5, IdTypes DEF KeyInv, NotYetRegistered
  <2>7. WrittenFirst'
    BY <1>1, <1>3 DEF KeyInv, WrittenFirst, Before
  <2> QED
    BY <2>3, <2>4, <2>6, <2>7 DEF KeyInv
<1> QED
  BY <1>5, <1>6 DEF Register

LEMMA KeyStep == KeyInv /\ DefaultPathsOnly /\ [Next]_vars => KeyInv'
<1> SUFFICES ASSUME KeyInv, DefaultPathsOnly, [Next]_vars PROVE KeyInv'
  OBVIOUS
<1>1. TypeOK'
  BY TypeStep DEF KeyInv
<1>2. CASE UNCHANGED <<runs, proc, keystore>>
           /\ \A a \in Agent : server'[a].wallet = server[a].wallet
  BY <1>1, <1>2 DEF KeyInv, OwnFile, OwnRun, NotYetRegistered, WrittenFirst, Stored
<1>3. CASE UNCHANGED vars \/ FollowHint
  BY <1>2, <1>3 DEF vars, FollowHint
<1>4. CASE \E a \in Agent : Delete(a)
  BY <1>2, <1>4 DEF Delete, KeyInv, TypeOK
<1>5. CASE \E p \in Slot, inv \in Invocations : Start(p, inv)
  BY <1>1, <1>5, KeyStart
<1>6. CASE \E p \in Slot : Truncate(p) \/ WriteKey(p)
  BY <1>1, <1>6, KeyFile
<1>7. CASE \E p \in Slot : Register(p)
  BY <1>1, <1>7, KeyRegister
<1>8. CASE \E p \in Slot :
             \/ Load(p) \/ ResolveKey(p) \/ Mint(p) \/ Validate(p) \/ Readiness(p)
             \/ OpenTemp(p) \/ FillTemp(p) \/ Rename(p) \/ Finish(p) \/ Abort(p)
  BY <1>1, <1>8, KeyOnward
<1> QED
  BY <1>3, <1>4, <1>5, <1>6, <1>7, <1>8 DEF Next

(* While no command line names a keystore file of its own, every generated *)
(* wallet the server pays to has its key on disk: whatever fails, is killed*)
(* or overlaps (persist_keystore before register_wallet, and a file name   *)
(* that is the new address).                                               *)
THEOREM RegisteredKeySafety ==
  ASSUME DefaultPathsOnly
  PROVE  Spec => []RegisteredKeyOnDisk
<1>1. Init => KeyInv
  BY KeyInit
<1>2. KeyInv /\ [Next]_vars => KeyInv'
  BY KeyStep
<1>3. KeyInv => RegisteredKeyOnDisk
  BY IdTypes DEF KeyInv, Stored, RegisteredKeyOnDisk
<1> QED
  BY <1>1, <1>2, <1>3, PTL DEF Spec

(***************************************************************************)
(* The config file.  A process has the number of its command, and the      *)
(* files it has not created are not its own: the name config.json.tmp is   *)
(* never a second name of the inode of config.json.                        *)
(***************************************************************************)

Inodes ==
  /\ config <= runs /\ temp <= runs
  /\ config # None => config # temp
  /\ \A p \in Slot : proc[p].pc \in Before \cup {"save"} => proc[p].id \notin {config, temp}

FileInv == TypeOK /\ OwnRun /\ Inodes

(* A step of a command that is under way: the others stand still, and the   *)
(* command ends or goes on with its number and its command line.            *)
UnderWay(p) ==
  \/ Load(p) \/ ResolveKey(p) \/ Mint(p) \/ Validate(p) \/ Readiness(p)
  \/ Truncate(p) \/ WriteKey(p) \/ Register(p)
  \/ OpenTemp(p) \/ FillTemp(p) \/ Rename(p) \/ Finish(p) \/ Abort(p)

LEMMA CommandFrame ==
  ASSUME TypeOK, NEW p \in Slot, UnderWay(p)
  PROVE  /\ runs' = runs /\ proc[p].pc # "idle"
         /\ \A q \in Slot \ {p} : proc'[q] = proc[q]
         /\ \/ proc'[p].pc = "idle"
            \/ proc'[p].id = proc[p].id /\ proc'[p].inv = proc[p].inv
<1>1. runs' = runs /\ proc[p].pc # "idle" /\ proc \in [Slot -> Process] /\ proc[p] \in Process
  BY DEF TypeOK, UnderWay, Load, ResolveKey, Mint, Validate, Readiness, Truncate, WriteKey,
         Register, OpenTemp, FillTemp, Rename, Finish, Abort
<1>2. CASE proc' = [proc EXCEPT ![p] = Idle]
  BY <1>1, <1>2, QuietEnd
<1>3. CASE End(p)
  BY <1>2, <1>3 DEF End
<1>4. CASE \E pc : Step(p, pc)
  BY <1>1, <1>4 DEF Step, Process
<1>5. CASE Load(p) \/ ResolveKey(p) \/ OpenTemp(p)
  BY <1>1, <1>5 DEF Load, ResolveKey, OpenTemp, Process
<1>6. CASE Mint(p)
  BY <1>1, <1>2, <1>6 DEF Mint, Process
<1>7. CASE Readiness(p)
  BY <1>1, <1>3, <1>4, <1>7 DEF Readiness, Process
<1>8. CASE Register(p)
  BY <1>1, <1>3, <1>8 DEF Register, OnWalletConflict, Process
<1>9. CASE \/ Validate(p) \/ Truncate(p) \/ WriteKey(p) \/ FillTemp(p) \/ Rename(p)
           \/ Finish(p) \/ Abort(p)
  BY <1>3, <1>4, <1>9 DEF Validate, Truncate, WriteKey, FillTemp, Rename, Finish, Abort
<1> QED
  BY <1>5, <1>6, <1>7, <1>8, <1>9 DEF UnderWay

(* A command does not come back to the steps before the save. *)
LEMMA NoReturn ==
  ASSUME TypeOK, NEW p \in Slot, UnderWay(p), proc'[p].pc \in Before \cup {"save"}
  PROVE  proc[p].pc \in Before
<1>1. proc \in [Slot -> Process] /\ proc[p] \in Process
  BY DEF TypeOK
<1>2. CASE \/ Load(p) \/ ResolveKey(p) \/ Mint(p) \/ Validate(p) \/ Readiness(p)
           \/ Truncate(p) \/ WriteKey(p) \/ Register(p)
  BY <1>2 DEF Before, Load, ResolveKey, Mint, Validate, Readiness, Truncate, WriteKey, Register
<1>3. ~End(p)
  BY QuietEnd DEF End, Before, UnderWay, Load, ResolveKey, Mint, Validate, Readiness, Truncate,
       WriteKey, Register, OpenTemp, FillTemp, Rename, Finish, Abort
<1>4. CASE OpenTemp(p)
  <2>1. proc'[p].pc = "fill"
    BY <1>1, <1>4 DEF OpenTemp, Process
  <2> QED
    BY <2>1 DEF Before
<1>5. CASE FillTemp(p) \/ Rename(p)
  <2>1. proc'[p].pc \in {"rename", "finish"}
    BY <1>1, <1>3, <1>5 DEF FillTemp, Rename, Step, Process
  <2> QED
    BY <2>1 DEF Before
<1>6. CASE Finish(p) \/ Abort(p)
  BY <1>3, <1>6 DEF Finish, Abort
<1> QED
  BY <1>2, <1>4, <1>5, <1>6 DEF UnderWay

(* Only two steps of a command move a name. *)
LEMMA NamesStay ==
  ASSUME TypeOK, NEW p \in Slot, UnderWay(p), ~OpenTemp(p), ~Rename(p)
  PROVE  UNCHANGED <<config, temp>>
BY DEF UnderWay, Load, ResolveKey, Mint, Validate, Readiness, Truncate, WriteKey, Register,
       FillTemp, Finish, Abort, files

LEMMA FileInit == Init => FileInv
<1> SUFFICES ASSUME Init PROVE FileInv
  OBVIOUS
<1>1. TypeOK /\ \A p \in Slot : proc[p].pc = "idle"
  BY TypeInit, ConfigTypes DEF Init
<1> QED
  BY <1>1 DEF Init, FileInv, OwnRun, Inodes, Before, None

LEMMA FileCommand ==
  ASSUME FileInv, TypeOK', NEW p \in Slot, UnderWay(p)
  PROVE  FileInv'
<1> USE DEF FileInv
<1>1. /\ runs' = runs /\ proc[p].pc # "idle" /\ runs \in Nat
      /\ \A q \in Slot \ {p} : proc'[q] = proc[q]
      /\ \/ proc'[p].pc = "idle"
         \/ proc'[p].id = proc[p].id /\ proc'[p].inv = proc[p].inv
  BY CommandFrame, ConstantsAssumption DEF TypeOK
<1>2. OwnRun'
  BY <1>1 DEF OwnRun
<1>3. \A q \in Slot : proc'[q].pc \in Before \cup {"save"} =>
        /\ proc[q].pc \in Before \cup {"save"} /\ proc'[q].id = proc[q].id
        /\ proc[q].id \in 1 .. runs
  BY <1>1, NoReturn DEF TypeOK, Before
<1>4. CASE OpenTemp(p)
  <2>1. /\ proc[p].pc = "save" /\ config' = config /\ proc[p].id \in 1 .. runs
        /\ temp' = (IF temp = None THEN proc[p].id ELSE temp)
        /\ proc'[p].pc = "fill"
    BY <1>4 DEF OpenTemp, TypeOK, Process
  <2>2. \A q \in Slot : proc'[q].pc \in Before \cup {"save"} => proc[q].id # proc[p].id
    BY <1>1, <2>1 DEF OwnRun, Before
  <2>3. Inodes'
    BY <1>1, <1>3, <2>1, <2>2 DEF Inodes
  <2> QED
    BY <1>2, <2>3
<1>5. CASE Rename(p)
  <2>1. \/ UNCHANGED <<config, temp>>
        \/ config' = temp /\ temp' = None /\ temp # None
    BY <1>5 DEF Rename
  <2>2. Inodes'
    BY <1>1, <1>3, <2>1 DEF Inodes, None
  <2> QED
    BY <1>2, <2>2
<1>6. CASE UNCHANGED <<config, temp>>
  BY <1>1, <1>2, <1>3, <1>6 DEF Inodes
<1> QED
  BY <1>4, <1>5, <1>6, NamesStay

(* A new command has a new number. *)
LEMMA NewCommand ==
  ASSUME TypeOK, NEW p \in Slot, NEW inv \in Invocations, Start(p, inv)
  PROVE  /\ runs' = runs + 1 /\ proc[p].pc = "idle" /\ Readable
         /\ proc'[p].id = runs + 1 /\ proc'[p].pc = "load" /\ proc'[p].key = FirstKey(inv)
         /\ proc'[p].inv = inv
         /\ \A q \in Slot \ {p} : proc'[q] = proc[q]
         /\ UNCHANGED <<config, temp, data, keystore, server, hint, note, raced, swapped, forgotten>>
<1> DEFINE new == [Idle EXCEPT !.id = runs + 1, !.pc = "load", !.inv = inv,
                               !.key = FirstKey(inv)]
<1>1. new.id = runs + 1 /\ new.pc = "load" /\ new.key = FirstKey(inv) /\ new.inv = inv
  BY DEF Idle
<1> HIDE DEF new
<1>2. proc' = [proc EXCEPT ![p] = new]
  BY DEF Start, new
<1> QED
  BY <1>1, <1>2 DEF Start, files, TypeOK

LEMMA FileStep == FileInv /\ [Next]_vars => FileInv'
<1> SUFFICES ASSUME FileInv, [Next]_vars PROVE FileInv'
  OBVIOUS
<1> USE DEF FileInv
<1>1. TypeOK' /\ runs \in Nat
  BY TypeStep, ConstantsAssumption DEF TypeOK
<1>2. CASE UNCHANGED <<runs, proc, config, temp>>
  BY <1>1, <1>2 DEF OwnRun, Inodes
<1>3. CASE UNCHANGED vars \/ \E a \in Agent : Delete(a)
  BY <1>2, <1>3 DEF vars, files, Delete
<1>4. CASE FollowHint
  <2>1. UNCHANGED <<runs, proc, temp>> /\ config' = None
    BY <1>4 DEF FollowHint
  <2>2. \A q \in Slot : proc[q].pc \in Before \cup {"save"} => proc[q].id \in 1 .. runs
    BY DEF TypeOK, Before
  <2> QED
    BY <1>1, <2>1, <2>2 DEF OwnRun, Inodes, None
<1>5. ASSUME NEW p \in Slot, NEW inv \in Invocations, Start(p, inv) PROVE FileInv'
  <2>1. /\ runs' = runs + 1 /\ proc'[p].id = runs + 1 /\ UNCHANGED <<config, temp>>
        /\ \A q \in Slot \ {p} : proc'[q] = proc[q]
    BY <1>5, NewCommand
  <2>2. \A q \in Slot : proc[q].pc # "idle" => proc[q].id \in 1 .. runs
    BY DEF TypeOK
  <2>3. OwnRun'
    BY <1>1, <2>1, <2>2 DEF OwnRun
  <2>4. config \in Nat /\ temp \in Nat
    BY DEF TypeOK, Id, None
  <2>5. Inodes'
    BY <1>1, <2>1, <2>2, <2>4 DEF Inodes
  <2> QED
    BY <1>1, <2>3, <2>5
<1>6. ASSUME NEW p \in Slot, UnderWay(p) PROVE FileInv'
  BY <1>1, <1>6, FileCommand
<1> QED
  BY <1>3, <1>4, <1>5, <1>6 DEF Next, UnderWay

(***************************************************************************)
(* While no two saves have overlapped and none has pulled the config from  *)
(* under another command: the command that saves has the temporary file    *)
(* for itself, ...                                                         *)
(***************************************************************************)

Writing == {"fill", "rename"}
Deciding == Before \ {"load"}
Saving == {"save"} \cup Writing

Alone ==
  \A p \in Slot : proc[p].pc \in Writing =>
    /\ \A q \in Slot : proc[q].pc \in Writing => q = p
    /\ temp # None /\ proc[p].inode = temp
    /\ data[temp] = IF proc[p].pc = "fill" THEN Blank ELSE Whole(proc[p].cfg)

(* ... a config names the wallet the server has, ...                        *)
Matches(c) == c.wallet # None => c.key # None /\ server[c.key].wallet = c.wallet

(* ... and what a command works with is what the disk has, but for the key  *)
(* it was given and what the command itself has brought about: the agent it *)
(* minted for want of a key, the wallet it registered, the note it edits.   *)
KeyOf(s) == \/ s.key = FirstKey(s.inv)
            \/ s.key = s.id /\ OnDisk.key = None /\ ~Given(s.inv)

AsLoaded(s) ==
  /\ s.pc \in {"load", "key", "mint"} => s.key = FirstKey(s.inv)
  /\ s.pc = "finish" => s.key = OnDisk.key
  /\ s.pc \in Deciding => s.inv.cmd = "init" /\ s.cfg = OnDisk
  /\ s.pc \in Deciding \cup Saving => KeyOf(s)
  /\ s.pc = "mint" => s.key = None
  /\ s.pc \in Saving =>
       /\ Swaps(s) \/ Matches(s.cfg)
       /\ s.cfg.key = s.key
       /\ s.cfg.note = IF s.inv.cmd = "set" THEN s.id ELSE OnDisk.note

AgentKept(a) ==
  server[a].state = "active" =>
    \/ a \in forgotten \/ OnDisk.key = a
    \/ \E p \in Running : proc[p].key = a

Steady ==
  /\ Alone /\ Readable /\ OnDisk.note = note
  /\ swapped \/ Matches(OnDisk)
  /\ \A p \in Slot : AsLoaded(proc[p])
  /\ \A a \in Id : AgentKept(a)

(* A wallet the server has taken stays. *)
WalletsStay == \A a \in Agent : server[a].wallet # None => server'[a].wallet = server[a].wallet

(* The config is what it was while its name and its inode are. *)
LEMMA DiskStays ==
  ASSUME config' = config, config # None => data'[config] = data[config]
  PROVE  OnDisk' = OnDisk /\ Readable' = Readable
BY DEF OnDisk, Readable

(* So are the key a command begins with and what its save would swap. *)
LEMMA SwapsStay ==
  ASSUME OnDisk' = OnDisk, swapped' = swapped
  PROVE  /\ \A s : Swaps(s)' = Swaps(s)
         /\ \A inv : FirstKey(inv)' = FirstKey(inv)
BY DEF Swaps, Replaced, FirstKey

(* What is left alone is still as it was loaded. *)
LEMMA AsLoadedStays ==
  ASSUME TypeOK, WalletsStay, OnDisk' = OnDisk, swapped' = swapped,
         NEW p \in Slot, AsLoaded(proc[p]), proc'[p] = proc[p]
  PROVE  AsLoaded(proc[p])'
<1>1. proc[p].cfg.key \in Agent \cup {None}
  BY DEF TypeOK, Process, Config
<1>2. Matches(proc[p].cfg) => Matches(proc[p].cfg)'
  BY <1>1 DEF Matches, WalletsStay
<1>3. /\ \A s : Swaps(s)' = Swaps(s)
      /\ \A inv : FirstKey(inv)' = FirstKey(inv)
  BY SwapsStay
<1> QED
  BY <1>2, <1>3 DEF AsLoaded, KeyOf

(* A command's key is the one on disk, was given, or was minted by the      *)
(* command.                                                                *)
LEMMA KeySource ==
  ASSUME TypeOK, NEW p \in Slot, proc[p].pc # "idle", AsLoaded(proc[p])
  PROVE  \/ proc[p].key \in {OnDisk.key, Foreign}
         \/ proc[p].key = proc[p].id /\ proc[p].pc # "finish"
<1>1. proc[p].pc \in PcValue
  BY DEF TypeOK, Process
<1> QED
  BY <1>1 DEF AsLoaded, KeyOf, FirstKey, PcValue, Deciding, Before, Saving, Writing

(* A step of p that leaves the files alone and loses no key. *)
LEMMA SteadyQuiet ==
  ASSUME TypeOK, Steady, NEW p \in Slot, WalletsStay,
         UNCHANGED <<config, temp, data, note, swapped>>, forgotten \subseteq forgotten',
         \A q \in Slot \ {p} : proc'[q] = proc[q],
         proc'[p].pc \notin Writing, AsLoaded(proc[p])',
         \A a \in Id :
           \/ server'[a].state = "active" => server[a].state = "active"
           \/ proc'[p].key = a /\ proc'[p].pc # "idle"
           \/ a \in forgotten',
         \A a \in Id : proc[p].pc # "idle" /\ proc[p].key = a =>
           \/ a \in forgotten' \/ OnDisk.key = a
           \/ proc'[p].key = a /\ proc'[p].pc # "idle"
  PROVE  Steady'
<1> USE DEF Steady
<1>1. OnDisk' = OnDisk /\ Readable' = Readable
  BY DiskStays
<1>2. Alone'
  BY DEF Alone, Writing
<1>3. (swapped \/ Matches(OnDisk))'
  <2>1. OnDisk.key \in Agent \cup {None}
    BY LoadedType DEF Config
  <2> QED
    BY <1>1, <2>1 DEF Matches, WalletsStay
<1>4. \A q \in Slot : AsLoaded(proc[q])'
  <2>1. ASSUME NEW q \in Slot PROVE AsLoaded(proc[q])'
    <3>1. q # p => proc'[q] = proc[q]
      OBVIOUS
    <3> QED
      BY <1>1, <3>1, AsLoadedStays
  <2> QED
    BY <2>1
<1>5. \A a \in Id : AgentKept(a)'
  <2>1. SUFFICES ASSUME NEW a \in Id, server'[a].state = "active"
                 PROVE  \/ a \in forgotten' \/ OnDisk.key = a
                        \/ \E q \in Slot : proc'[q].pc # "idle" /\ proc'[q].key = a
    BY <1>1 DEF AgentKept, Running
  <2>2. CASE \E q \in Slot : proc[q].pc # "idle" /\ proc[q].key = a
    BY <2>2
  <2> QED
    BY <2>1, <2>2 DEF AgentKept, Running
<1> QED
  BY <1>1, <1>2, <1>3, <1>4, <1>5

(* The end of a command throws away no key but the one it minted. *)
LEMMA SteadyEnd ==
  ASSUME TypeOK, Steady, NEW p \in Slot, proc[p].pc # "idle", End(p), WalletsStay,
         UNCHANGED <<config, temp, data, note, swapped>>,
         \A a \in Agent : server'[a].state = "active" => server[a].state = "active"
  PROVE  Steady'
<1>1. /\ \A q \in Slot \ {p} : proc'[q] = proc[q]
      /\ proc'[p].pc = "idle" /\ forgotten \subseteq forgotten'
  BY QuietEnd DEF End
<1>2. AsLoaded(proc[p])'
  BY <1>1 DEF AsLoaded, Deciding, Before, Saving, Writing
<1>3. \A a \in Id : proc[p].key = a => a \in forgotten' \/ OnDisk.key = a
  BY KeySource, IdTypes DEF Steady, End, Unsaved
<1> QED
  BY <1>1, <1>2, <1>3, IdTypes, SteadyQuiet DEF Writing

(* A step of p that goes on with the same key and config. *)
LEMMA SteadyMove ==
  ASSUME TypeOK, Steady, NEW p \in Slot, NEW pc \in Deciding \ {"mint", "key"}, WalletsStay,
         Step(p, pc), proc[p].pc \in Deciding \ {"mint", "key"},
         UNCHANGED <<config, temp, data, note, swapped, forgotten>>,
         \A a \in Agent : server'[a].state = server[a].state
  PROVE  Steady'
<1>1. /\ \A q \in Slot \ {p} : proc'[q] = proc[q]
      /\ proc'[p].pc = pc /\ proc'[p].id = proc[p].id /\ proc'[p].inv = proc[p].inv
      /\ proc'[p].cfg = proc[p].cfg /\ proc'[p].key = proc[p].key
  BY DEF Step, TypeOK, Process
<1>2. OnDisk' = OnDisk
  BY DiskStays
<1>3. AsLoaded(proc[p])'
  BY <1>1, <1>2, SwapsStay DEF Steady, AsLoaded, KeyOf, Deciding, Before, Saving, Writing
<1>4. pc # "idle" /\ pc \notin Writing
  BY DEF Deciding, Before, Writing
<1> QED
  BY <1>1, <1>3, <1>4, IdTypes, SteadyQuiet

LEMMA SteadyStart ==
  ASSUME TypeOK, TypeOK', Steady, NEW p \in Slot, NEW inv \in Invocations, Start(p, inv)
  PROVE  Steady'
<1>1. /\ proc[p].pc = "idle" /\ proc'[p].pc = "load" /\ proc'[p].key = FirstKey(inv)
      /\ proc'[p].inv = inv
      /\ \A q \in Slot \ {p} : proc'[q] = proc[q]
      /\ UNCHANGED <<config, temp, data, note, swapped, server, forgotten>>
  BY NewCommand
<1>2. OnDisk' = OnDisk
  BY <1>1, DiskStays
<1>3. AsLoaded(proc[p])'
  BY <1>1, <1>2, SwapsStay DEF AsLoaded, Deciding, Before, Saving, Writing
<1>4. WalletsStay
  BY <1>1 DEF WalletsStay
<1> QED
  BY <1>1, <1>3, <1>4, SteadyQuiet DEF Writing

(* The second load finds what the first one found. *)
LEMMA SteadyLoad ==
  ASSUME TypeOK, Steady, NEW p \in Slot, Load(p) \/ ResolveKey(p)
  PROVE  Steady'
<1>1. /\ UNCHANGED <<config, temp, data, note, swapped, server, forgotten>>
      /\ proc[p].pc \in {"load", "key"} /\ proc[p].key = FirstKey(proc[p].inv)
      /\ proc \in [Slot -> Process] /\ proc[p] \in Process
  BY DEF Load, ResolveKey, files, TypeOK, Steady, AsLoaded
<1>2. OnDisk' = OnDisk /\ OnDisk \in Config
  BY <1>1, DiskStays, LoadedType
<1>3. /\ WalletsStay /\ (swapped \/ Matches(OnDisk))
      /\ \A s : Swaps(s)' = Swaps(s)
      /\ \A inv : FirstKey(inv)' = FirstKey(inv)
  BY <1>1, <1>2, SwapsStay DEF WalletsStay, Steady
<1>4. CASE Load(p) /\ proc[p].inv.cmd = "set"
  <2>1. /\ \A q \in Slot \ {p} : proc'[q] = proc[q]
        /\ proc'[p].pc = "save" /\ proc'[p].cfg = Edited(p) /\ proc'[p].id = proc[p].id
        /\ proc'[p].inv = proc[p].inv /\ proc'[p].key = proc[p].key
    BY <1>1, <1>4 DEF Load, Process
  <2>2. /\ Edited(p).key = OnDisk.key /\ Edited(p).wallet = OnDisk.wallet
        /\ Edited(p).note = proc[p].id
    BY <1>2 DEF Edited, Config
  <2>3. /\ proc[p].key = FirstKey(proc[p].inv) /\ FirstKey(proc[p].inv) = OnDisk.key
        /\ ~Generated(proc'[p])
    BY <1>1, <1>4, <2>1 DEF FirstKey, Given, Generated
  <2>4. (Swaps(proc[p]) \/ Matches(proc[p].cfg))'
    BY <1>1, <1>2, <1>3, <2>1, <2>2, <2>3 DEF Matches, Swaps
  <2>6. KeyOf(proc[p])'
    BY <1>3, <2>1, <2>3 DEF KeyOf
  <2>5. AsLoaded(proc[p])'
    BY <1>2, <1>4, <2>1, <2>2, <2>3, <2>4, <2>6
    DEF AsLoaded, Deciding, Before, Saving, Writing
  <2> QED
    BY <1>1, <1>3, <2>1, <2>5, SteadyQuiet DEF Writing
<1>5. CASE Load(p) /\ proc[p].inv.cmd # "set"
  <2>1. /\ \A q \in Slot \ {p} : proc'[q] = proc[q]
        /\ proc'[p].pc = "key" /\ proc'[p].cfg = OnDisk /\ proc'[p].id = proc[p].id
        /\ proc'[p].inv = proc[p].inv /\ proc'[p].key = proc[p].key
    BY <1>1, <1>5 DEF Load, Process
  <2>2. proc[p].inv.cmd = "init"
    BY <1>1, <1>5 DEF Process, Invocation
  <2>3. AsLoaded(proc[p])'
    BY <1>1, <1>2, <1>3, <2>1, <2>2 DEF AsLoaded, KeyOf, Deciding, Before, Saving, Writing
  <2> QED
    BY <1>1, <1>3, <2>1, <2>3, SteadyQuiet DEF Writing
<1>6. CASE ResolveKey(p)
  <2>1. proc[p].inv.cmd = "init" /\ proc[p].cfg = OnDisk
    BY <1>6 DEF ResolveKey, Steady, AsLoaded, Deciding, Before
  <2>5. KnownKey(p) = proc[p].key
    BY <1>1, <2>1, IdTypes DEF KnownKey, FirstKey
  <2>2. PICK pc \in {"mint", "validate"} :
          /\ proc' = [proc EXCEPT ![p].key = proc[p].key, ![p].pc = pc]
          /\ pc = "mint" => proc[p].key = None
    BY <1>6, <2>5 DEF ResolveKey
  <2>3. /\ \A q \in Slot \ {p} : proc'[q] = proc[q]
        /\ proc'[p].pc = pc /\ proc'[p].key = proc[p].key /\ proc'[p].cfg = OnDisk
        /\ proc'[p].inv = proc[p].inv /\ proc'[p].id = proc[p].id
    BY <1>1, <2>1, <2>2 DEF Process
  <2>4. AsLoaded(proc[p])'
    BY <1>1, <1>2, <1>3, <2>1, <2>2, <2>3
    DEF AsLoaded, KeyOf, Deciding, Before, Saving, Writing
  <2> QED
    BY <1>1, <1>3, <2>2, <2>3, <2>4, SteadyQuiet DEF Writing
<1> QED
  BY <1>4, <1>5, <1>6

(* An agent is minted only when the config has none. *)
LEMMA SteadyMint ==
  ASSUME TypeOK, Steady, NEW p \in Slot, Mint(p)
  PROVE  Steady'
<1>1. /\ UNCHANGED <<config, temp, data, note, swapped>> /\ forgotten \subseteq forgotten'
      /\ proc[p].pc = "mint" /\ proc[p].key = None /\ FirstKey(proc[p].inv) = None
      /\ proc[p].inv.cmd = "init" /\ proc[p].cfg = OnDisk
      /\ proc \in [Slot -> Process] /\ proc[p] \in Process
  BY DEF Mint, files, TypeOK, Steady, AsLoaded, Deciding, Before
<1>7. OnDisk.key = None /\ ~Given(proc[p].inv)
  BY <1>1, IdTypes DEF FirstKey
<1>2. OnDisk' = OnDisk
  BY <1>1, DiskStays
<1>3. /\ \A a \in Agent : server'[a].wallet = server[a].wallet
      /\ \A a \in Agent : a # proc[p].id => server'[a].state = server[a].state
  BY DEF Mint, TypeOK
<1>4. WalletsStay
  BY <1>3 DEF WalletsStay
<1>5. CASE proc' = [proc EXCEPT ![p].key = proc[p].id, ![p].pc = "validate"]
  <2>1. /\ \A q \in Slot \ {p} : proc'[q] = proc[q]
        /\ proc'[p].pc = "validate" /\ proc'[p].key = proc[p].id /\ proc'[p].cfg = OnDisk
        /\ proc'[p].inv = proc[p].inv /\ proc'[p].id = proc[p].id
    BY <1>1, <1>5 DEF Process
  <2>2. AsLoaded(proc[p])'
    BY <1>1, <1>2, <1>7, <2>1 DEF AsLoaded, KeyOf, Deciding, Before, Saving, Writing
  <2> QED
    BY <1>1, <1>3, <1>4, <2>1, <2>2, IdTypes, SteadyQuiet DEF Writing
<1>6. CASE proc' = [proc EXCEPT ![p] = Idle] /\ forgotten' = forgotten \cup {proc[p].id}
  <2>1. /\ \A q \in Slot \ {p} : proc'[q] = proc[q]
        /\ proc'[p].pc = "idle"
    BY <1>6, QuietEnd
  <2>2. AsLoaded(proc[p])'
    BY <2>1 DEF AsLoaded, Deciding, Before, Saving, Writing
  <2> QED
    BY <1>1, <1>3, <1>4, <1>6, <2>1, <2>2, IdTypes, SteadyQuiet DEF Writing
<1> QED
  BY <1>5, <1>6 DEF Mint

(* The config that is saved is the one that was loaded, with the key. *)
LEMMA SteadyToSave ==
  ASSUME TypeOK, Steady, NEW p \in Slot, WalletsStay, NEW c \in Config,
         proc' = [proc EXCEPT ![p].cfg = c, ![p].pc = "save"],
         proc[p].pc \in {"readiness", "register"},
         UNCHANGED <<config, temp, data, note, swapped, forgotten>>,
         \A a \in Agent : server'[a].state = server[a].state,
         c.key = proc[p].key, c.note = OnDisk.note,
         \/ Swaps([proc[p] EXCEPT !.cfg = c])
         \/ c.wallet # None => c.key # None /\ server'[c.key].wallet = c.wallet
  PROVE  Steady'
<1>1. /\ proc \in [Slot -> Process] /\ proc[p] \in Process /\ proc[p].inv.cmd = "init"
      /\ KeyOf(proc[p])
  BY DEF TypeOK, Steady, AsLoaded, Deciding, Before
<1>2. /\ \A q \in Slot \ {p} : proc'[q] = proc[q]
      /\ proc'[p].pc = "save" /\ proc'[p].key = proc[p].key /\ proc'[p].cfg = c
      /\ proc'[p].inv = proc[p].inv /\ proc'[p].id = proc[p].id
  BY <1>1 DEF Process
<1>3. /\ OnDisk' = OnDisk
      /\ \A s : Swaps(s)' = Swaps(s)
      /\ \A inv : FirstKey(inv)' = FirstKey(inv)
  BY DiskStays, SwapsStay
<1>5. (Swaps(proc[p]) \/ Matches(proc[p].cfg))'
  <2>1. Swaps(proc'[p]) = Swaps([proc[p] EXCEPT !.cfg = c])
    BY <1>1, <1>2 DEF Swaps, Generated, Replaced, Process
  <2> QED
    BY <1>2, <1>3, <2>1 DEF Matches
<1>6. KeyOf(proc[p])'
  BY <1>1, <1>2, <1>3 DEF KeyOf
<1>4. AsLoaded(proc[p])'
  BY <1>1, <1>2, <1>3, <1>5, <1>6 DEF AsLoaded, Deciding, Before, Saving, Writing
<1> QED
  BY <1>2, <1>4, IdTypes, SteadyQuiet DEF Writing

LEMMA SteadyProvision ==
  ASSUME TypeOK, Steady, NEW p \in Slot,
         Validate(p) \/ Readiness(p) \/ Truncate(p) \/ WriteKey(p)
  PROVE  Steady'
<1>1. /\ UNCHANGED <<config, temp, data, note, swapped, server>>
      /\ proc[p].pc \in {"validate", "readiness", "generate", "write"}
  BY DEF Validate, Readiness, Truncate, WriteKey, files
<1>2. WalletsStay
  BY <1>1 DEF WalletsStay
<1>3. CASE End(p)
  BY <1>1, <1>2, <1>3, SteadyEnd
<1>4. CASE /\ \E pc \in {"readiness", "register", "generate", "write"} : Step(p, pc)
           /\ UNCHANGED forgotten
  BY <1>1, <1>2, <1>4, SteadyMove DEF Deciding, Before
<1>5. CASE /\ proc' = [proc EXCEPT ![p].cfg = WithKey(p), ![p].pc = "save"]
           /\ UNCHANGED forgotten /\ Readiness(p)
  <2>1. /\ proc[p].cfg = OnDisk /\ proc[p].key \in Agent \cup {None} /\ proc[p].pc = "readiness"
        /\ KeyOf(proc[p])
    BY <1>5 DEF Readiness, TypeOK, Process, Steady, AsLoaded, Deciding, Before
  <2>2. /\ WithKey(p) \in Config /\ WithKey(p).key = proc[p].key
        /\ WithKey(p).note = OnDisk.note /\ WithKey(p).wallet = OnDisk.wallet
    BY <2>1, LoadedType DEF WithKey, Config
  <2>3. swapped \/ Matches(OnDisk)
    BY DEF Steady
  <2>5. ~Generated(proc[p])
    <3>1. ~End(p) /\ ~Step(p, "register") /\ ~Step(p, "generate")
      BY <1>5, QuietEnd DEF End, Step, TypeOK, Process, Readiness
    <3> QED
      BY <1>5, <3>1 DEF Readiness, Generated
  <2>4. \/ Swaps([proc[p] EXCEPT !.cfg = WithKey(p)])
        \/ WithKey(p).wallet # None =>
              WithKey(p).key # None /\ server'[WithKey(p).key].wallet = WithKey(p).wallet
    <3> DEFINE s == [proc[p] EXCEPT !.cfg = WithKey(p)]
    <3>1. proc[p] \in Process
      BY DEF TypeOK
    <3>2. s.inv = proc[p].inv /\ s.cfg.key = proc[p].key
      BY <2>2, <3>1 DEF Process
    <3> HIDE DEF s
    <3>3. ~Generated(s)
      BY <2>5, <3>2 DEF Generated
    <3>4. CASE swapped
      BY <3>3, <3>4 DEF Swaps, s
    <3>5. CASE ~swapped /\ OnDisk.key \notin {None, proc[p].key}
      <4>1. Given(proc[p].inv)
        BY <2>1, <3>5 DEF KeyOf, FirstKey
      <4>2. OnDisk.key \in Replaced(s)
        BY <3>2, <3>5, <4>1 DEF Replaced
      <4> QED
        BY <3>3, <4>2 DEF Swaps, s
    <3>6. CASE ~swapped /\ OnDisk.key \in {None, proc[p].key}
      BY <1>1, <2>2, <2>3, <3>6 DEF Matches
    <3> QED
      BY <3>4, <3>5, <3>6
  <2> QED
    BY <1>1, <1>2, <1>5, <2>1, <2>2, <2>4, SteadyToSave
<1> QED
  BY <1>3, <1>4, <1>5 DEF Validate, Readiness, Truncate, WriteKey

(* The wallet that goes into the config is the one the server has taken. *)
LEMMA SteadyRegister ==
  ASSUME TypeOK, Steady, NEW p \in Slot, Register(p)
  PROVE  Steady'
<1>1. /\ UNCHANGED <<config, temp, data, note, swapped>> /\ proc[p].pc = "register"
      /\ proc[p] \in Process /\ proc[p].key \in Agent /\ proc[p].id \in Id
      /\ proc[p].cfg = OnDisk /\ OnDisk \in Config
  BY LoadedType, ConstantsAssumption
  DEF Register, files, TypeOK, Process, Id, None, Steady, AsLoaded, Deciding, Before
<1>2. /\ \A a \in Agent : server'[a].state = server[a].state
      /\ WalletsStay
  BY <1>1 DEF Register, TypeOK, WalletsStay
<1>3. CASE End(p)
  BY <1>1, <1>2, <1>3, SteadyEnd
<1>4. CASE /\ server' = [server EXCEPT ![proc[p].key].wallet = NewWallet(p)]
           /\ proc' = [proc EXCEPT ![p].cfg = WithWallet(p), ![p].pc = "save"]
           /\ UNCHANGED forgotten
  <2>1. server'[proc[p].key].wallet = NewWallet(p)
    BY <1>1, <1>4 DEF TypeOK
  <2>2. StorePath(p) \in Path
    BY <1>1, StorePathType
  <2>3. /\ WithWallet(p) \in Config /\ WithWallet(p).key = proc[p].key
        /\ WithWallet(p).note = OnDisk.note /\ WithWallet(p).wallet = NewWallet(p)
    BY <1>1, <2>2, IdTypes DEF WithWallet, WithKey, NewWallet, Config
  <2>4. proc[p].key # None
    BY <1>1, IdTypes
  <2> QED
    BY <1>1, <1>2, <1>4, <2>1, <2>3, <2>4, SteadyToSave
<1> QED
  BY <1>3, <1>4 DEF Register, OnWalletConflict

(* The first to save opens the temporary file for itself. *)
LEMMA SteadyOpen ==
  ASSUME FileInv, Steady, NEW p \in Slot, OpenTemp(p),
         \A q \in Slot : proc[q].pc \notin Writing
  PROVE  Steady'
<1> USE DEF FileInv, Steady
<1> DEFINE i == IF temp = None THEN proc[p].id ELSE temp
<1>1. /\ proc[p].pc = "save" /\ temp' = i /\ data' = [data EXCEPT ![i] = Blank]
      /\ proc' = [proc EXCEPT ![p].inode = i, ![p].pc = "fill"]
      /\ UNCHANGED <<config, server, note, swapped, forgotten>>
      /\ proc \in [Slot -> Process] /\ proc[p] \in Process
  BY DEF OpenTemp, TypeOK
<1>2. /\ i \in Id /\ i # None /\ config # i
  BY <1>1, IdTypes, ConstantsAssumption DEF TypeOK, Inodes, Id
<1>3. /\ \A q \in Slot \ {p} : proc'[q] = proc[q]
      /\ proc'[p].pc = "fill" /\ proc'[p].inode = i /\ proc'[p].cfg = proc[p].cfg
      /\ proc'[p].key = proc[p].key /\ proc'[p].id = proc[p].id /\ proc'[p].inv = proc[p].inv
  BY <1>1 DEF Process
<1>4. data'[i] = Blank /\ (config # None => data'[config] = data[config])
  BY <1>1, <1>2 DEF TypeOK
<1>5. OnDisk' = OnDisk /\ Readable' = Readable
  BY <1>1, <1>4, DiskStays
<1> HIDE DEF i
<1>6. Alone'
  BY <1>1, <1>2, <1>3, <1>4 DEF Alone, Writing
<1>7. /\ WalletsStay
      /\ \A c : Matches(c)' = Matches(c)
      /\ \A s : Swaps(s)' = Swaps(s)
      /\ \A inv : FirstKey(inv)' = FirstKey(inv)
  BY <1>1, <1>5, SwapsStay DEF WalletsStay, Matches
<1>8. \A q \in Slot : AsLoaded(proc[q])'
  <2>1. AsLoaded(proc[p])'
    <3>1. Swaps(proc[p])' = Swaps(proc[p]) /\ KeyOf(proc[p])' = KeyOf(proc[p])
      BY <1>3, <1>5, <1>7 DEF Swaps, Generated, Replaced, KeyOf
    <3> QED
      BY <1>1, <1>3, <1>5, <1>7, <3>1 DEF AsLoaded, Deciding, Before, Saving, Writing
  <2> QED
    BY <1>1, <1>3, <1>5, <1>7, <2>1, AsLoadedStays
<1>9. \A a \in Id : AgentKept(a)'
  BY <1>1, <1>3, <1>5 DEF AgentKept, Running
<1> QED
  BY <1>1, <1>5, <1>6, <1>7, <1>8, <1>9 DEF Matches

(* Alone, it writes one whole config into it, beside the one that is read. *)
LEMMA SteadyFill ==
  ASSUME FileInv, Steady, NEW p \in Slot, FillTemp(p)
  PROVE  Steady'
<1> USE DEF FileInv, Steady
<1>1. /\ proc[p].pc = "fill" /\ proc[p].inode = temp /\ temp # None /\ data[temp] = Blank
      /\ \A q \in Slot : proc[q].pc \in Writing => q = p
      /\ UNCHANGED <<config, temp, server, note, swapped, forgotten>>
      /\ proc \in [Slot -> Process] /\ proc[p] \in Process /\ temp \in Id
  BY DEF FillTemp, Alone, Writing, TypeOK
<1>2. data' = [data EXCEPT ![temp] = Whole(proc[p].cfg)] /\ Step(p, "rename")
  BY <1>1 DEF FillTemp
<1>3. /\ \A q \in Slot \ {p} : proc'[q] = proc[q]
      /\ proc'[p].pc = "rename" /\ proc'[p].inode = temp /\ proc'[p].cfg = proc[p].cfg
      /\ proc'[p].key = proc[p].key /\ proc'[p].id = proc[p].id /\ proc'[p].inv = proc[p].inv
  BY <1>1, <1>2 DEF Step, Process
<1>4. /\ data'[temp] = Whole(proc[p].cfg)
      /\ config # None => data'[config] = data[config]
  BY <1>1, <1>2 DEF TypeOK, Inodes
<1>5. OnDisk' = OnDisk /\ Readable' = Readable
  BY <1>1, <1>4, DiskStays
<1>6. Alone'
  BY <1>1, <1>3, <1>4 DEF Alone, Writing
<1>7. /\ WalletsStay
      /\ \A c : Matches(c)' = Matches(c)
      /\ \A s : Swaps(s)' = Swaps(s)
      /\ \A inv : FirstKey(inv)' = FirstKey(inv)
  BY <1>1, <1>5, SwapsStay DEF WalletsStay, Matches
<1>8. \A q \in Slot : AsLoaded(proc[q])'
  <2>1. AsLoaded(proc[p])'
    <3>1. Swaps(proc[p])' = Swaps(proc[p]) /\ KeyOf(proc[p])' = KeyOf(proc[p])
      BY <1>3, <1>5, <1>7 DEF Swaps, Generated, Replaced, KeyOf
    <3> QED
      BY <1>1, <1>3, <1>5, <1>7, <3>1 DEF AsLoaded, Deciding, Before, Saving, Writing
  <2> QED
    BY <1>1, <1>3, <1>5, <1>7, <2>1, AsLoadedStays
<1>9. \A a \in Id : AgentKept(a)'
  BY <1>1, <1>3, <1>5 DEF AgentKept, Running
<1> QED
  BY <1>1, <1>5, <1>6, <1>7, <1>8, <1>9 DEF Matches

(* With no other command under way the rename makes this config the one on *)
(* disk, with the same agent as before or one where there was none.        *)
LEMMA SteadyRename ==
  ASSUME FileInv, Steady, NEW p \in Slot, Rename(p), Running = {p}
  PROVE  Steady'
<1> USE DEF FileInv, Steady
<1>1. /\ proc[p].pc = "rename" /\ temp # None /\ data[temp] = Whole(proc[p].cfg)
      /\ \A q \in Slot \ {p} : proc[q].pc = "idle"
      /\ proc \in [Slot -> Process] /\ proc[p] \in Process
  BY DEF Rename, Alone, Writing, TypeOK, Running
<1>2. /\ config' = temp /\ temp' = None /\ Step(p, "finish")
      /\ note' = (IF proc[p].inv.cmd = "set" THEN proc[p].id ELSE note)
      /\ swapped' = Swaps(proc[p]) /\ forgotten' = forgotten \cup Replaced(proc[p])
      /\ UNCHANGED <<data, server>>
  BY <1>1 DEF Rename
<1>3. /\ \A q \in Slot \ {p} : proc'[q] = proc[q]
      /\ proc'[p].pc = "finish" /\ proc'[p].key = proc[p].key
  BY <1>1, <1>2 DEF Step, Process
<1>4. /\ Swaps(proc[p]) \/ Matches(proc[p].cfg)
      /\ proc[p].cfg.key = proc[p].key
      /\ proc[p].cfg.note = (IF proc[p].inv.cmd = "set" THEN proc[p].id ELSE note)
      /\ KeyOf(proc[p])
  BY <1>1 DEF AsLoaded, Saving, Writing
<1>10. OnDisk.key \in {None, proc[p].key} \cup Replaced(proc[p])
  BY <1>4 DEF KeyOf, FirstKey, Replaced
<1>5. OnDisk' = proc[p].cfg /\ Readable'
  BY <1>1, <1>2 DEF OnDisk, Readable, Whole
<1>6. Alone'
  BY <1>1, <1>3 DEF Alone, Writing
<1>7. OnDisk'.note = note' /\ (swapped \/ Matches(OnDisk))'
  BY <1>2, <1>4, <1>5 DEF Matches
<1>8. \A q \in Slot : AsLoaded(proc[q])'
  <2>1. AsLoaded(proc[p])'
    BY <1>3, <1>4, <1>5 DEF AsLoaded, Deciding, Before, Saving, Writing
  <2>2. ASSUME NEW q \in Slot \ {p} PROVE AsLoaded(proc[q])'
    BY <1>1, <1>3 DEF AsLoaded, Deciding, Before, Saving, Writing
  <2> QED
    BY <2>1, <2>2
<1>9. \A a \in Id : AgentKept(a)'
  <2>1. ASSUME NEW a \in Id, server[a].state = "active"
        PROVE  a \in forgotten \/ OnDisk.key = a \/ proc[p].key = a
    BY <1>1, <2>1 DEF AgentKept, Running
  <2>2. \A a \in Id : a # None
    BY IdTypes
  <2> QED
    BY <1>2, <1>4, <1>5, <1>10, <2>1, <2>2 DEF AgentKept
<1> QED
  BY <1>5, <1>6, <1>7, <1>8, <1>9

(* The user deletes the config when nothing runs, and its key with it. *)
LEMMA SteadyHint ==
  ASSUME TypeOK, Steady, FollowHint
  PROVE  Steady'
<1> USE DEF Steady
<1>1. /\ \A q \in Slot : proc[q].pc = "idle"
      /\ config' = None /\ note' = None /\ swapped' = FALSE /\ UNCHANGED <<proc, server>>
      /\ forgotten' = forgotten \cup ({OnDisk.key} \ {None})
  BY DEF FollowHint, Running
<1>2. OnDisk' = Default /\ Readable'
  BY <1>1 DEF OnDisk, Readable
<1>3. Alone' /\ OnDisk'.note = note' /\ Matches(OnDisk)'
  BY <1>1, <1>2 DEF Alone, Writing, Matches, Default
<1>4. \A q \in Slot : AsLoaded(proc[q])'
  BY <1>1 DEF AsLoaded, Deciding, Before, Saving, Writing
<1>5. \A a \in Id : AgentKept(a)'
  BY <1>1, <1>2, IdTypes DEF AgentKept, Running
<1> QED
  BY <1>2, <1>3, <1>4, <1>5

SteadyInv == FileInv /\ (~raced => Steady)

LEMMA SteadyInit == Init => SteadyInv
<1> SUFFICES ASSUME Init PROVE SteadyInv
  OBVIOUS
<1>1. \A p \in Slot : proc[p].pc = "idle"
  BY ConfigTypes DEF Init
<1>2. OnDisk = Default /\ Readable
  BY DEF Init, OnDisk, Readable
<1>3. Steady
  <2>1. Alone /\ \A p \in Slot : AsLoaded(proc[p])
    BY <1>1 DEF Alone, AsLoaded, Deciding, Before, Saving, Writing
  <2>2. OnDisk.note = note /\ Matches(OnDisk)
    BY <1>2 DEF Init, Matches, Default
  <2>3. \A a \in Id : AgentKept(a)
    BY IdTypes DEF Init, AgentKept
  <2> QED
    BY <1>2, <2>1, <2>2, <2>3 DEF Steady
<1> QED
  BY <1>3, FileInit DEF SteadyInv

LEMMA SteadyStep == SteadyInv /\ [Next]_vars => SteadyInv'
<1> SUFFICES ASSUME SteadyInv, [Next]_vars PROVE SteadyInv'
  OBVIOUS
<1>1. FileInv /\ FileInv' /\ TypeOK /\ TypeOK'
  BY FileStep DEF SteadyInv, FileInv
<1>2. ~raced' => ~raced
  BY DEF Next, vars, files, Start, Load, ResolveKey, Mint, Validate, Readiness, Truncate, WriteKey,
         Register, OpenTemp, FillTemp, Rename, Finish, Abort, Delete, FollowHint
<1> SUFFICES ASSUME ~raced', Steady PROVE Steady'
  BY <1>1, <1>2 DEF SteadyInv
<1>3. CASE UNCHANGED vars
  <2>1. /\ UNCHANGED <<proc, server, note, swapped, forgotten, temp, data>>
        /\ OnDisk' = OnDisk /\ Readable' = Readable
    BY <1>3, DiskStays DEF vars, files
  <2>2. WalletsStay
    BY <2>1 DEF WalletsStay
  <2>3. \A q \in Slot : AsLoaded(proc[q])'
    BY <1>1, <2>1, <2>2, AsLoadedStays DEF Steady
  <2> QED
    BY <2>1, <2>3 DEF Steady, Alone, Matches, AgentKept, Running
<1>4. ASSUME NEW a \in Agent, Delete(a) PROVE Steady'
  <2>1. /\ UNCHANGED <<proc, config, temp, data, note, swapped, forgotten>>
        /\ \A b \in Agent : /\ server'[b].wallet = server[b].wallet
                            /\ server'[b].state = "active" => server[b].state = "active"
    BY <1>1, <1>4 DEF Delete, files, TypeOK
  <2>2. WalletsStay /\ OnDisk' = OnDisk /\ Readable' = Readable
    BY <2>1, DiskStays DEF WalletsStay
  <2>3. \A q \in Slot : AsLoaded(proc[q])'
    BY <1>1, <2>1, <2>2, AsLoadedStays DEF Steady
  <2>4. OnDisk.key \in Agent \cup {None}
    BY <1>1, LoadedType DEF Config
  <2>5. Alone' /\ (swapped \/ Matches(OnDisk))'
    BY <2>1, <2>2, <2>4 DEF Steady, Alone, Matches
  <2>6. \A b \in Id : AgentKept(b)'
    BY <2>1, <2>2, IdTypes DEF Steady, AgentKept, Running
  <2> QED
    BY <2>1, <2>2, <2>3, <2>5, <2>6 DEF Steady
<1>5. ASSUME NEW p \in Slot, Finish(p) \/ Abort(p) PROVE Steady'
  <2>1. /\ UNCHANGED <<config, temp, data, note, swapped, server>> /\ End(p) /\ proc[p].pc # "idle"
    BY <1>5 DEF Finish, Abort, files
  <2> QED
    BY <1>1, <2>1, SteadyEnd DEF WalletsStay
<1>6. ASSUME NEW p \in Slot, OpenTemp(p) PROVE Steady'
  <2>1. \A q \in Slot : proc[q].pc \notin Writing
    BY <1>6 DEF OpenTemp, Writing
  <2> QED
    BY <1>1, <1>6, <2>1, SteadyOpen
<1>7. ASSUME NEW p \in Slot, Rename(p) PROVE Steady'
  <2>1. temp # None
    BY <1>7 DEF Rename, Steady, Alone, Writing
  <2>2. Running = {p}
    BY <1>7, <2>1 DEF Rename
  <2> QED
    BY <1>1, <1>7, <2>2, SteadyRename
<1> QED
  BY <1>1, <1>3, <1>4, <1>5, <1>6, <1>7, SteadyStart, SteadyLoad, SteadyMint, SteadyProvision,
     SteadyRegister, SteadyFill, SteadyHint DEF Next

LEMMA SteadyInvariance == Spec => []SteadyInv
BY SteadyInit, SteadyStep, PTL DEF Spec

(* A kill between any two steps of any command leaves a config every later  *)
(* command can load, unless saves overlapped: the temporary file is never a *)
(* second name of config.json (Config::save, config.rs).                    *)
THEOREM ReadableSafety == Spec => []ConfigReadable
<1>1. SteadyInv => ConfigReadable
  BY DEF SteadyInv, Steady, ConfigReadable
<1> QED
  BY <1>1, SteadyInvariance, PTL

(* The key of an active agent minted here is on disk or with a running      *)
(* command, unless the run that minted it died before its save, the user    *)
(* deleted the file, a key given to init took its place, or saves overlapped.*)
THEOREM AgentSafety == Spec => []NoAgentForgotten
<1>1. SteadyInv => NoAgentForgotten
  BY DEF SteadyInv, Steady, AgentKept, NoAgentForgotten
<1> QED
  BY <1>1, SteadyInvariance, PTL

(* What `config set` reported as written is still there after any number of *)
(* runs of init: init writes back the whole config it loaded.               *)
THEOREM EditSafety == Spec => []EditKept
<1>1. SteadyInv => EditKept
  BY DEF SteadyInv, Steady, EditKept
<1> QED
  BY <1>1, SteadyInvariance, PTL

(***************************************************************************)
(* The keystore a config names.  With default paths it is named after the  *)
(* wallet.                                                                 *)
(***************************************************************************)

Paired(c) == c.store = IF c.wallet \in Id THEN c.wallet ELSE None
WillPair(s) == s.pc \in Saving => Swaps(s) \/ Paired(s.cfg)
PairedInv == ~raced =>
  /\ swapped \/ Paired(OnDisk)
  /\ \A p \in Slot : WillPair(proc[p])

(* A save touches the config only at its rename. *)
LEMMA DiskUntilRename ==
  ASSUME FileInv, Steady, NEW p \in Slot, UnderWay(p), ~Rename(p)
  PROVE  OnDisk' = OnDisk
<1> USE DEF FileInv
<1>1. CASE UNCHANGED <<config, data>>
  BY <1>1, DiskStays
<1>2. CASE OpenTemp(p)
  <2>1. config # None => config # (IF temp = None THEN proc[p].id ELSE temp)
    BY <1>2 DEF OpenTemp, Inodes
  <2>2. config' = config /\ (config # None => data'[config] = data[config])
    BY <1>2, <2>1 DEF OpenTemp, TypeOK
  <2> QED
    BY <2>2, DiskStays
<1>3. CASE FillTemp(p)
  <2>1. proc[p].inode = temp /\ (config # None => config # temp)
    BY <1>3 DEF FillTemp, Steady, Alone, Writing, Inodes
  <2>2. config' = config /\ (config # None => data'[config] = data[config])
    BY <1>3, <2>1 DEF FillTemp, TypeOK
  <2> QED
    BY <2>2, DiskStays
<1> QED
  BY <1>1, <1>2, <1>3 DEF UnderWay, Load, ResolveKey, Mint, Validate, Readiness, Truncate,
       WriteKey, Register, Finish, Abort, files

(* A wallet is written into a config that has none, unless a given key takes*)
(* another's place.                                                         *)
LEMMA PairedRegister ==
  ASSUME KeyInv, DefaultPathsOnly, Steady, swapped \/ Paired(OnDisk), NEW p \in Slot,
         Register(p), ~End(p)
  PROVE  Swaps(proc'[p]) \/ Paired(proc'[p].cfg)
<1>1. /\ TypeOK /\ proc \in [Slot -> Process] /\ proc[p] \in Process
      /\ proc[p].pc = "register" /\ proc[p].cfg = OnDisk /\ OnDisk \in Config
      /\ proc[p].id \in Id /\ proc[p].inv \in Invocations /\ proc[p].inv.cmd = "init"
      /\ KeyOf(proc[p])
  BY LoadedType, ConstantsAssumption
  DEF Register, TypeOK, Id, Steady, AsLoaded, Deciding, Before, KeyInv, WrittenFirst
<1>2. /\ server[proc[p].key].wallet = None
      /\ proc' = [proc EXCEPT ![p].cfg = WithWallet(p), ![p].pc = "save"]
  BY DEF Register, OnWalletConflict
<1>3. proc'[p].cfg = WithWallet(p) /\ proc'[p].inv = proc[p].inv
  BY <1>1, <1>2 DEF Process
<1>4. WithKey(p) = [OnDisk EXCEPT !.key = proc[p].key]
  BY <1>1 DEF WithKey
<1>5. CASE proc[p].inv.wallet # "byow"
  <2>1. StorePath(p) = proc[p].id
    BY <1>1 DEF StorePath, DefaultPathsOnly
  <2>2. WithWallet(p).wallet = proc[p].id /\ WithWallet(p).store = proc[p].id
    BY <1>1, <1>4, <1>5, <2>1 DEF WithWallet, Config
  <2> QED
    BY <1>1, <1>3, <2>2 DEF Paired
<1>6. CASE proc[p].inv.wallet = "byow"
  <2>1. /\ WithWallet(p).wallet = Byow /\ WithWallet(p).store = OnDisk.store
        /\ WithWallet(p).key = proc[p].key
    BY <1>1, <1>4, <1>6 DEF WithWallet, Config
  <2>2. ~Generated(proc'[p])
    BY <1>3, <1>6 DEF Generated
  <2>3. CASE swapped \/ OnDisk.key \notin {None, proc[p].key}
    <3>1. OnDisk.key \notin {None, proc[p].key} => Given(proc[p].inv)
      BY <1>1 DEF KeyOf, FirstKey
    <3>2. OnDisk.key \notin {None, proc[p].key} => OnDisk.key \in Replaced(proc'[p])
      BY <1>3, <2>1, <3>1 DEF Replaced
    <3> QED
      BY <2>2, <2>3, <3>2 DEF Swaps
  <2>4. CASE ~swapped /\ OnDisk.key \in {None, proc[p].key}
    <3>1. OnDisk.wallet = None
      BY <1>2, <2>4 DEF Steady, Matches
    <3>2. OnDisk.store = None
      BY <2>4, <3>1, IdTypes DEF Paired
    <3> QED
      BY <1>3, <2>1, <3>2, IdTypes DEF Paired
  <2> QED
    BY <2>3, <2>4
<1> QED
  BY <1>5, <1>6

(* What any other step takes into a save has the pair from the disk. *)
LEMMA PairedCommand ==
  ASSUME KeyInv, DefaultPathsOnly, Steady, swapped \/ Paired(OnDisk), NEW p \in Slot,
         UnderWay(p), WillPair(proc[p]), proc'[p].pc \in Saving
  PROVE  Swaps(proc'[p]) \/ Paired(proc'[p].cfg)
<1>1. /\ TypeOK /\ proc \in [Slot -> Process] /\ proc[p] \in Process /\ OnDisk \in Config
  BY LoadedType DEF KeyInv, TypeOK
<1>2. ~End(p) /\ proc' # [proc EXCEPT ![p] = Idle]
  <2>1. proc[p].pc # "idle"
    BY <1>1, CommandFrame
  <2> QED
    BY <1>1, <2>1, QuietEnd DEF End, Saving, Writing
<1>3. CASE Load(p)
  <2>1. /\ proc'[p].cfg = Edited(p) /\ proc'[p].inv = proc[p].inv /\ proc[p].inv.cmd = "set"
        /\ Edited(p).wallet = OnDisk.wallet /\ Edited(p).store = OnDisk.store
    BY <1>1, <1>3 DEF Load, Edited, Config, Process, Saving, Writing
  <2> QED
    BY <2>1 DEF Paired, Swaps, Generated
<1>4. CASE Readiness(p)
  <2>1. proc[p].cfg = OnDisk
    BY <1>4 DEF Readiness, Steady, AsLoaded, Deciding, Before
  <2>2. CASE Step(p, "register") \/ Step(p, "generate")
    BY <1>1, <2>2 DEF Step, Process, Saving, Writing
  <2>3. CASE /\ proc' = [proc EXCEPT ![p].cfg = WithKey(p), ![p].pc = "save"]
             /\ proc[p].inv.wallet \in {"skip", "auto"}
    <3>1. proc'[p].cfg = WithKey(p) /\ ~Generated(proc'[p])
      BY <1>1, <2>3 DEF Process, Generated
    <3>2. WithKey(p).wallet = OnDisk.wallet /\ WithKey(p).store = OnDisk.store
      BY <1>1, <2>1 DEF WithKey, Config
    <3> QED
      BY <3>1, <3>2 DEF Paired, Swaps
  <2> QED
    BY <1>2, <1>4, <2>2, <2>3 DEF Readiness
<1>5. CASE Register(p)
  BY <1>2, <1>5, PairedRegister
<1>6. CASE OpenTemp(p) \/ FillTemp(p)
  <2>1. /\ proc'[p].cfg = proc[p].cfg /\ proc'[p].inv = proc[p].inv
        /\ proc[p].pc \in Saving
    BY <1>1, <1>6 DEF OpenTemp, FillTemp, Step, Process, Saving, Writing
  <2> QED
    BY <2>1 DEF WillPair, Swaps, Generated, Replaced
<1>8. CASE ResolveKey(p) \/ Mint(p)
  <2>1. proc'[p].pc \in {"mint", "validate"}
    BY <1>1, <1>2, <1>8 DEF ResolveKey, Mint, Process
  <2> QED
    BY <2>1 DEF Saving, Writing
<1>9. CASE Validate(p) \/ Truncate(p) \/ WriteKey(p) \/ Rename(p)
  <2>1. \E pc \in {"readiness", "write", "register", "finish"} : Step(p, pc)
    BY <1>2, <1>9 DEF Validate, Truncate, WriteKey, Rename
  <2> QED
    BY <1>1, <2>1 DEF Step, Process, Saving, Writing
<1> QED
  BY <1>2, <1>3, <1>4, <1>5, <1>6, <1>8, <1>9 DEF UnderWay, Finish, Abort

PairInv == SteadyInv /\ KeyInv /\ PairedInv

LEMMA PairStep == PairInv /\ DefaultPathsOnly /\ [Next]_vars => PairInv'
<1> SUFFICES ASSUME PairInv, DefaultPathsOnly, [Next]_vars PROVE PairInv'
  OBVIOUS
<1>1. /\ SteadyInv /\ SteadyInv' /\ KeyInv /\ KeyInv' /\ FileInv /\ TypeOK
  BY SteadyStep, KeyStep DEF PairInv, SteadyInv, FileInv
<1>2. ~raced' => ~raced
  BY DEF Next, vars, files, Start, Load, ResolveKey, Mint, Validate, Readiness, Truncate, WriteKey,
         Register, OpenTemp, FillTemp, Rename, Finish, Abort, Delete, FollowHint
<1> SUFFICES ASSUME ~raced', Steady, swapped \/ Paired(OnDisk),
                    \A p \in Slot : WillPair(proc[p])
             PROVE  /\ (swapped \/ Paired(OnDisk))'
                    /\ \A p \in Slot : WillPair(proc[p])'
  BY <1>1, <1>2 DEF PairInv, SteadyInv, PairedInv
<1>3. ASSUME UNCHANGED <<config, data, swapped>>
      PROVE  /\ (swapped \/ Paired(OnDisk))'
             /\ \A s : Swaps(s)' = Swaps(s)
             /\ \A q \in Slot : proc'[q] = proc[q] => WillPair(proc[q])'
  <2>1. OnDisk' = OnDisk
    BY <1>3, DiskStays
  <2>2. \A s : Swaps(s)' = Swaps(s)
    BY <1>3, <2>1, SwapsStay
  <2> QED
    BY <1>3, <2>1, <2>2 DEF Paired, WillPair
<1>4. CASE UNCHANGED vars \/ \E a \in Agent : Delete(a)
  BY <1>3, <1>4 DEF vars, files, Delete
<1>5. CASE FollowHint
  <2>1. /\ OnDisk' = Default /\ UNCHANGED proc
        /\ \A q \in Slot : proc[q].pc = "idle"
    BY <1>5 DEF FollowHint, OnDisk, Running
  <2> QED
    BY <2>1, IdTypes DEF Paired, Default, WillPair, Saving, Writing
<1>6. ASSUME NEW p \in Slot, NEW inv \in Invocations, Start(p, inv)
      PROVE  /\ (swapped \/ Paired(OnDisk))'
             /\ \A q \in Slot : WillPair(proc[q])'
  <2>1. /\ proc'[p].pc = "load" /\ \A q \in Slot \ {p} : proc'[q] = proc[q]
        /\ UNCHANGED <<config, data, swapped>>
    BY <1>1, <1>6, NewCommand
  <2>2. WillPair(proc[p])'
    BY <2>1 DEF WillPair, Saving, Writing
  <2> QED
    BY <1>3, <2>1, <2>2
<1>7. ASSUME NEW p \in Slot, UnderWay(p)
      PROVE  /\ (swapped \/ Paired(OnDisk))'
             /\ \A q \in Slot : WillPair(proc[q])'
  <2>1. \A q \in Slot \ {p} : proc'[q] = proc[q]
    BY <1>1, <1>7, CommandFrame
  <2>2. proc'[p].pc \in Saving => Swaps(proc'[p]) \/ Paired(proc'[p].cfg)
    BY <1>1, <1>7, PairedCommand
  <2>3. CASE ~Rename(p)
    <3>1. OnDisk' = OnDisk /\ swapped' = swapped
      BY <1>1, <1>7, <2>3, DiskUntilRename
      DEF UnderWay, Load, ResolveKey, Mint, Validate, Readiness, Truncate, WriteKey, Register,
          OpenTemp, FillTemp, Finish, Abort
    <3>2. \A s : Swaps(s)' = Swaps(s)
      BY <3>1, SwapsStay
    <3>3. WillPair(proc[p])'
      BY <2>2, <3>2 DEF WillPair, Swaps, Generated, Replaced, Paired
    <3>4. ASSUME NEW q \in Slot \ {p} PROVE WillPair(proc[q])'
      BY <2>1, <3>2 DEF WillPair, Paired
    <3> QED
      BY <3>1, <3>3, <3>4 DEF Paired
  <2>4. CASE Rename(p)
    <3>1. /\ temp # None /\ data[temp] = Whole(proc[p].cfg) /\ proc[p].pc \in Saving
          /\ config' = temp /\ data' = data /\ swapped' = Swaps(proc[p])
          /\ Running = {p} /\ Step(p, "finish")
      BY <2>4 DEF Rename, Steady, Alone, Writing, Saving
    <3>2. OnDisk' = proc[p].cfg
      BY <3>1 DEF OnDisk, Readable, Whole
    <3>3. (swapped \/ Paired(OnDisk))'
      BY <3>1, <3>2 DEF WillPair, Paired
    <3>4. \A q \in Slot : proc'[q].pc \notin Saving
      BY <1>1, <2>1, <3>1 DEF Running, Step, Saving, Writing, TypeOK, Process
    <3> QED
      BY <3>3, <3>4 DEF WillPair
  <2> QED
    BY <2>3, <2>4
<1> QED
  BY <1>4, <1>5, <1>6, <1>7 DEF Next, UnderWay

(* While no command line names a keystore file of its own: the wallet a     *)
(* config names is the one the server has for the agent the config names,   *)
(* and the keystore it names holds that wallet's key (init.rs, 3. and 4.),  *)
(* unless commands overlapped or a given key took the place of another      *)
(* agent's and no wallet was generated for it.                              *)
THEOREM ConfigSafety ==
  ASSUME DefaultPathsOnly
  PROVE  Spec => []ConfigMatchesServer
<1>1. Init => PairInv
  <2>1. Init => OnDisk = Default /\ \A p \in Slot : proc[p].pc = "idle"
    BY ConfigTypes DEF Init, OnDisk
  <2>2. Init => PairedInv
    BY <2>1, IdTypes DEF PairedInv, WillPair, Paired, Default, Saving, Writing
  <2> QED
    BY <2>2, SteadyInit, KeyInit DEF PairInv
<1>2. PairInv /\ [Next]_vars => PairInv'
  BY PairStep
<1>3. PairInv => ConfigMatchesServer
  <2> SUFFICES ASSUME PairInv, ~raced, ~swapped, OnDisk.wallet # None
               PROVE  ConfigMatchesServer
    BY DEF ConfigMatchesServer
  <2>1. /\ OnDisk.key # None /\ server[OnDisk.key].wallet = OnDisk.wallet
        /\ Paired(OnDisk) /\ Stored /\ OnDisk \in Config
    BY LoadedType DEF PairInv, SteadyInv, FileInv, Steady, Matches, PairedInv, KeyInv
  <2>2. OnDisk.key \in Agent /\ OnDisk.wallet \in Id \cup {Byow}
    BY <2>1 DEF Config
  <2> QED
    BY <2>1, <2>2, IdTypes DEF Stored, Paired, ConfigMatchesServer
<1> QED
  BY <1>1, <1>2, <1>3, PTL DEF Spec

=============================================================================
