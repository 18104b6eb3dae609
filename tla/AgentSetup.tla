----------------------------- MODULE AgentSetup -----------------------------
(***************************************************************************)
(* `taskfast init` (cmd/init.rs) and `taskfast config set` (cmd/config.rs) *)
(* on one host: an agent is minted with the user's token, a wallet is      *)
(* generated, stored and registered, and config.json is rewritten through  *)
(* the one temporary file every writer uses (config.rs).  Each step may    *)
(* fail, each process may be killed, and the user runs commands again.     *)
(*                                                                         *)
(* External: the server's agents and wallets, the user, the file system    *)
(* (names and inodes: a process that has a file open goes on writing to    *)
(* it when its name has moved).                                            *)
(***************************************************************************)
EXTENDS Integers, FiniteSets

CONSTANTS
  Slot,        \* processes that may run at the same time
  Invocations, \* command lines the user gives (see Invocation)
  MaxRuns,     \* bound on the commands started
  MaxDeleted   \* bound on the agents the server deletes

(* What a run creates is new: an agent, a key, an inode.  Each is named by *)
(* the number of the run.                                                  *)
Id == 1 .. MaxRuns
None == 0

(* --api-key or TASKFAST_API_KEY: the key of an agent not minted here.     *)
Foreign == MaxRuns + 1
Agent == Id \cup {Foreign}

(* --wallet-address, an address whose key is elsewhere, and the wallet the *)
(* other agent may come with.                                              *)
Byow == MaxRuns + 1
Elsewhere == MaxRuns + 2
Wallet == Id \cup {Byow, Elsewhere}

(* default_keyfile_path is named after the address; --keystore-path is not.*)
Explicit == MaxRuns + 1
Path == Id \cup {Explicit}

Invocation == [cmd : {"init"}, wallet : {"auto", "skip", "byow", "generate"},
               explicit : BOOLEAN, given : BOOLEAN]
              \cup [cmd : {"set"}]

ASSUME ConstantsAssumption ==
  /\ Invocations \subseteq Invocation
  /\ MaxRuns \in Nat /\ MaxDeleted \in Nat

(* The fields of Config that matter; note is one only `config set` writes. *)
Config == [key : Agent \cup {None}, wallet : Id \cup {Byow, None},
           store : Path \cup {None}, note : Id \cup {None}]
Default == [key |-> None, wallet |-> None, store |-> None, note |-> None]

VARIABLES
  runs,     \* commands started
  proc,     \* proc[p]: the command slot p runs
  config, temp, \* the inodes of config.json and config.json.tmp
  data,     \* data[i]: what is in inode i
  keystore, \* keystore[f]: the wallet whose key is in file f
  server,   \* server[a]: agent a
  hint,     \* a run ended with the hint to delete the config
  note,     \* the last note `config set` reported as written (history)
  raced,    \* two saves overlapped, or one ended while another run was under
            \* way (history)
  swapped,  \* a key given on the command line took the place of another's, and
            \* no wallet was generated since (history)
  forgotten \* agents whose key a failed run or the user threw away (history)

files == <<config, temp, data>>
vars == <<runs, proc, config, temp, data, keystore, server, hint, note, raced,
          swapped, forgotten>>

Idle == [id |-> None, pc |-> "idle", inv |-> [cmd |-> "set"], key |-> None,
         cfg |-> Default, inode |-> None]

PcValue == {"idle", "load", "key", "mint", "validate", "readiness", "generate",
            "write", "register", "save", "fill", "rename", "finish"}

(* A slot: its command, the key it works with, the config it will save, the*)
(* inode it has open.                                                      *)
Process == [id : Id \cup {None}, pc : PcValue, inv : Invocation,
            key : Agent \cup {None}, cfg : Config, inode : Id \cup {None}]

(* An inode is blank when created or truncated, torn when two writers left *)
(* their bytes in it, else it holds one whole config.                      *)
Blank == [state |-> "blank", cfg |-> Default]
Torn == [state |-> "torn", cfg |-> Default]
Whole(c) == [state |-> "whole", cfg |-> c]
Content == {Blank, Torn} \cup {Whole(c) : c \in Config}

Running == {p \in Slot : proc[p].pc # "idle"}
Step(p, pc) == proc' = [proc EXCEPT ![p].pc = pc]

Init ==
  /\ runs = 0
  /\ proc = [p \in Slot |-> Idle]
  /\ config = None /\ temp = None
  /\ data = [i \in Id |-> Blank]
  /\ keystore = [f \in Path |-> None]
  /\ \E w \in {None, Elsewhere} :
       server = [a \in Agent |-> IF a = Foreign THEN [state |-> "active", wallet |-> w]
                                 ELSE [state |-> "none", wallet |-> None]]
  /\ hint = FALSE
  /\ note = None
  /\ raced = FALSE
  /\ swapped = FALSE
  /\ forgotten = {}

-----------------------------------------------------------------------------
(* Config::load: a missing file is an empty config, an unparseable one     *)
(* ends the command.                                                       *)
Readable == config # None => data[config].state = "whole"
OnDisk == IF config = None \/ ~Readable THEN Default ELSE data[config].cfg

(* The process ends; a key it minted and did not save goes with it. *)
Unsaved(p) == IF proc[p].pc # "finish" THEN {proc[p].key} \cap {proc[p].id} ELSE {}
End(p) ==
  /\ proc' = [proc EXCEPT ![p] = Idle]
  /\ forgotten' = forgotten \cup Unsaved(p)

(* main: every command begins with the config; from_parts takes the key of *)
(* the command line or the environment, else the config's.                 *)
Given(inv) == inv.cmd = "init" /\ inv.given
FirstKey(inv) == IF Given(inv) THEN Foreign ELSE OnDisk.key

Start(p, inv) ==
  /\ proc[p].pc = "idle" /\ runs < MaxRuns
  /\ Readable
  /\ runs' = runs + 1
  /\ proc' = [proc EXCEPT ![p] = [Idle EXCEPT !.id = runs + 1, !.pc = "load",
                                              !.inv = inv, !.key = FirstKey(inv)]]
  /\ UNCHANGED <<files, keystore, server, hint, note, raced, swapped, forgotten>>

Edited(p) == [OnDisk EXCEPT !.note = proc[p].id]

(* The command loads the config again.  `config set` changes a field of    *)
(* this copy; init keeps the copy for the end.                             *)
Load(p) ==
  /\ proc[p].pc = "load" /\ Readable
  /\ proc' = [proc EXCEPT
       ![p].cfg = IF proc[p].inv.cmd = "set" THEN Edited(p) ELSE OnDisk,
       ![p].pc = IF proc[p].inv.cmd = "set" THEN "save" ELSE "key"]
  /\ UNCHANGED <<runs, files, keystore, server, hint, note, raced, swapped, forgotten>>

(* Slip: mints whenever it has the user's token *)
KeyIgnored(p) == None

(* resolve_api_key: the key of the first load, else of the second. *)
KnownKey(p) == IF proc[p].key # None THEN proc[p].key ELSE proc[p].cfg.key

ResolveKey(p) ==
  /\ proc[p].pc = "key"
  /\ proc' = [proc EXCEPT ![p].key = KnownKey(p),
                          ![p].pc = IF KnownKey(p) = None THEN "mint" ELSE "validate"]
  /\ UNCHANGED <<runs, files, keystore, server, hint, note, raced, swapped, forgotten>>

(* mint_agent: the server answers with the only copy of the key, or its    *)
(* answer is lost.                                                         *)
Mint(p) ==
  /\ proc[p].pc = "mint"
  /\ server' = [server EXCEPT ![proc[p].id].state = "active"]
  /\ \/ /\ proc' = [proc EXCEPT ![p].key = proc[p].id, ![p].pc = "validate"]
        /\ UNCHANGED forgotten
     \/ /\ proc' = [proc EXCEPT ![p] = Idle]
        /\ forgotten' = forgotten \cup {proc[p].id}
  /\ UNCHANGED <<runs, files, keystore, hint, note, raced, swapped>>

(* validate_auth: a deleted agent's key is refused; unless it was minted   *)
(* just now, the message tells the user to delete the config and run init  *)
(* again.                                                                  *)
Validate(p) ==
  /\ proc[p].pc = "validate"
  /\ IF server[proc[p].key].state = "active"
       THEN Step(p, "readiness") /\ UNCHANGED <<hint, forgotten>>
       ELSE hint' = (hint \/ proc[p].key # proc[p].id) /\ End(p)
  /\ UNCHANGED <<runs, files, keystore, server, note, raced, swapped>>

(* Slip: starts from an empty config *)
FreshWithKey(p) == [Default EXCEPT !.key = proc[p].key]

(* init fills in its copy of the config (4.): the key always, the wallet   *)
(* and the keystore when this run provisioned them.                        *)
WithKey(p) == [proc[p].cfg EXCEPT !.key = proc[p].key]
StorePath(p) == IF proc[p].inv.explicit THEN Explicit ELSE proc[p].id
WithWallet(p) ==
  IF proc[p].inv.wallet = "byow"
    THEN [WithKey(p) EXCEPT !.wallet = Byow]
    ELSE [WithKey(p) EXCEPT !.wallet = proc[p].id, !.store = StorePath(p)]

(* get_readiness and the choice of provision_wallet.  Without a wallet on  *)
(* the server and without a flag the command ends with a usage error.      *)
Readiness(p) ==
  LET choice == proc[p].inv.wallet
      ready == server[proc[p].key].wallet # None
  IN  /\ proc[p].pc = "readiness"
      /\ \/ /\ choice = "skip" \/ (choice = "auto" /\ ready)
            /\ proc' = [proc EXCEPT ![p].cfg = WithKey(p), ![p].pc = "save"]
            /\ UNCHANGED forgotten
         \/ choice = "auto" /\ ~ready /\ End(p)
         \/ choice = "byow" /\ Step(p, "register") /\ UNCHANGED forgotten
         \/ choice = "generate" /\ Step(p, "generate") /\ UNCHANGED forgotten
      /\ UNCHANGED <<runs, files, keystore, server, hint, note, raced, swapped>>

(* persist_keystore, save_signer: encrypt_keystore creates or truncates    *)
(* the file, ...                                                           *)
Truncate(p) ==
  /\ proc[p].pc = "generate"
  /\ keystore' = [keystore EXCEPT ![StorePath(p)] = None]
  /\ Step(p, "write")
  /\ UNCHANGED <<runs, files, server, hint, note, raced, swapped, forgotten>>

(* Slip: ignores that the key could not be written *)
WriteNothing(p) ==
  /\ proc[p].pc = "write"
  /\ Step(p, "register")
  /\ UNCHANGED <<runs, files, keystore, server, hint, note, raced, swapped, forgotten>>

(* ... then writes the key of the new wallet. *)
WriteKey(p) ==
  /\ proc[p].pc = "write"
  /\ keystore' = [keystore EXCEPT ![StorePath(p)] = proc[p].id]
  /\ Step(p, "register")
  /\ UNCHANGED <<runs, files, server, hint, note, raced, swapped, forgotten>>

-----------------------------------------------------------------------------
NewWallet(p) == IF proc[p].inv.wallet = "byow" THEN Byow ELSE proc[p].id

(* Slip: takes a 409 for a success, as bootstrap::register_wallet would *)
ConflictIsSuccess(p) ==
  /\ proc' = [proc EXCEPT ![p].cfg = WithWallet(p), ![p].pc = "save"]
  /\ UNCHANGED forgotten

(* A 409 (wallet_already_configured) is an error like any other. *)
OnWalletConflict(p) == End(p)

(* wallet::register_wallet.  The server takes the first wallet of an agent.*)
Register(p) ==
  LET a == proc[p].key
      Registered == proc' = [proc EXCEPT ![p].cfg = WithWallet(p),
                                         ![p].pc = "save"]
                    /\ UNCHANGED forgotten
  IN  /\ proc[p].pc = "register"
      /\ \/ /\ server[a].wallet = None /\ server[a].state = "active"
            /\ server' = [server EXCEPT ![a].wallet = NewWallet(p)]
            /\ Registered \/ End(p)
         \/ /\ server[a].wallet # None /\ server[a].state = "active"
            /\ UNCHANGED server
            /\ OnWalletConflict(p)
      /\ UNCHANGED <<runs, files, keystore, hint, note, raced, swapped>>

(* Slip: opens config.json itself *)
OpenInPlace(p) ==
  LET i == IF config = None THEN proc[p].id ELSE config
  IN  /\ proc[p].pc = "save"
      /\ config' = i
      /\ data' = [data EXCEPT ![i] = Blank]
      /\ proc' = [proc EXCEPT ![p].inode = i, ![p].pc = "fill"]
      /\ UNCHANGED <<runs, temp, keystore, server, hint, note, raced, swapped, forgotten>>

(* Config::save opens config.json.tmp, creating or truncating it: whoever  *)
(* finds the file there shares it.                                         *)
OpenTemp(p) ==
  LET i == IF temp = None THEN proc[p].id ELSE temp
  IN  /\ proc[p].pc = "save"
      /\ temp' = i
      /\ data' = [data EXCEPT ![i] = Blank]
      /\ proc' = [proc EXCEPT ![p].inode = i, ![p].pc = "fill"]
      /\ raced' = (raced \/ \E q \in Slot : proc[q].pc \in {"fill", "rename"})
      /\ UNCHANGED <<runs, config, keystore, server, hint, note, swapped, forgotten>>

(* write_all at the offset of this descriptor, that is from the start: what*)
(* another writer has put there shows behind a shorter text.               *)
FillTemp(p) ==
  LET i == proc[p].inode
      mine == Whole(proc[p].cfg)
  IN  /\ proc[p].pc = "fill"
      /\ \E new \in {mine} \cup (IF data[i] \in {Blank, mine} THEN {} ELSE {Torn}) :
           data' = [data EXCEPT ![i] = new]
      /\ Step(p, "rename")
      /\ UNCHANGED <<runs, config, temp, keystore, server, hint, note, raced, swapped, forgotten>>

(* What a save does to the config it replaces: a given key takes the place *)
(* of another agent's, next to a wallet that is not its own.               *)
Replaced(s) == IF Given(s.inv) THEN {OnDisk.key} \ {None, s.cfg.key} ELSE {}
Generated(s) == s.inv.cmd = "init" /\ s.inv.wallet = "generate"
Swaps(s) == ~Generated(s) /\ (swapped \/ Replaced(s) # {})

(* The rename moves whatever the name stands for now; without the file it  *)
(* fails.  From here on the key is saved, whatever comes after.            *)
Rename(p) ==
  /\ proc[p].pc = "rename"
  /\ \/ /\ temp # None
        /\ config' = temp /\ temp' = None
        /\ note' = IF proc[p].inv.cmd = "set" THEN proc[p].id ELSE note
        /\ raced' = (raced \/ Running # {p})
        /\ swapped' = Swaps(proc[p])
        /\ forgotten' = forgotten \cup Replaced(proc[p])
        /\ Step(p, "finish")
     \/ /\ temp = None
        /\ End(p)
        /\ UNCHANGED <<config, temp, note, raced, swapped>>
  /\ UNCHANGED <<runs, data, keystore, server, hint>>

(* Faucet, webhook, the last get_readiness: nothing is written to these    *)
(* files, and a failure does not undo what is.                             *)
Finish(p) ==
  /\ proc[p].pc = "finish"
  /\ End(p)
  /\ UNCHANGED <<runs, files, keystore, server, hint, note, raced, swapped>>

(* A request fails before it has an effect, a file cannot be read or       *)
(* written, or the process is killed.                                      *)
Abort(p) ==
  /\ proc[p].pc \notin {"idle", "finish"}
  /\ End(p)
  /\ UNCHANGED <<runs, files, keystore, server, hint, note, raced, swapped>>

(* The server's owner deletes an agent. *)
Delete(a) ==
  /\ server[a].state = "active"
  /\ Cardinality({b \in Agent : server[b].state = "deleted"}) < MaxDeleted
  /\ server' = [server EXCEPT ![a].state = "deleted"]
  /\ UNCHANGED <<runs, proc, files, keystore, hint, note, raced, swapped, forgotten>>

(* The user follows the hint: deletes the config file. *)
FollowHint ==
  /\ hint /\ Running = {} /\ config # None
  /\ config' = None
  /\ hint' = FALSE
  /\ note' = None
  /\ swapped' = FALSE
  /\ forgotten' = forgotten \cup ({OnDisk.key} \ {None})
  /\ UNCHANGED <<runs, proc, temp, data, keystore, server, raced>>

Next ==
  \/ \E p \in Slot :
       \/ \E inv \in Invocations : Start(p, inv)
       \/ Load(p) \/ ResolveKey(p) \/ Mint(p) \/ Validate(p) \/ Readiness(p)
       \/ Truncate(p) \/ WriteKey(p) \/ Register(p)
       \/ OpenTemp(p) \/ FillTemp(p) \/ Rename(p) \/ Finish(p) \/ Abort(p)
  \/ \E a \in Agent : Delete(a)
  \/ FollowHint

Spec == Init /\ [][Next]_vars

-----------------------------------------------------------------------------
(* Every variable has its type; a command that has decided on an agent has *)
(* its key, and one that saves has the file open.                          *)
TypeOK ==
  /\ runs \in 0 .. MaxRuns
  /\ proc \in [Slot -> Process]
  /\ \A p \in Slot :
       /\ proc[p].pc # "idle" => proc[p].id \in 1 .. runs
       /\ proc[p].pc \in {"validate", "readiness", "generate", "write", "register"}
            => proc[p].key # None
       /\ proc[p].pc \in {"fill", "rename"} => proc[p].inode # None
  /\ config \in Id \cup {None} /\ temp \in Id \cup {None}
  /\ data \in [Id -> Content]
  /\ keystore \in [Path -> Id \cup {None}]
  /\ server \in [Agent -> [state : {"none", "active", "deleted"},
                           wallet : Wallet \cup {None}]]
  /\ hint \in BOOLEAN /\ raced \in BOOLEAN /\ swapped \in BOOLEAN
  /\ note \in Id \cup {None}
  /\ forgotten \subseteq Agent

(* The order of provision_wallet: an address the server pays to has its key*)
(* in a keystore file, whatever failed or was killed, and whoever else was *)
(* running.                                                                *)
RegisteredKeyOnDisk ==
  \A a \in Agent : server[a].wallet \in Id =>
    \E f \in Path : keystore[f] = server[a].wallet

(* The temporary file and the rename of Config::save: a kill between any   *)
(* two steps leaves a config every later command can load, unless commands *)
(* overlapped.                                                             *)
ConfigReadable == ~raced => Readable

(* The wallet the config names is the one the server has for the agent the *)
(* config names, and the keystore it names holds that wallet's key: what   *)
(* is saved is what was registered (init.rs, 3. and 4.).  Two cases are    *)
(* left out: saves of overlapping commands, and a config in which a key    *)
(* given on the command line took the place of another agent's without a   *)
(* wallet of its own: init.rs:302-304 sees "nothing to do" when the server  *)
(* has a wallet for the new agent, and the config goes on naming the old.  *)
ConfigMatchesServer ==
  ~raced /\ ~swapped /\ OnDisk.wallet # None =>
    /\ OnDisk.key # None
    /\ server[OnDisk.key].wallet = OnDisk.wallet
    /\ IF OnDisk.wallet = Byow THEN OnDisk.store = None
                               ELSE keystore[OnDisk.store] = OnDisk.wallet

(* A rerun works with the agent it finds (1a.): the key of an active agent *)
(* minted here is in the config or in a running command, unless commands   *)
(* overlapped, the run that minted it died before the save, the user       *)
(* deleted the file, or a key given on the command line took its place.    *)
NoAgentForgotten ==
  \A a \in Id : ~raced /\ server[a].state = "active" =>
    \/ a \in forgotten \/ OnDisk.key = a
    \/ \E p \in Running : proc[p].key = a

(* init rewrites the whole file from the config it loaded: what `config    *)
(* set` reported as written is still there after any number of reruns.     *)
EditKept == ~raced => OnDisk.note = note

(* What reference/BOOT.md says of a rerun of init: it is safe without a    *)
(* check first.  In particular the key of the wallet the config names and  *)
(* the server has stays where the config says it is.                       *)
KeySurvivesRerun ==
  [][OnDisk.store # None /\ keystore[OnDisk.store] = OnDisk.wallet
       => keystore'[OnDisk.store] = OnDisk.wallet]_vars

-----------------------------------------------------------------------------
(* Why RegisteredKeyOnDisk holds (module AgentSetupProofs).  A default key *)
(* file is written by one run only, ...                                    *)
OwnFile == \A f \in Id : keystore[f] \in {None, f}
OwnRun == \A p, q \in Slot :
            proc[p].pc # "idle" /\ proc[q].pc # "idle" /\ proc[p].id = proc[q].id => p = q

(* ... which registers the wallet after it, ...                            *)
Before == {"load", "key", "mint", "validate", "readiness", "generate", "write", "register"}
NotYetRegistered ==
  \A a \in Agent :
    /\ server[a].wallet \in Id => server[a].wallet <= runs
    /\ \A p \in Slot : proc[p].pc \in Before => server[a].wallet # proc[p].id

(* ... on the path that has written the key.                               *)
WrittenFirst ==
  \A p \in Slot :
    /\ proc[p].pc \in Before \ {"load"} => proc[p].inv.cmd = "init"
    /\ proc[p].pc # "idle" => proc[p].inv \in Invocations
    /\ proc[p].pc \in {"generate", "write"} => proc[p].inv.wallet = "generate"
    /\ proc[p].pc = "register" /\ proc[p].inv.wallet # "byow"
         => keystore[proc[p].id] = proc[p].id

Stored == \A a \in Agent : server[a].wallet \in Id =>
            keystore[server[a].wallet] = server[a].wallet

KeyInv == TypeOK /\ OwnFile /\ OwnRun /\ NotYetRegistered /\ WrittenFirst /\ Stored

(* No command line names its own keystore file. *)
DefaultPathsOnly == \A inv \in Invocations : inv.cmd = "init" => ~inv.explicit

=============================================================================
