----------------------------- MODULE RetryLoops -----------------------------
(***************************************************************************)
(* The three loops that repeat a call, and how long they sleep in between: *)
(* the API client's library (client/retry.rs, with_backoff), the agent     *)
(* library's (agent/retry.rs, with_backoff) and the JSON-RPC client's      *)
(* (tempo_rpc.rs, call).  The libraries' are for programs built on them,   *)
(* with a policy of the caller's; the commands use the third.              *)
(*                                                                         *)
(* Delays are numbers of some unit; an unsigned machine word has Word      *)
(* values and a Duration no more than MaxDuration units.                   *)
(***************************************************************************)
EXTENDS Integers, Sequences

CONSTANTS Word,          \* 2^32, the values of the u32 that holds a power of two
          MaxDuration,   \* Duration::MAX
          MaxShift,      \* 20, the cap of the agent library's shift
          RpcBase,       \* 250 ms
          RpcShift,      \* 4, the cap of rpc_backoff's shift
          RpcCap,        \* 4 s
          MaxRetryAfter, \* 30 s
          MaxRetries,    \* MAX_RPC_RETRIES
          Bases, Caps, Attempts,  \* policies: base_delay, max_delay, max_attempts
          RetryAfters          \* retry_after, as servers send it

ASSUME LoopAssumption ==
    /\ {Word, MaxDuration, RpcBase, RpcCap} \subseteq Nat \ {0}
    /\ {MaxRetryAfter, MaxRetries} \subseteq Nat /\ {MaxShift, RpcShift} \subseteq 0 .. 20
    /\ \A k \in 0 .. MaxShift : 2^k < Word
    /\ Bases \subseteq 1 .. MaxDuration /\ Caps \subseteq 1 .. MaxDuration
    /\ Attempts \subseteq Nat /\ RetryAfters \subseteq Nat

VARIABLES loop,     \* "client", "agent" or "rpc"
          policy,   \* the caller's; MaxDuration is no max_delay
          attempt,  \* the attempt that is made, from 1
          slept,    \* the sleeps so far, each with the wish of the server, if any
          outcome   \* "running", "ok", "error" or "panic"

loopVars == <<loop, policy, attempt, slept, outcome>>

None == -1  \* an answer without a Retry-After, or another error
Lesser(a, b) == IF a <= b THEN a ELSE b
-----------------------------------------------------------------------------
(* client/retry.rs: a RateLimited sleeps as long as the server said, everything
   else base_delay * 2u32.pow(attempt - 1), which wraps in a release build *)
ClientDelay(base, n, wish) == IF wish /= None THEN wish ELSE base * (2^(n - 1) % Word)

(* slip: the shift is not capped *)
SlipAgentDelay(base, n, cap, wish) ==
    IF wish /= None THEN wish
    ELSE Lesser(Lesser(base * (2^(n - 1) % Word), MaxDuration), cap)

(* agent/retry.rs, delay_for: max_delay is not for what the server said *)
AgentDelay(base, n, cap, wish) ==
    IF wish /= None THEN wish
    ELSE Lesser(Lesser(base * (2^Lesser(n - 1, MaxShift) % Word), MaxDuration), cap)

(* tempo_rpc.rs: rpc_backoff, or what the server said, capped; it counts from 0 *)
RpcBackoff(n) == Lesser(RpcBase * 2^Lesser(n - 1, RpcShift), RpcCap)
RpcDelay(n, wish) == IF wish /= None THEN Lesser(wish, MaxRetryAfter) ELSE RpcBackoff(n)

DelayAt(n, wish) ==
    CASE loop = "client" -> ClientDelay(policy.base, n, wish)
      [] loop = "agent" -> AgentDelay(policy.base, n, policy.cap, wish)
      [] loop = "rpc" -> RpcDelay(n, wish)

Limit == IF loop = "rpc" THEN MaxRetries + 1 ELSE policy.max

Policy == [max : Attempts, base : Bases, cap : Caps]
Sleep == [wish : Nat \cup {None}, delay : Nat]

LoopTypeOK ==
    /\ loop \in {"client", "agent", "rpc"} /\ policy \in Policy
    /\ attempt \in Nat \ {0} /\ slept \in Seq(Sleep)
    /\ outcome \in {"running", "ok", "error", "panic"}

(* the agent library asserts that there is an attempt; the client's makes one *)
LoopInit ==
    /\ loop \in {"client", "agent", "rpc"} /\ policy \in Policy
    /\ attempt = 1 /\ slept = <<>>
    /\ outcome = IF loop = "agent" /\ policy.max = 0 THEN "panic" ELSE "running"

Running == outcome = "running" /\ UNCHANGED <<loop, policy>>

Succeed == Running /\ outcome' = "ok" /\ UNCHANGED <<attempt, slept>>

(* the last attempt, or an error that is not repeated: the agent library repeats
   any, the client's Server, Network and RateLimited, JSON-RPC a 429 *)
Fail ==
    /\ loop /= "agent" \/ attempt >= Limit
    /\ Running /\ outcome' = "error" /\ UNCHANGED <<attempt, slept>>

(* a product no Duration holds panics; so does, built with overflow checks, a
   power no word holds *)
Overflows(wish) == loop = "client" /\ wish = None /\ DelayAt(attempt, wish) > MaxDuration
Checked(wish) == loop = "client" /\ wish = None /\ 2^(attempt - 1) >= Word

Repeat(wish) ==
    /\ Running /\ attempt < Limit /\ ~Overflows(wish)
    /\ slept' = Append(slept, [wish |-> wish, delay |-> DelayAt(attempt, wish)])
    /\ attempt' = attempt + 1 /\ UNCHANGED outcome

Panic(wish) ==
    /\ Overflows(wish) \/ Checked(wish)
    /\ Running /\ attempt < Limit /\ outcome' = "panic" /\ UNCHANGED <<attempt, slept>>

LoopNext == Succeed \/ Fail \/ \E wish \in RetryAfters \cup {None} : Repeat(wish) \/ Panic(wish)

LoopSpec == LoopInit /\ [][LoopNext]_loopVars
-----------------------------------------------------------------------------
(* The powers of two of the client's loop have fitted their word so far. *)
Fits == loop = "client" => \A i \in DOMAIN slept : 2^(i - 1) < Word

Cap == CASE loop = "client" -> MaxDuration
         [] loop = "agent" -> policy.cap
         [] loop = "rpc" -> RpcCap

(* Over a whole run of a loop, with waits the server asked for in between, the
   delays the loop chooses itself never shrink, are never zero and respect the
   loop's cap; a wait the server asked for is kept to, whatever the policy's cap,
   by JSON-RPC up to its own; and there are no more attempts than the policy has.
   The client's delays shrink once its power of two has wrapped, which client/
   retry.rs:17-19 ("subsequent delays double") does not foresee. *)
DelaysGrow ==
    /\ attempt > 1 => attempt <= Limit
    /\ Fits => \A j \in DOMAIN slept :
         IF slept[j].wish = None
         THEN /\ slept[j].delay \in 1 .. Cap
              /\ \A i \in 1 .. j - 1 :
                   slept[i].wish = None => slept[i].delay <= slept[j].delay
         ELSE slept[j].delay = IF loop = "rpc" THEN Lesser(slept[j].wish, MaxRetryAfter)
                               ELSE slept[j].wish
=============================================================================
