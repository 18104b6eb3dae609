---------------------------- MODULE MCCommandRun ----------------------------
(***************************************************************************)
(* The client side for TLC: a run of the program, or a program of somebody *)
(* else's that repeats a call with a retry loop of the libraries.  The two *)
(* share nothing, so the first state says which it is.                     *)
(***************************************************************************)
EXTENDS CommandRun, RetryLoops

NoLoop ==
    /\ loop = "rpc" /\ policy \in {CHOOSE p \in Policy : TRUE}
    /\ attempt = 1 /\ slept = <<>> /\ outcome = "ok"

NoCommand ==
    /\ phase = "over" /\ plan = <<>> /\ net = Unread
    /\ ctx = [env |-> "prod", base |-> "known", custom |-> FALSE, key |-> FALSE,
              dry |-> FALSE, rpc |-> "none"]
    /\ rpc = [to |-> "base", taken |-> 0] /\ tries = 0 /\ corr = "empty"
    /\ sent = {} /\ lost = FALSE /\ result = "ok" /\ report = [corr |-> "empty", exit |-> 0]

ClientSpec ==
    /\ (Init /\ NoLoop) \/ (LoopInit /\ NoCommand)
    /\ [][(Next /\ UNCHANGED loopVars) \/ (LoopNext /\ UNCHANGED vars)]_<<vars, loopVars>>
    /\ WF_vars(Timed) /\ WF_vars(ctx.key /\ FetchSchema) /\ WF_vars(rpc.to = "base" /\ JsonRpc)
=============================================================================
