------------------------------ MODULE AckedLog ------------------------------
(***************************************************************************)
(* What `events stream` promises a host that acks over stdin, without      *)
(* process, socket, reconnect or pipes: events happen one after the other, *)
(* the host gets them one at a time and in that order, the next one after  *)
(* the server has passed the last, and the server passes what the host has *)
(* handled and nothing else.                                               *)
(***************************************************************************)
EXTENDS Integers

VARIABLES
  published,  \* events that have happened: 1 .. published
  handled,    \* events the host has handled, once or more
  passed,     \* events the server will not send again: 1 .. passed
  confirmed   \* events the host was told of that they are acked

vars == <<published, handled, passed, confirmed>>

Init ==
  /\ published = 0 /\ passed = 0
  /\ handled = {} /\ confirmed = {}

Happen ==
  /\ published' = published + 1
  /\ UNCHANGED <<handled, passed, confirmed>>

Handle ==
  /\ passed < published
  /\ handled' = handled \cup {passed + 1}
  /\ UNCHANGED <<published, passed, confirmed>>

Pass ==
  /\ passed + 1 \in handled
  /\ passed' = passed + 1
  /\ UNCHANGED <<published, handled, confirmed>>

Confirm ==
  /\ \E e \in 1 .. passed : confirmed' = confirmed \cup {e}
  /\ UNCHANGED <<published, handled, passed>>

Next == Happen \/ Handle \/ Pass \/ Confirm

Spec == Init /\ [][Next]_vars
=============================================================================
