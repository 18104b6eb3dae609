---------------------------- MODULE EventStream ----------------------------
(***************************************************************************)
(* `taskfast events stream` (cmd/events/stream.rs): a WebSocket tail that  *)
(* joins a channel, prints events and sentinels on stdout, sends the acks  *)
(* its host writes to stdin, reconnects with backoff and shuts down on a   *)
(* signal.                                                                 *)
(*                                                                         *)
(* External: the host process around it, and the server, which keeps one   *)
(* event in flight and replays from its ack cursor on every join           *)
(* (stream.rs:24-37).  Heartbeats carry no data: they matter because they  *)
(* start a new turn of the select loop.                                    *)
(***************************************************************************)
EXTENDS Integers, Sequences

CONSTANTS
  MaxEvent,    \* bound: the server has events 1 .. MaxEvent to deliver
  MaxFault     \* bound: drops, failed connects, resends and channel closes

ASSUME ConstantsAssumption == MaxEvent \in Nat /\ MaxFault \in Nat

VARIABLES
  args,      \* --once, --no-reconnect, --ack-stdin
  cli,       \* the process: see TypeOK
  sig,       \* the signal task: "none", "flagged" (flag stored), "notified"
  out,       \* lines on stdout the host has not read
  stdin,     \* ids the host wrote that were not taken
  eof,       \* the host closed its end of stdin
  net,       \* the socket: frames up and down, is it alive, and the server's
             \* side of the channel: its state, is an event in flight
  cursor,    \* the server's ack cursor
  published, \* events that have happened
  faults,    \* faults left
  host,      \* what the host handled, what it was told is acked, its view of
             \* the connection, whether it was ever told "connected"
  refused    \* the server rejected the key (history)

vars == <<args, cli, sig, out, stdin, eof, net, cursor, published, faults, host, refused>>

Event == 1 .. MaxEvent
Item(kind, e) == [kind |-> kind, event |-> e]
Frame == [kind : {"join", "ack", "joinok", "joinerr", "event", "acked", "ackerr", "other"},
          event : 0 .. MaxEvent]
Line == [kind : {"connected", "reconnecting", "resumed", "closing", "auth_failed",
                 "event", "acked"},
         event : 0 .. MaxEvent]

NoSocket == [up |-> <<>>, down |-> <<>>, alive |-> FALSE, chan |-> "none",
             inflight |-> FALSE]

Init ==
  /\ args \in [once : BOOLEAN, no_reconnect : BOOLEAN, ack_stdin : BOOLEAN]
  /\ cli = [pc |-> "top", code |-> 0, first |-> TRUE, backoff |-> 1,
            joined |-> FALSE, reading |-> FALSE, watch |-> "fresh"]
  /\ sig = "none"
  /\ out = <<>> /\ stdin = <<>> /\ eof = FALSE
  /\ net = NoSocket
  /\ cursor = 0 /\ published = 0
  /\ faults = MaxFault
  /\ host = [handled |-> {}, confirmed |-> {}, view |-> "new"]
  /\ refused = FALSE

-----------------------------------------------------------------------------
(* run: the reconnect loop.                                                *)

others == <<args, sig, stdin, eof, cursor, published, host>>

Say(kind, e) == out' = Append(out, Item(kind, e))

(* The process ends and its socket closes with it. *)
ExitWith(code) ==
  /\ cli' = [cli EXCEPT !.pc = "exited", !.code = code]
  /\ net' = NoSocket

Closing == Say("closing", 0) /\ ExitWith(0)
AuthFailed == Say("auth_failed", 0) /\ ExitWith(2)

(* ConnectOutcome::Disconnected: end, or announce it and back off.  The     *)
(* slip announces nothing.                                                  *)
BackOff ==
  /\ cli' = [cli EXCEPT !.pc = "sleeping", !.watch = "fresh"]
  /\ net' = NoSocket
LostSilently ==
  /\ IF args.no_reconnect THEN ExitWith(1) ELSE BackOff
  /\ UNCHANGED out
Lost ==
  \/ args.no_reconnect /\ ExitWith(1) /\ UNCHANGED out
  \/ ~args.no_reconnect /\ Say("reconnecting", 0) /\ BackOff

(* run_once borrows the stdin receiver for one connection.  The slip gives  *)
(* it away for good.                                                        *)
LentOnce == args.ack_stdin /\ cli.first
Lent == args.ack_stdin

Top ==
  /\ cli.pc = "top"
  /\ \/ sig # "none" /\ Closing
     \/ /\ sig = "none"
        /\ cli' = [cli EXCEPT !.pc = "connecting", !.joined = FALSE, !.reading = Lent]
        /\ UNCHANGED <<out, net>>
  /\ UNCHANGED <<others, faults, refused>>

(* (backoff * 2).min(30 s) *)
Doubled == IF cli.backoff * 2 > 30 THEN 30 ELSE cli.backoff * 2

Wake ==
  /\ cli.pc = "sleeping"
  /\ cli' = [cli EXCEPT !.pc = "top", !.backoff = Doubled, !.first = FALSE]
  /\ UNCHANGED <<others, out, net, faults, refused>>

-----------------------------------------------------------------------------
(* connect_async.  Nothing else is looked at while it is under way, and it *)
(* has no timeout.                                                         *)

(* The socket opens and the join request is sent. *)
ConnectOk ==
  /\ cli.pc = "connecting"
  /\ cli' = [cli EXCEPT !.pc = "open", !.watch = "fresh"]
  /\ net' = [NoSocket EXCEPT !.alive = TRUE, !.up = <<Item("join", 0)>>]
  /\ UNCHANGED <<others, out, faults, refused>>

ConnectFails ==
  /\ cli.pc = "connecting"
  /\ faults > 0
  /\ faults' = faults - 1
  /\ Lost
  /\ UNCHANGED <<others, refused>>

(* 401, 403, or the subprotocol was not selected. *)
ConnectRefused ==
  /\ cli.pc = "connecting"
  /\ refused' = TRUE
  /\ AuthFailed
  /\ UNCHANGED <<others, faults>>

-----------------------------------------------------------------------------
(* The select loops.  Every turn makes a new shutdown.cancelled(), which   *)
(* looks at the flag and then registers for the notification; a trigger    *)
(* between the two is missed in this turn.                                 *)

Selecting == cli.pc \in {"open", "sleeping"}
NewTurn == cli' = [cli EXCEPT !.watch = "fresh"]

(* The slip waits for the notification without a look at the flag. *)
IgnoresFlag == FALSE
SeesFlag == sig # "none"

CheckFlag ==
  /\ Selecting /\ cli.watch = "fresh"
  /\ \/ SeesFlag /\ Closing
     \/ /\ ~SeesFlag
        /\ cli' = [cli EXCEPT !.watch = "checked"]
        /\ UNCHANGED <<out, net>>
  /\ UNCHANGED <<others, faults, refused>>

Register ==
  /\ Selecting /\ cli.watch = "checked"
  /\ cli' = [cli EXCEPT !.watch = "registered"]
  /\ UNCHANGED <<others, out, net, faults, refused>>

Woken ==
  /\ Selecting /\ cli.watch = "woken"
  /\ Closing
  /\ UNCHANGED <<others, faults, refused>>

Heartbeat ==
  /\ cli.pc = "open"
  /\ NewTurn
  /\ UNCHANGED <<others, out, net, faults, refused>>

(* The stream ends or errs, or a send fails. *)
SourceEnds ==
  /\ cli.pc = "open" /\ ~net.alive
  /\ Lost
  /\ UNCHANGED <<others, faults, refused>>

(* The next id from stdin, on a joined channel only.  A dead socket may      *)
(* take the frame without an error: it is lost.  (The slip tells the host at *)
(* once that the ack is confirmed.)                                          *)
TakeId ==
  /\ cli.pc = "open" /\ cli.joined /\ cli.reading /\ stdin # <<>>
  /\ stdin' = Tail(stdin)
  /\ net' = IF net.alive
            THEN [net EXCEPT !.up = Append(@, Item("ack", Head(stdin)))] ELSE net
  /\ NewTurn
  /\ UNCHANGED <<args, sig, eof, cursor, published, host, faults, refused>>
SendAckAndTell == TakeId /\ Say("acked", Head(stdin))
SendAck == TakeId /\ UNCHANGED out

StdinEnds ==
  /\ cli.pc = "open" /\ cli.joined /\ cli.reading /\ stdin = <<>> /\ eof
  /\ cli' = [cli EXCEPT !.reading = FALSE, !.watch = "fresh"]
  /\ UNCHANGED <<others, out, net, faults, refused>>

(* classify_frame.  An error reply to an ack has another ref than the       *)
(* join's.  The slip looks at the status alone.                             *)
ByStatus(f) == IF f.kind = "ackerr" THEN "joinerr" ELSE f.kind
Classify(f) == f.kind

(* What an event makes the client send: nothing.  The slip acks it.         *)
AckUnasked(e) == <<Item("ack", e)>>
Unasked(e) == <<>>

(* A text frame. *)
Receive ==
  LET f == Head(net.down)
      kind == Classify(f)
      taken == net' = [net EXCEPT !.down = Tail(@)]
  IN
  /\ cli.pc = "open" /\ net.down # <<>>
  /\ \/ /\ kind = "joinok" /\ ~cli.joined
        /\ cli' = [cli EXCEPT !.joined = TRUE, !.watch = "fresh"]
        /\ Say(IF cli.first THEN "connected" ELSE "resumed", 0)
        /\ taken
     \/ kind = "joinerr" /\ AuthFailed
     \/ /\ kind = "event" /\ ~args.once
        /\ Say("event", f.event)
        /\ net' = [net EXCEPT !.down = Tail(@), !.up = @ \o Unasked(f.event)]
        /\ NewTurn
     \/ kind = "event" /\ args.once /\ Say("event", f.event) /\ ExitWith(0)
     \/ kind = "acked" /\ Say("acked", f.event) /\ taken /\ NewTurn
     \/ kind \in {"ackerr", "other"} /\ taken /\ NewTurn /\ UNCHANGED out
  /\ UNCHANGED <<others, faults, refused>>

-----------------------------------------------------------------------------
(* The signal task: SIGINT or SIGTERM, then trigger() in its two steps.    *)

Signal ==
  /\ sig = "none"
  /\ sig' = "flagged"
  /\ UNCHANGED <<args, cli, out, stdin, eof, net, cursor, published, faults, host, refused>>

Notify ==
  /\ sig = "flagged"
  /\ sig' = "notified"
  /\ cli' = IF cli.watch = "registered" THEN [cli EXCEPT !.watch = "woken"] ELSE cli
  /\ UNCHANGED <<args, out, stdin, eof, net, cursor, published, faults, host, refused>>

-----------------------------------------------------------------------------
(* The server and the network.                                             *)

near == <<args, cli, sig, out, stdin, eof, host>>

ServeJoin ==
  /\ net.up # <<>> /\ Head(net.up).kind = "join"
  /\ \/ /\ net' = [net EXCEPT !.up = Tail(@), !.chan = "joined",
                              !.down = Append(@, Item("joinok", 0))]
        /\ UNCHANGED refused
     \/ /\ net' = [net EXCEPT !.up = Tail(@), !.down = Append(@, Item("joinerr", 0))]
        /\ refused' = TRUE
  /\ UNCHANGED <<near, cursor, published, faults>>

(* An ack of anything but the event in flight gets no reply, or an error. *)
ServeAck ==
  LET e == Head(net.up).event
      current == net.chan = "joined" /\ net.inflight /\ e = cursor + 1
  IN
  /\ net.up # <<>> /\ Head(net.up).kind = "ack"
  /\ \/ /\ current
        /\ cursor' = e
        /\ net' = [net EXCEPT !.up = Tail(@), !.inflight = FALSE,
                              !.down = Append(@, Item("acked", e))]
     \/ /\ ~current
        /\ \E reply \in {<<>>, <<Item("ackerr", e)>>} :
             net' = [net EXCEPT !.up = Tail(@), !.down = @ \o reply]
        /\ UNCHANGED cursor
  /\ UNCHANGED <<near, published, faults, refused>>

Push ==
  /\ net.chan = "joined" /\ ~net.inflight /\ cursor < published
  /\ net' = [net EXCEPT !.inflight = TRUE, !.down = Append(@, Item("event", cursor + 1))]
  /\ UNCHANGED <<near, cursor, published, faults, refused>>

Publish ==
  /\ published < MaxEvent
  /\ published' = published + 1
  /\ UNCHANGED <<near, net, cursor, faults, refused>>

(* Faults: the ack timeout of the server; phx_close or phx_error, which end *)
(* the channel and not the socket; the transport drops, or another socket   *)
(* of the agent kicks this one, and what the client had not received is     *)
(* lost or still comes.                                                     *)
Fault ==
  /\ faults > 0
  /\ faults' = faults - 1
  /\ UNCHANGED <<near, cursor, published, refused>>

Resend ==
  /\ net.inflight
  /\ net' = [net EXCEPT !.down = Append(@, Item("event", cursor + 1))]
  /\ Fault

ChannelCloses ==
  /\ net.chan = "joined"
  /\ net' = [net EXCEPT !.chan = "closed", !.inflight = FALSE,
                        !.down = Append(@, Item("other", 0))]
  /\ Fault

Drop ==
  /\ net.alive
  /\ \E d \in {net.down, <<>>} : net' = [NoSocket EXCEPT !.down = d]
  /\ Fault

-----------------------------------------------------------------------------
(* The host reads a line: it handles an event and then writes its id, also *)
(* when it has handled the event before.                                   *)

ViewAfter(kind) ==
  CASE kind \in {"connected", "resumed"} -> "up"
    [] kind = "reconnecting" -> "down"
    [] kind \in {"closing", "auth_failed"} -> "over"
    [] OTHER -> host.view

HostReads ==
  LET l == Head(out)
      es == {l.event} \ {0}
  IN
  /\ out # <<>>
  /\ out' = Tail(out)
  /\ host' = [handled |-> host.handled \cup (IF l.kind = "event" THEN es ELSE {}),
              confirmed |-> host.confirmed \cup (IF l.kind = "acked" THEN es ELSE {}),
              view |-> ViewAfter(l.kind)]
  /\ stdin' = IF l.kind = "event" /\ args.ack_stdin /\ ~eof
              THEN Append(stdin, l.event) ELSE stdin
  /\ UNCHANGED <<args, cli, sig, eof, net, cursor, published, faults, refused>>

HostCloses ==
  /\ args.ack_stdin /\ ~eof
  /\ eof' = TRUE
  /\ UNCHANGED <<args, cli, sig, out, stdin, net, cursor, published, faults, host, refused>>

-----------------------------------------------------------------------------

Next ==
  \/ Top \/ Wake \/ ConnectOk \/ ConnectFails \/ ConnectRefused
  \/ CheckFlag \/ Register \/ Woken \/ Heartbeat
  \/ SourceEnds \/ SendAck \/ StdinEnds \/ Receive
  \/ Signal \/ Notify
  \/ ServeJoin \/ ServeAck \/ Push \/ Publish \/ Resend \/ ChannelCloses \/ Drop
  \/ HostReads \/ HostCloses

Spec == Init /\ [][Next]_vars

(* The runtime polls every branch of a select and the signal task; timers   *)
(* fire.  The server serves and the host reads.  Nothing forces a connect   *)
(* to return: see ConnectsReturn.                                           *)
FairSpec ==
  /\ Spec
  /\ WF_vars(Top) /\ WF_vars(Wake) /\ WF_vars(CheckFlag) /\ WF_vars(Register)
  /\ WF_vars(Woken) /\ WF_vars(Heartbeat) /\ WF_vars(SourceEnds) /\ WF_vars(SendAck)
  /\ WF_vars(Receive) /\ WF_vars(Notify)
  /\ WF_vars(ServeJoin) /\ WF_vars(ServeAck) /\ WF_vars(Push) /\ WF_vars(HostReads)

-----------------------------------------------------------------------------
(* Properties.                                                             *)

TypeOK ==
  /\ cli \in [pc : {"top", "connecting", "open", "sleeping", "exited"},
              code : 0 .. 2, first : BOOLEAN, backoff : {1, 2, 4, 8, 16, 30},
              joined : BOOLEAN, reading : BOOLEAN,
              watch : {"fresh", "checked", "registered", "woken"}]
  /\ sig \in {"none", "flagged", "notified"}
  /\ out \in Seq(Line) /\ stdin \in Seq(Event)
  /\ net.up \in Seq(Frame) /\ net.down \in Seq(Frame)
  /\ cursor \in 0 .. published /\ published \in 0 .. MaxEvent
  /\ host \in [handled : SUBSET Event, confirmed : SUBSET Event,
               view : {"new", "up", "down", "over"}]

(* stream.rs:30-31, at-least-once and in order: the server passes over an   *)
(* event only when the host has handled it, and the host is never handed    *)
(* one beyond the first event it has not acked, whatever was lost or        *)
(* repeated between the two.                                                *)
AtLeastOnce ==
  /\ 1 .. cursor \subseteq host.handled
  /\ host.handled \subseteq 1 .. cursor + 1

(* A line "acked" tells the truth: the server will not send that event      *)
(* again (stream.rs:15-16).                                                 *)
AckedIsConfirmed ==
  /\ host.confirmed \subseteq 1 .. cursor
  /\ \A i \in 1 .. Len(out) : out[i].kind = "acked" => out[i].event <= cursor

(* The sentinels tell the host the truth about the connection: events and   *)
(* acks come between a join and the next loss, no join is announced twice   *)
(* without a loss in between, auth_failed (exit code 2, which tells a       *)
(* supervisor to stop) means that the server rejected the key and never     *)
(* that an ack got an error reply (stream.rs:353-354), and nothing follows  *)
(* the closing line.                                                        *)
InOrder(kind, view) ==
  CASE kind \in {"event", "acked"} -> view = "up"
    [] kind \in {"connected", "resumed"} -> view \in {"new", "down"}
    [] kind = "auth_failed" -> view # "over" /\ refused
    [] OTHER -> view # "over"

SentinelsInOrder ==
  [][Len(out') < Len(out) => InOrder(Head(out).kind, host.view)]_vars

ConnectsReturn == []<>(cli.pc # "connecting")

(* After SIGINT or SIGTERM the process ends, although the notification may  *)
(* come between the look at the flag and the registration, as long as no    *)
(* connect hangs.                                                           *)
SignalEnds == ConnectsReturn => (sig # "none" ~> cli.pc = "exited")

(* Acking over stdin keeps the stream going across reconnects: with         *)
(* --ack-stdin every event is acked, unless the process ends, the host      *)
(* closes the pipe, or the server closes the channel without closing the    *)
(* socket, which the client does not notice (stream.rs:372).                *)
EveryEventAcked ==
  ConnectsReturn =>
    \A e \in Event :
      (args.ack_stdin /\ published >= e)
        ~> (cursor >= e \/ cli.pc = "exited" \/ eof \/ net.chan = "closed")

(* stream.rs:15-16, 28-33: whatever the process, its sockets and the server *)
(* do in between, the host and the server's cursor move as in AckedLog:     *)
(* events in order and one at a time, none passed over before it was        *)
(* handled, none confirmed before it was passed over.                       *)
Log == INSTANCE AckedLog WITH
         handled <- host.handled, passed <- cursor, confirmed <- host.confirmed
AckedInOrder == Log!Spec
=============================================================================
