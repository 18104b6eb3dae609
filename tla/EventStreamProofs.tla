------------------------ MODULE EventStreamProofs ------------------------
(***************************************************************************)
(* Proofs about EventStream, for any number of events and faults.          *)
(***************************************************************************)
EXTENDS EventStream, SequenceTheorems, TLAPS

(***************************************************************************)
(* What may be under way, given what the host has handled and how far the  *)
(* server's cursor is: an ack is of an event the host has handled, an      *)
(* event has happened and is the next one at most, an "acked" is of one    *)
(* the server passed.                                                      *)
(***************************************************************************)
UpFrame == {f \in Frame : f.kind \in {"join", "ack"} /\ (f.kind = "ack" => f.event \in host.handled)}
DownFrame == {f \in Frame : /\ f.kind = "event" => /\ f.event \in 1 .. cursor + 1
                                                   /\ f.event <= published
                            /\ f.kind = "acked" => f.event \in 1 .. cursor
                            /\ f.kind = "joinerr" => refused}
OutLine == {l \in Line : /\ l.kind = "event" => /\ l.event \in 1 .. cursor + 1
                                                /\ l.event <= published
                         /\ l.kind = "acked" => l.event \in 1 .. cursor
                         /\ l.kind = "auth_failed" => refused}

Cli == [pc : {"top", "connecting", "open", "sleeping", "exited"},
        code : 0 .. 2, first : BOOLEAN, backoff : {1, 2, 4, 8, 16, 30},
        joined : BOOLEAN, reading : BOOLEAN,
        watch : {"fresh", "checked", "registered", "woken"}]
Host == [handled : SUBSET Event, confirmed : SUBSET Event, view : {"new", "up", "down", "over"}]

Net == [up : Seq(UpFrame), down : Seq(DownFrame), alive : BOOLEAN,
        chan : {"none", "joined", "closed"}, inflight : BOOLEAN]

Process ==
  /\ cli \in Cli /\ sig \in {"none", "flagged", "notified"}
  /\ args \in [once : BOOLEAN, no_reconnect : BOOLEAN, ack_stdin : BOOLEAN]
Wire == net \in Net /\ (net.inflight => cursor < published)
Pipes == out \in Seq(OutLine) /\ stdin \in Seq(host.handled)
Passed ==
  /\ published \in 0 .. MaxEvent /\ cursor \in 0 .. published
  /\ host \in Host /\ AtLeastOnce /\ host.confirmed \subseteq 1 .. cursor

StreamInv == Process /\ Wire /\ Pipes /\ Passed

(***************************************************************************)
(* What the host has seen once it has read the first i lines, and why the  *)
(* next line fits: the client says what it says at the end of them, and an *)
(* event comes on a joined channel or behind the answer to the join.       *)
(***************************************************************************)
Shown(kind) == CASE kind \in {"connected", "resumed", "event", "acked"} -> "up"
                 [] kind = "reconnecting" -> "down"
                 [] OTHER -> "over"
ViewAt(i) == IF i = 0 THEN host.view ELSE Shown(out[i].kind)
Ordered == \A i \in 1 .. Len(out) : InOrder(out[i].kind, ViewAt(i - 1))
Latest == ViewAt(Len(out))
Saying ==
  /\ cli.pc = "connecting" => ~cli.joined
  /\ cli.pc = "open" /\ cli.joined => Latest = "up"
  /\ cli.pc \in {"top", "connecting", "sleeping"} \/ (cli.pc = "open" /\ ~cli.joined)
       => Latest \in {"new", "down"}
JoinedBefore(i) == \E j \in 1 .. i : net.down[j].kind = "joinok"
Announced ==
  /\ cli.pc # "open" => net = NoSocket
  /\ net.inflight => net.chan = "joined"
  /\ cli.pc = "open" /\ ~cli.joined =>
       /\ net.chan # "none" => JoinedBefore(Len(net.down))
       /\ \A i \in 1 .. Len(net.down) :
            net.down[i].kind \in {"event", "acked"} => JoinedBefore(i - 1)

SayInv == Ordered /\ Saying /\ Announced

LEMMA StreamInit == Init => StreamInv
<1> SUFFICES ASSUME Init PROVE StreamInv
  OBVIOUS
<1>1. Process
  BY DEF Init, Process, Cli
<1>2. Wire
  BY EmptySeq DEF Init, Wire, Net, NoSocket
<1>3. Pipes
  BY EmptySeq DEF Init, Pipes
<1>4. Passed
  BY ConstantsAssumption DEF Init, Passed, Host, AtLeastOnce
<1> QED
  BY <1>1, <1>2, <1>3, <1>4 DEF StreamInv

(***************************************************************************)
(* The state taken apart, and what moves when the server's cursor, or what *)
(* the host has handled, grows.                                            *)
(***************************************************************************)
LEMMA Fields ==
  ASSUME StreamInv
  PROVE  /\ cli \in Cli /\ net \in Net /\ host \in Host
         /\ net.up \in Seq(UpFrame) /\ net.down \in Seq(DownFrame)
         /\ out \in Seq(OutLine) /\ stdin \in Seq(host.handled)
         /\ host.handled \subseteq Event /\ host.confirmed \subseteq Event
         /\ cursor \in Nat /\ published \in Nat /\ MaxEvent \in Nat
         /\ cursor <= published /\ published <= MaxEvent
BY ConstantsAssumption DEF StreamInv, Process, Wire, Pipes, Passed, Net, Host

LEMMA Grown ==
  ASSUME StreamInv, cursor' \in Nat, cursor <= cursor', refused => refused',
         published' = published, host.handled \subseteq host'.handled
  PROVE  /\ UpFrame \subseteq UpFrame' /\ DownFrame \subseteq DownFrame'
         /\ OutLine \subseteq OutLine'
BY Fields DEF UpFrame, DownFrame, OutLine

(* Most steps leave the server's cursor and the host alone.                *)
LEMMA Near ==
  ASSUME StreamInv, UNCHANGED <<cursor, published, host>>, refused => refused',
         Process', net' \in Net', net'.inflight => cursor < published,
         out' \in Seq(OutLine'), stdin' \in Seq(host.handled)
  PROVE  StreamInv'
<1>1. Passed'
  BY DEF StreamInv, Passed, AtLeastOnce
<1>2. Wire' /\ Pipes'
  BY DEF Wire, Pipes
<1> QED
  BY <1>1, <1>2 DEF StreamInv

(* The frames and lines that were good stay good, whoever refuses the key. *)
LEMMA Stay ==
  ASSUME StreamInv, UNCHANGED <<cursor, host>>, refused => refused',
         \A n \in Nat : n <= published => n <= published'
  PROVE  /\ UpFrame' = UpFrame /\ DownFrame \subseteq DownFrame' /\ OutLine \subseteq OutLine'
         /\ net.up \in Seq(UpFrame') /\ net.down \in Seq(DownFrame')
         /\ out \in Seq(OutLine') /\ net \in Net' /\ NoSocket \in Net'
         /\ net.inflight => cursor < published
<1>1. DownFrame \subseteq DownFrame' /\ OutLine \subseteq OutLine' /\ UpFrame' = UpFrame
  BY Fields DEF UpFrame, DownFrame, OutLine
<1>2. net.up \in Seq(UpFrame') /\ net.down \in Seq(DownFrame') /\ out \in Seq(OutLine')
  BY <1>1, Fields, SeqMonotonic
<1>3. net \in Net' /\ NoSocket \in Net'
  BY <1>2, Fields, EmptySeq DEF Net, NoSocket
<1> QED
  BY <1>1, <1>2, <1>3 DEF StreamInv, Wire

LEMMA Quiet ==
  ASSUME StreamInv, UNCHANGED <<cursor, published, host, net, out, stdin>>,
         refused => refused', Process'
  PROVE  StreamInv'
BY Near, Stay, Fields

LEMMA SaidLine ==
  ASSUME StreamInv, UNCHANGED <<cursor, published, host>>, refused => refused',
         NEW kind, NEW e, Say(kind, e), Item(kind, e) \in OutLine'
  PROVE  out' \in Seq(OutLine')
BY Stay, AppendProperties DEF Say

(***************************************************************************)
(* The process: its loop, the connect, the select.                         *)
(***************************************************************************)
LEMMA EndStep ==
  ASSUME StreamInv, UNCHANGED <<cursor, published, host, stdin, sig, args>>, refused => refused',
         Closing \/ (AuthFailed /\ refused') \/ Lost
  PROVE  StreamInv'
<1>1. net' = NoSocket /\ ~net'.inflight
  BY DEF Closing, AuthFailed, Lost, ExitWith, BackOff, NoSocket
<1>2. Process'
  <2>1. \/ \E code \in 0 .. 2 : cli' = [cli EXCEPT !.pc = "exited", !.code = code]
        \/ cli' = [cli EXCEPT !.pc = "sleeping", !.watch = "fresh"]
    BY DEF Closing, AuthFailed, Lost, ExitWith, BackOff
  <2>2. cli' \in Cli
    BY <2>1, Fields DEF Cli
  <2> QED
    BY <2>2 DEF StreamInv, Process
<1>3. out' \in Seq(OutLine')
  <2>1. CASE UNCHANGED out
    BY <2>1, Stay
  <2>2. CASE Say("closing", 0) \/ Say("reconnecting", 0) \/ (Say("auth_failed", 0) /\ refused')
    <3>1. PICK kind \in {"closing", "reconnecting", "auth_failed"} :
            Say(kind, 0) /\ (kind = "auth_failed" => refused')
      BY <2>2
    <3>2. Item(kind, 0) \in OutLine'
      BY <3>1, Fields DEF Item, OutLine, Line
    <3> QED
      BY <3>1, <3>2, SaidLine
  <2> QED
    BY <2>1, <2>2 DEF Closing, AuthFailed, Lost
<1> QED
  BY <1>1, <1>2, <1>3, Near, Stay, Fields

LEMMA LeaveStep ==
  ASSUME StreamInv,
         \/ (Top \/ CheckFlag \/ Woken) /\ Closing
         \/ ConnectFails \/ SourceEnds \/ ConnectRefused
  PROVE  StreamInv'
<1>1. UNCHANGED <<cursor, published, host, stdin, sig, args>> /\ (refused => refused')
  BY DEF Top, CheckFlag, Woken, SourceEnds, ConnectFails, ConnectRefused, others
<1>2. Closing \/ (AuthFailed /\ refused') \/ Lost
  BY DEF SourceEnds, ConnectFails, ConnectRefused
<1> QED
  BY <1>1, <1>2, EndStep

(* A turn of a loop in which the process only notes where it is.           *)
Turns ==
  \/ (Top \/ CheckFlag) /\ ~Closing
  \/ Wake \/ Register \/ Heartbeat \/ StdinEnds \/ Signal \/ Notify \/ HostCloses

LEMMA TurnStep == ASSUME StreamInv, Turns PROVE StreamInv'
<1>1. UNCHANGED <<cursor, published, host, net, out, stdin, refused>>
  BY DEF Turns, Top, CheckFlag, Wake, Register, Heartbeat, StdinEnds, Signal, Notify, HostCloses, others
<1>2. cli \in Cli /\ args' = args /\ sig' \in {"none", "flagged", "notified"}
      /\ args \in [once : BOOLEAN, no_reconnect : BOOLEAN, ack_stdin : BOOLEAN]
  BY DEF StreamInv, Process, Turns, Top, CheckFlag, Wake, Register, Heartbeat, StdinEnds, Signal,
         Notify, HostCloses, others
<1>3. cli' \in Cli
  <2>1. CASE Top /\ ~Closing
    BY <1>2, <2>1 DEF Top, Cli, Lent
  <2>2. CASE Wake
    <3>1. Doubled \in {1, 2, 4, 8, 16, 30}
      BY <1>2 DEF Cli, Doubled
    <3> QED
      BY <1>2, <2>2, <3>1 DEF Wake, Cli
  <2>3. CASE (CheckFlag /\ ~Closing) \/ Register \/ Heartbeat
    BY <1>2, <2>3 DEF CheckFlag, Register, Heartbeat, NewTurn, Cli
  <2>4. CASE StdinEnds
    BY <1>2, <2>4 DEF StdinEnds, Cli
  <2>5. CASE Signal \/ Notify \/ HostCloses
    BY <1>2, <2>5 DEF Signal, Notify, HostCloses, Cli
  <2> QED
    BY <2>1, <2>2, <2>3, <2>4, <2>5 DEF Turns
<1> QED
  BY <1>1, <1>2, <1>3, Quiet DEF Process

LEMMA ConnectOkStep == ASSUME StreamInv, ConnectOk PROVE StreamInv'
<1>1. UNCHANGED <<cursor, published, host, stdin, out, refused>>
  BY DEF ConnectOk, others
<1>2. Process'
  BY DEF StreamInv, Process, Cli, ConnectOk, others
<1>3. Item("join", 0) \in UpFrame
  BY Fields DEF Item, UpFrame, Frame
<1>4. net' = [up |-> <<Item("join", 0)>>, down |-> <<>>, alive |-> TRUE, chan |-> "none",
              inflight |-> FALSE]
  BY DEF ConnectOk, NoSocket
<1>5. <<Item("join", 0)>> \in Seq(UpFrame') /\ <<>> \in Seq(DownFrame')
  BY <1>1, <1>3, EmptySeq, Stay
<1>6. net' \in Net' /\ ~net'.inflight
  BY <1>4, <1>5 DEF Net
<1> QED
  BY <1>1, <1>2, <1>6, Near, Stay, Fields

LEMMA SendAckStep == ASSUME StreamInv, SendAck PROVE StreamInv'
<1>1. UNCHANGED <<cursor, published, host, out, refused>>
  BY DEF SendAck, TakeId
<1>2. Process'
  BY DEF StreamInv, Process, Cli, SendAck, TakeId, NewTurn
<1>3. stdin' \in Seq(host.handled) /\ Head(stdin) \in host.handled
  BY Fields, HeadTailProperties DEF SendAck, TakeId
<1>4. Item("ack", Head(stdin)) \in UpFrame
  BY <1>3, Fields DEF Item, UpFrame, Frame, Event
<1>5. Append(net.up, Item("ack", Head(stdin))) \in Seq(UpFrame)
  BY <1>4, Fields, AppendProperties
<1>6. net' \in Net' /\ net'.inflight = net.inflight
  <2>1. net \in Net' /\ Seq(UpFrame') = Seq(UpFrame)
    BY <1>1, Stay
  <2>2. \/ net' = net
        \/ net' = [net EXCEPT !.up = Append(net.up, Item("ack", Head(stdin)))]
    BY DEF SendAck, TakeId
  <2> QED
    BY <1>5, <2>1, <2>2 DEF Net
<1> QED
  BY <1>1, <1>2, <1>3, <1>6, Near, Stay, Fields

LEMMA ReceiveStep == ASSUME StreamInv, Receive PROVE StreamInv'
<1> DEFINE f == Head(net.down)
<1>1. /\ f \in DownFrame /\ Tail(net.down) \in Seq(DownFrame) /\ cli.pc = "open"
      /\ UNCHANGED <<args, sig, stdin, cursor, published, host, refused>>
  BY Fields, HeadTailProperties DEF Receive, others
<1>2. DownFrame' = DownFrame /\ OutLine' = OutLine /\ UpFrame' = UpFrame
  BY <1>1 DEF DownFrame, OutLine, UpFrame
<1>3. CASE f.kind = "joinerr" /\ AuthFailed
  <2>1. refused'
    BY <1>1, <1>3 DEF DownFrame
  <2> QED
    BY <1>1, <1>3, <2>1, EndStep
<1>4. CASE f.kind = "event" /\ args.once /\ Say("event", f.event) /\ ExitWith(0)
  <2>1. Item("event", f.event) \in OutLine'
    BY <1>1, <1>2, <1>4 DEF DownFrame, OutLine, Frame, Line, Item
  <2>2. out' \in Seq(OutLine')
    BY <1>1, <1>4, <2>1, SaidLine
  <2>3. cli' \in Cli /\ net' = NoSocket /\ ~net'.inflight
    <3>1. cli' = [cli EXCEPT !.pc = "exited", !.code = 0] /\ net' = NoSocket
      BY <1>4 DEF ExitWith
    <3>2. \E code \in 0 .. 2 : cli' = [cli EXCEPT !.pc = "exited", !.code = code]
      BY <3>1
    <3>3. cli' \in Cli
      BY <3>2, Fields DEF Cli
    <3> QED
      BY <3>1, <3>3 DEF NoSocket
  <2> QED
    BY <1>1, <2>2, <2>3, Near, Stay, Fields DEF StreamInv, Process
<1>5. CASE ~(f.kind = "joinerr" /\ AuthFailed) /\ ~(f.kind = "event" /\ args.once)
  <2>1. /\ \/ cli' = [cli EXCEPT !.joined = TRUE, !.watch = "fresh"]
           \/ cli' = [cli EXCEPT !.watch = "fresh"]
        /\ \/ out' = out
           \/ \E kind \in {"connected", "resumed"} : Say(kind, 0)
           \/ f.kind \in {"event", "acked"} /\ Say(f.kind, f.event)
        /\ \/ net' = [net EXCEPT !.down = Tail(@)]
           \/ net' = [net EXCEPT !.down = Tail(@), !.up = @ \o <<>>]
    BY <1>5 DEF Receive, Classify, NewTurn, Unasked
  <2>2. cli' \in Cli
    BY <2>1, Fields DEF Cli
  <2>3. out' \in Seq(OutLine')
    <3>1. CASE out' = out
      BY <1>1, <3>1, Stay
    <3>2. CASE \E kind \in {"connected", "resumed"} : Say(kind, 0)
      <4>1. PICK kind \in {"connected", "resumed"} : Say(kind, 0)
        BY <3>2
      <4>2. Item(kind, 0) \in OutLine'
        BY <4>1, Fields DEF Item, OutLine, Line
      <4> QED
        BY <1>1, <4>1, <4>2, SaidLine
    <3>3. CASE f.kind \in {"event", "acked"} /\ Say(f.kind, f.event)
      <4>1. Item(f.kind, f.event) \in OutLine'
        BY <1>1, <1>2, <3>3 DEF DownFrame, OutLine, Frame, Line, Item
      <4> QED
        BY <1>1, <3>3, <4>1, SaidLine
    <3> QED
      BY <2>1, <3>1, <3>2, <3>3
  <2>4. net' \in Net' /\ net'.inflight = net.inflight
    <3>1. net.up \o <<>> = net.up /\ net \in Net
      BY Fields, ConcatEmptySeq
    <3>2. net' = [net EXCEPT !.down = Tail(net.down)]
      BY <2>1, <3>1 DEF Net
    <3>3. net' \in Net /\ net'.inflight = net.inflight
      BY <1>1, <3>1, <3>2 DEF Net
    <3> QED
      BY <1>2, <3>3 DEF Net
  <2>5. stdin' \in Seq(host.handled) /\ Process'
    BY <1>1, <2>2, Fields DEF StreamInv, Process
  <2> QED
    BY <1>1, <2>3, <2>4, <2>5, Near, Stay
<1> QED
  BY <1>3, <1>4, <1>5 DEF Receive, Classify

(***************************************************************************)
(* The server and the network.                                             *)
(***************************************************************************)
LEMMA FarStep ==
  ASSUME StreamInv, UNCHANGED <<args, cli, sig, out, stdin, host, cursor>>,
         published' \in cursor .. MaxEvent, refused => refused', net' \in Net',
         net'.inflight => cursor < published', published <= published'
  PROVE  StreamInv'
<1>1. out' \in Seq(OutLine')
  <2>1. OutLine \subseteq OutLine'
    BY Fields DEF OutLine
  <2> QED
    BY <2>1, Fields, SeqMonotonic
<1>2. Passed'
  BY Fields DEF StreamInv, Passed, AtLeastOnce
<1>3. stdin' \in Seq(host'.handled) /\ Process' /\ Wire'
  BY Fields DEF StreamInv, Process, Wire
<1> QED
  BY <1>1, <1>2, <1>3 DEF StreamInv, Pipes

LEMMA NetMoves ==
  ASSUME StreamInv, UNCHANGED <<cursor, host>>, refused => refused',
         NEW up \in Seq(UpFrame'), NEW down \in Seq(DownFrame'), NEW alive \in BOOLEAN,
         NEW chan \in {"none", "joined", "closed"}, NEW inflight \in BOOLEAN,
         net' = [up |-> up, down |-> down, alive |-> alive, chan |-> chan, inflight |-> inflight]
  PROVE  net' \in Net' /\ net'.inflight = inflight
BY DEF Net

LEMMA ServeJoinStep == ASSUME StreamInv, ServeJoin PROVE StreamInv'
<1>1. UNCHANGED <<args, cli, sig, out, stdin, host, cursor, published>> /\ (refused => refused')
  BY DEF ServeJoin, near
<1>2. Tail(net.up) \in Seq(UpFrame') /\ net.down \in Seq(DownFrame') /\ net \in Net
  <2>1. Tail(net.up) \in Seq(UpFrame)
    BY Fields, HeadTailProperties DEF ServeJoin
  <2> QED
    BY <1>1, <2>1, Stay, Fields
<1>3. PICK kind \in {"joinok", "joinerr"}, chan \in {net.chan, "joined"} :
        /\ net' = [up |-> Tail(net.up), down |-> Append(net.down, Item(kind, 0)), alive |-> net.alive,
                   chan |-> chan, inflight |-> net.inflight]
        /\ kind = "joinerr" => refused'
  BY <1>2 DEF ServeJoin, Net
<1>4. Append(net.down, Item(kind, 0)) \in Seq(DownFrame')
  <2>1. Item(kind, 0) \in DownFrame'
    BY <1>3, Fields DEF Item, DownFrame, Frame
  <2> QED
    BY <1>2, <2>1, AppendProperties
<1>5. net' \in Net' /\ net'.inflight = net.inflight
  BY <1>1, <1>2, <1>3, <1>4, NetMoves DEF Net
<1> QED
  BY <1>1, <1>5, FarStep, Fields DEF StreamInv, Wire

LEMMA PushStep == ASSUME StreamInv, Push \/ Resend PROVE StreamInv'
<1>1. UNCHANGED <<args, cli, sig, out, stdin, host, cursor, published, refused>>
  BY DEF Push, Resend, Fault, near
<1>2. net.up \in Seq(UpFrame') /\ net.down \in Seq(DownFrame') /\ net \in Net
  BY <1>1, Stay, Fields
<1>3. cursor < published /\ net' = [up |-> net.up, down |-> Append(net.down, Item("event", cursor + 1)),
                   alive |-> net.alive, chan |-> net.chan, inflight |-> TRUE]
  BY <1>2 DEF Push, Resend, Net, StreamInv, Wire
<1>4. Append(net.down, Item("event", cursor + 1)) \in Seq(DownFrame')
  <2>1. Item("event", cursor + 1) \in DownFrame'
    BY <1>1, <1>3, Fields DEF Item, DownFrame, Frame
  <2> QED
    BY <1>2, <2>1, AppendProperties
<1>5. net' \in Net'
  BY <1>1, <1>2, <1>3, <1>4, NetMoves DEF Net
<1> QED
  BY <1>1, <1>3, <1>5, FarStep, Fields

LEMMA ChannelStep == ASSUME StreamInv, ChannelCloses \/ Drop \/ Publish PROVE StreamInv'
<1>1. /\ UNCHANGED <<args, cli, sig, out, stdin, host, cursor, refused>>
      /\ \A n \in Nat : n <= published => n <= published'
  BY Fields DEF ChannelCloses, Drop, Publish, Fault, near
<1>2. /\ net.up \in Seq(UpFrame') /\ net.down \in Seq(DownFrame') /\ net \in Net
      /\ <<>> \in Seq(UpFrame') /\ <<>> \in Seq(DownFrame')
  <2>1. <<>> \in Seq(UpFrame') /\ <<>> \in Seq(DownFrame')
    BY EmptySeq
  <2> QED
    BY <1>1, <2>1, Stay, Fields
<1>3. CASE ChannelCloses
  <2>1. net' = [up |-> net.up, down |-> Append(net.down, Item("other", 0)), alive |-> net.alive,
                chan |-> "closed", inflight |-> FALSE] /\ published' = published
    BY <1>2, <1>3 DEF ChannelCloses, Fault, Net
  <2>2. Append(net.down, Item("other", 0)) \in Seq(DownFrame')
    <3>1. Item("other", 0) \in DownFrame'
      BY Fields DEF Item, DownFrame, Frame
    <3> QED
      BY <1>2, <3>1, AppendProperties
  <2>3. net' \in Net' /\ ~net'.inflight
    BY <1>1, <1>2, <2>1, <2>2, NetMoves DEF Net
  <2> QED
    BY <1>1, <2>1, <2>3, FarStep, Fields
<1>4. CASE Drop
  <2>1. PICK d \in {net.down, <<>>} :
          net' = [up |-> <<>>, down |-> d, alive |-> FALSE, chan |-> "none", inflight |-> FALSE]
    BY <1>4 DEF Drop, NoSocket
  <2>2. net' \in Net' /\ ~net'.inflight /\ published' = published
    <3>1. d \in Seq(DownFrame') /\ published' = published
      BY <1>2, <1>4, <2>1 DEF Drop, Fault
    <3>2. net' \in Net' /\ net'.inflight = FALSE
      BY <1>1, <1>2, <2>1, <3>1, NetMoves
    <3> QED
      BY <3>1, <3>2
  <2> QED
    BY <1>1, <2>2, FarStep, Fields
<1>5. CASE Publish
  <2>1. net' \in Net' /\ net' = net
    BY <1>1, <1>2, <1>5 DEF Publish, Net
  <2> QED
    BY <1>1, <1>5, <2>1, FarStep, Fields DEF Publish, StreamInv, Wire
<1> QED
  BY <1>3, <1>4, <1>5

(* The server passes over an event: one that was handed to the host, and   *)
(* that the host has handled.                                              *)
LEMMA ServeAckStep == ASSUME StreamInv, ServeAck PROVE StreamInv'
<1> DEFINE e == Head(net.up).event
<1>1. /\ UNCHANGED <<args, cli, sig, out, stdin, host, published, refused>>
      /\ net \in Net /\ Tail(net.up) \in Seq(UpFrame) /\ Head(net.up) \in UpFrame
      /\ e \in host.handled /\ e \in Event
  BY Fields, HeadTailProperties DEF ServeAck, near, UpFrame
<1> HIDE DEF e
<1>2. CASE cursor' = e /\ e = cursor + 1 /\ net.inflight
           /\ net' = [net EXCEPT !.up = Tail(@), !.inflight = FALSE,
                                 !.down = Append(@, Item("acked", e))]
  <2>1. cursor' \in Nat /\ cursor' = cursor + 1 /\ cursor' <= published
    BY <1>2, Fields DEF StreamInv, Wire
  <2>2. UpFrame \subseteq UpFrame' /\ DownFrame \subseteq DownFrame' /\ OutLine \subseteq OutLine'
    BY <1>1, <2>1, Grown, Fields
  <2>3. /\ Tail(net.up) \in Seq(UpFrame') /\ net.down \in Seq(DownFrame')
        /\ out' \in Seq(OutLine') /\ stdin' \in Seq(host'.handled)
    BY <1>1, <2>2, Fields, SeqMonotonic
  <2>4. Append(net.down, Item("acked", e)) \in Seq(DownFrame')
    <3>1. Item("acked", e) \in DownFrame'
      BY <1>1, <1>2, <2>1, Fields DEF Item, DownFrame, Frame, Event
    <3> QED
      BY <2>3, <3>1, AppendProperties
  <2>5. net' = [up |-> Tail(net.up), down |-> Append(net.down, Item("acked", e)),
                alive |-> net.alive, chan |-> net.chan, inflight |-> FALSE]
    BY <1>1, <1>2 DEF Net
  <2>6. Wire'
    BY <1>1, <2>3, <2>4, <2>5 DEF Wire, Net
  <2>7. Passed'
    <3>1. 1 .. cursor' \subseteq host'.handled
      BY <1>1, <1>2, <2>1, Fields DEF StreamInv, Passed, AtLeastOnce
    <3>2. host'.handled \subseteq 1 .. cursor' + 1 /\ host'.confirmed \subseteq 1 .. cursor'
      BY <1>1, <2>1, Fields DEF StreamInv, Passed, AtLeastOnce
    <3> QED
      BY <1>1, <2>1, <3>1, <3>2, Fields DEF Passed, AtLeastOnce, StreamInv
  <2>8. Process'
    BY <1>1 DEF StreamInv, Process
  <2> QED
    BY <2>3, <2>6, <2>7, <2>8 DEF StreamInv, Pipes
<1>3. CASE cursor' = cursor /\ \E reply \in {<<>>, <<Item("ackerr", e)>>} :
             net' = [net EXCEPT !.up = Tail(@), !.down = @ \o reply]
  <2>1. PICK reply \in {<<>>, <<Item("ackerr", e)>>} :
          net' = [up |-> Tail(net.up), down |-> net.down \o reply, alive |-> net.alive,
                  chan |-> net.chan, inflight |-> net.inflight]
    BY <1>1, <1>3 DEF Net
  <2>2. Tail(net.up) \in Seq(UpFrame') /\ net.down \in Seq(DownFrame')
    BY <1>1, <1>3, Stay
  <2>3. reply \in Seq(DownFrame')
    <3>1. Item("ackerr", e) \in DownFrame'
      BY <1>1, Fields DEF Item, DownFrame, Frame, Event
    <3>2. <<>> \in Seq(DownFrame') /\ <<Item("ackerr", e)>> \in Seq(DownFrame')
      BY <3>1, EmptySeq
    <3> QED
      BY <2>1, <3>2
  <2>4. net.down \o reply \in Seq(DownFrame')
    BY <2>2, <2>3, ConcatProperties
  <2>5. net' \in Net' /\ net'.inflight = net.inflight
    BY <1>1, <1>3, <2>1, <2>2, <2>4, NetMoves DEF Net
  <2> QED
    BY <1>1, <1>3, <2>5, FarStep, Fields DEF StreamInv, Wire
<1> QED
  BY <1>2, <1>3 DEF ServeAck, e

(***************************************************************************)
(* The host reads a line.                                                  *)
(***************************************************************************)
LEMMA HostReadsStep == ASSUME StreamInv, HostReads PROVE StreamInv'
<1> DEFINE l == Head(out)
           es == {l.event} \ {0}
<1>1. /\ UNCHANGED <<args, cli, sig, net, cursor, published, refused>>
      /\ l \in OutLine /\ Tail(out) \in Seq(OutLine) /\ out' = Tail(out)
  BY Fields, HeadTailProperties DEF HostReads
<1>2. /\ host'.handled = host.handled \cup (IF l.kind = "event" THEN es ELSE {})
      /\ host'.confirmed = host.confirmed \cup (IF l.kind = "acked" THEN es ELSE {})
      /\ host'.view = ViewAfter(l.kind)
      /\ host' = [handled |-> host'.handled, confirmed |-> host'.confirmed, view |-> host'.view]
      /\ stdin' = stdin \/ (l.kind = "event" /\ stdin' = Append(stdin, l.event))
  BY DEF HostReads
<1>3. /\ l.kind = "event" => l.event \in 1 .. cursor + 1 /\ l.event \in Event
      /\ l.kind = "acked" => l.event \in 1 .. cursor
  BY <1>1, Fields DEF OutLine, Line, Event
<1> HIDE DEF l
<1>4. UpFrame \subseteq UpFrame' /\ DownFrame \subseteq DownFrame' /\ OutLine \subseteq OutLine'
  BY <1>1, <1>2, Grown, Fields
<1>5. Wire'
  <2>1. net.up \in Seq(UpFrame') /\ net.down \in Seq(DownFrame')
    BY <1>4, Fields, SeqMonotonic
  <2> QED
    BY <1>1, <2>1, Fields DEF StreamInv, Wire, Net
<1>6. out' \in Seq(OutLine')
  BY <1>1, <1>4, SeqMonotonic
<1>7. stdin' \in Seq(host'.handled)
  <2>1. stdin \in Seq(host'.handled)
    BY <1>2, Fields, SeqMonotonic
  <2>2. l.kind = "event" => l.event \in host'.handled
    BY <1>2, <1>3
  <2> QED
    BY <1>2, <2>1, <2>2, AppendProperties
<1>8. Passed'
  <2>1. host' \in Host
    <3>1. host.view \in {"new", "up", "down", "over"}
      BY Fields DEF Host
    <3>2. host'.view \in {"new", "up", "down", "over"}
      BY <1>2, <3>1 DEF ViewAfter
    <3>3. host'.handled \subseteq Event /\ host'.confirmed \subseteq Event
      BY <1>2, <1>3, Fields DEF Event
    <3> QED
      BY <1>2, <3>2, <3>3 DEF Host
  <2>2. host'.handled \subseteq 1 .. cursor + 1 /\ 1 .. cursor \subseteq host'.handled
        /\ host'.confirmed \subseteq 1 .. cursor
    BY <1>2, <1>3 DEF StreamInv, Passed, AtLeastOnce
  <2> QED
    BY <1>1, <2>1, <2>2 DEF StreamInv, Passed, AtLeastOnce
<1>9. Process'
  BY <1>1 DEF StreamInv, Process
<1> QED
  BY <1>5, <1>6, <1>7, <1>8, <1>9 DEF StreamInv, Pipes

LEMMA StreamNext == StreamInv /\ [Next]_vars => StreamInv'
<1> SUFFICES ASSUME StreamInv, [Next]_vars PROVE StreamInv'
  OBVIOUS
<1>1. CASE Top \/ CheckFlag
  BY <1>1, LeaveStep, TurnStep DEF Turns
<1>2. CASE Woken \/ SourceEnds \/ ConnectFails \/ ConnectRefused
  BY <1>2, LeaveStep DEF Woken
<1>3. CASE Wake \/ Register \/ Heartbeat \/ StdinEnds \/ Signal \/ Notify \/ HostCloses
  BY <1>3, TurnStep DEF Turns
<1>4. CASE UNCHANGED vars
  <2>1. UNCHANGED <<cursor, published, host, net, out, stdin, refused>> /\ Process'
    BY <1>4 DEF vars, StreamInv, Process
  <2> QED
    BY <2>1, Quiet
<1> QED
  BY <1>1, <1>2, <1>3, <1>4, ConnectOkStep, SendAckStep, ReceiveStep, ServeJoinStep, ServeAckStep,
     PushStep, ChannelStep, HostReadsStep
  DEF Next

LEMMA StreamInvariant == Spec => []StreamInv
<1>1. Init => StreamInv
  BY StreamInit
<1>2. StreamInv /\ [Next]_vars => StreamInv'
  BY StreamNext
<1> QED
  BY <1>1, <1>2, PTL DEF Spec

(***************************************************************************)
(* The lines: what a line more, or one less, changes.                      *)
(***************************************************************************)
LEMMA SayInit == Init => SayInv
<1> SUFFICES ASSUME Init PROVE SayInv
  OBVIOUS
<1>1. Latest = "new" /\ Ordered
  BY DEF Init, Latest, ViewAt, Ordered
<1> QED
  BY <1>1 DEF Init, SayInv, Saying, Announced, NoSocket

LEMMA Unsaid == ASSUME Ordered, UNCHANGED <<out, host>>, refused => refused'
                PROVE  Ordered' /\ Latest' = Latest
BY DEF Ordered, Latest, ViewAt, InOrder

LEMMA SaidOrdered ==
  ASSUME StreamInv, Ordered, host' = host, refused => refused', NEW kind, NEW e, Say(kind, e),
         Item(kind, e) \in OutLine',
         InOrder(kind, Latest) \/ (kind = "auth_failed" /\ Latest # "over" /\ refused')
  PROVE  Ordered' /\ Latest' = Shown(kind)
<1> DEFINE l == Item(kind, e)
<1>0. PICK n \in Nat : n = Len(out)
  BY Fields, LenProperties
<1>1. /\ n \in Nat /\ out' = Append(out, l) /\ Len(out') = n + 1 /\ out'[n + 1] = l
      /\ \A i \in 1 .. n : out'[i] = out[i]
  <2>1. out \in Seq(OutLine \cup {l}) /\ n \in Nat
    BY <1>0, Fields, SeqMonotonic
  <2> QED
    BY <1>0, <2>1, AppendProperties DEF Say
<1>2. l.kind = kind
  BY DEF Item
<1>3. \A i \in 0 .. n : ViewAt(i)' = ViewAt(i)
  BY <1>0, <1>1 DEF ViewAt
<1>4. ViewAt(n + 1)' = Shown(kind)
  BY <1>0, <1>1, <1>2 DEF ViewAt
<1>5. ASSUME NEW i \in 1 .. n PROVE InOrder(out[i].kind, ViewAt(i - 1))'
  <2>1. out'[i] = out[i] /\ ViewAt(i - 1)' = ViewAt(i - 1)
    BY <1>0, <1>1, <1>3, <1>5
  <2>2. InOrder(out[i].kind, ViewAt(i - 1))
    BY <1>0, <1>5 DEF Ordered
  <2> QED
    BY <2>1, <2>2 DEF InOrder
<1>6. InOrder(out[n + 1].kind, ViewAt(n))'
  <2>1. ViewAt(n)' = Latest /\ out'[n + 1].kind = kind
    BY <1>0, <1>1, <1>2, <1>3 DEF Latest
  <2> QED
    BY <2>1 DEF InOrder
<1>7. Ordered'
  <2> SUFFICES ASSUME NEW i \in 1 .. n + 1 PROVE InOrder(out[i].kind, ViewAt(i - 1))'
    BY <1>0, <1>1 DEF Ordered
  <2>1. i \in 1 .. n \/ (i = n + 1 /\ i - 1 = n)
    BY <1>0, <1>1
  <2> QED
    BY <1>5, <1>6, <2>1
<1> QED
  BY <1>0, <1>1, <1>4, <1>7 DEF Latest

LEMMA ReadOrdered ==
  ASSUME StreamInv, Ordered, HostReads
  PROVE  Ordered' /\ Latest' = Latest
<1> DEFINE l == Head(out)
<1>0. PICK n \in Nat : n = Len(out)
  BY Fields, LenProperties
<1>1. /\ n \in Nat \ {0} /\ out' = Tail(out) /\ Len(out') = n - 1 /\ l = out[1]
      /\ \A i \in 1 .. n - 1 : out'[i] = out[i + 1]
      /\ refused' = refused /\ host'.view = ViewAfter(l.kind)
  <2>1. out \in Seq(OutLine) /\ out # <<>>
    BY Fields DEF HostReads
  <2>2. n \in Nat \ {0} /\ l = out[1] /\ Len(Tail(out)) = n - 1
        /\ \A i \in 1 .. n - 1 : Tail(out)[i] = out[i + 1]
    BY <1>0, <2>1, HeadTailProperties, EmptySeq
  <2> QED
    BY <2>2 DEF HostReads
<1>2. host'.view = Shown(out[1].kind)
  <2>1. InOrder(l.kind, host.view) /\ l \in Line
    <3>1. l \in OutLine
      BY Fields, HeadTailProperties DEF HostReads
    <3>2. InOrder(out[1].kind, ViewAt(0))
      BY <1>0, <1>1 DEF Ordered
    <3> QED
      BY <1>0, <1>1, <3>1, <3>2 DEF ViewAt, OutLine
  <2> QED
    BY <1>0, <1>1, <2>1 DEF ViewAfter, Shown, InOrder, Line
<1>3. \A i \in 0 .. n - 1 : ViewAt(i)' = ViewAt(i + 1)
  BY <1>0, <1>1, <1>2 DEF ViewAt
<1>4. ASSUME NEW i \in 1 .. n - 1 PROVE InOrder(out[i].kind, ViewAt(i - 1))'
  <2>1. out'[i] = out[i + 1] /\ i + 1 \in 1 .. n /\ (i - 1) + 1 = i /\ i + 1 - 1 = i
        /\ i - 1 \in 0 .. n - 1
    BY <1>0, <1>1
  <2>2. ViewAt(i - 1)' = ViewAt(i) /\ InOrder(out[i + 1].kind, ViewAt(i))
    BY <1>0, <1>3, <2>1 DEF Ordered
  <2> QED
    BY <1>0, <1>1, <2>1, <2>2 DEF InOrder
<1>5. Ordered'
  BY <1>0, <1>1, <1>4 DEF Ordered
<1>6. n - 1 \in 0 .. n - 1 /\ n - 1 + 1 = n
  BY <1>0, <1>1
<1> QED
  BY <1>0, <1>1, <1>3, <1>5, <1>6 DEF Latest

(***************************************************************************)
(* The frames: an event never comes before the answer to the join.         *)
(***************************************************************************)
LEMMA DownGrows ==
  ASSUME StreamInv, Announced, UNCHANGED cli, NEW f, net'.down = Append(net.down, f),
         net # NoSocket,
         f.kind \in {"event", "acked"} => net.chan # "none",
         net'.chan # "none" => net.chan # "none" \/ f.kind = "joinok",
         net'.inflight => net'.chan = "joined"
  PROVE  Announced'
<1>0. PICK n \in Nat : n = Len(net.down)
  BY Fields, LenProperties
<1>1. /\ n \in Nat /\ Len(net'.down) = n + 1 /\ net'.down[n + 1] = f
      /\ \A i \in 1 .. n : net'.down[i] = net.down[i]
  <2>1. net.down \in Seq(DownFrame \cup {f}) /\ n \in Nat
    BY <1>0, Fields, SeqMonotonic
  <2> QED
    BY <1>0, <2>1, AppendProperties
<1>2. cli'.pc = "open"
  BY DEF Announced
<1>3. \A i \in 0 .. n : JoinedBefore(i) => JoinedBefore(i)'
  BY <1>0, <1>1 DEF JoinedBefore
<1>4. ASSUME ~cli'.joined, net'.chan # "none" PROVE JoinedBefore(n + 1)'
  <2>1. CASE net.chan # "none"
    <3>1. JoinedBefore(n)
      BY <1>0, <1>2, <1>4, <2>1 DEF Announced
    <3> QED
      BY <1>0, <1>1, <3>1 DEF JoinedBefore
  <2>2. CASE f.kind = "joinok"
    BY <1>0, <1>1, <2>2 DEF JoinedBefore
  <2> QED
    BY <1>4, <2>1, <2>2
<1>5. ASSUME ~cli'.joined, NEW i \in 1 .. n + 1, net'.down[i].kind \in {"event", "acked"}
      PROVE  JoinedBefore(i - 1)'
  <2>1. CASE i \in 1 .. n
    <3>1. JoinedBefore(i - 1) /\ i - 1 \in 0 .. n
      BY <1>0, <1>1, <1>2, <1>5, <2>1 DEF Announced
    <3> QED
      BY <1>3, <3>1
  <2>2. CASE i = n + 1
    <3>1. JoinedBefore(n) /\ i - 1 = n /\ n \in 0 .. n
      BY <1>0, <1>1, <1>2, <1>5, <2>2 DEF Announced
    <3> QED
      BY <1>3, <3>1
  <2> QED
    BY <2>1, <2>2
<1> QED
  BY <1>0, <1>1, <1>2, <1>4, <1>5 DEF Announced

LEMMA DownShrinks ==
  ASSUME StreamInv, Announced, net.down # <<>>, Head(net.down).kind # "joinok",
         cli.pc = "open", ~cli.joined, net'.down = Tail(net.down),
         net'.chan = net.chan, net'.inflight = net.inflight, cli'.pc = "open"
  PROVE  Announced'
<1>0. PICK n \in Nat : n = Len(net.down)
  BY Fields, LenProperties
<1>1. /\ n \in Nat \ {0} /\ Len(net'.down) = n - 1 /\ net.down[1].kind # "joinok"
      /\ \A i \in 1 .. n - 1 : net'.down[i] = net.down[i + 1]
  BY <1>0, Fields, HeadTailProperties, EmptySeq
<1>2. ASSUME NEW i \in 0 .. n - 1, JoinedBefore(i + 1) PROVE JoinedBefore(i)'
  <2>1. PICK j \in 1 .. i + 1 : net.down[j].kind = "joinok"
    BY <1>2 DEF JoinedBefore
  <2>2. j - 1 \in 1 .. i /\ j - 1 \in 1 .. n - 1 /\ (j - 1) + 1 = j
    BY <1>0, <1>1, <2>1
  <2> QED
    BY <1>0, <1>1, <2>1, <2>2 DEF JoinedBefore
<1>3. net'.chan # "none" => JoinedBefore(n - 1)'
  <2>1. n - 1 \in 0 .. n - 1 /\ n - 1 + 1 = n
    BY <1>0, <1>1
  <2> QED
    BY <1>0, <1>2, <2>1 DEF Announced
<1>4. ASSUME NEW i \in 1 .. n - 1, net'.down[i].kind \in {"event", "acked"}
      PROVE  JoinedBefore(i - 1)'
  <2>1. i + 1 \in 1 .. n /\ i + 1 - 1 = i /\ (i - 1) + 1 = i /\ i - 1 \in 0 .. n - 1
    BY <1>0, <1>1
  <2>2. JoinedBefore(i)
    BY <1>0, <1>1, <1>4, <2>1 DEF Announced
  <2> QED
    BY <1>2, <2>1, <2>2
<1> QED
  BY <1>0, <1>1, <1>3, <1>4 DEF Announced

(***************************************************************************)
(* The steps.                                                              *)
(***************************************************************************)
LEMMA ExitSaid ==
  ASSUME StreamInv, SayInv, host' = host, refused => refused', cli.pc # "exited",
         Closing \/ (AuthFailed /\ refused') \/ Lost
  PROVE  SayInv'
<1>1. Latest # "over" /\ Ordered
  BY Fields DEF SayInv, Saying, Cli
<1>2. net' = NoSocket /\ Announced'
  BY DEF Closing, AuthFailed, Lost, ExitWith, BackOff, Announced, NoSocket
<1>3. CASE Closing \/ (AuthFailed /\ refused')
  <2>1. PICK kind \in {"closing", "auth_failed"} :
          Say(kind, 0) /\ cli'.pc = "exited" /\ (kind = "auth_failed" => refused')
    BY <1>3, Fields DEF Closing, AuthFailed, ExitWith, Cli
  <2>2. Item(kind, 0) \in OutLine'
    BY <2>1, Fields DEF Item, OutLine, Line
  <2>3. InOrder(kind, Latest) \/ (kind = "auth_failed" /\ Latest # "over" /\ refused')
    BY <1>1, <2>1 DEF InOrder
  <2>4. Ordered'
    BY <1>1, <2>1, <2>2, <2>3, SaidOrdered
  <2> QED
    BY <1>2, <2>1, <2>4 DEF SayInv, Saying
<1>4. CASE ExitWith(1) /\ UNCHANGED out
  <2>1. Ordered' /\ cli'.pc = "exited"
    BY <1>1, <1>4, Unsaid, Fields DEF ExitWith, Cli
  <2> QED
    BY <1>2, <2>1 DEF SayInv, Saying
<1>5. CASE Say("reconnecting", 0) /\ BackOff
  <2>1. Item("reconnecting", 0) \in OutLine' /\ InOrder("reconnecting", Latest)
    BY <1>1, Fields DEF Item, OutLine, Line, InOrder
  <2>2. Ordered' /\ Latest' = Shown("reconnecting")
    BY <1>1, <1>5, <2>1, SaidOrdered
  <2>3. Latest' = "down" /\ cli'.pc = "sleeping"
    BY <1>5, <2>2, Fields DEF Shown, BackOff, Cli
  <2> QED
    BY <1>2, <2>2, <2>3 DEF SayInv, Saying
<1> QED
  BY <1>3, <1>4, <1>5 DEF Lost

(* A step after which the process is where it was, or a step further in its loop. *)
LEMMA MoveSaid ==
  ASSUME StreamInv, SayInv, UNCHANGED <<out, host>>, refused => refused', Announced',
         \/ cli'.pc = cli.pc /\ cli'.joined = cli.joined
         \/ cli.pc = "sleeping" /\ cli'.pc = "top"
         \/ cli.pc = "top" /\ cli'.pc = "connecting" /\ ~cli'.joined
         \/ cli.pc = "connecting" /\ cli'.pc = "open" /\ cli'.joined = cli.joined
  PROVE  SayInv'
<1>1. Ordered' /\ Latest' = Latest
  BY Unsaid DEF SayInv
<1>2. Saying'
  BY <1>1 DEF SayInv, Saying
<1> QED
  BY <1>1, <1>2 DEF SayInv

LEMMA TurnSaid == ASSUME StreamInv, SayInv, Turns PROVE SayInv'
<1>1. UNCHANGED <<net, out, host, refused>>
  BY DEF Turns, Top, CheckFlag, Wake, Register, Heartbeat, StdinEnds, Signal, Notify, HostCloses, others
<1>2. \/ cli'.pc = cli.pc /\ cli'.joined = cli.joined
      \/ cli.pc = "sleeping" /\ cli'.pc = "top"
      \/ cli.pc = "top" /\ cli'.pc = "connecting" /\ ~cli'.joined
  <2>1. CASE (Top /\ ~Closing) \/ Wake
    BY <2>1, Fields DEF Top, Wake, Cli
  <2>2. CASE (CheckFlag /\ ~Closing) \/ Register \/ Heartbeat
    BY <2>2, Fields DEF CheckFlag, Register, Heartbeat, NewTurn, Cli
  <2>3. CASE StdinEnds
    BY <2>3, Fields DEF StdinEnds, Cli
  <2>4. CASE Signal \/ Notify \/ HostCloses
    BY <2>4, Fields DEF Signal, Notify, HostCloses, Cli
  <2> QED
    BY <2>1, <2>2, <2>3, <2>4 DEF Turns
<1>3. Announced'
  <2>1. cli'.pc # "open" => cli.pc # "open"
    BY <1>2
  <2>2. cli'.pc = "open" /\ ~cli'.joined => cli.pc = "open" /\ ~cli.joined
    BY <1>2
  <2>3. cli'.pc # "open" => net' = NoSocket
    BY <1>1, <2>1 DEF SayInv, Announced
  <2> QED
    BY <1>1, <2>2, <2>3 DEF SayInv, Announced, JoinedBefore
<1> QED
  BY <1>1, <1>2, <1>3, MoveSaid

LEMMA LeaveSaid ==
  ASSUME StreamInv, SayInv,
         \/ (Top \/ CheckFlag \/ Woken) /\ Closing
         \/ ConnectFails \/ SourceEnds \/ ConnectRefused
  PROVE  SayInv'
<1>1. host' = host /\ (refused => refused') /\ cli.pc # "exited"
  BY DEF Top, CheckFlag, Woken, SourceEnds, ConnectFails, ConnectRefused, others, Selecting
<1>2. Closing \/ (AuthFailed /\ refused') \/ Lost
  BY DEF SourceEnds, ConnectFails, ConnectRefused
<1> QED
  BY <1>1, <1>2, ExitSaid

LEMMA ConnectSaid == ASSUME StreamInv, SayInv, ConnectOk \/ SendAck PROVE SayInv'
<1>1. UNCHANGED <<out, host, refused>>
  BY DEF ConnectOk, SendAck, TakeId, others
<1>2. CASE ConnectOk
  <2>1. cli.pc = "connecting" /\ cli'.pc = "open" /\ cli'.joined = cli.joined
    BY <1>2, Fields DEF ConnectOk, Cli
  <2>2. net'.down = <<>> /\ net'.chan = "none" /\ ~net'.inflight
    BY <1>2 DEF ConnectOk, NoSocket
  <2>3. Announced'
    BY <2>1, <2>2 DEF Announced
  <2> QED
    BY <1>1, <2>1, <2>3, MoveSaid
<1>3. CASE SendAck
  <2>1. cli.pc = "open" /\ cli.joined /\ cli'.pc = cli.pc /\ cli'.joined = cli.joined
    BY <1>3, Fields DEF SendAck, TakeId, NewTurn, Cli
  <2>2. net'.chan = net.chan /\ net'.inflight = net.inflight
    BY <1>3, Fields DEF SendAck, TakeId, Net
  <2>3. Announced'
    BY <2>1, <2>2 DEF Announced, SayInv
  <2> QED
    BY <1>1, <2>1, <2>3, MoveSaid
<1> QED
  BY <1>2, <1>3

LEMMA ReceiveSaid == ASSUME StreamInv, SayInv, Receive PROVE SayInv'
<1> DEFINE f == Head(net.down)
<1>1. /\ f \in DownFrame /\ cli.pc = "open" /\ host' = host /\ refused' = refused
      /\ net.down # <<>> /\ f = net.down[1] /\ 1 \in 1 .. Len(net.down)
  <2>1. net.down \in Seq(DownFrame) /\ net.down # <<>> /\ cli.pc = "open" /\ host' = host
        /\ refused' = refused
    BY Fields DEF Receive, others
  <2>2. Len(net.down) \in Nat \ {0}
    BY <2>1, EmptySeq
  <2> QED
    BY <2>1, <2>2, HeadTailProperties
<1>2. OutLine' = OutLine /\ Ordered
  <2>1. cursor' = cursor /\ refused' = refused /\ published' = published
    BY DEF Receive, others
  <2> QED
    BY <2>1 DEF OutLine, SayInv
<1>3. f.kind \in {"event", "acked"} => cli.joined /\ Latest = "up"
  <2>1. ~JoinedBefore(0)
    BY DEF JoinedBefore
  <2>2. 1 - 1 = 0
    OBVIOUS
  <2>3. f.kind \in {"event", "acked"} => cli.joined
    BY <1>1, <2>1, <2>2 DEF SayInv, Announced
  <2> QED
    BY <1>1, <2>3 DEF SayInv, Saying
<1>4. f.kind \in {"event", "acked"} => Item(f.kind, f.event) \in OutLine' /\ InOrder(f.kind, Latest)
  BY <1>1, <1>2, <1>3 DEF DownFrame, OutLine, Frame, Line, Item, InOrder
<1>5. CASE f.kind = "joinok" /\ ~cli.joined
  <2>1. PICK kind \in {"connected", "resumed"} : Say(kind, 0)
    BY <1>5 DEF Receive, Classify
  <2>2. Item(kind, 0) \in OutLine' /\ InOrder(kind, Latest)
    <3>1. Latest \in {"new", "down"}
      BY <1>1, <1>5 DEF SayInv, Saying
    <3> QED
      BY <2>1, <3>1, Fields DEF Item, OutLine, Line, InOrder
  <2>3. Ordered' /\ Latest' = "up"
    <3>1. Ordered' /\ Latest' = Shown(kind)
      BY <1>1, <1>2, <2>1, <2>2, SaidOrdered
    <3> QED
      BY <2>1, <3>1 DEF Shown
  <2>4. /\ cli' = [cli EXCEPT !.joined = TRUE, !.watch = "fresh"]
        /\ net' = [net EXCEPT !.down = Tail(@)]
    BY <1>5 DEF Receive, Classify
  <2>5. /\ cli'.joined /\ cli'.pc = "open"
        /\ net'.chan = net.chan /\ net'.inflight = net.inflight
    BY <1>1, <2>4, Fields DEF Cli, Net
  <2> QED
    BY <2>3, <2>5 DEF SayInv, Saying, Announced
<1>6. CASE f.kind = "joinerr" /\ AuthFailed
  BY <1>1, <1>6, ExitSaid DEF DownFrame
<1>7. CASE f.kind = "event" /\ args.once /\ Say("event", f.event) /\ ExitWith(0)
  <2>1. Ordered'
    BY <1>1, <1>2, <1>4, <1>7, SaidOrdered
  <2>2. cli'.pc = "exited" /\ net' = NoSocket
    BY <1>7, Fields DEF ExitWith, Cli
  <2> QED
    BY <2>1, <2>2 DEF SayInv, Saying, Announced, NoSocket
<1>8. CASE f.kind \in {"event", "acked"} /\ ~(f.kind = "event" /\ args.once)
  <2>1. /\ Say(f.kind, f.event) /\ cli' = [cli EXCEPT !.watch = "fresh"]
        /\ \/ net' = [net EXCEPT !.down = Tail(@)]
           \/ net' = [net EXCEPT !.down = Tail(@), !.up = @ \o <<>>]
    BY <1>8 DEF Receive, Classify, NewTurn, Unasked
  <2>2. Ordered' /\ Latest' = "up"
    <3>1. Ordered' /\ Latest' = Shown(f.kind)
      BY <1>1, <1>2, <1>4, <1>8, <2>1, SaidOrdered
    <3> QED
      BY <1>8, <3>1 DEF Shown
  <2>3. /\ cli'.joined /\ cli'.pc = "open"
        /\ net'.chan = net.chan /\ net'.inflight = net.inflight
    BY <1>1, <1>3, <1>8, <2>1, Fields DEF Cli, Net
  <2> QED
    BY <2>2, <2>3 DEF SayInv, Saying, Announced
<1>9. CASE f.kind \in {"ackerr", "other"}
  <2>1. /\ net' = [net EXCEPT !.down = Tail(@)] /\ cli' = [cli EXCEPT !.watch = "fresh"]
        /\ out' = out
    BY <1>9 DEF Receive, Classify, NewTurn
  <2>2. /\ cli'.pc = "open" /\ cli'.joined = cli.joined /\ net'.chan = net.chan
        /\ net'.inflight = net.inflight /\ net'.down = Tail(net.down)
    BY <1>1, <2>1, Fields DEF Cli, Net
  <2>3. Announced'
    <3>1. CASE cli.joined
      BY <2>2, <3>1 DEF SayInv, Announced
    <3>2. CASE ~cli.joined
      BY <1>1, <1>9, <2>2, <3>2, DownShrinks DEF SayInv
    <3> QED
      BY <3>1, <3>2
  <2> QED
    BY <1>1, <2>1, <2>2, <2>3, MoveSaid
<1> QED
  BY <1>5, <1>6, <1>7, <1>8, <1>9 DEF Receive, Classify

LEMMA ServerSaid ==
  ASSUME StreamInv, SayInv,
         ServeJoin \/ ServeAck \/ Push \/ Resend \/ ChannelCloses \/ Drop \/ Publish
  PROVE  SayInv'
<1>1. UNCHANGED <<cli, out, host>> /\ (refused => refused') /\ net \in Net
  BY Fields DEF ServeJoin, ServeAck, Push, Resend, ChannelCloses, Drop, Publish, Fault, near
<1>2. Announced
  BY DEF SayInv
<1>3. Announced'
  <2>1. CASE ServeJoin
    <3>1. PICK f \in {Item("joinok", 0), Item("joinerr", 0)} :
            /\ net'.down = Append(net.down, f) /\ net'.inflight = net.inflight
            /\ \/ net'.chan = "joined" /\ f.kind = "joinok"
               \/ net'.chan = net.chan /\ f.kind = "joinerr"
      BY <1>1, <2>1 DEF ServeJoin, Net, Item
    <3>2. net # NoSocket
      BY <2>1 DEF ServeJoin, NoSocket
    <3> QED
      BY <1>1, <1>2, <3>1, <3>2, DownGrows DEF Item, Announced
  <2>2. CASE ServeAck
    <3>1. net # NoSocket
      BY <2>2 DEF ServeAck, NoSocket
    <3>2. CASE net.chan = "joined" /\ net' = [net EXCEPT !.up = Tail(@), !.inflight = FALSE,
                              !.down = Append(@, Item("acked", Head(net.up).event))]
      <4>1. net'.down = Append(net.down, Item("acked", Head(net.up).event))
            /\ net'.chan = "joined" /\ ~net'.inflight
        BY <1>1, <3>2 DEF Net
      <4> QED
        BY <1>1, <1>2, <3>1, <3>2, <4>1, DownGrows
    <3>3. CASE net' = [net EXCEPT !.up = Tail(@),
                                  !.down = @ \o <<Item("ackerr", Head(net.up).event)>>]
      <4>1. net.down \o <<Item("ackerr", Head(net.up).event)>>
              = Append(net.down, Item("ackerr", Head(net.up).event))
        BY Fields DEF Net
      <4>2. net'.down = Append(net.down, Item("ackerr", Head(net.up).event))
            /\ net'.chan = net.chan /\ net'.inflight = net.inflight
        BY <1>1, <3>3, <4>1 DEF Net
      <4>3. Item("ackerr", Head(net.up).event).kind = "ackerr"
        BY DEF Item
      <4> QED
        BY <1>1, <1>2, <3>1, <4>2, <4>3, DownGrows DEF Announced
    <3>4. CASE net' = [net EXCEPT !.up = Tail(@), !.down = @ \o <<>>]
      <4>1. net.down \o <<>> = net.down
        BY Fields, ConcatEmptySeq
      <4>2. net'.down = net.down /\ net'.chan = net.chan /\ net'.inflight = net.inflight
        BY <1>1, <3>4, <4>1 DEF Net
      <4>3. cli'.pc = "open"
        BY <1>1, <1>2, <3>1 DEF Announced
      <4> QED
        BY <1>1, <1>2, <4>2, <4>3 DEF Announced, JoinedBefore
    <3> QED
      BY <2>2, <3>2, <3>3, <3>4 DEF ServeAck
  <2>3. CASE Push \/ Resend
    <3>1. net.chan = "joined" /\ net # NoSocket
      BY <1>2, <2>3 DEF Push, Resend, Announced, NoSocket
    <3>2. net'.down = Append(net.down, Item("event", cursor + 1)) /\ net'.chan = net.chan
      BY <1>1, <2>3 DEF Push, Resend, Net
    <3> QED
      BY <1>1, <1>2, <3>1, <3>2, DownGrows
  <2>4. CASE ChannelCloses
    <3>1. net.chan = "joined" /\ net # NoSocket
      BY <2>4 DEF ChannelCloses, NoSocket
    <3>2. net'.down = Append(net.down, Item("other", 0)) /\ ~net'.inflight
          /\ Item("other", 0).kind = "other"
      BY <1>1, <2>4 DEF ChannelCloses, Net, Item
    <3> QED
      BY <1>1, <1>2, <3>1, <3>2, DownGrows
  <2>5. CASE Drop
    <3>1. net # NoSocket
      BY <2>5 DEF Drop, NoSocket
    <3>2. cli'.pc = "open"
      BY <1>1, <1>2, <3>1 DEF Announced
    <3>3. PICK d \in {net.down, <<>>} :
            net' = [up |-> <<>>, down |-> d, alive |-> FALSE, chan |-> "none", inflight |-> FALSE]
      BY <2>5 DEF Drop, NoSocket
    <3>4. net'.down = d /\ net'.chan = "none" /\ ~net'.inflight
      BY <3>3
    <3>5. CASE d = net.down
      BY <1>1, <1>2, <3>2, <3>4, <3>5 DEF Announced, JoinedBefore
    <3>6. CASE d = <<>>
      BY <3>2, <3>4, <3>6 DEF Announced
    <3> QED
      BY <3>3, <3>5, <3>6
  <2>6. CASE Publish
    BY <1>1, <1>2, <2>6 DEF Publish, Announced, JoinedBefore
  <2> QED
    BY <2>1, <2>2, <2>3, <2>4, <2>5, <2>6
<1> QED
  BY <1>1, <1>3, MoveSaid

LEMMA HostReadsSaid == ASSUME StreamInv, SayInv, HostReads PROVE SayInv'
<1>1. Ordered' /\ Latest' = Latest
  BY ReadOrdered DEF SayInv
<1>2. UNCHANGED <<cli, net>>
  BY DEF HostReads
<1>3. Announced' /\ Saying'
  BY <1>1, <1>2 DEF SayInv, Saying, Announced, JoinedBefore
<1> QED
  BY <1>1, <1>3 DEF SayInv

LEMMA SayNext == StreamInv /\ SayInv /\ [Next]_vars => SayInv'
<1> SUFFICES ASSUME StreamInv, SayInv, [Next]_vars PROVE SayInv'
  OBVIOUS
<1>1. CASE Top \/ CheckFlag
  BY <1>1, LeaveSaid, TurnSaid DEF Turns
<1>2. CASE Woken \/ SourceEnds \/ ConnectFails \/ ConnectRefused
  BY <1>2, LeaveSaid DEF Woken
<1>3. CASE Wake \/ Register \/ Heartbeat \/ StdinEnds \/ Signal \/ Notify \/ HostCloses
  BY <1>3, TurnSaid DEF Turns
<1>4. CASE UNCHANGED vars
  <2>1. UNCHANGED <<cli, net, out, host, refused>>
    BY <1>4 DEF vars
  <2>2. Announced'
    BY <2>1 DEF SayInv, Announced, JoinedBefore
  <2> QED
    BY <2>1, <2>2, MoveSaid
<1> QED
  BY <1>1, <1>2, <1>3, <1>4, ConnectSaid, ReceiveSaid, ServerSaid, HostReadsSaid
  DEF Next

LEMMA SayInvariant == Spec => [](StreamInv /\ SayInv)
<1>1. Init => StreamInv /\ SayInv
  BY StreamInit, SayInit
<1>2. StreamInv /\ SayInv /\ [Next]_vars => StreamInv' /\ SayInv'
  BY StreamNext, SayNext
<1> QED
  BY <1>1, <1>2, PTL DEF Spec

(* Type correctness, for any number of events and faults.                  *)
THEOREM StreamTypeCorrect == Spec => []TypeOK
<1>1. StreamInv => TypeOK
  <2> SUFFICES ASSUME StreamInv PROVE TypeOK
    OBVIOUS
  <2>1. UpFrame \subseteq Frame /\ DownFrame \subseteq Frame /\ OutLine \subseteq Line
    BY DEF UpFrame, DownFrame, OutLine
  <2>2. /\ net.up \in Seq(Frame) /\ net.down \in Seq(Frame) /\ out \in Seq(Line)
        /\ stdin \in Seq(Event)
    BY <2>1, Fields, SeqMonotonic
  <2> QED
    BY <2>2, Fields DEF StreamInv, Process, Passed, Cli, Host, TypeOK
<1> QED
  BY <1>1, StreamInvariant, PTL

(* The server's cursor passes an event only when the host has handled it,  *)
(* and the host never has one beyond the next (stream.rs:30-31).           *)
THEOREM DeliverySafety == Spec => []AtLeastOnce
<1>1. StreamInv => AtLeastOnce
  BY DEF StreamInv, Passed
<1> QED
  BY <1>1, StreamInvariant, PTL

(* A line "acked" is about an event the server has passed.                 *)
THEOREM AckSafety == Spec => []AckedIsConfirmed
<1>1. StreamInv => AckedIsConfirmed
  <2> SUFFICES ASSUME StreamInv PROVE AckedIsConfirmed
    OBVIOUS
  <2>1. ASSUME NEW i \in 1 .. Len(out), out[i].kind = "acked" PROVE out[i].event <= cursor
    <3>1. out[i] \in OutLine
      BY Fields, ElementOfSeq
    <3> QED
      BY <2>1, <3>1, Fields DEF OutLine
  <2> QED
    BY <2>1 DEF StreamInv, Passed, AckedIsConfirmed
<1> QED
  BY <1>1, StreamInvariant, PTL

(* Every line the host reads fits what it was told before: events and acks *)
(* lie between a join and the next loss, and nothing follows the end.      *)
THEOREM SentinelSafety == Spec => SentinelsInOrder
<1>1. StreamInv /\ SayInv /\ StreamInv' => [Len(out') < Len(out) => InOrder(Head(out).kind, host.view)]_vars
  <2> SUFFICES ASSUME StreamInv, SayInv, StreamInv', Len(out') < Len(out)
               PROVE  InOrder(Head(out).kind, host.view)
    OBVIOUS
  <2>1. Len(out) \in Nat /\ Len(out') \in Nat
    BY Fields, LenProperties DEF StreamInv, Pipes
  <2>2. 1 \in 1 .. Len(out) /\ Head(out) = out[1] /\ ViewAt(1 - 1) = host.view
    BY <2>1, Fields DEF ViewAt
  <2> QED
    BY <2>2 DEF SayInv, Ordered
<1> QED
  BY <1>1, SayInvariant, PTL DEF SentinelsInOrder

(***************************************************************************)
(* The log of events.  The host's reading of an event is a Handle or,      *)
(* where it had handled the event before, nothing; its reading of an acked *)
(* line a Confirm; an ack the server takes a Pass.  Nothing else moves the *)
(* host or the cursor.                                                     *)
(***************************************************************************)
LEMMA RefineHostReads == ASSUME StreamInv, HostReads PROVE [Log!Next]_(Log!vars)
<1> DEFINE l == Head(out)
<1>1. l \in OutLine /\ UNCHANGED <<cursor, published>>
  BY Fields, HeadTailProperties DEF HostReads
<1>2. /\ host'.handled = host.handled \cup (IF l.kind = "event" THEN {l.event} \ {0} ELSE {})
      /\ host'.confirmed = host.confirmed \cup (IF l.kind = "acked" THEN {l.event} \ {0} ELSE {})
  BY DEF HostReads
<1>3. /\ l.kind = "event" => l.event \in 1 .. cursor + 1 /\ l.event <= published
      /\ l.kind = "acked" => l.event \in 1 .. cursor
  BY <1>1 DEF OutLine
<1> HIDE DEF l
<1>4. CASE l.kind = "event" /\ l.event \notin host.handled
  <2>1. l.event = cursor + 1 /\ cursor < published /\ {l.event} \ {0} = {cursor + 1}
    BY <1>3, <1>4, Fields DEF StreamInv, Passed, AtLeastOnce
  <2>2. Log!Handle
    BY <1>1, <1>2, <1>4, <2>1 DEF Log!Handle
  <2> QED
    BY <2>2 DEF Log!Next
<1>5. CASE l.kind = "acked"
  <2>1. l.event \in 1 .. cursor /\ {l.event} \ {0} = {l.event}
    BY <1>3, <1>5, Fields
  <2>2. Log!Confirm
    BY <1>1, <1>2, <1>5, <2>1 DEF Log!Confirm
  <2> QED
    BY <2>2 DEF Log!Next
<1>6. CASE l.kind # "acked" /\ ~(l.kind = "event" /\ l.event \notin host.handled)
  BY <1>1, <1>2, <1>6 DEF Log!vars
<1> QED
  BY <1>4, <1>5, <1>6

LEMMA RefineServeAck == ASSUME StreamInv, ServeAck PROVE [Log!Next]_(Log!vars)
<1>1. UNCHANGED <<host, published>> /\ Head(net.up) \in UpFrame
  BY Fields, HeadTailProperties DEF ServeAck, near
<1>2. CASE cursor' = cursor
  BY <1>1, <1>2 DEF Log!vars
<1>3. CASE cursor' # cursor
  <2>1. cursor' = cursor + 1 /\ cursor' = Head(net.up).event /\ Head(net.up).kind = "ack"
    BY <1>3 DEF ServeAck
  <2>2. cursor + 1 \in host.handled
    BY <1>1, <2>1 DEF UpFrame
  <2>3. Log!Pass
    BY <1>1, <2>1, <2>2 DEF Log!Pass
  <2> QED
    BY <2>3 DEF Log!Next
<1> QED
  BY <1>2, <1>3

LEMMA RefineLog == StreamInv /\ [Next]_vars => [Log!Next]_(Log!vars)
<1> SUFFICES ASSUME StreamInv, [Next]_vars PROVE [Log!Next]_(Log!vars)
  OBVIOUS
<1>1. CASE HostReads
  BY <1>1, RefineHostReads
<1>2. CASE ServeAck
  BY <1>2, RefineServeAck
<1>3. CASE Publish
  <2>1. Log!Happen
    BY <1>3 DEF Publish, near, Log!Happen
  <2> QED
    BY <2>1 DEF Log!Next
<1>4. CASE UNCHANGED vars
  BY <1>4 DEF vars, Log!vars
<1>5. CASE \/ Top \/ Wake \/ ConnectOk \/ ConnectFails \/ ConnectRefused \/ CheckFlag \/ Register
           \/ Woken \/ Heartbeat \/ SourceEnds \/ SendAck \/ StdinEnds \/ Receive \/ Signal \/ Notify
  <2>1. UNCHANGED <<cursor, published, host>>
    BY <1>5 DEF Top, Wake, ConnectOk, ConnectFails, ConnectRefused, CheckFlag, Register, Woken,
       Heartbeat, SourceEnds, SendAck, TakeId, StdinEnds, Receive, Signal, Notify, others
  <2> QED
    BY <2>1 DEF Log!vars
<1>6. CASE ServeJoin \/ Push \/ Resend \/ ChannelCloses \/ Drop \/ HostCloses
  <2>1. UNCHANGED <<cursor, published, host>>
    BY <1>6 DEF ServeJoin, Push, Resend, ChannelCloses, Drop, HostCloses, Fault, near
  <2> QED
    BY <2>1 DEF Log!vars
<1> QED
  BY <1>1, <1>2, <1>3, <1>4, <1>5, <1>6 DEF Next

(* stream.rs:15-16, 28-33: the host handles events in order and one at a    *)
(* time, the server passes over none before that, and confirms none before *)
(* it has passed it: for any number of events, lost connections, repeated  *)
(* frames and stale ids, with every option, and whenever the process ends. *)
THEOREM LogRefinement == Spec => AckedInOrder
<1>1. Init => Log!Init
  BY DEF Init, Log!Init
<1> QED
  BY <1>1, RefineLog, StreamInvariant, PTL DEF Spec, AckedInOrder, Log!Spec
=============================================================================
