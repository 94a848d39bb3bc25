------------------------------ MODULE TcpConn ------------------------------
(***************************************************************************)
(* One connection of the userspace TCP stack (tcpstack.c) from tcpstack_-  *)
(* connect or an accepted SYN until it is freed, the application that uses *)
(* it, and a remote TCP reached through a network that loses, duplicates   *)
(* and reorders segments.                                                  *)
(*                                                                         *)
(* Sequence numbers are integers modulo SEQ_MOD (2^32 in the code), so     *)
(* that a run crosses the wrap.  Byte i of a stream is the number i.  The  *)
(* remote is a correct TCP: it may send any part of its stream again, with *)
(* any acknowledgement it has given, so its segments are enumerated and    *)
(* not stored.  The segments of the connection are stored as the pairs of  *)
(* a sequence number and the byte, or FIN, sent at it.  Window scaling is  *)
(* part of the windows the remote gives; SACK blocks, which the connection *)
(* only sends, and checksums are left out.                                 *)
(***************************************************************************)
EXTENDS Integers, SequencesExt

CONSTANTS SEQ_MOD,              \* 2^32
          ISS, IRS,             \* initial sequence numbers
          WG_TCP_MSS,
          WG_TCP_SENDBUF_SIZE,
          WG_TCP_RECV_OOO_SIZE,
          WG_TCP_DELAYED_ACK_SEGMENTS,
          WG_TCP_MAX_RETRANSMIT,
          Roles,                \* "connect": tcpstack_connect, "listen": a listener
          Windows,              \* windows the remote advertises
          SendMax,              \* bound: bytes the application sends
          RemoteLen,            \* bound: bytes of the remote's stream
          CanClose,             \* the application calls tcp_close
          RemoteEnds,           \* the remote ends its stream
          CanReset              \* the remote sends RST

\* The control bit, among the numbers that stand for bytes.
FIN == -1

ASSUME TcpConnAssumption ==
  /\ SEQ_MOD \in Nat \ {0} /\ SEQ_MOD % 2 = 0
  /\ ISS \in 0 .. SEQ_MOD - 1 /\ IRS \in 0 .. SEQ_MOD - 1
  /\ WG_TCP_MSS \in Nat \ {0}
  /\ WG_TCP_SENDBUF_SIZE \in Nat /\ WG_TCP_RECV_OOO_SIZE \in Nat
  /\ WG_TCP_DELAYED_ACK_SEGMENTS \in Nat /\ WG_TCP_MAX_RETRANSMIT \in Nat
  /\ Windows \subseteq Nat
  /\ SendMax \in Nat /\ RemoteLen \in Nat
  /\ SendMax + 4 < SEQ_MOD \div 2 /\ RemoteLen + 4 < SEQ_MOD \div 2
  /\ Roles \subseteq {"connect", "listen"}
  /\ {CanClose, RemoteEnds, CanReset} \subseteq BOOLEAN

VARIABLES conn,      \* tcp_conn_t
          wire,      \* what was sent at which sequence number
          accepted,  \* bytes that tcp_send took
          received,  \* what the remote received in order
          fruitless  \* expiries of the retransmit timer since the last progress

vars == <<conn, wire, accepted, received, fruitless>>

Seqno == 0 .. SEQ_MOD - 1
State == {"NONE", "CLOSED", "SYN_RECEIVED", "SYN_SENT", "ESTABLISHED", "FIN_WAIT", "LAST_ACK"}

TypeOK ==
  /\ conn \in [state : State, snd_una : Seqno, snd_nxt : Seqno, snd_wnd : Nat, rcv_nxt : Seqno,
               rcv_ooo : Seq([seq : Seqno, data : Seq(0 .. RemoteLen - 1)]),
               sendbuf : Seq(0 .. SendMax - 1),
               retransmit_timer : BOOLEAN, retransmit_count : 0 .. WG_TCP_MAX_RETRANSMIT + 1,
               ack_timer : BOOLEAN, delayed_ack_segments : 0 .. WG_TCP_DELAYED_ACK_SEGMENTS,
               flush_queued : BOOLEAN, being_freed : BOOLEAN, freed : BOOLEAN,
               close_notified : BOOLEAN,
               acked : Seqno, delivered : Seq(0 .. RemoteLen - 1), closes : Nat]
  /\ wire \subseteq (Seqno \X (0 .. SendMax - 1 \cup {FIN}))
  /\ accepted \in 0 .. SendMax
  /\ received \in Seq(0 .. SendMax - 1 \cup {FIN})
  /\ fruitless \in Nat

----------------------------------------------------------------------------
(* Sequence arithmetic *)

add(a, n)    == (a + n) % SEQ_MOD
sub(a, b)    == (a - b) % SEQ_MOD
seq_lt(a, b) == sub(a, b) >= SEQ_MOD \div 2
seq_le(a, b) == a = b \/ seq_lt(a, b)
seq_gt(a, b) == ~seq_le(a, b)

----------------------------------------------------------------------------
(* The connection: operators on c, the connection with what it sends *)

\* acked, delivered and closes are histories: the last acknowledgement sent, the
\* bytes given to on_data, the calls of on_close and of on_connect with a failure.
NoConn ==
  [state |-> "NONE", snd_una |-> ISS, snd_nxt |-> ISS, snd_wnd |-> WG_TCP_MSS, rcv_nxt |-> 0,
   rcv_ooo |-> <<>>, sendbuf |-> <<>>, retransmit_timer |-> FALSE, retransmit_count |-> 0,
   ack_timer |-> FALSE, delayed_ack_segments |-> 0, flush_queued |-> FALSE,
   being_freed |-> FALSE, freed |-> FALSE, close_notified |-> FALSE,
   acked |-> 0, delivered |-> <<>>, closes |-> 0]

Context == [conn |-> conn, out |-> {}]

\* Mutant: the copy starts at the head of the buffer, whatever the offset.
Data_from_head(k, i, j) == {<<add(k.snd_una, n), k.sendbuf[n - i + 1]>> : n \in i .. j - 1}

\* The bytes of the send buffer from offset i up to j, at their sequence numbers.
Data(k, i, j) == {<<add(k.snd_una, n), k.sendbuf[n + 1]>> : n \in i .. j - 1}

\* send_segment: every segment with the ACK flag acknowledges rcv_nxt.
send_segment(c, content) ==
  [c EXCEPT !.out = @ \cup content, !.conn.acked = c.conn.rcv_nxt]

\* Mutant: the timer is only started with the first segment in flight.
tcp_flush_pending_no_timer(c) ==
  LET k         == c.conn
      in_flight == sub(k.snd_nxt, k.snd_una)
      reach     == IF Len(k.sendbuf) < k.snd_wnd THEN Len(k.sendbuf) ELSE k.snd_wnd
      sent      == IF in_flight < reach
                   THEN [send_segment(c, Data(k, in_flight, reach))
                           EXCEPT !.conn.snd_nxt = add(k.snd_una, reach)]
                   ELSE c
  IN  IF k.being_freed \/ k.state # "ESTABLISHED" THEN c
      ELSE IF k.sendbuf # <<>> /\ ~k.retransmit_timer /\ in_flight < reach
           THEN [sent EXCEPT !.conn.retransmit_count = 0, !.conn.retransmit_timer = TRUE]
           ELSE sent

\* The segments that fit into the remote's window are sent.
tcp_flush_pending(c) ==
  LET k         == c.conn
      in_flight == sub(k.snd_nxt, k.snd_una)
      reach     == IF Len(k.sendbuf) < k.snd_wnd THEN Len(k.sendbuf) ELSE k.snd_wnd
      sent      == IF in_flight < reach
                   THEN [send_segment(c, Data(k, in_flight, reach))
                           EXCEPT !.conn.snd_nxt = add(k.snd_una, reach)]
                   ELSE c
  IN  IF k.being_freed \/ k.state # "ESTABLISHED" THEN c
      ELSE IF k.sendbuf # <<>> /\ ~k.retransmit_timer
           THEN [sent EXCEPT !.conn.retransmit_count = 0, !.conn.retransmit_timer = TRUE]
           ELSE sent

tcp_ack_now(c) ==
  IF c.conn.being_freed THEN c
  ELSE [send_segment(c, {}) EXCEPT !.conn.ack_timer = FALSE, !.conn.delayed_ack_segments = 0]

\* The limit on delayed_ack_bytes, two full segments, is never reached first.
tcp_ack_data(c, immediate) ==
  IF c.conn.being_freed THEN c
  ELSE IF immediate \/ c.conn.delayed_ack_segments + 1 >= WG_TCP_DELAYED_ACK_SEGMENTS
       THEN tcp_ack_now(c)
       ELSE [c EXCEPT !.conn.delayed_ack_segments = @ + 1, !.conn.ack_timer = TRUE]

conn_destroy(c) ==
  [c EXCEPT !.conn.being_freed = TRUE, !.conn.flush_queued = FALSE,
            !.conn.retransmit_timer = FALSE, !.conn.ack_timer = FALSE]

\* close_notified makes the callback the only one.
Notify(c) ==
  IF c.conn.close_notified THEN c
  ELSE [c EXCEPT !.conn.close_notified = TRUE, !.conn.closes = @ + 1]

SendFin(c) ==
  [send_segment(c, {<<c.conn.snd_nxt, FIN>>}) EXCEPT !.conn.snd_nxt = add(@, 1)]

\* CLOSE_WAIT does not outlast the handling of the remote's FIN (RemoteClosed), so
\* no close meets it.
tcp_close(c) ==
  CASE c.conn.being_freed            -> c
    [] c.conn.state = "ESTABLISHED"  -> SendFin([c EXCEPT !.conn.state = "FIN_WAIT"])
    [] c.conn.state = "SYN_SENT"     -> conn_destroy([c EXCEPT !.conn.state = "CLOSED"])
    [] OTHER                         -> conn_destroy(c)

----------------------------------------------------------------------------
(* Receiving data *)

End(seg) == add(seg.seq, Len(seg.data))

\* rcv_ooo_len
rcv_ooo_len(ooo) == Len(FlattenSeq([i \in DOMAIN ooo |-> ooo[i].data]))

\* Mutant: a segment that starts behind rcv_nxt is delivered as well.
Drainable_behind(k) ==
  {n \in 0 .. Len(k.rcv_ooo) :
     \A i \in 1 .. n : seq_le(k.rcv_ooo[i].seq, IF i = 1 THEN k.rcv_nxt ELSE End(k.rcv_ooo[i - 1]))}

\* How many segments at the head of the list follow rcv_nxt without a gap.
Drainable(k) ==
  {n \in 0 .. Len(k.rcv_ooo) :
     \A i \in 1 .. n : k.rcv_ooo[i].seq = IF i = 1 THEN k.rcv_nxt ELSE End(k.rcv_ooo[i - 1])}

tcp_ooo_drain(c) ==
  LET k == c.conn
      n == CHOOSE m \in Drainable(k) : \A l \in Drainable(k) : l <= m
      data == FlattenSeq([i \in 1 .. n |-> k.rcv_ooo[i].data])
  IN  [c EXCEPT !.conn.rcv_ooo = SubSeq(@, n + 1, Len(@)),
                !.conn.rcv_nxt = add(@, Len(data)),
                !.conn.delivered = @ \o data]

\* Data that starts behind rcv_nxt does not get here (tcpstack_input).  The list
\* is in order, so the segments that end up to start come first; a segment that
\* reaches into the new one trims it, those it covers go, and the next is trimmed.
tcp_ooo_queue(k, seq, data) ==
  LET before == SelectSeq(k.rcv_ooo, LAMBDA g : seq_le(End(g), seq))
      after  == SubSeq(k.rcv_ooo, Len(before) + 1, Len(k.rcv_ooo))
      trim   == IF after # <<>> /\ seq_le(Head(after).seq, seq) THEN sub(End(Head(after)), seq)
                ELSE 0
      start  == add(seq, trim)
      new    == SubSeq(data, trim + 1, Len(data))
      end    == add(start, Len(new))
      Cut(g) == IF seq_lt(g.seq, end)
                THEN [seq |-> end, data |-> SubSeq(g.data, sub(end, g.seq) + 1, Len(g.data))]
                ELSE g
      left   == SelectSeq(after, LAMBDA g : ~(seq_lt(g.seq, end) /\ seq_le(End(g), end)))
      rest   == [i \in DOMAIN left |-> Cut(left[i])]
  IN  CASE trim >= Len(data) -> k
        [] trim < Len(data) /\ rcv_ooo_len(before \o rest) + Len(new) > WG_TCP_RECV_OOO_SIZE ->
             [k EXCEPT !.rcv_ooo = before \o rest]
        [] OTHER -> [k EXCEPT !.rcv_ooo = before \o <<[seq |-> start, data |-> new]>> \o rest]

\* New data at rcv_nxt goes to on_data, which may close the connection, and what
\* waited for it follows.
Deliver(c, data, closing, immediate) ==
  LET c1 == [c EXCEPT !.conn.rcv_nxt = add(@, Len(data)), !.conn.delivered = @ \o data]
      c2 == IF closing THEN tcp_close(c1) ELSE c1
      c3 == tcp_ooo_drain(c2)
  IN  tcp_ack_data(c3, immediate \/ c3.conn.rcv_nxt # c2.conn.rcv_nxt)

\* The payload of a segment in state ESTABLISHED.
Payload(c, seq, data, closing) ==
  LET already == sub(c.conn.rcv_nxt, seq)
  IN  CASE data = <<>> -> c
        [] data # <<>> /\ seq = c.conn.rcv_nxt -> Deliver(c, data, closing, FALSE)
        [] data # <<>> /\ seq_gt(seq, c.conn.rcv_nxt) ->
             tcp_ack_now([c EXCEPT !.conn = tcp_ooo_queue(@, seq, data)])
        [] data # <<>> /\ seq_lt(seq, c.conn.rcv_nxt) /\ already < Len(data) ->
             Deliver(c, SubSeq(data, already + 1, Len(data)), closing, TRUE)
        [] OTHER -> tcp_ack_now(c)

\* Mutant: the acknowledged bytes stay in the buffer.
Acknowledge_keeps_buffer(c, ack) ==
  LET k == c.conn
      c1 == [c EXCEPT !.conn.snd_una = ack]
  IN  IF ~(seq_gt(ack, k.snd_una) /\ seq_le(ack, k.snd_nxt)) THEN c
      ELSE tcp_flush_pending(c1)

\* The acknowledgement of a segment in state ESTABLISHED.
Acknowledge(c, ack) ==
  LET k     == c.conn
      acked == sub(ack, k.snd_una)
      left  == IF acked <= Len(k.sendbuf) THEN SubSeq(k.sendbuf, acked + 1, Len(k.sendbuf))
               ELSE k.sendbuf
      c1    == [c EXCEPT !.conn.sendbuf = left, !.conn.snd_una = ack]
  IN  CASE ~(seq_gt(ack, k.snd_una) /\ seq_le(ack, k.snd_nxt)) -> c
        [] seq_gt(ack, k.snd_una) /\ seq_le(ack, k.snd_nxt) /\ left = <<>> ->
             [c1 EXCEPT !.conn.retransmit_timer = FALSE, !.conn.retransmit_count = 0]
        [] OTHER -> tcp_flush_pending(c1)

\* A FIN in state ESTABLISHED, wherever its sequence number is: acknowledged,
\* reported, and answered with a FIN.
RemoteClosed(c) ==
  LET c1 == [c EXCEPT !.conn.rcv_nxt = add(@, 1)]
      c2 == Notify(send_segment(c1, {}))
  IN  SendFin([c2 EXCEPT !.conn.state = "LAST_ACK"])

----------------------------------------------------------------------------
(* Steps *)

Init ==
  /\ conn = NoConn
  /\ wire = {} /\ accepted = 0 /\ received = <<>> /\ fruitless = 0

Live == conn.state # "NONE" /\ ~conn.being_freed

Commit(c) == conn' = c.conn /\ wire' = wire \cup c.out

\* tcpstack_connect sends the SYN.
tcpstack_connect ==
  /\ "connect" \in Roles /\ conn.state = "NONE"
  /\ conn' = [conn EXCEPT !.state = "SYN_SENT", !.snd_nxt = add(ISS, 1), !.retransmit_timer = TRUE]
  /\ UNCHANGED <<wire, accepted, received, fruitless>>

\* A SYN of the remote reaches the listener; later copies only update
\* the window.
InputSyn(w) ==
  /\ \/ /\ "listen" \in Roles /\ conn.state = "NONE"
        /\ conn' = [conn EXCEPT !.state = "SYN_RECEIVED", !.snd_nxt = add(ISS, 1), !.snd_wnd = w,
                                !.rcv_nxt = add(IRS, 1), !.acked = add(IRS, 1),
                                !.retransmit_timer = TRUE]
     \/ /\ Live /\ conn.state # "SYN_SENT"
        /\ conn' = [conn EXCEPT !.snd_wnd = w]
  /\ UNCHANGED <<wire, accepted, received, fruitless>>

\* The SYN-ACK of the remote in state SYN_SENT.
InputSynAck(w) ==
  /\ Live /\ conn.state = "SYN_SENT"
  /\ Commit(tcp_ack_now([Context EXCEPT !.conn.snd_una = add(ISS, 1), !.conn.rcv_nxt = add(IRS, 1),
                           !.conn.state = "ESTABLISHED", !.conn.snd_wnd = w,
                           !.conn.retransmit_timer = FALSE, !.conn.retransmit_count = 0]))
  /\ UNCHANGED <<accepted, received, fruitless>>

\* tcpstack_input of an ACK segment in the states that come after the SYNs.
Input(c, seq, data, fin, ack, closing) ==
  LET k == c.conn
  IN  CASE k.state = "SYN_RECEIVED" ->
             IF ack # k.snd_nxt THEN c
             ELSE LET c1 == [c EXCEPT !.conn.snd_una = ack, !.conn.state = "ESTABLISHED",
                                      !.conn.retransmit_timer = FALSE, !.conn.retransmit_count = 0]
                  IN  IF data # <<>> /\ seq = k.rcv_nxt THEN Deliver(c1, data, closing, FALSE) ELSE c1
        [] k.state = "ESTABLISHED" ->
             LET c1 == Payload(Acknowledge(c, ack), seq, data, closing)
             IN  IF fin THEN RemoteClosed(c1) ELSE c1
        [] k.state = "FIN_WAIT" ->
             LET c1 == IF seq_gt(ack, k.snd_una) /\ seq_le(ack, k.snd_nxt)
                       THEN [c EXCEPT !.conn.snd_una = ack] ELSE c
                 c2 == IF c1 # c /\ ack = k.snd_nxt
                       THEN [c1 EXCEPT !.conn.retransmit_timer = FALSE, !.conn.retransmit_count = 0]
                       ELSE c1
             IN  IF fin THEN conn_destroy([send_segment([c2 EXCEPT !.conn.rcv_nxt = add(@, 1)], {})
                                             EXCEPT !.conn.state = "CLOSED"])
                 ELSE c2
        [] k.state = "LAST_ACK" /\ ack = k.snd_nxt ->
             conn_destroy([c EXCEPT !.conn.state = "CLOSED"])
        [] OTHER -> c

\* A segment of the remote: bytes a .. b - 1 of its stream, FIN only at the end,
\* an acknowledgement of the first r bytes it received, and a window.  A second
\* copy of its SYN-ACK is the segment with none of them.  on_connect, on_data and
\* on_writeable send in steps of their own (tcp_send), and on_data may close.
InputSegment(a, b, fin, r, w, closing) ==
  LET ack == add(ISS, 1 + r)
      c   == Input([Context EXCEPT !.conn.snd_wnd = w], add(IRS, 1 + a),
                   [i \in 1 .. b - a |-> a + i - 1], fin, ack, closing)
  IN  /\ Live /\ conn.state # "SYN_SENT"
      /\ b - a <= WG_TCP_MSS
      /\ fin => RemoteEnds /\ b = RemoteLen
      /\ a = b /\ ~fin => a = 0
      /\ closing => CanClose /\ a < b
      /\ Commit(c)
      /\ fruitless' = IF c.conn.snd_una # conn.snd_una THEN 0 ELSE fruitless
      /\ UNCHANGED <<accepted, received>>

InputReset ==
  /\ CanReset /\ Live
  /\ Commit(conn_destroy([Context EXCEPT !.conn.state = "CLOSED"]))
  /\ UNCHANGED <<accepted, received, fruitless>>

\* The remote receives the next byte, or the FIN.
RemoteReceives(x) ==
  /\ <<add(ISS, 1 + Len(received)), x>> \in wire
  /\ \A i \in DOMAIN received : received[i] # FIN
  /\ received' = Append(received, x)
  /\ UNCHANGED <<conn, wire, accepted, fruitless>>

\* tcp_send of n bytes: a full segment is sent at once, less than that waits for
\* the end of the loop iteration.
tcp_send(n) ==
  LET bytes == [i \in 1 .. n |-> accepted + i - 1]
      c     == [Context EXCEPT !.conn.sendbuf = @ \o bytes]
  IN  /\ Live /\ conn.state = "ESTABLISHED"
      /\ accepted + n <= SendMax
      /\ Len(conn.sendbuf) + n <= WG_TCP_SENDBUF_SIZE
      /\ Commit(IF Len(c.conn.sendbuf) >= WG_TCP_MSS THEN tcp_flush_pending(c)
                ELSE [c EXCEPT !.conn.flush_queued = TRUE])
      /\ accepted' = accepted + n
      /\ UNCHANGED <<received, fruitless>>

flush_check_cb ==
  /\ conn.flush_queued
  /\ Commit(tcp_flush_pending([Context EXCEPT !.conn.flush_queued = FALSE]))
  /\ UNCHANGED <<accepted, received, fruitless>>

tcp_update_recv_window ==
  /\ Live /\ conn.state = "ESTABLISHED"
  /\ Commit(tcp_ack_now(Context))
  /\ UNCHANGED <<accepted, received, fruitless>>

\* The applications close a connection once, and not after on_close.
AppClose ==
  /\ CanClose /\ Live
  /\ conn.state \in {"SYN_SENT", "SYN_RECEIVED", "ESTABLISHED"}
  /\ Commit(tcp_close(Context))
  /\ UNCHANGED <<accepted, received, fruitless>>

\* What retransmit_cb sends again: the whole buffer, and the FIN.
Again(k) ==
  LET closing == k.state \in {"FIN_WAIT", "LAST_ACK"}
      n       == Len(k.sendbuf)
  IN  CASE k.state \notin {"ESTABLISHED", "FIN_WAIT", "LAST_ACK"} -> {}
        [] closing /\ n = 0 -> {<<sub(k.snd_nxt, 1), FIN>>}
        [] OTHER -> Data(k, 0, n) \cup (IF closing THEN {<<add(k.snd_una, n), FIN>>} ELSE {})

\* Mutant: the abort leaves the connection in its state until it is freed.
retransmit_cb_lingers ==
  LET c == [Context EXCEPT !.conn.retransmit_count = @ + 1]
  IN  /\ Live /\ conn.retransmit_timer
      /\ Commit(IF c.conn.retransmit_count > WG_TCP_MAX_RETRANSMIT
                THEN [Notify(c) EXCEPT !.conn.retransmit_timer = FALSE]
                ELSE send_segment(c, Again(conn)))
      /\ fruitless' = fruitless + 1
      /\ UNCHANGED <<accepted, received>>

\* on_connect with a failure, or on_close, tells the application of the abort.
retransmit_cb ==
  LET c == [Context EXCEPT !.conn.retransmit_count = @ + 1]
  IN  /\ Live /\ conn.retransmit_timer
      /\ Commit(IF c.conn.retransmit_count > WG_TCP_MAX_RETRANSMIT
                THEN conn_destroy(Notify([c EXCEPT !.conn.state = "CLOSED"]))
                ELSE send_segment(c, Again(conn)))
      /\ fruitless' = fruitless + 1
      /\ UNCHANGED <<accepted, received>>

delayed_ack_cb ==
  /\ conn.ack_timer
  /\ Commit(IF conn.delayed_ack_segments = 0 THEN [Context EXCEPT !.conn.ack_timer = FALSE]
            ELSE tcp_ack_now(Context))
  /\ UNCHANGED <<accepted, received, fruitless>>

tcpstack_free ==
  /\ CanReset /\ Live
  /\ Commit(conn_destroy(Context))
  /\ UNCHANGED <<accepted, received, fruitless>>

\* The last close callback reports the close if nothing did before, and frees.
timer_close_cb ==
  /\ conn.being_freed /\ ~conn.freed
  /\ Commit([Notify(Context) EXCEPT !.conn.freed = TRUE])
  /\ UNCHANGED <<accepted, received, fruitless>>

Next ==
  \/ tcpstack_connect
  \/ \E w \in Windows : InputSyn(w) \/ InputSynAck(w)
  \/ \E b \in 0 .. RemoteLen : \E a \in 0 .. b, fin, closing \in BOOLEAN,
        r \in 0 .. Len(received), w \in Windows : InputSegment(a, b, fin, r, w, closing)
  \/ InputReset
  \/ \E x \in 0 .. SendMax - 1 \cup {FIN} : RemoteReceives(x)
  \/ \E n \in 1 .. SendMax : tcp_send(n)
  \/ flush_check_cb
  \/ tcp_update_recv_window
  \/ AppClose
  \/ retransmit_cb
  \/ delayed_ack_cb
  \/ tcpstack_free
  \/ timer_close_cb

Spec == Init /\ [][Next]_vars

----------------------------------------------------------------------------
(* Properties *)

\* What is sent at a sequence number is the byte of the application's stream that
\* belongs there, on the first transmission and on every retransmission, across
\* the wrap: the buffer, which holds the bytes from snd_una on, and snd_una move
\* together.
SegmentsFaithful ==
  \A x \in wire : x[2] # FIN => x[1] = add(ISS, 1 + x[2])

\* While data can be sent, the buffer holds exactly the accepted bytes that are not
\* acknowledged: nothing tcp_send took is forgotten before the remote has it.
SendbufExact ==
  conn.state = "ESTABLISHED" =>
    /\ conn.sendbuf = [i \in 1 .. Len(conn.sendbuf) |-> accepted - Len(conn.sendbuf) + i - 1]
    /\ sub(conn.snd_una, add(ISS, 1)) = accepted - Len(conn.sendbuf)
    /\ accepted - Len(conn.sendbuf) <= Len(received)

\* The list of early segments is in order and without overlap, each byte is the
\* one its sequence number says, and the list keeps to its limit.
OooSound ==
  LET ooo == conn.rcv_ooo
  IN  /\ \A i \in DOMAIN ooo : ooo[i].data # <<>>
      /\ \A i \in DOMAIN ooo : \A j \in DOMAIN ooo[i].data :
           add(ooo[i].seq, j - 1) = add(IRS, 1 + ooo[i].data[j])
      /\ \A i \in DOMAIN ooo : i > 1 => seq_le(End(ooo[i - 1]), ooo[i].seq)
      /\ rcv_ooo_len(ooo) <= WG_TCP_RECV_OOO_SIZE

\* The application gets the remote's bytes in order, each once, whatever segments
\* overlap, repeat or arrive early; rcv_nxt counts them, and what is kept of the early
\* ones is sound.
DeliveredInOrder ==
  /\ conn.delivered = [i \in 1 .. Len(conn.delivered) |-> i - 1]
  /\ conn.state = "ESTABLISHED" => conn.rcv_nxt = add(IRS, 1 + Len(conn.delivered))
  /\ OooSound

\* What has to be sent is on its way.  Bytes in the buffer have the retransmit timer or
\* the flush at the end of the loop iteration; received data that is not acknowledged
\* has the timer of the delayed acknowledgement.
OutputScheduled ==
  Live /\ conn.state = "ESTABLISHED" =>
    /\ conn.sendbuf # <<>> => conn.retransmit_timer \/ conn.flush_queued
    /\ conn.acked # conn.rcv_nxt => conn.ack_timer /\ conn.delayed_ack_segments > 0

\* The application hears of the end of a connection once, and always before its
\* memory is freed, whether the remote closed or reset it, the application or
\* the stack closed it, or the retransmissions ran out.
ClosedOnce ==
  /\ conn.closes <= 1
  /\ conn.freed => conn.closes = 1

\* The connection as the application sees it.
Phase ==
  CASE conn.state = "NONE"                            -> "none"
    [] conn.state # "NONE" /\ conn.being_freed         -> "closed"
    [] Live /\ conn.state \in {"SYN_SENT", "SYN_RECEIVED"} -> "opening"
    [] Live /\ conn.state = "ESTABLISHED"              -> "open"
    [] OTHER                                           -> "closing"

Service == INSTANCE TcpService WITH
  SendBuffer <- WG_TCP_SENDBUF_SIZE, MaxBytes <- RemoteLen,
  tcp <- [phase |-> Phase, unacked |-> IF Phase = "open" THEN Len(conn.sendbuf) ELSE 0,
          delivered |-> Len(conn.delivered), notified |-> conn.close_notified]

\* The connection implements the service its applications rely on: bytes are only
\* taken up to the send buffer's size and only while the connection is open, its
\* phases go in one direction, no byte is delivered after the close was reported
\* or asked for, and the close is reported once.
ImplementsService == Service!ServiceSpec /\ []ClosedOnce

----------------------------------------------------------------------------
(* What comments of the code say and the code does not do *)

\* "Initiate graceful close (send FIN)": the FIN comes after all the bytes that
\* tcp_send took.
GracefulClose ==
  \A x \in wire : x[2] = FIN => x[1] = add(ISS, 1 + accepted)

\* snd_nxt is the "next byte to send": nothing was sent at or above it, so that
\* every acknowledgement the remote can give is one the connection accepts.
NothingSentAboveNext ==
  Live => \A x \in wire : seq_lt(x[1], conn.snd_nxt)

\* "Timeout - abort connection": the retransmit timer aborts a connection only when
\* it expired more than WG_TCP_MAX_RETRANSMIT times without any progress.
AbortAfterSilence ==
  conn.retransmit_count > WG_TCP_MAX_RETRANSMIT => fruitless > WG_TCP_MAX_RETRANSMIT

\* "Retransmit bare FIN": a FIN that is not acknowledged is sent again.
FinTimed ==
  Live /\ conn.state \in {"FIN_WAIT", "LAST_ACK"} /\ conn.snd_una # conn.snd_nxt =>
    conn.retransmit_timer

\* "Deliver in-order data": on_close for a FIN of the remote comes after all the
\* bytes before the FIN.
AllDeliveredBeforeClose ==
  conn.state = "LAST_ACK" => Len(conn.delivered) = RemoteLen

Early(k) == UNION {ToSet(k.rcv_ooo[i].data) : i \in DOMAIN k.rcv_ooo}

\* "... and keep a bounded buffer for later segments": an early byte that was kept
\* stays until it is delivered.
EarlyDataKept ==
  [][conn.state = "ESTABLISHED" /\ conn'.state = "ESTABLISHED" =>
       Early(conn) \subseteq Early(conn') \cup ToSet(conn'.delivered)]_vars
=============================================================================
