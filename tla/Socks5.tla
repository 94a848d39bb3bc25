------------------------------- MODULE Socks5 -------------------------------
(***************************************************************************)
(* A client connection of the SOCKS5 proxy (socks5.c): the handshake with  *)
(* the client, the connection through the tunnel (TcpService), and the two *)
(* streams with their buffers, pauses and closes.  Every callback is one   *)
(* step of the worker's event loop.                                        *)
(*                                                                         *)
(* A byte of a stream is its number, a reply of the proxy is one item of   *)
(* the stream to the client, a message of the handshake one item of rxbuf. *)
(* A read that completes no message changes nothing and is left out.  The  *)
(* query of a name is an answer that may come at any time; a failed        *)
(* allocation or uv_write ends like a failed write, in socks5_conn_close.  *)
(* A client whose uv_accept fails is freed at once and is left out.        *)
(***************************************************************************)
EXTENDS TcpService, Integers, Sequences

CONSTANTS SOCKS5_PENDING_LIMIT,
          SOCKS5_CLIENT_OUTBUF_LIMIT,
          FlushSize,       \* 8192 bytes: written at once
          ReadSize,        \* SOCKS5_READ_BUFSIZE: the bytes of one read
          AuthRequired,
          ClientBytes,     \* bound: bytes the client sends
          EarlyBytes,      \* bound: of them before the connection is up
          Pipelined        \* the client sends bytes along with its request

VARIABLES sc,        \* socks5_conn_t
          sent,      \* bytes the client sent
          toWg,      \* bytes given to tcp_send
          toClient,  \* items given to uv_write
          window     \* the receive window last advertised to the remote

vars == <<tcp, sc, sent, toWg, toClient, window>>

SOCKS5_CLIENT_OUTBUF_RESUME == SOCKS5_CLIENT_OUTBUF_LIMIT \div 2

\* Replies of the proxy.
METHOD == -1
S5_REP_OK == -2
S5_REP_FAIL == -3

Messages == {"greeting", "userpass", "ipv4", "domain", "unacceptable"}
States == {"INIT", "USERPASS", "AUTH", "RESOLVING", "CONNECTING", "ESTABLISHED"}

\* attached is wg_conn # NULL, closing is uv_is_closing, flush is membership in the
\* server's flush list.
TypeOK ==
  /\ tcp \in Connection
  /\ sc \in [state : States \cup {"NONE"}, rxbuf : Seq(Messages),
             pending : Seq(0 .. ClientBytes - 1), outbuf : Seq(-3 .. MaxBytes - 1),
             write_buf : Seq(-3 .. MaxBytes - 1),
             write_state : {"IDLE", "QUEUED", "WRITING", "CLOSED"}, flush : BOOLEAN,
             client_paused : BOOLEAN, wg_recv_window_throttled : BOOLEAN, resolve_req : BOOLEAN,
             attached : BOOLEAN, closing : BOOLEAN, freed : BOOLEAN]
  /\ Len(sc.pending) <= SOCKS5_PENDING_LIMIT
  /\ sent \in 0 .. ClientBytes
  /\ toWg \in Seq(0 .. ClientBytes - 1)
  /\ toClient \in Seq(-3 .. MaxBytes - 1)
  /\ window \in 0 .. SOCKS5_CLIENT_OUTBUF_LIMIT

NoClient ==
  [state |-> "NONE", rxbuf |-> <<>>, pending |-> <<>>, outbuf |-> <<>>, write_buf |-> <<>>,
   write_state |-> "IDLE", flush |-> FALSE, client_paused |-> FALSE,
   wg_recv_window_throttled |-> FALSE, resolve_req |-> FALSE, attached |-> FALSE,
   closing |-> FALSE, freed |-> FALSE]

Context == [sc |-> sc, tcp |-> tcp, toWg |-> toWg, toClient |-> toClient, window |-> window]

----------------------------------------------------------------------------
(* To the client *)

\* wg_recv_window
RecvWindow(k) ==
  LET buffered == Len(k.outbuf) + Len(k.write_buf)
  IN  IF ~k.attached \/ buffered >= SOCKS5_CLIENT_OUTBUF_LIMIT THEN 0
      ELSE SOCKS5_CLIENT_OUTBUF_LIMIT - buffered

flush_remove(c) ==
  IF c.sc.write_state # "QUEUED" THEN c
  ELSE [c EXCEPT !.sc.write_state = "IDLE", !.sc.flush = FALSE]

schedule_client_flush(c) ==
  IF c.sc.write_state # "IDLE" THEN c
  ELSE [c EXCEPT !.sc.write_state = "QUEUED", !.sc.flush = TRUE]

\* An acknowledgement with the new window (tcp_update_recv_window) ends the pause.
update_wg_recv_window_state(c) ==
  LET k        == c.sc
      buffered == Len(k.outbuf) + Len(k.write_buf)
  IN  CASE ~k.attached \/ k.write_state = "CLOSED" -> c
        [] k.attached /\ k.write_state # "CLOSED" /\ buffered >= SOCKS5_CLIENT_OUTBUF_RESUME ->
             [c EXCEPT !.sc.wg_recv_window_throttled = TRUE]
        [] OTHER -> [c EXCEPT !.sc.wg_recv_window_throttled = FALSE,
                              !.window = IF k.wg_recv_window_throttled /\ c.tcp.phase = "open"
                                         THEN RecvWindow(k) ELSE @]


client_flush(c) ==
  IF c.sc.write_state \in {"CLOSED", "WRITING"} \/ c.sc.outbuf = <<>> THEN c
  ELSE [c EXCEPT !.sc.write_buf = c.sc.outbuf, !.sc.outbuf = <<>>, !.sc.write_state = "WRITING",
                 !.toClient = @ \o c.sc.outbuf]

client_write(c, items) ==
  IF c.sc.write_state = "CLOSED" THEN c
  ELSE LET c1 == update_wg_recv_window_state([c EXCEPT !.sc.outbuf = @ \o items])
       IN  IF Len(c1.sc.outbuf) >= FlushSize THEN client_flush(flush_remove(c1))
           ELSE schedule_client_flush(c1)

\* The callbacks of the tunnel's connection are cut off before it is closed, and a
\* query that nobody else waits for is cancelled.
socks5_conn_close(c) ==
  IF c.sc.write_state = "CLOSED" THEN c
  ELSE [flush_remove(c) EXCEPT !.sc.write_state = "CLOSED", !.sc.attached = FALSE,
                               !.tcp = IF c.sc.attached THEN Closed(@) ELSE @,
                               !.sc.resolve_req = FALSE, !.sc.closing = TRUE]

\* send_reply and socks5_conn_close
Refuse(c) == socks5_conn_close(client_write(c, <<S5_REP_FAIL>>))

----------------------------------------------------------------------------
(* To the tunnel *)

\* tcp_send of the first n bytes of data.
SendFirst(c, data, n) ==
  [c EXCEPT !.tcp = Sent(@, n), !.toWg = @ \o SubSeq(data, 1, n)]

Fits(c, data) == IF Len(data) < Available(c.tcp) THEN Len(data) ELSE Available(c.tcp)

pending_append(c, data) ==
  IF Len(c.sc.pending) + Len(data) > SOCKS5_PENDING_LIMIT THEN socks5_conn_close(c)
  ELSE [c EXCEPT !.sc.pending = @ \o data]

flush_pending_to_wg(c) ==
  LET n == Fits(c, c.sc.pending)
      d == [SendFirst(c, c.sc.pending, n) EXCEPT !.sc.pending = SubSeq(@, n + 1, Len(@))]
  IN  IF ~c.sc.attached \/ c.sc.state # "ESTABLISHED" \/ c.sc.pending = <<>> THEN c
      ELSE [d EXCEPT !.sc.client_paused = @ /\ d.sc.pending # <<>>]

\* In state ESTABLISHED new bytes go out at once, as far as they fit.
client_read_established(c, data) ==
  LET n == Fits(c, data)
      d == pending_append(SendFirst(c, data, n), SubSeq(data, n + 1, Len(data)))
  IN  CASE c.sc.state \in {"RESOLVING", "CONNECTING"} -> pending_append(c, data)
        [] c.sc.state = "ESTABLISHED" /\ ~c.sc.attached -> c
        [] OTHER -> IF d.sc.closing THEN d
                    ELSE [d EXCEPT !.sc.client_paused = \/ @ \/ d.sc.pending # <<>>
                                                        \/ d.tcp.unacked > (SendBuffer * 3) \div 4]

\* do_connect; ok says whether tcpstack_connect succeeds.
do_connect(c, ok) ==
  LET d == [c EXCEPT !.sc.state = "CONNECTING"]
  IN  IF ok THEN [d EXCEPT !.tcp = Opened(@), !.sc.attached = TRUE] ELSE Refuse(d)

----------------------------------------------------------------------------
(* The handshake with the client *)

process_auth_request(c) ==
  LET selected == Head(c.sc.rxbuf) = "greeting"
      d == client_write(c, <<METHOD>>)
  IN  IF selected THEN [d EXCEPT !.sc.state = IF AuthRequired THEN "USERPASS" ELSE "AUTH",
                                 !.sc.rxbuf = Tail(@)]
      ELSE socks5_conn_close(d)

process_userpass_auth(c) ==
  LET ok == Head(c.sc.rxbuf) = "userpass"
      d  == client_write(c, <<METHOD>>)
  IN  IF ok THEN [d EXCEPT !.sc.state = "AUTH", !.sc.rxbuf = Tail(@)] ELSE socks5_conn_close(d)

\* cached says whether dns_cache_lookup finds the name; ok whether the query starts,
\* or the connection.  What follows the request in
\* rxbuf is not looked at again, so it is dropped here.
process_connect_request(c, cached, ok) ==
  LET request == Head(c.sc.rxbuf)
      d       == [c EXCEPT !.sc.rxbuf = <<>>]
  IN  CASE request = "ipv4" \/ (request = "domain" /\ cached) -> do_connect(d, ok)
        [] request = "domain" /\ ~cached ->
             LET e == [d EXCEPT !.sc.state = "RESOLVING"]
             IN  IF ok THEN [e EXCEPT !.sc.resolve_req = TRUE] ELSE Refuse(e)
        [] OTHER -> Refuse(d)

\* The messages in rxbuf, as far as the states go.
Dispatch(c, cached, ok) ==
  LET step1 == IF c.sc.state = "INIT" THEN process_auth_request(c) ELSE c
      step2 == IF step1.sc.state = "USERPASS" /\ step1.sc.rxbuf # <<>>
               THEN process_userpass_auth(step1) ELSE step1
  IN  IF step2.sc.state = "AUTH" /\ step2.sc.rxbuf # <<>>
      THEN process_connect_request(step2, cached, ok) ELSE step2

----------------------------------------------------------------------------
(* Callbacks of the client's handle *)

Commit(c) ==
  sc' = c.sc /\ tcp' = c.tcp /\ toWg' = c.toWg /\ toClient' = c.toClient /\ window' = c.window

Init ==
  /\ ServiceInit
  /\ sc = NoClient
  /\ sent = 0 /\ toWg = <<>> /\ toClient = <<>> /\ window = SOCKS5_CLIENT_OUTBUF_LIMIT

on_connection ==
  /\ sc.state = "NONE"
  /\ sc' = [sc EXCEPT !.state = "INIT"]
  /\ UNCHANGED <<tcp, sent, toWg, toClient, window>>

Reading == sc.state # "NONE" /\ ~sc.closing /\ ~sc.client_paused

\* Messages of the handshake, and n bytes behind them.
ReadHandshake(messages, n, cached, ok) ==
  /\ Reading /\ sc.state \in {"INIT", "USERPASS", "AUTH"}
  /\ n > 0 => Pipelined /\ messages[Len(messages)] \in {"ipv4", "domain"}
  /\ Commit(Dispatch([Context EXCEPT !.sc.rxbuf = @ \o messages], cached, ok))
  /\ sent' = sent + n

\* n bytes of the client's stream.
ReadBytes(n) ==
  /\ Reading /\ sc.state \in {"RESOLVING", "CONNECTING", "ESTABLISHED"}
  /\ sent + n <= IF sc.state = "ESTABLISHED" THEN ClientBytes ELSE EarlyBytes
  /\ Commit(client_read_established(Context, [i \in 1 .. n |-> sent + i - 1]))
  /\ sent' = sent + n

\* The end of the client's stream, or an error.
ClientEnds ==
  /\ Reading
  /\ Commit(socks5_conn_close(Context))
  /\ UNCHANGED sent

flush_check_cb ==
  /\ sc.flush /\ ~sc.freed
  /\ Commit(client_flush([Context EXCEPT !.sc.flush = FALSE,
                            !.sc.write_state = IF @ = "QUEUED" THEN "IDLE" ELSE @]))
  /\ UNCHANGED sent

\* Mutant: what was buffered during the write waits for the next data.
WriteDone_forgets(c, status) ==
  LET d == [c EXCEPT !.sc.write_state = "IDLE", !.sc.write_buf = <<>>]
  IN  IF status < 0 THEN socks5_conn_close(d) ELSE update_wg_recv_window_state(d)

WriteDone(c, status) ==
  LET d == [c EXCEPT !.sc.write_state = "IDLE", !.sc.write_buf = <<>>]
      e == update_wg_recv_window_state(d)
  IN  CASE status < 0 -> socks5_conn_close(d)
        [] status >= 0 /\ e.sc.outbuf # <<>> -> schedule_client_flush(e)
        [] OTHER -> e

write_done_cb(status) ==
  /\ sc.write_state = "WRITING"
  /\ Commit(WriteDone(Context, status))
  /\ UNCHANGED sent

\* libuv first answers an open write, with UV_ECANCELED or, when it was done before,
\* with success.
client_close_cb(status) ==
  /\ sc.closing /\ ~sc.freed
  /\ LET c == IF sc.write_buf # <<>> THEN WriteDone(Context, status) ELSE Context
     IN  Commit([c EXCEPT !.sc.freed = TRUE, !.sc.attached = FALSE,
                          !.tcp = IF c.sc.attached THEN Closed(@) ELSE @])
  /\ UNCHANGED sent

----------------------------------------------------------------------------
(* Callbacks of the resolver and of the tunnel's connection *)

\* An IPv6 address without a local one is a failure too.
resolve_complete(status, ok) ==
  /\ sc.resolve_req
  /\ LET c == [Context EXCEPT !.sc.resolve_req = FALSE]
     IN  Commit(IF status < 0 THEN Refuse(c) ELSE do_connect(c, ok))
  /\ UNCHANGED sent

\* With status < 0 the stack gave up on the SYN.
wg_on_connect(status) ==
  LET c == [Context EXCEPT !.tcp = IF status < 0 THEN Notified(Ended(@)) ELSE Established(@)]
      d == client_write([c EXCEPT !.sc.state = "ESTABLISHED"], <<S5_REP_OK>>)
  IN  /\ tcp.phase = "opening"
      /\ Commit(CASE ~sc.attached -> c
                  [] sc.attached /\ status < 0 -> Refuse(c)
                  [] OTHER -> flush_pending_to_wg(d))
      /\ UNCHANGED sent

wg_on_data(n) ==
  LET c == [Context EXCEPT !.tcp = Delivered(@, n)]
  IN  /\ tcp.phase = "open" /\ tcp.delivered + n <= MaxBytes
      /\ Commit(IF sc.attached
                THEN client_write(c, [i \in 1 .. n |-> tcp.delivered + i - 1]) ELSE c)
      /\ UNCHANGED sent


\* Called when less than a quarter of the send buffer is in use.
wg_on_writeable(n) ==
  LET c == [Context EXCEPT !.tcp = Acked(@, n)]
      d == flush_pending_to_wg(c)
  IN  /\ tcp.phase = "open" /\ n <= tcp.unacked
      /\ Commit(IF sc.attached /\ c.tcp.unacked < SendBuffer \div 4
                THEN [d EXCEPT !.sc.client_paused = @ /\ d.sc.pending # <<>>] ELSE c)
      /\ UNCHANGED sent

OnClose(c) ==
  IF sc.attached THEN socks5_conn_close([c EXCEPT !.sc.attached = FALSE]) ELSE c

\* The remote's FIN, an abort, or the late report of a reset.
wg_on_close ==
  /\ \/ /\ tcp.phase = "open"
        /\ Commit(OnClose([Context EXCEPT !.tcp = RemoteFin(@)]))
     \/ /\ tcp.phase \in {"open", "closing"} /\ ~tcp.notified
        /\ Commit(OnClose([Context EXCEPT !.tcp = Notified(Ended(@))]))
     \/ /\ tcp.phase = "closed" /\ ~tcp.notified
        /\ Commit(OnClose([Context EXCEPT !.tcp = Notified(@)]))
  /\ UNCHANGED sent

\* The connection of the stack ends without a callback for now.
WgEnds ==
  /\ tcp.phase \in {"opening", "open", "closing"}
  /\ Commit([Context EXCEPT !.tcp = Ended(@)])
  /\ UNCHANGED sent

\* Any segment of the stack advertises the window.
Advertise ==
  /\ tcp.phase = "open" /\ sc.attached
  /\ Commit([Context EXCEPT !.window = RecvWindow(sc)])
  /\ UNCHANGED sent

Next ==
  \/ on_connection
  \/ \E len \in 1 .. 3 : \E messages \in [1 .. len -> Messages], n \in 0 .. ReadSize,
        cached, ok \in BOOLEAN : ReadHandshake(messages, n, cached, ok)
  \/ \E n \in 1 .. ReadSize : ReadBytes(n)
  \/ ClientEnds
  \/ flush_check_cb
  \/ \E status \in {-1, 0} :
       \/ write_done_cb(status)
       \/ client_close_cb(status)
       \/ \E ok \in BOOLEAN : resolve_complete(status, ok)
       \/ wg_on_connect(status)
  \/ \E n \in 1 .. MaxBytes : wg_on_data(n)
  \/ \E n \in 1 .. SendBuffer : wg_on_writeable(n)
  \/ wg_on_close
  \/ WgEnds
  \/ Advertise

Spec == Init /\ [][Next]_vars

----------------------------------------------------------------------------
(* Properties *)

IsByte(x) == x >= 0

\* The client gets the bytes of the tunnel in order and without loss, whatever is
\* written at once or buffered behind a write, and none before the reply that the
\* connection is up, until the connection is closed.
ToClientInOrder ==
  LET stream == toClient \o sc.outbuf
  IN  /\ ~sc.closing => SelectSeq(stream, IsByte) = [i \in 1 .. tcp.delivered |-> i - 1]
      /\ \A i \in DOMAIN stream : IsByte(stream[i]) => \E j \in 1 .. i : stream[j] = S5_REP_OK

\* The bytes of the client reach the stack in order and without loss, those that
\* wait for the name, for the connection or for room in the send buffer included.
ToWgInOrder ==
  ~sc.closing => toWg \o sc.pending = [i \in 1 .. sent |-> i - 1]

\* A paused client is read again: it is paused only while bytes in the send buffer
\* wait for an acknowledgement, which calls wg_on_writeable.
PausedHasAck ==
  tcp.phase = "open" /\ sc.attached /\ (sc.client_paused \/ sc.pending # <<>>) => tcp.unacked > 0

\* What is buffered for the client is written: a write is in progress, whose end
\* looks at the buffer, or the connection is in the flush list.
OutbufScheduled ==
  ~sc.closing /\ sc.outbuf # <<>> =>
    \/ sc.write_state = "WRITING" /\ sc.write_buf # <<>>
    \/ sc.write_state = "QUEUED" /\ sc.flush

\* A closed receive window is opened again: when the remote was told that there is
\* no room, update_wg_recv_window_state still has to tell it of room, and will be
\* called since bytes for the client are on their way.
WindowReopens ==
  tcp.phase = "open" /\ sc.attached /\ window = 0 =>
    sc.wg_recv_window_throttled /\ sc.outbuf \o sc.write_buf # <<>>

\* Nothing of the stack or the resolver leads to a client that was freed.
FreedDetached ==
  sc.freed => ~sc.attached /\ ~sc.resolve_req

----------------------------------------------------------------------------
(* What comments of the code say and the code does not do *)

\* "... -> ESTABLISHED -> CLOSING": closed is the last state of a connection; the
\* flush list does not hold one that was freed.
FreedNotQueued == ~(sc.freed /\ sc.flush)

\* "SOCKS5 proxy server (RFC 1928)": a failure is reported with a reply before the
\* connection is closed.
FailureReplySent ==
  sc.closing => \A i \in DOMAIN sc.outbuf : sc.outbuf[i] # S5_REP_FAIL

\* "Buffer data until connection is up": the bytes that the client sends before the
\* reply reach the stack, in order.
EarlyBytesInOrder == ToWgInOrder

\* "Local SOCKS5 proxy for TCP traffic": the bytes that came before the remote's FIN
\* are written to the client before its connection is closed.
TailWritten ==
  [][tcp.phase = "open" /\ sc.attached /\ tcp'.phase = "closing" /\ tcp'.notified =>
       sc'.outbuf = <<>>]_vars
=============================================================================
