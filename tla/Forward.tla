------------------------------ MODULE Forward ------------------------------
(***************************************************************************)
(* A connection of the TCP forwarder (forward.c): bytes from the tunnel go *)
(* to a local server and back, over a connection of the stack (TcpService) *)
(* and a libuv TCP handle.  Every callback is one step of the event loop.  *)
(* A byte is its number in the stream.  ok says whether the allocations    *)
(* and libuv calls of a step succeed.                                      *)
(***************************************************************************)
EXTENDS TcpService, Integers, Sequences

CONSTANTS FORWARD_PENDING_LIMIT,
          LocalBytes,    \* bound: bytes the local server sends
          CanFail        \* allocations and libuv calls may fail

VARIABLES fc,         \* forward_conn_t
          fromLocal,  \* bytes read from the local server
          toWg,       \* bytes given to tcp_send
          toLocal     \* bytes given to uv_write

vars == <<tcp, fc, fromLocal, toWg, toLocal>>

Bytes(n) == 0 .. n - 1

\* connect_req and writes are the requests libuv still has to answer.
TypeOK ==
  /\ tcp \in Connection
  /\ fc \in [pending_wg : Seq(Bytes(MaxBytes)), pending_local : Seq(Bytes(LocalBytes)),
             local_connected : BOOLEAN, local_read_paused : BOOLEAN, local_closing : BOOLEAN,
             local_closed : BOOLEAN, wg_closed : BOOLEAN, closing : BOOLEAN,
             connect_req : BOOLEAN, writes : Nat, freed : BOOLEAN]
  /\ Len(fc.pending_wg) <= FORWARD_PENDING_LIMIT
  /\ Len(fc.pending_local) <= FORWARD_PENDING_LIMIT
  /\ fromLocal \in 0 .. LocalBytes
  /\ toWg \in Seq(Bytes(LocalBytes))
  /\ toLocal \in Seq(Bytes(MaxBytes))

----------------------------------------------------------------------------
(* Helpers: operators on c, the connection with its two sides *)

NewConn ==
  [pending_wg |-> <<>>, pending_local |-> <<>>, local_connected |-> FALSE,
   local_read_paused |-> FALSE, local_closing |-> FALSE, local_closed |-> FALSE,
   wg_closed |-> FALSE, closing |-> FALSE, connect_req |-> FALSE, writes |-> 0, freed |-> FALSE]

Context == [fc |-> fc, tcp |-> tcp, toWg |-> toWg, toLocal |-> toLocal]


forward_free_if_done(c) ==
  IF c.fc.local_closed /\ c.fc.wg_closed THEN [c EXCEPT !.fc.freed = TRUE] ELSE c

\* uv_close stops the reading too.
forward_close_local(c) == [c EXCEPT !.fc.local_closing = TRUE]

forward_close(c) ==
  IF c.fc.closing THEN c
  ELSE forward_close_local([c EXCEPT !.fc.closing = TRUE,
                                     !.tcp = IF c.fc.wg_closed THEN @ ELSE Closed(@)])

forward_pending_append(c, data) ==
  IF Len(c.fc.pending_wg) + Len(data) > FORWARD_PENDING_LIMIT THEN forward_close(c)
  ELSE [c EXCEPT !.fc.pending_wg = @ \o data]

forward_pending_local_append(c, data) ==
  IF Len(c.fc.pending_local) + Len(data) > FORWARD_PENDING_LIMIT THEN forward_close(c)
  ELSE [c EXCEPT !.fc.pending_local = @ \o data]

\* tcp_send of the first n bytes of data.
SendFirst(c, data, n) ==
  [c EXCEPT !.tcp = Sent(@, n), !.toWg = @ \o SubSeq(data, 1, n)]

Fits(c, data) == IF Len(data) < Available(c.tcp) THEN Len(data) ELSE Available(c.tcp)

\* What fits goes into the send buffer, and when nothing is left the local server
\* is read again.  ok is about tcp_send and uv_read_start.
forward_flush_pending_local(c, ok) ==
  LET n       == Fits(c, c.fc.pending_local)
      sent    == [SendFirst(c, c.fc.pending_local, n)
                    EXCEPT !.fc.pending_local = SubSeq(@, n + 1, Len(@))]
      resumes == /\ sent.fc.pending_local = <<>> /\ sent.fc.local_read_paused
                 /\ sent.fc.local_connected /\ ~sent.fc.local_closing
  IN  CASE c.fc.wg_closed -> c
        [] ~c.fc.wg_closed /\ n > 0 /\ ~ok -> forward_close(c)
        [] ~c.fc.wg_closed /\ (n = 0 \/ ok) /\ resumes ->
             LET r == [sent EXCEPT !.fc.local_read_paused = FALSE]
             IN  IF ok THEN r ELSE forward_close(r)
        [] OTHER -> sent

\* A handle that is closing takes no more writes.
forward_write_local(c, data, ok) ==
  IF ok /\ ~c.fc.local_closing
  THEN [c EXCEPT !.fc.writes = @ + 1, !.toLocal = @ \o data]
  ELSE forward_close(c)

forward_flush_pending_wg(c, ok) ==
  IF c.fc.pending_wg = <<>> THEN c
  ELSE LET w == forward_write_local(c, c.fc.pending_wg, ok)
       IN  IF w.fc.closing THEN w ELSE [w EXCEPT !.fc.pending_wg = <<>>]

----------------------------------------------------------------------------
(* Callbacks *)

Commit(c) == fc' = c.fc /\ tcp' = c.tcp /\ toWg' = c.toWg /\ toLocal' = c.toLocal

Used == tcp.phase # "none" /\ ~fc.freed

Init ==
  /\ ServiceInit
  /\ fc = NewConn
  /\ fromLocal = 0 /\ toWg = <<>> /\ toLocal = <<>>

\* The listener accepts a SYN and the connection to the local server is started.
forward_on_accept(ok) ==
  /\ tcp.phase = "none"
  /\ LET c == [Context EXCEPT !.tcp = Opened(@)]
     IN  Commit(IF ok THEN [c EXCEPT !.fc.connect_req = TRUE] ELSE forward_close(c))
  /\ UNCHANGED fromLocal

forward_connect_cb(status, ok) ==
  /\ Used /\ fc.connect_req /\ ~fc.local_closing
  /\ LET c == [Context EXCEPT !.fc.connect_req = FALSE]
     IN  Commit(IF status < 0 THEN forward_close(c)
                ELSE forward_flush_pending_wg([c EXCEPT !.fc.local_connected = TRUE], ok))
  /\ UNCHANGED fromLocal

LocalReading ==
  Used /\ fc.local_connected /\ ~fc.local_read_paused /\ ~fc.local_closing

\* n bytes of the local server; what does not fit is parked and the reading stops.
forward_local_read(n, ok) ==
  LET data == [i \in 1 .. n |-> fromLocal + i - 1]
      f    == Fits(Context, data)
      c    == forward_pending_local_append(SendFirst(Context, data, f), SubSeq(data, f + 1, n))
  IN  /\ LocalReading /\ fromLocal + n <= LocalBytes
      /\ fromLocal' = fromLocal + n
      /\ Commit(CASE fc.wg_closed \/ ~ok -> forward_close(Context)
                  [] ~fc.wg_closed /\ ok /\ fc.pending_local # <<>> ->
                       forward_pending_local_append(Context, data)
                  [] ~fc.wg_closed /\ ok /\ fc.pending_local = <<>> /\ (c.fc.closing \/ f = n) -> c
                  [] OTHER -> [c EXCEPT !.fc.local_read_paused = TRUE])

\* The end of the local server's stream, or an error.
LocalEnds ==
  /\ LocalReading
  /\ Commit(forward_close(Context))
  /\ UNCHANGED fromLocal

forward_write_done(status) ==
  /\ Used /\ fc.writes > 0 /\ ~fc.local_closing
  /\ LET c == [Context EXCEPT !.fc.writes = @ - 1]
     IN  Commit(IF status < 0 THEN forward_close(c) ELSE c)
  /\ UNCHANGED fromLocal

\* libuv first answers the open requests of the handle: a connect with UV_ECANCELED,
\* a write with that or, when it was done before, with success.
forward_local_close_cb(status) ==
  /\ Used /\ fc.local_closing /\ ~fc.local_closed
  /\ LET c1 == IF fc.connect_req \/ (fc.writes > 0 /\ status < 0) THEN forward_close(Context)
               ELSE Context
         c2 == [c1 EXCEPT !.fc.connect_req = FALSE, !.fc.writes = 0, !.fc.local_closed = TRUE]
     IN  Commit(forward_free_if_done(c2))
  /\ UNCHANGED fromLocal

\* The handshake of the stack ends; a listener's connection has no callback for it.
WgEstablished ==
  /\ tcp.phase = "opening"
  /\ Commit([Context EXCEPT !.tcp = Established(@)])
  /\ UNCHANGED fromLocal

\* on_writeable is called when less than a quarter of the send buffer is in use.
forward_wg_on_writeable(n, ok) ==
  /\ tcp.phase = "open" /\ n <= tcp.unacked
  /\ LET c == [Context EXCEPT !.tcp = Acked(@, n)]
     IN  Commit(IF c.tcp.unacked < SendBuffer \div 4 /\ ~fc.closing
                THEN forward_flush_pending_local(c, ok) ELSE c)
  /\ UNCHANGED fromLocal

forward_wg_on_data(n, ok) ==
  LET data == [i \in 1 .. n |-> tcp.delivered + i - 1]
      c    == [Context EXCEPT !.tcp = Delivered(@, n)]
  IN  /\ tcp.phase = "open" /\ tcp.delivered + n <= MaxBytes
      /\ Commit(CASE fc.closing -> c
                  [] ~fc.closing /\ ~fc.local_connected ->
                       IF ok THEN forward_pending_append(c, data) ELSE forward_close(c)
                  [] OTHER -> forward_write_local(forward_flush_pending_local(c, ok), data, ok))
      /\ UNCHANGED fromLocal

\* Mutant: only the local side frees.
OnClose_forgets(c) == forward_close_local([c EXCEPT !.fc.wg_closed = TRUE])

OnClose(c) ==
  forward_free_if_done(forward_close_local([c EXCEPT !.fc.wg_closed = TRUE]))

\* The remote's FIN, an abort, or the late report of a reset.
forward_wg_on_close ==
  /\ \/ /\ tcp.phase = "open"
        /\ Commit(OnClose([Context EXCEPT !.tcp = RemoteFin(@)]))
     \/ /\ tcp.phase \in {"opening", "open", "closing"} /\ ~tcp.notified
        /\ Commit(OnClose([Context EXCEPT !.tcp = Notified(Ended(@))]))
     \/ /\ tcp.phase = "closed" /\ ~tcp.notified
        /\ Commit(OnClose([Context EXCEPT !.tcp = Notified(@)]))
  /\ UNCHANGED fromLocal

\* The stack's connection ends without a callback for now.
WgEnds ==
  /\ tcp.phase \in {"opening", "open", "closing"}
  /\ Commit([Context EXCEPT !.tcp = Ended(@)])
  /\ UNCHANGED fromLocal

Oks == IF CanFail THEN BOOLEAN ELSE {TRUE}

Next ==
  \/ \E ok \in Oks :
       \/ forward_on_accept(ok)
       \/ \E status \in {-1, 0} : forward_connect_cb(status, ok)
       \/ \E n \in 1 .. LocalBytes : forward_local_read(n, ok)
       \/ \E n \in 1 .. SendBuffer : forward_wg_on_writeable(n, ok)
       \/ \E n \in 1 .. MaxBytes : forward_wg_on_data(n, ok)
  \/ LocalEnds
  \/ \E status \in {-1, 0} : forward_write_done(status) \/ forward_local_close_cb(status)
  \/ WgEstablished
  \/ forward_wg_on_close
  \/ WgEnds

Spec == Init /\ [][Next]_vars

\* libuv calls the close callback of a closing handle, and the stack reports the
\* end of a connection that it frees.
CloseFairness ==
  /\ WF_vars(\E status \in {-1, 0} : forward_local_close_cb(status))
  /\ WF_vars(tcp.phase = "closed" /\ forward_wg_on_close)

\* A connection that stays up: the handshake ends, the local server is reached, and
\* what is sent is acknowledged.
FairSpec ==
  /\ Spec
  /\ WF_vars(WgEstablished)
  /\ WF_vars(forward_connect_cb(0, TRUE))
  /\ WF_vars(\E n \in 1 .. SendBuffer : n = tcp.unacked /\ forward_wg_on_writeable(n, TRUE))
  /\ CloseFairness

----------------------------------------------------------------------------
(* Properties *)

\* The bytes of the local server reach the stack in order and without loss, those
\* that had to be parked included, until the forwarder closes the connection.
ToWgInOrder ==
  ~fc.closing => toWg \o fc.pending_local = [i \in 1 .. fromLocal |-> i - 1]

\* The bytes of the tunnel reach the local server in order and without loss, those
\* that came before the local connection was up included.
ToLocalInOrder ==
  ~fc.closing => toLocal \o fc.pending_wg = [i \in 1 .. tcp.delivered |-> i - 1]



\* Once the stack has ended the connection, the forwarder's memory is freed, in
\* whatever order the two sides close.
EventuallyFreed == tcp.phase = "closed" ~> fc.freed

\* "TCP forwarder": bytes that were parked are sent, or the connection is closed.
ParkedIsSent == fc.pending_local # <<>> ~> fc.pending_local = <<>> \/ fc.local_closing
=============================================================================
