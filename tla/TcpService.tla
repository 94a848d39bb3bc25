----------------------------- MODULE TcpService -----------------------------
(***************************************************************************)
(* What the TCP stack promises the applications that use a connection, the *)
(* SOCKS5 proxy and the forwarder: when bytes are accepted and delivered,  *)
(* and that the end of a connection is reported once, after which nothing  *)
(* is delivered.  TcpConn implements it; Forward is built on it.           *)
(***************************************************************************)
EXTENDS Naturals

CONSTANTS SendBuffer,   \* WG_TCP_SENDBUF_SIZE
          MaxBytes      \* bound: bytes delivered

VARIABLE tcp

\* unacked counts the bytes in the send buffer, delivered the bytes that on_data
\* got; notified says that on_close, or on_connect with a failure, was called.
Connection ==
  [phase : {"none", "opening", "open", "closing", "closed"},
   unacked : 0 .. SendBuffer, delivered : 0 .. MaxBytes, notified : BOOLEAN]

NoConnection == [phase |-> "none", unacked |-> 0, delivered |-> 0, notified |-> FALSE]

----------------------------------------------------------------------------
(* Operations of the application *)

\* tcp_send_available
Available(t) == IF t.phase = "open" THEN SendBuffer - t.unacked ELSE 0

\* tcp_send
Sent(t, n) == [t EXCEPT !.unacked = @ + n]

\* tcp_close: the send buffer does not count any more.
Closed(t) ==
  CASE t.phase = "opening" -> [t EXCEPT !.phase = "closed"]
    [] t.phase = "open"    -> [t EXCEPT !.phase = "closing", !.unacked = 0]
    [] OTHER               -> t

----------------------------------------------------------------------------
(* Events of the connection *)

Opened(t)       == [t EXCEPT !.phase = "opening"]
Established(t)  == [t EXCEPT !.phase = "open"]
Acked(t, n)     == [t EXCEPT !.unacked = @ - n]
Delivered(t, n) == [t EXCEPT !.delivered = @ + n]
\* The remote's FIN is reported at once, a reset later.
RemoteFin(t)    == [t EXCEPT !.phase = "closing", !.unacked = 0, !.notified = TRUE]
Ended(t)        == [t EXCEPT !.phase = "closed", !.unacked = 0]
Notified(t)     == [t EXCEPT !.notified = TRUE]

Send ==
  \E n \in 1 .. SendBuffer : n <= Available(tcp) /\ tcp' = Sent(tcp, n)

Close == tcp.phase \in {"opening", "open"} /\ tcp' = Closed(tcp)

Open == tcp.phase = "none" /\ tcp' = Opened(tcp)

\* A segment may acknowledge and deliver, be answered with a close in on_data, and
\* carry the FIN.
Receive ==
  \E a \in 0 .. tcp.unacked, d \in 0 .. MaxBytes - tcp.delivered, close, fin \in BOOLEAN :
    LET t1 == Delivered(Acked(Established(tcp), a), d)
        t2 == IF close THEN Closed(t1) ELSE t1
    IN  /\ tcp.phase \in {"opening", "open"} /\ ~tcp.notified
        /\ tcp' = IF fin THEN RemoteFin(t2) ELSE t2

\* The end: after the FINs, by a reset, by the stack, or by an abort, which the
\* application is told at once.
End ==
  /\ tcp.phase \in {"opening", "open", "closing"}
  /\ \/ tcp' = Ended(tcp)
     \/ tcp' = Notified(Ended(tcp))

Report == tcp.phase = "closed" /\ ~tcp.notified /\ tcp' = Notified(tcp)

ServiceInit == tcp = NoConnection

ServiceNext == Open \/ Send \/ Close \/ Receive \/ End \/ Report

ServiceSpec == ServiceInit /\ [][ServiceNext]_tcp
=============================================================================
