------------------------------- MODULE Relays -------------------------------
(* The two applications of the TCP stack, each with a connection: the SOCKS5 proxy,  *)
(* which connects for a client, and the forwarder, which accepts for a local server.  *)
(* A process has one of them.                                                         *)
EXTENDS Integers, Sequences

CONSTANTS
  SendBuffer, MaxBytes,                                             \* TcpService
  SOCKS5_PENDING_LIMIT, SOCKS5_CLIENT_OUTBUF_LIMIT, FlushSize,       \* Socks5
  ReadSize, AuthRequired, ClientBytes, EarlyBytes, Pipelined,
  FORWARD_PENDING_LIMIT, LocalBytes, CanFail                         \* Forward

ASSUME RelaysAssumption ==
  /\ SendBuffer \in Nat /\ SendBuffer >= 4
  /\ {MaxBytes, FlushSize, ReadSize, ClientBytes, EarlyBytes, LocalBytes} \subseteq Nat
  /\ {SOCKS5_PENDING_LIMIT, SOCKS5_CLIENT_OUTBUF_LIMIT} \subseteq Nat \ {0}
  /\ FORWARD_PENDING_LIMIT \in Nat
  /\ {AuthRequired, Pipelined, CanFail} \subseteq BOOLEAN

VARIABLES
  relay,                          \* which of the two
  tcp, toWg,                      \* both
  sc, sent, toClient, window,     \* Socks5
  fc, fromLocal, toLocal          \* Forward

vars == <<relay, tcp, toWg, sc, sent, toClient, window, fc, fromLocal, toLocal>>

Socks5 == INSTANCE Socks5

Forward == INSTANCE Forward

Init ==
  /\ relay \in {"socks5", "forward"}
  /\ Socks5!Init
  /\ Forward!Init

Next ==
  \/ relay = "socks5" /\ Socks5!Next /\ UNCHANGED <<relay, fc, fromLocal, toLocal>>
  \/ relay = "forward" /\ Forward!Next /\ UNCHANGED <<relay, sc, sent, toClient, window>>

Spec ==
  /\ Init /\ [][Next]_vars
  /\ relay = "forward" => Forward!CloseFairness

----------------------------------------------------------------------------
(* Properties *)


\* What socks5.c buffers for the client is written (see Socks5).
OutbufScheduled == relay = "socks5" => Socks5!OutbufScheduled



\* The forwarder frees its connection once the stack has ended it (see Forward).
EventuallyFreed == relay = "forward" /\ tcp.phase = "closed" ~> fc.freed
=============================================================================
