------------------------------- MODULE Device -------------------------------
(* The life of a device and of the libuv loop that serves it: the handles, the     *)
(* send requests, the tunnel descriptor, and the control socket.  The programs that *)
(* own a device (Daemon, WinDaemon, Bridge) share this state; what passes through   *)
(* the device is left to Session and Config.  libuv is external: a handle is closed *)
(* once, its close callback and those of its requests come at the end of the        *)
(* iteration, and uv_run returns at the end of an iteration after uv_stop, or when   *)
(* nothing is left.                                                                  *)
EXTENDS Naturals, FiniteSets

CONSTANTS
  Program,   \* the programs to run: "tun", "socks5", "server", "windows", "desktop",
             \* "apple", "android"
  Conn,      \* connections of the control socket
  Req, POOL  \* the send requests in memory; those of the pool, the rest are allocated

VARIABLES
  program,   \* which program this is
  pc,        \* where the thread is that owns the loop
  loop,      \* the loop: running, and its stop flag
  handle,    \* the state of each handle
  pending,   \* the handles with an event for the loop: signals and asyncs
  dev,       \* the device
  req,       \* the socket each send request waits on
  tun,       \* the tunnel descriptor
  conn,      \* the connections of the control socket
  wrong      \* history: what was done that must not be done, <<what, object>>

dvars == <<program, pc, loop, handle, pending, dev, req, tun, conn, wrong>>

Udp == {"udp4", "udp6"}

Handle ==
  Udp \cup Conn \cup {"tun_poll", "uapi_server", "peer", "main_async", "flush_check",
                      "sigint", "sigterm", "stop_async"}

NoDevice ==
  [init |-> FALSE, freed |-> FALSE, socks5_mode |-> FALSE, udp6_active |-> FALSE,
   tun_fd |-> FALSE, tcp_worker |-> FALSE, tcpstack |-> FALSE]

DeviceInit ==
  /\ program \in Program
  /\ pc = IF program = "desktop" THEN "none" ELSE "start"
  /\ loop = [running |-> FALSE, stop |-> FALSE]
  /\ handle = [h \in Handle |-> "none"]
  /\ pending = {}
  /\ dev = NoDevice
  /\ req = [r \in Req |-> "free"]
  /\ tun = "none"
  /\ conn = [c \in Conn |-> "none"]
  /\ wrong = {}

Context ==
  [pc |-> pc, loop |-> loop, handle |-> handle, pending |-> pending, dev |-> dev, req |-> req,
   tun |-> tun, conn |-> conn, wrong |-> wrong]

Commit(r) ==
  \E s \in {r} :
    /\ pc' = s.pc
    /\ loop' = s.loop
    /\ handle' = s.handle
    /\ pending' = s.pending
    /\ dev' = s.dev
    /\ req' = s.req
    /\ tun' = s.tun
    /\ conn' = s.conn
    /\ wrong' = s.wrong
    /\ UNCHANGED program

Blame(s, what, object) == [s EXCEPT !.wrong = @ \cup {<<what, object>>}]

----------------------------------------------------------------------------
(* libuv *)

uv_init(s, hs) == [s EXCEPT !.handle = [h \in Handle |-> IF h \in hs THEN "active" ELSE @[h]]]

uv_close(s, h) ==
  IF s.handle[h] = "active" THEN [s EXCEPT !.handle[h] = "closing", !.pending = @ \ {h}]
  ELSE Blame(s, "uv_close", h)

\* An async that is closed or was never initialised takes nothing.
uv_async_send(s, h) ==
  IF s.handle[h] = "active" THEN [s EXCEPT !.pending = @ \cup {h}] ELSE s

Alive(s) ==
  \/ \E h \in Handle : s.handle[h] \in (IF h = "peer" THEN {"closing"} ELSE {"closing", "active"})
  \/ \E r \in Req : s.req[r] # "free"

uv_run(s) == [s EXCEPT !.loop.running = Alive(s)]

uv_stop(s) == [s EXCEPT !.loop.stop = TRUE]

\* The memory of a handle is released.
FreeHandle(s, h) == IF s.handle[h] = "closing" THEN Blame(s, "free", h) ELSE s

----------------------------------------------------------------------------
(* Sending: uv_udp_try_send, and a request when the socket would block *)

\* The node of the pool, or an allocated one.
udp_send_req_acquire(s) ==
  LET free == {r \in Req : s.req[r] = "free"}
      pooled == {r \in free : r <= POOL}
  IN  IF pooled # {} THEN pooled ELSE free

\* A node of the pool goes back to the list under the lock; both are gone after device_free.
udp_send_req_release(s, r) ==
  LET t == [s EXCEPT !.req[r] = "free"]
  IN  IF s.dev.freed /\ r <= POOL THEN Blame(t, "use", "send") ELSE t

udp_send_done(s, r) == udp_send_req_release(s, r)

\* What a message to a peer may leave: nothing, or a request waiting for the socket.
udp_send_copy(s) ==
  LET sockets == {u \in Udp : s.handle[u] = "active"}
  IN  {s} \cup {[s EXCEPT !.req[send[1]] = send[2]] :
                   send \in udp_send_req_acquire(s) \X sockets}

\* The code of the device runs.
Use(s, what) == IF s.dev.freed THEN Blame(s, "use", what) ELSE s

----------------------------------------------------------------------------
(* Peers: all of them are one handle, "peer" *)

\* Lines that add a peer.
AddPeer(s) ==
  IF s.handle["peer"] \in {"none", "closed"} THEN [s EXCEPT !.handle["peer"] = "active"] ELSE s

device_remove_all_peers(s) == IF s.handle["peer"] = "active" THEN uv_close(s, "peer") ELSE s

\* What the lines of a request or a file do to the peers.
Configured(s) == {s, AddPeer(s), device_remove_all_peers(s)}

----------------------------------------------------------------------------
(* The end of an iteration *)

\* The close callbacks, and udp_send_done with UV_ECANCELED for what waits on a
\* socket; conn_close_cb and peer_close_cb free.
RunClosing(s) ==
  LET done == {h \in Handle : s.handle[h] = "closing"}
      cancelled == {r \in Req : s.req[r] \in done}
  IN  [s EXCEPT
         !.handle = [h \in Handle |-> IF h \notin done THEN @[h]
                                      ELSE IF h \in Conn THEN "none" ELSE "closed"],
         !.conn = [c \in Conn |-> IF c \in done THEN "none" ELSE @[c]],
         !.req = [r \in Req |-> IF r \in cancelled THEN "free" ELSE @[r]],
         !.wrong = IF s.dev.freed /\ \E r \in cancelled : r <= POOL
                   THEN @ \cup {<<"use", "send">>} ELSE @]

EndIteration ==
  /\ loop.running
  /\ LET s == RunClosing(Context)
         return == s.loop.stop \/ ~Alive(s)
         t == IF return THEN [s EXCEPT !.loop = [running |-> FALSE, stop |-> FALSE]] ELSE s
     IN  t # Context /\ Commit(t)

----------------------------------------------------------------------------
(* device_init, device_start, device_stop, device_free *)

device_init(s) ==
  [s EXCEPT !.dev = [NoDevice EXCEPT !.init = TRUE], !.req = [r \in Req |-> "free"]]

\* The control socket, the worker and the stack are compiled in for the daemon only.
WithUserSocketModes == program \in {"tun", "socks5", "server"}

\* The tunnel, unless its descriptor is there already, the sockets, the control socket.
Start(s, opened, bind4, bind6) ==
  LET tunmode == ~s.dev.socks5_mode
      opens == tunmode /\ ~s.dev.tun_fd
      t == IF opens /\ opened THEN [s EXCEPT !.dev.tun_fd = TRUE, !.tun = "open"] ELSE s
      u4 == uv_init(t, {"udp4"})
      u6 == uv_init(u4, {"udp6"})
      v == IF bind6 THEN [u6 EXCEPT !.dev.udp6_active = TRUE]
           ELSE uv_close([u6 EXCEPT !.dev.udp6_active = FALSE], "udp6")
      w == IF tunmode THEN uv_init(v, {"tun_poll"}) ELSE v
  IN  CASE opens /\ ~opened -> [ok |-> FALSE, s |-> s]
        [] ~(opens /\ ~opened) /\ ~bind4 -> [ok |-> FALSE, s |-> u4]
        [] OTHER -> [ok |-> TRUE,
                     s |-> IF tunmode /\ WithUserSocketModes
                           THEN uv_init(w, {"uapi_server"}) ELSE w]

\* Whether the tunnel opens and the sockets bind is the environment's; ok is the result.
device_start(s) == {Start(s, b[1], b[2], b[3]) : b \in BOOLEAN \X BOOLEAN \X BOOLEAN}

\* A descriptor of the tunnel is closed.
tun_close(s) ==
  IF s.tun = "open" THEN [s EXCEPT !.tun = "closed"] ELSE Blame(s, "close", "tun")

\* Joins the worker (TcpWorker), closes the async and lets the loop run an
\* iteration before it frees both.
tcp_worker_stop(s) ==
  FreeHandle(RunClosing([uv_close(s, "main_async") EXCEPT !.dev.tcp_worker = FALSE]), "main_async")

\* The stack of the server is freed with its check handle still closing.
tcpstack_free(s) ==
  FreeHandle([uv_close(s, "flush_check") EXCEPT !.dev.tcpstack = FALSE], "flush_check")


\* A socket that did not bind was closed by device_start.
StopSockets(s) ==
  LET t == uv_close(s, "udp4") IN IF t.dev.udp6_active THEN uv_close(t, "udp6") ELSE t

StopTun(s) ==
  LET t == uv_close(s, "tun_poll")
  IN  IF t.dev.tun_fd THEN tun_close([t EXCEPT !.dev.tun_fd = FALSE]) ELSE t

device_stop(s) ==
  LET t == StopSockets(IF s.dev.socks5_mode THEN s ELSE StopTun(s))
      u == IF WithUserSocketModes /\ ~t.dev.socks5_mode THEN uv_close(t, "uapi_server") ELSE t
      v == IF WithUserSocketModes /\ u.dev.tcp_worker THEN tcp_worker_stop(u) ELSE u
  IN  IF WithUserSocketModes /\ v.dev.tcpstack THEN tcpstack_free(v) ELSE v

\* The pools, the tables and the locks are gone.
device_free(s) == [device_remove_all_peers(s) EXCEPT !.dev.freed = TRUE]

----------------------------------------------------------------------------
(* The callbacks of the device *)

\* A datagram, which may be answered.  The receive buffer is released before the return.
on_udp_recv(u) ==
  /\ loop.running /\ handle[u] = "active"
  /\ \E s \in udp_send_copy(Use(Context, "udp")) : Commit(s)

\* Packets of the tunnel, sent to the peers that have their destinations.
on_tun_readable ==
  /\ loop.running /\ handle["tun_poll"] = "active"
  /\ \E s \in udp_send_copy(Use(Context, "tun")) : Commit(s)

\* A timer of a peer.
OnTimer ==
  /\ loop.running /\ handle["peer"] = "active"
  /\ \E s \in udp_send_copy(Use(Context, "timer")) : Commit(s)

\* The socket can take a datagram again.
OnSent(r) ==
  /\ loop.running /\ req[r] # "free" /\ handle[req[r]] = "active"
  /\ Commit(udp_send_done(Context, r))

\* Packets of the TCP worker.
OnOutbound ==
  /\ loop.running /\ handle["main_async"] = "active"
  /\ \E s \in udp_send_copy(Use(Context, "worker")) : Commit(s)

----------------------------------------------------------------------------
(* The connections of the control socket *)

\* uv_accept succeeds in a connection callback.
on_new_conn(c) ==
  /\ loop.running /\ handle["uapi_server"] = "active" /\ handle[c] = "none"
  /\ Commit([uv_init(Context, {c}) EXCEPT !.conn[c] = "reading"])

\* The reply is written, or there is no memory for it.
send_response(s, c) == {[s EXCEPT !.conn[c] = "writing"], uv_close(s, c)}

\* A request that is neither get nor set, get, and set.
process_request(s, c) ==
  UNION {send_response(t, c) : t \in {s, Use(s, "uapi")}
                                     \cup (IF s.dev.freed THEN {} ELSE Configured(s))}

\* The end of a request was read: reading stops.
ConnRequest(c) ==
  /\ loop.running /\ handle[c] = "active" /\ conn[c] = "reading"
  /\ \E s \in process_request(Context, c) : Commit(s)

\* The client closed the connection.
ConnEnds(c) ==
  /\ loop.running /\ handle[c] = "active" /\ conn[c] = "reading"
  /\ Commit(uv_close(Context, c))

on_write_done(c) ==
  /\ loop.running /\ conn[c] = "writing" /\ handle[c] = "active"
  /\ Commit(uv_close(Context, c))

----------------------------------------------------------------------------

Callback ==
  \/ \E u \in Udp : on_udp_recv(u)
  \/ \E r \in Req : OnSent(r)
  \/ \E c \in Conn : on_new_conn(c) \/ ConnRequest(c) \/ ConnEnds(c) \/ on_write_done(c)
  \/ on_tun_readable \/ OnTimer \/ OnOutbound
=============================================================================
