------------------------------- MODULE Daemon -------------------------------
(* wgx, the program of main.c, in its three modes: a tunnel interface, a SOCKS5    *)
(* proxy, a forwarding server.  The thread of the loop goes from start to exit;      *)
(* what it does after an error is to end the process.  Signals come from outside.   *)
EXTENDS Device

CONSTANT Burst   \* TRUE: two termination signals may wait for the loop together

Userspace == program \in {"socks5", "server"}

\* Exits without more ado: the process ends, and with it all it has.
Exit(s) == [s EXCEPT !.pc = "failed"]

\* The arguments, and uv_loop_init, device_init.
MainInit ==
  /\ pc = "start"
  /\ \/ Commit(Exit(Context))
     \/ Commit([device_init(Context) EXCEPT !.pc = "init", !.dev.socks5_mode = Userspace])

\* Userspace: addresses and peers from the file.  Tunnel: the descriptors of the
\* environment, or of the parent that opened them before the fork, or none yet.
MainConfigure ==
  /\ pc = "init"
  /\ LET s == [Context EXCEPT !.pc = "ready"]
     IN  \/ Commit(Exit(Context))
         \/ Userspace /\ \E t \in {s, AddPeer(s)} : Commit(t)
         \/ ~Userspace /\ Commit(s)
         \/ ~Userspace /\ Commit([s EXCEPT !.dev.tun_fd = TRUE, !.tun = "open"])

\* device_start, then the handshakes with the peers of the file.
MainStart ==
  /\ pc = "ready"
  /\ \E r \in device_start(Context) :
         IF ~r.ok THEN Commit(Exit(r.s))
         ELSE \E s \in (IF Userspace THEN udp_send_copy(r.s) ELSE {r.s}) :
                Commit([s EXCEPT !.pc = "started"])

\* tcp_worker_start, or the stack and its listeners.
Services(s) ==
  CASE program = "socks5" ->
         {[uv_init(s, {"main_async"}) EXCEPT !.dev.tcp_worker = TRUE], Exit(s)}
    [] program = "server" ->
         LET t == [uv_init(s, {"flush_check"}) EXCEPT !.dev.tcpstack = TRUE]
         IN  {t, Exit(device_stop(t)), Exit(device_stop(s))}
    [] OTHER -> {s}

\* The services, the signal handlers, and uv_run.
MainRun ==
  /\ pc = "started"
  /\ \E s \in Services(Context) :
       Commit(IF s.pc = "failed" THEN s
              ELSE uv_run([uv_init(s, {"sigint", "sigterm"}) EXCEPT !.pc = "run"]))

\* A termination signal arrives.
Signal(h) ==
  /\ handle[h] = "active"
  /\ Burst \/ (pending = {} /\ ~loop.stop)
  /\ Commit([Context EXCEPT !.pending = @ \cup {h}])

on_signal(h) ==
  /\ loop.running /\ h \in pending
  /\ Commit(uv_stop(device_stop([Context EXCEPT !.pending = @ \ {h}])))

\* uv_run returned: the signal handles are closed, the device is freed, and the loop
\* runs again for the close callbacks.
MainEnd ==
  /\ pc = "run" /\ ~loop.running
  /\ Commit(uv_run([device_free(uv_close(uv_close(Context, "sigint"), "sigterm"))
                    EXCEPT !.pc = "drain"]))

\* uv_loop_close
MainExit ==
  /\ pc = "drain" /\ ~loop.running
  /\ Commit([Context EXCEPT !.pc = "exit"])

Main == MainInit \/ MainConfigure \/ MainStart \/ MainRun \/ MainEnd \/ MainExit

DaemonNext ==
  /\ program \in {"tun", "socks5", "server"}
  /\ Main \/ Callback \/ EndIteration \/ \E h \in {"sigint", "sigterm"} : Signal(h) \/ on_signal(h)
=============================================================================
