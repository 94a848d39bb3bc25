------------------------------ MODULE WinDaemon ------------------------------
(* wgx-win: main of wgx_win_main.c, and the threads beside it: the reader of the    *)
(* Wintun ring, the reader of standard input, the server of the statistics pipe,     *)
(* and the console handler, which Windows runs on a thread of its own.               *)
EXTENDS Device

VARIABLES
  quit,     \* the event g_quit_event
  thread,   \* where the threads are
  stdin     \* standard input: a terminal, or a pipe and what it holds

wvars == <<quit, thread, stdin>>

Thread == {"tun", "stdin", "stats", "console"}

WinInit ==
  /\ quit = FALSE
  /\ thread = [t \in Thread |-> "none"]
  /\ stdin = IF program = "desktop" THEN "empty" ELSE "terminal"

Go(t, to) == thread' = [thread EXCEPT ![t] = to]

WinExit(s) == [s EXCEPT !.pc = "failed"]

\* The arguments, Winsock, wintun.dll, the event and the console handler.
WinMain ==
  /\ pc = "start"
  /\ \/ /\ Commit(WinExit(Context))
        /\ UNCHANGED thread
     \/ /\ Commit([Context EXCEPT !.pc = "handler"])
        /\ Go("console", "idle")
  /\ UNCHANGED <<quit, stdin>>

\* The loop, the async and the device.
WinLoop ==
  /\ pc = "handler"
  /\ LET s == uv_init(Context, {"stop_async"})
     IN  Commit(WinExit(s)) \/ Commit([device_init(s) EXCEPT !.pc = "init"])
  /\ UNCHANGED wvars

\* The adapter takes the first free slot; if a session starts, the slot is the descriptor.
tun_windows_open(s) == [s EXCEPT !.dev.tun_fd = TRUE, !.tun = "open"]

\* The addresses, the adapter, the configuration and its routes.
WinOpen ==
  /\ pc = "init"
  /\ LET s == [tun_windows_open(Context) EXCEPT !.pc = "ready", !.dev.socks5_mode = TRUE]
     IN  \/ Commit(WinExit(Context))
         \/ Commit(WinExit(tun_windows_open(Context)))
         \/ \E t \in {s, AddPeer(s)} : Commit(t)
  /\ UNCHANGED wvars

\* device_start, which leaves the tunnel to the reader thread, and the threads.
WinStart ==
  /\ pc = "ready"
  /\ \E r \in device_start(Context) :
         \/ /\ ~r.ok
            /\ Commit(WinExit(r.s))
            /\ UNCHANGED wvars
         \/ /\ r.ok
            /\ Commit(WinExit(device_stop(r.s)))
            /\ quit' = TRUE
            /\ UNCHANGED <<thread, stdin>>
         \/ /\ r.ok
            /\ \E s \in udp_send_copy(r.s) : Commit(uv_run([s EXCEPT !.pc = "run"]))
            /\ \E started \in SUBSET {"stdin", "stats"} :
                 thread' = [t \in Thread |-> IF t \in started \cup {"tun"} THEN "top"
                                             ELSE thread[t]]
            /\ UNCHANGED <<quit, stdin>>

----------------------------------------------------------------------------
(* The threads *)

\* Once the event is set the loop of the reader ends; a read that fails ends it too.
\* Waiting for a packet is waiting for the event as well.
tun_reader ==
  \/ /\ thread["tun"] = "top"
     /\ Go("tun", IF quit THEN "done" ELSE "read")
     /\ Commit(Context)
  \/ /\ thread["tun"] = "read"
     /\ \/ Go("tun", "send") \/ Go("tun", "wait") \/ Go("tun", "done")
     /\ Commit(IF tun = "open" THEN Context ELSE Blame(Context, "use", "wintun"))
  \/ /\ thread["tun"] = "send"
     /\ Go("tun", "top")
     /\ \E s \in udp_send_copy(Use(Context, "tun_reader")) : Commit(s)
  \/ /\ thread["tun"] = "wait"
     /\ Go("tun", "top")
     /\ Commit(Context)

\* request_stop in two steps: the event, then the async.
SetQuit(t, from) ==
  /\ thread[t] = from
  /\ quit' = TRUE
  /\ Go(t, "send")
  /\ Commit(Context)
  /\ UNCHANGED stdin


SendAsync(t, to) ==
  /\ thread[t] = "send"
  /\ Go(t, to)
  /\ Commit(uv_async_send(Context, "stop_async"))
  /\ UNCHANGED <<quit, stdin>>

\* "stop" on standard input; a terminal may also end it, a pipe with "stop" does not before.
stdin_reader ==
  \/ stdin \in {"terminal", "stop"} /\ SetQuit("stdin", "top")
  \/ SendAsync("stdin", "done")
  \/ /\ stdin = "terminal" /\ thread["stdin"] = "top"
     /\ Go("stdin", "done")
     /\ Commit(Context)
     /\ UNCHANGED <<quit, stdin>>

\* Ctrl-C, or the console closes; the child of the desktop application has no window.
console_handler ==
  program = "windows" /\ (SetQuit("console", "idle") \/ SendAsync("console", "idle"))

\* A pipe, a client, its request; the event is looked at between the steps.
stats_pipe_server ==
  \/ /\ thread["stats"] = "top"
     /\ Go("stats", IF quit THEN "done" ELSE "listen")
     /\ Commit(Context)
  \/ /\ thread["stats"] = "listen"
     /\ IF quit THEN Go("stats", "top") ELSE Go("stats", "serve") \/ Go("stats", "top")
     /\ Commit(Context)
  \/ /\ thread["stats"] = "serve"
     /\ Go("stats", "top")
     /\ Commit(Use(Context, "stats"))

\* An async is served once in an iteration.
stop_async_cb ==
  /\ loop.running /\ ~loop.stop /\ "stop_async" \in pending
  /\ Commit(uv_stop(device_stop([Context EXCEPT !.pending = @ \ {"stop_async"}])))
  /\ UNCHANGED wvars

----------------------------------------------------------------------------
(* The end of main *)

\* uv_run returned: the event tells the threads.
WinQuit ==
  /\ pc = "run" /\ ~loop.running
  /\ Commit([Context EXCEPT !.pc = "join"])
  /\ quit' = TRUE
  /\ UNCHANGED <<thread, stdin>>


\* The readers are joined, the one of standard input is cancelled and may be where it
\* is; then the adapter, the device and the async go, and the loop runs again.
WinFree ==
  /\ pc = "join"
  /\ thread["tun"] = "done"
  /\ thread["stats"] \in {"none", "done"}
  /\ Commit(uv_run(uv_close([device_free(tun_close([Context EXCEPT !.dev.tun_fd = FALSE]))
                             EXCEPT !.pc = "drain"], "stop_async")))
  /\ UNCHANGED wvars

\* The loop is closed, then the event and the console handler.
WinExits ==
  /\ pc = "drain" /\ ~loop.running
  /\ Commit([Context EXCEPT !.pc = "exit"])
  /\ thread' = [t \in Thread |-> "none"]
  /\ UNCHANGED <<quit, stdin>>

WinThread == WinMain \/ WinLoop \/ WinOpen \/ WinStart \/ WinQuit \/ WinFree \/ WinExits

WinNext ==
  /\ program \in {"windows", "desktop"} /\ pc \notin {"failed", "exit", "killed"}
  /\ \/ WinThread
     \/ (tun_reader \/ stats_pipe_server) /\ UNCHANGED <<quit, stdin>>
     \/ stdin_reader \/ console_handler
     \/ stop_async_cb
     \/ (Callback \/ EndIteration) /\ UNCHANGED wvars
=============================================================================
