------------------------------ MODULE Programs ------------------------------
(* The programs that own a device, one of them in a behaviour: the daemon in its    *)
(* three modes, the Windows daemon, by itself or under the desktop application, and   *)
(* the libraries of the mobile applications.                                          *)
(* How each of them starts the device, stops it while the loop and other threads     *)
(* still use it, and frees it.                                                       *)
EXTENDS Daemon, Desktop, Bridge

vars == <<dvars, wvars, desk, bvars>>

Init == DeviceInit /\ WinInit /\ DesktopInit /\ BridgeInit

Next ==
  \/ DaemonNext /\ UNCHANGED <<wvars, desk, bvars>>
  \/ WinNext /\ UNCHANGED <<desk, bvars>>
  \/ DesktopNext /\ UNCHANGED bvars
  \/ BridgeNext /\ UNCHANGED <<wvars, desk>>

Windows == program \in {"windows", "desktop"} /\ pc \notin Ended

\* The loop serves an event it has, and its iterations end.
StopServed ==
  \/ (\E x \in {"sigint", "sigterm"} : on_signal(x)) /\ UNCHANGED <<wvars, desk, bvars>>
  \/ Windows /\ stop_async_cb /\ UNCHANGED <<desk, bvars>>

IterationEnds == EndIteration /\ pc # "killed" /\ UNCHANGED <<wvars, desk, bvars>>

\* The thread of the loop goes on where it is not in uv_run and what it waits for is there.
OwnerGoes ==
  \/ WithUserSocketModes /\ Main /\ UNCHANGED <<wvars, desk, bvars>>
  \/ Windows /\ WinThread /\ UNCHANGED <<desk, bvars>>
  \/ program \in {"apple", "android"} /\ wgx_thread /\ UNCHANGED <<wvars, desk>>

\* A client of the control socket sends its request or goes away, and its reply is written.
ConnEnding(c) ==
  (ConnRequest(c) \/ ConnEnds(c) \/ on_write_done(c)) /\ UNCHANGED <<wvars, desk, bvars>>

Fairness ==
  /\ WF_vars(StopServed)
  /\ WF_vars(IterationEnds)
  /\ WF_vars(OwnerGoes)
  /\ WF_vars(Windows /\ tun_reader /\ UNCHANGED <<quit, stdin, desk, bvars>>)
  /\ WF_vars(Windows /\ stats_pipe_server /\ UNCHANGED <<quit, stdin, desk, bvars>>)
  /\ WF_vars(Windows /\ stdin # "terminal" /\ stdin_reader /\ UNCHANGED <<desk, bvars>>)
  /\ \A c \in Conn : WF_vars(ConnEnding(c))

Spec == Init /\ [][Next]_vars /\ Fairness

----------------------------------------------------------------------------
(* Properties *)


\* Two things the daemon does: a connection of the control socket that is open when
\* the device stops is served by the second uv_run, after device_free; and tcpstack_free
\* frees the stack, with the check handle in it that is still closing.
KnownUses == {<<"use", "uapi">>, <<"free", "flush_check">>}




\* A process that the desktop application started is there only while the application
\* has an entry for it, or has exited and told it to stop: no start makes a second one,
\* no timer, deletion or failure leaves one behind.  A tunnel that is shown as connecting or
\* running has an entry.
ProcessAccounted ==
  program = "desktop" =>
    /\ pc \notin Ended => desk.running \/ (~desk.open /\ stdin = "stop")
    /\ desk.open /\ desk.state \in {"Connecting", "Running"} => desk.running

=============================================================================
