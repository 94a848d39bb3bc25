------------------------------- MODULE Desktop -------------------------------
(* The desktop application of Windows: it runs wgx-win as a child process for a     *)
(* tunnel, with a pipe to the child's standard input, and looks at the child with a   *)
(* timer.  The calls here are those of the window's thread, one message at a time;    *)
(* the child, WinDaemon, runs on its own.  A tunnel is chosen, the others are alike.  *)
EXTENDS WinDaemon

VARIABLE desk   \* the application, with the tunnel's profile and its entry in g_running

Ended == {"none", "failed", "exit", "killed"}

\* stopping: the thread is in stop_tunnel, which waits for the child.
DesktopInit ==
  desk = [open |-> program = "desktop", file |-> TRUE, state |-> "Stopped", running |-> FALSE,
          stopping |-> FALSE]

Idle == desk.open /\ ~desk.stopping

\* The memory of a process that has not run, or does no longer.
Fresh(at) ==
  [Context EXCEPT !.pc = at, !.dev = NoDevice, !.pending = {}, !.tun = "none",
                  !.loop = [running |-> FALSE, stop |-> FALSE],
                  !.handle = [x \in Handle |-> "none"], !.req = [r \in Req |-> "free"]]

\* CreateProcessW, with a pipe as its standard input.
CreateProcess ==
  /\ Commit(Fresh("start"))
  /\ quit' = FALSE
  /\ thread' = [t \in Thread |-> "none"]
  /\ stdin' = "empty"

\* A start that fails (the program is missing, no pipe, no process) changes nothing.
start_tunnel ==
  /\ Idle /\ desk.file /\ ~desk.running
  /\ CreateProcess
  /\ desk' = [desk EXCEPT !.running = TRUE, !.state = "Connecting"]

\* "stop" goes to the child, or nowhere if the child has ended.
WriteStop == stdin' = IF pc \in Ended THEN stdin ELSE "stop"

\* stop_tunnel, which delete_tunnel calls too, until its wait.
stop_tunnel ==
  /\ Idle /\ desk.file /\ desk.running
  /\ WriteStop
  /\ desk' = [desk EXCEPT !.stopping = TRUE]
  /\ Commit(Context)
  /\ UNCHANGED <<quit, thread>>

\* What delete_tunnel leaves: the file that cannot be deleted, or the profiles without it.
Deleted(d) == {d, [d EXCEPT !.file = FALSE]}

\* stop_tunnel returns, to delete_tunnel or to the window.
StopDone ==
  /\ desk.stopping
  /\ desk' \in Deleted([desk EXCEPT !.running = FALSE, !.state = "Stopped", !.stopping = FALSE])

\* Mutant: a child that takes too long is not terminated.
StopReturns_waits ==
  /\ StopDone
  /\ Commit(Context)
  /\ UNCHANGED wvars

\* The child ended, or the wait of 1.5 s did and the child is terminated.
StopReturns ==
  /\ StopDone
  /\ Commit(IF pc \in Ended THEN Context ELSE Fresh("killed"))
  /\ IF pc \in Ended THEN UNCHANGED wvars
     ELSE thread' = [t \in Thread |-> "none"] /\ UNCHANGED <<quit, stdin>>

\* Deleting a tunnel that does not run.
delete_tunnel ==
  /\ Idle /\ desk.file /\ ~desk.running
  /\ desk' \in Deleted([desk EXCEPT !.state = "Stopped"])
  /\ Commit(Context)
  /\ UNCHANGED wvars

\* The timer: a child that ended loses its entry, one that runs for long enough is shown so.
check_running_processes ==
  /\ Idle /\ desk.running
  /\ \/ /\ pc \in Ended
        /\ desk' = [desk EXCEPT !.running = FALSE,
                                !.state = IF pc = "exit" THEN "Stopped" ELSE "Failed"]
     \/ /\ pc \notin Ended /\ desk.state = "Connecting"
        /\ desk' = [desk EXCEPT !.state = "Running"]
  /\ Commit(Context)
  /\ UNCHANGED wvars

\* Another tunnel is imported or deleted: every profile is read again, and is Stopped
\* whether its child runs or not.
load_tunnels ==
  /\ Idle /\ desk.file
  /\ desk' = [desk EXCEPT !.state = "Stopped"]
  /\ Commit(Context)
  /\ UNCHANGED wvars

\* WM_DESTROY: the children are told to stop and not waited for.
Destroy ==
  /\ Idle
  /\ IF desk.running THEN WriteStop ELSE UNCHANGED stdin
  /\ desk' = [desk EXCEPT !.open = FALSE, !.running = FALSE, !.state = "Stopped"]
  /\ Commit(Context)
  /\ UNCHANGED <<quit, thread>>

DesktopNext ==
  \/ start_tunnel \/ stop_tunnel \/ StopReturns
  \/ delete_tunnel \/ check_running_processes \/ load_tunnels \/ Destroy
=============================================================================
