------------------------------- MODULE Bridge -------------------------------
(* The library that the applications of Apple's systems and of Android load:        *)
(* wgTurnOn makes a device with a thread and a loop of its own, and an entry of the   *)
(* handle table names it.  The adapter of the application (WireGuardAdapter, on its   *)
(* work queue; WgxBackend) makes one call at a time.  The tunnels come one after the  *)
(* other, and the device of the last one is the state of Device.                      *)
EXTENDS Device, Integers

CONSTANTS
  Id,        \* the entries of the handle table
  MaxTurns   \* how often a tunnel is turned on

VARIABLES
  table,   \* the handle table: the number of the tunnel, 0 for NULL
  h,       \* the handle of the last tunnel
  api,     \* the call in progress
  owner    \* the adapter

bvars == <<table, h, api, owner>>

BridgeInit ==
  /\ table = [i \in Id |-> 0]
  /\ h = [n |-> 0, alive |-> FALSE, id |-> 0, tun_fd |-> FALSE, started |-> FALSE, start_result |-> 0]
  /\ api = "idle"
  /\ owner = [state |-> "stopped", handle |-> -1]

----------------------------------------------------------------------------
(* The thread of a tunnel *)

\* The caller of wgTurnOn may go on; what follows in wgx_thread is seen to be done.
signal_started(result) == h' = [h EXCEPT !.started = TRUE, !.start_result = result]


\* The label out_device: the loop is not run again.
OutDevice(s) ==
  [device_free(IF s.dev.tun_fd THEN tun_close([s EXCEPT !.dev.tun_fd = FALSE]) ELSE s)
   EXCEPT !.pc = "ended"]

\* uv_loop_init, device_init, and the descriptor: a copy of the caller's, or the
\* caller's own, which from here on is the device's.
ThreadInit ==
  /\ pc = "thread"
  /\ \/ /\ Commit([Context EXCEPT !.pc = "ended"])
        /\ signal_started(-1)
     \/ /\ program = "apple"
        /\ Commit(OutDevice(device_init(Context)))
        /\ signal_started(-1)
     \/ /\ Commit([device_init(Context) EXCEPT !.pc = "config", !.dev.tun_fd = TRUE,
                                               !.tun = "open"])
        /\ h' = [h EXCEPT !.tun_fd = FALSE]
  /\ UNCHANGED <<table, api, owner>>

\* uapi_set_config; the lines before one that fails have been applied.
ThreadConfig ==
  /\ pc = "config"
  /\ \E s \in {Context, AddPeer(Context)} :
       \/ Commit([s EXCEPT !.pc = "ready"]) /\ UNCHANGED h
       \/ Commit(OutDevice(s)) /\ signal_started(-2)
  /\ UNCHANGED <<table, api, owner>>

\* device_start, uv_async_init, and the loop runs.
ThreadStart ==
  /\ pc = "ready"
  /\ \E r \in device_start(Context) :
         \/ ~r.ok /\ Commit(OutDevice(r.s)) /\ signal_started(-3)
         \/ r.ok /\ Commit(OutDevice(device_stop(r.s))) /\ signal_started(-4)
         \/ /\ r.ok
            /\ Commit(uv_run([uv_init(r.s, {"stop_async"}) EXCEPT !.pc = "run"]))
            /\ signal_started(0)
  /\ UNCHANGED <<table, api, owner>>

BridgeStop ==
  /\ loop.running /\ ~loop.stop /\ "stop_async" \in pending
  /\ Commit(uv_stop(device_stop([Context EXCEPT !.pending = @ \ {"stop_async"}])))
  /\ UNCHANGED bvars

\* The async and the peers are closed, and the loop runs until nothing is left.
ThreadDrain ==
  /\ pc = "run" /\ ~loop.running
  /\ Commit(uv_run([device_remove_all_peers(uv_close(Context, "stop_async"))
                    EXCEPT !.pc = "drain"]))
  /\ UNCHANGED bvars

ThreadEnds ==
  /\ pc = "drain" /\ ~loop.running
  /\ Commit([device_free(Context) EXCEPT !.pc = "ended"])
  /\ UNCHANGED bvars

wgx_thread ==
  ThreadInit \/ ThreadConfig \/ ThreadStart \/ BridgeStop \/ ThreadDrain \/ ThreadEnds

----------------------------------------------------------------------------
(* The calls *)

lookup_handle(id) == IF id \in Id THEN table[id] ELSE 0

alloc_handle_id == {i \in Id : table[i] = 0 /\ \A j \in Id : table[j] = 0 => i <= j}


free_handle_id(id) == [table EXCEPT ![id] = 0]

\* wgTurnOn, until it waits for the thread.  The adapter's state is set beforehand.
TurnOn(state) ==
  /\ api = "idle" /\ h.n < MaxTurns
  /\ \E id \in alloc_handle_id :
       /\ table' = [table EXCEPT ![id] = h.n + 1]
       /\ h' = [n |-> h.n + 1, alive |-> TRUE, id |-> id, tun_fd |-> program = "android",
                started |-> FALSE, start_result |-> 0]
  /\ api' = "on"
  /\ owner' = [owner EXCEPT !.state = state]
  /\ Commit([Context EXCEPT !.pc = "thread", !.dev = NoDevice, !.pending = {},
                            !.handle = [x \in Handle |-> "none"], !.req = [r \in Req |-> "free"],
                            !.tun = IF program = "android" THEN "open" ELSE "none"])

\* No memory for the handle, or no thread: what was allocated is freed again, the entry
\* too.  The call of Android closes the descriptor it was given, but not when it ends
\* before it has a handle: then nobody has the descriptor any more.
TurnOnFails ==
  /\ api = "idle" /\ h.n < MaxTurns
  /\ h' = [h EXCEPT !.n = @ + 1, !.alive = FALSE]
  /\ owner' = IF program = "android" THEN [owner EXCEPT !.handle = -1] ELSE owner
  /\ \E last \in IF program = "android" THEN {"lost", "closed"} ELSE {tun} :
       Commit([Context EXCEPT !.tun = last])
  /\ UNCHANGED <<table, api>>

\* wgTurnOn returns the entry; or, when the thread has ended, its error.
TurnOnReturns ==
  /\ api = "on" /\ h.started
  /\ api' = "idle"
  /\ \/ /\ h.start_result = 0
        /\ owner' = [state |-> "started", handle |-> h.id]
        /\ Commit(Context)
        /\ UNCHANGED <<table, h>>
     \/ /\ h.start_result # 0 /\ pc = "ended"
        /\ table' = free_handle_id(h.id)
        /\ h' = [h EXCEPT !.alive = FALSE, !.tun_fd = FALSE]
        /\ owner' = IF program = "android" THEN [owner EXCEPT !.handle = h.start_result]
                    ELSE owner
        /\ Commit(IF h.tun_fd THEN tun_close(Context) ELSE Context)

\* wgTurnOff: the entry goes first, then the thread is told and waited for.
TurnOff(state) ==
  /\ api = "idle"
  /\ lookup_handle(owner.handle) # 0
  /\ table' = free_handle_id(owner.handle)
  /\ api' = "off"
  /\ owner' = [state |-> state, handle |-> -1]
  /\ Commit(uv_async_send(IF h.alive THEN Context ELSE Blame(Context, "use", "handle"),
                          "stop_async"))
  /\ UNCHANGED h

TurnOffReturns ==
  /\ api = "off" /\ pc = "ended"
  /\ api' = "idle"
  /\ h' = [h EXCEPT !.alive = FALSE]
  /\ Commit(Context)
  /\ UNCHANGED <<table, owner>>

\* wgSetConfig and wgGetConfig run on the caller's thread, on the device of the entry;
\* an application may still have the number of a tunnel that is off.
wgConfig(id) ==
  /\ api = "idle"
  /\ lookup_handle(id) # 0
  /\ LET s == IF h.alive /\ lookup_handle(id) = h.n THEN Use(Context, "api")
              ELSE Blame(Context, "use", "handle")
     IN  \E t \in (IF program = "apple" /\ ~s.dev.freed THEN Configured(s) ELSE {s}) : Commit(t)
  /\ UNCHANGED bvars

----------------------------------------------------------------------------
(* The adapters *)

\* start, stop and didReceivePathUpdate of WireGuardAdapter.
Apple ==
  \/ owner.state = "stopped" /\ (TurnOn("stopped") \/ TurnOnFails)
  \/ owner.state = "started" /\ (TurnOff("stopped") \/ TurnOff("paused"))
  \/ owner.state = "paused" /\ (TurnOn("paused") \/ TurnOnFails)
  \/ /\ owner.state = "paused" /\ api = "idle"
     /\ owner' = [owner EXCEPT !.state = "stopped"]
     /\ Commit(Context)
     /\ UNCHANGED <<table, h, api>>

\* setState and onDestroy of WgxBackend: up only when no number is kept.
Android ==
  \/ owner.handle = -1 /\ (TurnOn("stopped") \/ TurnOnFails)
  \/ owner.state = "started" /\ TurnOff("stopped")

BridgeNext ==
  /\ program \in {"apple", "android"}
  /\ \/ wgx_thread \/ TurnOnReturns \/ TurnOffReturns
     \/ \E id \in Id : wgConfig(id)
     \/ program = "apple" /\ Apple
     \/ program = "android" /\ Android
     \/ (Callback \/ EndIteration) /\ UNCHANGED bvars
=============================================================================
