------------------------------- MODULE Config -------------------------------
(* The peers of a device and how they are configured: the configuration file,   *)
(* the set requests of the control socket, the routing tables, and the timer     *)
(* handles that outlive a peer.  Everything runs on the thread of the loop, so   *)
(* no callback comes between two lines of one request.  Keys are values without  *)
(* structure.  The wording of lines is left out, and so are the lines that change  *)
(* nothing here: the port, the mark, a preshared key, and a value that does not   *)
(* parse, which a request skips (the reply then says EINVAL).                     *)
EXTENDS Sequences, FiniteSets, SequencesExt, AllowedIPs

CONSTANTS
  Object,              \* the pieces of memory a wg_peer_t can occupy
  PublicKey, Secret,   \* the keys of the peers, the private keys
  TIMERS,              \* the timer handles of a peer, 5 in the code
  NetAddr,             \* the IPv4 addresses and, for each version, the lengths of the
  Cidr4, Cidr6,        \* prefixes that allowed_ip lines name
  WgOrder              \* TRUE: requests are ordered as wg(8) orders them

VARIABLES
  dev,     \* the device
  peer,    \* what each piece of memory holds
  req,     \* the file or the request being processed
  routes,  \* history: prefix -> the peer it was given to last
  given    \* history: the prefixes a peer was given since it was created or cleared

vars == <<dev, peer, req, routes, given>>

Peer ==
  [public_key : PublicKey, precomputed_static_static : Secret \cup {NULL},
   endpoint : BOOLEAN, persistent_keepalive_ms : BOOLEAN, timer_persistent_keepalive : BOOLEAN,
   stored_by : {"set", "file"}, timers_active : BOOLEAN,
   timer_close_count : 0 .. TIMERS, closing : 0 .. TIMERS]

Request ==
  [from : {"idle", "set", "file", "failed"}, section : {"NONE", "INTERFACE", "PEER"},
   current_peer : Object \cup {NULL}, replace_peers : BOOLEAN, remove_peer : BOOLEAN,
   ok : BOOLEAN]

NoRequest ==
  [from |-> "idle", section |-> "NONE", current_peer |-> NULL, replace_peers |-> FALSE,
   remove_peer |-> FALSE, ok |-> FALSE]

Nets == ({4} \X NetAddr \X Cidr4) \cup ({6} \X {0} \X Cidr6)

\* The device starts empty; a configuration file is read first if there is one.
Init ==
  /\ dev = [private_key |-> NULL, cookie_checker |-> NULL, peers |-> <<>>, peer_count |-> 0,
            allowedips |-> allowedips_init]
  /\ peer = [o \in Object |-> NULL]
  /\ \E from \in {"idle", "file"} : req = [NoRequest EXCEPT !.from = from]
  /\ routes = <<>>
  /\ given = [o \in Object |-> {}]

Context == [dev |-> dev, peer |-> peer, req |-> req, routes |-> routes, given |-> given]

Commit(s) ==
  /\ dev' = s.dev
  /\ peer' = s.peer
  /\ req' = s.req
  /\ routes' = s.routes
  /\ given' = s.given

----------------------------------------------------------------------------
(* Peers *)

\* The peer with the key, or NULL.
device_find_peer(s, pk) ==
  LET found == {o \in ToSet(s.dev.peers) : s.peer[o].public_key = pk}
  IN  IF found = {} THEN NULL ELSE CHOOSE o \in found : TRUE

\* The memory calloc may return; NULL when there is none left.
Callocs(s) ==
  LET free == {o \in Object : s.peer[o] = NULL}
  IN  IF free = {} THEN {NULL} ELSE free

NewPeer(pk, secret) ==
  [public_key |-> pk, precomputed_static_static |-> secret, endpoint |-> FALSE,
   persistent_keepalive_ms |-> FALSE, timer_persistent_keepalive |-> FALSE,
   stored_by |-> "set", timers_active |-> TRUE, timer_close_count |-> TIMERS,
   closing |-> 0, allowedips |-> allowedips_init]

device_add_peer(s, pk, o) ==
  [s EXCEPT !.peer[o] = NewPeer(pk, s.dev.private_key), !.dev.peers = <<o>> \o @,
            !.dev.peer_count = @ + 1]

timers_stop(p) ==
  IF ~p.timers_active THEN p
  ELSE [p EXCEPT !.timer_persistent_keepalive = FALSE, !.timers_active = FALSE]

timers_close(p) ==
  IF p.timer_close_count = 0 THEN p ELSE [p EXCEPT !.closing = @ + TIMERS]

Forget(s, o) ==
  [s EXCEPT !.routes = [net \in {n \in DOMAIN @ : @[n] # o} |-> @[net]], !.given[o] = {}]

peer_teardown(s, o) ==
  Forget([s EXCEPT
     !.dev.allowedips = allowedips_remove_peer(@, o),
     !.peer[o] = timers_close([timers_stop(@) EXCEPT !.allowedips = allowedips_init])], o)

device_remove_peer(s, o) ==
  LET listed == Contains(s.dev.peers, o)
  IN  peer_teardown([s EXCEPT !.dev.peers = Remove(@, o),
                              !.dev.peer_count = IF listed THEN @ - 1 ELSE @], o)

device_remove_all_peers(s) ==
  FoldLeft(peer_teardown, [s EXCEPT !.dev.peers = <<>>, !.dev.peer_count = 0], s.dev.peers)

\* The last of the handles' close callbacks frees the peer.
peer_close_cb(o) ==
  /\ req.from = "idle"
  /\ peer[o] # NULL /\ peer[o].closing > 0
  /\ LET p == [peer[o] EXCEPT !.closing = @ - 1, !.timer_close_count = @ - 1]
     IN  peer' = [peer EXCEPT ![o] = IF p.timer_close_count = 0 THEN NULL ELSE p]
  /\ UNCHANGED <<dev, req, routes, given>>

----------------------------------------------------------------------------
(* What a line does *)

timers_persistent_keepalive_set(p) ==
  IF ~p.timers_active THEN p
  ELSE [p EXCEPT !.timer_persistent_keepalive = p.persistent_keepalive_ms]


\* With cookie_checker_init, which every caller makes it be followed by.
noise_set_static_key(s, priv) ==
  [s EXCEPT !.dev.private_key = priv, !.dev.cookie_checker = priv,
            !.peer = [o \in Object |->
                        IF Contains(s.dev.peers, o)
                        THEN [@[o] EXCEPT !.precomputed_static_static = priv] ELSE @[o]]]

\* Both tables take the prefix, or neither: the result of the insertions is ignored.
apply_allowed_ip(s, o, net) ==
  LET v == net[1]  addr == net[2]  cidr == net[3]
      prefix == <<v, masked(v, addr, cidr), cidr>>
      t == [s EXCEPT !.dev.allowedips = allowedips_insert(@, v, addr, cidr, o),
                     !.peer[o].allowedips = allowedips_insert(@, v, addr, cidr, o)]
  IN  IF cidr > maxbits(v) THEN t
      ELSE [t EXCEPT !.routes = [n \in DOMAIN @ \cup {prefix} |-> IF n = prefix THEN o ELSE @[n]],
                     !.given[o] = @ \cup {prefix}]

\* Mutant: the peer's own table keeps its prefixes.
replace_allowed_ips_device(s, o) ==
  Forget([s EXCEPT !.dev.allowedips = allowedips_remove_peer(@, o)], o)

replace_allowed_ips(s, o) ==
  Forget([s EXCEPT !.dev.allowedips = allowedips_remove_peer(@, o),
                   !.peer[o].allowedips = allowedips_init], o)

\* current_peer = device_find_peer, or a new peer in memory o.
SelectPeer(s, pk, o) ==
  LET found == device_find_peer(s, pk)
  IN  CASE found # NULL             -> [s EXCEPT !.req.current_peer = found]
        [] found = NULL /\ o = NULL -> [s EXCEPT !.req.current_peer = NULL]
        [] OTHER -> [device_add_peer(s, pk, o) EXCEPT !.req.current_peer = o]

----------------------------------------------------------------------------
(* process_set: a set request, line by line *)

SetLine  == req.from = "set"
PeerLine == SetLine /\ req.current_peer # NULL

BeginSet ==
  /\ req.from = "idle"
  /\ req' = [NoRequest EXCEPT !.from = "set"]
  /\ UNCHANGED <<dev, peer, routes, given>>

SetPrivateKey(priv) == SetLine /\ Commit(noise_set_static_key(Context, priv))

SetReplacePeers ==
  /\ SetLine
  /\ WgOrder => req.current_peer = NULL
  /\ req' = [req EXCEPT !.replace_peers = TRUE]
  /\ UNCHANGED <<dev, peer, routes, given>>

\* What the line does before it looks at the key.
EndOfBlock(s) ==
  LET t == IF s.req.replace_peers THEN device_remove_all_peers(s) ELSE s
      u == IF t.req.current_peer # NULL /\ t.req.remove_peer
           THEN device_remove_peer(t, t.req.current_peer) ELSE t
  IN  [u EXCEPT !.req.replace_peers = FALSE, !.req.remove_peer = FALSE]

SetPublicKey(pk) ==
  /\ SetLine
  /\ LET s == EndOfBlock(Context)
     IN  \E o \in Callocs(s) : Commit(SelectPeer(s, pk, o))

\* The key does not parse: current_peer stays, removed or not, and takes the lines
\* that follow.  wg(8) does not send such a line, and not after a removal.
SetBadPublicKey ==
  /\ SetLine
  /\ WgOrder => ~req.remove_peer
  /\ Commit(EndOfBlock(Context))

SetRemove ==
  /\ PeerLine
  /\ req' = [req EXCEPT !.remove_peer = TRUE]
  /\ UNCHANGED <<dev, peer, routes, given>>

SetEndpoint ==
  /\ PeerLine
  /\ peer' = [peer EXCEPT ![req.current_peer].endpoint = TRUE]
  /\ UNCHANGED <<dev, req, routes, given>>

\* Mutant: the timer is left as it is.
SetKeepalive_stored(interval) ==
  /\ PeerLine
  /\ peer' = [peer EXCEPT ![req.current_peer] =
                [@ EXCEPT !.persistent_keepalive_ms = interval, !.stored_by = "set"]]
  /\ UNCHANGED <<dev, req, routes, given>>

SetKeepalive(interval) ==
  /\ PeerLine
  /\ peer' = [peer EXCEPT ![req.current_peer] = timers_persistent_keepalive_set(
                [@ EXCEPT !.persistent_keepalive_ms = interval, !.stored_by = "set"])]
  /\ UNCHANGED <<dev, req, routes, given>>

SetReplaceAllowedIps == PeerLine /\ Commit(replace_allowed_ips(Context, req.current_peer))

SetAllowedIp(net) == PeerLine /\ Commit(apply_allowed_ip(Context, req.current_peer, net))

EndSet ==
  /\ SetLine
  /\ Commit([(IF req.current_peer # NULL /\ req.remove_peer
              THEN device_remove_peer(Context, req.current_peer) ELSE Context)
             EXCEPT !.req = NoRequest])

----------------------------------------------------------------------------
(* A get request, which changes nothing: the reply, when it fits into its buffer *)

\* Whether a node of the trie of the device is a line of peer o.
aip_walk_cb(node, o) == node.peer = o

build_get_response(s) ==
  [private_key |-> s.dev.private_key,
   peers |-> [i \in DOMAIN s.dev.peers |->
     LET o == s.dev.peers[i]
     IN  [public_key |-> s.peer[o].public_key, endpoint |-> s.peer[o].endpoint,
          persistent_keepalive_interval |-> s.peer[o].persistent_keepalive_ms,
          allowed_ip |-> {<<n.ip_version, n.bits, n.cidr>> :
                            n \in {m \in allowedips_walk(s.dev.allowedips) : aip_walk_cb(m, o)}}]]]

----------------------------------------------------------------------------
(* load_wg_config: a configuration file, line by line *)

FileLine(section) == req.from = "file" /\ req.section = section
FilePeerLine == FileLine("PEER") /\ req.current_peer # NULL

\* The label done: without a private key the program ends; otherwise the timers of
\* the peers with an endpoint start, also when a line made the parser give up.
Done(s) ==
  IF ~s.req.ok THEN [s EXCEPT !.req = [NoRequest EXCEPT !.from = "failed"]]
  ELSE [s EXCEPT
          !.req = NoRequest,
          !.peer = [o \in Object |->
                      IF /\ Contains(s.dev.peers, o)
                         /\ @[o].persistent_keepalive_ms /\ @[o].endpoint
                      THEN timers_persistent_keepalive_set(@[o]) ELSE @[o]]]

\* A header of another section leaves current_peer; its lines are skipped.
FileSection(section) ==
  /\ req.from = "file"
  /\ req' = [req EXCEPT !.section = section,
                        !.current_peer = IF section = "NONE" THEN @ ELSE NULL]
  /\ UNCHANGED <<dev, peer, routes, given>>

FilePrivateKey(priv) ==
  /\ FileLine("INTERFACE")
  /\ Commit([noise_set_static_key(Context, priv) EXCEPT !.req.ok = TRUE])

FilePublicKey(pk) ==
  /\ FileLine("PEER")
  /\ \E o \in Callocs(Context) :
       LET s == SelectPeer(Context, pk, o)
       IN  Commit(IF s.req.current_peer = NULL THEN Done(s) ELSE s)

\* A key that does not parse, or a preshared key without a peer.
FileBadKey ==
  /\ FileLine("INTERFACE") \/ FileLine("PEER")
  /\ Commit(Done(Context))

FileEndpoint ==
  /\ FilePeerLine
  /\ peer' = [peer EXCEPT ![req.current_peer].endpoint = TRUE]
  /\ UNCHANGED <<dev, req, routes, given>>

FileAllowedIps(net) == FilePeerLine /\ Commit(apply_allowed_ip(Context, req.current_peer, net))

FileKeepalive ==
  /\ FilePeerLine
  /\ peer' = [peer EXCEPT ![req.current_peer].persistent_keepalive_ms = TRUE,
                          ![req.current_peer].stored_by = "file"]
  /\ UNCHANGED <<dev, req, routes, given>>

EndOfFile == req.from = "file" /\ Commit(Done(Context))

----------------------------------------------------------------------------

\* The timer fires, and is started again while there is an interval.
cb_persistent_keepalive(o) ==
  /\ req.from = "idle"
  /\ peer[o] # NULL /\ peer[o].timer_persistent_keepalive
  /\ peer' = [peer EXCEPT ![o].timer_persistent_keepalive = peer[o].persistent_keepalive_ms]
  /\ UNCHANGED <<dev, req, routes, given>>

\* A message of the peer from a new address sets its endpoint.
LearnEndpoint(o) ==
  /\ req.from = "idle" /\ Contains(dev.peers, o)
  /\ peer' = [peer EXCEPT ![o].endpoint = TRUE]
  /\ UNCHANGED <<dev, req, routes, given>>

Set ==
  \/ BeginSet \/ SetReplacePeers \/ SetBadPublicKey \/ SetRemove \/ SetEndpoint
  \/ SetReplaceAllowedIps \/ EndSet
  \/ \E priv \in Secret : SetPrivateKey(priv)
  \/ \E pk \in PublicKey : SetPublicKey(pk)
  \/ \E interval \in BOOLEAN : SetKeepalive(interval)
  \/ \E net \in Nets : SetAllowedIp(net)

File ==
  \/ FileBadKey \/ FileEndpoint \/ FileKeepalive \/ EndOfFile
  \/ \E section \in {"NONE", "INTERFACE", "PEER"} : FileSection(section)
  \/ \E priv \in Secret : FilePrivateKey(priv)
  \/ \E pk \in PublicKey : FilePublicKey(pk)
  \/ \E net \in Nets : FileAllowedIps(net)

Next ==
  \/ Set
  \/ File
  \/ \E o \in Object : peer_close_cb(o) \/ cb_persistent_keepalive(o) \/ LearnEndpoint(o)

Spec == Init /\ [][Next]_vars

----------------------------------------------------------------------------
(* Properties *)

TypeOK ==
  /\ dev.private_key \in Secret \cup {NULL}
  /\ dev.peers \in Seq(Object)
  /\ dev.peer_count \in Nat
  /\ req \in Request
  /\ \A o \in Object : peer[o] # NULL => [f \in DOMAIN peer[o] \ {"allowedips"} |-> peer[o][f]] \in Peer

Listed == ToSet(dev.peers)

\* The route of every address is the peer of the longest prefix that lines of any file or
\* request gave to a peer that still has it, the last one to be given that prefix; and
\* the allowed_ip lines of a get reply show these prefixes under these peers' keys,
\* whatever nodes earlier insertions, splits and removals left in the trie.
RoutesExact ==
  /\ \A v \in Version : \A addr \in Address(v) :
       allowedips_lookup(dev.allowedips, v, addr) = LongestMatch(routes, v, addr)
  /\ UNION {{<<net, p.public_key>> : net \in p.allowed_ip} :
              p \in ToSet(build_get_response(Context).peers)} =
       {<<net, peer[routes[net]].public_key>> : net \in DOMAIN routes}

\* What a peer may send from: exactly the addresses that the prefixes it was given
\* cover, since it was created or its list was replaced.  handle_transport looks in the
\* peer's own table first, so a prefix that moved to another peer is still accepted.
SourcesExact ==
  \A o \in Listed : \A v \in Version : \A addr \in Address(v) :
    (\/ allowedips_lookup(peer[o].allowedips, v, addr) = o
     \/ allowedips_lookup(dev.allowedips, v, addr) = o)
      <=> \E net \in given[o] : Covers(net, v, addr)


\* Each timer handle of a peer is closed once, the memory stays until the last close
\* callback, and no timer of a removed peer runs.  A peer whose interval a request
\* set has its keepalive timer running exactly while the interval is not 0.
TimersSound ==
  \A o \in Object : peer[o] # NULL =>
    /\ peer[o].closing = (IF o \in Listed THEN 0 ELSE peer[o].timer_close_count)
    /\ peer[o].timer_persistent_keepalive => o \in Listed /\ peer[o].persistent_keepalive_ms
    /\ peer[o].stored_by = "set" /\ o \in Listed /\ peer[o].persistent_keepalive_ms =>
         peer[o].timer_persistent_keepalive
=============================================================================
