-------------------------------- MODULE Dns --------------------------------
(* Names in the SOCKS5 proxy: the clients of one server ask for names, share the    *)
(* query of a name that is under way, and share a cache of answers.  Queries are     *)
(* answered by c-ares, or by getaddrinfo on libuv's thread pool when c-ares is not    *)
(* there; both are external.  What a client does with its address is Socks5's.        *)
EXTENDS Naturals, Sequences, FiniteSets, SequencesExt

CONSTANTS
  Client, Domain, Address, NULL,
  Ctx,                     \* numbers: the memory for queries
  SOCKS5_DNS_CACHE_SIZE,
  SOCKS5_DNS_TTL_MS,       \* in ticks
  LocalIp6,                \* TRUE: the tunnel has an IPv6 address
  MaxTime                  \* bound: ticks of the clock

VARIABLES
  srv,      \* socks5_server_t
  ctx,      \* the queries, resolve_req_ctx_t
  client,   \* the clients, socks5_conn_t
  now,      \* uv_now
  latest    \* history: the last IPv4 answer for each name

vars == <<srv, ctx, client, now, latest>>

Entry == [valid |-> FALSE, domain |-> NULL, ip |-> NULL, expires_at_ms |-> 0, last_used_ms |-> 0]

NewClient == [state |-> "AUTH", domain |-> NULL, resolve_req |-> NULL, target_ip |-> NULL]

Init ==
  /\ \E cares \in BOOLEAN :
       srv = [dns_using_cares |-> cares, dns_shutting_down |-> FALSE, stopped |-> FALSE,
              dns_queries |-> <<>>,
              dns_cache |-> [i \in 1 .. SOCKS5_DNS_CACHE_SIZE |-> Entry]]
  /\ ctx = [x \in Ctx |-> NULL]
  /\ client = [c \in Client |-> NewClient]
  /\ now = 0
  /\ latest = [d \in Domain |-> NULL]

Context == [srv |-> srv, ctx |-> ctx, client |-> client, latest |-> latest]

Commit(s) ==
  \E t \in {s} :
    /\ srv' = t.srv
    /\ ctx' = t.ctx
    /\ client' = t.client
    /\ latest' = t.latest

----------------------------------------------------------------------------
(* The cache *)

Expired(e) == e.expires_at_ms <= now

\* Mutant: the search ends at the first slot that is free.
dns_cache_lookup_gap(s, d) ==
  LET cache == s.srv.dns_cache
      found == {i \in DOMAIN cache : /\ cache[i].domain = d
                                     /\ \A j \in 1 .. i : cache[j].valid /\ ~Expired(cache[j])}
  IN  IF found = {} THEN [hit |-> FALSE, ip |-> NULL, s |-> s]
      ELSE [hit |-> TRUE, ip |-> cache[CHOOSE i \in found : TRUE].ip, s |-> s]

\* The first live entry of the name; the expired ones before it are freed on the way.
dns_cache_lookup(s, d) ==
  LET cache == s.srv.dns_cache
      found == {i \in DOMAIN cache : cache[i].valid /\ ~Expired(cache[i]) /\ cache[i].domain = d}
      hit == CHOOSE i \in found : \A j \in found : i <= j
      seen == IF found = {} THEN DOMAIN cache ELSE 1 .. hit
      swept == [i \in DOMAIN cache |->
                  IF i \in seen /\ Expired(cache[i]) THEN Entry ELSE cache[i]]
  IN  IF found = {} THEN [hit |-> FALSE, ip |-> NULL, s |-> [s EXCEPT !.srv.dns_cache = swept]]
      ELSE [hit |-> TRUE, ip |-> cache[hit].ip,
            s |-> [s EXCEPT !.srv.dns_cache = [swept EXCEPT ![hit].last_used_ms = now]]]

\* The first slot that is free, expired or the name's; else the one that was used
\* longest ago.
dns_cache_store(s, d, ip) ==
  LET cache == s.srv.dns_cache
      fit == {i \in DOMAIN cache : ~cache[i].valid \/ Expired(cache[i]) \/ cache[i].domain = d}
      first == CHOOSE i \in fit : \A j \in fit : i <= j
      oldest == CHOOSE i \in DOMAIN cache : \A j \in DOMAIN cache :
                  \/ cache[i].last_used_ms < cache[j].last_used_ms
                  \/ cache[i].last_used_ms = cache[j].last_used_ms /\ i <= j
  IN  [s EXCEPT !.srv.dns_cache[IF fit # {} THEN first ELSE oldest] =
         [valid |-> TRUE, domain |-> d, ip |-> ip,
          expires_at_ms |-> now + SOCKS5_DNS_TTL_MS, last_used_ms |-> now]]

----------------------------------------------------------------------------
(* Queries and those who wait for them *)

dns_query_find(s, d) == {x \in ToSet(s.srv.dns_queries) : s.ctx[x].domain = d}

dns_query_insert(s, x) == [s EXCEPT !.srv.dns_queries = <<x>> \o @]

dns_query_unlink(s, x) == [s EXCEPT !.srv.dns_queries = Remove(@, x)]

dns_query_add_waiter(s, x, c) ==
  [s EXCEPT !.client[c].resolve_req = x, !.ctx[x].waiters = <<c>> \o @]

\* Mutant: the client stays in the list of the query.
dns_query_remove_waiter_only(s, x, c) == [s EXCEPT !.client[c].resolve_req = NULL]

\* A query of getaddrinfo that nobody waits for is cancelled, and stays in the list
\* until its callback comes.
dns_query_remove_waiter(s, x, c) ==
  LET waiters == Remove(s.ctx[x].waiters, c)
  IN  [s EXCEPT !.client[c].resolve_req = NULL, !.ctx[x].waiters = waiters,
                !.ctx[x].cancelled = @ \/ (waiters = <<>> /\ s.ctx[x].backend = 0)]

socks5_conn_close(s, c) ==
  LET t == IF s.client[c].resolve_req = NULL THEN s
           ELSE dns_query_remove_waiter(s, s.client[c].resolve_req, c)
  IN  [t EXCEPT !.client[c] = [NewClient EXCEPT !.state = "CLOSED"]]

\* An answer: a failure, an IPv4 address, or only an IPv6 address.
Failure == [ok |-> FALSE, family |-> 0, ip |-> NULL]

Answers == {Failure} \cup {[ok |-> TRUE, family |-> 4, ip |-> a] : a \in Address}
           \cup {[ok |-> TRUE, family |-> 6, ip |-> NULL]}

\* A refusal is a reply and the end of the connection; an address goes to do_connect,
\* and an IPv4 address to the cache, where it may just come from.
resolve_complete(s, c, d, r) ==
  LET connecting == [s EXCEPT !.client[c].state = "CONNECTING", !.client[c].target_ip = r.ip]
  IN  CASE s.client[c].state = "CLOSED" -> s
        [] s.client[c].state # "CLOSED" /\ (~r.ok \/ (r.family = 6 /\ ~LocalIp6)) ->
             socks5_conn_close(s, c)
        [] s.client[c].state # "CLOSED" /\ r.ok /\ r.family = 6 /\ LocalIp6 -> connecting
        [] OTHER -> dns_cache_store(connecting, d, r.ip)

\* The query leaves the list, the answer goes to the cache, everyone who waits hears of
\* it, and the memory is freed.
dns_query_finish(s, x, r) ==
  LET d == s.ctx[x].domain
      stored == r.ok /\ r.family = 4
      t == dns_query_unlink(s, x)
      u == IF stored THEN [dns_cache_store(t, d, r.ip) EXCEPT !.latest[d] = r.ip] ELSE t
      Tell(v, c) ==
        LET w == [v EXCEPT !.client[c].resolve_req = NULL]
        IN  IF s.srv.dns_shutting_down THEN socks5_conn_close(w, c)
            ELSE resolve_complete(w, c, d, r)
  IN  [FoldLeft(Tell, u, s.ctx[x].waiters) EXCEPT !.ctx[x] = NULL]

\* The query of the name that is under way, or a new one.  c-ares may answer before
\* ares_getaddrinfo returns; without memory, or when uv_getaddrinfo fails, the client
\* is refused.
dns_start_query(s, c, d) ==
  LET joined == dns_query_find(s, d)
      free == {x \in Ctx : s.ctx[x] = NULL}
      x == CHOOSE y \in free : \A z \in free : y <= z
      new == [domain |-> d, waiters |-> <<>>, backend |-> IF s.srv.dns_using_cares THEN 1 ELSE 0,
              cancelled |-> FALSE]
      started == dns_query_insert(dns_query_add_waiter([s EXCEPT !.ctx[x] = new], x, c), x)
  IN  CASE joined # {} -> {dns_query_add_waiter(s, y, c) : y \in joined}
        [] joined = {} /\ free = {} -> {socks5_conn_close(s, c)}
        [] joined = {} /\ free # {} /\ s.srv.dns_using_cares ->
             {started} \cup {dns_query_finish(started, x, r) : r \in Answers}
        [] OTHER -> {started, socks5_conn_close(s, c)}

----------------------------------------------------------------------------
(* Actions *)

\* A client connects; the memory of one that was closed is used again.
on_connection(c) ==
  /\ client[c].state = "CLOSED" /\ ~srv.stopped
  /\ client' = [client EXCEPT ![c] = NewClient]
  /\ UNCHANGED <<srv, ctx, now, latest>>

\* A request for a name.
process_connect_request(c, d) ==
  /\ client[c].state = "AUTH"
  /\ LET s == [Context EXCEPT !.client[c].state = "RESOLVING", !.client[c].domain = d]
         l == dns_cache_lookup(s, d)
     IN  IF l.hit
         THEN Commit(resolve_complete(l.s, c, d, [ok |-> TRUE, family |-> 4, ip |-> l.ip]))
         ELSE \E t \in dns_start_query(l.s, c, d) : Commit(t)
  /\ UNCHANGED now

\* The client goes, or its connection through the tunnel ends.
ClientEnds(c) ==
  /\ client[c].state # "CLOSED"
  /\ Commit(socks5_conn_close(Context, c))
  /\ UNCHANGED now

\* A resolver has the query.
Pending(x) == ctx[x] # NULL /\ (ctx[x].backend = 1 => srv.dns_using_cares)

\* on_resolved and cares_addrinfo_cb.  A query is cancelled only if getaddrinfo has
\* not begun with it, so an answer may come all the same.
Resolved(x) ==
  /\ Pending(x)
  /\ \E r \in Answers : Commit(dns_query_finish(Context, x, r))
  /\ UNCHANGED now

\* Mutant: the queries of c-ares are forgotten with it.
socks5_stop_silent ==
  /\ ~srv.stopped
  /\ srv' = [srv EXCEPT !.stopped = TRUE, !.dns_shutting_down = srv.dns_using_cares,
                        !.dns_using_cares = FALSE]
  /\ UNCHANGED <<ctx, client, now, latest>>

\* socks5_stop: c-ares ends its queries with a failure, and those who wait are closed;
\* a client that is still there and asks for a name is served by getaddrinfo from here on.
socks5_stop ==
  /\ ~srv.stopped
  /\ LET s == [Context EXCEPT !.srv.stopped = TRUE]
         t == [s EXCEPT !.srv.dns_shutting_down = TRUE]
         Cancel(u, x) == dns_query_finish(u, x, Failure)
     IN  IF ~srv.dns_using_cares THEN Commit(s)
         ELSE Commit([FoldLeft(Cancel, t, srv.dns_queries) EXCEPT !.srv.dns_using_cares = FALSE])
  /\ UNCHANGED now

Tick ==
  /\ now < MaxTime
  /\ now' = now + 1
  /\ UNCHANGED <<srv, ctx, client, latest>>

Next ==
  \/ \E c \in Client : on_connection(c) \/ ClientEnds(c)
  \/ \E c \in Client, d \in Domain : process_connect_request(c, d)
  \/ \E x \in Ctx : Resolved(x)
  \/ socks5_stop \/ Tick

\* c-ares gives up after its tries, and getaddrinfo returns: a query is answered.  This
\* is WF_vars(Resolved(x)), since Resolved(x) ends what enables it.
Fairness == \A x \in Ctx : []<>~Pending(x)

Spec == Init /\ [][Next]_vars /\ Fairness

----------------------------------------------------------------------------
(* Properties *)

\* Waiting is mutual: a client that waits for a name is once in the list of a query of
\* that name, which is linked and not freed, and a query knows only clients that wait
\* for it; no two queries are for one name.  Closing clients, answers, joins and the
\* stop of the server change both sides, and a freed query or client is in no list.
WaitersLinked ==
  /\ \A c \in Client :
       /\ client[c].state = "RESOLVING" <=> client[c].resolve_req # NULL
       /\ client[c].resolve_req # NULL =>
            LET x == client[c].resolve_req
            IN  /\ Contains(srv.dns_queries, x) /\ ctx[x] # NULL
                /\ ctx[x].domain = client[c].domain
                /\ Cardinality({i \in DOMAIN ctx[x].waiters : ctx[x].waiters[i] = c}) = 1
  /\ \A x \in Ctx : ctx[x] # NULL =>
       /\ Contains(srv.dns_queries, x)
       /\ \A i \in DOMAIN ctx[x].waiters : client[ctx[x].waiters[i]].resolve_req = x
  /\ \A x, y \in ToSet(srv.dns_queries) : ctx[x].domain = ctx[y].domain => x = y

\* The cache never has two opinions: a name may be in several slots, since the first
\* slot that is free is taken before the name's own, but every live entry has the
\* address of the last answer, and so has the client that is connected to it from there.
CacheIsLatest ==
  \A i \in DOMAIN srv.dns_cache :
    LET e == srv.dns_cache[i]
    IN  e.valid /\ ~Expired(e) => e.ip = latest[e.domain] /\ e.expires_at_ms <= now + SOCKS5_DNS_TTL_MS

\* Whoever asks for a name gets an address or is refused, also when the query it joined
\* was cancelled before, and when the server stops.
Answered == \A c \in Client : client[c].state = "RESOLVING" ~> client[c].state # "RESOLVING"
=============================================================================
