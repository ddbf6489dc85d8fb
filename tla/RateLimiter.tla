----------------------------- MODULE RateLimiter -----------------------------
(***************************************************************************)
(* The sliding-window limiter (core/ratelimit.py), in memory or in Redis,  *)
(* behind the resolution of the client's address (core/client_ip.py) that  *)
(* the middleware of main.py uses as its key.  Time is counted in ticks.   *)
(***************************************************************************)
EXTENDS Excerpts

CONSTANTS
    Clients,        \* addresses of clients, none of them trusted
    Proxies,        \* addresses in trusted_proxies
    MaxHits,        \* max_requests
    Window,         \* window_seconds
    Capacities,     \* the values of max_keys to try
    LastTick        \* bound: the clock stops there

Unreadable == "unreadable"      \* a hop that is no address

ASSUME RateLimiterAssumption ==
    /\ Clients \cap Proxies = {} /\ Unreadable \notin Clients \cup Proxies
    /\ MaxHits \in Nat \ {0} /\ Window \in Nat \ {0, 1}
    /\ Capacities \subseteq Nat \ {0} /\ LastTick \in Nat

VARIABLES
    tick,       \* the clock
    hits,       \* the bucket of each key, a sequence of times
    recent,     \* the keys in order of last access
    swept,      \* _last_sweep
    limiter,    \* the configuration: backend, capacity, lag
    granted,    \* history: the times of each client's allowed requests
    dropped     \* history: clients whose bucket left because of max_keys
limiterVars == <<tick, hits, recent, swept, limiter, granted, dropped>>

Addresses == Clients \cup Proxies

LimiterTypeOK ==
    /\ tick \in 0..LastTick /\ swept \in 0..LastTick
    /\ hits \in [Addresses -> Seq(0..LastTick)]
    /\ recent \in Seq(Addresses) /\ Len(recent) <= limiter.capacity
    /\ limiter \in [backend : {"memory", "redis"}, capacity : Capacities, lag : {0, 1}]
    /\ granted \in [Clients -> Seq(0..LastTick)]
    /\ dropped \subseteq Clients

LimiterInit ==
    /\ tick = 0 /\ swept = 0
    /\ hits = [k \in Addresses |-> <<>>] /\ recent = <<>>
    /\ limiter \in [backend : {"memory", "redis"}, capacity : Capacities, lag : {0, 1}]
    /\ granted = [c \in Clients |-> <<>>] /\ dropped = {}

-----------------------------------------------------------------------------
(***************************************************************************)
(* resolve_client_ip: from the right, the first hop that is not a trusted  *)
(* proxy; an unreadable one makes the TCP peer the only known address.     *)
(***************************************************************************)
ClientKey(peer, hops) ==
    LET stops == {i \in DOMAIN hops : hops[i] \notin Proxies}
        last == CHOOSE i \in stops : \A j \in stops : j <= i
    IN IF peer \notin Proxies \/ hops = <<>> THEN peer
       ELSE IF stops = {} THEN hops[1]
       ELSE IF hops[last] = Unreadable THEN peer
       ELSE hops[last]

(* What the client may write in the header before any proxy adds to it, and *)
(* the ways a request reaches the service: direct, behind one proxy, two.  *)
Forged == {<<>>} \cup {<<h>> : h \in Addresses \cup {Unreadable}}
Arrivals(c) ==
    {[peer |-> c, hops |-> h] : h \in Forged}
      \cup {[peer |-> p, hops |-> Append(h, c)] : p \in Proxies, h \in Forged}
      \cup {[peer |-> p, hops |-> h \o <<c, q>>] : p \in Proxies, q \in Proxies, h \in Forged}
KeysOf(c) == {ClientKey(a.peer, a.hops) : a \in Arrivals(c)}

-----------------------------------------------------------------------------
(***************************************************************************)
(* SlidingWindowRateLimiter.                                               *)
(***************************************************************************)
Without(s, k) == Excerpt(s, {i \in DOMAIN s : s[i] # k})

(* The expired hits leave from the left of the deque... *)
Pruned(bucket, cutoff) ==
    LET live == {i \in DOMAIN bucket : bucket[i] > cutoff}
        first == CHOOSE i \in live : \A j \in live : i <= j
    IN IF live = {} THEN <<>> ELSE SubSeq(bucket, first, Len(bucket))

(* ... and every one of them from the sorted set of Redis. *)
Expired(bucket, cutoff) == Excerpt(bucket, {i \in DOMAIN bucket : bucket[i] > cutoff})

(* Mutant: a key is judged by its oldest hit. *)
StaleKeyByFirst(bucket, cutoff) == bucket = <<>> \/ bucket[1] <= cutoff

(* _evict: once per window the keys with no live hit, then the oldest ones *)
(* until max_keys remain.                                                  *)
StaleKey(bucket, cutoff) == bucket = <<>> \/ bucket[Len(bucket)] <= cutoff
Swept(h, order, cutoff) == Excerpt(order, {i \in DOMAIN order : ~StaleKey(h[order[i]], cutoff)})
Kept(order) ==
    SubSeq(order, IF Len(order) > limiter.capacity
                  THEN Len(order) - limiter.capacity + 1 ELSE 1, Len(order))

SetOf(s) == {s[i] : i \in DOMAIN s}
Remember(c, now) ==
    granted' = [granted EXCEPT
        ![c] = IF c \in dropped THEN <<>>
               ELSE Append(Expired(@, tick - Window - 1), now)]

(* allow, in memory: the time is read before the lock is taken. *)
AllowInMemory(c, k, now) ==
    LET cutoff == now - Window
        bucket == Pruned(hits[k], cutoff)
        order == Append(Without(recent, k), k)
        added == [hits EXCEPT ![k] = Append(bucket, now)]
        sweep == now - swept >= Window
        left == IF sweep THEN Swept(added, order, cutoff) ELSE order
    IN IF Len(bucket) >= MaxHits
       THEN /\ hits' = [hits EXCEPT ![k] = bucket]
            /\ recent' = order
            /\ UNCHANGED <<swept, granted, dropped>>
       ELSE /\ recent' = Kept(left)
            /\ hits' = [x \in Addresses |-> IF x \in SetOf(Kept(left)) THEN added[x] ELSE <<>>]
            /\ swept' = IF sweep THEN now ELSE swept
            /\ dropped' = dropped \cup ((SetOf(left) \ SetOf(Kept(left))) \cap Clients)
            /\ Remember(c, now)

(* allow, in Redis: the script is atomic and each key expires by itself. *)
AllowInRedis(c, k, now) ==
    LET bucket == Expired(hits[k], now - Window) IN
    /\ IF Len(bucket) >= MaxHits
       THEN hits' = [hits EXCEPT ![k] = bucket] /\ UNCHANGED granted
       ELSE hits' = [hits EXCEPT ![k] = Append(bucket, now)] /\ Remember(c, now)
    /\ UNCHANGED <<recent, swept, dropped>>

(* The middleware: the request of c, with the clock of its thread or of its *)
(* replica possibly one tick behind.                                       *)
Request(c, k, behind) ==
    /\ behind <= limiter.lag /\ behind <= tick
    /\ IF limiter.backend = "memory" THEN AllowInMemory(c, k, tick - behind)
                                     ELSE AllowInRedis(c, k, tick - behind)
    /\ UNCHANGED <<tick, limiter>>

Tick == tick < LastTick /\ tick' = tick + 1
        /\ UNCHANGED <<hits, recent, swept, limiter, granted, dropped>>

LimiterNext ==
    \/ \E c \in Clients, behind \in {0, 1} : \E k \in KeysOf(c) : Request(c, k, behind)
    \/ Tick

LimiterSpec == LimiterInit /\ [][LimiterNext]_limiterVars

-----------------------------------------------------------------------------
(* No client gets more than max_requests through in any window, whatever it *)
(* writes in its header and whichever proxies it comes through, unless its *)
(* bucket left for lack of room.  In Redis, replicas whose clocks differ by  *)
(* a tick shorten the window by that tick; in memory a late thread can put *)
(* an older hit last, and the sweep then judges the bucket by it, so the   *)
(* exact window is stated for threads that do not overtake each other.     *)
LimiterInv ==
    /\ LimiterTypeOK
    /\ limiter.lag = 0 \/ limiter.backend = "redis" =>
      \A c \in Clients \ dropped : \A s \in 0..LastTick :
        Cardinality({i \in DOMAIN granted[c] :
            granted[c][i] \in (s - Window + limiter.lag + 1)..s}) <= MaxHits
=============================================================================
