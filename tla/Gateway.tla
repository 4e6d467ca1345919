------------------------------ MODULE Gateway ------------------------------
(***************************************************************************)
(* What every POST passes before its handler: the rate limiter of            *)
(* middleware/ (in memory, or in Redis when that answers at the start), the  *)
(* paths a production node blocks, the signature of the bridge's oracle, the *)
(* administrator's token, or on the JSON-RPC port the API key.  Each request *)
(* is a thread of ThreadedHTTPServer, and the limiter in memory has no lock. *)
(***************************************************************************)
EXTENDS Integers, FiniteSets, FiniteSetsExt

CONSTANTS
    Clients,        \* IP addresses
    Conns,          \* request threads
    Limit,          \* config.rate_limit_rpm; 0 switches the limiter off
    Window,         \* window_seconds
    TokenLife,      \* expiration_hours
    MaxClock,       \* bound: time
    MaxPosts,       \* bound: requests
    MaxOutages,     \* bound: outages of Redis
    Profiles        \* configurations: prod, jwt (jwt_enforce_admin), key
                    \* (rpc_api_key_required), secrets (configured), redis

ASSUME GatewayAssumption == {Limit, Window, TokenLife, MaxClock} \subseteq Nat /\ Window > 0

\* Kinds of path: probes, closed in production, the oracle's, public, JSON-RPC, the rest.
Paths == {"exempt", "blocked", "oracle", "public", "rpc", "admin"}

VARIABLES
    profile,        \* the configuration of this node
    limiter,        \* which one create_rate_limiter made
    requests,       \* RateLimiter.requests: client -> time stamps, each with the number of its
                    \* request, since a list may hold a time twice
    counts,         \* Redis: pairs of client and window -> counter
    redisUp, outages,
    call,           \* thread -> its request and step
    issued,         \* tokens by the time they were made
    clock, posts,
    passed,         \* client -> stamps of all requests that were let through
    refused         \* clients answered 429 and how many of theirs had passed in that window

gateVars == <<profile, limiter, requests, counts, redisUp, outages, call, issued, clock, posts, passed, refused>>
limits == <<requests, counts, passed, refused>>

\* What a request shows: nothing, a signature, an API key, the token made at a time.
Credentials == {<<"none", 0>>, <<"signed", 0>>, <<"key", 0>>} \cup ({"token"} \X issued)

Free == [step |-> "free"]

\* The time of the oldest request that is in the limiter.
Oldest == Min({clock} \cup {call[c].at : c \in {x \in Conns : call[x].step \in {"clean", "store", "count", "append"}}})
\* Mutant: a stamp leaves the list a second late.
RecentClosed(s, now) == {r \in s : r[1] >= now - Window}

Recent(s, now) == {r \in s : r[1] > now - Window}

WindowId(t) == t \div Window

-----------------------------------------------------------------------------
(* The limiter *)

\* create_rate_limiter: Redis if it is asked for and answers.
CreateRateLimiter(wanted, up) ==
    CASE Limit = 0 -> "off" [] Limit > 0 /\ wanted /\ up -> "redis" [] OTHER -> "memory"

Post(c, cl, exempt) ==
    /\ call[c] = Free /\ posts < MaxPosts
    /\ posts' = posts + 1
    /\ call' = [call EXCEPT ![c] = [client |-> cl, at |-> clock, since |-> Oldest, list |-> {},
                                    step |-> IF limiter = "off" \/ exempt THEN "checks" ELSE "clean"]]
    /\ UNCHANGED <<profile, limiter, redisUp, outages, issued, clock>> /\ UNCHANGED limits

Goto(c, step) == call' = [call EXCEPT ![c].step = step]
GateRest == <<profile, limiter, redisUp, outages, issued, clock, posts>>

\* allow_request of RateLimiter: the list without the old stamps,
CleanOld(c) ==
    /\ call[c].step = "clean" /\ limiter = "memory"
    /\ call' = [call EXCEPT ![c].list = Recent(requests[call[c].client], call[c].at), ![c].step = "store"]
    /\ UNCHANGED GateRest /\ UNCHANGED limits

\* put in the place of what the client has by now,
StoreCleaned(c) ==
    /\ call[c].step = "store"
    /\ requests' = [requests EXCEPT ![call[c].client] = call[c].list]
    /\ Goto(c, "count")
    /\ UNCHANGED GateRest /\ UNCHANGED <<counts, passed, refused>>

\* counted,
CountRecent(c) ==
    /\ call[c].step = "count"
    /\ Goto(c, IF Cardinality(requests[call[c].client]) < Limit THEN "append" ELSE "refuse")
    /\ UNCHANGED GateRest /\ UNCHANGED limits

Stamp(c) == <<call[c].at, Cardinality(passed[call[c].client])>>
LetThrough(c) == passed' = [passed EXCEPT ![call[c].client] = @ \cup {Stamp(c)}]

\* and longer by this request.
AppendStamp(c) ==
    /\ call[c].step = "append"
    /\ requests' = [requests EXCEPT ![call[c].client] = @ \cup {Stamp(c)}]
    /\ LetThrough(c) /\ Goto(c, "checks")
    /\ UNCHANGED GateRest /\ UNCHANGED <<counts, refused>>

\* allow_request of RedisRateLimiter: INCR is atomic.
IncrBucket(c) ==
    /\ call[c].step = "clean" /\ limiter = "redis" /\ redisUp
    /\ LET key == <<call[c].client, WindowId(call[c].at)>>
       IN /\ counts' = [counts EXCEPT ![key] = @ + 1]
          /\ IF counts[key] + 1 <= Limit THEN LetThrough(c) /\ Goto(c, "checks") ELSE Goto(c, "refuse") /\ UNCHANGED passed
    /\ UNCHANGED GateRest /\ UNCHANGED <<requests, refused>>

\* No answer from Redis: the request passes, uncounted.
RedisFails(c) ==
    /\ call[c].step = "clean" /\ limiter = "redis" /\ ~redisUp
    /\ LetThrough(c) /\ Goto(c, "checks")
    /\ UNCHANGED GateRest /\ UNCHANGED <<requests, counts, refused>>

\* Requests of the client that had passed in the window this one falls into, or the oldest
\* that ran when it came: its list may have replaced this one's.
PassedBefore(c) ==
    Cardinality({r \in passed[call[c].client] :
                    IF limiter = "redis" THEN WindowId(r[1]) = WindowId(call[c].at) ELSE r[1] > call[c].since - Window})

\* Answer 429.
TooMany(c) ==
    /\ call[c].step = "refuse"
    /\ refused' = refused \cup {<<call[c].client, PassedBefore(c)>>}
    /\ call' = [call EXCEPT ![c] = Free]
    /\ UNCHANGED GateRest /\ UNCHANGED <<requests, counts, passed>>

-----------------------------------------------------------------------------
(* The other checks *)

IsProdBlocked(p) == profile.prod /\ p = "blocked"
PublicPostPaths == IF profile.prod THEN {"public"} ELSE {"public", "blocked"}

\* A token of this process that has not expired; tokens are signed with a secret that,
\* unless it is configured, the process draws at its start.
VerifyToken(cred) == cred[1] = "token" /\ cred[2] \in issued /\ clock - cred[2] < TokenLife

RequireJwtAdmin(p, cred) == ~profile.jwt \/ p \in PublicPostPaths \/ VerifyToken(cred)
VerifyBridgeOracle(cred) == profile.secrets /\ cred = <<"signed", 0>>
VerifyKey(cred) == ~profile.key \/ (profile.secrets /\ cred = <<"key", 0>>)

Allowed(p, cred) ==
    CASE p = "rpc" -> VerifyKey(cred)
    []   p = "oracle" -> VerifyBridgeOracle(cred)
    []   OTHER -> ~IsProdBlocked(p) /\ RequireJwtAdmin(p, cred)

\* do_POST on either port: an error, or the handler; then the thread ends.  Path and
\* credentials matter from here on.
Dispatch(c, p, cred) ==
    /\ call[c].step = "checks"
    /\ IF Allowed(p, cred) THEN Goto(c, "handler") ELSE call' = [call EXCEPT ![c] = Free]
    /\ UNCHANGED GateRest /\ UNCHANGED limits

\* The body is no JSON; or the handler is done.
BadJson(c) ==
    /\ call[c].step = "checks"
    /\ call' = [call EXCEPT ![c] = Free]
    /\ UNCHANGED GateRest /\ UNCHANGED limits

Handled(c) ==
    /\ call[c].step = "handler"
    /\ call' = [call EXCEPT ![c] = Free]
    /\ UNCHANGED GateRest /\ UNCHANGED limits

\* GET /auth/token; GETs are not limited, and production blocks this one.  One token is enough to see
\* it expire.
AuthToken ==
    /\ ~profile.prod /\ issued = {}
    /\ issued' = issued \cup {clock}
    /\ UNCHANGED <<profile, limiter, redisUp, outages, call, clock, posts>> /\ UNCHANGED limits

-----------------------------------------------------------------------------
(* Time, Redis, restarts *)

SecondPasses ==
    /\ clock < MaxClock
    /\ clock' = clock + 1
    /\ UNCHANGED <<profile, limiter, redisUp, outages, call, issued, posts>> /\ UNCHANGED limits

RedisChanges ==
    /\ redisUp => outages < MaxOutages
    /\ redisUp' = ~redisUp /\ outages' = IF redisUp THEN outages + 1 ELSE outages
    /\ UNCHANGED <<profile, limiter, call, issued, clock, posts>> /\ UNCHANGED limits

\* configure_rate_limiter at the start: the memory is new, the counters of Redis stay.
GateRestart ==
    /\ limiter' = CreateRateLimiter(profile.redis, redisUp)
    /\ requests' = [cl \in Clients |-> {}] /\ call' = [c \in Conns |-> Free]
    /\ issued' = IF profile.secrets THEN issued ELSE {}
    /\ UNCHANGED <<profile, counts, redisUp, outages, clock, posts, passed, refused>>

GateInit ==
    /\ profile \in Profiles
    /\ redisUp = TRUE /\ outages = 0
    /\ limiter = CreateRateLimiter(profile.redis, redisUp)
    /\ requests = [cl \in Clients |-> {}] /\ passed = requests
    /\ counts = [k \in Clients \X {WindowId(t) : t \in 0..MaxClock} |-> 0]
    /\ call = [c \in Conns |-> Free]
    /\ issued = {} /\ clock = 0 /\ posts = 0 /\ refused = {}

GateNext ==
    \/ \E c \in Conns, cl \in Clients, exempt \in BOOLEAN : Post(c, cl, exempt)
    \/ \E c \in Conns : CleanOld(c) \/ StoreCleaned(c) \/ CountRecent(c) \/ AppendStamp(c) \/ IncrBucket(c) \/ RedisFails(c)
                        \/ TooMany(c) \/ BadJson(c) \/ Handled(c)
    \/ \E c \in Conns, p \in Paths, cred \in Credentials : Dispatch(c, p, cred)
    \/ AuthToken \/ SecondPasses \/ RedisChanges \/ GateRestart

-----------------------------------------------------------------------------
(* Properties *)

\* rate_limit.py, redis_rate_limit.py: nobody is answered 429 whose requests of the window
\* were not the full limit (the window being that of the oldest request it overlaps),
\* though threads overwrite each other's lists, old stamps leave them and Redis comes and goes.
RefusedAfterLimit == \A r \in refused : r[2] >= Limit
=============================================================================
