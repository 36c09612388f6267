------------------------------- MODULE Ingress -------------------------------
(***************************************************************************)
(* How a request gets to the handler (auth.rs, portable.rs): its headers   *)
(* are checked and, behind a gateway, the identity token it carries is     *)
(* verified with a key of the gateway.  The keys are cached; a request     *)
(* that needs a key the cache does not have fetches all keys, one request  *)
(* at a time and no sooner than a cooldown after the last fetch.           *)
(*                                                                         *)
(* A request may be dropped wherever it waits, by its deadline or because  *)
(* the client hangs up.  The gateway is external: it publishes and         *)
(* withdraws keys, and answers a fetch late or not at all.                 *)
(*                                                                         *)
(* How many requests there may be at a time is ToolCalls' concern.         *)
(***************************************************************************)
EXTENDS Naturals, Sequences, FiniteSets, SequencesExt

CONSTANTS
    Requests,       \* requests that are under way at a time
    Transports,     \* the ways in: "gateway", "direct", "stdio"
    Kids,           \* ids of the gateway's keys
    FirstKey,       \* the key that is published when the server starts
    Tokens,         \* the identity tokens that requests may carry
    Cooldown,       \* JWKS_REFRESH_COOLDOWN
    Ttl,            \* cache_ttl
    FetchTimeout,   \* request_timeout of the verifier
    Skew,           \* CLOCK_SKEW_SECONDS
    MaxAge,         \* MAXIMUM_IDENTITY_TOKEN_AGE_SECONDS
    MaxLifetime,    \* MAXIMUM_IDENTITY_TOKEN_LIFETIME_SECONDS
    PreviousBearer, \* whether a previous bearer is still accepted
    MaxTime,        \* bound: the clock
    MaxRotations,   \* bound: keys published or withdrawn
    Nobody,         \* no request
    Never           \* no time

\* Settings::from_environment fixes the cache's lifetime at five minutes,
\* ten times the cooldown.
ASSUME IngressAssumption ==
    /\ {Cooldown, Ttl, FetchTimeout, Skew, MaxAge, MaxLifetime, MaxTime, MaxRotations} \subseteq Nat
    /\ 0 < Cooldown /\ Cooldown <= Ttl
    /\ FirstKey \in Kids
    /\ Tokens \subseteq [kid : Kids, signed : BOOLEAN, iat : Nat, exp : Nat]
    /\ PreviousBearer \in BOOLEAN
    /\ Nobody \notin Requests /\ Never \notin Nat

VARIABLES
    transport,  \* the way in the server was started with
    now,        \* the time
    stage,      \* where each request is
    token,      \* the identity token it carries
    cached,     \* CacheState::keys: the cached keys and their end
    attempt,    \* CacheState::last_attempt
    holder,     \* the request that holds the refresh mutex
    queue,      \* the requests that wait for it, in their order
    started,    \* when the fetch under way was started
    fetched,    \* the keys the gateway sent for it
    since,      \* since when a key is published
    gone,       \* when a key was withdrawn
    rotations,  \* changes of the gateway's keys so far
    lastFetch   \* the last fetch that came to its end

cache == <<cached, attempt>>
refresh == <<holder, queue, started, fetched>>
gateway == <<since, gone, rotations>>
ingress == <<transport, now, stage, token, cache, refresh, gateway, lastFetch>>

Times == 0..MaxTime
Published == {k \in Kids : since[k] # Never}
NoKeys == [keys |-> {}, end |-> 0]

-----------------------------------------------------------------------------
(* Headers.                                                                *)
Headers ==
    [host : {"allowed", "other", "missing"}, origin : {"allowed", "other", "missing"},
     bearer : {"current", "previous", "other", "missing"}]

\* GatewayBearers::accepts
Accepts(bearer) == bearer = "current" \/ (bearer = "previous" /\ PreviousBearer)

\* The part that authenticate and require_direct_client have in common.
HeadersAccepted(h) == h.host = "allowed" /\ h.origin # "other" /\ Accepts(h.bearer)

-----------------------------------------------------------------------------
(* Tokens.  signed: by the key of its kid, with the algorithm, issuer,     *)
(* audience, actor and claims that are asked for.                          *)
NoToken == [kid |-> Nobody, signed |-> FALSE, iat |-> 0, exp |-> 0]

\* The time limits of decode and of verify_with_time at time t.
Timely(t, tok) ==
    /\ tok.exp + Skew >= t
    /\ tok.iat + MaxAge + Skew >= t
    /\ tok.iat <= t + Skew
    /\ tok.exp <= t + MaxLifetime + Skew
    /\ tok.exp > tok.iat /\ tok.exp <= tok.iat + MaxLifetime

-----------------------------------------------------------------------------
\* A request that has its answer, or that nobody waits for.
Idle == {"idle", "noKey", "notFound"}

\* Where a request may be: on its way in, let in, and in the handler.
Stages == Idle \cup {"lookup", "waiting", "fetching", "fetched",
                     "admitted", "siteWaiting", "scanning"}

IngressTypeOK ==
    /\ transport \in Transports /\ now \in Times
    /\ stage \in [Requests -> Stages] /\ token \in [Requests -> Tokens \cup {NoToken}]
    /\ cached \in [keys : SUBSET Kids, end : 0..(MaxTime + Ttl)]
    /\ attempt \in Times \cup {Never}
    /\ holder \in Requests \cup {Nobody}
    /\ queue \in Seq(Requests) /\ IsInjective(queue)
    /\ \A r \in Requests : /\ r \in Range(queue) <=> stage[r] = "waiting"
                           /\ r = holder <=> stage[r] \in {"fetching", "fetched"}
    /\ started \in Times /\ fetched \subseteq Kids
    /\ since \in [Kids -> Times \cup {Never}] /\ gone \in [Kids -> Times \cup {Never}]
    /\ rotations \in 0..MaxRotations
    /\ lastFetch \in [good : BOOLEAN, start : Times, end : Times \cup {Never}]

IngressInit ==
    /\ transport \in Transports /\ now = 0
    /\ stage = [r \in Requests |-> "idle"] /\ token = [r \in Requests |-> NoToken]
    /\ cached = NoKeys /\ attempt = Never
    /\ holder = Nobody /\ queue = << >> /\ started = 0 /\ fetched = {}
    /\ since = [k \in Kids |-> IF k = FirstKey THEN 0 ELSE Never]
    /\ gone = [k \in Kids |-> Never] /\ rotations = 0
    /\ lastFetch = [good |-> FALSE, start |-> 0, end |-> Never]

-----------------------------------------------------------------------------
At(r, place) == stage[r] = place
GoTo(r, place) == stage' = [stage EXCEPT ![r] = place]
\* The token is not needed any more.
Decide(r, place) == GoTo(r, place) /\ token' = [token EXCEPT ![r] = NoToken]

\* Over stdio there are no headers; a direct client has no identity.  Behind
\* the gateway a token is looked at that names its algorithm and its key.
Arrive(r) ==
    /\ stage[r] \in Idle
    /\ \E carries \in [ok : {HeadersAccepted(h) : h \in Headers}, identity : BOOLEAN] :
          \/ transport = "stdio" /\ Decide(r, "admitted")
          \/ transport = "direct" /\ Decide(r, IF carries.ok THEN "admitted" ELSE "idle")
          \/ transport = "gateway" /\ ~(carries.ok /\ carries.identity) /\ Decide(r, "idle")
          \/ /\ transport = "gateway" /\ carries.ok /\ carries.identity
             /\ \E tok \in Tokens : token' = [token EXCEPT ![r] = tok]
             /\ GoTo(r, "lookup")
    /\ UNCHANGED <<transport, now, cache, refresh, gateway, lastFetch>>

-----------------------------------------------------------------------------
(* verify_with_time and key.                                               *)

\* Mutant: an expired set of keys is used.
LookupExpired(kid) ==
    CASE kid \in cached.keys -> "Found"
      [] kid \notin cached.keys /\ attempt # Never /\ now < attempt + Cooldown -> "MissInCooldown"
      [] OTHER -> "Refreshable"
\* cached_lookup
CachedLookup(kid) ==
    CASE cached.end > now /\ kid \in cached.keys -> "Found"
      [] ~(cached.end > now /\ kid \in cached.keys) /\ attempt # Never /\ now < attempt + Cooldown
            -> "MissInCooldown"
      [] OTHER -> "Refreshable"

\* The signature and the claims are checked with the key.
Verify(r) == Decide(r, IF token[r].signed /\ Timely(now, token[r]) THEN "admitted" ELSE "idle")

\* What the cache has is used, or the cooldown ends it.
Served(r) ==
    LET found == CachedLookup(token[r].kid)
    IN  \/ found = "Found" /\ Verify(r)
        \/ found = "MissInCooldown" /\ Decide(r, "noKey")

FirstLookup(r) ==
    /\ At(r, "lookup")
    /\ \/ Served(r) /\ UNCHANGED queue
       \/ /\ CachedLookup(token[r].kid) = "Refreshable"
          /\ GoTo(r, "waiting") /\ queue' = Append(queue, r) /\ UNCHANGED token
    /\ UNCHANGED <<transport, now, cache, holder, started, fetched, gateway, lastFetch>>

\* The mutex goes to those who wait in their order.
Turn(r) == At(r, "waiting") /\ holder = Nobody /\ Head(queue) = r

\* The keys are asked for.
StartFetch(r) ==
    GoTo(r, "fetching") /\ holder' = r /\ started' = now /\ fetched' = {} /\ UNCHANGED token

\* Mutant: the cache is not looked at again once the mutex is held.
SecondLookupSkipped(r) ==
    /\ Turn(r) /\ queue' = Tail(queue)
    /\ StartFetch(r)
    /\ UNCHANGED <<transport, now, cache, gateway, lastFetch>>
\* The request that waited looks again before it fetches.
SecondLookup(r) ==
    /\ Turn(r) /\ queue' = Tail(queue)
    /\ \/ Served(r) /\ UNCHANGED <<holder, started, fetched>>
       \/ CachedLookup(token[r].kid) = "Refreshable" /\ StartFetch(r)
    /\ UNCHANGED <<transport, now, cache, gateway, lastFetch>>

\* The gateway sends its keys; they may take a while to arrive.
KeysSent(r) ==
    /\ At(r, "fetching")
    /\ GoTo(r, "fetched") /\ fetched' = Published
    /\ UNCHANGED <<transport, now, token, cache, holder, queue, started, gateway, lastFetch>>

\* The fetch is over: the cooldown starts.
FetchOver(good) ==
    /\ attempt' = now /\ holder' = Nobody /\ started' = 0 /\ fetched' = {}
    /\ lastFetch' = [good |-> good, start |-> started, end |-> now]
    /\ UNCHANGED <<transport, now, queue, gateway>>

\* Mutant: only a set that has the key that was looked for is kept.
StoreIfFound(r) ==
    /\ At(r, "fetched")
    /\ cached' = IF token[r].kid \in fetched THEN [keys |-> fetched, end |-> now + Ttl] ELSE cached
    /\ IF token[r].kid \in fetched THEN Verify(r) ELSE Decide(r, "noKey")
    /\ FetchOver(TRUE)
\* All keys are kept, whether or not the one that was looked for is there.
Store(r) ==
    /\ At(r, "fetched")
    /\ cached' = [keys |-> fetched, end |-> now + Ttl]
    /\ IF token[r].kid \in fetched THEN Verify(r) ELSE Decide(r, "noKey")
    /\ FetchOver(TRUE)

\* The gateway does not answer, or not with keys.
FetchFails(r) ==
    /\ stage[r] \in {"fetching", "fetched"}
    /\ Decide(r, "noKey") /\ UNCHANGED cached
    /\ FetchOver(FALSE)

\* Mutant: the mutex stays with a request that is gone.
AbandonKeepsMutex(r) ==
    /\ stage[r] \in {"lookup", "waiting", "fetching", "fetched"}
    /\ Decide(r, "idle")
    /\ queue' = RemoveFirst(queue, r)
    /\ UNCHANGED <<transport, now, cache, holder, started, fetched, gateway, lastFetch>>
\* The request is dropped while it waits: the mutex is let go, and nothing
\* is noted of a fetch that was under way.
Abandon(r) ==
    /\ stage[r] \in {"lookup", "waiting", "fetching", "fetched"}
    /\ Decide(r, "idle")
    /\ queue' = RemoveFirst(queue, r)
    /\ holder' = IF holder = r THEN Nobody ELSE holder
    /\ started' = IF holder = r THEN 0 ELSE started
    /\ fetched' = IF holder = r THEN {} ELSE fetched
    /\ UNCHANGED <<transport, now, cache, gateway, lastFetch>>

-----------------------------------------------------------------------------
(* The gateway, and time.  A fetch takes no longer than its timeout.       *)
Rotate ==
    /\ rotations < MaxRotations /\ rotations' = rotations + 1
    /\ \E k \in Kids :
          IF k \in Published
          THEN since' = [since EXCEPT ![k] = Never] /\ gone' = [gone EXCEPT ![k] = now]
          ELSE since' = [since EXCEPT ![k] = now] /\ UNCHANGED gone
    /\ UNCHANGED <<transport, now, stage, token, cache, refresh, lastFetch>>

Tick ==
    /\ now < MaxTime /\ now' = now + 1
    /\ holder # Nobody => now < started + FetchTimeout
    /\ UNCHANGED <<transport, stage, token, cache, refresh, gateway, lastFetch>>

Authenticate(r) ==
    FirstLookup(r) \/ SecondLookup(r) \/ KeysSent(r) \/ Store(r) \/ FetchFails(r)

-----------------------------------------------------------------------------
(* Properties.                                                             *)

\* Whoever is let in through the gateway carries a token that was in time
\* when it was let in, however long its key took to fetch, and that is
\* signed with a key the gateway published no longer ago than the cache and
\* one fetch may last: a withdrawn key stops working.
AdmittedIsTrusted ==
    [][\A r \in Requests :
          (transport = "gateway" /\ ~At(r, "admitted") /\ stage'[r] = "admitted") =>
              LET tok == token[r]
              IN  /\ tok.signed /\ Timely(now, tok)
                  /\ \/ tok.kid \in Published
                     \/ gone[tok.kid] # Never /\ now < gone[tok.kid] + Ttl + FetchTimeout]_ingress

\* No fetch is started while another one is under way, or within the
\* cooldown of one that came to its end, whatever key ids requests name and
\* however many of them wait ("neither an unknown kid nor a failing JWKS
\* endpoint may drive one remote fetch per request", auth.rs).
FetchesAreSpaced ==
    [][\A r \in Requests :
          (stage[r] # "fetching" /\ stage'[r] = "fetching") =>
              /\ holder = Nobody
              /\ lastFetch.end # Never => now >= lastFetch.end + Cooldown]_ingress

\* After a fetch that succeeded, a key that was published before the fetch
\* began and still is, is never missing, until a later fetch fails: other
\* requests, with key ids that do not exist, cannot push it out.
KnownKeyIsServed ==
    [][\A r \in Requests :
          (stage[r] # "noKey" /\ stage'[r] = "noKey") =>
              LET k == token[r].kid
              IN  ~(lastFetch'.good /\ since[k] # Never /\ since[k] < lastFetch'.start)]_ingress

-----------------------------------------------------------------------------
(* The inductive invariant behind the properties, in parts.                *)

\* A request that still needs a key carries a token.
TokenInv ==
    \A r \in Requests :
        stage[r] \in {"lookup", "waiting", "fetching", "fetched"} => token[r] \in Tokens

\* The fetch under way is not older than its timeout.  What the gateway sent
\* for it are keys it has withdrawn since the fetch began, if at all, and
\* every key it had published before.
FetchInv ==
    /\ started <= now /\ (holder # Nobody => now <= started + FetchTimeout)
    /\ \A k \in fetched : k \in Published \/ (gone[k] # Never /\ started <= gone[k])
    /\ \A r \in Requests : stage[r] = "fetched" =>
          \A k \in Published : since[k] < started => k \in fetched

\* The cooldown counts from the last fetch.  The cached keys outlive their
\* withdrawal by no more than the cache's life and one fetch, and after a
\* fetch that succeeded they are all there are.
CacheInv ==
    /\ attempt = lastFetch.end /\ (attempt # Never => attempt <= now)
    /\ lastFetch.start <= now /\ cached.end <= now + Ttl
    /\ \A k \in cached.keys :
          k \in Published \/ (gone[k] # Never /\ cached.end <= gone[k] + Ttl + FetchTimeout)
    /\ lastFetch.good =>
          /\ attempt # Never /\ cached.end = attempt + Ttl
          /\ \A k \in Published : since[k] < lastFetch.start => k \in cached.keys

IngressInv == IngressTypeOK /\ TokenInv /\ FetchInv /\ CacheInv
=============================================================================
