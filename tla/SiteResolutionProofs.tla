------------------------ MODULE SiteResolutionProofs ------------------------
(***************************************************************************)
(* Theorems about a request's way to its tool, for every number of         *)
(* requests, keys and sites, every page size and choice of time limits.    *)
(***************************************************************************)
EXTENDS SiteResolution, SequenceTheorems, FiniteSetTheorems, TLAPS

(***************************************************************************)
(* First, what every step of a request's way in keeps.                     *)
(***************************************************************************)
-----------------------------------------------------------------------------
(* Queues of requests, each of them in it once.                            *)

\* A queue has its requests at its positions.
LEMMA QueueShape ==
    ASSUME NEW S, NEW q \in Seq(S)
    PROVE  /\ Len(q) \in Nat /\ DOMAIN q = 1..Len(q)
           /\ \A i \in 1..Len(q) : q[i] \in S
           /\ \A x : x \in Range(q) <=> \E i \in 1..Len(q) : q[i] = x
<1> QED BY LenProperties, ElementOfSeq DEF Range

\* Joining at the end.
LEMMA QueueAppend ==
    ASSUME NEW S, NEW q \in Seq(S), IsInjective(q), NEW r \in S, r \notin Range(q)
    PROVE  /\ Append(q, r) \in Seq(S) /\ IsInjective(Append(q, r))
           /\ \A x : x \in Range(Append(q, r)) <=> x \in Range(q) \/ x = r
<1> DEFINE a == Append(q, r)
<1>1. /\ a \in Seq(S) /\ Len(a) = Len(q) + 1 /\ Len(q) \in Nat
      /\ \A i \in 1..Len(q) : a[i] = q[i]
      /\ a[Len(q) + 1] = r
    BY AppendProperties, LenProperties
<1> HIDE DEF a
<1>2. \A x : x \in Range(a) <=> x \in Range(q) \/ x = r
    BY <1>1, QueueShape
<1>3. IsInjective(a)
    <2> SUFFICES ASSUME NEW i \in 1..Len(a), NEW j \in 1..Len(a), a[i] = a[j]
                 PROVE  i = j
        BY <1>1, QueueShape DEF IsInjective
    <2>1. \A k \in 1..Len(q) : q[k] # r
        BY QueueShape
    <2> QED BY <1>1, <2>1, QueueShape DEF IsInjective
<1> QED BY <1>1, <1>2, <1>3 DEF a

\* The first of the queue leaves it.
LEMMA QueueTail ==
    ASSUME NEW S, NEW q \in Seq(S), IsInjective(q), NEW r, r \in Range(q), Head(q) = r
    PROVE  /\ Tail(q) \in Seq(S) /\ IsInjective(Tail(q))
           /\ \A x : x \in Range(Tail(q)) <=> x \in Range(q) /\ x # r
<1> DEFINE t == Tail(q)
<1>1. q # << >>
    <2>1. PICK i \in 1..Len(q) : q[i] = r
        BY QueueShape
    <2> QED BY <2>1
<1>2. /\ t \in Seq(S) /\ Len(t) = Len(q) - 1 /\ Len(q) \in Nat /\ Len(q) > 0
      /\ \A i \in 1..Len(t) : t[i] = q[i + 1]
      /\ q[1] = r
    <2>1. t \in Seq(S) /\ Len(t) = Len(q) - 1 /\ \A i \in 1..Len(t) : t[i] = q[i + 1]
        BY <1>1, HeadTailProperties
    <2>2. Len(q) \in Nat /\ Len(q) > 0
        BY QueueShape
    <2>3. q[1] = r
        BY <1>1
    <2> QED BY <2>1, <2>2, <2>3
<1> HIDE DEF t
<1>3. IsInjective(t)
    <2>1. DOMAIN t = 1..Len(t) /\ DOMAIN q = 1..Len(q)
        BY <1>2, QueueShape
    <2>2. \A i \in 1..Len(t) : i + 1 \in 1..Len(q) /\ t[i] = q[i + 1]
        BY <1>2
    <2> SUFFICES ASSUME NEW i \in 1..Len(t), NEW j \in 1..Len(t), t[i] = t[j]
                 PROVE  i = j
        BY <2>1 DEF IsInjective
    <2>3. i + 1 = j + 1
        BY <2>1, <2>2 DEF IsInjective
    <2> QED BY <1>2, <2>3
<1>4. ASSUME NEW x PROVE x \in Range(t) <=> x \in Range(q) /\ x # r
    <2>1. ASSUME x \in Range(t) PROVE x \in Range(q) /\ x # r
        <3>1. PICK i \in 1..Len(t) : t[i] = x
            BY <1>2, <2>1, QueueShape
        <3>2. i + 1 \in 1..Len(q) /\ q[i + 1] = x /\ i + 1 # 1
            BY <1>2, <3>1
        <3> QED BY <1>2, <3>2, QueueShape DEF IsInjective
    <2>2. ASSUME x \in Range(q), x # r PROVE x \in Range(t)
        <3>1. PICK i \in 1..Len(q) : q[i] = x
            BY <2>2, QueueShape
        <3>2. i - 1 \in 1..Len(t) /\ t[i - 1] = x
            BY <1>2, <2>2, <3>1
        <3> QED BY <1>2, <3>2, QueueShape
    <2> QED BY <2>1, <2>2
<1> QED BY <1>2, <1>3, <1>4 DEF t

\* A request leaves its place, wherever it is.
LEMMA RemovedAt ==
    ASSUME NEW S, NEW q \in Seq(S), NEW p \in 1..Len(q)
    PROVE  /\ RemoveAt(q, p) \in Seq(S) /\ Len(RemoveAt(q, p)) = Len(q) - 1
           /\ \A i \in 1..(Len(q) - 1) :
                 RemoveAt(q, p)[i] = q[IF i < p THEN i ELSE i + 1]
<1> DEFINE a == SubSeq(q, 1, p - 1)
           b == SubSeq(q, p + 1, Len(q))
<1>1. Len(q) \in Nat
    BY LenProperties
<1>2. /\ a \in Seq(S) /\ Len(a) = p - 1
      /\ \A i \in 1..(p - 1) : a[i] = q[i]
    BY <1>1, SubSeqProperties
<1>3. /\ b \in Seq(S) /\ Len(b) = Len(q) - p
      /\ \A i \in 1..(Len(q) - p) : b[i] = q[p + i]
    BY <1>1, SubSeqProperties
<1> HIDE DEF a, b
<1>4. /\ a \o b \in Seq(S) /\ Len(a \o b) = Len(a) + Len(b)
      /\ \A i \in 1..(Len(a) + Len(b)) : (a \o b)[i] = IF i <= Len(a) THEN a[i] ELSE b[i - Len(a)]
    BY <1>2, <1>3, ConcatProperties
<1>5. RemoveAt(q, p) = a \o b
    BY DEF RemoveAt, a, b
<1>6. ASSUME NEW i \in 1..(Len(q) - 1)
      PROVE  (a \o b)[i] = q[IF i < p THEN i ELSE i + 1]
    <2>1. CASE i < p
        BY <1>1, <1>2, <1>3, <1>4, <2>1
    <2>2. CASE ~(i < p)
        <3>1. i - (p - 1) \in 1..(Len(q) - p) /\ ~(i <= p - 1)
            BY <1>1, <2>2
        <3>2. (a \o b)[i] = b[i - (p - 1)]
            BY <1>1, <1>2, <1>3, <1>4, <3>1
        <3>3. b[i - (p - 1)] = q[p + (i - (p - 1))]
            BY <1>3, <3>1
        <3>4. p + (i - (p - 1)) = i + 1
            OBVIOUS
        <3> QED BY <2>2, <3>2, <3>3, <3>4
    <2> QED BY <2>1, <2>2
<1>7. Len(a \o b) = Len(q) - 1
    BY <1>1, <1>2, <1>3, <1>4
<1> QED BY <1>4, <1>5, <1>6, <1>7

LEMMA QueueRemoveFirst ==
    ASSUME NEW S, NEW q \in Seq(S), IsInjective(q), NEW r
    PROVE  /\ RemoveFirst(q, r) \in Seq(S) /\ IsInjective(RemoveFirst(q, r))
           /\ \A x : x \in Range(RemoveFirst(q, r)) <=> x \in Range(q) /\ x # r
<1>1. /\ Len(q) \in Nat /\ DOMAIN q = 1..Len(q)
      /\ \A x : x \in Range(q) <=> \E i \in 1..Len(q) : q[i] = x
    BY QueueShape
<1>2. CASE ~\E i \in 1..Len(q) : q[i] = r
    <2>1. RemoveFirst(q, r) = q
        BY <1>2 DEF RemoveFirst
    <2> QED BY <1>1, <1>2, <2>1
<1>3. CASE \E i \in 1..Len(q) : q[i] = r
    <2>1. PICK p \in 1..Len(q) : q[p] = r
        BY <1>3
    <2>2. {i \in 1..Len(q) : q[i] = r} = {p}
        BY <1>1, <2>1 DEF IsInjective
    <2>3. Min({p}) = p
        BY <1>1 DEF Min
    <2>4. SelectInSeq(q, LAMBDA v : v = r) = p
        BY <2>2, <2>3 DEF SelectInSeq
    <2> DEFINE s == RemoveAt(q, p)
    <2>5. RemoveFirst(q, r) = s
        BY <1>3, <2>4 DEF RemoveFirst
    <2>6. /\ s \in Seq(S) /\ Len(s) = Len(q) - 1
          /\ \A i \in 1..(Len(q) - 1) : s[i] = q[IF i < p THEN i ELSE i + 1]
        BY RemovedAt
    <2> HIDE DEF s
    <2>7. /\ DOMAIN s = 1..(Len(q) - 1)
          /\ \A x : x \in Range(s) <=> \E i \in 1..(Len(q) - 1) : s[i] = x
        BY <2>6, QueueShape
    <2>8. IsInjective(s)
        <3> SUFFICES ASSUME NEW i \in 1..(Len(q) - 1), NEW j \in 1..(Len(q) - 1), s[i] = s[j]
                     PROVE  i = j
            BY <2>7 DEF IsInjective
        <3> DEFINE k == IF i < p THEN i ELSE i + 1
                   l == IF j < p THEN j ELSE j + 1
        <3>1. k \in 1..Len(q) /\ l \in 1..Len(q)
            BY <1>1
        <3>2. q[k] = q[l]
            BY <2>6
        <3>3. k = l
            BY <1>1, <3>1, <3>2 DEF IsInjective
        <3> QED BY <3>3
    <2>9. ASSUME NEW x PROVE x \in Range(s) <=> x \in Range(q) /\ x # r
        <3>1. ASSUME x \in Range(s) PROVE x \in Range(q) /\ x # r
            <4>1. PICK i \in 1..(Len(q) - 1) : s[i] = x
                BY <2>7, <3>1
            <4> DEFINE k == IF i < p THEN i ELSE i + 1
            <4>2. k \in 1..Len(q) /\ k # p
                BY <1>1
            <4>3. q[k] = x
                BY <2>6, <4>1
            <4> HIDE DEF k
            <4> QED BY <1>1, <2>1, <4>2, <4>3 DEF IsInjective
        <3>2. ASSUME x \in Range(q), x # r PROVE x \in Range(s)
            <4>1. PICK i \in 1..Len(q) : q[i] = x
                BY <1>1, <3>2
            <4>2. i # p
                BY <2>1, <3>2, <4>1
            <4> DEFINE k == IF i < p THEN i ELSE i - 1
            <4>3. k \in 1..(Len(q) - 1) /\ (IF k < p THEN k ELSE k + 1) = i
                BY <1>1, <4>2
            <4> HIDE DEF k
            <4>4. s[k] = x
                BY <2>6, <4>1, <4>3
            <4> QED BY <2>7, <4>3, <4>4
        <3> QED BY <3>1, <3>2
    <2> QED BY <2>5, <2>6, <2>8, <2>9
<1> QED BY <1>2, <1>3

-----------------------------------------------------------------------------
(* The type invariant, in parts.                                           *)
QueueOK ==
    /\ queue \in Seq(Requests) /\ IsInjective(queue)
    /\ \A d \in Requests : d \in Range(queue) <=> stage[d] = "waiting"

HolderOK ==
    /\ holder \in Requests \cup {Nobody}
    /\ \A d \in Requests : d = holder <=> stage[d] \in {"fetching", "fetched"}

RequestsOK == stage \in [Requests -> Stages] /\ token \in [Requests -> Tokens \cup {NoToken}]

KeysOK ==
    /\ cached \in [keys : SUBSET Kids, end : 0..(MaxTime + Ttl)]
    /\ attempt \in Times \cup {Never}
    /\ started \in Times /\ fetched \subseteq Kids
    /\ lastFetch \in [good : BOOLEAN, start : Times, end : Times \cup {Never}]

GatewayOK ==
    /\ transport \in Transports /\ now \in Times
    /\ since \in [Kids -> Times \cup {Never}] /\ gone \in [Kids -> Times \cup {Never}]
    /\ rotations \in 0..MaxRotations

LEMMA TypeParts ==
    IngressTypeOK <=> QueueOK /\ HolderOK /\ RequestsOK /\ KeysOK /\ GatewayOK
<1> QED BY DEF IngressTypeOK, QueueOK, HolderOK, RequestsOK, KeysOK, GatewayOK

LEMMA TypePartsNext ==
    QueueOK' /\ HolderOK' /\ RequestsOK' /\ KeysOK' /\ GatewayOK' => IngressTypeOK'
<1> QED BY DEF IngressTypeOK, QueueOK, HolderOK, RequestsOK, KeysOK, GatewayOK

\* Times are numbers, and so are the limits.
LEMMA TimeFacts ==
    ASSUME IngressTypeOK
    PROVE  /\ now \in Nat /\ started \in Nat /\ cached.end \in Nat
           /\ attempt = Never \/ attempt \in Nat
           /\ lastFetch.start \in Nat /\ (lastFetch.end = Never \/ lastFetch.end \in Nat)
           /\ cached.keys \subseteq Kids
           /\ \A k \in Kids : /\ since[k] = Never \/ since[k] \in Nat
                              /\ gone[k] = Never \/ gone[k] \in Nat
           /\ Cooldown \in Nat /\ Ttl \in Nat /\ FetchTimeout \in Nat /\ MaxTime \in Nat
           /\ 0 < Cooldown /\ Cooldown <= Ttl /\ Never \notin Nat
           /\ \A t \in Times : t \in Nat
<1> QED BY IngressAssumption DEF IngressTypeOK, Times

\* What a lookup's answer says of the cache (cached_lookup).
LEMMA LookupAnswers ==
    ASSUME NEW k
    PROVE  /\ CachedLookup(k) = "Found" => cached.end > now /\ k \in cached.keys
           /\ CachedLookup(k) = "MissInCooldown" =>
                 /\ ~(cached.end > now /\ k \in cached.keys)
                 /\ attempt # Never /\ now < attempt + Cooldown
           /\ CachedLookup(k) = "Refreshable" => ~(attempt # Never /\ now < attempt + Cooldown)
<1> QED BY DEF CachedLookup

LEMMA GoToShape ==
    ASSUME NEW r \in Requests, NEW place \in Stages, RequestsOK, GoTo(r, place)
    PROVE  /\ stage' \in [Requests -> Stages] /\ stage'[r] = place
           /\ \A d \in Requests \ {r} : stage'[d] = stage[d]
<1> QED BY DEF RequestsOK, GoTo

LEMMA DecideShape ==
    ASSUME NEW r \in Requests, NEW place \in Stages, RequestsOK, Decide(r, place)
    PROVE  /\ RequestsOK' /\ stage'[r] = place
           /\ \A d \in Requests \ {r} : stage'[d] = stage[d] /\ token'[d] = token[d]
<1> QED BY GoToShape DEF RequestsOK, Decide

\* Verifying lets a request in or answers it.
LEMMA VerifyShape ==
    ASSUME NEW r \in Requests, RequestsOK, Verify(r)
    PROVE  /\ RequestsOK' /\ stage'[r] \in {"admitted", "idle"}
           /\ stage'[r] = "admitted" => token[r].signed /\ Timely(now, token[r])
           /\ \A d \in Requests \ {r} : stage'[d] = stage[d] /\ token'[d] = token[d]
<1>1. "admitted" \in Stages /\ "idle" \in Stages
    BY DEF Stages, Idle
<1>2. CASE token[r].signed /\ Timely(now, token[r])
    BY <1>1, <1>2, DecideShape DEF Verify
<1>3. CASE ~(token[r].signed /\ Timely(now, token[r]))
    BY <1>1, <1>3, DecideShape DEF Verify
<1> QED BY <1>2, <1>3

\* What the cache decides about a request, and on what grounds.
LEMMA ServedShape ==
    ASSUME NEW r \in Requests, RequestsOK, Served(r)
    PROVE  /\ RequestsOK' /\ stage'[r] \in {"admitted", "idle", "noKey"}
           /\ stage'[r] = "admitted" =>
                 /\ token[r].signed /\ Timely(now, token[r])
                 /\ cached.end > now /\ token[r].kid \in cached.keys
           /\ stage'[r] = "noKey" =>
                 /\ ~(cached.end > now /\ token[r].kid \in cached.keys)
                 /\ attempt # Never /\ now < attempt + Cooldown
           /\ \A d \in Requests \ {r} : stage'[d] = stage[d] /\ token'[d] = token[d]
<1>1. "noKey" \in Stages
    BY DEF Stages, Idle
<1>2. CASE CachedLookup(token[r].kid) = "Found" /\ Verify(r)
    BY <1>2, VerifyShape, LookupAnswers
<1>3. CASE CachedLookup(token[r].kid) = "MissInCooldown" /\ Decide(r, "noKey")
    BY <1>1, <1>3, DecideShape, LookupAnswers
<1> QED BY <1>2, <1>3 DEF Served

-----------------------------------------------------------------------------
(* Every step keeps the invariant.                                         *)
keys == <<cached, attempt, started, fetched, lastFetch>>
world == <<transport, now, since, gone, rotations>>

\* A request that holds no mutex moves, and no key or fetch changes.
LEMMA MoveKeeps ==
    ASSUME NEW r \in Requests, IngressInv, RequestsOK',
           stage[r] \notin {"fetching", "fetched"},
           stage'[r] \notin {"fetching", "fetched"},
           stage'[r] \in {"lookup", "waiting"} => token'[r] \in Tokens,
           \A d \in Requests \ {r} : stage'[d] = stage[d] /\ token'[d] = token[d],
           UNCHANGED <<keys, world, holder>>
    PROVE  HolderOK' /\ KeysOK' /\ GatewayOK' /\ TokenInv' /\ FetchInv' /\ CacheInv'
<1> USE DEF IngressInv, keys, world
<1>1. QueueOK /\ HolderOK /\ RequestsOK /\ KeysOK /\ GatewayOK
    BY TypeParts
<1>2. HolderOK'
    BY <1>1 DEF HolderOK
<1>3. KeysOK' /\ GatewayOK'
    BY <1>1 DEF KeysOK, GatewayOK
<1>4. TokenInv'
    BY DEF TokenInv
<1>5. FetchInv'
    BY DEF FetchInv, Published
<1>6. CacheInv'
    BY DEF CacheInv, Published
<1> QED BY <1>2, <1>3, <1>4, <1>5, <1>6

LEMMA ArriveStep ==
    ASSUME NEW r \in Requests, IngressInv, Arrive(r)
    PROVE  /\ IngressInv' /\ stage[r] \in Idle /\ stage'[r] \in {"idle", "admitted", "lookup"}
           /\ stage'[r] = "admitted" => transport # "gateway"
           /\ \A d \in Requests \ {r} : stage'[d] = stage[d]
<1> USE DEF IngressInv
<1>1. QueueOK /\ HolderOK /\ RequestsOK
    BY TypeParts
<1>2. stage[r] \in Idle /\ UNCHANGED <<transport, now, cache, refresh, gateway, lastFetch>>
    BY DEF Arrive
<1>3. UNCHANGED <<keys, world, holder, queue>>
    BY <1>2 DEF keys, world, cache, refresh, gateway
<1>4. "idle" \in Stages /\ "admitted" \in Stages /\ "lookup" \in Stages
    BY DEF Stages, Idle
<1>5. /\ RequestsOK' /\ stage'[r] \in {"idle", "admitted", "lookup"}
      /\ stage'[r] = "admitted" => transport # "gateway"
      /\ stage'[r] = "lookup" => token'[r] \in Tokens
      /\ \A d \in Requests \ {r} : stage'[d] = stage[d] /\ token'[d] = token[d]
    <2>1. CASE \E place \in {"idle", "admitted"} :
                 Decide(r, place) /\ (place = "admitted" => transport # "gateway")
        BY <1>1, <1>4, <2>1, DecideShape
    <2>2. CASE /\ GoTo(r, "lookup")
               /\ \E tok \in Tokens : token' = [token EXCEPT ![r] = tok]
        BY <1>1, <1>4, <2>2, GoToShape DEF RequestsOK
    <2>3. PICK carries \in [ok : {HeadersAccepted(h) : h \in Headers}, identity : BOOLEAN] :
             \/ transport = "stdio" /\ Decide(r, "admitted")
             \/ transport = "direct" /\ Decide(r, IF carries.ok THEN "admitted" ELSE "idle")
             \/ transport = "gateway" /\ ~(carries.ok /\ carries.identity) /\ Decide(r, "idle")
             \/ /\ transport = "gateway" /\ carries.ok /\ carries.identity
                /\ \E tok \in Tokens : token' = [token EXCEPT ![r] = tok]
                /\ GoTo(r, "lookup")
        BY DEF Arrive
    <2>4. CASE transport = "direct" /\ Decide(r, IF carries.ok THEN "admitted" ELSE "idle")
        <3>1. CASE carries.ok
            BY <2>1, <2>4, <3>1
        <3>2. CASE ~carries.ok
            BY <2>1, <2>4, <3>2
        <3> QED BY <3>1, <3>2
    <2> QED BY <2>1, <2>2, <2>3, <2>4
<1>6. HolderOK' /\ KeysOK' /\ GatewayOK' /\ TokenInv' /\ FetchInv' /\ CacheInv'
    BY <1>2, <1>3, <1>5, MoveKeeps DEF Idle
<1>7. QueueOK'
    BY <1>1, <1>2, <1>3, <1>5 DEF QueueOK, Idle
<1>8. IngressTypeOK'
    BY <1>5, <1>6, <1>7, TypePartsNext
<1> QED BY <1>2, <1>5, <1>6, <1>8

LEMMA FirstLookupStep ==
    ASSUME NEW r \in Requests, IngressInv, FirstLookup(r)
    PROVE  IngressInv'
<1> USE DEF IngressInv
<1>1. QueueOK /\ HolderOK /\ RequestsOK
    BY TypeParts
<1>2. stage[r] = "lookup" /\ UNCHANGED <<keys, world, holder>>
    BY DEF FirstLookup, At, keys, world, cache, gateway
<1>3. token[r] \in Tokens
    BY <1>2 DEF TokenInv
<1>4. CASE Served(r) /\ UNCHANGED queue
    <2>1. /\ RequestsOK' /\ stage'[r] \in {"admitted", "idle", "noKey"}
          /\ \A d \in Requests \ {r} : stage'[d] = stage[d] /\ token'[d] = token[d]
        BY <1>1, <1>4, ServedShape
    <2>2. HolderOK' /\ KeysOK' /\ GatewayOK' /\ TokenInv' /\ FetchInv' /\ CacheInv'
        BY <1>2, <2>1, MoveKeeps
    <2>3. QueueOK'
        BY <1>1, <1>2, <1>4, <2>1 DEF QueueOK
    <2> QED BY <2>1, <2>2, <2>3, TypePartsNext
<1>5. CASE GoTo(r, "waiting") /\ queue' = Append(queue, r) /\ UNCHANGED token
    <2>1. "waiting" \in Stages
        BY DEF Stages
    <2>2. /\ RequestsOK' /\ stage'[r] = "waiting"
          /\ \A d \in Requests \ {r} : stage'[d] = stage[d] /\ token'[d] = token[d]
        BY <1>1, <1>5, <2>1, GoToShape DEF RequestsOK
    <2>3. HolderOK' /\ KeysOK' /\ GatewayOK' /\ TokenInv' /\ FetchInv' /\ CacheInv'
        BY <1>2, <1>3, <1>5, <2>2, MoveKeeps
    <2>4. r \notin Range(queue)
        BY <1>1, <1>2 DEF QueueOK
    <2>5. /\ queue' \in Seq(Requests) /\ IsInjective(queue')
          /\ \A x : x \in Range(queue') <=> x \in Range(queue) \/ x = r
        BY <1>1, <1>5, <2>4, QueueAppend DEF QueueOK
    <2>6. QueueOK'
        BY <1>1, <2>2, <2>5 DEF QueueOK
    <2> QED BY <2>2, <2>3, <2>6, TypePartsNext
<1> QED BY <1>4, <1>5 DEF FirstLookup

\* The first of the queue goes: the queue is in order without it.
LEMMA TurnTaken ==
    ASSUME NEW r \in Requests, QueueOK, Turn(r), queue' = Tail(queue),
           stage'[r] # "waiting", \A d \in Requests \ {r} : stage'[d] = stage[d]
    PROVE  QueueOK'
<1>1. r \in Range(queue) /\ Head(queue) = r
    BY DEF QueueOK, Turn, At
<1>2. /\ queue' \in Seq(Requests) /\ IsInjective(queue')
      /\ \A x : x \in Range(queue') <=> x \in Range(queue) /\ x # r
    BY <1>1, QueueTail DEF QueueOK
<1> QED BY <1>2 DEF QueueOK

LEMMA SecondLookupStep ==
    ASSUME NEW r \in Requests, IngressInv, SecondLookup(r)
    PROVE  IngressInv'
<1> USE DEF IngressInv
<1>1. QueueOK /\ HolderOK /\ RequestsOK /\ KeysOK /\ GatewayOK
    BY TypeParts
<1>2. /\ stage[r] = "waiting" /\ holder = Nobody /\ queue' = Tail(queue) /\ Turn(r)
      /\ UNCHANGED <<world, cached, attempt, lastFetch>>
    BY DEF SecondLookup, Turn, At, world, cache, gateway
<1>3. token[r] \in Tokens
    BY <1>2 DEF TokenInv
<1>4. CASE Served(r) /\ UNCHANGED <<holder, started, fetched>>
    <2>1. /\ RequestsOK' /\ stage'[r] \in {"admitted", "idle", "noKey"}
          /\ \A d \in Requests \ {r} : stage'[d] = stage[d] /\ token'[d] = token[d]
        BY <1>1, <1>4, ServedShape
    <2>2. UNCHANGED <<keys, world, holder>>
        BY <1>2, <1>4 DEF keys
    <2>3. HolderOK' /\ KeysOK' /\ GatewayOK' /\ TokenInv' /\ FetchInv' /\ CacheInv'
        BY <1>2, <2>1, <2>2, MoveKeeps
    <2>4. QueueOK'
        BY <1>1, <1>2, <2>1, TurnTaken
    <2> QED BY <2>1, <2>3, <2>4, TypePartsNext
<1>5. CASE StartFetch(r)
    <2>1. "fetching" \in Stages
        BY DEF Stages
    <2>2. /\ RequestsOK' /\ stage'[r] = "fetching" /\ UNCHANGED token
          /\ \A d \in Requests \ {r} : stage'[d] = stage[d]
          /\ holder' = r /\ started' = now /\ fetched' = {}
        BY <1>1, <1>5, <2>1, GoToShape DEF RequestsOK, StartFetch
    <2>3. QueueOK'
        BY <1>1, <1>2, <2>2, TurnTaken
    <2>4. \A d \in Requests : stage[d] \notin {"fetching", "fetched"}
        BY <1>1, <1>2, IngressAssumption DEF HolderOK
    <2>5. HolderOK'
        BY <2>2, <2>4 DEF HolderOK
    <2>6. KeysOK' /\ GatewayOK'
        BY <1>1, <1>2, <2>2 DEF KeysOK, GatewayOK, world
    <2>7. TokenInv'
        BY <1>3, <2>2 DEF TokenInv
    <2>8. FetchInv'
        <3>1. now \in Nat /\ FetchTimeout \in Nat
            BY TimeFacts
        <3>2. started' <= now' /\ now' <= started' + FetchTimeout
            BY <1>2, <2>2, <3>1 DEF world
        <3>3. \A d \in Requests : stage'[d] # "fetched"
            BY <2>2, <2>4
        <3> QED BY <2>2, <3>2, <3>3 DEF FetchInv
    <2>9. CacheInv'
        BY <1>2 DEF CacheInv, world, Published
    <2> QED BY <2>2, <2>3, <2>5, <2>6, <2>7, <2>8, <2>9, TypePartsNext
<1> QED BY <1>4, <1>5 DEF SecondLookup

\* The keys that are sent are those that are published now.
LEMMA KeysSentStep ==
    ASSUME NEW r \in Requests, IngressInv, KeysSent(r)
    PROVE  IngressInv'
<1> USE DEF IngressInv
<1>1. QueueOK /\ HolderOK /\ RequestsOK /\ KeysOK /\ GatewayOK
    BY TypeParts
<1>2. /\ stage[r] = "fetching" /\ fetched' = Published /\ GoTo(r, "fetched")
      /\ UNCHANGED <<world, cached, attempt, lastFetch, token, holder, queue, started>>
    BY DEF KeysSent, At, world, cache, gateway
<1>3. "fetched" \in Stages
    BY DEF Stages
<1>4. /\ RequestsOK' /\ stage'[r] = "fetched"
      /\ \A d \in Requests \ {r} : stage'[d] = stage[d]
    BY <1>1, <1>2, <1>3, GoToShape DEF RequestsOK
<1>5. QueueOK' /\ HolderOK'
    BY <1>1, <1>2, <1>4 DEF QueueOK, HolderOK
<1>6. KeysOK' /\ GatewayOK'
    BY <1>1, <1>2 DEF KeysOK, GatewayOK, world, Published
<1>7. TokenInv'
    BY <1>2, <1>4 DEF TokenInv
<1>8. FetchInv'
    BY <1>2 DEF FetchInv, Published, world
<1>9. CacheInv'
    BY <1>2 DEF CacheInv, world, Published
<1> QED BY <1>4, <1>5, <1>6, <1>7, <1>8, <1>9, TypePartsNext

\* The holder is done: its mutex is free, and nothing is fetched.
LEMMA FetchOverKeeps ==
    ASSUME NEW r \in Requests, NEW good \in BOOLEAN, IngressInv, RequestsOK',
           stage[r] \in {"fetching", "fetched"}, stage'[r] \in {"admitted", "idle", "noKey"},
           \A d \in Requests \ {r} : stage'[d] = stage[d] /\ token'[d] = token[d],
           FetchOver(good)
    PROVE  QueueOK' /\ HolderOK' /\ GatewayOK' /\ TokenInv' /\ FetchInv'
<1> USE DEF IngressInv
<1>1. QueueOK /\ HolderOK /\ RequestsOK /\ KeysOK /\ GatewayOK
    BY TypeParts
<1>2. /\ holder' = Nobody /\ started' = 0 /\ fetched' = {}
      /\ UNCHANGED <<world, queue>>
    BY DEF FetchOver, world, gateway
<1>3. QueueOK' /\ GatewayOK'
    BY <1>1, <1>2 DEF QueueOK, GatewayOK, world
<1>4. \A d \in Requests \ {r} : stage[d] \notin {"fetching", "fetched"}
    BY <1>1 DEF HolderOK
<1>5. HolderOK'
    BY <1>2, <1>4, IngressAssumption DEF HolderOK
<1>6. TokenInv'
    BY DEF TokenInv
<1>7. FetchInv'
    <2>1. now \in Nat
        BY TimeFacts
    <2> QED BY <1>2, <1>4, <2>1 DEF FetchInv, world
<1> QED BY <1>3, <1>5, <1>6, <1>7

LEMMA StoreStep ==
    ASSUME NEW r \in Requests, IngressInv, Store(r)
    PROVE  IngressInv'
<1> USE DEF IngressInv
<1>1. QueueOK /\ HolderOK /\ RequestsOK /\ KeysOK /\ GatewayOK
    BY TypeParts
<1>2. /\ stage[r] = "fetched" /\ FetchOver(TRUE)
      /\ cached' = [keys |-> fetched, end |-> now + Ttl]
    BY DEF Store, At
<1>3. /\ attempt' = now /\ lastFetch' = [good |-> TRUE, start |-> started, end |-> now]
      /\ started' = 0 /\ fetched' = {} /\ UNCHANGED world
    BY <1>2 DEF FetchOver, world, gateway
<1>4. /\ RequestsOK' /\ stage'[r] \in {"admitted", "idle", "noKey"}
      /\ \A d \in Requests \ {r} : stage'[d] = stage[d] /\ token'[d] = token[d]
    <2>1. "noKey" \in Stages
        BY DEF Stages, Idle
    <2>2. CASE token[r].kid \in fetched
        BY <1>1, <2>2, VerifyShape DEF Store
    <2>3. CASE token[r].kid \notin fetched
        BY <1>1, <2>1, <2>3, DecideShape DEF Store
    <2> QED BY <2>2, <2>3
<1>5. QueueOK' /\ HolderOK' /\ GatewayOK' /\ TokenInv' /\ FetchInv'
    BY <1>2, <1>4, FetchOverKeeps
<1>6. /\ now \in Nat /\ Ttl \in Nat /\ MaxTime \in Nat /\ started \in Nat /\ FetchTimeout \in Nat
      /\ Never \notin Nat
    BY TimeFacts
<1>7. now \in 0..MaxTime /\ now + Ttl \in 0..(MaxTime + Ttl)
    BY <1>1, <1>6 DEF GatewayOK, Times
<1>8. KeysOK'
    <2>1. 0 \in Times
        BY <1>6 DEF Times
    <2>2. cached' \in [keys : SUBSET Kids, end : 0..(MaxTime + Ttl)]
        BY <1>1, <1>2, <1>7 DEF KeysOK
    <2>3. lastFetch' \in [good : BOOLEAN, start : Times, end : Times \cup {Never}]
        BY <1>1, <1>3, <1>7 DEF KeysOK, Times
    <2> QED BY <1>1, <1>3, <2>1, <2>2, <2>3 DEF KeysOK, GatewayOK
<1>9. CacheInv'
    <2>1. holder # Nobody
        BY <1>1, <1>2, IngressAssumption DEF HolderOK
    <2>2. started <= now /\ now <= started + FetchTimeout
        BY <2>1 DEF FetchInv
    <2>3. /\ cached'.keys = fetched /\ cached'.end = now + Ttl
          /\ lastFetch'.good = TRUE /\ lastFetch'.start = started /\ lastFetch'.end = now
        BY <1>2, <1>3
    <2>4. ASSUME NEW k \in fetched
          PROVE  k \in Published \/ (gone[k] # Never /\ now + Ttl <= gone[k] + Ttl + FetchTimeout)
        <3>1. k \in Published \/ (gone[k] # Never /\ started <= gone[k])
            BY DEF FetchInv
        <3>2. k \in Kids /\ (gone[k] = Never \/ gone[k] \in Nat)
            BY <1>1, TimeFacts DEF KeysOK
        <3> QED BY <1>6, <2>2, <3>1, <3>2
    <2>5. \A k \in Published : since[k] < started => k \in fetched
        BY <1>2 DEF FetchInv
    <2>6. Published' = Published /\ now' = now /\ gone' = gone /\ since' = since
        BY <1>3 DEF world, Published
    <2> QED BY <1>3, <1>6, <2>2, <2>3, <2>4, <2>5, <2>6 DEF CacheInv
<1> QED BY <1>4, <1>5, <1>8, <1>9, TypePartsNext

LEMMA FetchFailsStep ==
    ASSUME NEW r \in Requests, IngressInv, FetchFails(r)
    PROVE  IngressInv'
<1> USE DEF IngressInv
<1>1. QueueOK /\ HolderOK /\ RequestsOK /\ KeysOK /\ GatewayOK
    BY TypeParts
<1>2. /\ stage[r] \in {"fetching", "fetched"} /\ FetchOver(FALSE) /\ Decide(r, "noKey")
      /\ UNCHANGED cached
    BY DEF FetchFails
<1>3. /\ attempt' = now /\ lastFetch' = [good |-> FALSE, start |-> started, end |-> now]
      /\ started' = 0 /\ fetched' = {} /\ UNCHANGED world
    BY <1>2 DEF FetchOver, world, gateway
<1>4. "noKey" \in Stages
    BY DEF Stages, Idle
<1>5. /\ RequestsOK' /\ stage'[r] = "noKey"
      /\ \A d \in Requests \ {r} : stage'[d] = stage[d] /\ token'[d] = token[d]
    BY <1>1, <1>2, <1>4, DecideShape
<1>6. QueueOK' /\ HolderOK' /\ GatewayOK' /\ TokenInv' /\ FetchInv'
    BY <1>2, <1>5, FetchOverKeeps
<1>7. now \in Nat /\ started \in Nat /\ Never \notin Nat /\ MaxTime \in Nat
    BY TimeFacts
<1>8. KeysOK'
    <2>1. 0 \in Times
        BY <1>7 DEF Times
    <2> QED BY <1>1, <1>2, <1>3, <2>1 DEF KeysOK, GatewayOK
<1>9. CacheInv'
    <2>1. lastFetch'.good = FALSE /\ lastFetch'.start = started /\ lastFetch'.end = now
        BY <1>3
    <2>2. Published' = Published /\ now' = now /\ gone' = gone
        BY <1>3 DEF world, Published
    <2>3. started <= now
        BY DEF FetchInv
    <2> QED BY <1>2, <1>3, <1>7, <2>1, <2>2, <2>3 DEF CacheInv
<1> QED BY <1>5, <1>6, <1>8, <1>9, TypePartsNext

\* A request that is dropped leaves the queue and the mutex to the others.
LEMMA AbandonStep ==
    ASSUME NEW r \in Requests, IngressInv, Abandon(r)
    PROVE  /\ IngressInv' /\ stage'[r] = "idle"
           /\ \A d \in Requests \ {r} : stage'[d] = stage[d]
<1> USE DEF IngressInv
<1>1. QueueOK /\ HolderOK /\ RequestsOK /\ KeysOK /\ GatewayOK
    BY TypeParts
<1>2. /\ Decide(r, "idle") /\ queue' = RemoveFirst(queue, r)
      /\ holder' = (IF holder = r THEN Nobody ELSE holder)
      /\ started' = (IF holder = r THEN 0 ELSE started)
      /\ fetched' = (IF holder = r THEN {} ELSE fetched)
      /\ UNCHANGED <<world, cached, attempt, lastFetch>>
    BY DEF Abandon, world, cache, gateway
<1>3. "idle" \in Stages
    BY DEF Stages, Idle
<1>4. /\ RequestsOK' /\ stage'[r] = "idle"
      /\ \A d \in Requests \ {r} : stage'[d] = stage[d] /\ token'[d] = token[d]
    BY <1>1, <1>2, <1>3, DecideShape
<1>5. QueueOK'
    <2>1. /\ queue' \in Seq(Requests) /\ IsInjective(queue')
          /\ \A x : x \in Range(queue') <=> x \in Range(queue) /\ x # r
        BY <1>1, <1>2, QueueRemoveFirst DEF QueueOK
    <2> QED BY <1>1, <1>4, <2>1 DEF QueueOK
<1>6. HolderOK'
    BY <1>1, <1>2, <1>4, IngressAssumption DEF HolderOK
<1>7. now \in Nat /\ MaxTime \in Nat
    BY TimeFacts
<1>8. KeysOK' /\ GatewayOK'
    <2>1. 0 \in Times
        BY <1>7 DEF Times
    <2> QED BY <1>1, <1>2, <2>1 DEF KeysOK, GatewayOK, world
<1>9. TokenInv'
    BY <1>4 DEF TokenInv
<1>10. FetchInv'
    <2>1. CASE holder = r
        <3>1. \A d \in Requests : stage'[d] # "fetched"
            BY <1>1, <1>4, <2>1 DEF HolderOK
        <3> QED BY <1>2, <1>7, <2>1, <3>1 DEF FetchInv, world
    <2>2. CASE holder # r
        BY <1>2, <1>4, <2>2 DEF FetchInv, world, Published
    <2> QED BY <2>1, <2>2
<1>11. CacheInv'
    BY <1>2 DEF CacheInv, world, Published
<1> QED BY <1>4, <1>5, <1>6, <1>8, <1>9, <1>10, <1>11, TypePartsNext

\* The gateway publishes or withdraws a key now.
LEMMA RotateStep ==
    ASSUME IngressInv, Rotate
    PROVE  IngressInv'
<1> USE DEF IngressInv
<1>1. QueueOK /\ HolderOK /\ RequestsOK /\ KeysOK /\ GatewayOK
    BY TypeParts
<1>2. /\ rotations < MaxRotations /\ rotations' = rotations + 1
      /\ UNCHANGED <<transport, now, stage, token, keys, holder, queue>>
    BY DEF Rotate, keys, cache, refresh
<1>3. PICK k \in Kids :
          IF k \in Published
          THEN since' = [since EXCEPT ![k] = Never] /\ gone' = [gone EXCEPT ![k] = now]
          ELSE since' = [since EXCEPT ![k] = now] /\ UNCHANGED gone
    BY DEF Rotate
<1>4. QueueOK' /\ HolderOK' /\ RequestsOK' /\ KeysOK' /\ TokenInv'
    BY <1>1, <1>2 DEF QueueOK, HolderOK, RequestsOK, KeysOK, TokenInv, keys
<1>5. GatewayOK'
    BY <1>1, <1>2, <1>3, IngressAssumption DEF GatewayOK
<1>6. /\ now \in Nat /\ started \in Nat /\ cached.end \in Nat /\ Ttl \in Nat
      /\ FetchTimeout \in Nat /\ Never \notin Nat /\ lastFetch.start \in Nat
      /\ cached.keys \subseteq Kids /\ fetched \subseteq Kids
    BY <1>1, TimeFacts DEF KeysOK
<1>7. started <= now /\ lastFetch.start <= now /\ cached.end <= now + Ttl
    BY DEF FetchInv, CacheInv
\* What a rotation does to the keys that a set of them was, or will be, made of.
<1>8. /\ \A j \in Kids : j \in Published /\ j \notin Published' => gone'[j] = now
      /\ \A j \in Kids : j \notin Published =>
            gone'[j] = gone[j] /\ (j \in Published' => since'[j] = now)
      /\ \A j \in Kids : j \in Published /\ j \in Published' =>
            gone'[j] = gone[j] /\ since'[j] = since[j]
    <2>1. CASE k \in Published
        BY <1>1, <1>3, <2>1 DEF Published, GatewayOK
    <2>2. CASE k \notin Published
        BY <1>1, <1>3, <1>6, <2>2 DEF Published, GatewayOK
    <2> QED BY <2>1, <2>2
<1>9. Published \subseteq Kids /\ Published' \subseteq Kids
    BY DEF Published
<1>10. FetchInv'
    <2>1. UNCHANGED <<now, started, fetched, stage, holder>>
        BY <1>2 DEF keys
    <2>2. \A j \in fetched : j \in Published' \/ (gone'[j] # Never /\ started <= gone'[j])
        BY <1>6, <1>7, <1>8 DEF FetchInv
    <2>3. \A r \in Requests : stage[r] = "fetched" =>
             \A j \in Published' : since'[j] < started => j \in fetched
        BY <1>6, <1>7, <1>8, <1>9 DEF FetchInv
    <2> QED BY <2>1, <2>2, <2>3 DEF FetchInv
<1>11. CacheInv'
    <2>1. UNCHANGED <<now, cached, attempt, lastFetch>>
        BY <1>2 DEF keys
    <2>2. \A j \in cached.keys :
             j \in Published' \/ (gone'[j] # Never /\ cached.end <= gone'[j] + Ttl + FetchTimeout)
        BY <1>6, <1>7, <1>8 DEF CacheInv
    <2>3. lastFetch.good =>
             \A j \in Published' : since'[j] < lastFetch.start => j \in cached.keys
        BY <1>6, <1>7, <1>8, <1>9 DEF CacheInv
    <2> QED BY <2>1, <2>2, <2>3 DEF CacheInv
<1> QED BY <1>4, <1>5, <1>10, <1>11, TypePartsNext

\* Time passes, but not past the timeout of a fetch.
LEMMA TickStep ==
    ASSUME IngressInv, Tick
    PROVE  IngressInv'
<1> USE DEF IngressInv
<1>1. QueueOK /\ HolderOK /\ RequestsOK /\ KeysOK /\ GatewayOK
    BY TypeParts
<1>2. /\ now < MaxTime /\ now' = now + 1 /\ (holder # Nobody => now < started + FetchTimeout)
      /\ UNCHANGED <<transport, since, gone, rotations, stage, token, keys, holder, queue>>
    BY DEF Tick, keys, cache, refresh, gateway
<1>3. QueueOK' /\ HolderOK' /\ RequestsOK' /\ KeysOK' /\ TokenInv'
    BY <1>1, <1>2 DEF QueueOK, HolderOK, RequestsOK, KeysOK, TokenInv, keys
<1>4. /\ now \in Nat /\ started \in Nat /\ cached.end \in Nat /\ Ttl \in Nat
      /\ FetchTimeout \in Nat /\ MaxTime \in Nat /\ lastFetch.start \in Nat
      /\ attempt = Never \/ attempt \in Nat
    BY TimeFacts
<1>5. GatewayOK'
    BY <1>1, <1>2, <1>4 DEF GatewayOK, Times
<1>6. FetchInv'
    BY <1>2, <1>4 DEF FetchInv, keys, Published
<1>7. CacheInv'
    BY <1>2, <1>4 DEF CacheInv, keys, Published
<1> QED BY <1>3, <1>5, <1>6, <1>7, TypePartsNext

LEMMA IngressStarts == IngressInit => IngressInv
<1> SUFFICES ASSUME IngressInit PROVE IngressInv
    OBVIOUS
<1>1. 0 \in Times /\ 0 \in 0..MaxRotations /\ 0 \in 0..(MaxTime + Ttl)
    BY IngressAssumption DEF Times
<1>2. "idle" \in Stages
    BY DEF Stages, Idle
<1>3. \A r \in Requests : stage[r] = "idle"
    BY DEF IngressInit
<1>4. QueueOK
    <2>1. << >> \in Seq(Requests) /\ Len(<< >>) = 0
        OBVIOUS
    <2>2. IsInjective(<< >>) /\ \A x : x \notin Range(<< >>)
        BY DEF IsInjective, Range
    <2> QED BY <1>3, <2>1, <2>2 DEF QueueOK, IngressInit
<1>5. HolderOK /\ RequestsOK
    BY <1>2, <1>3, IngressAssumption DEF HolderOK, RequestsOK, IngressInit
<1>6. KeysOK
    <2>1. cached \in [keys : SUBSET Kids, end : 0..(MaxTime + Ttl)]
        BY <1>1 DEF IngressInit, NoKeys
    <2>2. lastFetch \in [good : BOOLEAN, start : Times, end : Times \cup {Never}]
        BY <1>1 DEF IngressInit
    <2> QED BY <1>1, <2>1, <2>2 DEF KeysOK, IngressInit
<1>7. GatewayOK
    BY <1>1 DEF GatewayOK, IngressInit
<1>8. TokenInv /\ FetchInv /\ CacheInv
    <2>1. cached.keys = {} /\ cached.end = 0 /\ lastFetch.good = FALSE /\ lastFetch.start = 0
            /\ lastFetch.end = Never
        BY DEF IngressInit, NoKeys
    <2> QED BY <1>3, <2>1, IngressAssumption DEF TokenInv, FetchInv, CacheInv, IngressInit
<1> QED BY <1>4, <1>5, <1>6, <1>7, <1>8, TypeParts DEF IngressInv

\* What happens to a request once it is let in concerns no key.
Inside == {"lookup", "waiting", "fetching", "fetched"}

LEMMA HandlerKeepsIngress ==
    ASSUME IngressInv, stage' \in [Requests -> Stages],
           \A d \in Requests : stage'[d] = stage[d]
                               \/ (stage[d] \notin Inside /\ stage'[d] \notin Inside),
           UNCHANGED <<transport, now, token, cache, refresh, gateway, lastFetch>>
    PROVE  IngressInv'
<1> USE DEF IngressInv
<1>1. QueueOK /\ HolderOK /\ RequestsOK /\ KeysOK /\ GatewayOK
    BY TypeParts
<1>2. UNCHANGED <<keys, world, token, holder, queue>>
    BY DEF keys, world, cache, refresh, gateway
<1>3. ASSUME NEW d \in Requests
      PROVE  /\ stage'[d] = "lookup" <=> stage[d] = "lookup"
             /\ stage'[d] = "waiting" <=> stage[d] = "waiting"
             /\ stage'[d] = "fetching" <=> stage[d] = "fetching"
             /\ stage'[d] = "fetched" <=> stage[d] = "fetched"
    <2>1. CASE stage'[d] = stage[d]
        BY <2>1
    <2>2. CASE stage[d] \notin Inside /\ stage'[d] \notin Inside
        BY <2>2 DEF Inside
    <2> QED BY <2>1, <2>2
<1>4. QueueOK'
    BY <1>1, <1>2, <1>3 DEF QueueOK
<1>5. HolderOK' /\ RequestsOK'
    BY <1>1, <1>2, <1>3 DEF HolderOK, RequestsOK
<1>6. KeysOK' /\ GatewayOK'
    BY <1>1, <1>2 DEF KeysOK, GatewayOK, keys, world
<1>7. TokenInv'
    BY <1>2, <1>3 DEF TokenInv
<1>8. FetchInv'
    BY <1>2, <1>3 DEF FetchInv, Published, keys, world
<1>9. CacheInv'
    BY <1>2 DEF CacheInv, Published, keys, world
<1> QED BY <1>4, <1>5, <1>6, <1>7, <1>8, <1>9, TypePartsNext

\* Where a step of verification takes its request, and from where.
LEMMA AuthenticateMoves ==
    ASSUME NEW r \in Requests, IngressInv, Authenticate(r)
    PROVE  /\ stage[r] \in Inside
           /\ stage'[r] \in {"waiting", "fetching", "fetched", "admitted", "idle", "noKey"}
           /\ \A d \in Requests \ {r} : stage'[d] = stage[d]
<1>1. RequestsOK
    BY TypeParts DEF IngressInv
<1>2. /\ "waiting" \in Stages /\ "fetching" \in Stages /\ "fetched" \in Stages
      /\ "noKey" \in Stages
    BY DEF Stages, Idle
<1>3. ASSUME NEW place \in {"waiting", "fetching", "fetched"}, GoTo(r, place)
      PROVE  stage'[r] = place /\ \A d \in Requests \ {r} : stage'[d] = stage[d]
    BY <1>1, <1>2, <1>3, GoToShape
<1>4. ASSUME Served(r) \/ Verify(r) \/ Decide(r, "noKey")
      PROVE  /\ stage'[r] \in {"admitted", "idle", "noKey"}
             /\ \A d \in Requests \ {r} : stage'[d] = stage[d]
    <2>1. CASE Served(r)
        BY <1>1, <2>1, ServedShape
    <2>2. CASE Verify(r)
        BY <1>1, <2>2, VerifyShape
    <2>3. CASE Decide(r, "noKey")
        BY <1>1, <1>2, <2>3, DecideShape
    <2> QED BY <1>4, <2>1, <2>2, <2>3
<1>5. stage[r] \in Inside
    BY DEF Authenticate, FirstLookup, SecondLookup, KeysSent, Store, FetchFails, Turn, At, Inside
<1>6. \/ \E place \in {"waiting", "fetching", "fetched"} : GoTo(r, place)
      \/ Served(r) \/ Verify(r) \/ Decide(r, "noKey")
    BY DEF Authenticate, FirstLookup, SecondLookup, StartFetch, KeysSent, Store, FetchFails
<1> QED BY <1>3, <1>4, <1>5, <1>6

LEMMA AuthenticateStep ==
    ASSUME NEW r \in Requests, IngressInv, Authenticate(r)
    PROVE  IngressInv'
<1> QED BY FirstLookupStep, SecondLookupStep, KeysSentStep, StoreStep, FetchFailsStep
        DEF Authenticate

-----------------------------------------------------------------------------
(* The promises of the way in, step by step.                               *)

\* Whoever verification lets in has a token in time, and signed with a key
\* that is published or was withdrawn a short while ago.
LEMMA AdmitStep ==
    ASSUME NEW r \in Requests, IngressInv, Authenticate(r), stage'[r] = "admitted"
    PROVE  LET tok == token[r]
           IN  /\ tok.signed /\ Timely(now, tok)
               /\ \/ tok.kid \in Published
                  \/ gone[tok.kid] # Never /\ now < gone[tok.kid] + Ttl + FetchTimeout
<1> USE DEF IngressInv
<1>1. QueueOK /\ HolderOK /\ RequestsOK /\ KeysOK /\ GatewayOK
    BY TypeParts
<1>2. /\ now \in Nat /\ started \in Nat /\ cached.end \in Nat /\ Ttl \in Nat
      /\ FetchTimeout \in Nat /\ 0 < Ttl /\ Never \notin Nat
      /\ \A k \in Kids : gone[k] = Never \/ gone[k] \in Nat
      /\ cached.keys \subseteq Kids /\ fetched \subseteq Kids
    BY <1>1, TimeFacts DEF KeysOK
<1>3. /\ "waiting" \in Stages /\ "fetching" \in Stages /\ "fetched" \in Stages
      /\ "noKey" \in Stages
    BY DEF Stages, Idle
<1>4. CASE Served(r)
    <2>1. /\ token[r].signed /\ Timely(now, token[r])
          /\ cached.end > now /\ token[r].kid \in cached.keys
        BY <1>1, <1>4, ServedShape
    <2>2. \/ token[r].kid \in Published
          \/ /\ gone[token[r].kid] # Never
             /\ cached.end <= gone[token[r].kid] + Ttl + FetchTimeout
        BY <2>1 DEF CacheInv
    <2>3. \/ token[r].kid \in Published
          \/ gone[token[r].kid] # Never /\ now < gone[token[r].kid] + Ttl + FetchTimeout
        BY <1>2, <2>1, <2>2
    <2> QED BY <2>1, <2>3
<1>5. CASE Store(r)
    <2>1. token[r].kid \in fetched /\ Verify(r) /\ stage[r] = "fetched"
        BY <1>1, <1>3, <1>5, DecideShape DEF Store, At
    <2>2. token[r].signed /\ Timely(now, token[r])
        BY <1>1, <2>1, VerifyShape
    <2>3. holder # Nobody
        BY <1>1, <2>1, IngressAssumption DEF HolderOK
    <2>4. /\ now <= started + FetchTimeout
          /\ \/ token[r].kid \in Published
             \/ gone[token[r].kid] # Never /\ started <= gone[token[r].kid]
        BY <2>1, <2>3 DEF FetchInv
    <2>5. \/ token[r].kid \in Published
          \/ gone[token[r].kid] # Never /\ now < gone[token[r].kid] + Ttl + FetchTimeout
        BY <1>2, <2>1, <2>4
    <2> QED BY <2>2, <2>5
<1>6. Served(r) \/ Store(r)
    <2>1. ASSUME NEW place \in {"waiting", "fetching", "fetched"}, GoTo(r, place) PROVE FALSE
        BY <1>1, <1>3, <2>1, GoToShape
    <2>2. ~Decide(r, "noKey")
        BY <1>1, <1>3, DecideShape
    <2> QED BY <2>1, <2>2 DEF Authenticate, FirstLookup, SecondLookup, StartFetch, KeysSent,
                              FetchFails
<1> QED BY <1>4, <1>5, <1>6

\* A fetch is started with the mutex free and the cooldown over.
LEMMA FetchStep ==
    ASSUME NEW r \in Requests, IngressInv, Authenticate(r),
           stage[r] # "fetching", stage'[r] = "fetching"
    PROVE  holder = Nobody /\ (lastFetch.end # Never => now >= lastFetch.end + Cooldown)
<1> USE DEF IngressInv
<1>1. RequestsOK
    BY TypeParts
<1>2. "waiting" \in Stages /\ "fetched" \in Stages /\ "noKey" \in Stages
    BY DEF Stages, Idle
<1>3. ~Served(r) /\ ~Verify(r) /\ ~Decide(r, "noKey")
    BY <1>1, <1>2, ServedShape, VerifyShape, DecideShape
<1>4. ~GoTo(r, "waiting") /\ ~GoTo(r, "fetched")
    BY <1>1, <1>2, GoToShape
<1>5. SecondLookup(r) /\ CachedLookup(token[r].kid) = "Refreshable"
    BY <1>3, <1>4 DEF Authenticate, FirstLookup, SecondLookup, KeysSent, Store, FetchFails
<1>6. holder = Nobody
    BY <1>5 DEF SecondLookup, Turn
<1>7. ~(attempt # Never /\ now < attempt + Cooldown)
    BY <1>5, LookupAnswers
<1>8. attempt = lastFetch.end
    BY DEF CacheInv
<1>9. now \in Nat /\ Cooldown \in Nat /\ (attempt = Never \/ attempt \in Nat)
    BY TimeFacts
<1> QED BY <1>6, <1>7, <1>8, <1>9

\* A key that the last good fetch must have brought is not reported missing.
LEMMA NoKeyStep ==
    ASSUME NEW r \in Requests, IngressInv, Authenticate(r), stage'[r] = "noKey"
    PROVE  LET k == token[r].kid
           IN  ~(lastFetch'.good /\ since[k] # Never /\ since[k] < lastFetch'.start)
<1> USE DEF IngressInv
<1>1. QueueOK /\ HolderOK /\ RequestsOK /\ KeysOK /\ GatewayOK
    BY TypeParts
<1>2. token[r].kid \in Kids
    <2>1. stage[r] \in Inside
        BY AuthenticateMoves
    <2>2. token[r] \in Tokens
        BY <2>1 DEF TokenInv, Inside
    <2> QED BY <2>2, IngressAssumption
<1> SUFFICES ASSUME lastFetch'.good, token[r].kid \in Published,
                    since[token[r].kid] < lastFetch'.start
             PROVE  FALSE
    BY <1>2 DEF Published
<1>3. "waiting" \in Stages /\ "fetching" \in Stages /\ "fetched" \in Stages
    BY DEF Stages
<1>4. CASE Served(r) /\ UNCHANGED lastFetch
    <2>1. /\ ~(cached.end > now /\ token[r].kid \in cached.keys)
          /\ attempt # Never /\ now < attempt + Cooldown
        BY <1>1, <1>4, ServedShape
    <2>2. token[r].kid \in cached.keys /\ cached.end = attempt + Ttl
        BY <1>4 DEF CacheInv
    <2>3. /\ now \in Nat /\ Cooldown \in Nat /\ Ttl \in Nat /\ Cooldown <= Ttl
          /\ attempt = Never \/ attempt \in Nat
        BY TimeFacts
    <2> QED BY <2>1, <2>2, <2>3
<1>5. CASE Store(r)
    <2>1. stage[r] = "fetched" /\ lastFetch' = [good |-> TRUE, start |-> started, end |-> now]
        BY <1>5 DEF Store, At, FetchOver
    <2>2. token[r].kid \notin fetched
        BY <1>1, <1>5, VerifyShape DEF Store
    <2>3. lastFetch'.start = started
        BY <2>1
    <2> QED BY <2>1, <2>2, <2>3 DEF FetchInv
<1>6. CASE FetchFails(r)
    BY <1>6 DEF FetchFails, FetchOver
<1>7. ~GoTo(r, "waiting") /\ ~GoTo(r, "fetching") /\ ~GoTo(r, "fetched")
    BY <1>1, <1>3, GoToShape
<1> QED BY <1>4, <1>5, <1>6, <1>7
        DEF Authenticate, FirstLookup, SecondLookup, StartFetch, KeysSent

-----------------------------------------------------------------------------
(***************************************************************************)
(* Then the resolution of the site, and the two together.                  *)
(***************************************************************************)
-----------------------------------------------------------------------------
(* The catalog.                                                            *)

\* A catalog is a sequence of different sites; there is no room for more
\* rows than sites.
LEMMA CatalogShape ==
    ASSUME NEW c
    PROVE  c \in Catalogs <=> c \in Seq(Sites) /\ IsInjective(c)
<1>1. IsFiniteSet(Sites) /\ Cardinality(Sites) \in Nat
    BY SiteAssumption, FS_CardinalityType
<1>2. ASSUME c \in Catalogs PROVE c \in Seq(Sites) /\ IsInjective(c)
    <2>1. PICK n \in 0..Cardinality(Sites) : c \in [1..n -> Sites] /\ IsInjective(c)
        BY <1>2 DEF Catalogs
    <2> QED BY <1>1, <2>1, IsASeq
<1>3. ASSUME c \in Seq(Sites), IsInjective(c) PROVE c \in Catalogs
    <2>1. Len(c) \in Nat /\ c \in [1..Len(c) -> Sites]
        BY <1>3, LenProperties, ElementOfSeq
    <2>2. IsFiniteSet(1..Len(c)) /\ Cardinality(1..Len(c)) = Len(c)
        BY <2>1, FS_Interval
    <2>3. Len(c) <= Cardinality(Sites)
        <3> SUFFICES ASSUME Cardinality(Sites) < Len(c) PROVE FALSE
            BY <1>1, <2>1
        <3>1. \E x, y \in 1..Len(c) : x # y /\ c[x] = c[y]
            BY <1>1, <2>1, <2>2, FS_PigeonHole
        <3> QED BY <1>3, <2>1, <3>1 DEF IsInjective
    <2>4. Len(c) \in 0..Cardinality(Sites)
        BY <1>1, <2>1, <2>3
    <2> QED BY <1>3, <2>1, <2>4 DEF Catalogs
<1> QED BY <1>2, <1>3

\* A row more: the others keep their order.
LEMMA InsertedAt ==
    ASSUME NEW S, NEW q \in Seq(S), NEW p \in 1..(Len(q) + 1), NEW x \in S
    PROVE  /\ InsertAt(q, p, x) \in Seq(S) /\ Len(InsertAt(q, p, x)) = Len(q) + 1
           /\ \A i \in 1..(Len(q) + 1) :
                 InsertAt(q, p, x)[i] = IF i < p THEN q[i] ELSE IF i = p THEN x ELSE q[i - 1]
<1> DEFINE a == SubSeq(q, 1, p - 1)
           b == SubSeq(q, p, Len(q))
           ax == a \o <<x>>
<1>1. Len(q) \in Nat
    BY LenProperties
<1>2. /\ a \in Seq(S) /\ Len(a) = p - 1
      /\ \A i \in 1..(p - 1) : a[i] = q[i]
    BY <1>1, SubSeqProperties
<1>3. /\ b \in Seq(S) /\ Len(b) = Len(q) - p + 1
      /\ \A i \in 1..(Len(q) - p + 1) : b[i] = q[p + i - 1]
    BY <1>1, SubSeqProperties
<1>4. InsertAt(q, p, x) = ax \o b
    BY DEF InsertAt
<1> HIDE DEF a, b
<1>5. /\ ax \in Seq(S) /\ Len(ax) = p
      /\ \A i \in 1..(p - 1) : ax[i] = q[i]
      /\ ax[p] = x
    <2>1. <<x>> \in Seq(S) /\ Len(<<x>>) = 1 /\ <<x>>[1] = x
        OBVIOUS
    <2>2. /\ ax \in Seq(S) /\ Len(ax) = Len(a) + 1
          /\ \A i \in 1..(Len(a) + 1) : ax[i] = IF i <= Len(a) THEN a[i] ELSE <<x>>[i - Len(a)]
        BY <1>2, <2>1, ConcatProperties
    <2>3. ax[p] = <<x>>[p - (p - 1)] /\ p - (p - 1) = 1
        BY <1>1, <1>2, <2>2
    <2> QED BY <1>1, <1>2, <2>1, <2>2, <2>3
<1> HIDE DEF ax
<1>6. /\ ax \o b \in Seq(S) /\ Len(ax \o b) = Len(ax) + Len(b)
      /\ \A i \in 1..(Len(ax) + Len(b)) :
            (ax \o b)[i] = IF i <= Len(ax) THEN ax[i] ELSE b[i - Len(ax)]
    BY <1>3, <1>5, ConcatProperties
<1>7. Len(ax \o b) = Len(q) + 1
    BY <1>1, <1>3, <1>5, <1>6
<1>8. ASSUME NEW i \in 1..(Len(q) + 1)
      PROVE  (ax \o b)[i] = IF i < p THEN q[i] ELSE IF i = p THEN x ELSE q[i - 1]
    <2>1. CASE i <= p
        BY <1>1, <1>3, <1>5, <1>6, <2>1
    <2>2. CASE ~(i <= p)
        <3>1. i - p \in 1..(Len(q) - p + 1) /\ p + (i - p) - 1 = i - 1
            BY <1>1, <2>2
        <3>2. (ax \o b)[i] = b[i - p]
            BY <1>1, <1>3, <1>5, <1>6, <2>2
        <3> QED BY <1>3, <2>2, <3>1, <3>2
    <2> QED BY <2>1, <2>2
<1> QED BY <1>4, <1>6, <1>7, <1>8

LEMMA CatalogLosesRow ==
    ASSUME NEW c \in Catalogs, NEW p \in 1..Len(c)
    PROVE  RemoveAt(c, p) \in Catalogs
<1>1. c \in Seq(Sites) /\ IsInjective(c)
    BY CatalogShape
<1>2. Len(c) \in Nat /\ DOMAIN c = 1..Len(c)
    BY <1>1, QueueShape
<1> DEFINE s == RemoveAt(c, p)
<1>3. /\ s \in Seq(Sites) /\ Len(s) = Len(c) - 1
      /\ \A i \in 1..(Len(c) - 1) : s[i] = c[IF i < p THEN i ELSE i + 1]
    BY <1>1, RemovedAt
<1> HIDE DEF s
<1>4. IsInjective(s)
    <2> SUFFICES ASSUME NEW i \in 1..(Len(c) - 1), NEW j \in 1..(Len(c) - 1), s[i] = s[j]
                 PROVE  i = j
        BY <1>3, QueueShape DEF IsInjective
    <2> DEFINE k == IF i < p THEN i ELSE i + 1
               l == IF j < p THEN j ELSE j + 1
    <2>1. k \in 1..Len(c) /\ l \in 1..Len(c)
        BY <1>2
    <2>2. c[k] = c[l]
        BY <1>3
    <2>3. k = l
        BY <1>1, <1>2, <2>1, <2>2 DEF IsInjective
    <2> QED BY <2>3
<1> QED BY <1>3, <1>4, CatalogShape DEF s

LEMMA CatalogGetsRow ==
    ASSUME NEW c \in Catalogs, NEW p \in 1..(Len(c) + 1), NEW x \in Sites \ Range(c)
    PROVE  InsertAt(c, p, x) \in Catalogs
<1>1. c \in Seq(Sites) /\ IsInjective(c)
    BY CatalogShape
<1>2. /\ Len(c) \in Nat /\ DOMAIN c = 1..Len(c)
      /\ \A i \in 1..Len(c) : c[i] # x
    BY <1>1, QueueShape
<1> DEFINE s == InsertAt(c, p, x)
<1>3. /\ s \in Seq(Sites) /\ Len(s) = Len(c) + 1
      /\ \A i \in 1..(Len(c) + 1) :
            s[i] = IF i < p THEN c[i] ELSE IF i = p THEN x ELSE c[i - 1]
    BY <1>1, InsertedAt
<1> HIDE DEF s
<1>4. IsInjective(s)
    <2> SUFFICES ASSUME NEW i \in 1..(Len(c) + 1), NEW j \in 1..(Len(c) + 1), s[i] = s[j]
                 PROVE  i = j
        BY <1>3, QueueShape DEF IsInjective
    <2> DEFINE k == IF i < p THEN i ELSE i - 1
               l == IF j < p THEN j ELSE j - 1
    <2>1. (i # p => k \in 1..Len(c)) /\ (j # p => l \in 1..Len(c))
        BY <1>2
    <2>2. s[i] = (IF i = p THEN x ELSE c[k]) /\ s[j] = (IF j = p THEN x ELSE c[l])
        BY <1>3
    <2>3. (i = p <=> j = p) /\ (i # p => k = l)
        BY <1>1, <1>2, <2>1, <2>2 DEF IsInjective
    <2> QED BY <2>3
<1> QED BY <1>3, <1>4, CatalogShape DEF s

\* A page has rows of the catalog, from the offset on.
LEMMA PageShape ==
    ASSUME catalog \in Catalogs, NEW offset \in Nat, NEW rows \in PagesAt(offset)
    PROVE  /\ rows \in Seq(Sites) /\ Len(rows) \in Nat /\ (rows = << >> <=> Len(rows) = 0)
           /\ Len(rows) = 0 \/ offset + Len(rows) <= Len(catalog)
           /\ \A i \in 1..Len(rows) : rows[i] = catalog[offset + i]
           /\ Len(catalog) \in Nat
<1>1. catalog \in Seq(Sites)
    BY CatalogShape
<1>2. Len(catalog) \in Nat /\ \A i \in 1..Len(catalog) : catalog[i] \in Sites
    BY <1>1, QueueShape
<1>3. PICK n \in {k \in 0..PageLimit : k = 0 \/ offset + k <= Len(catalog)} :
          rows = SubSeq(catalog, offset + 1, offset + n)
    BY DEF PagesAt
<1>4. n \in Nat /\ (n = 0 \/ offset + n <= Len(catalog))
    BY SiteAssumption
<1>5. \A i \in (offset + 1)..(offset + n) : catalog[i] \in Sites
    BY <1>2, <1>4
<1>6. /\ rows \in Seq(Sites)
      /\ Len(rows) = IF offset + 1 <= offset + n THEN (offset + n) - (offset + 1) + 1 ELSE 0
      /\ \A i \in 1..((offset + n) - (offset + 1) + 1) : rows[i] = catalog[offset + 1 + i - 1]
    <2>1. offset + 1 \in Int /\ offset + n \in Int
        BY <1>4
    <2> QED BY <1>3, <1>5, <2>1, SubSeqProperties
<1>7. Len(rows) = n
    BY <1>4, <1>6
<1>8. \A i \in 1..n : rows[i] = catalog[offset + i]
    BY <1>4, <1>6
<1>9. rows = << >> <=> Len(rows) = 0
    BY <1>6
<1> QED BY <1>2, <1>4, <1>6, <1>7, <1>8, <1>9

-----------------------------------------------------------------------------
(* The type invariant, in parts.                                           *)
WaitersOK ==
    /\ waiters \in Seq(Requests) /\ IsInjective(waiters)
    /\ \A d \in Requests : d \in Range(waiters) <=> stage[d] = "siteWaiting"

PermitOK ==
    /\ scanner \in Requests \cup {Nobody}
    /\ \A d \in Requests : d = scanner <=> stage[d] = "scanning"
    /\ cell \in Sites \cup {NoSite} /\ (cell # NoSite => scanner = Nobody)

ScanOK == scan \in [offset : Nat, sole : Sites \cup {NoSite}, intact : BOOLEAN]

CatalogOK == catalog \in Catalogs /\ edits \in 0..MaxEdits

LEMMA SiteParts ==
    TypeOK <=> IngressTypeOK /\ WaitersOK /\ PermitOK /\ ScanOK /\ CatalogOK
<1> QED BY DEF TypeOK, WaitersOK, PermitOK, ScanOK, CatalogOK

LEMMA SitePartsNext ==
    IngressInv' /\ WaitersOK' /\ PermitOK' /\ ScanOK' /\ CatalogOK' /\ ScanInv'
    => ResolutionInv'
<1> QED BY DEF ResolutionInv, IngressInv, TypeOK, WaitersOK, PermitOK, ScanOK, CatalogOK

\* A new scan has passed nothing.
LEMMA NewScanOK ==
    /\ NewScan \in [offset : Nat, sole : Sites \cup {NoSite}, intact : BOOLEAN]
    /\ NewScan.offset = 0 /\ NewScan.sole = NoSite /\ NewScan.intact = TRUE
<1> QED BY DEF NewScan

\* What happens on the way in is nothing to those inside.
LEMMA WayInKeepsSite ==
    ASSUME ResolutionInv, IngressInv', UNCHANGED <<site, controller>>,
           \A d \in Requests :
              \/ stage'[d] = stage[d]
              \/ /\ stage[d] \notin {"siteWaiting", "scanning"}
                 /\ stage'[d] \notin {"siteWaiting", "scanning"}
    PROVE  ResolutionInv'
<1> USE DEF ResolutionInv
<1>1. WaitersOK /\ PermitOK /\ ScanOK /\ CatalogOK
    BY SiteParts
<1>2. UNCHANGED <<cell, scanner, waiters, scan, catalog, edits>>
    BY DEF site, controller
<1>3. WaitersOK'
    BY <1>1, <1>2 DEF WaitersOK
<1>4. PermitOK'
    BY <1>1, <1>2 DEF PermitOK
<1>5. ScanOK' /\ CatalogOK' /\ ScanInv'
    BY <1>1, <1>2 DEF ScanOK, CatalogOK, ScanInv
<1> QED BY <1>3, <1>4, <1>5, SitePartsNext

\* A request that is inside moves there, or is answered.
LEMMA InsideMove ==
    ASSUME NEW r \in Requests, NEW place \in Idle \cup {"siteWaiting", "scanning"},
           IngressInv, stage[r] \in {"admitted", "siteWaiting", "scanning"},
           GoTo(r, place), Outside
    PROVE  /\ IngressInv' /\ stage'[r] = place
           /\ \A d \in Requests \ {r} : stage'[d] = stage[d]
           /\ UNCHANGED <<catalog, edits>>
<1>1. RequestsOK
    BY TypeParts DEF IngressInv
<1>2. place \in Stages /\ place \notin Inside /\ stage[r] \notin Inside
    BY DEF Stages, Idle, Inside
<1>3. /\ stage' \in [Requests -> Stages] /\ stage'[r] = place
      /\ \A d \in Requests \ {r} : stage'[d] = stage[d]
    BY <1>1, <1>2, GoToShape
<1>4. \A d \in Requests : stage'[d] = stage[d]
                          \/ (stage[d] \notin Inside /\ stage'[d] \notin Inside)
    BY <1>2, <1>3
<1>5. UNCHANGED <<transport, now, token, cache, refresh, gateway, lastFetch, catalog, edits>>
    BY DEF Outside, controller
<1> QED BY <1>3, <1>4, <1>5, HandlerKeepsIngress

LEMMA CallStep ==
    ASSUME NEW r \in Requests, ResolutionInv, Call(r)
    PROVE  ResolutionInv'
<1> USE DEF ResolutionInv
<1>1. WaitersOK /\ PermitOK /\ ScanOK /\ CatalogOK
    BY SiteParts
<1>2. stage[r] = "admitted" /\ UNCHANGED <<cell, scanner, scan>> /\ Outside
    BY DEF Call, At
<1>3. CASE GoTo(r, "idle") /\ UNCHANGED waiters
    <2>1. /\ IngressInv' /\ stage'[r] = "idle" /\ UNCHANGED <<catalog, edits>>
          /\ \A d \in Requests \ {r} : stage'[d] = stage[d]
        BY <1>2, <1>3, InsideMove DEF Idle
    <2>2. WaitersOK' /\ PermitOK' /\ ScanOK' /\ CatalogOK' /\ ScanInv'
        BY <1>1, <1>2, <1>3, <2>1 DEF WaitersOK, PermitOK, ScanOK, CatalogOK, ScanInv
    <2> QED BY <2>1, <2>2, SitePartsNext
<1>4. CASE GoTo(r, "siteWaiting") /\ waiters' = Append(waiters, r)
    <2>1. /\ IngressInv' /\ stage'[r] = "siteWaiting" /\ UNCHANGED <<catalog, edits>>
          /\ \A d \in Requests \ {r} : stage'[d] = stage[d]
        BY <1>2, <1>4, InsideMove
    <2>2. r \notin Range(waiters)
        BY <1>1, <1>2 DEF WaitersOK
    <2>3. /\ waiters' \in Seq(Requests) /\ IsInjective(waiters')
          /\ \A x : x \in Range(waiters') <=> x \in Range(waiters) \/ x = r
        BY <1>1, <1>4, <2>2, QueueAppend DEF WaitersOK
    <2>4. WaitersOK'
        BY <1>1, <2>1, <2>3 DEF WaitersOK
    <2>5. PermitOK' /\ ScanOK' /\ CatalogOK' /\ ScanInv'
        BY <1>1, <1>2, <2>1 DEF PermitOK, ScanOK, CatalogOK, ScanInv
    <2> QED BY <2>1, <2>4, <2>5, SitePartsNext
<1> QED BY <1>3, <1>4 DEF Call

LEMMA TakePermitStep ==
    ASSUME NEW r \in Requests, ResolutionInv, TakePermit(r)
    PROVE  ResolutionInv'
<1> USE DEF ResolutionInv
<1>1. WaitersOK /\ PermitOK /\ ScanOK /\ CatalogOK
    BY SiteParts
<1>2. /\ stage[r] = "siteWaiting" /\ cell = NoSite /\ scanner = Nobody /\ Head(waiters) = r
      /\ GoTo(r, "scanning") /\ scanner' = r /\ waiters' = Tail(waiters) /\ scan' = NewScan
      /\ UNCHANGED cell /\ Outside
    BY DEF TakePermit, At
<1>3. /\ IngressInv' /\ stage'[r] = "scanning" /\ UNCHANGED <<catalog, edits>>
      /\ \A d \in Requests \ {r} : stage'[d] = stage[d]
    BY <1>2, InsideMove
<1>4. r \in Range(waiters)
    BY <1>1, <1>2 DEF WaitersOK
<1>5. /\ waiters' \in Seq(Requests) /\ IsInjective(waiters')
      /\ \A x : x \in Range(waiters') <=> x \in Range(waiters) /\ x # r
    BY <1>1, <1>2, <1>4, QueueTail DEF WaitersOK
<1>6. WaitersOK'
    BY <1>1, <1>3, <1>5 DEF WaitersOK
<1>7. PermitOK'
    BY <1>1, <1>2, <1>3, IngressAssumption DEF PermitOK
<1>8. ScanOK' /\ CatalogOK' /\ ScanInv'
    BY <1>1, <1>2, <1>3, NewScanOK DEF ScanOK, CatalogOK, ScanInv
<1> QED BY <1>3, <1>6, <1>7, <1>8, SitePartsNext

\* A waiter leaves; the others keep their order.
LEMMA WaiterLeaves ==
    ASSUME NEW r \in Requests, WaitersOK, waiters' = RemoveFirst(waiters, r),
           stage'[r] # "siteWaiting", \A d \in Requests \ {r} : stage'[d] = stage[d]
    PROVE  WaitersOK'
<1>1. /\ waiters' \in Seq(Requests) /\ IsInjective(waiters')
      /\ \A x : x \in Range(waiters') <=> x \in Range(waiters) /\ x # r
    BY QueueRemoveFirst DEF WaitersOK
<1> QED BY <1>1 DEF WaitersOK

LEMMA TakeSiteStep ==
    ASSUME NEW r \in Requests, ResolutionInv, TakeSite(r)
    PROVE  ResolutionInv'
<1> USE DEF ResolutionInv
<1>1. WaitersOK /\ PermitOK /\ ScanOK /\ CatalogOK
    BY SiteParts
<1>2. /\ stage[r] = "siteWaiting" /\ GoTo(r, "idle") /\ waiters' = RemoveFirst(waiters, r)
      /\ UNCHANGED <<cell, scanner, scan>> /\ Outside
    BY DEF TakeSite, At
<1>3. /\ IngressInv' /\ stage'[r] = "idle" /\ UNCHANGED <<catalog, edits>>
      /\ \A d \in Requests \ {r} : stage'[d] = stage[d]
    BY <1>2, InsideMove DEF Idle
<1>4. WaitersOK'
    BY <1>1, <1>2, <1>3, WaiterLeaves
<1>5. PermitOK' /\ ScanOK' /\ CatalogOK' /\ ScanInv'
    BY <1>1, <1>2, <1>3 DEF PermitOK, ScanOK, CatalogOK, ScanInv
<1> QED BY <1>3, <1>4, <1>5, SitePartsNext

\* The scan is over: its permit is free.
LEMMA OverStep ==
    ASSUME NEW r \in Requests, NEW end \in Idle, ResolutionInv, stage[r] = "scanning",
           Over(r, end), cell' \in Sites \cup {NoSite}, UNCHANGED waiters, Outside
    PROVE  /\ ResolutionInv' /\ stage'[r] = end
           /\ \A d \in Requests \ {r} : stage'[d] = stage[d]
<1> USE DEF ResolutionInv
<1>1. WaitersOK /\ PermitOK /\ ScanOK /\ CatalogOK
    BY SiteParts
<1>2. GoTo(r, end) /\ scanner' = Nobody /\ scan' = NewScan
    BY DEF Over
<1>3. /\ IngressInv' /\ stage'[r] = end /\ UNCHANGED <<catalog, edits>>
      /\ \A d \in Requests \ {r} : stage'[d] = stage[d]
    BY <1>2, InsideMove
<1>4. end \notin {"siteWaiting", "scanning"}
    BY DEF Idle
<1>5. WaitersOK'
    BY <1>1, <1>3, <1>4 DEF WaitersOK
<1>6. PermitOK'
    BY <1>1, <1>2, <1>3, <1>4, IngressAssumption DEF PermitOK
<1>7. ScanOK' /\ CatalogOK' /\ ScanInv'
    BY <1>1, <1>2, <1>3, NewScanOK DEF ScanOK, CatalogOK, ScanInv
<1> QED BY <1>3, <1>5, <1>6, <1>7, SitePartsNext

\* What a step may do to the site and to an answer.
Right ==
    /\ cell' # cell => /\ cell = NoSite
                       /\ cell' = Configured => Configured \in Range(catalog)
                       /\ cell' # Configured => catalog = <<cell'>>
    /\ \A r \in Requests :
          stage[r] = "scanning" /\ stage'[r] = "notFound" /\ scan.intact
          => Configured \notin Range(catalog) /\ Len(catalog) # 1

\* A page: whatever its length, the scan knows what it has passed.
LEMMA ReadPageStep ==
    ASSUME NEW r \in Requests, ResolutionInv, ReadPage(r)
    PROVE  ResolutionInv' /\ Right
<1> USE DEF ResolutionInv
<1>1. WaitersOK /\ PermitOK /\ ScanOK /\ CatalogOK
    BY SiteParts
<1>2. stage[r] = "scanning" /\ UNCHANGED waiters /\ Outside
    BY DEF ReadPage, At
<1>3. scanner = r /\ scanner # Nobody /\ cell = NoSite
    BY <1>1, <1>2, IngressAssumption DEF PermitOK
<1>4. scan.offset \in Nat /\ scan.sole = NoSite
    BY <1>1 DEF ScanOK, ScanInv
<1> DEFINE next(rows) == scan.offset + Len(rows)
           over(rows) == rows = << >> \/ next(rows) >= Len(catalog)
           here(rows) == Configured \in Range(rows)
           sole(rows) == Sole(scan.offset, rows)
<1>5. PICK rows \in PagesAt(scan.offset) :
          \/ here(rows) /\ Found(r, Configured)
          \/ ~here(rows) /\ over(rows) /\ sole(rows) # NoSite /\ Found(r, sole(rows))
          \/ ~here(rows) /\ over(rows) /\ sole(rows) = NoSite /\ Ends(r, NoneFound(next(rows)))
          \/ ~here(rows) /\ ~over(rows) /\ next(rows) >= ScanCeiling /\ Ends(r, "idle")
          \/ /\ ~here(rows) /\ ~over(rows) /\ next(rows) < ScanCeiling
             /\ scan' = [scan EXCEPT !.offset = next(rows), !.sole = sole(rows)]
             /\ UNCHANGED <<stage, cell, scanner>>
    BY DEF ReadPage
<1>6. /\ rows \in Seq(Sites) /\ Len(rows) \in Nat /\ (rows = << >> <=> Len(rows) = 0)
      /\ Len(rows) = 0 \/ scan.offset + Len(rows) <= Len(catalog)
      /\ \A i \in 1..Len(rows) : rows[i] = catalog[scan.offset + i]
      /\ Len(catalog) \in Nat
    BY <1>1, <1>4, PageShape DEF CatalogOK
<1>7. /\ catalog \in Seq(Sites)
      /\ \A x : x \in Range(catalog) <=> \E i \in 1..Len(catalog) : catalog[i] = x
      /\ \A x : x \in Range(rows) <=> \E i \in 1..Len(rows) : rows[i] = x
      /\ \A i \in 1..Len(rows) : rows[i] \in Sites
    BY <1>1, <1>6, CatalogShape, QueueShape DEF CatalogOK
<1>8. sole(rows) # NoSite => catalog = <<sole(rows)>> /\ sole(rows) \in Sites
    <2> SUFFICES ASSUME sole(rows) # NoSite PROVE catalog = <<sole(rows)>> /\ sole(rows) \in Sites
        OBVIOUS
    <2>1. scan.offset = 0 /\ Len(catalog) = 1 /\ Len(rows) = 1 /\ sole(rows) = rows[1]
        BY <1>4 DEF Sole
    <2>2. rows[1] = catalog[1]
        BY <1>6, <2>1
    <2> QED BY <1>7, <2>1, <2>2
<1>9. "idle" \in Idle /\ NoneFound(next(rows)) \in Idle
    BY DEF Idle, NoneFound
<1>10. CASE here(rows) /\ Found(r, Configured)
    <2>1. Over(r, "idle") /\ cell' = Configured
        BY <1>10 DEF Found
    <2>2. /\ ResolutionInv' /\ stage'[r] = "idle"
          /\ \A d \in Requests \ {r} : stage'[d] = stage[d]
        BY <1>2, <1>9, <2>1, SiteAssumption, OverStep
    <2>3. Configured \in Range(catalog)
        <3>1. PICK i \in 1..Len(rows) : rows[i] = Configured
            BY <1>7, <1>10
        <3>2. scan.offset + i \in 1..Len(catalog) /\ catalog[scan.offset + i] = Configured
            BY <1>4, <1>6, <3>1
        <3> QED BY <1>7, <3>2
    <2> QED BY <1>3, <2>1, <2>2, <2>3 DEF Right
<1>11. CASE ~here(rows) /\ over(rows) /\ sole(rows) # NoSite /\ Found(r, sole(rows))
    <2>1. Over(r, "idle") /\ cell' = sole(rows)
        BY <1>11 DEF Found
    <2>2. catalog = <<cell'>> /\ cell' \in Sites
        BY <1>8, <1>11, <2>1
    <2>3. /\ ResolutionInv' /\ stage'[r] = "idle"
          /\ \A d \in Requests \ {r} : stage'[d] = stage[d]
        BY <1>2, <1>9, <2>1, <2>2, OverStep
    <2>4. cell' \in Range(catalog)
        BY <1>7, <2>2
    <2> QED BY <1>3, <2>2, <2>3, <2>4 DEF Right
<1>12. CASE ~here(rows) /\ over(rows) /\ sole(rows) = NoSite /\ Ends(r, NoneFound(next(rows)))
    <2>1. Over(r, NoneFound(next(rows))) /\ cell' = cell
        BY <1>12 DEF Ends
    <2>2. /\ ResolutionInv' /\ stage'[r] = NoneFound(next(rows))
          /\ \A d \in Requests \ {r} : stage'[d] = stage[d]
        BY <1>2, <1>3, <1>9, <2>1, OverStep
    <2>3. ASSUME stage'[r] = "notFound", scan.intact
          PROVE  Configured \notin Range(catalog) /\ Len(catalog) # 1
        <3>1. next(rows) >= Len(catalog)
            BY <2>2, <2>3 DEF NoneFound
        <3>2. /\ scan.offset = 0 \/ scan.offset < Len(catalog)
              /\ \A i \in 1..scan.offset : catalog[i] # Configured
            BY <1>3, <2>3 DEF ScanInv
        <3>3. \A i \in 1..Len(rows) : catalog[scan.offset + i] # Configured
            BY <1>6, <1>7, <1>12
        <3>4. ASSUME NEW i \in 1..Len(catalog), catalog[i] = Configured PROVE FALSE
            <4>1. ~(i <= scan.offset)
                BY <1>4, <3>2, <3>4
            <4>2. i - scan.offset \in 1..Len(rows) /\ scan.offset + (i - scan.offset) = i
                BY <1>4, <1>6, <3>1, <4>1
            <4> QED BY <3>3, <3>4, <4>2
        <3>5. Len(catalog) # 1
            <4> SUFFICES ASSUME Len(catalog) = 1 PROVE FALSE
                OBVIOUS
            <4>1. scan.offset = 0 /\ Len(rows) = 1
                <5>1. scan.offset = 0
                    BY <1>4, <3>2
                <5>2. Len(rows) >= 1
                    BY <1>6, <3>1, <5>1
                <5>3. scan.offset + Len(rows) <= 1
                    BY <1>6, <5>2
                <5>4. Len(rows) \in Nat
                    BY <1>6
                <5>5. \A m, n \in Nat : m = 0 /\ n >= 1 /\ m + n <= 1 => n = 1
                    OBVIOUS
                <5> HIDE DEF next, over, here, sole
                <5> QED BY <1>4, <5>1, <5>2, <5>3, <5>4, <5>5
            <4>2. sole(rows) = rows[1]
                BY <4>1 DEF Sole
            <4> QED BY <1>7, <1>12, <4>1, <4>2, SiteAssumption
        <3> QED BY <1>7, <3>4, <3>5
    <2>4. \A d \in Requests \ {r} : stage[d] = "scanning" => stage'[d] # "notFound"
        BY <2>2
    <2> QED BY <2>1, <2>2, <2>3, <2>4 DEF Right
<1>13. CASE Ends(r, "idle")
    <2>1. Over(r, "idle") /\ cell' = cell
        BY <1>13 DEF Ends
    <2>2. /\ ResolutionInv' /\ stage'[r] = "idle"
          /\ \A d \in Requests \ {r} : stage'[d] = stage[d]
        BY <1>2, <1>3, <1>9, <2>1, OverStep
    <2> QED BY <2>1, <2>2 DEF Right
<1>14. CASE /\ ~here(rows) /\ ~over(rows) /\ next(rows) < ScanCeiling
            /\ scan' = [scan EXCEPT !.offset = next(rows), !.sole = sole(rows)]
            /\ UNCHANGED <<stage, cell, scanner>>
    <2>1. UNCHANGED <<transport, now, token, cache, refresh, gateway, lastFetch, catalog, edits>>
        BY <1>2 DEF Outside, controller
    <2>2. IngressInv'
        <3>1. stage' \in [Requests -> Stages]
            BY <1>14 DEF IngressInv, IngressTypeOK
        <3> QED BY <1>14, <2>1, <3>1, HandlerKeepsIngress
    <2>3. sole(rows) = NoSite
        <3> SUFFICES ASSUME sole(rows) # NoSite PROVE FALSE
            OBVIOUS
        <3>1. scan.offset = 0 /\ Len(catalog) = 1 /\ Len(rows) = 1
            BY <1>4 DEF Sole
        <3> QED BY <1>14, <3>1
    <2>4. /\ scan'.offset = next(rows) /\ scan'.sole = NoSite /\ scan'.intact = scan.intact
          /\ scan' \in [offset : Nat, sole : Sites \cup {NoSite}, intact : BOOLEAN]
        <3>1. /\ scan' = [scan EXCEPT !.offset = next(rows), !.sole = NoSite]
              /\ next(rows) \in Nat
            BY <1>4, <1>6, <1>14, <2>3
        <3> HIDE DEF next
        <3> QED BY <1>1, <3>1 DEF ScanOK
    <2>5. WaitersOK' /\ PermitOK' /\ CatalogOK' /\ ScanOK'
        BY <1>1, <1>2, <1>14, <2>1, <2>4 DEF WaitersOK, PermitOK, CatalogOK, ScanOK
    <2>6. ScanInv'
        <3>1. next(rows) < Len(catalog) /\ next(rows) \in Nat
            BY <1>4, <1>6, <1>14
        <3>2. ASSUME scan.intact, NEW i \in 1..next(rows) PROVE catalog[i] # Configured
            <4>1. CASE i <= scan.offset
                BY <1>3, <1>4, <3>2, <4>1 DEF ScanInv
            <4>2. CASE ~(i <= scan.offset)
                <5>1. i - scan.offset \in 1..Len(rows) /\ scan.offset + (i - scan.offset) = i
                    BY <1>4, <1>6, <4>2
                <5>2. rows[i - scan.offset] = catalog[i]
                    BY <1>6, <5>1
                <5> QED BY <1>7, <1>14, <5>1, <5>2
            <4> QED BY <4>1, <4>2
        <3> QED BY <2>1, <2>4, <3>1, <3>2 DEF ScanInv
    <2> QED BY <1>14, <2>2, <2>5, <2>6, SitePartsNext DEF Right
<1> QED BY <1>5, <1>10, <1>11, <1>12, <1>13, <1>14

\* A step that changes neither the site nor ends a scan.
LEMMA RightByDefault ==
    ASSUME UNCHANGED cell,
           \A d \in Requests : stage[d] = "scanning" => stage'[d] # "notFound"
    PROVE  Right
<1> QED BY DEF Right

LEMMA PageFailsStep ==
    ASSUME NEW r \in Requests, ResolutionInv, PageFails(r)
    PROVE  ResolutionInv' /\ Right
<1>1. /\ stage[r] = "scanning" /\ Over(r, "idle") /\ cell' = cell /\ UNCHANGED waiters
      /\ Outside
    BY DEF PageFails, Ends, At
<1>2. cell' \in Sites \cup {NoSite}
    BY <1>1 DEF ResolutionInv, TypeOK
<1>3. /\ ResolutionInv' /\ stage'[r] = "idle"
      /\ \A d \in Requests \ {r} : stage'[d] = stage[d]
    BY <1>1, <1>2, OverStep DEF Idle
<1> QED BY <1>1, <1>3, RightByDefault

LEMMA DropCallStep ==
    ASSUME NEW r \in Requests, ResolutionInv, DropCall(r)
    PROVE  ResolutionInv' /\ Right
<1> USE DEF ResolutionInv
<1>1. WaitersOK /\ PermitOK /\ ScanOK /\ CatalogOK
    BY SiteParts
<1>2. /\ stage[r] \in {"siteWaiting", "scanning"} /\ GoTo(r, "idle")
      /\ waiters' = RemoveFirst(waiters, r)
      /\ scanner' = (IF scanner = r THEN Nobody ELSE scanner)
      /\ scan' = (IF scanner = r THEN NewScan ELSE scan)
      /\ UNCHANGED cell /\ Outside
    BY DEF DropCall
<1>3. /\ IngressInv' /\ stage'[r] = "idle" /\ UNCHANGED <<catalog, edits>>
      /\ \A d \in Requests \ {r} : stage'[d] = stage[d]
    BY <1>2, InsideMove DEF Idle
<1>4. WaitersOK'
    BY <1>1, <1>2, <1>3, WaiterLeaves
<1>5. PermitOK'
    BY <1>1, <1>2, <1>3, IngressAssumption DEF PermitOK
<1>6. ScanOK' /\ CatalogOK'
    BY <1>1, <1>2, <1>3, NewScanOK DEF ScanOK, CatalogOK
<1>7. ScanInv'
    <2>1. CASE scanner = r
        BY <1>2, <2>1, NewScanOK DEF ScanInv
    <2>2. CASE scanner # r
        BY <1>2, <1>3, <2>2 DEF ScanInv
    <2> QED BY <2>1, <2>2
<1>8. Right
    BY <1>2, <1>3, RightByDefault
<1> QED BY <1>3, <1>4, <1>5, <1>6, <1>7, <1>8, SitePartsNext

\* The catalog changes under a scan, and the scan is not intact any more.
LEMMA EditStep ==
    ASSUME ResolutionInv, Edit
    PROVE  ResolutionInv' /\ Right
<1> USE DEF ResolutionInv
<1>1. WaitersOK /\ PermitOK /\ ScanOK /\ CatalogOK
    BY SiteParts
<1>2. /\ edits < MaxEdits /\ edits' = edits + 1
      /\ scan' = [scan EXCEPT !.intact = (scanner = Nobody)]
      /\ UNCHANGED <<ingress, cell, scanner, waiters>>
    BY DEF Edit
<1>3. catalog' \in Catalogs
    <2>1. CASE \E i \in 1..Len(catalog) : catalog' = RemoveAt(catalog, i)
        BY <1>1, <2>1, CatalogLosesRow DEF CatalogOK
    <2>2. CASE \E s \in Sites \ Range(catalog), i \in 1..(Len(catalog) + 1) :
                 catalog' = InsertAt(catalog, i, s)
        BY <1>1, <2>2, CatalogGetsRow DEF CatalogOK
    <2> QED BY <2>1, <2>2 DEF Edit
<1>4. CatalogOK'
    BY <1>1, <1>2, <1>3, SiteAssumption DEF CatalogOK
<1>5. UNCHANGED <<transport, now, stage, token, cache, refresh, gateway, lastFetch>>
    BY <1>2 DEF ingress
<1>6. IngressInv'
    <2>1. stage' \in [Requests -> Stages]
        BY <1>5 DEF IngressInv, IngressTypeOK
    <2> QED BY <1>5, <2>1, HandlerKeepsIngress
<1>7. WaitersOK' /\ PermitOK'
    BY <1>1, <1>2, <1>5 DEF WaitersOK, PermitOK
<1>8. (scanner = Nobody) \in BOOLEAN
    OBVIOUS
<1>9. /\ scan' \in [offset : Nat, sole : Sites \cup {NoSite}, intact : BOOLEAN]
      /\ scan'.sole = scan.sole /\ (scanner # Nobody => ~scan'.intact)
    BY <1>1, <1>2, <1>8 DEF ScanOK
<1>10. ScanOK' /\ ScanInv'
    BY <1>2, <1>9 DEF ScanOK, ScanInv
<1>11. Right
    BY <1>2, <1>5, RightByDefault
<1> QED BY <1>4, <1>6, <1>7, <1>10, <1>11, SitePartsNext

LEMMA InitResolution == Init => ResolutionInv
<1> SUFFICES ASSUME Init PROVE ResolutionInv
    OBVIOUS
<1>1. IngressInv /\ \A r \in Requests : stage[r] = "idle"
    BY IngressStarts DEF Init, IngressInit
<1>2. WaitersOK
    <2>1. << >> \in Seq(Requests)
        OBVIOUS
    <2>2. IsInjective(<< >>) /\ \A x : x \notin Range(<< >>)
        BY DEF IsInjective, Range
    <2> QED BY <1>1, <2>1, <2>2 DEF WaitersOK, Init
<1>3. PermitOK
    BY <1>1, IngressAssumption DEF PermitOK, Init
<1>4. ScanOK /\ ScanInv
    BY NewScanOK DEF ScanOK, ScanInv, Init
<1>5. CatalogOK
    BY SiteAssumption DEF CatalogOK, Init
<1> QED BY <1>1, <1>2, <1>3, <1>4, <1>5, SiteParts DEF ResolutionInv, IngressInv

-----------------------------------------------------------------------------
(* Whole steps.                                                            *)

\* A step on the way in, seen from inside.
LEMMA WayInStep ==
    ASSUME ResolutionInv, UNCHANGED <<site, controller>>,
           \/ \E r \in Requests : Arrive(r) \/ Authenticate(r) \/ Abandon(r)
           \/ Rotate \/ Tick
    PROVE  ResolutionInv' /\ Right
<1>1. IngressInv /\ UNCHANGED cell
    BY DEF ResolutionInv, site
<1>2. ASSUME NEW r \in Requests, Arrive(r) PROVE ResolutionInv' /\ Right
    <2>1. /\ IngressInv' /\ stage[r] \in Idle /\ stage'[r] \in {"idle", "admitted", "lookup"}
          /\ \A d \in Requests \ {r} : stage'[d] = stage[d]
        BY <1>1, <1>2, ArriveStep
    <2>2. stage[r] \notin {"siteWaiting", "scanning"}
        BY <2>1 DEF Idle
    <2>3. ResolutionInv'
        BY <2>1, <2>2, WayInKeepsSite
    <2> QED BY <1>1, <2>1, <2>2, <2>3, RightByDefault
<1>3. ASSUME NEW r \in Requests, Authenticate(r) PROVE ResolutionInv' /\ Right
    <2>1. /\ stage[r] \in Inside
          /\ stage'[r] \in {"waiting", "fetching", "fetched", "admitted", "idle", "noKey"}
          /\ \A d \in Requests \ {r} : stage'[d] = stage[d]
        BY <1>1, <1>3, AuthenticateMoves
    <2>2. IngressInv'
        BY <1>1, <1>3, AuthenticateStep
    <2>3. stage[r] \notin {"siteWaiting", "scanning"}
        BY <2>1 DEF Inside
    <2>4. ResolutionInv'
        BY <2>1, <2>2, <2>3, WayInKeepsSite
    <2> QED BY <1>1, <2>1, <2>3, <2>4, RightByDefault
<1>4. ASSUME NEW r \in Requests, Abandon(r) PROVE ResolutionInv' /\ Right
    <2>1. /\ IngressInv' /\ stage'[r] = "idle"
          /\ \A d \in Requests \ {r} : stage'[d] = stage[d]
        BY <1>1, <1>4, AbandonStep
    <2>2. stage[r] \notin {"siteWaiting", "scanning"}
        BY <1>4 DEF Abandon
    <2>3. ResolutionInv'
        BY <2>1, <2>2, WayInKeepsSite
    <2> QED BY <1>1, <2>1, <2>2, <2>3, RightByDefault
<1>5. ASSUME Rotate \/ Tick PROVE ResolutionInv' /\ Right
    <2>1. IngressInv' /\ UNCHANGED stage
        BY <1>1, <1>5, RotateStep, TickStep DEF Rotate, Tick
    <2>2. ResolutionInv'
        BY <2>1, WayInKeepsSite
    <2> QED BY <1>1, <2>1, <2>2, RightByDefault
<1> QED BY <1>2, <1>3, <1>4, <1>5

\* A step of one request inside: Call, TakePermit and TakeSite set no site.
LEMMA ResolveStep ==
    ASSUME NEW r \in Requests, ResolutionInv, Resolve(r)
    PROVE  /\ ResolutionInv' /\ Right
           /\ stage'[r] \notin {"admitted", "fetching", "noKey"} \/ UNCHANGED stage
           /\ \A d \in Requests \ {r} : stage'[d] = stage[d]
<1>1. IngressInv /\ RequestsOK
    BY TypeParts DEF ResolutionInv, IngressInv
<1>2. Idle \cup {"siteWaiting", "scanning"} \subseteq Stages
    BY DEF Stages
<1>3. ASSUME NEW place \in {"idle", "notFound", "siteWaiting", "scanning"}, GoTo(r, place)
      PROVE  stage'[r] = place /\ \A d \in Requests \ {r} : stage'[d] = stage[d]
    BY <1>1, <1>2, <1>3, GoToShape DEF Idle
<1>4. CASE Call(r)
    <2>1. UNCHANGED cell /\ stage[r] = "admitted"
            /\ \E place \in {"idle", "siteWaiting"} : GoTo(r, place)
        BY <1>4 DEF Call, At
    <2> QED BY <1>3, <1>4, <2>1, CallStep, RightByDefault
<1>5. CASE TakePermit(r)
    <2>1. UNCHANGED cell /\ GoTo(r, "scanning")
        BY <1>5 DEF TakePermit
    <2> QED BY <1>3, <1>5, <2>1, TakePermitStep, RightByDefault
<1>6. CASE TakeSite(r)
    <2>1. UNCHANGED cell /\ GoTo(r, "idle")
        BY <1>6 DEF TakeSite
    <2> QED BY <1>3, <1>6, <2>1, TakeSiteStep, RightByDefault
<1>7. CASE ReadPage(r)
    <2>1. ASSUME NEW offset PROVE NoneFound(offset) \in {"idle", "notFound"}
        BY DEF NoneFound
    <2>2. UNCHANGED stage \/ \E place \in {"idle", "notFound"} : GoTo(r, place)
        BY <1>7, <2>1 DEF ReadPage, Found, Ends, Over
    <2> QED BY <1>3, <1>7, <2>2, ReadPageStep
<1>8. CASE PageFails(r)
    <2>1. GoTo(r, "idle")
        BY <1>8 DEF PageFails, Ends, Over
    <2> QED BY <1>3, <1>8, <2>1, PageFailsStep
<1> QED BY <1>4, <1>5, <1>6, <1>7, <1>8 DEF Resolve

LEMMA NextResolution == ResolutionInv /\ [Next]_vars => ResolutionInv' /\ [Right]_vars
<1> SUFFICES ASSUME ResolutionInv, [Next]_vars PROVE ResolutionInv' /\ [Right]_vars
    OBVIOUS
<1>1. CASE UNCHANGED vars
    <2>1. IngressInv'
        <3>1. UNCHANGED <<transport, now, stage, token, cache, refresh, gateway, lastFetch>>
            BY <1>1 DEF vars, ingress
        <3>2. stage' \in [Requests -> Stages]
            BY <3>1 DEF ResolutionInv, IngressInv, IngressTypeOK
        <3> QED BY <3>1, <3>2, HandlerKeepsIngress DEF ResolutionInv
    <2> QED BY <1>1, <2>1, WayInKeepsSite DEF vars, ingress
<1>2. CASE /\ UNCHANGED <<site, controller>>
           /\ \/ \E r \in Requests : Arrive(r) \/ Authenticate(r) \/ Abandon(r)
              \/ Rotate \/ Tick
    BY <1>2, WayInStep
<1>3. CASE \E r \in Requests : Resolve(r)
    BY <1>3, ResolveStep
<1>4. CASE \E r \in Requests : DropCall(r)
    BY <1>4, DropCallStep
<1>5. CASE Edit
    BY <1>5, EditStep
<1> QED BY <1>1, <1>2, <1>3, <1>4, <1>5 DEF Next

LEMMA ResolutionAlways == Spec => []ResolutionInv
<1> QED BY InitResolution, NextResolution, PTL DEF Spec

\* The types, and with them: each queue has exactly the requests whose stage
\* says so, the refresh mutex and the permit are held by the request whose
\* stage says so, and nobody scans once the site is known.
THEOREM ResolutionTypeCorrect == Spec => []TypeOK
<1>1. ResolutionInv => TypeOK
    BY DEF ResolutionInv
<1> QED BY <1>1, ResolutionAlways, PTL

\* The site cell is set once and to the right site, and "not found" is
\* answered only for cause, whatever the pages (resolve_site_id).
THEOREM SitesAreRight == Spec => SiteIsRight
<1>1. SiteIsRight <=> [][Right]_vars
    BY DEF SiteIsRight, Right
<1> QED BY <1>1, ResolutionAlways, NextResolution, PTL DEF Spec

\* In a step of the whole system, a request comes to one of the stages that
\* verification decides on only by a step of verification, or by Arrive.
LEMMA ComesByVerification ==
    ASSUME ResolutionInv, Next, NEW d \in Requests, stage'[d] # stage[d],
           stage'[d] \in {"admitted", "fetching", "noKey"}
    PROVE  Authenticate(d) \/ (Arrive(d) /\ stage'[d] = "admitted" /\ transport # "gateway")
<1>1. IngressInv
    BY DEF ResolutionInv
<1>2. ~Rotate /\ ~Tick /\ ~Edit
    BY DEF Rotate, Tick, Edit, ingress
<1>3. ASSUME NEW r \in Requests, Resolve(r) \/ DropCall(r) PROVE FALSE
    <2>1. CASE Resolve(r)
        BY <2>1, ResolveStep
    <2>2. CASE DropCall(r)
        <3>1. GoTo(r, "idle") /\ RequestsOK /\ "idle" \in Stages
            BY <1>1, <2>2, TypeParts DEF DropCall, IngressInv, Stages, Idle
        <3> QED BY <3>1, GoToShape
    <2> QED BY <1>3, <2>1, <2>2
<1>4. PICK r \in Requests : Arrive(r) \/ Authenticate(r) \/ Abandon(r)
    BY <1>2, <1>3 DEF Next
<1>5. CASE Arrive(r)
    BY <1>1, <1>5, ArriveStep
<1>6. CASE Authenticate(r)
    BY <1>1, <1>6, AuthenticateMoves
<1>7. CASE Abandon(r)
    BY <1>1, <1>7, AbandonStep
<1> QED BY <1>4, <1>5, <1>6, <1>7

\* Whoever the gateway's side lets in has a token in time, signed with a key
\* published no longer ago than the cache and one fetch may last
\* (verify_with_time, key, cached_lookup).
THEOREM AdmissionIsTrusted == Spec => AdmittedIsTrusted
<1> DEFINE A == \A r \in Requests :
              (transport = "gateway" /\ ~At(r, "admitted") /\ stage'[r] = "admitted") =>
                  LET tok == token[r]
                  IN  /\ tok.signed /\ Timely(now, tok)
                      /\ \/ tok.kid \in Published
                         \/ gone[tok.kid] # Never /\ now < gone[tok.kid] + Ttl + FetchTimeout
<1>1. ResolutionInv /\ [Next]_vars => [A]_ingress
    <2> SUFFICES ASSUME ResolutionInv, [Next]_vars, ~UNCHANGED ingress PROVE A
        OBVIOUS
    <2>1. Next /\ IngressInv
        BY DEF vars, ResolutionInv
    <2>2. ASSUME NEW r \in Requests,
                 transport = "gateway", ~At(r, "admitted"), stage'[r] = "admitted"
          PROVE  LET tok == token[r]
                 IN  /\ tok.signed /\ Timely(now, tok)
                     /\ \/ tok.kid \in Published
                        \/ gone[tok.kid] # Never /\ now < gone[tok.kid] + Ttl + FetchTimeout
        <3>1. Authenticate(r)
            BY <2>1, <2>2, ComesByVerification DEF At
        <3> QED BY <2>1, <2>2, <3>1, AdmitStep
    <2> QED BY <2>2
<1>2. AdmittedIsTrusted <=> [][A]_ingress
    BY DEF AdmittedIsTrusted
<1> HIDE DEF A
<1> QED BY <1>1, <1>2, ResolutionAlways, PTL DEF Spec

\* Fetches of the gateway's keys do not overlap and keep their distance
\* (key, JWKS_REFRESH_COOLDOWN).
THEOREM FetchesSpaced == Spec => FetchesAreSpaced
<1> DEFINE A == \A r \in Requests :
              (stage[r] # "fetching" /\ stage'[r] = "fetching") =>
                  /\ holder = Nobody
                  /\ lastFetch.end # Never => now >= lastFetch.end + Cooldown
<1>1. ResolutionInv /\ [Next]_vars => [A]_ingress
    <2> SUFFICES ASSUME ResolutionInv, [Next]_vars, ~UNCHANGED ingress PROVE A
        OBVIOUS
    <2>1. Next /\ IngressInv
        BY DEF vars, ResolutionInv
    <2>2. ASSUME NEW r \in Requests, stage[r] # "fetching", stage'[r] = "fetching"
          PROVE  holder = Nobody /\ (lastFetch.end # Never => now >= lastFetch.end + Cooldown)
        <3>1. Authenticate(r)
            BY <2>1, <2>2, ComesByVerification
        <3> QED BY <2>1, <2>2, <3>1, FetchStep
    <2> QED BY <2>2
<1>2. FetchesAreSpaced <=> [][A]_ingress
    BY DEF FetchesAreSpaced
<1> HIDE DEF A
<1> QED BY <1>1, <1>2, ResolutionAlways, PTL DEF Spec

\* A key that was published before a good fetch began is not missing after
\* it, whatever key ids others ask for (key, cached_lookup).
THEOREM KnownKeysServed == Spec => KnownKeyIsServed
<1> DEFINE A == \A r \in Requests :
              (stage[r] # "noKey" /\ stage'[r] = "noKey") =>
                  LET k == token[r].kid
                  IN  ~(lastFetch'.good /\ since[k] # Never /\ since[k] < lastFetch'.start)
<1>1. ResolutionInv /\ [Next]_vars => [A]_ingress
    <2> SUFFICES ASSUME ResolutionInv, [Next]_vars, ~UNCHANGED ingress PROVE A
        OBVIOUS
    <2>1. Next /\ IngressInv
        BY DEF vars, ResolutionInv
    <2>2. ASSUME NEW r \in Requests, stage[r] # "noKey", stage'[r] = "noKey"
          PROVE  LET k == token[r].kid
                 IN  ~(lastFetch'.good /\ since[k] # Never /\ since[k] < lastFetch'.start)
        <3>1. Authenticate(r)
            BY <2>1, <2>2, ComesByVerification
        <3> QED BY <2>1, <2>2, <3>1, NoKeyStep
    <2> QED BY <2>2
<1>2. KnownKeyIsServed <=> [][A]_ingress
    BY DEF KnownKeyIsServed
<1> HIDE DEF A
<1> QED BY <1>1, <1>2, ResolutionAlways, PTL DEF Spec
=============================================================================
