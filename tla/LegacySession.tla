---------------------------- MODULE LegacySession ----------------------------
(***************************************************************************)
(* The cookie session that every caller of unifi-api's LegacyClient        *)
(* shares.  Calls run concurrently; a tokio mutex guards the session state *)
(* and is held across a whole login, but not across an ordinary request.   *)
(* A call that is told its session is gone logs in again, unless another   *)
(* call already did, and a read is then sent once more.  The caller may    *)
(* drop a call at any await (the tool deadline), which releases the mutex. *)
(*                                                                         *)
(* The controller is external.  It gives every successful login a session  *)
(* of its own, numbered in order, and may end a session at any time.  The  *)
(* number stands for the cookie, which the HTTP client's jar replaces when *)
(* a login answers, and for the CSRF token that goes with it.              *)
(*                                                                         *)
(* The backoff window of a failed login is a flag that lapses: its length  *)
(* (one second to one minute) decides nothing but when.                    *)
(***************************************************************************)
EXTENDS Naturals, FiniteSets

CONSTANTS
    Callers,      \* concurrent calls
    Nobody,       \* the mutex is free
    Consoles,     \* console families the controller may belong to
    MaxLogins,    \* bound: sessions the controller hands out
    MaxExpiries   \* bound: sessions the controller ends

ASSUME SessionAssumption ==
    /\ Consoles \subseteq {"UnifiOs", "Standalone"}
    /\ MaxLogins \in Nat /\ MaxExpiries \in Nat
    /\ Nobody \notin Callers

\* Requests that may be sent again after a 429, reads that may not (the
\* traffic reports), and mutations.
Classes == {"read", "report", "mutation"}

Answers == {"ok", "login_required", "rate_limited", "failed"}
Outcomes == Answers \cup {"none", "login_failed"}
Sessions == 0..MaxLogins

Locations == {"idle", "ensure", "ensure_login", "send", "dispatch", "wait",
              "received", "refresh", "refresh_login"}

\* One call: where it is, the generation ensure_session gave it, the cookie
\* and the token of its last request, the controller's answer to it, the
\* number of requests sent, and how the call ended.
Call == [pc : Locations, class : Classes, observed : Sessions, used : Sessions,
         token : Sessions, answer : Answers, attempts : 0..2, outcome : Outcomes]

VARIABLES
    \* SessionState
    kind, csrf, authenticated, generation,
    backoff,      \* failed_login is inside its window
    holder,       \* who holds the session mutex across a login
    call,         \* the calls
    \* the controller and the cookie jar
    console, cookie, live, issued,
    \* history
    expiries,     \* sessions ended so far
    expiredIn     \* calls during which a session was ended

session == <<kind, csrf, authenticated, generation, backoff, holder>>
controller == <<console, cookie, live, issued, expiries, expiredIn>>
vars == <<session, call, controller>>

TypeOK ==
    /\ kind \in {"unknown", console}
    /\ csrf \in Sessions /\ authenticated \in BOOLEAN
    /\ generation \in Sessions /\ generation <= issued
    /\ backoff \in BOOLEAN
    /\ holder \in Callers \cup {Nobody}
    /\ call \in [Callers -> Call]
    /\ console \in Consoles
    /\ cookie \in Sessions /\ issued \in Sessions
    /\ live \in SUBSET Sessions
    /\ expiries \in 0..MaxExpiries
    /\ expiredIn \in SUBSET Callers

\* A call that is not running, and what its predecessor left to look at.
Ended(class, attempts, outcome) ==
    [pc |-> "idle", class |-> class, observed |-> 0, used |-> 0, token |-> 0,
     answer |-> "ok", attempts |-> attempts, outcome |-> outcome]

Init ==
    /\ kind = "unknown" /\ csrf = 0 /\ authenticated = FALSE /\ generation = 0
    /\ backoff = FALSE /\ holder = Nobody
    /\ call = [c \in Callers |-> Ended("read", 0, "none")]
    /\ console \in Consoles
    /\ cookie = 0 /\ live = {} /\ issued = 0
    /\ expiries = 0 /\ expiredIn = {}

At(c, location) == call[c].pc = location
GoTo(c, location) == call' = [call EXCEPT ![c].pc = location]
Return(c, result) ==
    call' = [call EXCEPT ![c] = Ended(@.class, @.attempts, result)]

-----------------------------------------------------------------------------
\* A tool or the collector starts a call.
Begin(c) ==
    /\ At(c, "idle")
    /\ \E k \in Classes :
          call' = [call EXCEPT ![c] = [Ended(k, 0, "none") EXCEPT !.pc = "ensure"]]
    /\ expiredIn' = expiredIn \ {c}
    /\ UNCHANGED <<session, console, cookie, live, issued, expiries>>

\* ensure_session: use the session, share a recent failure, or log in.
EnsureSession(c) ==
    /\ At(c, "ensure") /\ holder = Nobody
    /\ \/ /\ authenticated
          /\ call' = [call EXCEPT ![c].pc = "send", ![c].observed = generation]
          /\ UNCHANGED holder
       \/ /\ ~authenticated /\ backoff
          /\ Return(c, "login_failed")
          /\ UNCHANGED holder
       \/ /\ ~authenticated /\ ~backoff
          /\ holder' = c
          /\ GoTo(c, "ensure_login")
    /\ UNCHANGED <<kind, csrf, authenticated, generation, backoff, controller>>

\* Mutant: a mutation is sent again after the session was renewed.
RenewedResends(c) == GoTo(c, "send")

\* A renewed session: a read goes on to its second request, a mutation
\* returns the rejection it already has.
Renewed(c) ==
    IF call[c].class = "mutation" THEN Return(c, "login_required") ELSE GoTo(c, "send")

\* No renewed session: a mutation still returns its own rejection.
NotRenewed(c) ==
    Return(c, IF call[c].class = "mutation" THEN "login_required" ELSE "login_failed")

LoggingIn(c) == holder = c /\ call[c].pc \in {"ensure_login", "refresh_login"}

\* login: while the console is unknown the UniFi OS route is probed.  Only a
\* standalone controller answers it 404, and then has its own route tried.
ProbeNotFound(c) ==
    /\ LoggingIn(c)
    /\ kind = "unknown" /\ console = "Standalone"
    /\ kind' = "Standalone"
    /\ UNCHANGED <<csrf, authenticated, generation, backoff, holder, call, controller>>

\* The login route the client uses exists on this controller.
RouteExists == kind = console \/ (kind = "unknown" /\ console = "UnifiOs")

\* login and finish_login: the controller accepts the credentials.
LoginAccepted(c) ==
    /\ LoggingIn(c) /\ RouteExists /\ issued < MaxLogins
    /\ kind' = console
    /\ issued' = issued + 1
    /\ cookie' = issued + 1 /\ live' = live \cup {issued + 1}
    /\ csrf' = IF console = "UnifiOs" THEN issued + 1 ELSE csrf
    /\ authenticated' = TRUE
    /\ generation' = generation + 1
    /\ backoff' = FALSE
    /\ holder' = Nobody
    /\ IF At(c, "ensure_login")
       THEN call' = [call EXCEPT ![c].pc = "send", ![c].observed = generation + 1]
       ELSE Renewed(c)
    /\ UNCHANGED <<console, expiries, expiredIn>>

\* record_failure: the outcome is shared until its window passes.  A login
\* that is not accepted is taken to carry no token.
LoginFailure(c) ==
    /\ backoff' = TRUE
    /\ holder' = Nobody
    /\ IF At(c, "ensure_login") THEN Return(c, "login_failed") ELSE NotRenewed(c)
    /\ UNCHANGED <<csrf, authenticated, generation, controller>>

\* A definitive refusal (bad credentials, MFA) proves the route exists.
LoginRejected(c) ==
    /\ LoggingIn(c) /\ RouteExists
    /\ kind' = console
    /\ LoginFailure(c)

\* Mutant: any answer to the probe latches the UniFi OS console.
LoginUnavailableLatches(c) ==
    /\ LoggingIn(c)
    /\ kind' = IF kind = "unknown" THEN "UnifiOs" ELSE kind
    /\ LoginFailure(c)

\* 429, 5xx or no answer prove nothing about the console.
LoginUnavailable(c) ==
    /\ LoggingIn(c)
    /\ UNCHANGED kind
    /\ LoginFailure(c)

\* execute_bytes: read the console kind and the token under the mutex.
Prepare(c) ==
    /\ At(c, "send") /\ holder = Nobody
    /\ call' = [call EXCEPT ![c].pc = "dispatch", ![c].token = csrf]
    /\ UNCHANGED <<session, controller>>

\* execute_request_bytes: send, with the cookie the jar holds by now.
Dispatch(c) ==
    /\ At(c, "dispatch")
    /\ call' = [call EXCEPT ![c].pc = "wait", ![c].used = cookie,
                            ![c].attempts = @ + 1]
    /\ UNCHANGED <<session, controller>>

\* The controller answers: a request of an ended session is told so.
Respond(c) ==
    /\ At(c, "wait")
    /\ \E a \in Answers :
          /\ (a = "login_required") <=> (call[c].used \notin live)
          /\ call' = [call EXCEPT ![c].pc = "received", ![c].answer = a]
    /\ UNCHANGED <<session, controller>>

\* capture_csrf: an answer of a UniFi OS console may carry the token of the
\* session it was given in.
CaptureCsrf(c) ==
    \/ UNCHANGED csrf
    \/ console = "UnifiOs" /\ call[c].answer = "ok" /\ csrf' = call[c].used

\* The first answer decides: renew the session, send a read again (after a
\* Retry-After of at most ten seconds), or return.
Receive(c) ==
    LET expired == call[c].answer = "login_required" /\ call[c].attempts = 1
        retriable == /\ call[c].answer = "rate_limited" /\ call[c].attempts = 1
                     /\ call[c].class = "read"
    IN  /\ At(c, "received") /\ holder = Nobody
        /\ CaptureCsrf(c)
        /\ \/ expired /\ GoTo(c, "refresh")
           \/ retriable /\ GoTo(c, "send")
           \/ ~expired /\ Return(c, call[c].answer)
        /\ UNCHANGED <<kind, authenticated, generation, backoff, holder, controller>>

\* Mutant: any authenticated session is adopted, the rejected one too.
RefreshSessionAdoptsAny(c) ==
    /\ At(c, "refresh") /\ holder = Nobody
    /\ \/ authenticated /\ Renewed(c) /\ UNCHANGED <<authenticated, holder>>
       \/ ~authenticated /\ backoff /\ NotRenewed(c) /\ UNCHANGED <<authenticated, holder>>
       \/ /\ ~authenticated /\ ~backoff
          /\ authenticated' = FALSE
          /\ holder' = c
          /\ GoTo(c, "refresh_login")
    /\ UNCHANGED <<kind, csrf, generation, backoff, controller>>

\* Mutant: the generation is not compared.
RefreshSessionAlways(c) ==
    /\ At(c, "refresh") /\ holder = Nobody
    /\ \/ backoff /\ NotRenewed(c) /\ UNCHANGED <<authenticated, holder>>
       \/ /\ ~backoff
          /\ authenticated' = FALSE
          /\ holder' = c
          /\ GoTo(c, "refresh_login")
    /\ UNCHANGED <<kind, csrf, generation, backoff, controller>>

\* Mutant: a recent login failure is not shared.
RefreshSessionHammers(c) ==
    LET newer == generation # call[c].observed /\ authenticated
    IN  /\ At(c, "refresh") /\ holder = Nobody
        /\ \/ newer /\ Renewed(c) /\ UNCHANGED <<authenticated, holder>>
           \/ /\ ~newer
              /\ authenticated' = FALSE
              /\ holder' = c
              /\ GoTo(c, "refresh_login")
        /\ UNCHANGED <<kind, csrf, generation, backoff, controller>>

\* refresh_session: adopt a newer session, share a recent failure, or log in.
RefreshSession(c) ==
    LET newer == generation # call[c].observed /\ authenticated
    IN  /\ At(c, "refresh") /\ holder = Nobody
        /\ \/ newer /\ Renewed(c) /\ UNCHANGED <<authenticated, holder>>
           \/ ~newer /\ backoff /\ NotRenewed(c) /\ UNCHANGED <<authenticated, holder>>
           \/ /\ ~newer /\ ~backoff
              /\ authenticated' = FALSE
              /\ holder' = c
              /\ GoTo(c, "refresh_login")
        /\ UNCHANGED <<kind, csrf, generation, backoff, controller>>

\* Mutant: a dropped call keeps the mutex.
DropLeaksMutex(c) ==
    /\ ~At(c, "idle")
    /\ Return(c, "none")
    /\ UNCHANGED <<session, controller>>

\* The caller drops the call.  The mutex guard goes with it; a login under
\* way may have reached the controller, and the jar, all the same.
Drop(c) ==
    /\ ~At(c, "idle")
    /\ Return(c, "none")
    /\ holder' = IF holder = c THEN Nobody ELSE holder
    /\ \/ UNCHANGED <<cookie, live, issued>>
       \/ /\ LoggingIn(c) /\ RouteExists /\ issued < MaxLogins
          /\ issued' = issued + 1
          /\ live' = live \cup {issued + 1}
          /\ cookie' \in {cookie, issued + 1}
    /\ UNCHANGED <<kind, csrf, authenticated, generation, backoff, console, expiries,
                   expiredIn>>

\* The controller ends a session.
Expire ==
    /\ expiries < MaxExpiries
    /\ \E k \in live : live' = live \ {k}
    /\ expiries' = expiries + 1
    /\ expiredIn' = Callers
    /\ UNCHANGED <<session, call, console, cookie, issued>>

\* The backoff window of the failed login passes.
BackoffLapses ==
    /\ backoff
    /\ backoff' = FALSE
    /\ UNCHANGED <<kind, csrf, authenticated, generation, holder, call, controller>>

Login(c) == ProbeNotFound(c) \/ LoginAccepted(c) \/ LoginRejected(c) \/ LoginUnavailable(c)

Progress(c) == EnsureSession(c) \/ Login(c) \/ Prepare(c) \/ Dispatch(c) \/ Respond(c)
                 \/ Receive(c) \/ RefreshSession(c)

Next ==
    \/ \E c \in Callers : Begin(c) \/ Progress(c) \/ Drop(c)
    \/ Expire \/ BackoffLapses

Spec == Init /\ [][Next]_vars

\* A request or a login always ends (every request has a timeout), and the
\* tokio mutex is fair to its waiters.
FairSpec == Spec /\ \A c \in Callers : WF_vars(Login(c)) /\ SF_vars(Progress(c))

-----------------------------------------------------------------------------
\* A mutation is on the wire at most once, whatever the controller answers
\* and however often the session is renewed meanwhile; a read at most twice
\* (request_with_reauth_with_status_bytes).
MutationSentOnce ==
    \A c \in Callers : call[c].class = "mutation" => call[c].attempts <= 1

\* A read reports a lost session only when the controller ended one during
\* the call: a session that was dead before is always renewed, by this call
\* or by the one whose session it adopts (refresh_session).
DeadSessionIsRenewed ==
    \A c \in Callers :
        call[c].outcome = "login_required" /\ call[c].class # "mutation" => c \in expiredIn

\* A session the controller still honours is never given up for a new login,
\* however many stale rejections arrive (the generation check).
LiveSessionIsKept ==
    [][authenticated /\ ~authenticated' => cookie \notin live]_vars

\* Inside the backoff window of a failed login no call asks for another one.
NoLoginInBackoff == holder # Nobody => ~backoff

\* Every call comes to an end: no caller is left waiting for the mutex, even
\* when its holder is dropped in the middle of a login.
EveryCallReturns == \A c \in Callers : ~At(c, "idle") ~> At(c, "idle")

\* While a session is held, the token the next mutation will return is the
\* one that session was given ("an x-csrf-token header that mutations must
\* return", legacy.rs).
TokenOfCurrentSession ==
    authenticated /\ holder = Nobody /\ console = "UnifiOs" => csrf = cookie
-----------------------------------------------------------------------------
(***************************************************************************)
(* The inductive invariant behind the properties, in parts.                *)
(***************************************************************************)
\* Sessions are numbered in the order of their logins, and no cookie, request
\* or generation is ahead of the controller.
NumbersInv ==
    /\ cookie <= issued
    /\ \A s \in live : s <= issued
    /\ \A c \in Callers : call[c].used <= issued /\ call[c].observed <= generation

\* The mutex is held across a login, by the call that logs in, and only when
\* there is no session to use and no failure to share.
MutexInv ==
    /\ \A c \in Callers : holder = c <=> call[c].pc \in {"ensure_login", "refresh_login"}
    /\ holder # Nobody => ~authenticated /\ ~backoff

\* How many requests a call has sent, by where it is.
AttemptsInv ==
    \A c \in Callers :
        /\ call[c].pc \in {"ensure", "ensure_login"} => call[c].attempts = 0
        /\ call[c].pc \in {"send", "dispatch"} =>
              call[c].attempts = 0 \/ (call[c].attempts = 1 /\ call[c].class # "mutation")
        /\ call[c].pc \in {"wait", "received"} => call[c].attempts \in {1, 2}
        /\ call[c].pc \in {"refresh", "refresh_login"} => call[c].attempts = 1
        /\ call[c].class = "mutation" => call[c].attempts <= 1
        /\ call[c].pc # "idle" => call[c].outcome = "none"

\* A call whose generation is still the current one asked with the cookie the
\* jar still holds, and a call that goes to renew had its session ended.
RejectionInv ==
    \A c \in Callers :
        /\ call[c].pc \in {"wait", "received", "refresh"} /\ authenticated
              /\ generation = call[c].observed => call[c].used = cookie
        /\ call[c].pc = "received" =>
              (call[c].answer = "login_required" => call[c].used \notin live)
        /\ call[c].pc = "refresh" => call[c].used \notin live

\* What a call knows of its session while the controller ends none: a newer
\* generation is a session that lives, and so is the one a second request is
\* sent in.
RenewalInv ==
    \A c \in Callers \ expiredIn :
        /\ call[c].pc \notin {"idle", "ensure", "ensure_login"}
              /\ generation # call[c].observed => cookie \in live
        /\ call[c].pc \in {"send", "dispatch"} /\ call[c].attempts = 1 => cookie \in live
        /\ call[c].pc \in {"wait", "received"} => call[c].used = cookie \/ cookie \in live
        /\ call[c].pc = "wait" /\ call[c].attempts = 2 => call[c].used \in live
        /\ call[c].pc = "received" =>
              \/ call[c].used \in live
              \/ call[c].answer = "login_required" /\ call[c].attempts = 1

SessionInv ==
    /\ TypeOK /\ NumbersInv /\ MutexInv /\ AttemptsInv /\ RejectionInv /\ RenewalInv
    /\ DeadSessionIsRenewed
=============================================================================
