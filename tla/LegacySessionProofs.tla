------------------------- MODULE LegacySessionProofs -------------------------
(***************************************************************************)
(* Theorems about the cookie session, for every set of concurrent calls and *)
(* every number of logins and of sessions the controller ends.             *)
(***************************************************************************)
EXTENDS LegacySession, TLAPS

\* The initial state satisfies the inductive invariant: nobody is calling.
LEMMA InitSession == Init => SessionInv
<1> SUFFICES ASSUME Init PROVE SessionInv
    OBVIOUS
<1>1. \A c \in Callers : call[c] = Ended("read", 0, "none")
    BY DEF Init
<1>2. TypeOK
    <2>1. 0 \in Sessions /\ 0 \in 0..MaxExpiries
        BY SessionAssumption DEF Sessions
    <2>2. Ended("read", 0, "none") \in Call
        BY <2>1 DEF Ended, Call, Locations, Classes, Answers, Outcomes
    <2>3. authenticated \in BOOLEAN /\ backoff \in BOOLEAN
        BY Zenon DEF Init
    <2>4. generation <= issued /\ live \in SUBSET Sessions /\ expiredIn \in SUBSET Callers
        BY DEF Init
    <2> QED BY <2>1, <2>2, <2>3, <2>4 DEF Init, TypeOK
<1>3. NumbersInv /\ MutexInv /\ AttemptsInv /\ RejectionInv /\ RenewalInv
        /\ DeadSessionIsRenewed
    BY <1>1, SessionAssumption
    DEF Init, Ended, NumbersInv, MutexInv, AttemptsInv, RejectionInv, RenewalInv,
        DeadSessionIsRenewed
<1> QED BY <1>2, <1>3 DEF SessionInv

\* A step writes the record of one caller and leaves the others alone.
OnlyCall(c) ==
    /\ call' \in [Callers -> Call]
    /\ \A d \in Callers \ {c} : call'[d] = call[d]

\* The fields that the bookkeeping of a call rests on are kept.
SameRequest(c) ==
    /\ call'[c].class = call[c].class /\ call'[c].used = call[c].used
    /\ call'[c].attempts = call[c].attempts /\ call'[c].outcome = call[c].outcome

\* What a caller's record looks like after each way the actions change it.
LEMMA ReturnFields ==
    ASSUME NEW c \in Callers, NEW result \in Outcomes, TypeOK, Return(c, result)
    PROVE  /\ OnlyCall(c)
           /\ call'[c].pc = "idle" /\ call'[c].outcome = result
           /\ call'[c].class = call[c].class /\ call'[c].attempts = call[c].attempts
           /\ call'[c].observed = 0 /\ call'[c].used = 0
<1>1. call[c] \in Call /\ 0 \in Sessions
    BY SessionAssumption DEF TypeOK, Sessions
<1>2. Ended(call[c].class, call[c].attempts, result) \in Call
    BY <1>1 DEF Ended, Call, Locations, Answers
<1>3. OnlyCall(c) /\ call'[c] = Ended(call[c].class, call[c].attempts, result)
    BY <1>2 DEF Return, TypeOK, OnlyCall
<1> QED BY <1>3 DEF Ended

LEMMA GoToFields ==
    ASSUME NEW c \in Callers, NEW location \in Locations, TypeOK, GoTo(c, location)
    PROVE  /\ OnlyCall(c) /\ SameRequest(c)
           /\ call'[c].pc = location /\ call'[c].observed = call[c].observed
           /\ call'[c].answer = call[c].answer
<1>1. [call[c] EXCEPT !.pc = location] \in Call
    BY DEF TypeOK, Call
<1>2. OnlyCall(c) /\ call'[c] = [call[c] EXCEPT !.pc = location]
    BY <1>1 DEF GoTo, TypeOK, OnlyCall
<1> QED BY <1>2 DEF SameRequest, TypeOK, Call

\* Two fields written at once: pc, and the generation the call observed.
LEMMA ObserveFields ==
    ASSUME NEW c \in Callers, NEW g \in Sessions, TypeOK,
           call' = [call EXCEPT ![c].pc = "send", ![c].observed = g]
    PROVE  /\ OnlyCall(c) /\ SameRequest(c)
           /\ call'[c].pc = "send" /\ call'[c].observed = g
<1> DEFINE new == [call[c] EXCEPT !.pc = "send", !.observed = g]
<1>1. new \in Call
    BY DEF TypeOK, Call, Locations
<1>2. call' = [call EXCEPT ![c] = new]
    BY DEF TypeOK, Call
<1> HIDE DEF new
<1>3. OnlyCall(c) /\ call'[c] = new
    BY <1>1, <1>2 DEF TypeOK, OnlyCall
<1> QED BY <1>3 DEF new, SameRequest, TypeOK, Call

\* A call that returns leaves all but the mutex as it was, provided a read
\* does not report a lost session in a call in which none was lost.
LEMMA ReturnKeeps ==
    ASSUME NEW c \in Callers, NEW result \in Outcomes, SessionInv, Return(c, result),
           UNCHANGED <<generation, console, cookie, live, issued, expiries, expiredIn>>,
           authenticated' => authenticated,
           result = "login_required" => call[c].class = "mutation"
    PROVE  /\ OnlyCall(c) /\ call'[c].pc = "idle"
           /\ NumbersInv' /\ AttemptsInv' /\ RejectionInv' /\ RenewalInv'
           /\ DeadSessionIsRenewed'
<1> USE DEF SessionInv
<1>1. /\ OnlyCall(c) /\ call'[c].pc = "idle" /\ call'[c].outcome = result
      /\ call'[c].class = call[c].class /\ call'[c].attempts = call[c].attempts
      /\ call'[c].observed = 0 /\ call'[c].used = 0
    BY ReturnFields
<1>2. NumbersInv' /\ AttemptsInv'
    BY <1>1, SessionAssumption
    DEF NumbersInv, AttemptsInv, TypeOK, Sessions, OnlyCall
<1>3. RejectionInv'
    BY <1>1 DEF RejectionInv, OnlyCall
<1>4. RenewalInv' /\ DeadSessionIsRenewed'
    BY <1>1 DEF RenewalInv, DeadSessionIsRenewed, OnlyCall
<1> QED BY <1>1, <1>2, <1>3, <1>4

\* Begin: a new call has sent nothing and knows nothing.
LEMMA BeginStep ==
    ASSUME NEW c \in Callers, SessionInv, Begin(c)
    PROVE  SessionInv'
<1> USE DEF SessionInv
<1>1. PICK k \in Classes :
          call' = [call EXCEPT ![c] = [Ended(k, 0, "none") EXCEPT !.pc = "ensure"]]
    BY DEF Begin
<1> DEFINE new == [Ended(k, 0, "none") EXCEPT !.pc = "ensure"]
<1>2. /\ new.pc = "ensure" /\ new.attempts = 0 /\ new.outcome = "none" /\ new.class = k
      /\ new.observed = 0 /\ new.used = 0
    BY DEF Ended
<1>3. new \in Call
    BY SessionAssumption DEF Ended, Call, Locations, Answers, Outcomes, Sessions
<1> HIDE DEF new
<1>4. call' \in [Callers -> Call] /\ call'[c] = new /\ \A d \in Callers \ {c} : call'[d] = call[d]
    BY <1>1, <1>3 DEF TypeOK, new
<1>5. UNCHANGED <<session, console, cookie, live, issued, expiries>>
        /\ expiredIn' = expiredIn \ {c} /\ At(c, "idle")
    BY DEF Begin
<1>6. TypeOK'
    BY <1>4, <1>5 DEF TypeOK, session
<1>7. NumbersInv' /\ MutexInv' /\ AttemptsInv'
    BY <1>2, <1>4, <1>5, SessionAssumption
    DEF NumbersInv, MutexInv, AttemptsInv, session, At, TypeOK, Sessions
<1>8. RejectionInv' /\ RenewalInv' /\ DeadSessionIsRenewed'
    BY <1>2, <1>4, <1>5
    DEF RejectionInv, RenewalInv, DeadSessionIsRenewed, session
<1> QED BY <1>6, <1>7, <1>8

\* EnsureSession: the call leaves with the current generation, or waits for a
\* login of its own with the mutex in hand.
LEMMA EnsureSessionStep ==
    ASSUME NEW c \in Callers, SessionInv, EnsureSession(c)
    PROVE  SessionInv'
<1> USE DEF SessionInv
<1>1. /\ At(c, "ensure") /\ holder = Nobody
      /\ UNCHANGED <<kind, csrf, authenticated, generation, backoff, console, cookie, live,
                     issued, expiries, expiredIn>>
    BY DEF EnsureSession, controller
<1>2. call[c].attempts = 0 /\ call[c].pc = "ensure" /\ call[c].outcome = "none"
    BY <1>1 DEF At, AttemptsInv
<1>3. CASE /\ authenticated /\ UNCHANGED holder
           /\ call' = [call EXCEPT ![c].pc = "send", ![c].observed = generation]
    <2>1. /\ OnlyCall(c) /\ SameRequest(c)
          /\ call'[c].pc = "send" /\ call'[c].observed = generation
        BY <1>3, ObserveFields DEF TypeOK
    <2>2. TypeOK'
        BY <1>1, <1>3, <2>1 DEF TypeOK, OnlyCall
    <2>3. NumbersInv' /\ MutexInv' /\ AttemptsInv'
        BY <1>1, <1>2, <1>3, <2>1, SessionAssumption
        DEF NumbersInv, MutexInv, AttemptsInv, TypeOK, Sessions, OnlyCall, SameRequest
    <2>4. RejectionInv' /\ RenewalInv' /\ DeadSessionIsRenewed'
        BY <1>1, <1>2, <1>3, <2>1
        DEF RejectionInv, RenewalInv, DeadSessionIsRenewed, OnlyCall, SameRequest
    <2> QED BY <2>2, <2>3, <2>4
<1>4. CASE ~authenticated /\ backoff /\ Return(c, "login_failed") /\ UNCHANGED holder
    <2>1. /\ OnlyCall(c) /\ call'[c].pc = "idle" /\ call'[c].outcome = "login_failed"
          /\ call'[c].class = call[c].class /\ call'[c].attempts = call[c].attempts
          /\ call'[c].observed = 0 /\ call'[c].used = 0
        BY <1>4, ReturnFields DEF Outcomes
    <2>2. TypeOK'
        BY <1>1, <1>4, <2>1 DEF TypeOK, OnlyCall
    <2>3. NumbersInv' /\ MutexInv' /\ AttemptsInv'
        BY <1>1, <1>2, <1>4, <2>1, SessionAssumption
        DEF NumbersInv, MutexInv, AttemptsInv, TypeOK, Sessions, OnlyCall
    <2>4. RejectionInv' /\ RenewalInv' /\ DeadSessionIsRenewed'
        BY <1>1, <2>1 DEF RejectionInv, RenewalInv, DeadSessionIsRenewed, OnlyCall
    <2> QED BY <2>2, <2>3, <2>4
<1>5. CASE ~authenticated /\ ~backoff /\ holder' = c /\ GoTo(c, "ensure_login")
    <2>1. /\ OnlyCall(c) /\ SameRequest(c)
          /\ call'[c].pc = "ensure_login" /\ call'[c].observed = call[c].observed
        BY <1>5, GoToFields DEF Locations
    <2>2. TypeOK'
        BY <1>1, <1>5, <2>1 DEF TypeOK, OnlyCall
    <2>3. NumbersInv' /\ AttemptsInv'
        BY <1>1, <1>2, <2>1 DEF NumbersInv, AttemptsInv, OnlyCall, SameRequest
    <2>4. MutexInv'
        BY <1>1, <1>5, <2>1, SessionAssumption DEF MutexInv, OnlyCall
    <2>5. RejectionInv' /\ RenewalInv' /\ DeadSessionIsRenewed'
        BY <1>1, <1>2, <2>1
        DEF RejectionInv, RenewalInv, DeadSessionIsRenewed, OnlyCall, SameRequest
    <2> QED BY <2>2, <2>3, <2>4, <2>5
<1> QED BY <1>3, <1>4, <1>5 DEF EnsureSession

\* ProbeNotFound: the standalone console is now known.
LEMMA ProbeNotFoundStep ==
    ASSUME NEW c \in Callers, SessionInv, ProbeNotFound(c)
    PROVE  SessionInv'
<1> USE DEF SessionInv
<1>1. /\ kind' = "Standalone" /\ console = "Standalone"
      /\ UNCHANGED <<csrf, authenticated, generation, backoff, holder, call, console,
                     cookie, live, issued, expiries, expiredIn>>
    BY DEF ProbeNotFound, controller
<1>2. TypeOK'
    BY <1>1 DEF TypeOK
<1>3. NumbersInv' /\ MutexInv' /\ AttemptsInv'
    BY <1>1 DEF NumbersInv, MutexInv, AttemptsInv
<1>4. RejectionInv' /\ RenewalInv' /\ DeadSessionIsRenewed'
    BY <1>1 DEF RejectionInv, RenewalInv, DeadSessionIsRenewed
<1> QED BY <1>2, <1>3, <1>4

\* LoginAccepted: everybody's generation is now an older one, and the cookie
\* in the jar is that of a session that lives.
LEMMA LoginAcceptedStep ==
    ASSUME NEW c \in Callers, SessionInv, LoginAccepted(c)
    PROVE  SessionInv'
<1> USE DEF SessionInv
<1>1. /\ holder = c /\ call[c].pc \in {"ensure_login", "refresh_login"}
      /\ issued < MaxLogins /\ kind' = console /\ issued' = issued + 1
      /\ cookie' = issued + 1 /\ live' = live \cup {issued + 1}
      /\ csrf' = IF console = "UnifiOs" THEN issued + 1 ELSE csrf
      /\ authenticated' = TRUE /\ generation' = generation + 1
      /\ backoff' = FALSE /\ holder' = Nobody
      /\ console' = console /\ expiries' = expiries /\ expiredIn' = expiredIn
    BY DEF LoginAccepted, LoggingIn
<1>2. /\ issued \in Nat /\ generation \in Nat /\ generation <= issued /\ MaxLogins \in Nat
      /\ issued + 1 \in Sessions /\ generation + 1 \in Sessions
      /\ \A d \in Callers : /\ call[d].used \in Nat /\ call[d].observed \in Nat
                            /\ call[d].used <= issued /\ call[d].observed <= generation
      /\ \A n \in live : n \in Nat /\ n <= issued
    BY <1>1, SessionAssumption DEF TypeOK, Sessions, NumbersInv, Call
<1>3. /\ OnlyCall(c)
      /\ \/ /\ call'[c].pc = "idle" /\ call'[c].used = 0 /\ call'[c].observed = 0
            /\ call'[c].class = "mutation" /\ call'[c].attempts = call[c].attempts
         \/ /\ SameRequest(c) /\ call'[c].pc = "send"
            /\ \/ At(c, "ensure_login") /\ call'[c].observed = generation + 1
               \/ /\ At(c, "refresh_login") /\ call[c].class # "mutation"
                  /\ call'[c].observed = call[c].observed
    <2>1. CASE At(c, "ensure_login")
        <3>1. call' = [call EXCEPT ![c].pc = "send", ![c].observed = generation + 1]
            BY <2>1 DEF LoginAccepted
        <3> QED BY <2>1, <3>1, <1>2, ObserveFields
    <2>2. CASE ~At(c, "ensure_login")
        <3>1. Renewed(c) /\ At(c, "refresh_login")
            BY <2>2, <1>1 DEF LoginAccepted, At
        <3>2. CASE call[c].class = "mutation"
            BY <3>1, <3>2, ReturnFields DEF Renewed, Outcomes, Answers
        <3>3. CASE call[c].class # "mutation"
            BY <3>1, <3>3, GoToFields DEF Renewed, Locations
        <3> QED BY <3>2, <3>3
    <2> QED BY <2>1, <2>2
<1>4. TypeOK'
    <2>1. kind' \in {"unknown", console'} /\ console' \in Consoles
        BY <1>1 DEF TypeOK
    <2>2. csrf' \in Sessions /\ cookie' \in Sessions /\ issued' \in Sessions
            /\ generation' \in Sessions /\ generation' <= issued'
        BY <1>1, <1>2 DEF TypeOK
    <2>3. live' \in SUBSET Sessions /\ expiries' \in 0..MaxExpiries
            /\ expiredIn' \in SUBSET Callers /\ holder' \in Callers \cup {Nobody}
        BY <1>1, <1>2 DEF TypeOK
    <2>4. authenticated' \in BOOLEAN /\ backoff' \in BOOLEAN
        BY <1>1, Zenon
    <2> QED BY <1>3, <2>1, <2>2, <2>3, <2>4 DEF TypeOK, OnlyCall
<1>5. NumbersInv'
    BY <1>1, <1>2, <1>3 DEF NumbersInv, OnlyCall, SameRequest
<1>6. MutexInv'
    <2>1. \A d \in Callers \ {c} : call[d].pc \notin {"ensure_login", "refresh_login"}
        BY <1>1 DEF MutexInv
    <2> QED BY <1>1, <1>3, <2>1, SessionAssumption DEF MutexInv, OnlyCall
<1>7. AttemptsInv'
    BY <1>1, <1>3 DEF AttemptsInv, OnlyCall, SameRequest, At
<1>8. RejectionInv'
    BY <1>1, <1>2, <1>3 DEF RejectionInv, OnlyCall
<1>9. RenewalInv'
    BY <1>1, <1>2, <1>3 DEF RenewalInv, OnlyCall
<1>10. DeadSessionIsRenewed'
    BY <1>1, <1>3 DEF DeadSessionIsRenewed, AttemptsInv, OnlyCall, SameRequest
<1> QED BY <1>4, <1>5, <1>6, <1>7, <1>8, <1>9, <1>10

\* LoginFailure, with the console known or not: everyone may share it.
LEMMA LoginFailureStep ==
    ASSUME NEW c \in Callers, SessionInv, LoggingIn(c), LoginFailure(c),
           kind' \in {kind, console}
    PROVE  SessionInv'
<1> USE DEF SessionInv
<1>1. /\ holder = c /\ backoff' = TRUE /\ holder' = Nobody
      /\ UNCHANGED <<csrf, authenticated, generation, console, cookie, live, issued,
                     expiries, expiredIn>>
    BY DEF LoggingIn, LoginFailure, controller
<1>2. PICK result \in Outcomes :
          /\ Return(c, result)
          /\ result = "login_required" => call[c].class = "mutation"
    <2>1. CASE At(c, "ensure_login")
        BY <2>1 DEF LoginFailure, Outcomes
    <2>2. CASE ~At(c, "ensure_login")
        BY <2>2 DEF LoginFailure, NotRenewed, Outcomes, Answers
    <2> QED BY <2>1, <2>2
<1>3. /\ OnlyCall(c) /\ call'[c].pc = "idle"
      /\ NumbersInv' /\ AttemptsInv' /\ RejectionInv' /\ RenewalInv'
      /\ DeadSessionIsRenewed'
    BY <1>1, <1>2, ReturnKeeps
<1>4. TypeOK'
    <2>1. backoff' \in BOOLEAN
        BY <1>1, Zenon
    <2> QED BY <1>1, <1>3, <2>1 DEF TypeOK, OnlyCall
<1>5. MutexInv'
    <2>1. \A d \in Callers \ {c} : call[d].pc \notin {"ensure_login", "refresh_login"}
        BY <1>1 DEF MutexInv
    <2> QED BY <1>1, <1>3, <2>1, SessionAssumption DEF MutexInv, OnlyCall
<1> QED BY <1>3, <1>4, <1>5

\* Prepare: the token is read, the request is not sent yet.
LEMMA PrepareStep ==
    ASSUME NEW c \in Callers, SessionInv, Prepare(c)
    PROVE  SessionInv'
<1> USE DEF SessionInv
<1>1. /\ call[c].pc = "send" /\ holder = Nobody
      /\ UNCHANGED <<kind, csrf, authenticated, generation, backoff, holder, console, cookie,
                     live, issued, expiries, expiredIn>>
    BY DEF Prepare, At, session, controller
<1> DEFINE new == [call[c] EXCEPT !.pc = "dispatch", !.token = csrf]
<1>2. new \in Call
    BY DEF TypeOK, Call, Locations
<1>3. call' = [call EXCEPT ![c] = new]
    BY DEF Prepare, TypeOK, Call
<1>4. /\ new.pc = "dispatch" /\ new.observed = call[c].observed
      /\ new.class = call[c].class /\ new.used = call[c].used
      /\ new.attempts = call[c].attempts /\ new.outcome = call[c].outcome
    BY DEF TypeOK, Call
<1> HIDE DEF new
<1>5. OnlyCall(c) /\ call'[c] = new
    BY <1>2, <1>3 DEF TypeOK, OnlyCall
<1>6. TypeOK'
    BY <1>1, <1>5 DEF TypeOK, OnlyCall
<1>7. NumbersInv' /\ MutexInv' /\ AttemptsInv'
    BY <1>1, <1>4, <1>5, SessionAssumption DEF NumbersInv, MutexInv, AttemptsInv, OnlyCall
<1>8. RejectionInv' /\ RenewalInv' /\ DeadSessionIsRenewed'
    BY <1>1, <1>4, <1>5 DEF RejectionInv, RenewalInv, DeadSessionIsRenewed, OnlyCall
<1> QED BY <1>6, <1>7, <1>8

\* Dispatch: the request carries the cookie the jar holds.
LEMMA DispatchStep ==
    ASSUME NEW c \in Callers, SessionInv, Dispatch(c)
    PROVE  SessionInv'
<1> USE DEF SessionInv
<1>1. /\ call[c].pc = "dispatch"
      /\ UNCHANGED <<kind, csrf, authenticated, generation, backoff, holder, console, cookie,
                     live, issued, expiries, expiredIn>>
    BY DEF Dispatch, At, session, controller
<1>2. /\ call[c].attempts = 0 \/ (call[c].attempts = 1 /\ call[c].class # "mutation")
      /\ call[c].outcome = "none"
    BY <1>1 DEF AttemptsInv
<1> DEFINE new == [call[c] EXCEPT !.pc = "wait", !.used = cookie, !.attempts = @ + 1]
<1>3. call[c].attempts + 1 \in 0..2
    BY <1>2
<1>4. new \in Call
    BY <1>3 DEF TypeOK, Call, Locations
<1>5. call' = [call EXCEPT ![c] = new]
    BY DEF Dispatch, TypeOK, Call
<1>6. /\ new.pc = "wait" /\ new.observed = call[c].observed
      /\ new.class = call[c].class /\ new.used = cookie
      /\ new.attempts = call[c].attempts + 1 /\ new.outcome = "none"
    BY <1>2 DEF TypeOK, Call
<1> HIDE DEF new
<1>7. OnlyCall(c) /\ call'[c] = new
    BY <1>4, <1>5 DEF TypeOK, OnlyCall
<1>8. TypeOK'
    BY <1>1, <1>7 DEF TypeOK, OnlyCall
<1>9. NumbersInv' /\ MutexInv' /\ AttemptsInv'
    BY <1>1, <1>2, <1>6, <1>7 DEF NumbersInv, MutexInv, AttemptsInv, OnlyCall
<1>10. RejectionInv' /\ RenewalInv' /\ DeadSessionIsRenewed'
    BY <1>1, <1>2, <1>6, <1>7 DEF RejectionInv, RenewalInv, DeadSessionIsRenewed, OnlyCall
<1> QED BY <1>8, <1>9, <1>10

\* Respond: only a request of an ended session is told to log in.
LEMMA RespondStep ==
    ASSUME NEW c \in Callers, SessionInv, Respond(c)
    PROVE  SessionInv'
<1> USE DEF SessionInv
<1>1. /\ call[c].pc = "wait"
      /\ UNCHANGED <<kind, csrf, authenticated, generation, backoff, holder, console, cookie,
                     live, issued, expiries, expiredIn>>
    BY DEF Respond, At, session, controller
<1>2. PICK a \in Answers :
          /\ (a = "login_required") <=> (call[c].used \notin live)
          /\ call' = [call EXCEPT ![c].pc = "received", ![c].answer = a]
    BY DEF Respond
<1> DEFINE new == [call[c] EXCEPT !.pc = "received", !.answer = a]
<1>3. new \in Call
    BY DEF TypeOK, Call, Locations
<1>4. call' = [call EXCEPT ![c] = new]
    BY <1>2 DEF TypeOK, Call
<1>5. /\ new.pc = "received" /\ new.observed = call[c].observed /\ new.answer = a
      /\ new.class = call[c].class /\ new.used = call[c].used
      /\ new.attempts = call[c].attempts /\ new.outcome = call[c].outcome
    BY DEF TypeOK, Call
<1> HIDE DEF new
<1>6. OnlyCall(c) /\ call'[c] = new
    BY <1>3, <1>4 DEF TypeOK, OnlyCall
<1>7. TypeOK'
    BY <1>1, <1>6 DEF TypeOK, OnlyCall
<1>8. NumbersInv' /\ MutexInv' /\ AttemptsInv'
    BY <1>1, <1>5, <1>6 DEF NumbersInv, MutexInv, AttemptsInv, OnlyCall
<1>9. call[c].attempts \in {1, 2}
    BY <1>1 DEF AttemptsInv
<1>10. RejectionInv' /\ DeadSessionIsRenewed'
    BY <1>1, <1>2, <1>5, <1>6 DEF RejectionInv, DeadSessionIsRenewed, OnlyCall
<1>11. RenewalInv'
    BY <1>1, <1>2, <1>5, <1>6, <1>9 DEF RenewalInv, OnlyCall
<1> QED BY <1>7, <1>8, <1>10, <1>11

\* Receive: a read that is sent again had a session that lived, and a call
\* goes to renew only a session that does not.
LEMMA ReceiveStep ==
    ASSUME NEW c \in Callers, SessionInv, Receive(c)
    PROVE  SessionInv'
<1> USE DEF SessionInv
<1>1. /\ call[c].pc = "received" /\ holder = Nobody /\ CaptureCsrf(c)
      /\ UNCHANGED <<kind, authenticated, generation, backoff, holder, console, cookie,
                     live, issued, expiries, expiredIn>>
    BY DEF Receive, At, controller
<1>2. csrf' \in Sessions
    BY <1>1 DEF CaptureCsrf, TypeOK, Call
<1>3. call[c].attempts \in {1, 2} /\ call[c].outcome = "none"
    BY <1>1 DEF AttemptsInv
<1>4. CASE call[c].answer = "login_required" /\ call[c].attempts = 1 /\ GoTo(c, "refresh")
    <2>1. /\ OnlyCall(c) /\ SameRequest(c)
          /\ call'[c].pc = "refresh" /\ call'[c].observed = call[c].observed
        BY <1>4, GoToFields DEF Locations
    <2>2. TypeOK'
        BY <1>1, <1>2, <2>1 DEF TypeOK, OnlyCall
    <2>3. NumbersInv' /\ MutexInv' /\ AttemptsInv'
        BY <1>1, <1>3, <1>4, <2>1, SessionAssumption
        DEF NumbersInv, MutexInv, AttemptsInv, OnlyCall, SameRequest
    <2>4. RejectionInv' /\ RenewalInv' /\ DeadSessionIsRenewed'
        BY <1>1, <1>3, <1>4, <2>1
        DEF RejectionInv, RenewalInv, DeadSessionIsRenewed, OnlyCall, SameRequest
    <2> QED BY <2>2, <2>3, <2>4
<1>5. CASE /\ call[c].answer = "rate_limited" /\ call[c].attempts = 1
           /\ call[c].class = "read" /\ GoTo(c, "send")
    <2>1. /\ OnlyCall(c) /\ SameRequest(c)
          /\ call'[c].pc = "send" /\ call'[c].observed = call[c].observed
        BY <1>5, GoToFields DEF Locations
    <2>2. TypeOK'
        BY <1>1, <1>2, <2>1 DEF TypeOK, OnlyCall
    <2>3. NumbersInv' /\ MutexInv' /\ AttemptsInv'
        BY <1>1, <1>3, <1>5, <2>1, SessionAssumption
        DEF NumbersInv, MutexInv, AttemptsInv, OnlyCall, SameRequest
    <2>4. RejectionInv' /\ RenewalInv' /\ DeadSessionIsRenewed'
        BY <1>1, <1>3, <1>5, <2>1
        DEF RejectionInv, RenewalInv, DeadSessionIsRenewed, OnlyCall, SameRequest
    <2> QED BY <2>2, <2>3, <2>4
<1>6. CASE /\ ~(call[c].answer = "login_required" /\ call[c].attempts = 1)
           /\ Return(c, call[c].answer)
    <2>1. call[c].answer \in Outcomes
        BY DEF TypeOK, Call, Outcomes
    <2>2. /\ OnlyCall(c) /\ call'[c].pc = "idle" /\ call'[c].outcome = call[c].answer
          /\ call'[c].class = call[c].class /\ call'[c].attempts = call[c].attempts
          /\ call'[c].observed = 0 /\ call'[c].used = 0
        BY <1>6, <2>1, ReturnFields
    <2>3. TypeOK'
        BY <1>1, <1>2, <2>2 DEF TypeOK, OnlyCall
    <2>4. NumbersInv' /\ MutexInv' /\ AttemptsInv'
        BY <1>1, <1>3, <2>2, SessionAssumption
        DEF NumbersInv, MutexInv, AttemptsInv, TypeOK, Sessions, OnlyCall
    <2>5. RejectionInv' /\ RenewalInv'
        BY <1>1, <2>2 DEF RejectionInv, RenewalInv, OnlyCall
    <2>6. call[c].answer = "login_required" => c \in expiredIn
        BY <1>1, <1>6 DEF RejectionInv, RenewalInv
    <2>7. DeadSessionIsRenewed'
        BY <1>1, <2>2, <2>6 DEF DeadSessionIsRenewed, OnlyCall
    <2> QED BY <2>3, <2>4, <2>5, <2>7
<1> QED BY <1>4, <1>5, <1>6 DEF Receive

\* RefreshSession: a newer session is one that lives, and the session that is
\* given up is one that does not.
LEMMA RefreshSessionStep ==
    ASSUME NEW c \in Callers, SessionInv, RefreshSession(c)
    PROVE  SessionInv' /\ (authenticated /\ ~authenticated' => cookie \notin live)
<1> USE DEF SessionInv
<1> DEFINE newer == generation # call[c].observed /\ authenticated
<1>1. /\ call[c].pc = "refresh" /\ holder = Nobody
      /\ UNCHANGED <<kind, csrf, generation, backoff, console, cookie, live, issued,
                     expiries, expiredIn>>
    BY DEF RefreshSession, At, controller
<1>2. call[c].attempts = 1 /\ call[c].outcome = "none"
    BY <1>1 DEF AttemptsInv
<1>3. CASE newer /\ call[c].class # "mutation" /\ GoTo(c, "send")
             /\ UNCHANGED <<authenticated, holder>>
    <2>1. /\ OnlyCall(c) /\ SameRequest(c)
          /\ call'[c].pc = "send" /\ call'[c].observed = call[c].observed
        BY <1>3, GoToFields DEF Locations
    <2>2. TypeOK'
        BY <1>1, <1>3, <2>1 DEF TypeOK, OnlyCall
    <2>3. NumbersInv' /\ MutexInv' /\ AttemptsInv'
        BY <1>1, <1>2, <1>3, <2>1, SessionAssumption
        DEF NumbersInv, MutexInv, AttemptsInv, OnlyCall, SameRequest
    <2>4. RejectionInv' /\ RenewalInv' /\ DeadSessionIsRenewed'
        BY <1>1, <1>2, <1>3, <2>1
        DEF RejectionInv, RenewalInv, DeadSessionIsRenewed, OnlyCall, SameRequest
    <2> QED BY <1>3, <2>2, <2>3, <2>4
<1>4. CASE \E result \in Outcomes :
             /\ Return(c, result) /\ UNCHANGED <<authenticated, holder>>
             /\ result = "login_required" => call[c].class = "mutation"
    <2>1. /\ OnlyCall(c) /\ call'[c].pc = "idle"
          /\ NumbersInv' /\ AttemptsInv' /\ RejectionInv' /\ RenewalInv'
          /\ DeadSessionIsRenewed'
        BY <1>1, <1>4, ReturnKeeps
    <2>2. TypeOK'
        BY <1>1, <1>4, <2>1 DEF TypeOK, OnlyCall
    <2>3. MutexInv'
        BY <1>1, <1>4, <2>1, SessionAssumption DEF MutexInv, OnlyCall
    <2> QED BY <1>4, <2>1, <2>2, <2>3
<1>5. CASE ~newer /\ ~backoff /\ authenticated' = FALSE /\ holder' = c
             /\ GoTo(c, "refresh_login")
    <2>1. /\ OnlyCall(c) /\ SameRequest(c)
          /\ call'[c].pc = "refresh_login" /\ call'[c].observed = call[c].observed
        BY <1>5, GoToFields DEF Locations
    <2>2. TypeOK'
        <3>1. authenticated' \in BOOLEAN
            BY <1>5, Zenon
        <3> QED BY <1>1, <1>5, <2>1, <3>1 DEF TypeOK, OnlyCall
    <2>3. NumbersInv' /\ AttemptsInv'
        BY <1>1, <1>2, <2>1 DEF NumbersInv, AttemptsInv, OnlyCall, SameRequest
    <2>4. MutexInv'
        BY <1>1, <1>5, <2>1, SessionAssumption DEF MutexInv, OnlyCall
    <2>5. RejectionInv' /\ RenewalInv' /\ DeadSessionIsRenewed'
        BY <1>1, <1>2, <1>5, <2>1
        DEF RejectionInv, RenewalInv, DeadSessionIsRenewed, OnlyCall, SameRequest
    <2>6. authenticated => cookie \notin live
        BY <1>1, <1>5 DEF RejectionInv
    <2> QED BY <2>2, <2>3, <2>4, <2>5, <2>6
<1>6. CASE newer /\ Renewed(c) /\ UNCHANGED <<authenticated, holder>>
    BY <1>3, <1>4, <1>6 DEF Renewed, Outcomes, Answers
<1>7. CASE ~newer /\ backoff /\ NotRenewed(c) /\ UNCHANGED <<authenticated, holder>>
    BY <1>4, <1>7 DEF NotRenewed, Outcomes, Answers
<1> QED BY <1>5, <1>6, <1>7 DEF RefreshSession

\* Drop: the mutex goes with the call, and a login on its way may still put a
\* new session, a live one, into the jar.
LEMMA DropStep ==
    ASSUME NEW c \in Callers, SessionInv, Drop(c)
    PROVE  SessionInv'
<1> USE DEF SessionInv
<1>1. /\ Return(c, "none") /\ holder' = (IF holder = c THEN Nobody ELSE holder)
      /\ UNCHANGED <<kind, csrf, authenticated, generation, backoff, console, expiries,
                     expiredIn>>
    BY DEF Drop
<1>2. /\ OnlyCall(c) /\ call'[c].pc = "idle" /\ call'[c].outcome = "none"
      /\ call'[c].class = call[c].class /\ call'[c].attempts = call[c].attempts
      /\ call'[c].observed = 0 /\ call'[c].used = 0
    BY <1>1, ReturnFields DEF Outcomes
<1>3. MutexInv' /\ AttemptsInv'
    BY <1>1, <1>2, SessionAssumption DEF MutexInv, AttemptsInv, OnlyCall, TypeOK
<1>4. CASE UNCHANGED <<cookie, live, issued>>
    <2>1. TypeOK'
        BY <1>1, <1>2, <1>4 DEF TypeOK, OnlyCall
    <2>2. NumbersInv'
        BY <1>1, <1>2, <1>4, SessionAssumption DEF NumbersInv, OnlyCall, TypeOK, Sessions
    <2>3. RejectionInv' /\ RenewalInv' /\ DeadSessionIsRenewed'
        BY <1>1, <1>2, <1>4 DEF RejectionInv, RenewalInv, DeadSessionIsRenewed, OnlyCall
    <2> QED BY <1>3, <2>1, <2>2, <2>3
<1>5. CASE /\ LoggingIn(c) /\ issued < MaxLogins
           /\ issued' = issued + 1 /\ live' = live \cup {issued + 1}
           /\ cookie' \in {cookie, issued + 1}
    <2>1. ~authenticated
        BY <1>5, SessionAssumption DEF MutexInv, LoggingIn
    <2>2. /\ issued \in Nat /\ generation \in Nat /\ cookie \in Nat /\ MaxLogins \in Nat
          /\ cookie <= issued /\ generation <= issued
          /\ issued + 1 \in Sessions
          /\ \A d \in Callers : call[d].used \in Nat /\ call[d].used <= issued
          /\ \A n \in live : n \in Nat /\ n <= issued
        BY <1>5, SessionAssumption DEF TypeOK, Sessions, NumbersInv, Call
    <2>3. TypeOK'
        BY <1>1, <1>2, <1>5, <2>2 DEF TypeOK, OnlyCall
    <2>4. NumbersInv'
        BY <1>1, <1>2, <1>5, <2>2 DEF NumbersInv, OnlyCall
    <2>5. RejectionInv'
        BY <1>1, <1>2, <1>5, <2>1, <2>2 DEF RejectionInv, OnlyCall
    <2>6. RenewalInv' /\ DeadSessionIsRenewed'
        BY <1>1, <1>2, <1>5 DEF RenewalInv, DeadSessionIsRenewed, OnlyCall
    <2> QED BY <1>3, <2>3, <2>4, <2>5, <2>6
<1> QED BY <1>4, <1>5 DEF Drop

\* Expire: from here on every running call may see a lost session.
LEMMA ExpireStep ==
    ASSUME SessionInv, Expire
    PROVE  SessionInv'
<1> USE DEF SessionInv
<1>1. PICK k \in live : live' = live \ {k}
    BY DEF Expire
<1>2. /\ expiries < MaxExpiries /\ expiries' = expiries + 1 /\ expiredIn' = Callers
      /\ UNCHANGED <<kind, csrf, authenticated, generation, backoff, holder, call, console,
                     cookie, issued>>
    BY DEF Expire, session
<1>3. TypeOK'
    BY <1>1, <1>2, SessionAssumption DEF TypeOK
<1>4. NumbersInv' /\ MutexInv' /\ AttemptsInv'
    BY <1>1, <1>2 DEF NumbersInv, MutexInv, AttemptsInv
<1>5. RejectionInv' /\ RenewalInv' /\ DeadSessionIsRenewed'
    BY <1>1, <1>2 DEF RejectionInv, RenewalInv, DeadSessionIsRenewed
<1> QED BY <1>3, <1>4, <1>5

LEMMA BackoffLapsesStep ==
    ASSUME SessionInv, BackoffLapses
    PROVE  SessionInv'
<1> USE DEF SessionInv
<1>1. /\ backoff' = FALSE
      /\ UNCHANGED <<kind, csrf, authenticated, generation, holder, call, console, cookie,
                     live, issued, expiries, expiredIn>>
    BY DEF BackoffLapses, controller
<1>2. TypeOK'
    <2>1. backoff' \in BOOLEAN
        BY <1>1, Zenon
    <2> QED BY <1>1, <2>1 DEF TypeOK
<1>3. NumbersInv' /\ MutexInv' /\ AttemptsInv'
    BY <1>1 DEF NumbersInv, MutexInv, AttemptsInv
<1>4. RejectionInv' /\ RenewalInv' /\ DeadSessionIsRenewed'
    BY <1>1 DEF RejectionInv, RenewalInv, DeadSessionIsRenewed
<1> QED BY <1>2, <1>3, <1>4

\* Every step of the session keeps the inductive invariant.
LEMMA NextSession == SessionInv /\ [Next]_vars => SessionInv'
<1> SUFFICES ASSUME SessionInv, [Next]_vars PROVE SessionInv'
    OBVIOUS
<1>1. CASE UNCHANGED vars
    <2>1. UNCHANGED <<kind, csrf, authenticated, generation, backoff, holder, call, console,
                      cookie, live, issued, expiries, expiredIn>>
        BY <1>1 DEF vars, session, controller
    <2> QED BY <2>1 DEF SessionInv, TypeOK, NumbersInv, MutexInv, AttemptsInv, RejectionInv,
                        RenewalInv, DeadSessionIsRenewed
<1>2. ASSUME NEW c \in Callers, Begin(c) PROVE SessionInv'
    BY <1>2, BeginStep
<1>3. ASSUME NEW c \in Callers, Progress(c) PROVE SessionInv'
    <2>1. CASE EnsureSession(c)
        BY <2>1, EnsureSessionStep
    <2>2. CASE ProbeNotFound(c)
        BY <2>2, ProbeNotFoundStep
    <2>3. CASE LoginAccepted(c)
        BY <2>3, LoginAcceptedStep
    <2>4. CASE LoginRejected(c)
        BY <2>4, LoginFailureStep DEF LoginRejected
    <2>5. CASE LoginUnavailable(c)
        BY <2>5, LoginFailureStep DEF LoginUnavailable
    <2>6. CASE Prepare(c)
        BY <2>6, PrepareStep
    <2>7. CASE Dispatch(c)
        BY <2>7, DispatchStep
    <2>8. CASE Respond(c)
        BY <2>8, RespondStep
    <2>9. CASE Receive(c)
        BY <2>9, ReceiveStep
    <2>10. CASE RefreshSession(c)
        BY <2>10, RefreshSessionStep
    <2> QED BY <1>3, <2>1, <2>2, <2>3, <2>4, <2>5, <2>6, <2>7, <2>8, <2>9, <2>10
            DEF Progress, Login
<1>4. ASSUME NEW c \in Callers, Drop(c) PROVE SessionInv'
    BY <1>4, DropStep
<1>5. CASE Expire
    BY <1>5, ExpireStep
<1>6. CASE BackoffLapses
    BY <1>6, BackoffLapsesStep
<1> QED BY <1>1, <1>2, <1>3, <1>4, <1>5, <1>6 DEF Next

LEMMA SessionAlways == Spec => []SessionInv
<1> QED BY InitSession, NextSession, PTL DEF Spec

\* The session's variables keep their types, and the generation never runs
\* ahead of the sessions the controller handed out.
THEOREM SessionTypeCorrect == Spec => []TypeOK
<1>1. SessionInv => TypeOK
    BY DEF SessionInv
<1> QED BY <1>1, SessionAlways, PTL

\* A mutation is sent at most once, however many calls share the session, lose
\* it and renew it (request_with_reauth_with_status_bytes).
THEOREM MutationsNeverResent == Spec => []MutationSentOnce
<1>1. SessionInv => MutationSentOnce
    BY DEF SessionInv, AttemptsInv, MutationSentOnce
<1> QED BY <1>1, SessionAlways, PTL

\* A read that reports a lost session lost it during the call
\* (refresh_session).
THEOREM DeadSessionsRenewed == Spec => []DeadSessionIsRenewed
<1>1. SessionInv => DeadSessionIsRenewed
    BY DEF SessionInv
<1> QED BY <1>1, SessionAlways, PTL

\* No login is under way inside the backoff window of a failed one
\* (ensure_session, refresh_session, record_failure).
THEOREM BackoffRespected == Spec => []NoLoginInBackoff
<1>1. SessionInv => NoLoginInBackoff
    BY DEF SessionInv, MutexInv, NoLoginInBackoff
<1> QED BY <1>1, SessionAlways, PTL

\* A session the controller honours is not given up for another login, by any
\* order of stale rejections (the generation check of refresh_session).
THEOREM LiveSessionsKept == Spec => LiveSessionIsKept
<1>1. SessionInv /\ [Next]_vars => [authenticated /\ ~authenticated' => cookie \notin live]_vars
    <2> SUFFICES ASSUME SessionInv, Next, authenticated, ~authenticated'
                 PROVE  cookie \notin live
        OBVIOUS
    <2>1. PICK c \in Callers : RefreshSession(c)
        <3>1. ~Expire /\ ~BackoffLapses
            BY DEF Expire, BackoffLapses, session
        <3>2. PICK c \in Callers : Begin(c) \/ Progress(c) \/ Drop(c)
            BY <3>1 DEF Next
        <3>3. ~Begin(c) /\ ~Drop(c)
            BY DEF Begin, Drop, session
        <3>4. ~EnsureSession(c) /\ ~Prepare(c) /\ ~Dispatch(c) /\ ~Respond(c) /\ ~Receive(c)
            BY DEF EnsureSession, Prepare, Dispatch, Respond, Receive, session
        <3>5. ~Login(c)
            BY DEF Login, ProbeNotFound, LoginAccepted, LoginRejected, LoginUnavailable,
                   LoginFailure
        <3> QED BY <3>2, <3>3, <3>4, <3>5 DEF Progress
    <2> QED BY <2>1, RefreshSessionStep
<1> QED BY <1>1, SessionAlways, PTL DEF Spec, LiveSessionIsKept
=============================================================================
