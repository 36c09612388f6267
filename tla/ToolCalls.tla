------------------------------ MODULE ToolCalls ------------------------------
(***************************************************************************)
(* The way of a tool call through the server: the HTTP layers of           *)
(* server.rs and portable.rs (request timeout, then concurrency limit,     *)
(* then authentication and the body limit) and UnifiMcp::call_tool of      *)
(* handler.rs (a semaphore that is never waited for, and a timeout of its  *)
(* own).  Over stdio only the handler's bounds exist.                      *)
(*                                                                         *)
(* Both timeouts have the same length, but the HTTP one runs from the      *)
(* arrival of the request and the handler's from the start of the tool.    *)
(* When the HTTP one fires the caller hears a bare 408.  A client may also *)
(* close its connection at any time.  Both drop the HTTP side of the call  *)
(* and free its slot; whether the MCP library then drops the tool as well  *)
(* or lets it run on, with its permit, is the library's choice.  (Over     *)
(* stdio the client that hangs up ends the server.)                        *)
(*                                                                         *)
(* Each member of Calls is one request.  A module that models tools        *)
(* extends this one, says what happens while a call is running, and ends   *)
(* it with Answer.                                                         *)
(***************************************************************************)
EXTENDS Naturals, FiniteSets

CONSTANTS
    Calls,           \* tool calls
    Transports,      \* the transports a server may be started with
    MaxRequests,     \* max_concurrent_requests, of the layer and the handler
    RequestTimeout,  \* request_timeout, in ticks
    MaxIngress       \* bound: ticks an admitted call has spent on the way

ASSUME ToolCallsAssumption ==
    /\ Transports \subseteq {"stdio", "http"}
    /\ MaxRequests \in Nat \ {0} /\ RequestTimeout \in Nat \ {0}
    /\ MaxIngress \in Nat
    /\ IsFiniteSet(Calls)

VARIABLES
    transport,  \* the transport of this server
    stage,      \* where each call is
    age,        \* ticks since an HTTP request arrived
    spent,      \* ticks since the tool of a running call started
    slots,      \* HTTP requests inside the concurrency limit
    permits,    \* calls that hold a permit of the handler's semaphore
    answer      \* what the caller has heard, or that it has hung up

shell == <<transport, stage, age, spent, slots, permits, answer>>

Stages == {"new", "queued", "ingress", "running", "done"}

\* Answers the layers and the handler give by themselves, and the end of a
\* call whose caller heard nothing.
ShellAnswers == {"http_timeout", "rejected", "busy", "timed_out", "hung_up"}

ShellTypeOK(answers) ==
    /\ transport \in Transports
    /\ stage \in [Calls -> Stages]
    /\ age \in [Calls -> 0..RequestTimeout]
    /\ spent \in [Calls -> 0..RequestTimeout]
    /\ slots \in SUBSET Calls /\ permits \in SUBSET Calls
    /\ answer \in [Calls -> answers \cup ShellAnswers \cup {"none"}]

ShellInit ==
    /\ transport \in Transports
    /\ stage = [c \in Calls |-> "new"]
    /\ age = [c \in Calls |-> 0] /\ spent = [c \in Calls |-> 0]
    /\ slots = {} /\ permits = {}
    /\ answer = [c \in Calls |-> "none"]

Unanswered(c) == stage[c] \notin {"new", "done"} /\ answer[c] = "none"

\* A call that goes on although its caller was told 408 or has hung up.
Detached(c) == stage[c] = "running" /\ answer[c] # "none"

\* The call is over, and a caller who still waits hears a.
Answer(c, a) ==
    /\ stage' = [stage EXCEPT ![c] = "done"]
    /\ answer' = [answer EXCEPT ![c] = IF @ = "none" THEN a ELSE @]
    /\ slots' = slots \ {c} /\ permits' = permits \ {c}
    /\ age' = [age EXCEPT ![c] = 0] /\ spent' = [spent EXCEPT ![c] = 0]
    /\ UNCHANGED transport

\* A request arrives.  stdio has no layers in front of the handler.
Arrive(c) ==
    /\ stage[c] = "new"
    /\ stage' = [stage EXCEPT ![c] = IF transport = "http" THEN "queued" ELSE "ingress"]
    /\ UNCHANGED <<transport, age, spent, slots, permits, answer>>

\* Mutant: the concurrency limit is not layered in.
TakeSlotUnlimited(c) ==
    /\ stage[c] = "queued"
    /\ stage' = [stage EXCEPT ![c] = "ingress"]
    /\ slots' = slots \cup {c}
    /\ UNCHANGED <<transport, age, spent, permits, answer>>

\* ConcurrencyLimitLayer lets the request in.
TakeSlot(c) ==
    /\ stage[c] = "queued"
    /\ Cardinality(slots) < MaxRequests
    /\ stage' = [stage EXCEPT ![c] = "ingress"]
    /\ slots' = slots \cup {c}
    /\ UNCHANGED <<transport, age, spent, permits, answer>>

\* Authentication (which may fetch keys) or the body limit refuses it, so
\* that a call that reaches the handler over HTTP has a principal.
Reject(c) ==
    /\ stage[c] = "ingress" /\ transport = "http"
    /\ Answer(c, "rejected")

\* Mutant: the permit is taken only once the tool is about to write.
AdmitUnlimited(c) ==
    /\ stage[c] = "ingress" /\ age[c] <= MaxIngress
    /\ stage' = [stage EXCEPT ![c] = "running"]
    /\ permits' = permits \cup {c}
    /\ UNCHANGED <<transport, age, spent, slots, answer>>

\* call_tool: take a permit and start the tool, or refuse at once.
Admit(c) ==
    /\ stage[c] = "ingress" /\ age[c] <= MaxIngress
    /\ IF Cardinality(permits) < MaxRequests
       THEN /\ stage' = [stage EXCEPT ![c] = "running"]
            /\ permits' = permits \cup {c}
            /\ UNCHANGED <<transport, age, spent, slots, answer>>
       ELSE Answer(c, "busy")

\* The HTTP side of a call ends, and its slot is free.  A call still on its
\* way in is dropped; a running one is dropped, or goes on with nobody to
\* hear its answer.
GiveUp(c, a) ==
    \/ Answer(c, a)
    \/ /\ stage[c] = "running"
       /\ answer' = [answer EXCEPT ![c] = a]
       /\ slots' = slots \ {c}
       /\ age' = [age EXCEPT ![c] = 0]
       /\ UNCHANGED <<transport, stage, spent, permits>>

\* TimeoutLayer answers 408.
HttpTimeout(c) ==
    /\ transport = "http" /\ Unanswered(c) /\ age[c] = RequestTimeout
    /\ GiveUp(c, "http_timeout")

\* The client closes its connection before it has an answer.
HangUp(c) ==
    /\ transport = "http" /\ Unanswered(c)
    /\ GiveUp(c, "hung_up")

\* Mutant: a tool that overruns its deadline is not dropped.
HandlerTimeoutDetaches(c) ==
    /\ stage[c] = "running" /\ spent[c] = RequestTimeout
    /\ answer[c] = "none"
    /\ answer' = [answer EXCEPT ![c] = "timed_out"]
    /\ slots' = slots \ {c}
    /\ UNCHANGED <<transport, stage, age, spent, permits>>

\* call_tool's own timeout drops the tool where it waits.
HandlerTimeout(c) ==
    /\ stage[c] = "running" /\ spent[c] = RequestTimeout
    /\ Answer(c, "timed_out")

\* Time passes for every call, but not past a deadline that is due.
ShellTick ==
    /\ \E c \in Calls : stage[c] = "running" \/ (transport = "http" /\ Unanswered(c))
    /\ \A c \in Calls :
          /\ stage[c] = "running" => spent[c] < RequestTimeout
          /\ transport = "http" /\ Unanswered(c) => age[c] < RequestTimeout
    /\ age' = [c \in Calls |->
                  IF transport = "http" /\ Unanswered(c) THEN age[c] + 1 ELSE age[c]]
    /\ spent' = [c \in Calls |->
                    IF stage[c] = "running" THEN spent[c] + 1 ELSE spent[c]]
    /\ UNCHANGED <<transport, stage, slots, permits, answer>>

\* What a step of any tool means to the call path: it answers, or nothing.
ShellStep(answers) ==
    \/ \E c \in Calls :
          \/ Arrive(c) \/ TakeSlot(c) \/ Reject(c) \/ Admit(c)
          \/ HttpTimeout(c) \/ HangUp(c) \/ HandlerTimeout(c)
          \/ stage[c] = "running" /\ \E a \in answers : Answer(c, a)
    \/ ShellTick
    \/ UNCHANGED shell

-----------------------------------------------------------------------------
\* Who holds what follows from where the calls are: no permit and no slot
\* outlives its call, and neither bound is exceeded (call_tool's _permit).
BoundsAreKept ==
    /\ permits = {c \in Calls : stage[c] = "running"}
    /\ slots \subseteq {c \in Calls : stage[c] \in {"ingress", "running"}}
    /\ Cardinality(permits) <= MaxRequests
    /\ Cardinality(slots) <= MaxRequests

\* Over HTTP the handler turns a call away as busy only while a call whose
\* caller was told 408 or has hung up still holds a permit: the layer and
\* the semaphore have the same size (with_request_limits,
\* ConcurrencyLimitLayer), so nobody who waits is in the way of another.
BusyOnlyBehindDetached ==
    [][\A c \in Calls :
          transport = "http" /\ answer[c] # "busy" /\ answer'[c] = "busy" =>
              \E d \in Calls : Detached(d)]_shell

\* Every call that arrives is answered or given up by its caller, and gives
\* back its permit and its slot, although no controller and no key server
\* ever has to answer and no caller has to go.
EveryCallEnds ==
    \A c \in Calls : stage[c] \notin {"new", "done"} ~>
                        stage[c] = "done" /\ answer[c] # "none" /\ c \notin permits \cup slots

-----------------------------------------------------------------------------
(***************************************************************************)
(* The strengthening that makes the properties inductive.                  *)
(***************************************************************************)
\* Over HTTP a call on its way in, and a running one that is waited for,
\* are inside the concurrency limit.
SlotsInv ==
    transport = "http" =>
        \A c \in Calls :
            stage[c] = "ingress" \/ (stage[c] = "running" /\ answer[c] = "none") => c \in slots

\* The HTTP clock of a call is ahead of the tool's by its time of ingress.
ClocksInv ==
    \A c \in Calls :
        /\ stage[c] # "running" => spent[c] = 0
        /\ transport = "http" /\ stage[c] = "running" /\ answer[c] = "none" =>
              age[c] <= spent[c] + MaxIngress

ShellInv == BoundsAreKept /\ SlotsInv /\ ClocksInv
=============================================================================
