---------------------------- MODULE AiGeneration ----------------------------
(***************************************************************************)
(* Event descriptions written by an AI: AIService, AIRateLimiter and the   *)
(* providers.                                                              *)
(*                                                                         *)
(* A worker process has its own limiter and its own AIService.  acquire    *)
(* holds an asyncio lock and awaits nothing under it, so it is one step.   *)
(* A request to OpenAI and the pause before the next one are the awaits,   *)
(* where other requests run.  The mock provider awaits nothing.            *)
(*                                                                         *)
(*   idle -> calling -> answered -> idle     (calling <-> sleeping)        *)
(*                                                                         *)
(* Time is an integer; what counts is the order of the hits and the window *)
(* they fall in.                                                           *)
(***************************************************************************)
EXTENDS Integers, Sequences, FiniteSets

CONSTANTS Workers, Users, Requests,
          MaxRequests, Window,   \* ai_rate_limit_requests, ai_rate_limit_window_seconds
          MaxRetries,            \* ai_max_retries
          MaxTime                \* bound of the clock

ASSUME AiAssumption ==
  /\ MaxRequests \in Nat \ {0} /\ Window \in Nat \ {0}
  /\ MaxRetries \in Nat \ {0} /\ MaxTime \in Nat

\* What a request to OpenAI may come to.
Outcomes == {"text", "short", "blank", "api_error", "malformed"}

VARIABLES now,        \* time.monotonic()
          provider,   \* the provider each worker's AIService was built with
          hits,       \* AIRateLimiter._hits of each worker
          call,       \* the requests being served
          admitted    \* history: when each worker admitted each user

vars == <<now, provider, hits, call, admitted>>

Times == 0 .. MaxTime
Idle == [pc |-> "idle"]
Served == [pc : {"calling", "sleeping", "answered"}, worker : Workers, user : Users,
           attempt : 1 .. MaxRetries,
           code : {"ok", "ai_rate_limit_exceeded", "internal_error"}]

\* No request to OpenAI beyond ai_max_retries; the limiter keeps no more hits
\* than it grants.
TypeOK == /\ now \in Times
          /\ provider \in [Workers -> {"mock", "openai"}]
          /\ hits \in [Workers -> [Users -> UNION {[1 .. n -> Times] : n \in 0 .. MaxRequests}]]
          /\ call \in [Requests -> {Idle} \cup Served]

\* AI_PROVIDER=openai without a key falls back to the mock.
CreateAiProvider(wanted, hasKey) ==
  IF wanted = "openai" /\ hasKey THEN "openai" ELSE "mock"

NoHits == [u \in Users |-> <<>>]

Init == /\ now = 0
        /\ \E wanted \in {"mock", "openai"}, hasKey \in BOOLEAN :
             provider = [w \in Workers |-> CreateAiProvider(wanted, hasKey)]
        /\ hits = [w \in Workers |-> NoHits]
        /\ admitted = [w \in Workers |-> NoHits]
        /\ call = [r \in Requests |-> Idle]

-----------------------------------------------------------------------------

At(r, pc) == call[r].pc = pc

Begun(pc, w, u, code) ==
  [pc |-> pc, worker |-> w, user |-> u, attempt |-> 1, code |-> code]

\* Mutant: hits outside the window are never dropped.
RecentOfAllTime(times) == times

\* The hits of a user inside the window that ends now.  A list of hits is in
\* the order of time, so those outside come first.
Recent(times) ==
  LET past == {i \in 1 .. Len(times) : times[i] <= now - Window}
  IN SubSeq(times, Cardinality(past) + 1, Len(times))

\* Mutant: one request too many.
FullLate(recent) == Len(recent) > MaxRequests

Full(recent) == Len(recent) >= MaxRequests

\* generate_event_description up to the first await: acquire, then the mock's
\* text at once or the first request to OpenAI.  A refused user leaves no hit.
Acquire(r, w, u) ==
  /\ At(r, "idle")
  /\ LET recent == Recent(hits[w][u])
     IN IF Full(recent)
        THEN /\ call' = [call EXCEPT ![r] = Begun("answered", w, u, "ai_rate_limit_exceeded")]
             /\ UNCHANGED <<hits, admitted>>
        ELSE /\ hits' = [hits EXCEPT ![w][u] = Append(recent, now)]
             /\ admitted' = [admitted EXCEPT ![w][u] = Append(@, now)]
             /\ call' = [call EXCEPT ![r] =
                           Begun(IF provider[w] = "mock" THEN "answered" ELSE "calling",
                                 w, u, "ok")]
  /\ UNCHANGED <<now, provider>>

\* Mutant: the last attempt is never recognised.
GeneratedEndlessly(attempt, outcome) ==
  CASE outcome \in {"text", "blank"} -> "ok"
    [] outcome = "api_error" -> "retry"
    [] outcome \in {"short", "malformed"} -> "internal_error"

\* What one request to OpenAI makes of a call.  A blank text and the last API
\* error raise AIProviderError, which _generate_with_fallback answers with the
\* mock's text.  A text below min_length fails the response model, and a
\* response without choices raises IndexError: neither is an AIProviderError.
Generated(attempt, outcome) ==
  CASE outcome \in {"text", "blank"} -> "ok"
    [] outcome = "api_error" -> IF attempt >= MaxRetries THEN "ok" ELSE "retry"
    [] outcome \in {"short", "malformed"} -> "internal_error"

OpenAiReturns(r, outcome) ==
  /\ At(r, "calling")
  /\ LET result == Generated(call[r].attempt, outcome)
     IN call' = [call EXCEPT ![r] = IF result = "retry"
                                    THEN [@ EXCEPT !.pc = "sleeping"]
                                    ELSE [@ EXCEPT !.pc = "answered", !.code = result]]
  /\ UNCHANGED <<now, provider, hits, admitted>>

\* Mutant: a loop that forgets which attempt it is in.
WakeForgetful(r) ==
  /\ At(r, "sleeping")
  /\ call' = [call EXCEPT ![r].pc = "calling"]
  /\ UNCHANGED <<now, provider, hits, admitted>>

\* The end of asyncio.sleep: the next attempt of the loop.
Wake(r) ==
  /\ At(r, "sleeping")
  /\ call' = [call EXCEPT ![r].pc = "calling", ![r].attempt = @ + 1]
  /\ UNCHANGED <<now, provider, hits, admitted>>

Respond(r) ==
  /\ At(r, "answered")
  /\ call' = [call EXCEPT ![r] = Idle]
  /\ UNCHANGED <<now, provider, hits, admitted>>

\* A worker that dies takes its requests and its limiter along.
Restart(w) ==
  /\ hits' = [hits EXCEPT ![w] = NoHits]
  /\ admitted' = [admitted EXCEPT ![w] = NoHits]
  /\ call' = [r \in Requests |->
                IF ~At(r, "idle") /\ call[r].worker = w THEN Idle ELSE call[r]]
  /\ UNCHANGED <<now, provider>>

Tick == now < MaxTime /\ now' = now + 1 /\ UNCHANGED <<provider, hits, call, admitted>>

Serve(r) == \/ \E outcome \in Outcomes : OpenAiReturns(r, outcome)
            \/ Wake(r)
            \/ Respond(r)

Next == \/ \E r \in Requests : \/ \E w \in Workers, u \in Users : Acquire(r, w, u)
                               \/ Serve(r)
        \/ \E w \in Workers : Restart(w)
        \/ Tick

Spec == Init /\ [][Next]_vars

\* OpenAI answers or the client times out, and the event loop resumes every
\* coroutine that is ready.
FairSpec == Spec /\ \A r \in Requests : WF_vars(Serve(r))

-----------------------------------------------------------------------------
(* Properties *)

InWindow(times, t) == {i \in 1 .. Len(times) : t - Window < times[i] /\ times[i] <= t}

\* A process admits a user at most MaxRequests times in any window, wherever
\* the window begins (ai_rate_limiter.py).
WindowBound ==
  \A w \in Workers, u \in Users, t \in Times :
    Cardinality(InWindow(admitted[w][u], t)) <= MaxRequests

\* A user is refused only when that many requests of theirs were admitted
\* within the last window.
NoFalseRefusal ==
  [][\A r \in Requests :
       /\ At(r, "idle") /\ call'[r].pc = "answered"
       /\ call'[r].code = "ai_rate_limit_exceeded"
       => Cardinality(InWindow(admitted[call'[r].worker][call'[r].user], now))
            >= MaxRequests]_vars

\* Retries end: every request is answered, or lost with its worker.
Answered == \A r \in Requests : ~At(r, "idle") ~> At(r, "idle")
=============================================================================
