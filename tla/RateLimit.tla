------------------------------ MODULE RateLimit ------------------------------
(***************************************************************************)
(* The limiter in front of both services, for one client.  A request reads *)
(* the clock and then waits for the limiter's mutex, so the limiter sees   *)
(* readings out of order.                                                  *)
(***************************************************************************)
EXTENDS Integers, FiniteSets, Functions

CONSTANTS
    Callers,                 \* concurrent requests of the client
    RateLimit, Window,       \* limit and window of ratelimit.New
    MaxNow                   \* bound: clock

ASSUME RateConstants ==
    {RateLimit, Window} \subseteq Nat \ {0} /\ MaxNow \in Nat /\ IsFiniteSet(Callers)

VARIABLES
    now,
    reading,      \* the time each waiting request read
    counter,      \* count, and reset: the end of the window (none at first)
    admitted      \* history: requests let through, by the time they read

rateVars == <<now, reading, counter, admitted>>
-----------------------------------------------------------------------------
RateInit ==
    /\ now = 0
    /\ reading = [c \in Callers |-> {}]
    /\ counter = [count |-> 0, reset |-> {}]
    /\ admitted = [t \in 0 .. MaxNow |-> 0]

\* Handler: the request arrives and reads the clock.
ReadClock(c) ==
    /\ reading[c] = {}
    /\ reading' = [reading EXCEPT ![c] = {now}]
    /\ UNCHANGED <<now, counter, admitted>>

\* Mutant: the window begins again at every request.
RefreshedSliding(t) == [count |-> 0, reset |-> {t + Window}]

\* A new window begins with the first reading after the last one.
Refreshed(t) ==
    IF \A e \in counter.reset : t > e THEN [count |-> 0, reset |-> {t + Window}] ELSE counter

\* Allow: count the request, or answer 429.
Allow(c) ==
    \E t \in reading[c] :
       /\ IF Refreshed(t).count >= RateLimit
             THEN counter' = Refreshed(t) /\ UNCHANGED admitted
             ELSE /\ counter' = [Refreshed(t) EXCEPT !.count = @ + 1]
                  /\ admitted' = [admitted EXCEPT ![t] = @ + 1]
       /\ reading' = [reading EXCEPT ![c] = {}]
       /\ UNCHANGED now

NowPasses == now < MaxNow /\ now' = now + 1 /\ UNCHANGED <<reading, counter, admitted>>

RateNext == NowPasses \/ \E c \in Callers : ReadClock(c) \/ Allow(c)

RateSpec == RateInit /\ [][RateNext]_rateVars
-----------------------------------------------------------------------------
Span(t) == {u \in 0 .. MaxNow : t <= u /\ u <= t + Window}

\* However requests fall around the end of a window, and however long they
\* wait for the mutex, no span of one window lets through more than twice the
\* limit and the requests that were waiting (Allow: fixed windows).
RateBounded ==
    \A t \in 0 .. MaxNow :
       SumFunctionOnSet(admitted, Span(t)) <= 2 * RateLimit + Cardinality(Callers) - 1
=============================================================================
