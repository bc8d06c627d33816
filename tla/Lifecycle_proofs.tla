--------------------------- MODULE Lifecycle_proofs ---------------------------
(***************************************************************************)
(* What the runs of MCLifecycle check on small instances, for all of them: *)
(* the limiter's bound, the control frames, and enrollment.                *)
(***************************************************************************)
EXTENDS Enrollment, ControlFrames, RateLimit, SumLemmas

-----------------------------------------------------------------------------
(* The limiter.  Its window [s, e] is the last one begun.  A span [t, t +  *)
(* Window] lies after it, begins in it, contains its begin, or lies before *)
(* it; in the last case nothing but the requests that wait with a reading  *)
(* from the span can still be let through.                                 *)

Through(t) == SumFunctionOnSet(admitted, Span(t))
Waiting(t) == {c \in Callers : \E u \in reading[c] : u \in Span(t)}

RateTypes ==
    /\ now \in 0 .. MaxNow
    /\ reading \in [Callers -> SUBSET (0 .. now)]
    /\ \A c \in Callers : \A t, u \in reading[c] : t = u
    /\ counter \in [count : 0 .. RateLimit, reset : SUBSET Nat]
    /\ admitted \in [0 .. MaxNow -> Nat]
    /\ counter.reset # {} => Callers # {}
    /\ \A e, f \in counter.reset : e = f /\ Window <= e /\ e <= now + Window

WindowBounds ==
    \A t \in 0 .. MaxNow :
       /\ counter.reset = {} => Through(t) = 0
       /\ \A e \in counter.reset :
             /\ e < t => Through(t) = 0
             /\ e - Window <= t /\ t <= e => Through(t) <= counter.count
             /\ t < e - Window /\ e - Window <= t + Window => Through(t) <= RateLimit + counter.count
             /\ t + Window < e - Window =>
                   Through(t) + Cardinality(Waiting(t)) <= 2 * RateLimit + Cardinality(Callers) - 1

RateInv == RateTypes /\ WindowBounds

\* Spans and the sets of waiting requests are finite.
LEMMA RateFinite ==
  ASSUME RateTypes, NEW t \in 0 .. MaxNow
  PROVE  /\ IsFiniteSet(Span(t)) /\ Through(t) \in Nat
         /\ IsFiniteSet(Waiting(t)) /\ Cardinality(Waiting(t)) \in Nat
         /\ Cardinality(Callers) \in Nat /\ Cardinality(Waiting(t)) <= Cardinality(Callers)
<1>1. IsFiniteSet(Span(t))
  <2>1. IsFiniteSet(0 .. MaxNow)
    BY FS_Interval, RateConstants
  <2> QED BY <2>1, FS_Subset, Zenon DEF Span
<1>2. Through(t) \in Nat
  <2>1. \A u \in Span(t) : admitted[u] \in Nat
    BY Zenon DEF RateTypes, Span
  <2> QED BY <1>1, <2>1, SumType, Zenon DEF Through
<1>3. Waiting(t) \subseteq Callers /\ IsFiniteSet(Callers)
  BY RateConstants, Zenon DEF Waiting
<1> QED BY <1>1, <1>2, <1>3, FS_Subset, FS_CardinalityType, Zenon

\* At first nothing was let through.
LEMMA InitRate == RateInit => RateInv
<1> SUFFICES ASSUME RateInit PROVE RateInv
  BY Zenon
<1>1. RateTypes
  BY RateConstants DEF RateInit, RateTypes
<1>2. ASSUME NEW t \in 0 .. MaxNow PROVE Through(t) = 0
  <2>1. \A u \in Span(t) : admitted[u] = 0
    BY Zenon DEF RateInit, Span
  <2> QED BY <1>1, <2>1, RateFinite, SumZeros, Zenon DEF Through
<1> QED BY <1>1, <1>2, Zenon DEF RateInv, WindowBounds, RateInit

\* The bound follows: a span meets at most two windows, and else only requests
\* that were waiting.
LEMMA RateInvBounds == RateInv => RateBounded
<1> SUFFICES ASSUME RateInv, NEW t \in 0 .. MaxNow
             PROVE  Through(t) <= 2 * RateLimit + Cardinality(Callers) - 1
  BY Zenon DEF RateBounded, Through
<1>1. Through(t) \in Nat /\ Cardinality(Waiting(t)) \in Nat /\ Cardinality(Callers) \in Nat
  BY RateFinite, Zenon DEF RateInv
<1>2. RateLimit \in Nat \ {0} /\ Window \in Nat /\ counter.count \in 0 .. RateLimit /\ t \in Nat
  BY RateConstants DEF RateInv, RateTypes
<1>3. CASE counter.reset = {}
  BY <1>1, <1>2, <1>3 DEF RateInv, WindowBounds
<1>4. ASSUME NEW e \in counter.reset
      PROVE  Through(t) <= 2 * RateLimit + Cardinality(Callers) - 1
  <2>1. e \in Nat
    BY Zenon DEF RateInv, RateTypes
  <2>2. Cardinality(Callers) # 0
    BY <1>4, RateConstants, FS_EmptySet, Zenon DEF RateInv, RateTypes
  <2>3. /\ e < t => Through(t) = 0
        /\ e - Window <= t /\ t <= e => Through(t) <= counter.count
        /\ t < e - Window /\ e - Window <= t + Window => Through(t) <= RateLimit + counter.count
        /\ t + Window < e - Window =>
              Through(t) + Cardinality(Waiting(t)) <= 2 * RateLimit + Cardinality(Callers) - 1
    BY <1>4, Zenon DEF RateInv, WindowBounds
  <2> QED BY <1>1, <1>2, <2>1, <2>2, <2>3
<1> QED BY <1>3, <1>4, Zenon

\* A request that reads the clock reads a time no earlier than the window's begin.
LEMMA ReadClockKeeps ==
  ASSUME RateInv, NEW c \in Callers, ReadClock(c)
  PROVE  RateInv'
<1>1. RateTypes'
  BY DEF RateInv, RateTypes, ReadClock
<1>2. ASSUME NEW t \in 0 .. MaxNow PROVE Through(t)' = Through(t)
  BY Zenon DEF Through, Span, ReadClock
<1>3. ASSUME NEW t \in 0 .. MaxNow, NEW e \in counter.reset, t + Window < e - Window
      PROVE  Waiting(t)' = Waiting(t)
  <2>1. now \notin Span(t)
    <3>1. now \in Nat /\ e \in Nat /\ Window \in Nat /\ t \in Nat /\ e <= now + Window
      BY RateConstants DEF RateInv, RateTypes
    <3> QED BY <1>3, <3>1 DEF Span
  <2> QED BY <2>1 DEF Waiting, ReadClock, Span, RateInv, RateTypes
<1>4. counter' = counter
  BY Zenon DEF ReadClock
<1> QED BY <1>1, <1>2, <1>3, <1>4, Zenon DEF RateInv, WindowBounds

\* What Allow does to the sums: the time read gains one, if the request passes.
LEMMA AllowCounts ==
  ASSUME RateInv, NEW c \in Callers, NEW t0 \in reading[c], NEW t \in 0 .. MaxNow,
         reading' = [reading EXCEPT ![c] = {}]
  PROVE  /\ Waiting(t)' = Waiting(t) \ {c}
         /\ t0 \in Span(t) => c \in Waiting(t) /\ Cardinality(Waiting(t)') = Cardinality(Waiting(t)) - 1
         /\ t0 \notin Span(t) => c \notin Waiting(t) /\ Waiting(t)' = Waiting(t)
         /\ Cardinality(Waiting(t)') \in Nat /\ Cardinality(Waiting(t)') <= Cardinality(Waiting(t))
         /\ admitted' = admitted => Through(t)' = Through(t)
         /\ admitted' = [admitted EXCEPT ![t0] = @ + 1] =>
               Through(t)' = Through(t) + (IF t0 \in Span(t) THEN 1 ELSE 0)
<1>1. t0 \in 0 .. MaxNow /\ \A u \in reading[c] : u = t0
  BY RateConstants DEF RateInv, RateTypes
<1>2. Waiting(t)' = Waiting(t) \ {c}
  BY Zenon DEF Waiting, Span, RateInv, RateTypes
<1>3. t0 \in Span(t) <=> c \in Waiting(t)
  BY <1>1, Zenon DEF Waiting
<1>4. IsFiniteSet(Waiting(t)) /\ Cardinality(Waiting(t)) \in Nat
  BY RateFinite, Zenon DEF RateInv
<1>5. c \in Waiting(t) => Cardinality(Waiting(t) \ {c}) = Cardinality(Waiting(t)) - 1
  BY <1>4, FS_RemoveElement, Zenon
<1>6. c \notin Waiting(t) => Waiting(t) \ {c} = Waiting(t)
  BY Zenon
<1>7. Cardinality(Waiting(t) \ {c}) \in Nat /\ Cardinality(Waiting(t) \ {c}) <= Cardinality(Waiting(t))
  BY <1>4, FS_Subset, FS_CardinalityType, Zenon
<1>8. admitted' = admitted => Through(t)' = Through(t)
  BY Zenon DEF Through, Span
<1>9. ASSUME admitted' = [admitted EXCEPT ![t0] = @ + 1]
      PROVE  Through(t)' = Through(t) + (IF t0 \in Span(t) THEN 1 ELSE 0)
  <2>1. /\ \A u \in Span(t) : admitted[u] \in Nat
        /\ t0 \in Span(t) => admitted'[t0] = admitted[t0] + 1
        /\ \A u \in Span(t) \ {t0} : admitted'[u] = admitted[u]
    BY <1>1, <1>9 DEF Span, RateInv, RateTypes
  <2>2. IsFiniteSet(Span(t))
    BY RateFinite, Zenon DEF RateInv
  <2>3. SumFunctionOnSet(admitted', Span(t)) = SumFunctionOnSet(admitted, Span(t)) + (IF t0 \in Span(t) THEN 1 ELSE 0)
    BY <2>1, <2>2, SumBump, Zenon
  <2> QED BY <2>3, Zenon DEF Through, Span
<1> QED BY <1>2, <1>3, <1>5, <1>6, <1>7, <1>8, <1>9, Zenon

\* Allow within the window: counted, or refused.
LEMMA AllowInWindow ==
  ASSUME RateInv, NEW c \in Callers, NEW t0 \in reading[c], NEW e \in counter.reset, t0 <= e,
         reading' = [reading EXCEPT ![c] = {}], now' = now,
         \/ counter' = counter /\ admitted' = admitted
         \/ /\ counter.count < RateLimit
            /\ counter' = [counter EXCEPT !.count = @ + 1]
            /\ admitted' = [admitted EXCEPT ![t0] = @ + 1]
  PROVE  RateInv'
<1>1. /\ t0 \in 0 .. MaxNow /\ t0 \in Nat /\ e \in Nat /\ Window \in Nat
      /\ counter.reset = {e} /\ counter.count \in 0 .. RateLimit /\ RateLimit \in Nat
  BY RateConstants DEF RateInv, RateTypes
<1>2. counter'.reset = {e} /\ counter'.count \in 0 .. RateLimit
  BY <1>1 DEF RateInv, RateTypes
<1>3. RateTypes'
  <2>1. counter' \in [count : 0 .. RateLimit, reset : SUBSET Nat]
    BY <1>1, <1>2, Zenon DEF RateInv, RateTypes
  <2>2. admitted' \in [0 .. MaxNow -> Nat]
    BY <1>1, SMTT(30) DEF RateInv, RateTypes
  <2>3. reading' \in [Callers -> SUBSET (0 .. now)] /\ \A d \in Callers : \A t, u \in reading'[d] : t = u
    BY Zenon DEF RateInv, RateTypes
  <2> QED BY <1>1, <1>2, <2>1, <2>2, <2>3, Zenon DEF RateInv, RateTypes
<1>4. ASSUME NEW t \in 0 .. MaxNow
      PROVE  /\ e < t => Through(t)' = 0
             /\ e - Window <= t /\ t <= e => Through(t)' <= counter'.count
             /\ t < e - Window /\ e - Window <= t + Window => Through(t)' <= RateLimit + counter'.count
             /\ t + Window < e - Window =>
                   Through(t)' + Cardinality(Waiting(t)') <= 2 * RateLimit + Cardinality(Callers) - 1
  <2>1. /\ e < t => Through(t) = 0
        /\ e - Window <= t /\ t <= e => Through(t) <= counter.count
        /\ t < e - Window /\ e - Window <= t + Window => Through(t) <= RateLimit + counter.count
        /\ t + Window < e - Window =>
              Through(t) + Cardinality(Waiting(t)) <= 2 * RateLimit + Cardinality(Callers) - 1
    BY Zenon DEF RateInv, WindowBounds
  <2>2. /\ t \in Nat /\ Through(t) \in Nat /\ Cardinality(Waiting(t)) \in Nat
        /\ Cardinality(Callers) \in Nat
    BY RateFinite, RateConstants DEF RateInv
  <2>3. e < t => t0 \notin Span(t)
    BY <1>1, <2>2 DEF Span
  <2>4. CASE counter' = counter /\ admitted' = admitted
    <3>1. /\ Through(t)' = Through(t) /\ Cardinality(Waiting(t)') \in Nat
          /\ Cardinality(Waiting(t)') <= Cardinality(Waiting(t))
      BY <2>4, AllowCounts, Zenon
    <3> QED BY <1>1, <2>1, <2>2, <2>4, <3>1
  <2>5. CASE /\ counter' = [counter EXCEPT !.count = @ + 1]
             /\ admitted' = [admitted EXCEPT ![t0] = @ + 1]
    <3>1. counter'.count = counter.count + 1
      BY <2>5, Zenon DEF RateInv, RateTypes
    <3>2. CASE t0 \in Span(t)
      <4>1. Through(t)' = Through(t) + 1 /\ Cardinality(Waiting(t)') = Cardinality(Waiting(t)) - 1
        BY <2>5, <3>2, AllowCounts, Zenon
      <4> QED BY <1>1, <2>1, <2>2, <2>3, <3>1, <3>2, <4>1
    <3>3. CASE t0 \notin Span(t)
      <4>1. Through(t)' = Through(t) + 0 /\ Waiting(t)' = Waiting(t)
        BY <2>5, <3>3, AllowCounts, Zenon
      <4> QED BY <1>1, <2>1, <2>2, <3>1, <4>1
    <3> QED BY <3>2, <3>3, Zenon
  <2> QED BY <2>4, <2>5, Zenon
<1> QED BY <1>2, <1>3, <1>4, Zenon DEF RateInv, WindowBounds

\* Allow after the window: the reading begins the next one.
LEMMA AllowAfterWindow ==
  ASSUME RateInv, NEW c \in Callers, NEW t0 \in reading[c], \A e \in counter.reset : t0 > e,
         reading' = [reading EXCEPT ![c] = {}], now' = now,
         counter' = [count |-> 1, reset |-> {t0 + Window}],
         admitted' = [admitted EXCEPT ![t0] = @ + 1]
  PROVE  RateInv'
<1>1. /\ t0 \in 0 .. MaxNow /\ t0 \in Nat /\ Window \in Nat \ {0} /\ t0 <= now /\ now \in Nat
      /\ counter.count \in 0 .. RateLimit /\ RateLimit \in Nat \ {0}
  BY RateConstants DEF RateInv, RateTypes
<1>2. RateTypes'
  BY <1>1 DEF RateInv, RateTypes
<1>3. ASSUME NEW t \in 0 .. MaxNow
      PROVE  /\ t0 + Window < t => Through(t)' = 0
             /\ t0 <= t /\ t <= t0 + Window => Through(t)' <= 1
             /\ t < t0 /\ t0 <= t + Window => Through(t)' <= RateLimit + 1
             /\ t + Window < t0 =>
                   Through(t)' + Cardinality(Waiting(t)') <= 2 * RateLimit + Cardinality(Callers) - 1
  <2>1. /\ t \in Nat /\ Through(t) \in Nat /\ IsFiniteSet(Callers)
        /\ Cardinality(Callers) \in Nat
    BY RateFinite, RateConstants DEF RateInv
  <2>2. /\ t0 \in Span(t) <=> t <= t0 /\ t0 <= t + Window
        /\ Through(t)' = Through(t) + (IF t0 \in Span(t) THEN 1 ELSE 0)
    BY <1>1, AllowCounts, Zenon DEF Span
  \* A request beyond the span waits, and is not one of those in it.
  <2>3. t + Window < t0 =>
           /\ Cardinality(Waiting(t)') \in Nat /\ Waiting(t)' = Waiting(t)
           /\ Cardinality(Waiting(t)') <= Cardinality(Callers) - 1
    <3> SUFFICES ASSUME t + Window < t0
                 PROVE  /\ Cardinality(Waiting(t)') \in Nat /\ Waiting(t)' = Waiting(t)
                        /\ Cardinality(Waiting(t)') <= Cardinality(Callers) - 1
      BY Zenon
    <3>1. t0 \notin Span(t)
      BY <1>1, <2>1, <2>2
    <3>2. c \notin Waiting(t) /\ Waiting(t)' = Waiting(t)
      BY <3>1, AllowCounts, Zenon
    <3>3. Waiting(t) \subseteq Callers \ {c}
      BY <3>2, Zenon DEF Waiting
    <3>4. IsFiniteSet(Callers \ {c}) /\ Cardinality(Callers \ {c}) = Cardinality(Callers) - 1
      BY <2>1, FS_RemoveElement, Zenon
    <3>5. Cardinality(Waiting(t)) <= Cardinality(Callers \ {c}) /\ IsFiniteSet(Waiting(t))
      BY <3>3, <3>4, FS_Subset, Zenon
    <3>6. Cardinality(Waiting(t)) \in Nat
      BY <3>5, FS_CardinalityType, Zenon
    <3> QED BY <3>2, <3>4, <3>5, <3>6, Zenon
  <2>4. /\ \/ Through(t) <= 2 * RateLimit
           \/ Through(t) + Cardinality(Waiting(t)) <= 2 * RateLimit + Cardinality(Callers) - 1
        /\ t0 <= t => Through(t) = 0
        /\ t0 <= t + Window => Through(t) <= RateLimit
    <3>1. CASE counter.reset = {}
      BY <1>1, <2>1, <3>1 DEF RateInv, WindowBounds
    <3>2. CASE counter.reset # {}
      <4>1. PICK e : e \in counter.reset
        BY <3>2, Zenon
      <4>2. e \in Nat /\ e < t0 /\ Window <= e
        BY <1>1, <4>1, Zenon DEF RateInv, RateTypes
      <4>3. /\ e < t => Through(t) = 0
            /\ e - Window <= t /\ t <= e => Through(t) <= counter.count
            /\ t < e - Window /\ e - Window <= t + Window => Through(t) <= RateLimit + counter.count
            /\ t + Window < e - Window =>
                  Through(t) + Cardinality(Waiting(t)) <= 2 * RateLimit + Cardinality(Callers) - 1
        BY <4>1, Zenon DEF RateInv, WindowBounds
      <4> QED BY <1>1, <2>1, <4>2, <4>3
    <3> QED BY <3>1, <3>2, Zenon
  <2>5. t0 + Window < t => Through(t)' = 0
    BY <1>1, <2>1, <2>2, <2>4
  <2>6. t0 <= t /\ t <= t0 + Window => Through(t)' <= 1
    BY <1>1, <2>1, <2>2, <2>4
  <2>7. t < t0 /\ t0 <= t + Window => Through(t)' <= RateLimit + 1
    BY <1>1, <2>1, <2>2, <2>4
  <2>8. t + Window < t0 => Through(t)' + Cardinality(Waiting(t)') <= 2 * RateLimit + Cardinality(Callers) - 1
    BY <1>1, <2>1, <2>2, <2>3, <2>4
  <2> QED BY <2>5, <2>6, <2>7, <2>8, Zenon
<1>4. counter'.reset = {t0 + Window} /\ counter'.count = 1 /\ (t0 + Window) - Window = t0
  BY <1>1
<1> QED BY <1>2, <1>3, <1>4, Zenon DEF RateInv, WindowBounds

\* Allow, whichever way the time falls.
LEMMA AllowKeeps ==
  ASSUME RateInv, NEW c \in Callers, Allow(c)
  PROVE  RateInv'
<1>1. PICK t0 \in reading[c] :
         /\ IF Refreshed(t0).count >= RateLimit
               THEN counter' = Refreshed(t0) /\ UNCHANGED admitted
               ELSE /\ counter' = [Refreshed(t0) EXCEPT !.count = @ + 1]
                    /\ admitted' = [admitted EXCEPT ![t0] = @ + 1]
         /\ reading' = [reading EXCEPT ![c] = {}]
         /\ UNCHANGED now
  BY Zenon DEF Allow
<1>2. t0 \in Nat /\ counter.count \in Nat /\ RateLimit \in Nat \ {0}
  BY RateConstants DEF RateInv, RateTypes
<1>3. CASE \A e \in counter.reset : t0 > e
  <2>1. Refreshed(t0) = [count |-> 0, reset |-> {t0 + Window}]
    BY <1>3, Zenon DEF Refreshed
  <2>2. /\ counter' = [count |-> 1, reset |-> {t0 + Window}]
        /\ admitted' = [admitted EXCEPT ![t0] = @ + 1]
    BY <1>1, <1>2, <2>1
  <2> QED BY <1>1, <1>3, <2>2, AllowAfterWindow, Zenon
<1>4. ASSUME NEW e \in counter.reset, ~(t0 > e) PROVE RateInv'
  <2>1. Refreshed(t0) = counter /\ t0 <= e
    BY <1>2, <1>4 DEF Refreshed, RateInv, RateTypes
  <2>2. \/ counter' = counter /\ admitted' = admitted
        \/ /\ counter.count < RateLimit
           /\ counter' = [counter EXCEPT !.count = @ + 1]
           /\ admitted' = [admitted EXCEPT ![t0] = @ + 1]
    BY <1>1, <1>2, <2>1
  <2> QED BY <1>1, <2>1, <2>2, AllowInWindow, Zenon
<1> QED BY <1>3, <1>4, Zenon

\* Every step of the limiter keeps the bounds.
LEMMA NextRate == RateInv /\ [RateNext]_rateVars => RateInv'
<1>1. ASSUME RateInv, NowPasses \/ UNCHANGED rateVars PROVE RateInv'
  <2>1. reading' = reading /\ counter' = counter /\ admitted' = admitted
    BY <1>1, Zenon DEF NowPasses, rateVars
  <2>2. RateTypes'
    BY <1>1, <2>1, RateConstants, SMTT(30) DEF RateInv, RateTypes, NowPasses, rateVars
  <2>3. WindowBounds'
    BY <1>1, <2>1, Zenon DEF RateInv, WindowBounds, Through, Waiting, Span
  <2> QED BY <2>2, <2>3, Zenon DEF RateInv
<1> QED BY <1>1, ReadClockKeeps, AllowKeeps, Zenon DEF RateNext

\* For any limit, window and number of concurrent requests, no span of one
\* window lets through more than twice the limit and the requests that were
\* waiting (Allow).
THEOREM RateAlwaysBounded == RateSpec => []RateBounded
<1>1. RateSpec => []RateInv
  BY InitRate, NextRate, PTL DEF RateSpec
<1> QED BY <1>1, RateInvBounds, PTL
-----------------------------------------------------------------------------
(* Control frames.  The frame under way was made by its sender with the    *)
(* time its clock showed; a copy that verifies is that frame, for an ideal *)
(* signature fixes key, type and content.                                  *)

\* What CreateReopen and CreateClose made at f.at.
MadeFor(f, from, to, type, why) ==
    /\ (type = "reopen" /\ why \in Causes) \/ (type = "close" /\ why \in CloseReasons)
    /\ f.o = Signed(from, type, FrameBody(from, to, pinned[from], why, f.at + offset[from]))

ControlInv ==
    /\ time \in Nat /\ offset \in [Peers -> Nat]
    /\ \A f \in frame :
          /\ f.at \in Nat /\ f.at <= time
          /\ \E from, to \in Peers : \E type, why : MadeFor(f, from, to, type, why)
    /\ FramesAuthentic

\* Truncate goes back less than a second.
LEMMA TruncateRange ==
  ASSUME NEW x \in Nat
  PROVE  /\ Truncate(x) \in Int /\ Truncate(x) <= x /\ x - Second < Truncate(x)
  BY ControlConstants DEF Truncate

\* What arrives keeps the signature; only the content may change.
LEMMA CopiesKeepSignature ==
  ASSUME NEW by, NEW type, NEW body, NEW o \in Copies(Signed(by, type, body))
  PROVE  o.type = type /\ o.sig = [key |-> by, over |-> <<type, body>>]
  BY DEF Copies, Signed, Damaged, SignatureInput

\* Equal signatures have equal keys, types and contents.
LEMMA SignatureFixes ==
  ASSUME NEW k, NEW l, NEW type, NEW as, NEW body, NEW other,
         [key |-> k, over |-> <<type, body>>] = [key |-> l, over |-> <<as, other>>]
  PROVE  k = l /\ type = as /\ body = other
  BY Zenon

\* A frame that verifies is the frame that was made, by whom and as what it says.
LEMMA VerifiedIsMade ==
  ASSUME ControlInv, NEW f \in frame, NEW o \in Copies(f.o), NEW p \in Peers,
         NEW as, FrameFits(o, o.body.from, p, pinned[p], Reading(p)), Verify(o.body.from, as, o)
  PROVE  /\ f.o.type = as /\ f.o.body = o.body /\ o.body.to = p
         /\ time - f.at < ControlFrameMaxTTL + offset[o.body.from] - offset[p]
<1>1. PICK from \in Peers, to \in Peers : \E type, why : MadeFor(f, from, to, type, why)
  BY Zenon DEF ControlInv
<1>2. PICK type, why : MadeFor(f, from, to, type, why)
  BY <1>1, Zenon
<1> DEFINE body == FrameBody(from, to, pinned[from], why, f.at + offset[from])
<1>3. f.o = Signed(from, type, body) /\ f.o.type = type /\ f.o.body = body
  BY <1>2 DEF MadeFor, Signed
<1> HIDE DEF body
<1>4. o.sig = [key |-> from, over |-> <<type, body>>]
  BY <1>3, CopiesKeepSignature
<1>5. o.sig = [key |-> o.body.from, over |-> <<as, o.body>>]
  BY Zenon DEF Verify, SignatureInput
<1>6. o.body.from = from /\ as = type /\ o.body = body
  <2> DEFINE l == o.body.from
             other == o.body
  <2>1. [key |-> from, over |-> <<type, body>>] = [key |-> l, over |-> <<as, other>>]
    BY <1>4, <1>5, Zenon
  <2> HIDE DEF l, other
  <2>2. from = l /\ type = as /\ body = other
    BY <2>1, SignatureFixes, Zenon
  <2> QED BY <2>2, Zenon DEF l, other
<1>7. /\ f.at \in Nat /\ time \in Nat /\ offset[from] \in Nat /\ offset[p] \in Nat
      /\ ControlFrameMaxTTL \in Nat /\ Second \in Nat
  BY ControlConstants, Zenon DEF ControlInv
<1>8. time + offset[p] < Truncate(f.at + offset[from]) + ControlFrameMaxTTL /\ o.body.to = p
  BY <1>6 DEF FrameFits, verifyControlWindow, Reading, body, FrameBody
<1>9. Truncate(f.at + offset[from]) \in Int /\ Truncate(f.at + offset[from]) <= f.at + offset[from]
  BY <1>7, TruncateRange
<1>10. time - f.at < ControlFrameMaxTTL + offset[from] - offset[p]
  BY <1>7, <1>8, <1>9
<1> QED BY <1>3, <1>6, <1>8, <1>10, Zenon

\* At first no frame is under way.
LEMMA InitControl == ControlInit => ControlInv
  BY FrameBounds DEF ControlInit, ControlInv, FramesAuthentic

\* How a frame was made does not change.
LEMMA MadeStays ==
  ASSUME UNCHANGED <<offset, pinned>>
  PROVE  \A f, from, to, type, why : MadeFor(f, from, to, type, why)' <=> MadeFor(f, from, to, type, why)
  BY DEF MadeFor

\* A frame accepted is the one that was made.
LEMMA ReceiveKeeps ==
  ASSUME ControlInv, NEW p \in Peers, ReceiveReopen(p) \/ ReceiveClose(p)
  PROVE  ControlInv'
<1>1. UNCHANGED <<time, offset, pinned, frame>>
  BY Zenon DEF ReceiveReopen, ReceiveClose
<1>2. PICK f \in frame : \E o \in Copies(f.o), as \in {"reopen", "close"} :
         /\ FrameFits(o, o.body.from, p, pinned[p], Reading(p)) /\ Verify(o.body.from, as, o)
         /\ taken' = {[by |-> p, as |-> as, body |-> o.body]}
  BY Zenon DEF ReceiveReopen, ReceiveClose, VerifyReopen, VerifyClose
<1>3. PICK o \in Copies(f.o), as \in {"reopen", "close"} :
         /\ FrameFits(o, o.body.from, p, pinned[p], Reading(p)) /\ Verify(o.body.from, as, o)
         /\ taken' = {[by |-> p, as |-> as, body |-> o.body]}
  BY <1>2, Zenon
<1>4. /\ f.o.type = as /\ f.o.body = o.body /\ o.body.to = p
      /\ time - f.at < ControlFrameMaxTTL + offset[o.body.from] - offset[p]
  BY <1>3, VerifiedIsMade, Zenon
<1>5. FramesAuthentic'
  <2>1. ASSUME NEW t \in taken'
        PROVE  /\ f.o.type = t.as /\ f.o.body = t.body /\ t.body.to = t.by
               /\ time - f.at < ControlFrameMaxTTL + offset[t.body.from] - offset[t.by]
    <3> DEFINE b == o.body
    <3>1. t = [by |-> p, as |-> as, body |-> b]
      BY <1>3, Zenon
    <3> HIDE DEF b
    <3>2. t.by = p /\ t.as = as /\ t.body = b
      BY <3>1, Zenon
    <3> QED BY <1>4, <3>2, Zenon DEF b
  <2> QED BY <1>1, <2>1, Zenon DEF FramesAuthentic
<1> QED BY <1>1, <1>5, MadeStays DEF ControlInv

\* A new frame carries what its sender's clock showed.
LEMMA SendKeeps ==
  ASSUME ControlInv, NEW p \in Peers, NEW q \in Peers,
         \/ \E w \in Causes : SendReopen(p, q, w)
         \/ \E w \in CloseReasons : SendClose(p, q, w)
  PROVE  ControlInv'
<1>1. UNCHANGED <<time, offset, pinned, taken>> /\ taken = {}
  BY Zenon DEF SendReopen, SendClose
<1>2. PICK type, w :
         /\ (type = "reopen" /\ w \in Causes) \/ (type = "close" /\ w \in CloseReasons)
         /\ frame' = {[o |-> Signed(p, type, FrameBody(p, q, pinned[p], w, time + offset[p])), at |-> time]}
  BY Zenon DEF SendReopen, SendClose, CreateReopen, CreateClose, Reading
<1>3. \A f \in frame' : f.at = time /\ MadeFor(f, p, q, type, w)'
  BY <1>1, <1>2 DEF MadeFor
<1> QED BY <1>1, <1>3 DEF ControlInv, FramesAuthentic

\* Every step keeps the frames as they were made.
LEMMA NextControl == ControlInv /\ [ControlNext]_controlVars => ControlInv'
<1>1. ASSUME ControlInv, FrameHandled \/ UNCHANGED controlVars PROVE ControlInv'
  <2>1. UNCHANGED <<time, offset, pinned, frame>> /\ (taken' = {} \/ taken' = taken)
    BY <1>1, Zenon DEF FrameHandled, controlVars
  <2>2. FramesAuthentic'
    BY <1>1, <2>1, Zenon DEF ControlInv, FramesAuthentic
  <2> QED BY <1>1, <2>1, <2>2, MadeStays DEF ControlInv
<1>2. ASSUME ControlInv, TimePasses PROVE ControlInv'
  <2>1. UNCHANGED <<offset, pinned, frame, taken>> /\ taken = {} /\ time' = time + 1
    BY <1>2, Zenon DEF TimePasses
  <2>2. time' \in Nat /\ \A f \in frame : f.at \in Nat /\ f.at <= time'
    BY <1>2, <2>1 DEF ControlInv
  <2> QED BY <1>2, <2>1, <2>2, MadeStays DEF ControlInv, FramesAuthentic
<1> QED BY <1>1, <1>2, ReceiveKeeps, SendKeeps, Zenon DEF ControlNext

\* A frame is on its window when it arrives at once with clocks close enough.
LEMMA FreshVerifies == ControlInv => FreshFramesAccepted
<1> SUFFICES ASSUME ControlInv, NEW f \in frame, f.at = time,
                    pinned[f.o.body.to] = pinned[f.o.body.from],
                    offset[f.o.body.from] - offset[f.o.body.to] <= ControlFrameClockSkew,
                    offset[f.o.body.to] - offset[f.o.body.from] <= ControlFrameClockSkew
             PROVE  \/ VerifyReopen(f.o, f.o.body.from, f.o.body.to, pinned[f.o.body.to], Reading(f.o.body.to))
                    \/ VerifyClose(f.o, f.o.body.from, f.o.body.to, pinned[f.o.body.to], Reading(f.o.body.to))
  BY Zenon DEF FreshFramesAccepted
<1>1. PICK from \in Peers, to \in Peers : \E type, why : MadeFor(f, from, to, type, why)
  BY Zenon DEF ControlInv
<1>2. PICK type, why : MadeFor(f, from, to, type, why)
  BY <1>1, Zenon
<1> DEFINE cut == Truncate(time + offset[from])
<1>3. /\ f.o.type = type /\ f.o.kid = from
      /\ f.o.sig = [key |-> from, over |-> <<type, f.o.body>>]
      /\ f.o.body = [from |-> from, to |-> to, relay |-> pinned[from], why |-> why,
                     issued |-> cut, expires |-> cut + ControlFrameMaxTTL]
  BY <1>2, SMTT(30) DEF MadeFor, Signed, SignatureInput, FrameBody
<1>4. /\ time \in Nat /\ offset[from] \in Nat /\ offset[to] \in Nat
      /\ ControlFrameMaxTTL \in Nat /\ ControlFrameClockSkew \in Nat /\ Second \in Nat
      /\ ControlFrameClockSkew + Second <= ControlFrameMaxTTL
  BY ControlConstants, Zenon DEF ControlInv
<1>5. cut \in Int /\ cut <= time + offset[from] /\ (time + offset[from]) - Second < cut
  BY <1>4, TruncateRange
<1> HIDE DEF cut
<1>6. verifyControlWindow(f.o.body, time + offset[to])
  <2>1. /\ cut <= (time + offset[to]) + ControlFrameClockSkew
        /\ time + offset[to] < cut + ControlFrameMaxTTL
        /\ cut <= cut + ControlFrameMaxTTL /\ (cut + ControlFrameMaxTTL) - cut <= ControlFrameMaxTTL
    BY <1>3, <1>4, <1>5
  <2> QED BY <1>3, <2>1, SMTT(30) DEF verifyControlWindow
<1>7. FrameFits(f.o, from, to, pinned[to], Reading(to)) /\ Verify(from, type, f.o)
  BY <1>3, <1>6, SMTT(30) DEF FrameFits, Verify, SignatureInput, Reading
<1> QED BY <1>2, <1>3, <1>7, SMTT(30) DEF MadeFor, VerifyReopen, VerifyClose

\* Every reachable state of the frame exchange satisfies the strengthening.
THEOREM ControlInvariant == ControlSpec => []ControlInv
  BY InitControl, NextControl, PTL DEF ControlSpec

\* For any devices, clocks and constants: a frame is acted upon only as what its
\* sender made it for, within its lifetime (VerifyReopen, VerifyClose).
THEOREM FramesAlwaysAuthentic == ControlSpec => []FramesAuthentic
  BY ControlInvariant, PTL DEF ControlInv

\* For any skew that leaves a second of the lifetime, a prompt frame verifies
\* (verifyControlWindow and Truncate).
THEOREM PromptFramesAccepted == ControlSpec => []FreshFramesAccepted
  BY ControlInvariant, FreshVerifies, PTL
-----------------------------------------------------------------------------
(* Enrollment.  A ticket that verifies has the content the issuer signed,  *)
(* so every signed registration that reaches the count brings the same     *)
(* number of uses.  The registrations bound or about to be are paid for by *)
(* the uses the replicas count now and those that restarts forgot.         *)

TicketBody == [audience : {Inviter}, relay : {"here", "elsewhere"}, uses : 0 .. MaxUses,
               issued : Nat, expires : Nat]

EnrollShaped ==
    /\ EnrollTypeOK
    /\ DOMAIN reg = Registrations
    /\ \A q \in Registrations :
          /\ DOMAIN reg[q] = DOMAIN NoReg
          /\ reg[q].uses \in 0 .. MaxUses /\ reg[q].signed \in BOOLEAN /\ reg[q].dev \subseteq Members
    /\ DOMAIN local = {"ready", "bundle"}
    /\ DOMAIN hist = DOMAIN NoHistory
    /\ {hist.bound, hist.legacy, hist.granted, hist.restarts} \subseteq Nat

TicketOK ==
    ticket = {} \/ \E body \in TicketBody : ticket = {SignTicketV3(Issuer, body), SignTicket(Issuer, body)}

\* The device the ticket lets in.
Invited(d) == \E o \in ticket : o.type = "ticket.v3" /\ o.body.relay = "here" /\ o.body.audience # d

RegistrationsOK ==
    /\ \A q \in Registrations : reg[q].pc # "idle" =>
          /\ ticket # {}
          /\ profile = "production" => reg[q].signed
          /\ reg[q].signed /\ reg[q].pc = "consume" => reg[q].uses = Allowed
          /\ reg[q].signed => \A d \in reg[q].dev : Invited(d)
    /\ \A d \in hist.admitted : Invited(d)

Binding == {q \in Registrations : reg[q].pc = "bind"}
Used == [r \in Replicas |-> uses[r].uses]
Counted == SumFunctionOnSet(Used, Replicas)

CountsOK == profile = "production" =>
    /\ hist.legacy = 0
    /\ \A r \in Replicas : uses[r].max \in {0, Allowed} /\ uses[r].uses <= Allowed
    /\ hist.bound + Cardinality(Binding) <= Counted + Allowed * hist.restarts

StoreOK ==
    /\ ticketStore.max \in {0, Allowed}
    /\ ticketStore.uses = hist.granted /\ hist.granted <= Allowed

BundlesOK ==
    /\ \A o \in local.bundle : \E b \in hist.issued : o = SignBundle(InviterKey, b)
    /\ BundlesReachTheirKey

EnrollInv ==
    EnrollShaped /\ TicketOK /\ RegistrationsOK /\ CountsOK /\ StoreOK /\ BundlesOK

\* What the invitation allows.
LEMMA AllowedType == TicketOK => Allowed \in 0 .. MaxUses
<1> SUFFICES ASSUME TicketOK PROVE Allowed \in 0 .. MaxUses
  BY Zenon
<1>1. CASE ticket = {}
  BY <1>1, EnrollmentConstants DEF Allowed
<1>2. ASSUME NEW body \in TicketBody, ticket = {SignTicketV3(Issuer, body), SignTicket(Issuer, body)}
      PROVE  Allowed \in 0 .. MaxUses
  <2>1. ticket # {} /\ \A o \in ticket : o.body = body
    BY <1>2 DEF SignTicketV3, SignTicket, Signed
  <2>2. (CHOOSE o \in ticket : TRUE).body = body
    BY <2>1, Zenon
  <2> QED BY <2>1, <2>2, Zenon DEF Allowed, TicketBody
<1> QED BY <1>1, <1>2, Zenon DEF TicketOK

\* A ticket that verifies, in either form, is the one that was issued.
LEMMA VerifiedTicket ==
  ASSUME TicketOK, NEW o \in TicketCopies, NEW type, Verify(Issuer, type, o)
  PROVE  /\ ticket # {} /\ o.body.uses = Allowed
         /\ \E t \in ticket : t.type = type /\ t.body = o.body
<1>1. PICK t \in ticket : o = t \/ \E b : o = Damaged(t, b)
  BY Zenon DEF TicketCopies
<1>2. PICK body \in TicketBody : ticket = {SignTicketV3(Issuer, body), SignTicket(Issuer, body)}
  BY <1>1, Zenon DEF TicketOK
<1>3. \A u \in ticket : u.body = body /\ u.sig = [key |-> Issuer, over |-> <<u.type, body>>]
  BY <1>2 DEF SignTicketV3, SignTicket, Signed, SignatureInput
<1>4. o.sig = t.sig
  BY <1>1, <1>2, Zenon DEF Damaged, SignTicketV3, SignTicket, Signed
<1> DEFINE was == t.type
           other == o.body
<1>5. [key |-> Issuer, over |-> <<was, body>>] = [key |-> Issuer, over |-> <<type, other>>]
  BY <1>3, <1>4, Zenon DEF Verify, SignatureInput
<1> HIDE DEF was, other
<1>6. was = type /\ body = other
  BY <1>5, SignatureFixes, Zenon
<1>7. (CHOOSE u \in ticket : TRUE).body = body /\ ticket # {}
  BY <1>1, <1>3, Zenon
<1> QED BY <1>1, <1>3, <1>6, <1>7, Zenon DEF was, other, Allowed

\* At first there is no ticket, and nobody was let in.
LEMMA InitEnroll == EnrollInit => EnrollInv
<1> SUFFICES ASSUME EnrollInit PROVE EnrollInv
  BY Zenon
<1> USE EnrollmentConstants DEF EnrollInit
<1>1. EnrollShaped
  <2>1. EnrollTypeOK
    BY DEF EnrollTypeOK, NoReg, Unused
  <2>2. /\ DOMAIN reg = Registrations
        /\ \A q \in Registrations : reg[q] = NoReg
        /\ NoReg.uses \in 0 .. MaxUses /\ NoReg.signed \in BOOLEAN /\ NoReg.dev \subseteq Members
    BY DEF NoReg
  <2>3. DOMAIN local = {"ready", "bundle"} /\ {hist.bound, hist.legacy, hist.granted, hist.restarts} \subseteq Nat
    BY DEF NoHistory
  <2> QED BY <2>1, <2>2, <2>3, Zenon DEF EnrollShaped
<1>2. TicketOK /\ RegistrationsOK /\ StoreOK /\ BundlesOK
  BY SMTT(30) DEF TicketOK, RegistrationsOK, StoreOK, BundlesOK, BundlesReachTheirKey, Allowed, NoReg, NoHistory, Unused
<1>3. CountsOK
  <2>1. Binding = {} /\ Cardinality(Binding) = 0
    BY FS_EmptySet, Zenon DEF Binding, NoReg
  <2>2. \A r \in Replicas : Used[r] = 0
    BY Zenon DEF Used, Unused
  <2>3. Counted = 0
    BY <2>2, SumZeros, Zenon DEF Counted
  <2>4. Allowed = 0 /\ hist.restarts = 0 /\ hist.bound = 0 /\ hist.legacy = 0
    BY Zenon DEF Allowed, NoHistory
  <2> QED BY <2>1, <2>3, <2>4 DEF CountsOK, Unused
<1> QED BY <1>1, <1>2, <1>3, Zenon DEF EnrollInv

\* The numbers the counts are made of.
LEMMA CountNumbers ==
  ASSUME EnrollInv
  PROVE  /\ Allowed \in 0 .. MaxUses /\ Allowed \in Nat /\ Counted \in Nat
         /\ IsFiniteSet(Binding) /\ Cardinality(Binding) \in Nat
         /\ hist.bound \in Nat /\ hist.restarts \in Nat /\ Allowed * hist.restarts \in Nat
<1>1. Allowed \in 0 .. MaxUses /\ Allowed \in Nat
  BY AllowedType, EnrollmentConstants DEF EnrollInv
<1>2. \A r \in Replicas : Used[r] \in Nat
  BY EnrollmentConstants DEF EnrollInv, EnrollShaped, EnrollTypeOK, Used
<1>3. Counted \in Nat
  BY <1>2, SumType, EnrollmentConstants, Zenon DEF Counted
<1>4. IsFiniteSet(Binding)
  BY FS_Subset, EnrollmentConstants, Zenon DEF Binding
<1>5. hist.bound \in Nat /\ hist.restarts \in Nat
  BY Zenon DEF EnrollInv, EnrollShaped
<1>6. Allowed * hist.restarts \in Nat
  BY <1>1, <1>5
<1> QED BY <1>1, <1>3, <1>4, <1>5, <1>6, FS_CardinalityType, Zenon

\* Steps that leave the Relay's registrations and counts alone.
LEMMA RelayQuiet ==
  ASSUME EnrollInv, UNCHANGED <<profile, ticket, uses, reg>>,
         hist'.bound = hist.bound, hist'.legacy = hist.legacy, hist'.restarts = hist.restarts,
         hist'.admitted = hist.admitted
  PROVE  TicketOK' /\ RegistrationsOK' /\ CountsOK' /\ Allowed' = Allowed
<1>1. Allowed' = Allowed /\ TicketOK'
  BY DEF Allowed, EnrollInv, TicketOK
<1>2. RegistrationsOK'
  BY <1>1, Zenon DEF EnrollInv, RegistrationsOK, Invited
<1>3. Counted' = Counted /\ Binding' = Binding
  BY Zenon DEF Counted, Used, Binding
<1> QED BY <1>1, <1>2, <1>3, Zenon DEF EnrollInv, CountsOK

\* Steps that leave the ticket store and the bundles alone.
LEMMA IssuerQuiet ==
  ASSUME EnrollInv, UNCHANGED <<ticket, ticketStore, local>>,
         hist'.granted = hist.granted, hist'.issued = hist.issued, hist'.applied = hist.applied
  PROVE  TicketOK' /\ StoreOK' /\ BundlesOK' /\ Allowed' = Allowed
<1>1. Allowed' = Allowed /\ TicketOK'
  BY DEF Allowed, EnrollInv, TicketOK
<1> QED BY <1>1, Zenon DEF EnrollInv, StoreOK, BundlesOK, BundlesReachTheirKey, InviterKey

\* A registration begins: whatever ticket it shows verified.
LEMMA RegisterKeeps ==
  ASSUME EnrollInv, NEW q \in Registrations, NEW r \in Replicas, NEW d \in Members,
         \/ RegisterWithSignedTicket(q, r, d)
         \/ \E n \in 0 .. MaxUses : RegisterWithTicketID(q, r, d, n)
  PROVE  EnrollInv'
<1>1. UNCHANGED <<profile, clock, key, ticket, uses, ticketStore, local, hist>> /\ reg[q].pc = "idle"
  BY Zenon DEF RegisterWithSignedTicket, RegisterWithTicketID
<1>2. TicketOK' /\ StoreOK' /\ BundlesOK' /\ Allowed' = Allowed
  BY <1>1, IssuerQuiet, Zenon
<1> DEFINE Begun(dev, signed, n) ==
        /\ reg' = [reg EXCEPT ![q] = [pc |-> "consume", at |-> {r}, dev |-> dev, signed |-> signed, uses |-> n]]
        /\ n \in 0 .. MaxUses /\ signed \in BOOLEAN /\ dev \subseteq Members /\ ticket # {}
        /\ profile = "production" => signed
        /\ signed => n = Allowed /\ \A x \in dev : Invited(x)
<1>3. \E dev, signed, n : Begun(dev, signed, n)
  <2>1. CASE RegisterWithSignedTicket(q, r, d)
    <3>1. PICK o \in TicketCopies, p \in Proofs(d) :
             /\ Admits(o, p, d)
             /\ reg' = [reg EXCEPT ![q] = [pc |-> "consume", at |-> {r}, dev |-> {d}, signed |-> TRUE, uses |-> o.body.uses]]
      BY <2>1, Zenon DEF RegisterWithSignedTicket
    <3>2. Verify(Issuer, "ticket.v3", o) /\ o.body.relay = "here" /\ d # o.body.audience
      BY <3>1, Zenon DEF Admits, VerifyTicketV3, BindGrantRoles, Identity
    <3>3. ticket # {} /\ o.body.uses = Allowed /\ \E t \in ticket : t.type = "ticket.v3" /\ t.body = o.body
      BY <3>2, VerifiedTicket, Zenon DEF EnrollInv
    <3>4. Invited(d) /\ o.body.uses \in 0 .. MaxUses
      BY <3>2, <3>3, CountNumbers, Zenon DEF Invited
    <3>5. Begun({d}, TRUE, o.body.uses)
      BY <3>1, <3>3, <3>4, Zenon
    <3> HIDE DEF Begun
    <3> QED BY <3>5, Zenon
  <2>2. ASSUME NEW n \in 0 .. MaxUses, RegisterWithTicketID(q, r, d, n) PROVE \E dev, signed, m : Begun(dev, signed, m)
    <3>1. Begun({}, FALSE, n)
      BY <2>2, Zenon DEF RegisterWithTicketID
    <3> HIDE DEF Begun
    <3> QED BY <3>1, Zenon
  <2> HIDE DEF Begun
  <2> QED BY <2>1, <2>2, Zenon
<1>4. PICK dev, signed, n : Begun(dev, signed, n)
  BY <1>3, Zenon
<1> DEFINE new == [pc |-> "consume", at |-> {r}, dev |-> dev, signed |-> signed, uses |-> n]
<1>5. /\ new.pc = "consume" /\ new.at = {r} /\ new.dev = dev /\ new.signed = signed /\ new.uses = n
      /\ DOMAIN new = DOMAIN NoReg
  BY Zenon DEF NoReg
<1>6. reg' = [reg EXCEPT ![q] = new]
  BY <1>4, Zenon
<1> HIDE DEF new
<1>7. EnrollShaped'
  BY <1>1, <1>4, <1>5, <1>6, SMTT(30) DEF EnrollInv, EnrollShaped, EnrollTypeOK, Members
<1>8. RegistrationsOK'
  BY <1>1, <1>2, <1>4, <1>5, <1>6, SMTT(30) DEF EnrollInv, EnrollShaped, RegistrationsOK, Invited
<1>9. CountsOK'
  <2>1. Binding' = Binding
    BY <1>1, <1>5, <1>6, Zenon DEF Binding, EnrollInv, EnrollShaped
  <2>2. Counted' = Counted
    BY <1>1, Zenon DEF Counted, Used
  <2> QED BY <1>1, <1>2, <2>1, <2>2, Zenon DEF EnrollInv, CountsOK
<1> QED BY <1>2, <1>7, <1>8, <1>9, Zenon DEF EnrollInv

\* A registration that ends is no longer about to be bound.
LEMMA EndedRegistration ==
  ASSUME EnrollInv, NEW q \in Registrations, reg' = [reg EXCEPT ![q] = NoReg]
  PROVE  /\ Binding' = Binding \ {q} /\ Cardinality(Binding') \in Nat
         /\ Cardinality(Binding') <= Cardinality(Binding)
         /\ reg[q].pc = "bind" => Cardinality(Binding') = Cardinality(Binding) - 1
<1>1. Binding' = Binding \ {q}
  BY Zenon DEF Binding, NoReg, EnrollInv, EnrollShaped
<1>2. reg[q].pc = "bind" => q \in Binding
  BY Zenon DEF Binding
<1>3. IsFiniteSet(Binding) /\ Cardinality(Binding) \in Nat
  BY CountNumbers, Zenon
<1>4. q \in Binding => Cardinality(Binding \ {q}) = Cardinality(Binding) - 1
  BY <1>3, FS_RemoveElement, Zenon
<1>5. Cardinality(Binding \ {q}) \in Nat /\ Cardinality(Binding \ {q}) <= Cardinality(Binding)
  BY <1>3, FS_Subset, FS_CardinalityType, Zenon
<1> QED BY <1>1, <1>2, <1>4, <1>5, Zenon

\* Its record is the empty one; the others are as they were.
LEMMA EndedShape ==
  ASSUME EnrollInv, NEW q \in Registrations, reg' = [reg EXCEPT ![q] = NoReg]
  PROVE  /\ DOMAIN reg' = Registrations /\ \A p \in Registrations : DOMAIN reg'[p] = DOMAIN NoReg
         /\ reg'[q].pc = "idle" /\ reg'[q].at = {} /\ reg'[q].dev = {} /\ reg'[q].signed = FALSE
         /\ reg'[q].uses \in 0 .. MaxUses
         /\ \A p \in Registrations \ {q} : reg'[p] = reg[p]
<1>1. /\ NoReg.pc = "idle" /\ NoReg.at = {} /\ NoReg.dev = {} /\ NoReg.signed = FALSE
      /\ NoReg.uses \in 0 .. MaxUses
  BY EnrollmentConstants DEF NoReg
<1> QED BY <1>1, Zenon DEF EnrollInv, EnrollShaped

\* What EnrollShaped says of the records of the registrations.
RecordsOK ==
    /\ DOMAIN reg = Registrations
    /\ \A p \in Registrations :
          /\ DOMAIN reg[p] = DOMAIN NoReg /\ reg[p].pc \in {"idle", "consume", "bind"} /\ reg[p].at \subseteq Replicas
          /\ reg[p].uses \in 0 .. MaxUses /\ reg[p].signed \in BOOLEAN /\ reg[p].dev \subseteq Members

\* It still holds, and the requests that go on are the ones that went on before.
LEMMA EndedRecords ==
  ASSUME EnrollInv, NEW q \in Registrations, reg' = [reg EXCEPT ![q] = NoReg]
  PROVE  RecordsOK' /\ \A p \in Registrations : reg'[p].pc # "idle" => reg'[p] = reg[p]
<1>1. RecordsOK
  BY Zenon DEF RecordsOK, EnrollInv, EnrollShaped, EnrollTypeOK
<1>2. DOMAIN reg' = Registrations /\ \A p \in Registrations : DOMAIN reg'[p] = DOMAIN NoReg
  BY EndedShape, Zenon
<1>3. ASSUME NEW p \in Registrations
      PROVE  /\ reg'[p].pc \in {"idle", "consume", "bind"} /\ reg'[p].at \subseteq Replicas
             /\ reg'[p].uses \in 0 .. MaxUses /\ reg'[p].signed \in BOOLEAN /\ reg'[p].dev \subseteq Members
             /\ reg'[p].pc # "idle" => reg'[p] = reg[p]
  <2>1. CASE p = q
    BY <2>1, EndedShape, Zenon
  <2>2. CASE p # q
    <3>1. reg'[p] = reg[p]
      BY <2>2, EndedShape, Zenon
    <3> QED BY <1>1, <3>1, Zenon DEF RecordsOK
  <2> QED BY <2>1, <2>2, Zenon
<1> QED BY <1>2, <1>3, Zenon DEF RecordsOK, Members

\* A registration that fails or is refused; what it consumed stays consumed.
LEMMA EndKeeps ==
  ASSUME EnrollInv, NEW q \in Registrations, reg' = [reg EXCEPT ![q] = NoReg],
         UNCHANGED <<profile, clock, key, ticket, uses, ticketStore, local, hist>>
  PROVE  EnrollInv'
<1>1. TicketOK' /\ StoreOK' /\ BundlesOK' /\ Allowed' = Allowed
  BY IssuerQuiet, Zenon
<1>2. EnrollShaped'
  BY EndedRecords, Zenon DEF EnrollInv, EnrollShaped, EnrollTypeOK, RecordsOK
<1>3. RegistrationsOK'
  <2>1. \A d : Invited(d)' <=> Invited(d)
    BY Zenon DEF Invited
  <2> QED BY <1>1, <2>1, EndedRecords, Zenon DEF EnrollInv, RegistrationsOK
<1>4. CountsOK'
  <2>1. Cardinality(Binding') \in Nat /\ Cardinality(Binding') <= Cardinality(Binding) /\ Cardinality(Binding) \in Nat
    BY EndedRegistration, CountNumbers, Zenon
  <2>2. Counted' = Counted
    BY Zenon DEF Counted, Used
  <2>3. Counted \in Nat /\ hist.bound \in Nat /\ Allowed * hist.restarts \in Nat
    BY CountNumbers, Zenon
  <2> QED BY <1>1, <2>1, <2>2, <2>3 DEF EnrollInv, CountsOK
<1> QED BY <1>1, <1>2, <1>3, <1>4, Zenon DEF EnrollInv

\* consumeTicket: the use is counted in the step that lets the request pass.
LEMMA ConsumeTicketKeeps ==
  ASSUME EnrollInv, NEW q \in Registrations, NEW r \in Replicas, consumeTicket(q, r)
  PROVE  EnrollInv'
<1> DEFINE max == IF uses[r].max = 0 THEN reg[q].uses ELSE uses[r].max
<1>1. UNCHANGED <<profile, clock, key, ticket, ticketStore, local, hist>> /\ reg[q].pc = "consume"
  BY Zenon DEF consumeTicket
<1>2. CASE ~(max > 0 /\ uses[r].uses < max)
  BY <1>1, <1>2, EndKeeps, Zenon DEF consumeTicket
<1>3. CASE max > 0 /\ uses[r].uses < max
  <2>1. /\ uses' = [uses EXCEPT ![r] = [max |-> max, uses |-> uses[r].uses + 1]]
        /\ reg' = [reg EXCEPT ![q].pc = "bind", ![q].uses = 0]
    BY <1>3, Zenon DEF consumeTicket
  <2>2. max \in 0 .. MaxUses /\ uses[r].uses \in 0 .. MaxUses /\ MaxUses \in Nat
    BY EnrollmentConstants, Zenon DEF EnrollInv, EnrollShaped, EnrollTypeOK
  <2>3. profile = "production" => max = Allowed
    BY <1>1, <1>3, Zenon DEF EnrollInv, RegistrationsOK, CountsOK
  <2> HIDE DEF max
  <2>4. TicketOK' /\ StoreOK' /\ BundlesOK' /\ Allowed' = Allowed
    BY <1>1, IssuerQuiet, Zenon
  <2>5. /\ uses' \in [Replicas -> [max : 0 .. MaxUses, uses : 0 .. MaxUses]]
        /\ uses'[r].max = max /\ uses'[r].uses = uses[r].uses + 1
        /\ \A x \in Replicas \ {r} : uses'[x] = uses[x]
    BY <1>3, <2>1, <2>2 DEF EnrollInv, EnrollShaped, EnrollTypeOK
  <2>6. /\ DOMAIN reg' = Registrations /\ \A p \in Registrations : DOMAIN reg'[p] = DOMAIN reg[p]
        /\ reg'[q].pc = "bind" /\ reg'[q].uses = 0
        /\ \A p \in Registrations : reg'[p].at = reg[p].at /\ reg'[p].dev = reg[p].dev /\ reg'[p].signed = reg[p].signed
        /\ \A p \in Registrations \ {q} : reg'[p] = reg[p]
    BY <2>1, Zenon DEF EnrollInv, EnrollShaped, NoReg
  <2>7. EnrollShaped'
    <3>1. RecordsOK
      BY Zenon DEF RecordsOK, EnrollInv, EnrollShaped, EnrollTypeOK
    <3>2. 0 \in 0 .. MaxUses
      BY <2>2
    <3>3. \A p \in Registrations : reg'[p].pc \in {"idle", "consume", "bind"} /\ reg'[p].uses \in 0 .. MaxUses
      BY <2>6, <3>1, <3>2, Zenon DEF RecordsOK
    <3>4. RecordsOK'
      BY <2>6, <3>1, <3>3, Zenon DEF RecordsOK, Members
    <3> QED BY <1>1, <2>5, <3>4, Zenon DEF EnrollInv, EnrollShaped, EnrollTypeOK, RecordsOK
  <2>8. RegistrationsOK'
    BY <1>1, <2>4, <2>6, SMTT(30) DEF EnrollInv, RegistrationsOK, Invited
  <2>9. CountsOK'
    <3>1. Binding' = Binding \cup {q} /\ q \notin Binding
      BY <1>1, <2>6, SMTT(30) DEF Binding
    <3>2. Cardinality(Binding') = Cardinality(Binding) + 1
      BY <3>1, CountNumbers, FS_AddElement, Zenon
    <3>3. /\ \A x \in Replicas : Used[x] \in Nat
          /\ Used'[r] = Used[r] + 1 /\ \A x \in Replicas \ {r} : Used'[x] = Used[x]
      BY <2>2, <2>5, EnrollmentConstants, SMTT(30) DEF Used, EnrollInv, EnrollShaped, EnrollTypeOK
    <3>4. Counted' = Counted + 1
      BY <3>3, SumBump, EnrollmentConstants, Zenon DEF Counted
    <3>5. Counted \in Nat /\ hist.bound \in Nat /\ Allowed * hist.restarts \in Nat /\ Cardinality(Binding) \in Nat
      BY CountNumbers, Zenon
    <3>6. profile = "production" => \A x \in Replicas : uses'[x].max \in {0, Allowed} /\ uses'[x].uses <= Allowed
      BY <1>3, <2>2, <2>3, <2>5, SMTT(30) DEF EnrollInv, CountsOK
    <3> QED BY <1>1, <2>4, <3>2, <3>4, <3>5, <3>6, SMTT(30) DEF EnrollInv, CountsOK
  <2> QED BY <2>4, <2>7, <2>8, <2>9, Zenon DEF EnrollInv
<1> QED BY <1>2, <1>3, Zenon

\* BindIdentity: one more bound, one fewer about to be.
LEMMA BindKeeps ==
  ASSUME EnrollInv, NEW q \in Registrations, BindIdentity(q)
  PROVE  EnrollInv'
<1>1. /\ UNCHANGED <<profile, clock, key, ticket, uses, ticketStore, local>> /\ reg[q].pc = "bind"
      /\ reg' = [reg EXCEPT ![q] = NoReg]
      /\ hist' = IF reg[q].signed
                    THEN [hist EXCEPT !.bound = @ + 1, !.admitted = @ \cup reg[q].dev]
                    ELSE [hist EXCEPT !.legacy = @ + 1]
  BY Zenon DEF BindIdentity
<1>2. /\ DOMAIN hist' = DOMAIN NoHistory
      /\ hist'.granted = hist.granted /\ hist'.issued = hist.issued /\ hist'.applied = hist.applied
      /\ hist'.restarts = hist.restarts
      /\ reg[q].signed => /\ hist'.bound = hist.bound + 1 /\ hist'.legacy = hist.legacy
                          /\ hist'.admitted = hist.admitted \cup reg[q].dev
      /\ ~reg[q].signed => /\ hist'.bound = hist.bound /\ hist'.legacy = hist.legacy + 1
                           /\ hist'.admitted = hist.admitted
  BY <1>1, Zenon DEF EnrollInv, EnrollShaped, NoHistory
<1>3. TicketOK' /\ StoreOK' /\ BundlesOK' /\ Allowed' = Allowed
  BY <1>1, <1>2, IssuerQuiet, Zenon
<1>4. EnrollShaped'
  <2>1. {hist'.bound, hist'.legacy, hist'.granted, hist'.restarts} \subseteq Nat
    BY <1>2, SMTT(30) DEF EnrollInv, EnrollShaped
  <2> QED BY <1>1, <1>2, <2>1, EndedRecords, Zenon DEF EnrollInv, EnrollShaped, EnrollTypeOK, RecordsOK
<1>5. RegistrationsOK'
  <2>1. \A d : Invited(d)' <=> Invited(d)
    BY <1>1, Zenon DEF Invited
  <2>2. \A d \in hist'.admitted : Invited(d)
    <3>1. CASE reg[q].signed
      BY <1>1, <1>2, <3>1, Zenon DEF EnrollInv, RegistrationsOK
    <3>2. CASE ~reg[q].signed
      BY <1>2, <3>2, Zenon DEF EnrollInv, RegistrationsOK
    <3> QED BY <3>1, <3>2, Zenon
  <2>3. \A p \in Registrations : reg'[p].pc = "idle" \/ reg'[p] = reg[p]
    BY <1>1, EndedShape, Zenon
  <2> QED BY <1>1, <1>3, <2>1, <2>2, <2>3, Zenon DEF EnrollInv, RegistrationsOK
<1>6. CountsOK'
  <2>1. Cardinality(Binding') = Cardinality(Binding) - 1
    BY <1>1, EndedRegistration, Zenon
  <2>2. Counted' = Counted
    BY <1>1, Zenon DEF Counted, Used
  <2>3. Counted \in Nat /\ hist.bound \in Nat /\ Allowed * hist.restarts \in Nat /\ Cardinality(Binding) \in Nat
    BY CountNumbers, Zenon
  <2>4. profile = "production" => reg[q].signed
    BY <1>1, Zenon DEF EnrollInv, RegistrationsOK
  <2> QED BY <1>1, <1>2, <1>3, <2>1, <2>2, <2>3, <2>4 DEF EnrollInv, CountsOK
<1> QED BY <1>3, <1>4, <1>5, <1>6, Zenon DEF EnrollInv

\* New: what a restart forgets is at most what the ticket allows.
LEMMA RestartKeepsCounts ==
  ASSUME EnrollInv, NEW r \in Replicas, RestartReplica(r)
  PROVE  EnrollInv'
<1>1. /\ UNCHANGED <<profile, clock, key, ticket, ticketStore, local>>
      /\ hist' = [hist EXCEPT !.restarts = @ + 1]
      /\ uses' = [uses EXCEPT ![r] = Unused]
      /\ reg' = [q \in Registrations |-> IF reg[q].at = {r} THEN NoReg ELSE reg[q]]
  BY Zenon DEF RestartReplica
<1>2. /\ DOMAIN hist' = DOMAIN NoHistory /\ hist'.restarts = hist.restarts + 1
      /\ \A x \in DOMAIN NoHistory \ {"restarts"} : hist'[x] = hist[x]
      /\ hist'.granted = hist.granted /\ hist'.issued = hist.issued /\ hist'.applied = hist.applied
      /\ hist'.bound = hist.bound /\ hist'.legacy = hist.legacy /\ hist'.admitted = hist.admitted
  BY <1>1, Zenon DEF EnrollInv, EnrollShaped, NoHistory
<1>3. TicketOK' /\ StoreOK' /\ BundlesOK' /\ Allowed' = Allowed
  BY <1>1, <1>2, IssuerQuiet, Zenon
<1>4. /\ NoReg.pc = "idle" /\ NoReg.at = {} /\ NoReg.dev = {} /\ NoReg.signed = FALSE
      /\ NoReg.uses \in 0 .. MaxUses /\ Unused \in [max : 0 .. MaxUses, uses : 0 .. MaxUses]
      /\ Unused.max = 0 /\ Unused.uses = 0
  BY EnrollmentConstants, SMTT(30) DEF NoReg, Unused
<1>5. DOMAIN reg' = Registrations /\ \A q \in Registrations : reg'[q] = NoReg \/ reg'[q] = reg[q]
  BY <1>1, Zenon
<1>6. EnrollShaped'
  <2>1. {hist'.bound, hist'.legacy, hist'.granted, hist'.restarts} \subseteq Nat
    BY <1>2, SMTT(30) DEF EnrollInv, EnrollShaped
  <2>2. uses' \in [Replicas -> [max : 0 .. MaxUses, uses : 0 .. MaxUses]]
    BY <1>1, <1>4, Zenon DEF EnrollInv, EnrollShaped, EnrollTypeOK
  <2>3. \A q \in Registrations :
           /\ DOMAIN reg'[q] = DOMAIN NoReg
           /\ reg'[q].uses \in 0 .. MaxUses /\ reg'[q].signed \in BOOLEAN /\ reg'[q].dev \subseteq Members
           /\ reg'[q].pc \in {"idle", "consume", "bind"} /\ reg'[q].at \subseteq Replicas
    BY <1>4, <1>5, Zenon DEF EnrollInv, EnrollShaped, EnrollTypeOK
  <2> QED BY <1>1, <1>2, <1>5, <2>1, <2>2, <2>3, Zenon DEF EnrollInv, EnrollShaped, EnrollTypeOK, Members
<1>7. RegistrationsOK'
  <2>1. \A d : Invited(d)' <=> Invited(d)
    BY <1>1, Zenon DEF Invited
  <2>2. \A p \in Registrations : reg'[p].pc = "idle" \/ reg'[p] = reg[p]
    BY <1>4, <1>5, Zenon
  <2> QED BY <1>1, <1>2, <1>3, <2>1, <2>2 DEF EnrollInv, RegistrationsOK
<1>8. CountsOK'
  <2> SUFFICES ASSUME profile = "production" PROVE CountsOK'
    BY <1>1, Zenon DEF CountsOK
  <2>1. Binding' \subseteq Binding
    BY <1>4, <1>5, Zenon DEF Binding
  <2>2. Cardinality(Binding') \in Nat /\ Cardinality(Binding') <= Cardinality(Binding)
    BY <2>1, CountNumbers, FS_Subset, FS_CardinalityType, Zenon
  <2>3. \A x \in Replicas : Used[x] \in Nat /\ Used'[x] \in Nat
    BY <1>6, EnrollmentConstants, SMTT(30) DEF EnrollInv, EnrollShaped, EnrollTypeOK, Used
  <2>4. Used'[r] = 0 /\ Used[r] <= Allowed /\ \A x \in Replicas \ {r} : Used[x] = Used'[x]
    BY <1>1, <1>4, Zenon DEF Used, EnrollInv, EnrollShaped, EnrollTypeOK, CountsOK
  <2>5. Counted = Used[r] + SumFunctionOnSet(Used, Replicas \ {r})
    BY <2>3, SumRemove, EnrollmentConstants DEF Counted
  <2>6. Counted' = Used'[r] + SumFunctionOnSet(Used', Replicas \ {r})
    BY <2>3, SumRemove, EnrollmentConstants DEF Counted
  <2>7. SumFunctionOnSet(Used, Replicas \ {r}) = SumFunctionOnSet(Used', Replicas \ {r})
    BY <2>4, SumSame, FS_RemoveElement, EnrollmentConstants, SMTT(30)
  <2>8. SumFunctionOnSet(Used', Replicas \ {r}) \in Nat
    BY <2>3, SumType, FS_RemoveElement, EnrollmentConstants, Zenon
  <2>9. Counted = Used[r] + Counted' /\ Counted' \in Nat /\ Used[r] \in Nat
    BY <2>3, <2>4, <2>5, <2>6, <2>7, <2>8, SMTT(30)
  <2>10. /\ Allowed \in Nat /\ hist.bound \in Nat /\ hist.restarts \in Nat /\ Cardinality(Binding) \in Nat
         /\ Allowed * hist.restarts \in Nat
    BY CountNumbers, Zenon
  <2>11. Allowed * (hist.restarts + 1) = Allowed * hist.restarts + Allowed
    BY <2>10
  <2>12. hist.bound + Cardinality(Binding) <= Counted + Allowed * hist.restarts
    BY Zenon DEF EnrollInv, CountsOK
  <2> DEFINE was == Allowed * hist.restarts
  <2> HIDE DEF was
  <2>13. hist.bound + Cardinality(Binding') <= Counted' + (was + Allowed)
    BY <2>2, <2>4, <2>9, <2>10, <2>12 DEF was
  <2>14. hist'.bound + Cardinality(Binding') <= Counted' + Allowed' * hist'.restarts
    BY <1>2, <1>3, <2>11, <2>13, Zenon DEF was
  <2>15. hist'.legacy = 0 /\ \A x \in Replicas : uses'[x].max \in {0, Allowed} /\ uses'[x].uses <= Allowed
    BY <1>1, <1>2, <1>4, <2>10, SMTT(30) DEF EnrollInv, EnrollShaped, EnrollTypeOK, CountsOK
  <2> QED BY <1>3, <2>14, <2>15, Zenon DEF CountsOK
<1> QED BY <1>3, <1>6, <1>7, <1>8, Zenon DEF EnrollInv

\* The issuer signs the invitation: until then nothing was registered.
LEMMA IssueKeeps ==
  ASSUME EnrollInv, NEW relay \in {"here", "elsewhere"}, NEW n \in 0 .. MaxUses, IssueTicket(relay, n)
  PROVE  EnrollInv'
<1> DEFINE body == [audience |-> Inviter, relay |-> relay, uses |-> n, issued |-> clock, expires |-> clock + TTL]
<1>1. /\ ticket = {} /\ ticket' = {SignTicketV3(Issuer, body), SignTicket(Issuer, body)}
      /\ UNCHANGED <<profile, clock, key, uses, ticketStore, reg, local, hist>>
  BY Zenon DEF IssueTicket
<1>2. body \in TicketBody
  BY EnrollmentConstants, SMTT(30) DEF TicketBody, EnrollInv, EnrollShaped, EnrollTypeOK
<1> HIDE DEF body
<1>3. TicketOK'
  BY <1>1, <1>2, Zenon DEF TicketOK, Issuer
<1>4. Allowed = 0 /\ Allowed' \in Nat
  <2>1. TicketOK' => (Allowed \in 0 .. MaxUses)'
    BY AllowedType, PTL
  <2> QED BY <1>1, <1>3, <2>1, EnrollmentConstants DEF Allowed
<1>5. EnrollShaped' /\ BundlesOK'
  BY <1>1, Zenon DEF EnrollInv, EnrollShaped, EnrollTypeOK, Members, BundlesOK, BundlesReachTheirKey, InviterKey
<1>6. RegistrationsOK'
  BY <1>1, Zenon DEF EnrollInv, RegistrationsOK, Invited
<1>7. StoreOK'
  BY <1>1, <1>4, SMTT(30) DEF EnrollInv, EnrollShaped, EnrollTypeOK, StoreOK
<1>8. CountsOK'
  <2>1. Counted' = Counted /\ Binding' = Binding
    BY <1>1, Zenon DEF Counted, Used, Binding
  <2>2. hist.restarts \in Nat /\ hist.bound \in Nat /\ Cardinality(Binding) \in Nat /\ Counted \in Nat
    BY CountNumbers, Zenon
  <2>3. Allowed' * hist.restarts \in Nat /\ Allowed * hist.restarts = 0
    BY <1>4, <2>2
  <2>4. \A r \in Replicas : uses[r].uses \in Nat
    BY EnrollmentConstants, SMTT(30) DEF EnrollInv, EnrollShaped, EnrollTypeOK
  <2> SUFFICES ASSUME profile = "production" PROVE CountsOK'
    BY <1>1, Zenon DEF CountsOK
  <2>5. hist.bound + Cardinality(Binding) <= Counted + 0
    BY <2>3, Zenon DEF EnrollInv, CountsOK
  <2> DEFINE more == Allowed' * hist.restarts
  <2> HIDE DEF more
  <2>6. hist.bound + Cardinality(Binding) <= Counted + more
    BY <2>2, <2>3, <2>5 DEF more
  <2>7. \A r \in Replicas : uses[r].max \in {0, Allowed'} /\ uses[r].uses <= Allowed'
    BY <1>4, <2>4 DEF EnrollInv, CountsOK
  <2> QED BY <1>1, <2>1, <2>6, <2>7, Zenon DEF EnrollInv, CountsOK, more
<1> QED BY <1>3, <1>5, <1>6, <1>7, <1>8, Zenon DEF EnrollInv

\* TicketStore.consume: every ticket that verifies names the same limit.
LEMMA StoreConsumeKeeps ==
  ASSUME EnrollInv, ConsumeTicket
  PROVE  EnrollInv'
<1>1. PICK o \in TicketCopies :
         /\ VerifyTicket(o, Issuer, clock) \/ VerifyTicketV3(o, Issuer, clock)
         /\ Consume(o.body.uses)
  BY Zenon DEF ConsumeTicket
<1>2. Verify(Issuer, "ticket.v2", o) \/ Verify(Issuer, "ticket.v3", o)
  BY <1>1, Zenon DEF VerifyTicket, VerifyTicketV3
<1>3. o.body.uses = Allowed
  BY <1>2, VerifiedTicket, Zenon DEF EnrollInv
<1>4. UNCHANGED <<profile, clock, key, ticket, uses, reg, local>>
  BY Zenon DEF ConsumeTicket
<1>5. Consume(Allowed) /\ Allowed \in 0 .. MaxUses /\ Allowed \in Nat /\ MaxUses \in Nat
  BY <1>1, <1>3, CountNumbers, EnrollmentConstants, Zenon
<1>6. /\ ticketStore.max \in {0, Allowed} /\ ticketStore.uses \in Nat /\ ticketStore.uses = hist.granted
      /\ ticketStore.uses <= Allowed
  BY EnrollmentConstants, Zenon DEF EnrollInv, EnrollShaped, EnrollTypeOK, StoreOK
<1>7. /\ ticketStore' \in [max : 0 .. MaxUses, uses : 0 .. MaxUses]
      /\ ticketStore'.max = Allowed /\ DOMAIN hist' = DOMAIN NoHistory
      /\ \A x \in DOMAIN NoHistory \ {"granted"} : hist'[x] = hist[x]
      /\ ticketStore'.uses = hist'.granted /\ hist'.granted \in Nat /\ hist'.granted <= Allowed
  <2>1. CASE ticketStore.uses >= Allowed
    <3>1. ticketStore' = [ticketStore EXCEPT !.max = Allowed] /\ hist' = hist
      BY <1>5, <1>6, <2>1, Zenon DEF Consume
    <3> QED BY <1>5, <1>6, <3>1, Zenon DEF EnrollInv, EnrollShaped, EnrollTypeOK
  <2>2. CASE ~(ticketStore.uses >= Allowed)
    <3>1. /\ ticketStore' = [max |-> Allowed, uses |-> ticketStore.uses + 1]
          /\ hist' = [hist EXCEPT !.granted = @ + 1]
      BY <1>5, <1>6, <2>2, Zenon DEF Consume
    <3>2. hist'.granted = hist.granted + 1 /\ DOMAIN hist' = DOMAIN NoHistory
      BY <3>1, Zenon DEF EnrollInv, EnrollShaped, NoHistory
    <3>3. \A x \in DOMAIN NoHistory \ {"granted"} : hist'[x] = hist[x]
      BY <3>1, Zenon DEF EnrollInv, EnrollShaped
    <3> QED BY <1>5, <1>6, <2>2, <3>1, <3>2, <3>3
  <2> QED BY <2>1, <2>2, Zenon
<1>8. /\ hist'.bound = hist.bound /\ hist'.legacy = hist.legacy /\ hist'.restarts = hist.restarts
      /\ hist'.admitted = hist.admitted /\ hist'.issued = hist.issued /\ hist'.applied = hist.applied
  BY <1>7, Zenon DEF NoHistory
<1>9. TicketOK' /\ RegistrationsOK' /\ CountsOK' /\ Allowed' = Allowed
  BY <1>4, <1>8, RelayQuiet, Zenon
<1>10. EnrollShaped'
  BY <1>4, <1>7, <1>8, SMTT(30) DEF EnrollInv, EnrollShaped, EnrollTypeOK, Members
<1>11. StoreOK' /\ BundlesOK'
  BY <1>4, <1>7, <1>8, <1>9, Zenon DEF EnrollInv, StoreOK, BundlesOK, BundlesReachTheirKey, InviterKey
<1> QED BY <1>9, <1>10, <1>11, Zenon DEF EnrollInv

\* What the bundle protocol, a reset and the clock leave alone.
LEMMA DeviceSide ==
  ASSUME EnrollInv, UNCHANGED <<profile, ticket, uses, ticketStore, reg>>,
         DOMAIN hist' = DOMAIN NoHistory,
         \A x \in DOMAIN NoHistory \ {"issued", "applied"} : hist'[x] = hist[x],
         clock' \in 0 .. MaxClock, key' \in [Members -> 1 .. MaxKeys],
         DOMAIN local' = {"ready", "bundle"}, local'.ready \subseteq Joiners, BundlesOK'
  PROVE  EnrollInv'
<1>1. /\ hist'.bound = hist.bound /\ hist'.legacy = hist.legacy /\ hist'.restarts = hist.restarts
      /\ hist'.admitted = hist.admitted /\ hist'.granted = hist.granted
  BY Zenon DEF NoHistory
<1>2. TicketOK' /\ RegistrationsOK' /\ CountsOK' /\ Allowed' = Allowed
  BY <1>1, RelayQuiet, Zenon
<1>3. EnrollShaped' /\ StoreOK'
  BY <1>1, <1>2, SMTT(30) DEF EnrollInv, EnrollShaped, EnrollTypeOK, Members, StoreOK
<1> QED BY <1>2, <1>3, Zenon DEF EnrollInv

\* A bundle that is applied is the one that was signed.
LEMMA VerifiedBundle ==
  ASSUME BundlesOK, NEW o \in BundleCopies, Verify(InviterKey, "bundle", o)
  PROVE  o.body \in hist.issued
<1>1. PICK t \in local.bundle : o = t \/ \E b : o = Damaged(t, b)
  BY Zenon DEF BundleCopies
<1>2. PICK b \in hist.issued : t = SignBundle(InviterKey, b)
  BY <1>1, Zenon DEF BundlesOK
<1>3. o.sig = [key |-> InviterKey, over |-> <<"bundle", b>>]
  BY <1>1, <1>2 DEF Damaged, SignBundle, Signed, SignatureInput
<1> DEFINE other == o.body
<1>4. [key |-> InviterKey, over |-> <<"bundle", b>>] = [key |-> InviterKey, over |-> <<"bundle", other>>]
  BY <1>3, Zenon DEF Verify, SignatureInput
<1> HIDE DEF other
<1>5. b = other
  BY <1>4, SignatureFixes, Zenon
<1> QED BY <1>2, <1>5, Zenon DEF other

\* The bundle protocol.
LEMMA BundleKeeps ==
  ASSUME EnrollInv, NEW d \in Joiners, EstablishLocalChannel(d) \/ SendBundle(d) \/ ReceiveBundle(d)
  PROVE  EnrollInv'
<1>1. UNCHANGED <<profile, clock, key, ticket, uses, ticketStore, reg>>
  BY Zenon DEF EstablishLocalChannel, SendBundle, ReceiveBundle
<1>2. /\ clock \in 0 .. MaxClock /\ key \in [Members -> 1 .. MaxKeys] /\ DOMAIN hist = DOMAIN NoHistory
      /\ DOMAIN local = {"ready", "bundle"} /\ local.ready \subseteq Joiners
      /\ {"issued", "applied"} \subseteq DOMAIN NoHistory
  BY Zenon DEF EnrollInv, EnrollShaped, EnrollTypeOK, NoHistory
<1>3. CASE EstablishLocalChannel(d)
  <2>1. /\ local'.ready = local.ready \cup {d} /\ local'.bundle = local.bundle /\ hist' = hist
        /\ DOMAIN local' = {"ready", "bundle"}
    BY <1>2, <1>3, Zenon DEF EstablishLocalChannel
  <2>2. BundlesOK'
    BY <2>1, Zenon DEF EnrollInv, BundlesOK, BundlesReachTheirKey, InviterKey
  <2> QED BY <1>1, <1>2, <2>1, <2>2, DeviceSide, Zenon
<1>4. CASE SendBundle(d)
  <2>1. PICK body :
           /\ local' = [local EXCEPT !.bundle = {SignBundle(InviterKey, body)}]
           /\ hist' = [hist EXCEPT !.issued = @ \cup {body}]
    BY <1>4, Zenon DEF SendBundle
  <2>2. /\ local'.ready = local.ready /\ local'.bundle = {SignBundle(InviterKey, body)}
        /\ DOMAIN local' = {"ready", "bundle"}
        /\ DOMAIN hist' = DOMAIN NoHistory /\ hist'.issued = hist.issued \cup {body}
        /\ hist'.applied = hist.applied
        /\ \A x \in DOMAIN NoHistory \ {"issued", "applied"} : hist'[x] = hist[x]
    BY <1>2, <2>1, Zenon
  <2>3. BundlesOK'
    BY <2>2, Zenon DEF EnrollInv, BundlesOK, BundlesReachTheirKey, InviterKey
  <2> QED BY <1>1, <1>2, <2>2, <2>3, DeviceSide, Zenon
<1>5. CASE ReceiveBundle(d)
  <2>1. PICK o \in BundleCopies :
           /\ ApplyBundle(d \in local.ready, Identity(d), o, InviterKey, clock)
           /\ hist' = [hist EXCEPT !.applied = {[id |-> Identity(d), body |-> o.body]}]
    BY <1>5, Zenon DEF ReceiveBundle
  <2>2. /\ local' = local /\ DOMAIN hist' = DOMAIN NoHistory /\ hist'.issued = hist.issued
        /\ hist'.applied = {[id |-> Identity(d), body |-> o.body]}
        /\ \A x \in DOMAIN NoHistory \ {"issued", "applied"} : hist'[x] = hist[x]
    BY <1>2, <1>5, <2>1, Zenon DEF ReceiveBundle
  <2>3. o.body \in hist.issued
    BY <2>1, VerifiedBundle, Zenon DEF EnrollInv, ApplyBundle
  <2> DEFINE b == o.body
  <2>4. d \in local.ready /\ b.dev = Identity(d).dev /\ b.key = Identity(d).key /\ Identity(d).dev = d
    BY <2>1, Zenon DEF ApplyBundle, Identity
  <2> HIDE DEF b
  <2>5. \A a \in hist'.applied : a.id = Identity(d) /\ a.body = b
    BY <2>2, SMTT(30) DEF b
  <2>6. BundlesOK'
    BY <2>2, <2>3, <2>4, <2>5, Zenon DEF EnrollInv, BundlesOK, BundlesReachTheirKey, InviterKey, b
  <2> QED BY <1>1, <1>2, <2>2, <2>6, DeviceSide, Zenon
<1> QED BY <1>3, <1>4, <1>5, Zenon

\* A reset takes the channel and the bundle applied with it.
LEMMA DeviceKeeps ==
  ASSUME EnrollInv, DeviceNext \/ UNCHANGED enrollVars
  PROVE  EnrollInv'
<1>1. /\ clock \in 0 .. MaxClock /\ key \in [Members -> 1 .. MaxKeys] /\ DOMAIN hist = DOMAIN NoHistory
      /\ DOMAIN local = {"ready", "bundle"} /\ local.ready \subseteq Joiners
      /\ {"issued", "applied"} \subseteq DOMAIN NoHistory
  BY Zenon DEF EnrollInv, EnrollShaped, EnrollTypeOK, NoHistory
<1>2. CASE ClockTicks \/ UNCHANGED enrollVars
  <2>1. UNCHANGED <<profile, key, ticket, uses, ticketStore, reg, local, hist>> /\ clock' \in 0 .. MaxClock
    BY <1>1, <1>2, EnrollmentConstants, SMTT(30) DEF ClockTicks, enrollVars
  <2>2. BundlesOK'
    BY <2>1, Zenon DEF EnrollInv, BundlesOK, BundlesReachTheirKey, InviterKey
  <2> QED BY <1>1, <2>1, <2>2, DeviceSide, Zenon
<1>3. ASSUME NEW d \in Joiners, Reset(d) PROVE EnrollInv'
  <2>1. /\ UNCHANGED <<profile, clock, ticket, uses, ticketStore, reg>>
        /\ key[d] < MaxKeys /\ key' = [key EXCEPT ![d] = @ + 1]
        /\ local' = [local EXCEPT !.ready = @ \ {d}]
        /\ hist' = [hist EXCEPT !.applied = {a \in @ : a.id.dev # d}]
    BY <1>3, Zenon DEF Reset
  <2>2. key' \in [Members -> 1 .. MaxKeys]
    BY <1>1, <2>1, EnrollmentConstants DEF Members
  <2>3. /\ local'.ready = local.ready \ {d} /\ local'.bundle = local.bundle
        /\ DOMAIN local' = {"ready", "bundle"}
        /\ DOMAIN hist' = DOMAIN NoHistory /\ hist'.issued = hist.issued
        /\ hist'.applied = {a \in hist.applied : a.id.dev # d}
        /\ \A x \in DOMAIN NoHistory \ {"issued", "applied"} : hist'[x] = hist[x]
    BY <1>1, <2>1, Zenon
  <2>4. BundlesOK'
    BY <2>3, Zenon DEF EnrollInv, BundlesOK, BundlesReachTheirKey, InviterKey
  <2> QED BY <1>1, <2>1, <2>2, <2>3, <2>4, DeviceSide, Zenon
<1> QED BY <1>2, <1>3, Zenon DEF DeviceNext

\* Every step keeps the strengthening.
LEMMA NextEnroll == EnrollInv /\ [EnrollNext]_enrollVars => EnrollInv'
<1> SUFFICES ASSUME EnrollInv, [EnrollNext]_enrollVars PROVE EnrollInv'
  BY Zenon
<1>1. CASE DeviceNext \/ UNCHANGED enrollVars
  BY <1>1, DeviceKeeps, Zenon
<1>2. CASE BundleNext
  BY <1>2, BundleKeeps, Zenon DEF BundleNext
<1>3. CASE TicketNext
  <2>1. ASSUME NEW q \in Registrations, BindIdentity(q) \/ RegistrationFails(q) PROVE EnrollInv'
    BY <2>1, BindKeeps, EndKeeps, Zenon DEF RegistrationFails
  <2>2. ASSUME NEW d \in Members, RefuseRegistration(d) PROVE EnrollInv'
    BY <2>2, DeviceKeeps, Zenon DEF RefuseRegistration
  <2> QED BY <1>3, <2>1, <2>2, IssueKeeps, RegisterKeeps, ConsumeTicketKeeps, RestartKeepsCounts, StoreConsumeKeeps, Zenon
          DEF TicketNext
<1> QED BY <1>1, <1>2, <1>3, Zenon DEF EnrollNext

\* What is counted is at most what each replica may count.
LEMMA CountsBound == EnrollInv => TicketUsesBounded
<1> SUFFICES ASSUME EnrollInv PROVE TicketUsesBounded
  BY Zenon
<1>1. /\ Allowed \in Nat /\ Counted \in Nat /\ Cardinality(Binding) \in Nat
      /\ hist.bound \in Nat /\ hist.restarts \in Nat /\ Allowed * hist.restarts \in Nat
  BY CountNumbers, Zenon
<1>2. Cardinality(Replicas) \in Nat
  BY FS_CardinalityType, EnrollmentConstants, Zenon
<1>3. ASSUME profile = "production"
      PROVE  hist.bound <= Allowed * (Cardinality(Replicas) + hist.restarts)
  <2>1. \A r \in Replicas : Used[r] \in 0 .. Allowed
    BY <1>1, <1>3, EnrollmentConstants, SMTT(30) DEF EnrollInv, EnrollShaped, EnrollTypeOK, CountsOK, Used
  <2>2. Counted <= Allowed * Cardinality(Replicas)
    BY <1>1, <2>1, SumBounded, EnrollmentConstants, Zenon DEF Counted
  <2>3. /\ Allowed * (Cardinality(Replicas) + hist.restarts) = Allowed * Cardinality(Replicas) + Allowed * hist.restarts
        /\ Allowed * Cardinality(Replicas) \in Nat
    BY <1>1, <1>2
  <2>4. hist.bound + Cardinality(Binding) <= Counted + Allowed * hist.restarts
    BY <1>3, Zenon DEF EnrollInv, CountsOK
  <2> DEFINE a == Allowed * Cardinality(Replicas)
             b == Allowed * hist.restarts
  <2> HIDE DEF a, b
  <2>5. hist.bound <= a + b
    BY <1>1, <2>2, <2>3, <2>4 DEF a, b
  <2> QED BY <2>3, <2>5, Zenon DEF a, b
<1> QED BY <1>3, Zenon DEF EnrollInv, CountsOK, StoreOK, TicketUsesBounded

\* Every reachable state of enrollment satisfies the strengthening.
THEOREM EnrollInvariant == EnrollSpec => []EnrollInv
  BY InitEnroll, NextEnroll, PTL DEF EnrollSpec

\* Counters and records stay in their ranges, in any instance.
THEOREM EnrollTypes == EnrollSpec => []EnrollTypeOK
  BY EnrollInvariant, PTL DEF EnrollInv, EnrollShaped

\* For any number of replicas, registrations, restarts and uses: a signed ticket
\* admits no more than it says for each process that counted it, and the ticket
\* store grants no more than it says (consumeTicket, TicketStore.consume).
THEOREM TicketUsesAlwaysBounded == EnrollSpec => []TicketUsesBounded
  BY EnrollInvariant, CountsBound, PTL

\* Only those enter who were invited, in any instance (registerWithSignedTicket).
THEOREM InvitationAlwaysHonoured == EnrollSpec => []InvitationHonoured
<1>1. EnrollInv => InvitationHonoured
  BY Zenon DEF EnrollInv, RegistrationsOK, Invited, InvitationHonoured
<1> QED BY <1>1, EnrollInvariant, PTL

\* A bundle is applied as it was signed, by the device and key it was issued to,
\* for any devices and number of resets (ApplyBundle).
THEOREM BundlesAlwaysReachTheirKey == EnrollSpec => []BundlesReachTheirKey
  BY EnrollInvariant, PTL DEF EnrollInv, BundlesOK
=============================================================================
