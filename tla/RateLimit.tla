----------------------------- MODULE RateLimit ------------------------------
(***************************************************************************)
(* The rate limiter of provider/healthz.py for one bucket and one client   *)
(* address.  ThreadingHTTPServer gives every request a thread, and no lock *)
(* guards the deque: check_rate_limit is one step per access to it, which  *)
(* is how far the interpreter lets threads interleave.                     *)
(*                                                                         *)
(* A tick is half a second, so that int() has something to cut off.        *)
(***************************************************************************)
EXTENDS Integers, Sequences, FiniteSets

CONSTANTS
    Thread,        \* requests that can be in progress together
    Limit,         \* requests per window
    Window,        \* RATE_LIMIT_WINDOW_S, in ticks
    MaxRequests, MaxNow  \* bounds

ASSUME RateLimitConstants ==
    /\ {Limit, Window} \subseteq Nat \ {0}
    /\ {MaxRequests, MaxNow} \subseteq Nat

VARIABLES
    clock,         \* time.monotonic()
    entries,       \* RATE_BUCKETS[bucket][ip], oldest on the left
    thread,        \* for each thread, its place in the code and its `now`
    requests,      \* how many requests there were
    admitted,      \* the `now` of every request that was let through, in order
    refusal,       \* the last refusal, or NoRefusal; forgotten when one is admitted
    overlaps,      \* how many requests arrived while another was in progress
    broken         \* how many requests ended in an IndexError

limiterVars == <<clock, entries, thread, requests, admitted, refusal, overlaps, broken>>

history == <<admitted, refusal, broken>>

Idle == [at |-> "idle", now |-> 0]
NoRefusal == [time |-> 0, retry_after |-> 0]

Place == {"idle", "test", "head", "pop", "count", "refuse", "append"}

At(t, place) == thread[t].at = place
GoTo(t, place) == thread' = [thread EXCEPT ![t].at = place]
Ends(t) == thread' = [thread EXCEPT ![t] = Idle]

\* An access to entries[0] or popleft() of an empty deque: the handler ends
\* without an answer.
IndexError(t) ==
    /\ Ends(t)
    /\ broken' = broken + 1
    /\ UNCHANGED <<entries, admitted, refusal>>

-----------------------------------------------------------------------------
\* check_rate_limit

\* now = time.monotonic(); entries = RATE_BUCKETS[bucket][ip]
Arrive(t) ==
    /\ At(t, "idle")
    /\ requests < MaxRequests
    /\ requests' = requests + 1
    /\ thread' = [thread EXCEPT ![t] = [at |-> "test", now |-> clock]]
    /\ overlaps' = IF \A u \in Thread : At(u, "idle") THEN overlaps ELSE overlaps + 1
    /\ UNCHANGED <<clock, entries, history>>

\* while entries and ...
Test(t) ==
    /\ At(t, "test")
    /\ GoTo(t, IF entries = <<>> THEN "count" ELSE "head")
    /\ UNCHANGED <<clock, entries, requests, history, overlaps>>

\* Mutant: an entry is kept for one tick too long.
IsOldLate(entry, now) == now - entry > Window

IsOld(entry, now) == now - entry >= Window

\* ... now - entries[0] >= RATE_LIMIT_WINDOW_S
Look(t) ==
    /\ At(t, "head")
    /\ IF entries = <<>> THEN IndexError(t)
       ELSE /\ GoTo(t, IF IsOld(Head(entries), thread[t].now) THEN "pop" ELSE "count")
            /\ UNCHANGED <<entries, history>>
    /\ UNCHANGED <<clock, requests, overlaps>>

\* entries.popleft()
Pop(t) ==
    /\ At(t, "pop")
    /\ IF entries = <<>> THEN IndexError(t)
       ELSE /\ entries' = Tail(entries)
            /\ GoTo(t, "test")
            /\ UNCHANGED history
    /\ UNCHANGED <<clock, requests, overlaps>>

\* Mutant: one request too many is let through.
IsFullLate(n) == n > Limit

IsFull(n) == n >= Limit

\* if len(entries) >= limit
Count(t) ==
    /\ At(t, "count")
    /\ GoTo(t, IF IsFull(Len(entries)) THEN "refuse" ELSE "append")
    /\ UNCHANGED <<clock, entries, requests, history, overlaps>>

\* Mutant: the hint is the age of the oldest entry.
RetryAfterAge(entry, now) == (now - entry) \div 2

\* max(1, int(RATE_LIMIT_WINDOW_S - (now - entries[0]))), in seconds
RetryAfter(entry, now) ==
    LET left == (Window - (now - entry)) \div 2 IN IF left > 1 THEN left ELSE 1

Refuse(t) ==
    /\ At(t, "refuse")
    /\ IF entries = <<>> THEN IndexError(t)
       ELSE /\ refusal' = [time |-> thread[t].now,
                           retry_after |-> RetryAfter(Head(entries), thread[t].now)]
            /\ Ends(t)
            /\ UNCHANGED <<entries, admitted, broken>>
    /\ UNCHANGED <<clock, requests, overlaps>>

\* entries.append(now)
Admit(t) ==
    /\ At(t, "append")
    /\ entries' = Append(entries, thread[t].now)
    /\ admitted' = Append(admitted, thread[t].now)
    /\ refusal' = NoRefusal
    /\ Ends(t)
    /\ UNCHANGED <<clock, requests, overlaps, broken>>

Pass ==
    /\ clock < MaxNow
    /\ clock' = clock + 1
    /\ UNCHANGED <<entries, thread, requests, history, overlaps>>

LimiterInit ==
    /\ clock = 0 /\ entries = <<>> /\ thread = [t \in Thread |-> Idle]
    /\ requests = 0 /\ admitted = <<>> /\ refusal = NoRefusal
    /\ overlaps = 0 /\ broken = 0

Request(t) ==
    Arrive(t) \/ Test(t) \/ Look(t) \/ Pop(t) \/ Count(t) \/ Refuse(t) \/ Admit(t)

LimiterNext == Pass \/ \E t \in Thread : Request(t)

-----------------------------------------------------------------------------
\* Properties.

LimiterTypeOK ==
    /\ clock \in 0..MaxNow
    /\ entries \in Seq(0..MaxNow)
    /\ thread \in [Thread -> [at : Place, now : 0..MaxNow]]
    /\ requests \in 0..MaxRequests
    /\ admitted \in Seq(0..MaxNow)
    /\ overlaps \in 0..MaxRequests
    /\ broken \in Nat

\* The requests admitted in the window that ends at a time.
Within(time) == {i \in DOMAIN admitted : admitted[i] <= time /\ time - admitted[i] < Window}

\* The limiter is a sliding window as far as requests do not overlap: while they
\* come one after the other, no window admits more than the limit, a request is
\* refused only when the window before it is full, and each is answered.
\* Requests in progress together can pass the check before any of them is
\* counted, can take each other's entries off the deque and can find it empty
\* where it was not; but each of them lets at most one more request through, and
\* at most one end without an answer.
SlidingWindow ==
    /\ \A i \in DOMAIN admitted : Cardinality(Within(admitted[i])) <= Limit + overlaps
    /\ broken <= overlaps
    /\ overlaps = 0 /\ refusal # NoRefusal => Cardinality(Within(refusal.time)) = Limit

\* A client that waits a second more than it was told, and does nothing else
\* meanwhile, is not refused again.  (The hint alone is not enough: int() cuts
\* off the fraction of a second.)
HintIsEnough ==
    [][ overlaps' = 0 /\ NoRefusal \notin {refusal, refusal'} /\ refusal' # refusal =>
            refusal'.time - refusal.time < 2 * (refusal.retry_after + 1) ]_limiterVars
=============================================================================
