---------------------------- MODULE LimiterProofs ----------------------------
(***************************************************************************)
(* The deque of the rate limiter (RateLimit.tla), for any number of        *)
(* threads, any limit and any window: the invariant behind SlidingWindow   *)
(* and HintIsEnough, which ProviderProofs proves of the container.         *)
(*                                                                         *)
(* The invariant looks at the part of the deque and of the record of       *)
(* admitted requests that is later than a time.  A window that begins      *)
(* behind that time can be overfilled in two ways: entries of it are taken *)
(* off the deque before their time, and requests that counted the deque    *)
(* have still to append to it.  WindowInv says, for every time at once,    *)
(* that the requests that overlapped pay for both, until the window has    *)
(* ended and only the requests that began in it can still enter it.        *)
(***************************************************************************)
EXTENDS RateLimit, FiniteSetTheorems, TLAPS

\* The elements of a sequence of times that are later than a time, those of them
\* that have an older one behind them, and whether there is an older one.
Later(s, time) == {i \in DOMAIN s : s[i] > time}
Ahead(s, time) == {i \in Later(s, time) : \E j \in DOMAIN s : j > i /\ s[j] <= time}
HasOld(s, time) == \E i \in DOMAIN s : s[i] <= time

\* The requests in progress, and those about to pop.
Busy == {t \in Thread : ~At(t, "idle")}
Poppers == {t \in Thread : At(t, "pop")}

InFlight == Cardinality(Busy)
Popping == Cardinality(Poppers)
Let(time) == Cardinality(Later(admitted, time))
Held(time) == Cardinality(Later(entries, time))
Blocked(time) == Cardinality(Ahead(entries, time))
Late(time) == \E t \in Busy : thread[t].now <= time
Stale(time) == HasOld(entries, time)

-----------------------------------------------------------------------------
\* Counting.

\* The elements of a sequence are in its set.
LEMMA Element ==
  ASSUME NEW S, NEW s \in Seq(S)
  PROVE  \A i \in DOMAIN s : s[i] \in S
  OBVIOUS

\* Times are integers.
LEMMA Times ==
  ASSUME LimiterTypeOK
  PROVE  /\ Limit \in Int /\ Window \in Int /\ Limit > 0 /\ Window > 0
         /\ clock \in Int /\ overlaps \in Nat /\ Len(entries) \in Nat
         /\ entries \in Seq(Int) /\ \A i \in DOMAIN entries : entries[i] \in Int
         /\ admitted \in Seq(Int) /\ \A i \in DOMAIN admitted : admitted[i] \in Int
         /\ \A t \in Thread : thread[t].now \in Int
<1>1. 0..MaxNow \subseteq Int /\ 0..MaxRequests \subseteq Nat
  BY RateLimitConstants
<1>2. entries \in Seq(0..MaxNow) /\ admitted \in Seq(0..MaxNow)
  BY DEF LimiterTypeOK
<1>3. \A i \in DOMAIN entries : entries[i] \in Int
  BY <1>1, <1>2, Element
<1>4. \A i \in DOMAIN admitted : admitted[i] \in Int
  BY <1>1, <1>2, Element
<1>5. entries \in Seq(Int) /\ admitted \in Seq(Int) /\ Len(entries) \in Nat
  BY <1>2, <1>3, <1>4
<1>6. clock \in Int /\ overlaps \in Nat /\ \A t \in Thread : thread[t].now \in Int
  BY <1>1 DEF LimiterTypeOK
<1> QED
  BY <1>3, <1>4, <1>5, <1>6, RateLimitConstants

\* A set of positions is as large as the set of the positions before them.
LEMMA Shift ==
  ASSUME NEW A, A \subseteq Nat, IsFiniteSet(A), 0 \notin A
  PROVE  /\ IsFiniteSet({i \in Nat : i + 1 \in A})
         /\ Cardinality({i \in Nat : i + 1 \in A}) = Cardinality(A)
<1> DEFINE B == {i \in Nat : i + 1 \in A}
           f == [a \in A |-> a - 1]
<1>1. f \in Bijection(A, B)
  <2>1. \A a \in A : a - 1 \in Nat /\ (a - 1) + 1 = a
    OBVIOUS
  <2>2. f \in [A -> B]
    BY <2>1
  <2>3. \A a, b \in A : f[a] = f[b] => a = b
    BY <2>1
  <2>4. \A b \in B : b + 1 \in A /\ f[b + 1] = b
    OBVIOUS
  <2> QED
    BY <2>2, <2>3, <2>4 DEF Bijection, Injection, Surjection, IsInjective
<1>2. ExistsBijection(A, B)
  BY <1>1 DEF ExistsBijection
<1> QED
  BY <1>2, FS_Bijection

\* The later elements are finitely many, and no more than there are elements.
LEMMA LaterFinite ==
  ASSUME NEW s \in Seq(Int), NEW time \in Int
  PROVE  /\ IsFiniteSet(Later(s, time)) /\ Cardinality(Later(s, time)) \in Nat
         /\ IsFiniteSet(Ahead(s, time)) /\ Cardinality(Ahead(s, time)) \in Nat
         /\ Cardinality(Ahead(s, time)) <= Cardinality(Later(s, time))
         /\ Cardinality(Later(s, time)) <= Len(s)
<1>0. \A n \in Nat : IsFiniteSet(1..n) /\ Cardinality(1..n) = n
  <2> SUFFICES ASSUME NEW n \in Nat PROVE IsFiniteSet(1..n) /\ Cardinality(1..n) = n
    OBVIOUS
  <2>1. Cardinality(1..n) = IF 1 > n THEN 0 ELSE n - 1 + 1
    BY FS_Interval
  <2> QED BY <2>1, FS_Interval
<1>1. IsFiniteSet(1..Len(s)) /\ Cardinality(1..Len(s)) = Len(s)
  BY <1>0
<1>2. Later(s, time) \subseteq 1..Len(s) /\ Ahead(s, time) \subseteq Later(s, time)
  BY DEF Later, Ahead
<1>3. IsFiniteSet(Later(s, time)) /\ Cardinality(Later(s, time)) <= Len(s)
  BY <1>1, <1>2, FS_Subset
<1>4. IsFiniteSet(Ahead(s, time)) /\ Cardinality(Ahead(s, time)) <= Cardinality(Later(s, time))
  BY <1>2, <1>3, FS_Subset
<1> QED
  BY <1>3, <1>4, FS_CardinalityType

\* What an append does to the counts.
LEMMA AppendLater ==
  ASSUME NEW s \in Seq(Int), NEW time \in Int, NEW x \in Int
  PROVE  /\ Cardinality(Later(Append(s, x), time))
              = Cardinality(Later(s, time)) + (IF x > time THEN 1 ELSE 0)
         /\ Cardinality(Ahead(Append(s, x), time))
              = IF x > time THEN Cardinality(Ahead(s, time)) ELSE Cardinality(Later(s, time))
         /\ HasOld(Append(s, x), time) <=> HasOld(s, time) \/ x <= time
<1> DEFINE n == Len(s) + 1
<1>0. /\ DOMAIN Append(s, x) = DOMAIN s \cup {n} /\ n \notin DOMAIN s
      /\ \A i \in DOMAIN s : Append(s, x)[i] = s[i] /\ i < n /\ i \in Nat /\ s[i] \in Int
      /\ Append(s, x)[n] = x /\ n \in Nat
  OBVIOUS
<1> HIDE DEF n
<1>1. Later(Append(s, x), time) = IF x > time THEN Later(s, time) \cup {n} ELSE Later(s, time)
  BY <1>0 DEF Later
<1>2. n \notin Later(s, time)
  BY <1>0 DEF Later
<1>3. Ahead(Append(s, x), time) = IF x > time THEN Ahead(s, time) ELSE Later(s, time)
  <2>1. CASE x > time
    BY <1>0, <1>1, <2>1 DEF Ahead, Later
  <2>2. CASE ~(x > time)
    BY <1>0, <1>1, <2>2 DEF Ahead, Later
  <2> QED BY <2>1, <2>2
<1>4. HasOld(Append(s, x), time) <=> HasOld(s, time) \/ x <= time
  BY <1>0 DEF HasOld
<1>5. /\ Cardinality(Later(s, time) \cup {n}) = Cardinality(Later(s, time)) + 1
      /\ Cardinality(Later(s, time)) \in Nat
  BY <1>2, LaterFinite, FS_AddElement
<1> QED
  BY <1>1, <1>3, <1>4, <1>5

\* What the removal of the first element does to the counts.
LEMMA TailLater ==
  ASSUME NEW s \in Seq(Int), NEW time \in Int, s # <<>>
  PROVE  /\ Cardinality(Later(Tail(s), time))
              = Cardinality(Later(s, time)) - (IF Head(s) > time THEN 1 ELSE 0)
         /\ HasOld(Tail(s), time) => HasOld(s, time)
         /\ Head(s) > time /\ HasOld(s, time) =>
              /\ HasOld(Tail(s), time)
              /\ Cardinality(Ahead(Tail(s), time)) = Cardinality(Ahead(s, time)) - 1
         /\ Head(s) <= time =>
              /\ HasOld(s, time)
              /\ Cardinality(Ahead(Tail(s), time)) = Cardinality(Ahead(s, time))
<1>0. /\ Tail(s) \in Seq(Int) /\ Len(Tail(s)) = Len(s) - 1 /\ Len(s) \in Nat /\ Len(s) > 0
      /\ DOMAIN Tail(s) = 1..(Len(s) - 1) /\ DOMAIN s = 1..Len(s)
      /\ \A i \in 1..(Len(s) - 1) : Tail(s)[i] = s[i + 1]
      /\ Head(s) = s[1] /\ s[1] \in Int
      /\ \A i \in 1..Len(s) : s[i] \in Int
  OBVIOUS
<1>1. Later(Tail(s), time) = {i \in Nat : i + 1 \in Later(s, time) \ {1}}
  BY <1>0 DEF Later
<1>2. Ahead(Tail(s), time) = {i \in Nat : i + 1 \in Ahead(s, time) \ {1}}
  <2>1. \A i \in 1..(Len(s) - 1) :
          (\E j \in 1..(Len(s) - 1) : j > i /\ s[j + 1] <= time)
             <=> (\E j \in 1..Len(s) : j > i + 1 /\ s[j] <= time)
    <3> SUFFICES ASSUME NEW i \in 1..(Len(s) - 1), NEW j \in 1..Len(s), j > i + 1, s[j] <= time
                 PROVE  \E k \in 1..(Len(s) - 1) : k > i /\ s[k + 1] <= time
      BY <1>0
    <3>1. j - 1 \in 1..(Len(s) - 1) /\ j - 1 > i /\ (j - 1) + 1 = j
      BY <1>0
    <3> QED BY <3>1
  <2> QED BY <1>0, <1>1, <2>1 DEF Ahead, Later
<1>3. Cardinality(Later(Tail(s), time)) = Cardinality(Later(s, time) \ {1})
  <2>1. Later(s, time) \ {1} \subseteq Nat /\ 0 \notin Later(s, time) \ {1}
    BY <1>0 DEF Later
  <2>2. IsFiniteSet(Later(s, time) \ {1})
    BY LaterFinite, FS_RemoveElement
  <2> QED BY <1>1, <2>1, <2>2, Shift
<1>4. Cardinality(Ahead(Tail(s), time)) = Cardinality(Ahead(s, time) \ {1})
  <2>1. Ahead(s, time) \ {1} \subseteq Nat /\ 0 \notin Ahead(s, time) \ {1}
    BY <1>0 DEF Later, Ahead
  <2>2. IsFiniteSet(Ahead(s, time) \ {1})
    BY LaterFinite, FS_RemoveElement
  <2> QED BY <1>2, <2>1, <2>2, Shift
<1>5. 1 \in Later(s, time) <=> Head(s) > time
  BY <1>0 DEF Later
<1>6. 1 \in Ahead(s, time) <=> Head(s) > time /\ HasOld(s, time)
  BY <1>0 DEF Later, Ahead, HasOld
<1>7. HasOld(Tail(s), time) => HasOld(s, time)
  BY <1>0 DEF HasOld
<1>8. Head(s) > time /\ HasOld(s, time) => HasOld(Tail(s), time)
  <2> SUFFICES ASSUME s[1] > time, NEW j \in 1..Len(s), s[j] <= time
               PROVE  \E k \in 1..(Len(s) - 1) : s[k + 1] <= time
    BY <1>0 DEF HasOld
  <2>1. j # 1
    BY <1>0
  <2>2. j - 1 \in 1..(Len(s) - 1) /\ (j - 1) + 1 = j
    BY <1>0, <2>1
  <2> QED BY <2>2
<1>9. Head(s) <= time => HasOld(s, time)
  BY <1>0 DEF HasOld
<1>10. /\ Cardinality(Later(s, time) \ {1})
              = IF Head(s) > time THEN Cardinality(Later(s, time)) - 1 ELSE Cardinality(Later(s, time))
       /\ Cardinality(Later(s, time)) \in Nat
  BY <1>5, LaterFinite, FS_RemoveElement
<1>11. /\ Cardinality(Ahead(s, time) \ {1})
              = IF Head(s) > time /\ HasOld(s, time)
                THEN Cardinality(Ahead(s, time)) - 1 ELSE Cardinality(Ahead(s, time))
       /\ Cardinality(Ahead(s, time)) \in Nat
  BY <1>6, LaterFinite, FS_RemoveElement
<1>12. Head(s) \in Int
  BY <1>0
<1> QED
  BY <1>3, <1>4, <1>7, <1>8, <1>9, <1>10, <1>11, <1>12

-----------------------------------------------------------------------------
\* The invariant.

Finite == IsFiniteSet(Busy)

\* Nothing in the program is later than the clock.
Past ==
    /\ \A t \in Busy : thread[t].now <= clock
    /\ \A i \in DOMAIN admitted : admitted[i] <= clock
    /\ \A i \in DOMAIN entries : entries[i] <= clock

Lost(time) == Let(time) - Held(time)
Budget(time) == Lost(time) + Len(entries) + InFlight
Recent(time) == \A t \in Busy : thread[t].now <= time + Window
Committed == \A t \in Busy : At(t, "append")
Others == IF InFlight = 0 THEN 0 ELSE InFlight - 1

\* While no request is in progress that is newer than a window which begins
\* behind `time`: entries that were lost from that window, and requests that
\* will still enter it, are paid for by the requests that overlapped.
Regular(time) ==
    /\ Recent(time)
    /\ Budget(time) <= Limit + overlaps + (IF InFlight = 0 THEN 0 ELSE 1)
    /\ Committed => Budget(time) <= Limit + overlaps
    /\ Late(time) => Let(time) + InFlight - 1 <= overlaps
    /\ ~Late(time) /\ Stale(time) => Lost(time) + Blocked(time) + Others <= overlaps
    /\ ~Late(time) /\ ~Stale(time) =>
          /\ Lost(time) + Popping <= overlaps
          /\ \/ Budget(time) <= Limit + overlaps
             \/ Popping = 0 /\ Lost(time) + Others <= overlaps

Early(end) == {t \in Busy : thread[t].now <= end}

\* The window has ended: only requests that began in it can still enter it.
Closed(time) ==
    /\ clock > time + Window
    /\ Cardinality(Within(time + Window)) + Cardinality(Early(time + Window)) <= Limit + overlaps

WindowInv == \A time \in Int : Held(time) <= Let(time) /\ (Regular(time) \/ Closed(time))

-----------------------------------------------------------------------------
\* The counts are numbers, and how they are ordered.
Numbers(time) ==
    /\ InFlight \in Nat /\ Popping \in Nat /\ Popping <= InFlight
    /\ Let(time) \in Nat /\ Held(time) \in Nat /\ Blocked(time) \in Nat
    /\ Blocked(time) <= Held(time) /\ Held(time) <= Len(entries)
    /\ Len(entries) \in Nat /\ overlaps \in Nat
    /\ Limit \in Nat /\ Limit > 0
    /\ Lost(time) \in Int /\ Budget(time) \in Int
    /\ InFlight = 0 <=> Busy = {}
    /\ Late(time) => InFlight # 0

LEMMA Counts ==
  ASSUME LimiterTypeOK, Finite, NEW time \in Int
  PROVE  /\ Numbers(time)
         /\ \A t \in Busy : At(t, "pop") \/ Popping <= InFlight - 1
<1>1. entries \in Seq(Int) /\ admitted \in Seq(Int) /\ Len(entries) \in Nat /\ overlaps \in Nat
  BY Times
<1>2. Limit \in Nat /\ Limit > 0
  BY RateLimitConstants
<1>3. Poppers \subseteq Busy
  BY DEF Poppers, Busy, At
<1>4. InFlight \in Nat /\ (InFlight = 0 <=> Busy = {})
  BY FS_CardinalityType, FS_EmptySet DEF Finite, InFlight
<1>5. Popping \in Nat /\ Popping <= InFlight
  BY <1>3, FS_Subset, FS_CardinalityType DEF Finite, InFlight, Popping
<1>6. ASSUME NEW t \in Busy, ~At(t, "pop")
      PROVE  Popping <= InFlight - 1
  <2>1. Poppers \in SUBSET (Busy \ {t})
    BY <1>3, <1>6 DEF Poppers
  <2>2. IsFiniteSet(Busy \ {t}) /\ Cardinality(Busy \ {t}) = InFlight - 1
    BY FS_RemoveElement DEF Finite, InFlight
  <2> QED
    BY <2>1, <2>2, FS_Subset DEF Popping
<1>7. Let(time) \in Nat /\ Held(time) \in Nat /\ Blocked(time) \in Nat
  BY <1>1, LaterFinite DEF Let, Held, Blocked
<1>8. Blocked(time) <= Held(time) /\ Held(time) <= Len(entries)
  BY <1>1, LaterFinite DEF Held, Blocked
<1>9. Lost(time) \in Int /\ Budget(time) \in Int
  BY <1>1, <1>4, <1>7 DEF Lost, Budget
<1>10. Late(time) => Busy # {}
  BY DEF Late
<1> QED
  BY <1>1, <1>2, <1>4, <1>5, <1>6, <1>7, <1>8, <1>9, <1>10 DEF Numbers

\* A thread goes from one place to another.
LEMMA ThreadMoves ==
  ASSUME LimiterTypeOK, Finite, NEW t \in Thread,
         NEW r, thread' = [thread EXCEPT ![t] = r]
  PROVE  /\ Finite'
         /\ Busy' = IF r.at = "idle" THEN Busy \ {t} ELSE Busy \cup {t}
         /\ InFlight' = InFlight + (IF r.at = "idle" THEN 0 ELSE 1)
                                 - (IF At(t, "idle") THEN 0 ELSE 1)
         /\ Popping' = Popping + (IF r.at = "pop" THEN 1 ELSE 0)
                               - (IF At(t, "pop") THEN 1 ELSE 0)
<1>1. thread'[t] = r /\ \A u \in Thread \ {t} : thread'[u] = thread[u]
  BY DEF LimiterTypeOK
<1>2. Busy' = IF r.at = "idle" THEN Busy \ {t} ELSE Busy \cup {t}
  BY <1>1 DEF Busy, At
<1>3. Poppers' = IF r.at = "pop" THEN Poppers \cup {t} ELSE Poppers \ {t}
  BY <1>1 DEF Poppers, At
<1>4. Poppers \subseteq Busy
  BY DEF Poppers, Busy, At
<1>5. IsFiniteSet(Busy) /\ IsFiniteSet(Poppers) /\ InFlight \in Nat /\ Popping \in Nat
  BY <1>4, FS_Subset, FS_CardinalityType DEF Finite, InFlight, Popping
<1>6. (t \in Busy <=> ~At(t, "idle")) /\ (t \in Poppers <=> At(t, "pop"))
  BY DEF Busy, Poppers
<1>7. Finite'
  BY <1>2, <1>5, FS_AddElement, FS_RemoveElement DEF Finite
<1>8. InFlight' = InFlight + (IF r.at = "idle" THEN 0 ELSE 1) - (IF At(t, "idle") THEN 0 ELSE 1)
  <2>1. InFlight' = IF r.at = "idle" THEN Cardinality(Busy \ {t}) ELSE Cardinality(Busy \cup {t})
    BY <1>2 DEF InFlight
  <2>2. /\ Cardinality(Busy \ {t}) = IF t \in Busy THEN InFlight - 1 ELSE InFlight
        /\ Cardinality(Busy \cup {t}) = IF t \in Busy THEN InFlight ELSE InFlight + 1
    BY <1>5, FS_AddElement, FS_RemoveElement DEF InFlight
  <2> QED BY <1>5, <1>6, <2>1, <2>2
<1>9. Popping' = Popping + (IF r.at = "pop" THEN 1 ELSE 0) - (IF At(t, "pop") THEN 1 ELSE 0)
  <2>1. Popping' = IF r.at = "pop" THEN Cardinality(Poppers \cup {t}) ELSE Cardinality(Poppers \ {t})
    BY <1>3 DEF Popping
  <2>2. /\ Cardinality(Poppers \ {t}) = IF t \in Poppers THEN Popping - 1 ELSE Popping
        /\ Cardinality(Poppers \cup {t}) = IF t \in Poppers THEN Popping ELSE Popping + 1
    BY <1>5, FS_AddElement, FS_RemoveElement DEF Popping
  <2> QED BY <1>5, <1>6, <2>1, <2>2
<1> QED
  BY <1>2, <1>7, <1>8, <1>9

\* The window is the part of `admitted` behind `time` that is not newer.
LEMMA WindowSize ==
  ASSUME LimiterTypeOK, NEW time \in Int
  PROVE  /\ IsFiniteSet(Within(time + Window))
         /\ Cardinality(Within(time + Window)) \in Nat
         /\ Cardinality(Within(time + Window)) <= Let(time)
<1>1. admitted \in Seq(Int) /\ \A i \in DOMAIN admitted : admitted[i] \in Int
  BY Times
<1>2. Within(time + Window) \subseteq Later(admitted, time)
  BY <1>1, RateLimitConstants DEF Within, Later
<1> QED
  BY <1>1, <1>2, LaterFinite, FS_Subset, FS_CardinalityType DEF Let

\* A request arrives: the first in progress is free, each further one is counted
\* among the overlaps.
LEMMA ArriveStep ==
  ASSUME LimiterTypeOK, Finite, Past, NEW t \in Thread, Arrive(t), NEW time \in Int,
         Held(time) <= Let(time), Regular(time)
  PROVE  Regular(time)' \/ Closed(time)'
<1> DEFINE r == [at |-> "test", now |-> clock]
<1>0. /\ thread' = [thread EXCEPT ![t] = r] /\ r.at = "test" /\ r.now = clock
      /\ At(t, "idle") /\ clock \in Int /\ ~At(t, "pop")
      /\ overlaps' = IF InFlight = 0 THEN overlaps ELSE overlaps + 1
      /\ entries' = entries /\ admitted' = admitted /\ clock' = clock
  <2>1. InFlight = 0 <=> \A u \in Thread : At(u, "idle")
    BY Counts DEF Numbers, Busy
  <2> QED BY <2>1 DEF Arrive, At, LimiterTypeOK, history
<1> HIDE DEF r
<1>1. Busy' = Busy \cup {t} /\ InFlight' = InFlight + 1 /\ Popping' = Popping /\ t \notin Busy
  <2>1. InFlight \in Nat /\ Popping \in Nat
    BY Counts DEF Numbers
  <2>2. /\ Busy' = IF r.at = "idle" THEN Busy \ {t} ELSE Busy \cup {t}
        /\ InFlight' = InFlight + (IF r.at = "idle" THEN 0 ELSE 1) - (IF At(t, "idle") THEN 0 ELSE 1)
        /\ Popping' = Popping + (IF r.at = "pop" THEN 1 ELSE 0) - (IF At(t, "pop") THEN 1 ELSE 0)
    BY <1>0, ThreadMoves
  <2>3. t \notin Busy
    BY <1>0 DEF Busy
  <2> QED BY <1>0, <2>1, <2>2, <2>3
<1>2. /\ Let(time)' = Let(time) /\ Held(time)' = Held(time) /\ Blocked(time)' = Blocked(time)
      /\ Stale(time)' = Stale(time) /\ Len(entries') = Len(entries)
  BY <1>0 DEF Let, Held, Blocked, Stale
<1>3. thread'[t] = r /\ \A u \in Busy : thread'[u] = thread[u]
  BY <1>0 DEF LimiterTypeOK, Busy
<1>4. Late(time)' <=> Late(time) \/ clock <= time
  BY <1>0, <1>1, <1>3 DEF Late
<1>5. ~Committed'
  BY <1>0, <1>1, <1>3 DEF Committed, At
<1>6. Numbers(time)
  BY Counts
<1>7. CASE clock <= time + Window
  <2>1. Recent(time)'
    BY <1>0, <1>1, <1>3, <1>7 DEF Recent, Regular
  <2>2. clock <= time /\ InFlight # 0 => Late(time)
    <3>1. \A u \in Busy : thread[u].now <= clock /\ thread[u].now \in Int
      BY DEF Past, LimiterTypeOK, Busy
    <3> QED BY <1>0, <1>6, <3>1 DEF Numbers, Late
  <2>3. clock <= time => Let(time) = 0
    <3>1. \A i \in DOMAIN admitted : admitted[i] <= clock /\ admitted[i] \in Int
      <4>1. admitted \in Seq(0..MaxNow)
        BY DEF LimiterTypeOK
      <4>2. \A i \in DOMAIN admitted : admitted[i] \in 0..MaxNow
        BY <4>1, Element
      <4> QED BY <4>2 DEF Past
    <3>2. clock <= time => Later(admitted, time) = {}
      BY <1>0, <3>1 DEF Later
    <3> QED BY <3>2, FS_EmptySet DEF Let
  <2>4. Budget(time)' = Budget(time) + 1 /\ Lost(time)' = Lost(time)
    BY <1>1, <1>2, <1>6 DEF Budget, Lost, Numbers
  <2>5. overlaps' = overlaps + (IF InFlight = 0 THEN 0 ELSE 1) /\ InFlight' # 0
    BY <1>0, <1>1, <1>6 DEF Numbers
  <2> USE <1>1, <1>2, <1>4, <1>5, <1>6, <2>1, <2>2, <2>3, <2>4, <2>5 DEF Numbers
  <2>6. Budget(time)' <= Limit + overlaps' + (IF InFlight' = 0 THEN 0 ELSE 1)
    BY DEF Regular
  <2>7. Late(time)' => Let(time)' + InFlight' - 1 <= overlaps'
    BY DEF Regular
  <2>8. ~Late(time)' /\ Stale(time)' => Lost(time)' + Blocked(time)' + Others' <= overlaps'
    BY SMTT(30) DEF Regular, Others
  <2>9. ~Late(time)' /\ ~Stale(time)' => Lost(time)' + Popping' <= overlaps'
    BY DEF Regular, Others
  <2>10. ~Late(time)' /\ ~Stale(time)' =>
          /\ \/ Budget(time)' <= Limit + overlaps'
             \/ Popping' = 0 /\ Lost(time)' + Others' <= overlaps'
    <3>1. CASE InFlight = 0
      <4>1. Popping = 0 /\ Others' = 0
        BY <3>1 DEF Others
      <4> QED BY <3>1, <4>1 DEF Regular
    <3>2. CASE InFlight # 0
      <4>1. Others' = Others + 1 /\ Others \in Int
        BY <3>2 DEF Others
      <4>2. overlaps' = overlaps + 1
        BY <3>2
      <4>3. ~Late(time)' => ~Late(time)
        OBVIOUS
      <4>4. ~Late(time) /\ ~Stale(time) =>
              Budget(time) <= Limit + overlaps \/ (Popping = 0 /\ Lost(time) + Others <= overlaps)
        BY DEF Regular
      <4> QED BY <4>1, <4>2, <4>3, <4>4, SMTT(30)
    <3> QED BY <3>1, <3>2
  <2> QED
    BY <2>6, <2>7, <2>8, <2>9, <2>10 DEF Regular
<1>8. CASE clock > time + Window
  <2>1. Early(time + Window)' = Busy
    BY <1>0, <1>1, <1>3, <1>8, RateLimitConstants DEF Early, Regular, Recent
  <2>2. Within(time + Window)' = Within(time + Window)
    BY <1>0 DEF Within
  <2>3. Let(time) + InFlight <= Limit + overlaps + (IF InFlight = 0 THEN 0 ELSE 1)
    BY <1>6 DEF Regular, Budget, Lost, Numbers
  <2>4. Cardinality(Within(time + Window)') + Cardinality(Early(time + Window)') <= Limit + overlaps'
    <3>1. Cardinality(Early(time + Window)') = InFlight
      BY <2>1 DEF InFlight
    <3>2. /\ Cardinality(Within(time + Window)') <= Let(time)
          /\ Cardinality(Within(time + Window)') \in Nat
      BY <2>2, WindowSize
    <3> QED BY <1>0, <1>6, <2>3, <3>1, <3>2 DEF Numbers
  <2> QED
    BY <1>0, <1>2, <1>8, <2>4 DEF Closed
<1> QED
  BY <1>0, <1>7, <1>8, RateLimitConstants

\* Neither the deque nor the record of admitted requests changes.
LEMMA SameCounts ==
  ASSUME entries' = entries, admitted' = admitted, NEW time \in Int
  PROVE  /\ Let(time)' = Let(time) /\ Held(time)' = Held(time) /\ Blocked(time)' = Blocked(time)
         /\ Stale(time)' = Stale(time) /\ Len(entries') = Len(entries)
         /\ Lost(time)' = Lost(time)
  BY DEF Let, Held, Blocked, Stale, Lost

\* A request goes on to another place and changes nothing else.
LEMMA WalkStep ==
  ASSUME LimiterTypeOK, Finite, NEW t \in Busy, NEW place, GoTo(t, place),
         place # "idle", ~At(t, "pop"), ~At(t, "append"),
         entries' = entries, admitted' = admitted, overlaps' = overlaps,
         NEW time \in Int, Regular(time),
         place = "append" => Len(entries) < Limit,
         place = "pop" => Late(time) \/ Stale(time)
  PROVE  Regular(time)'
<1> DEFINE r == [thread[t] EXCEPT !.at = place]
<1>0. t \in Thread /\ thread[t] \in [at : Place, now : 0..MaxNow] /\ ~At(t, "idle")
  BY DEF LimiterTypeOK, Busy
<1>1. thread' = [thread EXCEPT ![t] = r] /\ r.at = place /\ r.now = thread[t].now
  BY <1>0 DEF GoTo
<1> HIDE DEF r
<1>2. /\ thread'[t] = r /\ \A u \in Thread : u # t => thread'[u] = thread[u]
      /\ \A u \in Thread : thread'[u].now = thread[u].now
  BY <1>0, <1>1 DEF LimiterTypeOK
<1>3. /\ Busy' = IF r.at = "idle" THEN Busy \ {t} ELSE Busy \cup {t}
      /\ InFlight' = InFlight + (IF r.at = "idle" THEN 0 ELSE 1) - (IF At(t, "idle") THEN 0 ELSE 1)
      /\ Popping' = Popping + (IF r.at = "pop" THEN 1 ELSE 0) - (IF At(t, "pop") THEN 1 ELSE 0)
  BY <1>0, <1>1, ThreadMoves
<1>4. Numbers(time) /\ Popping <= InFlight - 1
  BY Counts
<1>5. Busy' = Busy /\ InFlight' = InFlight
  BY <1>0, <1>1, <1>3, <1>4 DEF Numbers
<1>6. Popping' = IF place = "pop" THEN Popping + 1 ELSE Popping
  BY <1>1, <1>3, <1>4 DEF Numbers
<1>7. Late(time)' = Late(time) /\ Recent(time)' = Recent(time)
  BY <1>2, <1>5 DEF Late, Recent, Busy
<1>8. /\ Let(time)' = Let(time) /\ Held(time)' = Held(time) /\ Blocked(time)' = Blocked(time)
      /\ Stale(time)' = Stale(time) /\ Len(entries') = Len(entries)
      /\ Lost(time)' = Lost(time)
  BY SameCounts
<1>9. Budget(time)' = Budget(time) /\ Others' = Others
  BY <1>5, <1>8 DEF Budget, Others
<1>10. ~Committed
  BY DEF Committed
<1>11. Committed' => place = "append"
  BY <1>1, <1>2, <1>5 DEF Committed, At
<1>12. place = "append" => Budget(time) <= Limit + overlaps
  <2> SUFFICES ASSUME Len(entries) < Limit PROVE Budget(time) <= Limit + overlaps
    OBVIOUS
  <2>1. Others = InFlight - 1
    BY <1>4 DEF Numbers, Others
  <2>2. Budget(time) = Lost(time) + Len(entries) + InFlight
    BY DEF Budget
  <2>3. /\ Limit \in Int /\ overlaps \in Int /\ InFlight \in Int /\ Len(entries) \in Int
        /\ Lost(time) \in Int
    BY <1>4 DEF Numbers
  <2>4. Lost(time) + (InFlight - 1) <= overlaps => Budget(time) <= Limit + overlaps
    BY <2>2, <2>3
  <2>5. CASE Late(time)
    <3>1. Let(time) + InFlight - 1 <= overlaps
      BY <2>5 DEF Regular
    <3>2. Let(time) \in Int /\ Lost(time) <= Let(time)
      BY <1>4 DEF Numbers, Lost
    <3> QED BY <2>3, <2>4, <3>1, <3>2
  <2>6. CASE ~Late(time) /\ Stale(time)
    <3>1. Lost(time) + Blocked(time) + (InFlight - 1) <= overlaps
      BY <2>1, <2>6 DEF Regular
    <3>2. Blocked(time) \in Nat
      BY <1>4 DEF Numbers
    <3> QED BY <2>3, <2>4, <3>1, <3>2
  <2>7. CASE ~Late(time) /\ ~Stale(time)
    BY <2>1, <2>4, <2>7 DEF Regular
  <2> QED BY <2>5, <2>6, <2>7
<1> QED
  BY <1>4, <1>5, <1>6, <1>7, <1>8, <1>9, <1>11, <1>12 DEF Regular, Numbers

\* A request ends without being admitted.
LEMMA LeaveStep ==
  ASSUME LimiterTypeOK, Finite, NEW t \in Busy, Ends(t), ~At(t, "append"),
         entries' = entries, admitted' = admitted, overlaps' = overlaps,
         NEW time \in Int, Regular(time)
  PROVE  Regular(time)'
<1>0. t \in Thread /\ ~At(t, "idle")
  BY DEF Busy
<1>1. thread' = [thread EXCEPT ![t] = Idle] /\ Idle.at = "idle"
  BY DEF Ends, Idle
<1>2. \A u \in Thread : u # t => thread'[u] = thread[u]
  BY <1>0, <1>1 DEF LimiterTypeOK
<1>3. /\ Busy' = IF Idle.at = "idle" THEN Busy \ {t} ELSE Busy \cup {t}
      /\ InFlight' = InFlight + (IF Idle.at = "idle" THEN 0 ELSE 1) - (IF At(t, "idle") THEN 0 ELSE 1)
      /\ Popping' = Popping + (IF Idle.at = "pop" THEN 1 ELSE 0) - (IF At(t, "pop") THEN 1 ELSE 0)
      /\ Finite'
  BY <1>0, <1>1, ThreadMoves
<1>4. Numbers(time) /\ (At(t, "pop") \/ Popping <= InFlight - 1) /\ InFlight > 0
  <2>1. Numbers(time) /\ (At(t, "pop") \/ Popping <= InFlight - 1)
    BY Counts
  <2> QED BY <2>1 DEF Numbers
<1>5. Busy' = Busy \ {t} /\ InFlight' = InFlight - 1
  BY <1>0, <1>1, <1>3, <1>4 DEF Numbers
<1>6. Popping' <= InFlight - 1 /\ Popping' <= Popping /\ Popping' \in Int
  BY <1>1, <1>3, <1>4 DEF Numbers
<1>7. (Late(time)' => Late(time)) /\ (Recent(time) => Recent(time)')
  BY <1>2, <1>5 DEF Late, Recent, Busy
<1>8. /\ Let(time)' = Let(time) /\ Held(time)' = Held(time) /\ Blocked(time)' = Blocked(time)
      /\ Stale(time)' = Stale(time) /\ Len(entries') = Len(entries)
      /\ Lost(time)' = Lost(time)
  BY SameCounts
<1>9. /\ Budget(time)' = Budget(time) - 1
      /\ Others = InFlight - 1
      /\ Others' = IF InFlight = 1 THEN 0 ELSE InFlight - 2
      /\ Lost(time) = Let(time) - Held(time)
  BY <1>4, <1>5, <1>8 DEF Budget, Lost, Others, Numbers
<1>ints. /\ Let(time) \in Int /\ Lost(time) \in Int /\ Blocked(time) \in Int /\ InFlight \in Int
      /\ overlaps \in Int /\ Lost(time) <= Let(time) /\ Blocked(time) <= Held(time)
      /\ Held(time) \in Int /\ Popping \in Int
  BY <1>4 DEF Numbers, Lost
<1>others. Others' <= Others /\ Others' \in Int /\ Others \in Int
  BY <1>4, <1>9, <1>ints
<1>10. Budget(time)' <= Limit + overlaps'
  BY <1>4, <1>9 DEF Regular, Numbers
<1>11. Late(time)' => Let(time)' + InFlight' - 1 <= overlaps'
  BY <1>4, <1>5, <1>7, <1>8 DEF Regular, Numbers
<1>12. ~Late(time)' /\ Stale(time)' => Lost(time)' + Blocked(time)' + Others' <= overlaps'
  <2>1. CASE Late(time)
    <3>1. Let(time) + InFlight - 1 <= overlaps
      BY <2>1 DEF Regular
    <3>2. Lost(time) + Blocked(time) + Others <= overlaps
      BY <1>9, <1>ints, <3>1
    <3> QED BY <1>8, <1>ints, <1>others, <3>2
  <2>2. CASE ~Late(time)
    <3>1. Stale(time) => Lost(time) + Blocked(time) + Others <= overlaps
      BY <2>2 DEF Regular
    <3> QED BY <1>8, <1>ints, <1>others, <3>1
  <2> QED BY <2>1, <2>2
<1>13. ~Late(time)' /\ ~Stale(time)' => Lost(time)' + Popping' <= overlaps'
  <2>1. CASE Late(time)
    <3>1. Let(time) + InFlight - 1 <= overlaps
      BY <2>1 DEF Regular
    <3>2. Lost(time) + (InFlight - 1) <= overlaps
      BY <1>ints, <3>1
    <3> QED BY <1>6, <1>8, <1>ints, <3>2
  <2>2. CASE ~Late(time)
    <3>1. ~Stale(time) => Lost(time) + Popping <= overlaps
      BY <2>2 DEF Regular
    <3> QED BY <1>6, <1>8, <1>ints, <3>1
  <2> QED BY <2>1, <2>2
<1>14. InFlight' \in Int /\ Budget(time)' \in Int /\ Limit + overlaps' \in Int
  BY <1>4, <1>5, <1>9 DEF Numbers
<1> QED
  BY <1>7, <1>10, <1>11, <1>12, <1>13, <1>14 DEF Regular

\* The oldest entry is removed.
LEMMA PopStep ==
  ASSUME LimiterTypeOK, Finite, NEW t \in Busy, At(t, "pop"), GoTo(t, "test"),
         entries # <<>>, entries' = Tail(entries), admitted' = admitted, overlaps' = overlaps,
         NEW time \in Int, Regular(time), Held(time) <= Let(time)
  PROVE  Regular(time)'
<1> DEFINE r == [thread[t] EXCEPT !.at = "test"]
           fresh == IF Head(entries) > time THEN 1 ELSE 0
<1>0. t \in Thread /\ thread[t] \in [at : Place, now : 0..MaxNow] /\ ~At(t, "idle")
  BY DEF LimiterTypeOK, Busy
<1>1. thread' = [thread EXCEPT ![t] = r] /\ r.at = "test" /\ r.now = thread[t].now
  BY <1>0 DEF GoTo
<1> HIDE DEF r
<1>2. /\ thread'[t] = r /\ \A u \in Thread : u # t => thread'[u] = thread[u]
      /\ \A u \in Thread : thread'[u].now = thread[u].now
  BY <1>0, <1>1 DEF LimiterTypeOK
<1>3. /\ Busy' = IF r.at = "idle" THEN Busy \ {t} ELSE Busy \cup {t}
      /\ InFlight' = InFlight + (IF r.at = "idle" THEN 0 ELSE 1) - (IF At(t, "idle") THEN 0 ELSE 1)
      /\ Popping' = Popping + (IF r.at = "pop" THEN 1 ELSE 0) - (IF At(t, "pop") THEN 1 ELSE 0)
  BY <1>0, <1>1, ThreadMoves
<1>4. Numbers(time) /\ InFlight > 0
  <2>1. Numbers(time)
    BY Counts
  <2> QED BY <2>1 DEF Numbers
<1>5. Busy' = Busy /\ InFlight' = InFlight
  BY <1>0, <1>1, <1>3, <1>4 DEF Numbers
<1>6. Popping' = Popping - 1
  BY <1>1, <1>3, <1>4 DEF Numbers
<1>7. Late(time)' = Late(time) /\ Recent(time)' = Recent(time)
  BY <1>2, <1>5 DEF Late, Recent, Busy
<1>8. ~Committed'
  BY <1>0, <1>1, <1>2, <1>5 DEF Committed, At
<1>9. entries \in Seq(Int) /\ Len(entries') = Len(entries) - 1
  BY Times
<1>10. /\ Held(time)' = Held(time) - fresh
       /\ Stale(time)' => Stale(time)
       /\ fresh = 1 /\ Stale(time) => Stale(time)' /\ Blocked(time)' = Blocked(time) - 1
       /\ fresh = 0 => Stale(time) /\ Blocked(time)' = Blocked(time)
  <2>1. Head(entries) \in Int
    BY <1>9
  <2>2. /\ Cardinality(Later(Tail(entries), time)) = Cardinality(Later(entries, time)) - fresh
        /\ HasOld(Tail(entries), time) => HasOld(entries, time)
        /\ Head(entries) > time /\ HasOld(entries, time) =>
             /\ HasOld(Tail(entries), time)
             /\ Cardinality(Ahead(Tail(entries), time)) = Cardinality(Ahead(entries, time)) - 1
        /\ Head(entries) <= time =>
             /\ HasOld(entries, time)
             /\ Cardinality(Ahead(Tail(entries), time)) = Cardinality(Ahead(entries, time))
    BY <1>9, TailLater
  <2> QED BY <2>1, <2>2 DEF Held, Blocked, Stale
<1>11. fresh \in {0, 1}
  OBVIOUS
<1> HIDE DEF fresh
<1>12. Let(time)' = Let(time)
  BY DEF Let
<1>13. Lost(time)' = Lost(time) + fresh /\ Lost(time) \in Int
  BY <1>4, <1>10, <1>11, <1>12 DEF Lost, Numbers
<1>14. Budget(time)' = Budget(time) - 1 + fresh
  <2>1. Len(entries) \in Int /\ InFlight \in Int /\ Lost(time) \in Int /\ fresh \in Int
    BY <1>4, <1>11 DEF Numbers
  <2>2. Budget(time)' = Lost(time)' + Len(entries') + InFlight'
    BY DEF Budget
  <2>3. Budget(time) = Lost(time) + Len(entries) + InFlight
    BY DEF Budget
  <2>4. Budget(time)' = (Lost(time) + fresh) + (Len(entries) - 1) + InFlight
    BY <1>5, <1>9, <1>13, <2>2
  <2> QED BY <2>1, <2>3, <2>4
<1>15. Others' = Others /\ Others = InFlight - 1
  BY <1>4, <1>5 DEF Others, Numbers
<1>16. Budget(time)' <= Limit + overlaps' + (IF InFlight' = 0 THEN 0 ELSE 1)
  BY <1>4, <1>5, <1>11, <1>14 DEF Regular, Numbers
<1>17. Late(time)' => Let(time)' + InFlight' - 1 <= overlaps'
  BY <1>4, <1>5, <1>7, <1>12 DEF Regular, Numbers
<1>18. ~Late(time)' /\ Stale(time)' => Lost(time)' + Blocked(time)' + Others' <= overlaps'
  <2> SUFFICES ASSUME ~Late(time), Stale(time)
               PROVE  Lost(time)' + Blocked(time)' + Others' <= overlaps'
    BY <1>7, <1>10
  <2>1. Lost(time) + Blocked(time) + Others <= overlaps
    BY DEF Regular
  <2>2. Blocked(time)' = Blocked(time) - fresh
    BY <1>4, <1>10, <1>11 DEF Numbers
  <2> QED BY <1>4, <1>11, <1>13, <1>15, <2>1, <2>2 DEF Numbers
<1>19. ~Late(time)' /\ ~Stale(time)' =>
          /\ Lost(time)' + Popping' <= overlaps'
          /\ Budget(time)' <= Limit + overlaps'
  <2> SUFFICES ASSUME ~Late(time), ~Stale(time)'
               PROVE  Lost(time)' + Popping' <= overlaps' /\ Budget(time)' <= Limit + overlaps'
    BY <1>7
  <2>1. CASE Stale(time)
    <3>1. fresh = 0
      BY <1>10, <1>11, <2>1
    <3>2. Lost(time) + Blocked(time) + Others <= overlaps
      BY <2>1 DEF Regular
    <3>3. Budget(time) <= Limit + overlaps + 1
      BY <1>4 DEF Regular, Numbers
    <3>4. /\ Lost(time) \in Int /\ Blocked(time) \in Nat /\ Popping \in Int /\ InFlight \in Int
          /\ Popping <= InFlight /\ Budget(time) \in Int /\ Limit + overlaps \in Int
      BY <1>4 DEF Numbers
    <3>5. Lost(time) + (Popping - 1) <= overlaps
      BY <1>4, <1>15, <3>2, <3>4, SMTT(30) DEF Numbers
    <3>6. Budget(time) - 1 <= Limit + overlaps
      BY <3>3, <3>4
    <3> QED BY <1>6, <1>13, <1>14, <3>1, <3>4, <3>5, <3>6
  <2>2. CASE ~Stale(time)
    <3>1. fresh = 1
      BY <1>10, <1>11, <2>2
    <3>2. Lost(time) + Popping <= overlaps
      BY <2>2 DEF Regular
    <3>3. Popping > 0
      <4>1. Poppers # {} /\ IsFiniteSet(Poppers)
        <5>1. t \in Poppers /\ Poppers \subseteq Busy
          BY <1>0 DEF Poppers, Busy, At
        <5> QED BY <5>1, FS_Subset DEF Finite
      <4> QED BY <1>4, <4>1, FS_EmptySet DEF Popping, Numbers
    <3>4. Budget(time) <= Limit + overlaps
      BY <1>4, <2>2, <3>3 DEF Regular, Numbers
    <3>5. /\ Lost(time) \in Int /\ Popping \in Int /\ Budget(time) \in Int
      BY <1>4 DEF Numbers
    <3>6. Lost(time)' = Lost(time) + 1 /\ Popping' = Popping - 1 /\ Budget(time)' = Budget(time)
      BY <1>6, <1>13, <1>14, <3>1, <3>5
    <3> QED BY <3>2, <3>4, <3>5, <3>6
  <2> QED BY <2>1, <2>2
<1> QED
  BY <1>7, <1>8, <1>16, <1>17, <1>18, <1>19 DEF Regular

\* A request is admitted.
LEMMA AdmitStep ==
  ASSUME LimiterTypeOK, Finite, NEW t \in Thread, Admit(t),
         NEW time \in Int, Regular(time), Held(time) <= Let(time)
  PROVE  Regular(time)'
<1> DEFINE x == thread[t].now
           fresh == IF x > time THEN 1 ELSE 0
<1>0. /\ t \in Busy /\ ~At(t, "idle") /\ ~At(t, "pop") /\ At(t, "append")
      /\ thread[t] \in [at : Place, now : 0..MaxNow] /\ x \in Int
      /\ entries' = Append(entries, x) /\ admitted' = Append(admitted, x)
      /\ overlaps' = overlaps
  BY RateLimitConstants DEF LimiterTypeOK, Busy, Admit, At
<1>1. thread' = [thread EXCEPT ![t] = Idle] /\ Idle.at = "idle"
  BY DEF Admit, Ends, Idle
<1>2. \A u \in Thread : u # t => thread'[u] = thread[u]
  BY <1>1 DEF LimiterTypeOK
<1>3. /\ Busy' = IF Idle.at = "idle" THEN Busy \ {t} ELSE Busy \cup {t}
      /\ InFlight' = InFlight + (IF Idle.at = "idle" THEN 0 ELSE 1) - (IF At(t, "idle") THEN 0 ELSE 1)
      /\ Popping' = Popping + (IF Idle.at = "pop" THEN 1 ELSE 0) - (IF At(t, "pop") THEN 1 ELSE 0)
  BY <1>1, ThreadMoves
<1>4. Numbers(time) /\ Popping <= InFlight - 1 /\ InFlight > 0
  <2>1. Numbers(time) /\ Popping <= InFlight - 1
    BY <1>0, Counts
  <2>2. InFlight \in Nat /\ InFlight # 0
    BY <1>0, <2>1 DEF Numbers
  <2> QED BY <2>1, <2>2
<1>5. Busy' = Busy \ {t} /\ InFlight' = InFlight - 1 /\ Popping' = Popping
  BY <1>0, <1>1, <1>3, <1>4 DEF Numbers
<1>6. Late(time) <=> Late(time)' \/ x <= time
  BY <1>0, <1>2, <1>5 DEF Late, Busy
<1>7. Recent(time) => Recent(time)'
  BY <1>2, <1>5 DEF Recent, Busy
<1>8. Committed' /\ InFlight' # 0 => Committed
  BY <1>0, <1>2, <1>5 DEF Committed, Busy, At
<1>9. InFlight' = 0 => Committed
  <2>1. Finite'
    BY <1>1, ThreadMoves
  <2>2. InFlight' = 0 => Busy' = {}
    BY <2>1, FS_EmptySet DEF Finite, InFlight
  <2> QED BY <1>0, <1>5, <2>2 DEF Committed
<1>10. entries \in Seq(Int) /\ admitted \in Seq(Int)
  BY Times
<1>11. /\ Held(time)' = Held(time) + fresh
       /\ Let(time)' = Let(time) + fresh
       /\ Blocked(time)' = IF fresh = 1 THEN Blocked(time) ELSE Held(time)
       /\ Stale(time)' <=> Stale(time) \/ fresh = 0
       /\ Len(entries') = Len(entries) + 1
       /\ x <= time <=> fresh = 0
  BY <1>0, <1>10, AppendLater DEF Held, Let, Blocked, Stale
<1>12. fresh \in {0, 1}
  OBVIOUS
<1> HIDE DEF fresh
<1>13. Lost(time)' = Lost(time) /\ Lost(time) \in Int /\ Lost(time) = Let(time) - Held(time)
  BY <1>4, <1>11, <1>12 DEF Lost, Numbers
<1>14. Budget(time)' = Budget(time)
  BY <1>4, <1>5, <1>11, <1>13 DEF Budget, Numbers
<1>15. /\ Others = InFlight - 1
       /\ Others' = IF InFlight = 1 THEN 0 ELSE InFlight - 2
  BY <1>4, <1>5 DEF Others, Numbers
<1>16. InFlight' = 0 => Budget(time)' <= Limit + overlaps'
  BY <1>0, <1>9, <1>14 DEF Regular
<1>17. Budget(time)' <= Limit + overlaps' + (IF InFlight' = 0 THEN 0 ELSE 1)
  <2>1. Budget(time) <= Limit + overlaps + 1
    BY <1>4 DEF Regular, Numbers
  <2> QED BY <1>0, <1>4, <1>5, <1>14, <1>16, <2>1 DEF Numbers
<1>18. Committed' => Budget(time)' <= Limit + overlaps'
  BY <1>0, <1>8, <1>14, <1>16 DEF Regular
<1>19. Late(time)' => Let(time)' + InFlight' - 1 <= overlaps'
  <2> SUFFICES ASSUME Late(time)' PROVE Let(time)' + InFlight' - 1 <= overlaps'
    OBVIOUS
  <2>1. Let(time) + InFlight - 1 <= overlaps
    BY <1>6 DEF Regular
  <2>2. Let(time)' = Let(time) + fresh /\ InFlight' = InFlight - 1 /\ overlaps' = overlaps
    BY <1>0, <1>5, <1>11
  <2>3. Let(time) \in Int /\ InFlight \in Int /\ overlaps \in Int
    BY <1>4 DEF Numbers
  <2> QED BY <1>12, <2>1, <2>2, <2>3
<1>20. ~Late(time)' /\ Stale(time)' => Lost(time)' + Blocked(time)' + Others' <= overlaps'
  <2> SUFFICES ASSUME ~Late(time)', Stale(time)'
               PROVE  Lost(time)' + Blocked(time)' + Others' <= overlaps'
    OBVIOUS
  <2>1. CASE fresh = 0
    <3>1. Let(time) + InFlight - 1 <= overlaps
      BY <1>6, <1>11, <2>1 DEF Regular
    <3>2. Lost(time)' = Let(time) - Held(time) /\ Blocked(time)' = Held(time) /\ overlaps' = overlaps
      BY <1>0, <1>11, <1>13, <2>1
    <3>3. Others' <= InFlight - 1 /\ Others' \in Int
      BY <1>4, <1>15 DEF Numbers
    <3>4. Let(time) \in Int /\ Held(time) \in Int /\ InFlight \in Int /\ overlaps \in Int
      BY <1>4 DEF Numbers
    <3> QED BY <3>1, <3>2, <3>3, <3>4
  <2>2. CASE fresh = 1
    <3>1. Lost(time) + Blocked(time) + Others <= overlaps
      BY <1>6, <1>11, <2>2 DEF Regular
    <3>2. /\ Lost(time)' = Lost(time) /\ Blocked(time)' = Blocked(time)
          /\ overlaps' = overlaps
      BY <1>0, <1>11, <1>13, <2>2
    <3>3. Others' <= Others /\ Others' \in Int /\ Others \in Int
      BY <1>4, <1>15 DEF Numbers
    <3>4. Lost(time) \in Int /\ Blocked(time) \in Int /\ overlaps \in Int
      BY <1>4 DEF Numbers
    <3> QED BY <3>1, <3>2, <3>3, <3>4
  <2> QED BY <1>12, <2>1, <2>2
<1>21. ~Late(time)' /\ ~Stale(time)' =>
          /\ Lost(time)' + Popping' <= overlaps'
          /\ \/ Budget(time)' <= Limit + overlaps'
             \/ Popping' = 0 /\ Lost(time)' + Others' <= overlaps'
  <2> SUFFICES ASSUME ~Late(time)', ~Stale(time)'
               PROVE  /\ Lost(time)' + Popping' <= overlaps'
                      /\ \/ Budget(time)' <= Limit + overlaps'
                         \/ Popping' = 0 /\ Lost(time)' + Others' <= overlaps'
    OBVIOUS
  <2>1. ~Late(time) /\ ~Stale(time)
    BY <1>6, <1>11
  <2>2. /\ Lost(time) + Popping <= overlaps
        /\ \/ Budget(time) <= Limit + overlaps
           \/ Popping = 0 /\ Lost(time) + Others <= overlaps
    BY <2>1 DEF Regular
  <2>3. CASE InFlight = 1
    BY <1>0, <1>4, <1>5, <1>13, <1>14, <1>16, <2>2, <2>3 DEF Numbers
  <2>4. CASE InFlight # 1
    <3>1. Others' = Others - 1 /\ Others \in Int
      BY <1>4, <1>15, <2>4 DEF Numbers
    <3>2. Lost(time)' = Lost(time) /\ Popping' = Popping /\ Budget(time)' = Budget(time)
          /\ overlaps' = overlaps
      BY <1>0, <1>5, <1>13, <1>14
    <3>3. Lost(time) \in Int /\ overlaps \in Int
      BY <1>4 DEF Numbers
    <3> QED BY <2>2, <3>1, <3>2, <3>3
  <2> QED BY <2>3, <2>4
<1> QED
  BY <1>7, <1>17, <1>18, <1>19, <1>20, <1>21 DEF Regular

\* What is later than a time in the deque is later than it in the record.
LEMMA HeldStep ==
  ASSUME LimiterTypeOK, NEW t \in Thread, Request(t), NEW time \in Int,
         Held(time) <= Let(time)
  PROVE  Held(time)' <= Let(time)'
<1>1. /\ entries \in Seq(Int) /\ admitted \in Seq(Int)
      /\ Held(time) \in Int /\ Let(time) \in Int
  <2>1. entries \in Seq(Int) /\ admitted \in Seq(Int)
    BY Times
  <2> QED BY <2>1, LaterFinite DEF Held, Let
<1>2. CASE UNCHANGED <<entries, admitted>>
  BY <1>2 DEF Held, Let
<1>3. CASE entries # <<>> /\ entries' = Tail(entries) /\ admitted' = admitted
  <2>1. Let(time)' = Let(time)
    BY <1>3 DEF Let
  <2>2. Held(time)' = Held(time) - (IF Head(entries) > time THEN 1 ELSE 0)
    BY <1>1, <1>3, TailLater DEF Held
  <2> QED BY <1>1, <2>1, <2>2
<1>4. CASE Admit(t)
  <2> DEFINE x == thread[t].now
  <2>1. x \in Int
    BY DEF LimiterTypeOK
  <2>2. entries' = Append(entries, x) /\ admitted' = Append(admitted, x)
    BY <1>4 DEF Admit
  <2> HIDE DEF x
  <2>3. /\ Held(time)' = Held(time) + (IF x > time THEN 1 ELSE 0)
        /\ Let(time)' = Let(time) + (IF x > time THEN 1 ELSE 0)
    BY <1>1, <2>1, <2>2, AppendLater DEF Held, Let
  <2> QED BY <1>1, <2>3
<1>5. \/ UNCHANGED <<entries, admitted>>
      \/ entries # <<>> /\ entries' = Tail(entries) /\ admitted' = admitted
      \/ Admit(t)
  BY DEF Request, Arrive, Test, Look, Pop, Count, Refuse, IndexError, history
<1> QED
  BY <1>2, <1>3, <1>4, <1>5

\* A request touches its own thread.
LEMMA OneThread ==
  ASSUME LimiterTypeOK, NEW t \in Thread, Request(t)
  PROVE  \E r \in [at : Place, now : 0..MaxNow] :
            thread' = [thread EXCEPT ![t] = r] /\ (r.now = thread[t].now \/ r.now = clock \/ r = Idle)
<1>1. thread[t] \in [at : Place, now : 0..MaxNow] /\ clock \in 0..MaxNow
  BY DEF LimiterTypeOK
<1>2. ASSUME NEW place \in Place, GoTo(t, place)
      PROVE  \E r \in [at : Place, now : 0..MaxNow] :
                thread' = [thread EXCEPT ![t] = r] /\ r.now = thread[t].now
  <2>1. [thread[t] EXCEPT !.at = place] \in [at : Place, now : 0..MaxNow]
    BY <1>1
  <2>2. [thread[t] EXCEPT !.at = place].now = thread[t].now
    BY <1>1
  <2> QED BY <1>2, <2>1, <2>2 DEF GoTo
<1>3. ASSUME Ends(t)
      PROVE  \E r \in [at : Place, now : 0..MaxNow] : thread' = [thread EXCEPT ![t] = r] /\ r = Idle
  <2>1. Idle \in [at : Place, now : 0..MaxNow]
    BY RateLimitConstants DEF Idle, Place
  <2> QED BY <1>3, <2>1 DEF Ends
<1>4. CASE Arrive(t)
  <2>1. [at |-> "test", now |-> clock] \in [at : Place, now : 0..MaxNow]
    BY <1>1 DEF Place
  <2> QED BY <1>4, <2>1 DEF Arrive
<1>5. (\E place \in Place : GoTo(t, place)) \/ Ends(t) \/ Arrive(t)
  BY DEF Request, Test, Look, Pop, Count, Refuse, Admit, IndexError, Place
<1> QED
  BY <1>2, <1>3, <1>4, <1>5

\* There are finitely many requests in progress.
LEMMA FiniteStep ==
  ASSUME LimiterTypeOK, Finite, NEW t \in Thread, Request(t)
  PROVE  Finite'
<1>1. PICK r \in [at : Place, now : 0..MaxNow] : thread' = [thread EXCEPT ![t] = r]
  BY OneThread
<1> QED
  BY <1>1, ThreadMoves

\* A request takes its time from the clock.
LEMMA PastStep ==
  ASSUME LimiterTypeOK, Past, NEW t \in Thread, Request(t)
  PROVE  Past'
<1>1. PICK r \in [at : Place, now : 0..MaxNow] :
         thread' = [thread EXCEPT ![t] = r] /\ (r.now = thread[t].now \/ r.now = clock \/ r = Idle)
  BY OneThread
<1>2. clock' = clock /\ clock \in Nat
  BY RateLimitConstants
     DEF Request, Arrive, Test, Look, Pop, Count, Refuse, Admit, LimiterTypeOK
<1>3. /\ thread'[t] = r /\ \A u \in Thread : u # t => thread'[u] = thread[u]
      /\ \A u \in Thread : thread[u].now \in Nat
  BY <1>1, RateLimitConstants DEF LimiterTypeOK
<1>4. Arrive(t) \/ t \in Busy
  BY DEF Request, Test, Look, Pop, Count, Refuse, Admit, Busy, At
<1>5. r.now <= clock
  <2>1. CASE t \in Busy
    BY <1>1, <1>2, <2>1, RateLimitConstants DEF Past, Idle
  <2>2. CASE Arrive(t)
    <3>1. thread'[t] = [at |-> "test", now |-> clock]
      BY <2>2 DEF Arrive, LimiterTypeOK
    <3> QED BY <1>2, <1>3, <3>1
  <2> QED BY <1>4, <2>1, <2>2
<1>6. \A u \in Busy' : thread'[u].now <= clock'
  BY <1>2, <1>3, <1>5 DEF Past, Busy, At
<1>7. CASE UNCHANGED <<entries, admitted>>
  BY <1>2, <1>6, <1>7 DEF Past
<1>8. CASE entries # <<>> /\ entries' = Tail(entries) /\ admitted' = admitted
  <2>1. entries \in Seq(Nat)
    BY RateLimitConstants DEF LimiterTypeOK
  <2>2. \A i \in DOMAIN entries' : i + 1 \in DOMAIN entries /\ entries'[i] = entries[i + 1]
    BY <1>8, <2>1
  <2>3. \A i \in DOMAIN entries' : entries'[i] <= clock'
    BY <1>2, <2>2 DEF Past
  <2> QED BY <1>6, <1>2, <1>8, <2>3 DEF Past
<1>9. CASE Admit(t)
  <2>1. thread[t].now <= clock
    BY <1>9 DEF Past, Busy, Admit, At
  <2>2. ASSUME NEW s \in Seq(Nat), \A i \in DOMAIN s : s[i] <= clock, NEW x \in Nat, x <= clock
        PROVE  \A i \in DOMAIN Append(s, x) : Append(s, x)[i] <= clock
    BY <2>2
  <2>3. entries \in Seq(Nat) /\ admitted \in Seq(Nat)
    BY RateLimitConstants DEF LimiterTypeOK
  <2>4. entries' = Append(entries, thread[t].now) /\ admitted' = Append(admitted, thread[t].now)
    BY <1>9 DEF Admit
  <2>5. /\ \A i \in DOMAIN entries' : entries'[i] <= clock
        /\ \A i \in DOMAIN admitted' : admitted'[i] <= clock
    BY <1>3, <2>1, <2>2, <2>3, <2>4 DEF Past
  <2> QED BY <1>2, <1>6, <2>5 DEF Past
<1>10. \/ UNCHANGED <<entries, admitted>>
       \/ entries # <<>> /\ entries' = Tail(entries) /\ admitted' = admitted
       \/ Admit(t)
  BY DEF Request, Arrive, Test, Look, Pop, Count, Refuse, IndexError, history
<1> QED
  BY <1>7, <1>8, <1>9, <1>10

\* A window that has ended stays so.
LEMMA ClosedStep ==
  ASSUME LimiterTypeOK, Finite, NEW t \in Thread, Request(t), NEW time \in Int, Closed(time)
  PROVE  Closed(time)'
<1> DEFINE end == time + Window
<1>0. end \in Int /\ clock > end /\ clock' = clock /\ clock \in Int
  <2>1. clock' = clock
    BY DEF Request, Arrive, Test, Look, Pop, Count, Refuse, Admit
  <2> QED BY <2>1, Times DEF Closed
<1>1. PICK r \in [at : Place, now : 0..MaxNow] :
         thread' = [thread EXCEPT ![t] = r] /\ (r.now = thread[t].now \/ r.now = clock \/ r = Idle)
  BY OneThread
<1>2. /\ thread'[t] = r /\ \A u \in Thread : u # t => thread'[u] = thread[u]
      /\ \A u \in Thread : thread[u].now \in Int
  BY <1>1, RateLimitConstants DEF LimiterTypeOK
<1>3. IsFiniteSet(Early(end)) /\ Cardinality(Early(end)) \in Nat
  <2>1. Early(end) \subseteq Busy
    BY DEF Early
  <2> QED BY <2>1, FS_Subset, FS_CardinalityType DEF Finite
<1>4. /\ IsFiniteSet(Within(end)) /\ Cardinality(Within(end)) \in Nat
  BY WindowSize
<1>5. Cardinality(Within(end)) + Cardinality(Early(end)) <= Limit + overlaps
  BY DEF Closed
<1>6. /\ overlaps' \in Nat /\ overlaps \in Nat /\ overlaps' >= overlaps /\ Limit \in Nat
  <2>1. overlaps \in Nat
    BY RateLimitConstants DEF LimiterTypeOK
  <2>2. overlaps' = overlaps \/ overlaps' = overlaps + 1
    BY DEF Request, Arrive, Test, Look, Pop, Count, Refuse, Admit
  <2> QED BY <2>1, <2>2, RateLimitConstants
<1>7. Early(end)' \subseteq Early(end)
  <2>1. t \in Early(end)' => t \in Early(end)
    <3>1. CASE Arrive(t)
      <4>1. thread'[t] = [at |-> "test", now |-> clock]
        BY <3>1 DEF Arrive, LimiterTypeOK
      <4> QED BY <1>0, <4>1 DEF Early
    <3>2. CASE t \in Busy /\ r.now = thread[t].now
      BY <1>2, <3>2 DEF Early
    <3>3. CASE r = Idle
      BY <1>2, <3>3 DEF Early, Busy, At, Idle
    <3>4. CASE r.now = clock
      BY <1>0, <1>2, <3>4 DEF Early
    <3>5. Arrive(t) \/ t \in Busy
      BY DEF Request, Test, Look, Pop, Count, Refuse, Admit, Busy, At
    <3> QED BY <1>1, <3>1, <3>2, <3>3, <3>4, <3>5
  <2> QED BY <1>2, <2>1 DEF Early, Busy, At
<1> HIDE DEF end
<1>8. Cardinality(Within(end)') + Cardinality(Early(end)') <= Limit + overlaps
  <2>1. CASE admitted' = admitted
    <3>1. Within(end)' = Within(end)
      BY <2>1 DEF Within
    <3>2. Cardinality(Early(end)') <= Cardinality(Early(end)) /\ Cardinality(Early(end)') \in Nat
      BY <1>3, <1>7, FS_Subset, FS_CardinalityType
    <3> QED BY <1>3, <1>4, <1>5, <1>6, <3>1, <3>2
  <2>2. CASE Admit(t)
    <3> DEFINE x == thread[t].now
               n == Len(admitted) + 1
    <3>0. x \in Int /\ t \in Busy /\ admitted \in Seq(Int) /\ admitted' = Append(admitted, x)
      BY <2>2, Times DEF Admit, Busy, At
    <3>1. /\ DOMAIN admitted' = DOMAIN admitted \cup {n} /\ n \notin DOMAIN admitted
          /\ \A i \in DOMAIN admitted : admitted'[i] = admitted[i]
          /\ admitted'[n] = x
      BY <3>0
    <3>2. t \notin Early(end)'
      BY <2>2 DEF Admit, Ends, Idle, Early, Busy, At, LimiterTypeOK
    <3> HIDE DEF x, n
    <3>3. CASE x <= end
      <4>1. Within(end)' \subseteq Within(end) \cup {n}
        BY <3>1 DEF Within
      <4>2. t \in Early(end)
        BY <3>0, <3>3 DEF Early, x
      <4>3. Early(end)' \subseteq Early(end) \ {t}
        BY <1>7, <3>2
      <4>4. /\ IsFiniteSet(Within(end) \cup {n})
            /\ Cardinality(Within(end) \cup {n}) <= Cardinality(Within(end)) + 1
            /\ Cardinality(Within(end) \cup {n}) \in Nat
        <5>1. /\ IsFiniteSet(Within(end) \cup {n})
              /\ \/ Cardinality(Within(end) \cup {n}) = Cardinality(Within(end))
                 \/ Cardinality(Within(end) \cup {n}) = Cardinality(Within(end)) + 1
          BY <1>4, FS_AddElement
        <5> QED BY <1>4, <5>1
      <4>5. /\ IsFiniteSet(Early(end) \ {t})
            /\ Cardinality(Early(end) \ {t}) = Cardinality(Early(end)) - 1
        BY <1>3, <4>2, FS_RemoveElement
      <4>6. /\ Cardinality(Within(end)') <= Cardinality(Within(end)) + 1
            /\ Cardinality(Within(end)') \in Nat
        BY <1>4, <4>1, <4>4, FS_Subset, FS_CardinalityType
      <4>7. /\ Cardinality(Early(end)') <= Cardinality(Early(end)) - 1
            /\ Cardinality(Early(end)') \in Nat
        BY <4>3, <4>5, FS_Subset, FS_CardinalityType
      <4> QED BY <1>3, <1>4, <1>5, <1>6, <4>6, <4>7
    <3>4. CASE x > end
      <4>1. Within(end)' \subseteq Within(end)
        BY <1>0, <3>0, <3>1, <3>4 DEF Within
      <4>2. /\ Cardinality(Within(end)') <= Cardinality(Within(end))
            /\ Cardinality(Within(end)') \in Nat
        BY <1>4, <4>1, FS_Subset, FS_CardinalityType
      <4>3. Cardinality(Early(end)') <= Cardinality(Early(end)) /\ Cardinality(Early(end)') \in Nat
        BY <1>3, <1>7, FS_Subset, FS_CardinalityType
      <4> QED BY <1>3, <1>4, <1>5, <1>6, <4>2, <4>3
    <3> QED BY <1>0, <3>0, <3>3, <3>4
  <2>3. admitted' = admitted \/ Admit(t)
    BY DEF Request, Arrive, Test, Look, Pop, Count, Refuse, IndexError, history
  <2> QED BY <2>1, <2>2, <2>3
<1>9. /\ Cardinality(Within(end)') \in Nat /\ Cardinality(Early(end)') \in Nat
  <2>1. IsFiniteSet(Early(end)')
    BY <1>3, <1>7, FS_Subset
  <2>2. IsFiniteSet(Within(end)')
    <3>1. admitted' \in Seq(Int)
      <4>1. admitted \in Seq(Int) /\ thread[t].now \in Int
        BY Times
      <4>2. admitted' = admitted \/ admitted' = Append(admitted, thread[t].now)
        BY DEF Request, Arrive, Test, Look, Pop, Count, Refuse, Admit, IndexError, history
      <4>3. Append(admitted, thread[t].now) \in Seq(Int)
        BY <4>1
      <4> QED BY <4>1, <4>2, <4>3
    <3>2. Len(admitted') \in Nat /\ Within(end)' \subseteq 1..Len(admitted')
      BY <3>1 DEF Within
    <3>3. IsFiniteSet(1..Len(admitted'))
      BY <3>2, FS_Interval
    <3> QED BY <3>2, <3>3, FS_Subset
  <2> QED BY <2>1, <2>2, FS_CardinalityType
<1> QED
  BY <1>0, <1>6, <1>8, <1>9 DEF Closed, end

\* The steps of a request, one by one.
LEMMA RegularStep ==
  ASSUME LimiterTypeOK, Finite, Past, NEW t \in Thread, Request(t), NEW time \in Int,
         Held(time) <= Let(time), Regular(time)
  PROVE  Regular(time)' \/ Closed(time)'
<1>1. CASE Arrive(t)
  BY <1>1, ArriveStep
<1>2. CASE Test(t)
  <2>1. t \in Busy /\ ~At(t, "pop") /\ ~At(t, "append")
    BY <1>2 DEF Test, Busy, At
  <2>2. entries' = entries /\ admitted' = admitted /\ overlaps' = overlaps
    BY <1>2 DEF Test, history
  <2> DEFINE place == IF entries = <<>> THEN "count" ELSE "head"
  <2>3. GoTo(t, place)
    BY <1>2 DEF Test
  <2>4. place \in {"count", "head"}
    OBVIOUS
  <2> HIDE DEF place
  <2>5. place # "idle" /\ place # "append" /\ place # "pop"
    BY <2>4
  <2> QED BY <2>1, <2>2, <2>3, <2>5, WalkStep
<1>3. CASE Look(t)
  <2>1. t \in Busy /\ ~At(t, "pop") /\ ~At(t, "append")
    BY <1>3 DEF Look, Busy, At
  <2>2. entries' = entries /\ admitted' = admitted /\ overlaps' = overlaps
    BY <1>3 DEF Look, IndexError, history
  <2>3. CASE entries = <<>>
    BY <1>3, <2>1, <2>2, <2>3, LeaveStep DEF Look, IndexError
  <2>4. CASE entries # <<>>
    <3> DEFINE place == IF IsOld(Head(entries), thread[t].now) THEN "pop" ELSE "count"
    <3>1. GoTo(t, place)
      BY <1>3, <2>4 DEF Look
    <3>2. place \in {"count", "pop"}
      OBVIOUS
    <3>3. place = "pop" => Stale(time)
      <4> SUFFICES ASSUME IsOld(Head(entries), thread[t].now) PROVE Stale(time)
        OBVIOUS
      <4>1. entries \in Seq(Int) /\ thread[t].now \in Int
        BY Times
      <4>2. 1 \in DOMAIN entries /\ Head(entries) = entries[1] /\ entries[1] \in Int
        BY <2>4, <4>1
      <4>3. thread[t].now - entries[1] >= Window
        BY <4>2 DEF IsOld
      <4>4. thread[t].now <= time + Window
        BY <2>1 DEF Regular, Recent
      <4>5. entries[1] <= time
        BY <4>1, <4>2, <4>3, <4>4, RateLimitConstants
      <4> QED BY <4>2, <4>5 DEF Stale, HasOld
    <3> HIDE DEF place
    <3>4. place # "idle" /\ place # "append"
      BY <3>2
    <3> QED BY <2>1, <2>2, <3>1, <3>3, <3>4, WalkStep
  <2> QED BY <2>3, <2>4
<1>4. CASE Pop(t)
  <2>1. t \in Busy /\ At(t, "pop") /\ ~At(t, "append")
    BY <1>4 DEF Pop, Busy, At
  <2>2. CASE entries = <<>>
    <3>1. entries' = entries /\ admitted' = admitted /\ overlaps' = overlaps /\ Ends(t)
      BY <1>4, <2>2 DEF Pop, IndexError
    <3> QED BY <2>1, <3>1, LeaveStep
  <2>3. CASE entries # <<>>
    <3>1. entries' = Tail(entries) /\ admitted' = admitted /\ overlaps' = overlaps
          /\ GoTo(t, "test")
      BY <1>4, <2>3 DEF Pop, history
    <3> QED BY <2>1, <2>3, <3>1, PopStep
  <2> QED BY <2>2, <2>3
<1>5. CASE Count(t)
  <2>1. t \in Busy /\ ~At(t, "pop") /\ ~At(t, "append")
    BY <1>5 DEF Count, Busy, At
  <2>2. entries' = entries /\ admitted' = admitted /\ overlaps' = overlaps
    BY <1>5 DEF Count, history
  <2> DEFINE place == IF IsFull(Len(entries)) THEN "refuse" ELSE "append"
  <2>3. GoTo(t, place)
    BY <1>5 DEF Count
  <2>4. place \in {"refuse", "append"}
    OBVIOUS
  <2>5. place = "append" => Len(entries) < Limit
    <3>1. Len(entries) \in Int
      BY DEF LimiterTypeOK
    <3> QED BY <3>1, RateLimitConstants DEF IsFull
  <2> HIDE DEF place
  <2>6. place # "idle" /\ place # "pop"
    BY <2>4
  <2> QED BY <2>1, <2>2, <2>3, <2>5, <2>6, WalkStep
<1>6. CASE Refuse(t)
  <2>1. t \in Busy /\ ~At(t, "append")
    BY <1>6 DEF Refuse, Busy, At
  <2>2. /\ entries' = entries /\ admitted' = admitted /\ overlaps' = overlaps /\ Ends(t)
    BY <1>6 DEF Refuse, IndexError
  <2> QED BY <2>1, <2>2, LeaveStep
<1>7. CASE Admit(t)
  BY <1>7, AdmitStep
<1> QED
  BY <1>1, <1>2, <1>3, <1>4, <1>5, <1>6, <1>7 DEF Request

LEMMA WindowStep ==
  ASSUME LimiterTypeOK, Finite, Past, WindowInv, NEW t \in Thread, Request(t)
  PROVE  WindowInv'
<1> SUFFICES ASSUME NEW time \in Int
             PROVE  Held(time)' <= Let(time)' /\ (Regular(time)' \/ Closed(time)')
  BY DEF WindowInv
<1>1. Held(time) <= Let(time) /\ (Regular(time) \/ Closed(time))
  BY DEF WindowInv
<1> QED
  BY <1>1, HeldStep, RegularStep, ClosedStep

-----------------------------------------------------------------------------
\* A request that finds the deque empty under its hands has overlapped another,
\* and each of those pays for one.
BrokenInv ==
    /\ broken + InFlight <= overlaps + (IF InFlight = 0 THEN 0 ELSE 1)
    /\ entries = <<>> /\ (\A t \in Busy : thread[t].at \in {"head", "pop", "refuse"}) =>
          broken + InFlight <= overlaps

LEMMA BrokenStep ==
  ASSUME LimiterTypeOK, Finite, BrokenInv, NEW t \in Thread, Request(t)
  PROVE  BrokenInv'
<1>0. InFlight \in Nat /\ (InFlight = 0 <=> Busy = {}) /\ overlaps \in Nat /\ broken \in Nat
  BY FS_CardinalityType, FS_EmptySet, RateLimitConstants DEF Finite, InFlight, LimiterTypeOK
<1>1. PICK r \in [at : Place, now : 0..MaxNow] : thread' = [thread EXCEPT ![t] = r]
  BY OneThread
<1>2. thread'[t] = r /\ \A u \in Thread : u # t => thread'[u] = thread[u]
  BY <1>1 DEF LimiterTypeOK
<1>3. /\ Busy' = IF r.at = "idle" THEN Busy \ {t} ELSE Busy \cup {t}
      /\ InFlight' = InFlight + (IF r.at = "idle" THEN 0 ELSE 1) - (IF At(t, "idle") THEN 0 ELSE 1)
  BY <1>1, ThreadMoves
<1>4. t \in Busy <=> ~At(t, "idle")
  BY DEF Busy
<1>5. CASE Arrive(t)
  <2>1. r.at = "test" /\ At(t, "idle")
    BY <1>2, <1>5 DEF Arrive, LimiterTypeOK
  <2>2. overlaps' = overlaps + (IF InFlight = 0 THEN 0 ELSE 1) /\ broken' = broken
    BY <1>0, <1>5 DEF Arrive, Busy, history
  <2>3. InFlight' = InFlight + 1 /\ t \in Busy' /\ thread'[t].at = "test"
    BY <1>0, <1>2, <1>3, <2>1
  <2> QED BY <1>0, <2>2, <2>3 DEF BrokenInv
<1>6. CASE t \in Busy /\ r.at \notin {"idle", "head", "pop", "refuse"} /\ UNCHANGED <<overlaps, broken>>
  <2>1. InFlight' = InFlight /\ t \in Busy'
    BY <1>0, <1>3, <1>4, <1>6
  <2> QED BY <1>0, <1>2, <1>6, <2>1 DEF BrokenInv
<1>7. CASE t \in Busy /\ r.at # "idle" /\ entries # <<>> /\ UNCHANGED <<entries, overlaps, broken>>
  <2>1. InFlight' = InFlight
    BY <1>0, <1>3, <1>4, <1>7
  <2> QED BY <1>0, <1>7, <2>1 DEF BrokenInv
<1>8. CASE t \in Busy /\ r.at = "idle" /\ entries' # <<>> /\ UNCHANGED <<overlaps, broken>>
  <2>1. InFlight' = InFlight - 1 /\ InFlight > 0
    BY <1>0, <1>3, <1>4, <1>8
  <2> QED BY <1>0, <1>8, <2>1 DEF BrokenInv
<1>9. CASE /\ thread[t].at \in {"head", "pop", "refuse"} /\ entries = <<>>
           /\ IndexError(t) /\ overlaps' = overlaps
  <2>1. t \in Busy /\ r.at = "idle" /\ entries' = <<>> /\ broken' = broken + 1
    BY <1>2, <1>9 DEF Busy, At, IndexError, Ends, Idle, LimiterTypeOK
  <2>2. InFlight' = InFlight - 1 /\ InFlight > 0 /\ Busy' = Busy \ {t}
    BY <1>0, <1>3, <1>4, <2>1
  <2>3. broken' + InFlight' = broken + InFlight
    BY <1>0, <2>1, <2>2
  <2>4. ASSUME \A u \in Busy' : thread'[u].at \in {"head", "pop", "refuse"}
        PROVE  broken' + InFlight' <= overlaps'
    <3>1. \A u \in Busy : thread[u].at \in {"head", "pop", "refuse"}
      BY <1>2, <1>9, <2>2, <2>4 DEF Busy
    <3>2. broken + InFlight <= overlaps
      BY <1>9, <3>1 DEF BrokenInv
    <3> QED BY <1>9, <2>3, <3>2
  <2>5. InFlight' = 0 => Busy' = {}
    <3>1. Finite'
      BY <1>1, ThreadMoves
    <3> QED BY <3>1, FS_EmptySet DEF Finite, InFlight
  <2>6. broken' + InFlight' <= overlaps' + (IF InFlight' = 0 THEN 0 ELSE 1)
    <3>1. CASE InFlight' = 0
      BY <1>0, <1>9, <2>4, <2>5, <3>1
    <3>2. CASE InFlight' # 0
      BY <1>0, <1>9, <2>2, <2>3, <3>2 DEF BrokenInv
    <3> QED BY <3>1, <3>2
  <2> QED BY <2>4, <2>6 DEF BrokenInv
<1>10. CASE Test(t)
  <2>1. /\ t \in Busy /\ UNCHANGED <<entries, overlaps, broken>>
        /\ r.at = IF entries = <<>> THEN "count" ELSE "head"
    BY <1>2, <1>10 DEF Test, GoTo, Busy, At, history, LimiterTypeOK
  <2> QED BY <1>6, <1>7, <2>1
<1>11. CASE Look(t)
  <2>1. CASE entries = <<>>
    BY <1>9, <1>11, <2>1 DEF Look, At
  <2>2. CASE entries # <<>>
    <3>1. t \in Busy /\ UNCHANGED <<entries, overlaps, broken>> /\ r.at \in {"pop", "count"}
      BY <1>2, <1>11, <2>2 DEF Look, GoTo, Busy, At, history, LimiterTypeOK
    <3> QED BY <1>7, <2>2, <3>1
  <2> QED BY <2>1, <2>2
<1>12. CASE Pop(t)
  <2>1. CASE entries = <<>>
    BY <1>9, <1>12, <2>1 DEF Pop, At
  <2>2. CASE entries # <<>>
    <3>1. t \in Busy /\ UNCHANGED <<overlaps, broken>> /\ r.at = "test"
      BY <1>2, <1>12, <2>2 DEF Pop, GoTo, Busy, At, history, LimiterTypeOK
    <3> QED BY <1>6, <3>1
  <2> QED BY <2>1, <2>2
<1>13. CASE Count(t)
  <2>1. /\ t \in Busy /\ UNCHANGED <<entries, overlaps, broken>>
        /\ r.at = IF IsFull(Len(entries)) THEN "refuse" ELSE "append"
    BY <1>2, <1>13 DEF Count, GoTo, Busy, At, history, LimiterTypeOK
  <2>2. entries = <<>> => ~IsFull(Len(entries))
    BY RateLimitConstants DEF IsFull
  <2> QED BY <1>6, <1>7, <2>1, <2>2
<1>14. CASE Refuse(t)
  <2>1. CASE entries = <<>>
    BY <1>9, <1>14, <2>1 DEF Refuse, At
  <2>2. CASE entries # <<>>
    <3>1. t \in Busy /\ UNCHANGED <<entries, overlaps, broken>> /\ r.at = "idle"
      BY <1>2, <1>14, <2>2 DEF Refuse, Ends, Idle, Busy, At, history, LimiterTypeOK
    <3> QED BY <1>8, <2>2, <3>1
  <2> QED BY <2>1, <2>2
<1>15. CASE Admit(t)
  <2>1. t \in Busy /\ UNCHANGED <<overlaps, broken>> /\ r.at = "idle"
    BY <1>2, <1>15 DEF Admit, Ends, Idle, Busy, At, history, LimiterTypeOK
  <2>2. entries' # <<>>
    BY <1>15 DEF Admit, LimiterTypeOK
  <2> QED BY <1>8, <2>1, <2>2
<1> QED
  BY <1>5, <1>10, <1>11, <1>12, <1>13, <1>14, <1>15 DEF Request

-----------------------------------------------------------------------------
\* While requests come one after the other.

Sorted == \A i, j \in DOMAIN entries : i < j => entries[i] <= entries[j]

\* What a request in progress knows.
Waiting(t) ==
    /\ \A i \in DOMAIN entries : entries[i] <= thread[t].now
    /\ \A i \in DOMAIN admitted : admitted[i] <= thread[t].now
    /\ thread[t].at \in {"count", "refuse"} /\ entries # <<>> =>
          ~IsOld(Head(entries), thread[t].now)
    /\ At(t, "refuse") => Len(entries) >= Limit
    /\ At(t, "append") => Len(entries) < Limit

Refused ==
    refusal # NoRefusal =>
        /\ \/ Len(entries) < Limit
           \/ refusal.retry_after = RetryAfter(Head(entries), refusal.time)
        /\ Cardinality(Within(refusal.time)) = Limit

Sequential ==
    overlaps = 0 =>
        /\ Sorted
        /\ \A t \in Busy : Waiting(t)
        /\ Len(entries) <= Limit
        /\ Refused

\* The only request in progress.
LEMMA Alone ==
  ASSUME LimiterTypeOK, Finite, BrokenInv, overlaps = 0, NEW t \in Busy
  PROVE  Busy = {t}
<1>1. InFlight \in Nat /\ broken \in Nat
  BY FS_CardinalityType DEF Finite, InFlight, LimiterTypeOK
<1>2. InFlight <= 1
  BY <1>1 DEF BrokenInv
<1>3. IsFiniteSet(Busy \ {t}) /\ Cardinality(Busy \ {t}) = InFlight - 1
  BY FS_RemoveElement DEF Finite, InFlight
<1>4. Cardinality(Busy \ {t}) \in Nat
  BY <1>3, FS_CardinalityType
<1>5. Cardinality(Busy \ {t}) = 0
  BY <1>1, <1>2, <1>3, <1>4
<1>6. Busy \ {t} = {}
  BY <1>3, <1>5, FS_EmptySet
<1> QED BY <1>6

\* A request is refused when the window before it is full.
LEMMA FullWindow ==
  ASSUME LimiterTypeOK, Finite, WindowInv, BrokenInv, Sequential, overlaps = 0,
         NEW t \in Thread, At(t, "refuse"), entries # <<>>
  PROVE  Cardinality(Within(thread[t].now)) = Limit
<1> DEFINE now == thread[t].now
           time == now - Window
<1>0. /\ t \in Busy /\ now \in Int /\ time \in Int /\ time + Window = now
      /\ entries \in Seq(Int) /\ admitted \in Seq(Int) /\ Len(entries) \in Nat
      /\ \A i \in DOMAIN entries : entries[i] \in Int
      /\ \A i \in DOMAIN admitted : admitted[i] \in Int
  <2>1. now \in Int /\ t \in Busy
    BY Times DEF Busy, At
  <2> HIDE DEF now
  <2>2. time \in Int /\ time + Window = now
    BY <2>1, Times
  <2> QED BY <2>1, <2>2, Times
<1>1. Waiting(t) /\ Sorted
  BY <1>0 DEF Sequential
<1> HIDE DEF now
<1>2. Len(entries) >= Limit /\ ~IsOld(Head(entries), now)
  BY <1>1 DEF Waiting, At, now
<1>3. Held(time) = Len(entries)
  <2>1. \A i \in DOMAIN entries : entries[i] > time
    <3>1. 1 \in DOMAIN entries /\ Head(entries) = entries[1] /\ entries[1] \in Int
      BY <1>0
    <3>2. entries[1] > time
      <4>1. now - entries[1] < Window
        BY <1>0, <1>2, <3>1, Times DEF IsOld
      <4> QED BY <1>0, <3>1, <4>1, Times
    <3>3. \A i \in DOMAIN entries : entries[1] <= entries[i]
      BY <1>0, <1>1, <3>1 DEF Sorted
    <3> QED BY <1>0, <3>1, <3>2, <3>3
  <2>2. Later(entries, time) = 1..Len(entries)
    BY <1>0, <2>1 DEF Later
  <2>3. Cardinality(1..Len(entries)) = IF 1 > Len(entries) THEN 0 ELSE Len(entries) - 1 + 1
    BY <1>0, FS_Interval
  <2> QED BY <1>0, <2>2, <2>3 DEF Held
<1>4. Within(now) = Later(admitted, time)
  <2>1. \A i \in DOMAIN admitted : admitted[i] <= now
    BY <1>1 DEF Waiting, now
  <2>2. Window \in Int /\ time = now - Window
    BY RateLimitConstants
  <2>3. ASSUME NEW i \in DOMAIN admitted
        PROVE  now - admitted[i] < Window <=> admitted[i] > time
    BY <1>0, <2>2
  <2> QED BY <2>1, <2>3 DEF Within, Later
<1>5. Cardinality(Within(now)) = Let(time) /\ Let(time) \in Nat
  BY <1>0, <1>4, LaterFinite DEF Let
<1>6. Held(time) <= Let(time) /\ (Regular(time) \/ Closed(time))
  BY <1>0 DEF WindowInv
<1>7. InFlight = 1
  <2>1. Busy = {t}
    BY <1>0, Alone
  <2> QED BY <2>1, FS_Singleton DEF InFlight
<1>8. Let(time) <= Limit
  <2>1. CASE Regular(time)
    <3>1. Budget(time) <= Limit + 1
      BY <1>7, <2>1, RateLimitConstants DEF Regular
    <3>2. Budget(time) = (Let(time) - Len(entries)) + Len(entries) + 1
      BY <1>3, <1>7 DEF Budget, Lost
    <3> QED BY <1>0, <1>5, <3>1, <3>2, Times
  <2>2. CASE Closed(time)
    <3>1. Cardinality(Within(now)) + Cardinality(Early(now)) <= Limit
      BY <1>0, <2>2, RateLimitConstants DEF Closed
    <3>2. Cardinality(Early(now)) \in Nat
      <4>1. Early(now) \subseteq Busy
        BY DEF Early
      <4> QED BY <4>1, FS_Subset, FS_CardinalityType DEF Finite
    <3> QED BY <1>5, <3>1, <3>2, RateLimitConstants
  <2> QED BY <1>6, <2>1, <2>2
<1>9. Let(time) = Limit
  <2>1. Let(time) >= Limit
    BY <1>0, <1>2, <1>3, <1>5, <1>6, Times
  <2> QED BY <1>5, <1>8, <2>1, Times
<1> QED
  BY <1>5, <1>9 DEF now

LEMMA SequentialStep ==
  ASSUME LimiterTypeOK, Finite, Past, WindowInv, BrokenInv, Sequential,
         NEW t \in Thread, Request(t)
  PROVE  Sequential'
<1> SUFFICES ASSUME overlaps' = 0 PROVE Sequential'
  BY DEF Sequential
<1>0. overlaps = 0
  <2>1. overlaps \in Nat
    BY RateLimitConstants DEF LimiterTypeOK
  <2>2. overlaps' = overlaps \/ overlaps' = overlaps + 1
    BY DEF Request, Arrive, Test, Look, Pop, Count, Refuse, Admit
  <2> QED BY <2>1, <2>2
<1>1. PICK r \in [at : Place, now : 0..MaxNow] : thread' = [thread EXCEPT ![t] = r]
  BY OneThread
<1>2. thread'[t] = r /\ \A u \in Thread : u # t => thread'[u] = thread[u]
  BY <1>1 DEF LimiterTypeOK
<1>3. /\ Sorted /\ Len(entries) <= Limit /\ Refused
      /\ \A u \in Busy : Waiting(u)
  BY <1>0 DEF Sequential
<1>4. /\ entries \in Seq(Nat) /\ admitted \in Seq(Nat) /\ Len(entries) \in Nat
      /\ thread[t].now \in Nat /\ clock \in Nat
  BY RateLimitConstants DEF LimiterTypeOK
<1>5. Busy' \subseteq {t}
  <2>1. Busy \subseteq {t}
    <3>1. CASE t \in Busy
      BY <1>0, <3>1, Alone
    <3>2. CASE t \notin Busy
      <4>1. Arrive(t)
        BY <3>2 DEF Request, Test, Look, Pop, Count, Refuse, Admit, Busy, At
      <4>2. Busy = {}
        BY <1>0, <4>1 DEF Arrive, Busy
      <4> QED BY <4>2
    <3> QED BY <3>1, <3>2
  <2> QED BY <1>2, <2>1 DEF Busy, At
<1>6. t \in Busy => Waiting(t)
  BY <1>3
<1>7. CASE Arrive(t)
  <2>1. r = [at |-> "test", now |-> clock] /\ UNCHANGED <<entries, admitted, refusal>>
    BY <1>2, <1>7 DEF Arrive, history, LimiterTypeOK
  <2>2. Waiting(t)'
    BY <1>2, <2>1 DEF Waiting, Past, At
  <2> QED BY <1>3, <1>5, <2>1, <2>2 DEF Sequential, Sorted, Refused, Within
<1>8. CASE Test(t)
  <2>1. /\ t \in Busy /\ UNCHANGED <<entries, admitted, refusal>>
        /\ r.at = (IF entries = <<>> THEN "count" ELSE "head") /\ r.now = thread[t].now
    BY <1>2, <1>8 DEF Test, GoTo, Busy, At, history, LimiterTypeOK
  <2>2. Waiting(t)'
    BY <1>2, <1>6, <2>1 DEF Waiting, At
  <2> QED BY <1>3, <1>5, <2>1, <2>2 DEF Sequential, Sorted, Refused, Within
<1>9. CASE Look(t)
  <2>1. t \in Busy /\ UNCHANGED <<entries, admitted, refusal>>
    BY <1>9 DEF Look, IndexError, Busy, At, history
  <2>2. CASE entries = <<>>
    <3>1. r.at = "idle"
      BY <1>2, <1>9, <2>2 DEF Look, IndexError, Ends, Idle, LimiterTypeOK
    <3>2. Busy' = {}
      BY <1>2, <1>5, <3>1 DEF Busy, At
    <3> QED BY <1>3, <2>1, <3>2 DEF Sequential, Sorted, Refused, Within
  <2>3. CASE entries # <<>>
    <3>1. /\ r.at = (IF IsOld(Head(entries), thread[t].now) THEN "pop" ELSE "count")
          /\ r.now = thread[t].now
      BY <1>2, <1>9, <2>3 DEF Look, GoTo, LimiterTypeOK
    <3>2. Waiting(t)'
      BY <1>2, <1>6, <2>1, <3>1 DEF Waiting, At
    <3> QED BY <1>3, <1>5, <2>1, <3>2 DEF Sequential, Sorted, Refused, Within
  <2> QED BY <2>2, <2>3
<1>10. CASE Pop(t)
  <2>1. t \in Busy /\ UNCHANGED <<admitted, refusal>>
    BY <1>10 DEF Pop, IndexError, Busy, At, history
  <2>2. CASE entries = <<>>
    <3>1. r.at = "idle" /\ entries' = entries
      BY <1>2, <1>10, <2>2 DEF Pop, IndexError, Ends, Idle, LimiterTypeOK
    <3>2. Busy' = {}
      BY <1>2, <1>5, <3>1 DEF Busy, At
    <3> QED BY <1>3, <2>1, <3>1, <3>2 DEF Sequential, Sorted, Refused, Within
  <2>3. CASE entries # <<>>
    <3>1. r.at = "test" /\ r.now = thread[t].now /\ entries' = Tail(entries)
      BY <1>2, <1>10, <2>3 DEF Pop, GoTo, LimiterTypeOK
    <3>2. /\ \A i \in DOMAIN entries' : i + 1 \in DOMAIN entries /\ entries'[i] = entries[i + 1]
          /\ DOMAIN entries' \subseteq Nat
          /\ Len(entries') = Len(entries) - 1
      BY <1>4, <2>3, <3>1
    <3>3. Waiting(t)'
      BY <1>2, <1>6, <2>1, <3>1, <3>2 DEF Waiting, At
    <3>4. Sorted'
      BY <1>3, <3>2 DEF Sorted
    <3>5. Len(entries') < Limit
      BY <1>3, <1>4, <3>2, RateLimitConstants
    <3>6. Refused'
      BY <1>3, <2>1, <3>5 DEF Refused, Within
    <3>7. Len(entries') <= Limit
      BY <1>4, <3>2, <3>5, RateLimitConstants
    <3> QED BY <1>5, <3>3, <3>4, <3>6, <3>7 DEF Sequential
  <2> QED BY <2>2, <2>3
<1>11. CASE Count(t)
  <2>1. /\ t \in Busy /\ UNCHANGED <<entries, admitted, refusal>>
        /\ r.at = (IF IsFull(Len(entries)) THEN "refuse" ELSE "append") /\ r.now = thread[t].now
        /\ thread[t].at = "count"
    BY <1>2, <1>11 DEF Count, GoTo, Busy, At, history, LimiterTypeOK
  <2>2. IsFull(Len(entries)) <=> Len(entries) >= Limit
    BY DEF IsFull
  <2>3. ~IsFull(Len(entries)) <=> Len(entries) < Limit
    BY <1>4, RateLimitConstants DEF IsFull
  <2>4. Waiting(t)'
    BY <1>2, <1>6, <2>1, <2>2, <2>3 DEF Waiting, At
  <2> QED BY <1>3, <1>5, <2>1, <2>4 DEF Sequential, Sorted, Refused, Within
<1>12. CASE Refuse(t)
  <2>1. t \in Busy /\ UNCHANGED <<entries, admitted>> /\ r.at = "idle" /\ At(t, "refuse")
    BY <1>2, <1>12 DEF Refuse, IndexError, Ends, Idle, Busy, At, history, LimiterTypeOK
  <2>2. Busy' = {}
    BY <1>2, <1>5, <2>1 DEF Busy, At
  <2>3. CASE entries = <<>>
    <3>1. refusal' = refusal
      BY <1>12, <2>3 DEF Refuse, IndexError
    <3> QED BY <1>3, <2>1, <2>2, <3>1 DEF Sequential, Sorted, Refused, Within
  <2>4. CASE entries # <<>>
    <3>1. refusal' = [time |-> thread[t].now,
                      retry_after |-> RetryAfter(Head(entries), thread[t].now)]
      BY <1>12, <2>4 DEF Refuse
    <3>2. Cardinality(Within(thread[t].now)) = Limit
      BY <1>0, <2>1, <2>4, FullWindow
    <3>3. refusal'.time = thread[t].now
          /\ refusal'.retry_after = RetryAfter(Head(entries), thread[t].now)
      BY <3>1
    <3>4. Refused'
      BY <2>1, <3>2, <3>3 DEF Refused, Within
    <3> QED BY <1>3, <2>1, <2>2, <3>4 DEF Sequential, Sorted
  <2> QED BY <2>3, <2>4
<1>13. CASE Admit(t)
  <2>1. /\ t \in Busy /\ r.at = "idle" /\ At(t, "append")
        /\ entries' = Append(entries, thread[t].now) /\ refusal' = NoRefusal
    BY <1>2, <1>13 DEF Admit, Ends, Idle, Busy, At, LimiterTypeOK
  <2>2. Busy' = {}
    BY <1>2, <1>5, <2>1 DEF Busy, At
  <2>3. /\ \A i \in DOMAIN entries : entries[i] <= thread[t].now
        /\ Len(entries) < Limit
    BY <1>6, <2>1 DEF Waiting
  <2>4. Len(entries') <= Limit
    BY <1>4, <2>1, <2>3, RateLimitConstants
  <2>5. Sorted'
    <3>1. /\ \A i \in DOMAIN entries' : i \in DOMAIN entries \/ i = Len(entries) + 1
          /\ \A i \in DOMAIN entries : entries'[i] = entries[i] /\ i <= Len(entries) /\ i \in Nat
          /\ entries'[Len(entries) + 1] = thread[t].now
      BY <1>4, <2>1
    <3> QED BY <1>3, <1>4, <2>3, <3>1 DEF Sorted
  <2>6. Refused'
    BY <2>1 DEF Refused
  <2> QED BY <2>2, <2>4, <2>5, <2>6 DEF Sequential
<1> QED
  BY <1>7, <1>8, <1>9, <1>10, <1>11, <1>12, <1>13 DEF Request

-----------------------------------------------------------------------------
\* The whole invariant of the limiter.

RefusalType == refusal \in [time : Int, retry_after : Int]

DequeInv == Finite /\ Past /\ WindowInv /\ BrokenInv /\ Sequential /\ RefusalType

LEMMA DequeInit == LimiterInit /\ LimiterTypeOK => DequeInv
<1> SUFFICES ASSUME LimiterInit, LimiterTypeOK PROVE DequeInv
  OBVIOUS
<1>1. /\ Busy = {} /\ Poppers = {} /\ entries = <<>> /\ admitted = <<>> /\ overlaps = 0
      /\ broken = 0 /\ refusal = NoRefusal
  BY DEF LimiterInit, Busy, Poppers, At, Idle
<1>2. InFlight = 0 /\ Popping = 0
  BY <1>1, FS_EmptySet DEF InFlight, Popping
<1>3. Finite /\ Past
  BY <1>1, FS_EmptySet DEF Finite, Past
<1>4. WindowInv
  <2> SUFFICES ASSUME NEW time \in Int PROVE Held(time) <= Let(time) /\ Regular(time)
    BY DEF WindowInv
  <2>1. Held(time) = 0 /\ Let(time) = 0
    BY <1>1, FS_EmptySet DEF Held, Let, Later
  <2>2. Budget(time) = 0 /\ ~Late(time) /\ ~Stale(time) /\ Recent(time) /\ Lost(time) = 0
    BY <1>1, <1>2, <2>1 DEF Budget, Lost, Late, Stale, HasOld, Recent
  <2> QED BY <1>1, <1>2, <2>1, <2>2, RateLimitConstants DEF Regular
<1>5. BrokenInv /\ Sequential /\ RefusalType
  BY <1>1, <1>2, RateLimitConstants
     DEF BrokenInv, Sequential, Sorted, Refused, RefusalType, NoRefusal
<1> QED BY <1>3, <1>4, <1>5 DEF DequeInv

LEMMA RefusalStep ==
  ASSUME LimiterTypeOK, RefusalType, NEW t \in Thread, Request(t)
  PROVE  RefusalType'
<1>1. thread[t].now \in Int /\ NoRefusal \in [time : Int, retry_after : Int]
  BY RateLimitConstants DEF LimiterTypeOK, NoRefusal
<1>2. CASE refusal' = refusal \/ refusal' = NoRefusal
  BY <1>1, <1>2 DEF RefusalType
<1>3. CASE /\ entries # <<>>
           /\ refusal' = [time |-> thread[t].now,
                          retry_after |-> RetryAfter(Head(entries), thread[t].now)]
  <2>1. Head(entries) \in Int
    BY <1>3, Times
  <2>2. RetryAfter(Head(entries), thread[t].now) \in Int
    BY <1>1, <2>1, RateLimitConstants DEF RetryAfter
  <2> QED BY <1>1, <1>3, <2>2 DEF RefusalType
<1> QED
  BY <1>2, <1>3 DEF Request, Arrive, Test, Look, Pop, Count, Refuse, Admit, IndexError, history

\* The clock alone changes nothing.
LEMMA PassStep ==
  ASSUME LimiterTypeOK, DequeInv, Pass
  PROVE  DequeInv'
<1>1. /\ clock' = clock + 1 /\ clock \in Nat
      /\ UNCHANGED <<entries, thread, requests, admitted, refusal, broken, overlaps>>
  BY RateLimitConstants DEF Pass, history, LimiterTypeOK
<1>2. Busy' = Busy /\ Poppers' = Poppers
  BY <1>1 DEF Busy, Poppers, At
<1>3. InFlight' = InFlight /\ Popping' = Popping /\ Finite' = Finite
  BY <1>2 DEF InFlight, Popping, Finite
<1>4. Past'
  <2>1. /\ \A t \in Thread : thread[t].now \in Int
        /\ \A i \in DOMAIN admitted : admitted[i] \in Int
        /\ \A i \in DOMAIN entries : entries[i] \in Int
    BY Times
  <2>2. Busy \subseteq Thread
    BY DEF Busy
  <2> QED BY <1>1, <1>2, <2>1, <2>2 DEF DequeInv, Past
<1>5. WindowInv'
  <2> SUFFICES ASSUME NEW time \in Int
               PROVE  Held(time)' <= Let(time)' /\ (Regular(time)' \/ Closed(time)')
    BY DEF WindowInv
  <2>1. Held(time) <= Let(time) /\ (Regular(time) \/ Closed(time))
    BY DEF DequeInv, WindowInv
  <2>2. /\ Held(time)' = Held(time) /\ Let(time)' = Let(time) /\ Blocked(time)' = Blocked(time)
        /\ Late(time)' = Late(time) /\ Stale(time)' = Stale(time)
        /\ Recent(time)' = Recent(time) /\ Committed' = Committed /\ Others' = Others
    BY <1>1, <1>2, <1>3 DEF Held, Let, Blocked, Late, Stale, Recent, Committed, Others, At
  <2>3. Lost(time)' = Lost(time) /\ Budget(time)' = Budget(time)
    BY <1>1, <1>3, <2>2 DEF Lost, Budget
  <2>4. Regular(time) => Regular(time)'
    BY <1>1, <1>3, <2>2, <2>3 DEF Regular
  <2>5. Closed(time) => Closed(time)'
    <3>1. Early(time + Window)' = Early(time + Window) /\ Within(time + Window)' = Within(time + Window)
      BY <1>1, <1>2 DEF Early, Within
    <3>2. clock > time + Window => clock' > time + Window
      BY <1>1, RateLimitConstants
    <3> QED BY <1>1, <3>1, <3>2 DEF Closed
  <2> QED BY <2>1, <2>2, <2>4, <2>5
<1>6. BrokenInv' /\ RefusalType'
  BY <1>1, <1>2, <1>3 DEF DequeInv, BrokenInv, RefusalType
<1>7. Sequential'
  BY <1>1, <1>2 DEF DequeInv, Sequential, Sorted, Refused, Within, Waiting, At
<1> QED BY <1>3, <1>4, <1>5, <1>6, <1>7 DEF DequeInv

LEMMA DequeStep ==
  ASSUME LimiterTypeOK, DequeInv, LimiterNext
  PROVE  DequeInv'
<1>1. CASE Pass
  BY <1>1, PassStep
<1>2. ASSUME NEW t \in Thread, Request(t) PROVE DequeInv'
  BY <1>2, FiniteStep, PastStep, WindowStep, BrokenStep, SequentialStep, RefusalStep DEF DequeInv
<1> QED BY <1>1, <1>2 DEF LimiterNext

\* What the invariant says of the windows.
LEMMA DequeWindows ==
  ASSUME LimiterTypeOK, DequeInv
  PROVE  SlidingWindow
<1>0. /\ overlaps \in Nat /\ Limit \in Nat /\ admitted \in Seq(Int) /\ broken \in Nat
      /\ InFlight \in Nat
  BY RateLimitConstants, FS_CardinalityType DEF LimiterTypeOK, DequeInv, Finite, InFlight
<1>1. ASSUME NEW i \in DOMAIN admitted
      PROVE  Cardinality(Within(admitted[i])) <= Limit + overlaps
  <2> DEFINE time == admitted[i] - Window
  <2>1. time \in Int /\ time + Window = admitted[i]
    BY <1>0, RateLimitConstants
  <2> HIDE DEF time
  <2>2. Held(time) <= Let(time) /\ (Regular(time) \/ Closed(time))
    BY <2>1 DEF DequeInv, WindowInv
  <2>3. /\ Cardinality(Within(admitted[i])) \in Nat
        /\ Cardinality(Within(admitted[i])) <= Let(time)
    BY <2>1, WindowSize
  <2>4. Numbers(time)
    BY <2>1, Counts DEF DequeInv
  <2>5. CASE Regular(time)
    <3>1. Let(time) + InFlight <= Budget(time)
      BY <2>4 DEF Numbers, Budget, Lost
    <3>2. Budget(time) <= Limit + overlaps + (IF InFlight = 0 THEN 0 ELSE 1)
      BY <2>5 DEF Regular
    <3>3. Budget(time) \in Int /\ Let(time) \in Int
      BY <2>4 DEF Numbers
    <3>4. Let(time) <= Limit + overlaps
      <4>1. CASE InFlight = 0
        BY <1>0, <3>1, <3>2, <3>3, <4>1
      <4>2. CASE InFlight # 0
        <5>1. Budget(time) <= Limit + overlaps + 1 /\ InFlight >= 1
          BY <1>0, <3>2, <4>2
        <5> QED BY <1>0, <3>1, <3>3, <5>1
      <4> QED BY <4>1, <4>2
    <3> QED BY <1>0, <2>3, <3>3, <3>4
  <2>6. CASE Closed(time)
    <3>1. Cardinality(Within(admitted[i])) + Cardinality(Early(admitted[i])) <= Limit + overlaps
      BY <2>1, <2>6 DEF Closed
    <3>2. Cardinality(Early(admitted[i])) \in Nat
      <4>1. Early(admitted[i]) \subseteq Busy
        BY DEF Early
      <4> QED BY <4>1, FS_Subset, FS_CardinalityType DEF DequeInv, Finite
    <3> QED BY <1>0, <2>3, <3>1, <3>2
  <2> QED BY <2>2, <2>5, <2>6
<1>2. broken <= overlaps
  <2>1. CASE InFlight = 0
    BY <1>0, <2>1 DEF DequeInv, BrokenInv
  <2>2. CASE InFlight # 0
    BY <1>0, <2>2 DEF DequeInv, BrokenInv
  <2> QED BY <2>1, <2>2
<1>3. overlaps = 0 /\ refusal # NoRefusal => Cardinality(Within(refusal.time)) = Limit
  BY DEF DequeInv, Sequential, Refused
<1> QED BY <1>1, <1>2, <1>3 DEF SlidingWindow

\* The hint of a refusal, rounded up, reaches to the time at which the oldest
\* entry leaves the window.
LEMMA HintRoundedUp ==
  ASSUME NEW entry \in Int, NEW time \in Int
  PROVE  /\ RetryAfter(entry, time) \in Int
         /\ entry + Window < time + 2 * (RetryAfter(entry, time) + 1)
<1> DEFINE left == (Window - (time - entry)) \div 2
<1>1. Window \in Int
  BY RateLimitConstants
<1>2. left \in Int /\ Window - (time - entry) < 2 * (left + 1)
  BY <1>1
<1>3. RetryAfter(entry, time) = IF left > 1 THEN left ELSE 1
  BY DEF RetryAfter
<1> HIDE DEF left
<1>4. RetryAfter(entry, time) \in Int /\ RetryAfter(entry, time) >= left
  BY <1>2, <1>3
<1> QED
  BY <1>1, <1>2, <1>4

\* The entry a refusal found oldest is the one the next refusal finds, and it has
\* not left the window.
LEMMA HintStep ==
  ASSUME LimiterTypeOK, DequeInv, NEW t \in Thread, Request(t),
         overlaps' = 0, NoRefusal \notin {refusal, refusal'}, refusal' # refusal
  PROVE  refusal'.time - refusal.time < 2 * (refusal.retry_after + 1)
<1>0. Refuse(t) /\ entries # <<>>
  BY DEF Request, Arrive, Test, Look, Pop, Count, Refuse, Admit, IndexError, history
<1>1. /\ At(t, "refuse") /\ overlaps = 0
      /\ refusal' = [time |-> thread[t].now,
                     retry_after |-> RetryAfter(Head(entries), thread[t].now)]
  BY <1>0 DEF Refuse
<1>2. /\ entries \in Seq(Int) /\ Head(entries) \in Int /\ thread[t].now \in Int
      /\ Len(entries) \in Int /\ refusal.time \in Int /\ Window \in Int /\ Limit \in Int
  <2>1. refusal.time \in Int
    BY DEF DequeInv, RefusalType
  <2> QED BY <1>0, <2>1, Times
<1>3. Waiting(t)
  BY <1>1 DEF DequeInv, Sequential, Busy, At
<1>4. Len(entries) >= Limit /\ thread[t].now - Head(entries) < Window
  BY <1>0, <1>1, <1>2, <1>3 DEF Waiting, At, IsOld
<1>5. refusal.retry_after = RetryAfter(Head(entries), refusal.time)
  BY <1>1, <1>2, <1>4 DEF DequeInv, Sequential, Refused
<1>6. /\ RetryAfter(Head(entries), refusal.time) \in Int
      /\ Head(entries) + Window < refusal.time + 2 * (RetryAfter(Head(entries), refusal.time) + 1)
  BY <1>2, HintRoundedUp
<1>7. ASSUME NEW entry \in Int, NEW now \in Int, NEW time \in Int, NEW hint \in Int,
             entry + Window < time + 2 * (hint + 1), now - entry < Window
      PROVE  now - time < 2 * (hint + 1)
  BY <1>2, <1>7
<1>8. refusal'.time = thread[t].now
  BY <1>1
<1>9. thread[t].now - refusal.time < 2 * (RetryAfter(Head(entries), refusal.time) + 1)
  BY <1>2, <1>4, <1>6, <1>7
<1> QED
  BY <1>5, <1>8, <1>9
=============================================================================
