------------------------- MODULE AiGenerationProofs -------------------------
(***************************************************************************)
(* What AiGeneration guarantees for any workers, users, requests, limits   *)
(* and windows.                                                            *)
(***************************************************************************)
EXTENDS AiGeneration, FiniteSetTheorems, SequenceTheorems, TLAPS

(***************************************************************************)
(* Lists of times in order, as time.monotonic() gives them.                *)
(***************************************************************************)
Ordered(times) == \A i, j \in 1 .. Len(times) : i <= j => times[i] <= times[j]

\* A set of positions that holds every position before one it holds is an
\* initial segment.
LEMMA InitialSegment ==
  ASSUME NEW n \in Nat, NEW E \in SUBSET (1 .. n),
         \A i \in E, j \in 1 .. n : j <= i => j \in E
  PROVE  /\ Cardinality(E) \in 0 .. n
         /\ E = 1 .. Cardinality(E)
<1> DEFINE c == Cardinality(E)
<1>1. IsFiniteSet(1 .. n) /\ Cardinality(1 .. n) = n
  BY FS_Interval
<1>2. IsFiniteSet(E) /\ c \in Nat /\ c <= n
  BY <1>1, FS_Subset, FS_CardinalityType
<1>3. \A k \in E : k <= c
  <2> SUFFICES ASSUME NEW k \in E PROVE k <= c
    OBVIOUS
  <2>1. 1 .. k \subseteq E
    OBVIOUS
  <2>2. Cardinality(1 .. k) = k
    BY FS_Interval
  <2> QED BY <1>2, <2>1, <2>2, FS_Subset
<1>4. IsFiniteSet(1 .. c) /\ Cardinality(1 .. c) = c
  BY <1>2, FS_Interval
<1>5. E \subseteq 1 .. c
  BY <1>2, <1>3
<1>6. E = 1 .. c
  BY <1>4, <1>5, FS_Subset
<1> QED BY <1>2, <1>6

\* What Recent keeps of a list in order: its end, from the first hit inside the
\* window on.
LEMMA RecentIsFilter ==
  ASSUME NEW times \in Seq(Int), Ordered(times), now \in Int, Window \in Int
  PROVE  \E c \in 0 .. Len(times) :
           /\ \A i \in 1 .. Len(times) : times[i] > now - Window <=> i > c
           /\ Recent(times) \in Seq(Int)
           /\ Len(Recent(times)) = Len(times) - c
           /\ \A i \in 1 .. Len(times) - c : Recent(times)[i] = times[c + i]
<1> DEFINE n == Len(times)
           past == {i \in 1 .. n : times[i] <= now - Window}
           c == Cardinality(past)
<1>1. n \in Nat /\ \A i \in 1 .. n : times[i] \in Int
  BY LenProperties, ElementOfSeq
<1>2. \A i \in past, j \in 1 .. n : j <= i => j \in past
  BY <1>1 DEF Ordered
<1>3. c \in 0 .. n /\ past = 1 .. c
  <2> HIDE DEF c
  <2>1. past \in SUBSET (1 .. n)
    OBVIOUS
  <2> HIDE DEF past, n
  <2> QED BY <1>1, <1>2, <2>1, InitialSegment DEF c
<1>4. \A i \in 1 .. n : times[i] > now - Window <=> i > c
  <2> SUFFICES ASSUME NEW i \in 1 .. n PROVE times[i] > now - Window <=> i > c
    OBVIOUS
  <2>1. i \in past <=> i \in 1 .. c
    BY <1>3
  <2> HIDE DEF c
  <2> QED BY <1>1, <1>3, <2>1
<1>5. Recent(times) = SubSeq(times, c + 1, n)
  BY DEF Recent
<1> HIDE DEF c, past
<1>6. \A i \in c + 1 .. n : times[i] \in Int
  BY <1>1, <1>3
<1>7. /\ SubSeq(times, c + 1, n) \in Seq(Int)
      /\ Len(SubSeq(times, c + 1, n)) = IF c + 1 <= n THEN n - (c + 1) + 1 ELSE 0
      /\ \A i \in 1 .. n - (c + 1) + 1 : SubSeq(times, c + 1, n)[i] = times[c + 1 + i - 1]
  <2>1. c + 1 \in Int /\ n \in Int
    BY <1>1, <1>3
  <2> HIDE DEF n
  <2> QED BY <1>6, <2>1, SubSeqProperties
<1>8. Len(Recent(times)) = n - c
  BY <1>1, <1>3, <1>5, <1>7
<1>9. \A i \in 1 .. n - c : Recent(times)[i] = times[c + i]
  <2> HIDE DEF n
  <2> SUFFICES ASSUME NEW i \in 1 .. n - c PROVE Recent(times)[i] = times[c + i]
    OBVIOUS
  <2>1. i \in 1 .. n - (c + 1) + 1 /\ c + 1 + i - 1 = c + i
    BY <1>1, <1>3
  <2> QED BY <1>5, <1>7, <2>1
<1> QED BY <1>3, <1>4, <1>5, <1>7, <1>8, <1>9

-----------------------------------------------------------------------------
(***************************************************************************)
(* One user at one worker: what the limiter keeps, h, is the end of what   *)
(* it ever admitted, a, and what it dropped is out of the window for good. *)
(* The heart is the last conjunct: of MaxRequests + 1 admissions in a row  *)
(* the last comes a whole window after the first.                          *)
(***************************************************************************)
Limiter(a, h, t) ==
  /\ a \in Seq(Times) /\ h \in Seq(Times)
  /\ Ordered(a)
  /\ \A i \in 1 .. Len(a) : a[i] <= t
  /\ Len(h) <= Len(a) /\ Len(h) <= MaxRequests
  /\ \A i \in 1 .. Len(h) : h[i] = a[Len(a) - Len(h) + i]
  /\ \A i \in 1 .. Len(a) - Len(h) : a[i] <= t - Window
  /\ \A i \in 1 .. Len(a) - MaxRequests : a[i] <= a[i + MaxRequests] - Window

\* Admissions and hits are sequences of times.
LEMMA LimiterShape ==
  ASSUME NEW a, NEW h, NEW t, Limiter(a, h, t)
  PROVE  /\ Len(a) \in Nat /\ Len(h) \in Nat
         /\ \A i \in 1 .. Len(a) : a[i] \in Times
         /\ \A i \in 1 .. Len(h) : h[i] \in Times
  BY LenProperties, ElementOfSeq DEF Limiter

\* A new process has admitted nobody.
LEMMA LimiterStarts == Limiter(<<>>, <<>>, now)
<1>1. <<>> \in Seq(Times) /\ Len(<<>>) = 0
  BY EmptySeq
<1> QED BY <1>1, AiAssumption DEF Limiter, Ordered

\* What has left the window stays out of it as time passes.
LEMMA LimiterTicks ==
  ASSUME NEW a, NEW h, NEW t \in Int, Limiter(a, h, t)
  PROVE  Limiter(a, h, t + 1)
<1>1. /\ Len(a) \in Nat /\ Len(h) \in Nat
      /\ \A i \in 1 .. Len(a) : a[i] \in Int
  BY LimiterShape, AiAssumption DEF Times
<1> QED BY <1>1, AiAssumption DEF Limiter

\* The recent hits as the end of the admissions.
LEMMA RecentAdmissions ==
  ASSUME NEW a, NEW h, now \in Times, Limiter(a, h, now)
  PROVE  LET recent == Recent(h)
         IN /\ recent \in Seq(Times)
            /\ Len(recent) \in Nat /\ Len(recent) <= Len(h)
            /\ \A i \in 1 .. Len(recent) : recent[i] = a[Len(a) - Len(recent) + i]
            /\ \A i \in 1 .. Len(a) : a[i] > now - Window <=> i > Len(a) - Len(recent)
<1> DEFINE recent == Recent(h)
<1>1. /\ Len(a) \in Nat /\ Len(h) \in Nat /\ Len(h) <= Len(a)
      /\ \A i \in 1 .. Len(a) : a[i] \in Times /\ a[i] \in Int
      /\ \A i \in 1 .. Len(h) : h[i] \in Times
      /\ now \in Int /\ Window \in Int
  <2>1. Times \subseteq Int /\ Window \in Int
    BY AiAssumption DEF Times
  <2>2. Len(h) <= Len(a)
    BY DEF Limiter
  <2> QED BY <2>1, <2>2, LimiterShape
<1>2. h \in Seq(Int)
  <2>1. h \in Seq(Times) /\ Times \subseteq Int
    BY AiAssumption DEF Limiter, Times
  <2> QED BY <2>1, SeqMonotonic
<1>3. Ordered(h)
  <2> SUFFICES ASSUME NEW i \in 1 .. Len(h), NEW j \in 1 .. Len(h), i <= j
               PROVE  h[i] <= h[j]
    BY DEF Ordered
  <2>1. /\ Len(a) - Len(h) + i \in 1 .. Len(a) /\ Len(a) - Len(h) + j \in 1 .. Len(a)
        /\ Len(a) - Len(h) + i <= Len(a) - Len(h) + j
    BY <1>1
  <2> QED BY <2>1 DEF Limiter, Ordered
<1>4. PICK c \in 0 .. Len(h) :
        /\ \A i \in 1 .. Len(h) : h[i] > now - Window <=> i > c
        /\ recent \in Seq(Int)
        /\ Len(recent) = Len(h) - c
        /\ \A i \in 1 .. Len(h) - c : recent[i] = h[c + i]
  BY <1>1, <1>2, <1>3, RecentIsFilter
<1> HIDE DEF recent
<1>5. Len(recent) \in Nat /\ Len(recent) <= Len(h)
  BY <1>1, <1>4
<1>6. \A i \in 1 .. Len(recent) : recent[i] = a[Len(a) - Len(recent) + i] /\ recent[i] \in Times
  <2> SUFFICES ASSUME NEW i \in 1 .. Len(recent)
               PROVE  recent[i] = a[Len(a) - Len(recent) + i] /\ recent[i] \in Times
    OBVIOUS
  <2>1. c + i \in 1 .. Len(h) /\ Len(a) - Len(h) + (c + i) = Len(a) - Len(recent) + i
    BY <1>1, <1>4
  <2>2. recent[i] = h[c + i]
    BY <1>4
  <2> QED BY <1>1, <2>1, <2>2 DEF Limiter
<1>7. recent \in Seq(Times)
  <2>1. recent \in [1 .. Len(recent) -> Int]
    BY <1>4, LenProperties
  <2>2. recent \in [1 .. Len(recent) -> Times]
    BY <1>6, <2>1
  <2> QED BY <1>5, <2>2, SeqDef
<1>8. \A i \in 1 .. Len(a) : a[i] > now - Window <=> i > Len(a) - Len(recent)
  <2> SUFFICES ASSUME NEW i \in 1 .. Len(a)
               PROVE  a[i] > now - Window <=> i > Len(a) - Len(recent)
    OBVIOUS
  <2>1. CASE i <= Len(a) - Len(h)
    <3>1. a[i] <= now - Window
      BY <1>1, <2>1 DEF Limiter
    <3> QED BY <1>1, <1>5, <2>1, <3>1
  <2>2. CASE i > Len(a) - Len(h)
    <3> DEFINE k == i - (Len(a) - Len(h))
    <3>1. k \in 1 .. Len(h) /\ Len(a) - Len(h) + k = i
      BY <1>1, <2>2
    <3>2. h[k] = a[i]
      BY <3>1 DEF Limiter
    <3>3. a[i] > now - Window <=> k > c
      BY <1>4, <3>1, <3>2
    <3>4. k > c <=> i > Len(a) - Len(recent)
      BY <1>1, <1>4, <3>1
    <3> QED BY <3>3, <3>4
  <2> QED BY <1>1, <2>1, <2>2
<1> QED BY <1>5, <1>6, <1>7, <1>8 DEF recent

\* An admission keeps the distance.
LEMMA LimiterAdmits ==
  ASSUME NEW a, NEW h, now \in Times, Limiter(a, h, now), ~Full(Recent(h))
  PROVE  Limiter(Append(a, now), Append(Recent(h), now), now)
<1> DEFINE recent == Recent(h)
           n == Len(a)
           k == Len(recent)
           b == Append(a, now)
           g == Append(recent, now)
<1>1. /\ recent \in Seq(Times)
      /\ k \in Nat /\ k <= Len(h)
      /\ \A i \in 1 .. k : recent[i] = a[n - k + i]
      /\ \A i \in 1 .. n : a[i] > now - Window <=> i > n - k
  BY RecentAdmissions
<1>2. /\ n \in Nat /\ Len(h) <= n
      /\ \A i \in 1 .. n : a[i] \in Int /\ a[i] <= now
      /\ now \in Int /\ Window \in Nat \ {0} /\ MaxRequests \in Nat \ {0}
      /\ a \in Seq(Times)
  BY LimiterShape, AiAssumption DEF Limiter, Times
<1>3. k < MaxRequests
  BY <1>1, <1>2 DEF Full
<1> HIDE DEF recent
<1>4. /\ b \in Seq(Times) /\ Len(b) = n + 1
      /\ b[n + 1] = now
      /\ \A i \in 1 .. n : b[i] = a[i]
  BY <1>2, AppendProperties
<1>5. /\ g \in Seq(Times) /\ Len(g) = k + 1
      /\ g[k + 1] = now
      /\ \A i \in 1 .. k : g[i] = recent[i]
  BY <1>1, AppendProperties
<1> HIDE DEF b, g
<1>6. Ordered(b)
  <2> SUFFICES ASSUME NEW i \in 1 .. n + 1, NEW j \in 1 .. n + 1, i <= j
               PROVE  b[i] <= b[j]
    BY <1>4 DEF Ordered
  <2>1. CASE j = n + 1
    <3>1. i = n + 1 \/ i \in 1 .. n
      BY <1>2
    <3> QED BY <1>2, <1>4, <2>1, <3>1
  <2>2. CASE j # n + 1
    <3>1. i \in 1 .. n /\ j \in 1 .. n
      BY <1>2, <2>2
    <3> QED BY <1>4, <3>1 DEF Limiter, Ordered
  <2> QED BY <2>1, <2>2
<1>7. \A i \in 1 .. n + 1 : b[i] <= now
  BY <1>2, <1>4
<1>8. Len(g) <= Len(b) /\ Len(g) <= MaxRequests
  BY <1>1, <1>2, <1>3, <1>4, <1>5
<1>9. \A i \in 1 .. k + 1 : g[i] = b[n - k + i]
  <2> SUFFICES ASSUME NEW i \in 1 .. k + 1 PROVE g[i] = b[n - k + i]
    OBVIOUS
  <2>1. CASE i = k + 1
    BY <1>1, <1>2, <1>4, <1>5, <2>1
  <2>2. CASE i # k + 1
    <3>1. i \in 1 .. k /\ n - k + i \in 1 .. n
      BY <1>1, <1>2, <2>2
    <3> QED BY <1>1, <1>4, <1>5, <3>1
  <2> QED BY <2>1, <2>2
<1>10. \A i \in 1 .. n - k : b[i] <= now - Window
  <2> SUFFICES ASSUME NEW i \in 1 .. n - k PROVE b[i] <= now - Window
    OBVIOUS
  <2>1. i \in 1 .. n /\ ~(i > n - k)
    BY <1>1, <1>2
  <2>2. a[i] \in Int /\ ~(a[i] > now - Window) /\ b[i] = a[i]
    BY <1>1, <1>2, <1>4, <2>1
  <2> QED BY <1>2, <2>2
<1>11. \A i \in 1 .. n + 1 - MaxRequests : b[i] <= b[i + MaxRequests] - Window
  <2> SUFFICES ASSUME NEW i \in 1 .. n + 1 - MaxRequests
               PROVE  b[i] <= b[i + MaxRequests] - Window
    OBVIOUS
  <2>1. CASE i = n + 1 - MaxRequests
    <3>1. i \in 1 .. n - k /\ i + MaxRequests = n + 1
      BY <1>1, <1>2, <1>3, <2>1
    <3> QED BY <1>4, <1>10, <3>1
  <2>2. CASE i # n + 1 - MaxRequests
    <3>1. i \in 1 .. n - MaxRequests /\ i \in 1 .. n /\ i + MaxRequests \in 1 .. n
      BY <1>2, <2>2
    <3> QED BY <1>4, <3>1 DEF Limiter
  <2> QED BY <2>1, <2>2
<1>12. Len(b) - Len(g) = n - k
  BY <1>1, <1>2, <1>4, <1>5
<1> HIDE DEF n, k
<1>13. \A i \in 1 .. Len(g) : g[i] = b[Len(b) - Len(g) + i]
  BY <1>5, <1>9, <1>12
<1>14. \A i \in 1 .. Len(b) - Len(g) : b[i] <= now - Window
  BY <1>10, <1>12
<1>15. /\ \A i \in 1 .. Len(b) : b[i] <= now
       /\ \A i \in 1 .. Len(b) - MaxRequests : b[i] <= b[i + MaxRequests] - Window
  <2>1. Len(b) = n + 1
    BY <1>4
  <2>2. \A i \in 1 .. Len(b) : b[i] <= now
    BY <1>2, <1>7, <2>1
  <2>3. \A i \in 1 .. Len(b) - MaxRequests : b[i] <= b[i + MaxRequests] - Window
    BY <1>2, <1>11, <2>1
  <2> QED BY <2>2, <2>3
<1>16. Limiter(b, g, now)
  BY <1>4, <1>5, <1>6, <1>8, <1>13, <1>14, <1>15 DEF Limiter
<1> QED BY <1>16 DEF b, g, recent

\* The distance bounds every window.
LEMMA LimiterBounds ==
  ASSUME NEW a, NEW h, NEW t, Limiter(a, h, t), NEW s \in Int
  PROVE  Cardinality(InWindow(a, s)) <= MaxRequests
<1> DEFINE n == Len(a)
           past == {i \in 1 .. n : a[i] <= s - Window}
           c == Cardinality(past)
<1>1. /\ n \in Nat /\ \A i \in 1 .. n : a[i] \in Int
      /\ Window \in Nat /\ MaxRequests \in Nat
  BY LimiterShape, AiAssumption DEF Times
<1>2. \A i \in past, j \in 1 .. n : j <= i => j \in past
  BY <1>1 DEF Limiter, Ordered
<1>3. c \in 0 .. n /\ past = 1 .. c
  <2> HIDE DEF c
  <2>1. past \in SUBSET (1 .. n)
    OBVIOUS
  <2> HIDE DEF past, n
  <2> QED BY <1>1, <1>2, <2>1, InitialSegment DEF c
<1> HIDE DEF c
<1>4. InWindow(a, s) \subseteq c + 1 .. c + MaxRequests
  <2> SUFFICES ASSUME NEW i \in 1 .. n, s - Window < a[i], a[i] <= s
               PROVE  i \in c + 1 .. c + MaxRequests
    BY DEF InWindow
  <2>1. i \notin past
    BY <1>1
  <2>2. i > c
    BY <1>1, <1>3, <2>1
  <2>3. ASSUME i > c + MaxRequests PROVE FALSE
    <3>1. /\ c + 1 \in 1 .. n - MaxRequests /\ c + 1 \in 1 .. n
          /\ c + 1 + MaxRequests \in 1 .. n /\ c + 1 + MaxRequests <= i
      BY <1>1, <1>3, <2>3
    <3>2. c + 1 \notin past
      BY <1>3
    <3>3. a[c + 1] > s - Window
      BY <1>1, <3>1, <3>2
    <3>4. a[c + 1] <= a[c + 1 + MaxRequests] - Window
      BY <3>1 DEF Limiter
    <3>5. a[c + 1 + MaxRequests] <= a[i]
      BY <3>1 DEF Limiter, Ordered
    <3>6. /\ a[c + 1] \in Int /\ a[c + 1 + MaxRequests] \in Int
          /\ a[i] \in Int /\ Window \in Int
      BY <1>1, <3>1
    <3> QED BY <3>3, <3>4, <3>5, <3>6
  <2> QED BY <1>1, <1>3, <2>2, <2>3
<1>5. /\ IsFiniteSet(c + 1 .. c + MaxRequests)
      /\ Cardinality(c + 1 .. c + MaxRequests) = MaxRequests
  <2>1. /\ c + 1 \in Int /\ c + MaxRequests \in Int /\ ~(c + 1 > c + MaxRequests)
        /\ (c + MaxRequests) - (c + 1) + 1 = MaxRequests
    BY <1>1, <1>3, AiAssumption
  <2> QED BY <2>1, FS_Interval
<1>6. Cardinality(InWindow(a, s)) <= Cardinality(c + 1 .. c + MaxRequests)
  BY <1>4, <1>5, FS_Subset
<1> QED BY <1>5, <1>6

\* A full limiter has admitted that many within the window that ends now.
LEMMA LimiterFull ==
  ASSUME NEW a, NEW h, now \in Times, Limiter(a, h, now), Full(Recent(h))
  PROVE  Cardinality(InWindow(a, now)) >= MaxRequests
<1> DEFINE n == Len(a)
           k == Len(Recent(h))
<1>1. /\ k \in Nat /\ k <= Len(h)
      /\ \A i \in 1 .. n : a[i] > now - Window <=> i > n - k
  BY RecentAdmissions
<1>2. /\ n \in Nat /\ Len(h) <= n /\ Len(h) \in Nat
      /\ \A i \in 1 .. n : a[i] \in Int /\ a[i] <= now
      /\ now \in Int /\ Window \in Int /\ MaxRequests \in Nat
  BY LimiterShape, AiAssumption DEF Limiter, Times
<1>3. k >= MaxRequests
  BY DEF Full
<1> HIDE DEF k
<1>4. n - k + 1 .. n \subseteq InWindow(a, now)
  <2> SUFFICES ASSUME NEW i \in n - k + 1 .. n PROVE i \in InWindow(a, now)
    OBVIOUS
  <2>1. i \in 1 .. n /\ i > n - k
    BY <1>1, <1>2
  <2> QED BY <1>1, <1>2, <2>1 DEF InWindow
<1>5. IsFiniteSet(InWindow(a, now)) /\ Cardinality(InWindow(a, now)) \in Nat
  <2>1. InWindow(a, now) \subseteq 1 .. n
    BY DEF InWindow
  <2>2. IsFiniteSet(1 .. n)
    BY <1>2, FS_Interval
  <2> QED BY <2>1, <2>2, FS_Subset, FS_CardinalityType
<1>6. Cardinality(n - k + 1 .. n) = k
  BY <1>1, <1>2, FS_Interval
<1>7. Cardinality(n - k + 1 .. n) <= Cardinality(InWindow(a, now))
  BY <1>4, <1>5, FS_Subset
<1> QED BY <1>1, <1>2, <1>3, <1>5, <1>6, <1>7

-----------------------------------------------------------------------------
(* The specification. *)

\* What a served request may be at: it sleeps only if it may try again.
CallOK(r) == call[r].pc = "sleeping" => call[r].attempt < MaxRetries

AiInv ==
  /\ now \in Times
  /\ provider \in [Workers -> {"mock", "openai"}]
  /\ hits \in [Workers -> [Users -> Seq(Times)]]
  /\ admitted \in [Workers -> [Users -> Seq(Times)]]
  /\ call \in [Requests -> {Idle} \cup Served]
  /\ \A r \in Requests : CallOK(r)
  /\ \A w \in Workers, u \in Users : Limiter(admitted[w][u], hits[w][u], now)

\* At first no hits and no calls.
LEMMA InitAi == Init => AiInv
<1> SUFFICES ASSUME Init PROVE AiInv
  OBVIOUS
<1>1. <<>> \in Seq(Times)
  BY EmptySeq
<1>2. now \in Times
  BY AiAssumption DEF Init, Times
<1>3. provider \in [Workers -> {"mock", "openai"}]
  BY DEF Init, CreateAiProvider
<1>4. \A w \in Workers, u \in Users : Limiter(admitted[w][u], hits[w][u], now)
  BY LimiterStarts DEF Init, NoHits
<1> QED BY <1>1, <1>2, <1>3, <1>4 DEF Init, AiInv, NoHits, CallOK, Idle

\* A request is admitted or refused.
LEMMA AcquireInv ==
  ASSUME AiInv, NEW r \in Requests, NEW w \in Workers, NEW u \in Users, Acquire(r, w, u)
  PROVE  AiInv'
<1> DEFINE recent == Recent(hits[w][u])
           pc == IF provider[w] = "mock" THEN "answered" ELSE "calling"
<1>1. now \in Times /\ Limiter(admitted[w][u], hits[w][u], now)
  BY DEF AiInv
<1>2. \A p \in {"calling", "answered"}, code \in {"ok", "ai_rate_limit_exceeded"} :
        Begun(p, w, u, code) \in Served /\ Begun(p, w, u, code).pc # "sleeping"
  BY AiAssumption DEF Begun, Served
<1>3. CASE Full(recent)
  <2>1. /\ call' = [call EXCEPT ![r] = Begun("answered", w, u, "ai_rate_limit_exceeded")]
        /\ UNCHANGED <<now, provider, hits, admitted>>
    BY <1>3 DEF Acquire
  <2> QED BY <1>2, <2>1 DEF AiInv, CallOK
<1>4. CASE ~Full(recent)
  <2>1. /\ hits' = [hits EXCEPT ![w][u] = Append(recent, now)]
        /\ admitted' = [admitted EXCEPT ![w][u] = Append(@, now)]
        /\ call' = [call EXCEPT ![r] = Begun(pc, w, u, "ok")]
        /\ UNCHANGED <<now, provider>>
    BY <1>4 DEF Acquire
  <2>2. Limiter(Append(admitted[w][u], now), Append(recent, now), now)
    BY <1>1, <1>4, LimiterAdmits
  <2>3. Append(admitted[w][u], now) \in Seq(Times) /\ Append(recent, now) \in Seq(Times)
    BY <2>2 DEF Limiter
  <2> HIDE DEF recent
  <2>4. /\ hits' \in [Workers -> [Users -> Seq(Times)]]
        /\ admitted' \in [Workers -> [Users -> Seq(Times)]]
    BY <2>1, <2>3 DEF AiInv
  <2>5. \A v \in Workers, x \in Users : Limiter(admitted'[v][x], hits'[v][x], now)
    BY <2>1, <2>2 DEF AiInv
  <2>6. call' \in [Requests -> {Idle} \cup Served] /\ \A s \in Requests : CallOK(s)'
    BY <1>2, <2>1 DEF AiInv, CallOK
  <2> QED BY <2>1, <2>4, <2>5, <2>6 DEF AiInv
<1> QED BY <1>3, <1>4

\* What an answer of OpenAI leads to: a result, another attempt, or an error
\* nobody catches.
LEMMA GeneratedType ==
  ASSUME NEW outcome \in Outcomes, NEW attempt \in 1 .. MaxRetries
  PROVE  /\ Generated(attempt, outcome) \in {"ok", "retry", "internal_error"}
         /\ Generated(attempt, outcome) = "retry" => attempt < MaxRetries
  BY AiAssumption DEF Generated, Outcomes

\* An attempt ends.
LEMMA OpenAiReturnsInv ==
  ASSUME AiInv, NEW r \in Requests, NEW outcome \in Outcomes, OpenAiReturns(r, outcome)
  PROVE  AiInv'
<1> DEFINE result == Generated(call[r].attempt, outcome)
<1>1. call[r] \in Served /\ call[r].attempt \in 1 .. MaxRetries
  BY DEF AiInv, OpenAiReturns, At, Idle, Served
<1>2. result \in {"ok", "retry", "internal_error"}
  /\ (result = "retry" => call[r].attempt < MaxRetries)
  BY <1>1, GeneratedType
<1>3. /\ UNCHANGED <<now, provider, hits, admitted>>
      /\ call' = [call EXCEPT ![r] = IF result = "retry"
                                     THEN [call[r] EXCEPT !.pc = "sleeping"]
                                     ELSE [call[r] EXCEPT !.pc = "answered", !.code = result]]
  BY <1>1 DEF OpenAiReturns, AiInv
<1> HIDE DEF result
<1>4. call' \in [Requests -> {Idle} \cup Served] /\ \A s \in Requests : CallOK(s)'
  <2>1. CASE result = "retry"
    BY <1>1, <1>2, <1>3, <2>1 DEF AiInv, CallOK, Served
  <2>2. CASE result # "retry"
    BY <1>1, <1>2, <1>3, <2>2 DEF AiInv, CallOK, Served
  <2> QED BY <2>1, <2>2
<1> QED BY <1>3, <1>4 DEF AiInv

\* The next attempt.
LEMMA WakeInv ==
  ASSUME AiInv, NEW r \in Requests, Wake(r)
  PROVE  AiInv'
<1>1. call[r] \in Served /\ call[r].attempt \in 1 .. MaxRetries /\ call[r].attempt < MaxRetries
  BY DEF AiInv, CallOK, Wake, At, Idle, Served
<1>2. /\ UNCHANGED <<now, provider, hits, admitted>>
      /\ call' = [call EXCEPT ![r] = [call[r] EXCEPT !.pc = "calling", !.attempt = @ + 1]]
  BY <1>1 DEF Wake, AiInv, Served
<1>3. call[r].attempt + 1 \in 1 .. MaxRetries
  BY <1>1, AiAssumption
<1>4. call' \in [Requests -> {Idle} \cup Served] /\ \A s \in Requests : CallOK(s)'
  BY <1>1, <1>2, <1>3 DEF AiInv, CallOK, Served
<1> QED BY <1>2, <1>4 DEF AiInv

\* A worker that starts again has admitted nobody.
LEMMA RestartInv ==
  ASSUME AiInv, NEW w \in Workers, Restart(w)
  PROVE  AiInv'
<1>1. /\ hits' = [hits EXCEPT ![w] = NoHits] /\ admitted' = [admitted EXCEPT ![w] = NoHits]
      /\ UNCHANGED <<now, provider>>
  BY DEF Restart
<1>2. NoHits \in [Users -> Seq(Times)]
  BY EmptySeq DEF NoHits
<1>3. \A v \in Workers, u \in Users : Limiter(admitted'[v][u], hits'[v][u], now)
  <2> SUFFICES ASSUME NEW v \in Workers, NEW u \in Users
               PROVE  Limiter(admitted'[v][u], hits'[v][u], now)
    OBVIOUS
  <2>1. CASE v = w
    BY <1>1, <2>1, LimiterStarts DEF AiInv, NoHits
  <2>2. CASE v # w
    BY <1>1, <2>2 DEF AiInv
  <2> QED BY <2>1, <2>2
<1>4. call' \in [Requests -> {Idle} \cup Served] /\ \A r \in Requests : CallOK(r)'
  BY DEF Restart, AiInv, CallOK, Idle
<1>5. hits' \in [Workers -> [Users -> Seq(Times)]] /\ admitted' \in [Workers -> [Users -> Seq(Times)]]
  BY <1>1, <1>2 DEF AiInv
<1> QED BY <1>1, <1>3, <1>4, <1>5 DEF AiInv

\* Every step keeps the invariant.
LEMMA StepAi == AiInv /\ [Next]_vars => AiInv'
<1> SUFFICES ASSUME AiInv, [Next]_vars PROVE AiInv'
  OBVIOUS
<1>1. CASE UNCHANGED vars
  BY <1>1 DEF vars, AiInv, CallOK
<1>2. ASSUME NEW r \in Requests, NEW w \in Workers, NEW u \in Users, Acquire(r, w, u)
      PROVE  AiInv'
  BY <1>2, AcquireInv
<1>3. ASSUME NEW r \in Requests, Serve(r) PROVE AiInv'
  <2>1. CASE Respond(r)
    BY <2>1 DEF Respond, AiInv, CallOK, Idle
  <2> QED BY <1>3, <2>1, OpenAiReturnsInv, WakeInv DEF Serve
<1>4. ASSUME NEW w \in Workers, Restart(w) PROVE AiInv'
  BY <1>4, RestartInv
<1>5. CASE Tick
  <2>1. now' \in Times /\ now' = now + 1 /\ now \in Int
    BY <1>5, AiAssumption DEF Tick, AiInv, Times
  <2>2. \A w \in Workers, u \in Users : Limiter(admitted[w][u], hits[w][u], now')
    BY <2>1, LimiterTicks DEF AiInv
  <2> QED BY <1>5, <2>1, <2>2 DEF Tick, AiInv, CallOK
<1> QED BY <1>1, <1>2, <1>3, <1>4, <1>5 DEF Next

\* The inductive invariant: every limiter keeps the end of what it admitted, and
\* no request sleeps after its last attempt.
THEOREM AiInvariant == Spec => []AiInv
<1> QED BY InitAi, StepAi, PTL DEF Spec

\* No request to OpenAI beyond ai_max_retries, no more hits than are granted.
THEOREM AiTypeCorrect == Spec => []TypeOK
<1>1. AiInv => TypeOK
  <2> SUFFICES ASSUME AiInv, NEW w \in Workers, NEW u \in Users
               PROVE  hits[w][u] \in UNION {[1 .. n -> Times] : n \in 0 .. MaxRequests}
    BY DEF AiInv, TypeOK
  <2> DEFINE h == hits[w][u]
  <2>1. h \in Seq(Times) /\ Len(h) <= MaxRequests
    BY DEF AiInv, Limiter
  <2>2. Len(h) \in 0 .. MaxRequests /\ h \in [1 .. Len(h) -> Times]
    BY <2>1, LenProperties, AiAssumption
  <2> QED BY <2>2
<1> QED BY <1>1, AiInvariant, PTL

\* Wherever a window begins, a process admits a user at most MaxRequests times in
\* it, for every limit and window.
THEOREM LimitKept == Spec => []WindowBound
<1>1. AiInv => WindowBound
  <2> SUFFICES ASSUME AiInv, NEW w \in Workers, NEW u \in Users, NEW t \in Times
               PROVE  Cardinality(InWindow(admitted[w][u], t)) <= MaxRequests
    BY DEF WindowBound
  <2>1. t \in Int /\ Limiter(admitted[w][u], hits[w][u], now)
    BY AiAssumption DEF Times, AiInv
  <2> QED BY <2>1, LimiterBounds
<1> QED BY <1>1, AiInvariant, PTL

\* Nobody is refused who was not admitted MaxRequests times within the window.
THEOREM RefusalsJustified == Spec => NoFalseRefusal
<1> DEFINE Justified(r) ==
      /\ At(r, "idle") /\ call'[r].pc = "answered"
      /\ call'[r].code = "ai_rate_limit_exceeded"
      => Cardinality(InWindow(admitted[call'[r].worker][call'[r].user], now)) >= MaxRequests
<1>1. AiInv /\ [Next]_vars => [\A r \in Requests : Justified(r)]_vars
  <2> SUFFICES ASSUME AiInv, Next, NEW r \in Requests,
                      At(r, "idle"), call'[r].pc = "answered",
                      call'[r].code = "ai_rate_limit_exceeded"
               PROVE  Cardinality(InWindow(admitted[call'[r].worker][call'[r].user], now))
                        >= MaxRequests
    BY DEF vars
  <2>1. PICK w \in Workers, u \in Users : Acquire(r, w, u)
    <3>1. call'[r] # call[r]
      BY DEF At
    <3>2. ~Tick /\ \A v \in Workers : ~Restart(v)
      BY <3>1 DEF Tick, Restart, At, AiInv, Idle
    <3>3. \A s \in Requests : Serve(s) => s = r
      BY <3>1 DEF Serve, OpenAiReturns, Wake, Respond, AiInv
    <3>4. ~Serve(r)
      BY DEF Serve, OpenAiReturns, Wake, Respond, At
    <3>5. \A s \in Requests, v \in Workers, x \in Users : Acquire(s, v, x) => s = r
      BY <3>1 DEF Acquire, AiInv
    <3> QED BY <3>2, <3>3, <3>4, <3>5 DEF Next
  <2>2. now \in Times /\ Limiter(admitted[w][u], hits[w][u], now)
    BY DEF AiInv
  <2>3. Full(Recent(hits[w][u])) /\ call'[r].worker = w /\ call'[r].user = u
    BY <2>1 DEF Acquire, Begun, AiInv
  <2> QED BY <2>2, <2>3, LimiterFull
<1> QED BY <1>1, AiInvariant, PTL DEF Spec, NoFalseRefusal
=============================================================================
