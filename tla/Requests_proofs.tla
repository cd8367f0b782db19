--------------------------- MODULE Requests_proofs ---------------------------
(***************************************************************************)
(* Proofs about the requests the web application lets in, for every limit,  *)
(* window length, clock resolution and clock bound (RateLimiter), and for   *)
(* bodies, chunks and limits of any size (Endpoints, in the last section).   *)
(*                                                                          *)
(* None of the limiter's four properties is inductive.  IInv adds what ties *)
(* _requests to the history: the admissions are in order of time, _requests *)
(* is their newest part and what is no longer in it has left the window,    *)
(* and the last refusal was measured against the admission `limit` places   *)
(* back.                                                                    *)
(***************************************************************************)
EXTENDS RateLimiter, Endpoints, SequenceTheorems, ListFacts, TLAPS

\* The window is a positive number of ticks.
LEMMA WindowType == Window \in Nat \ {0}
BY ClockAssumption DEF Window

\* Multiplying by a positive number keeps the order.
LEMMA ProductOrder ==
  ASSUME NEW a \in Int, NEW b \in Int, NEW t \in Nat \ {0}, a * t < b * t
  PROVE  a < b
<1>1. SUFFICES ASSUME b <= a PROVE FALSE
  OBVIOUS
<1>2. PICK d \in Nat : a = b + d
  BY <1>1
<1>3. a * t = b * t + d * t /\ d * t >= 0
  BY <1>2
<1>4. a * t \in Int /\ b * t \in Int /\ d * t \in Int
  BY <1>2
<1>5. QED
  BY <1>3, <1>4

\* Rounding up to whole seconds gives the least number of seconds that is enough.
LEMMA CeilSecondsExact ==
  ASSUME NEW x \in 1 .. Window
  PROVE  /\ CeilSeconds(x) \in 1 .. WindowSeconds
         /\ x <= CeilSeconds(x) * TicksPerSecond
         /\ (CeilSeconds(x) - 1) * TicksPerSecond < x
<1> DEFINE T == TicksPerSecond
           c == (x + T - 1) \div T
<1>1. T \in Nat \ {0} /\ WindowSeconds \in Nat \ {0} /\ x \in Int
  BY ClockAssumption, WindowType
<1>2. c \in Int
  BY <1>1
<1>3. c * T <= x + T - 1 /\ x + T - 1 < (c + 1) * T
  BY <1>1
<1>4. c * T \in Int /\ (c + 1) * T = c * T + T /\ (c - 1) * T = c * T - T
  BY <1>1, <1>2
<1>5. x <= c * T /\ (c - 1) * T < x
  <2> HIDE DEF c
  <2> QED
    BY <1>1, <1>2, <1>3, <1>4
<1>6. 0 < c
  <2>1. 0 * T = 0 /\ 0 < c * T
    BY <1>1, <1>4, <1>5
  <2> HIDE DEF c
  <2>2. QED
    BY <1>1, <1>2, <2>1, ProductOrder
<1>7. c - 1 < WindowSeconds
  <2>1. x <= WindowSeconds * T
    BY WindowType DEF Window
  <2>2. WindowSeconds * T \in Int /\ (c - 1) * T \in Int
    BY <1>1, <1>2
  <2>3. (c - 1) * T < WindowSeconds * T
    <3> HIDE DEF c
    <3> QED
      BY <1>1, <1>5, <2>1, <2>2
  <2> HIDE DEF c
  <2>4. QED
    BY <1>1, <1>2, <2>3, ProductOrder
<1>8. c \in 1 .. WindowSeconds
  <2> HIDE DEF c
  <2> QED
    BY <1>1, <1>2, <1>6, <1>7
<1>9. QED
  BY <1>5, <1>8 DEF CeilSeconds

\* The pruning loop ends, and where it ends is the first entry still in the
\* window.
LEMMA PoppedExact ==
  ASSUME now \in Int, NEW q \in Seq(Int)
  PROVE  /\ Popped(q) \in 0 .. Len(q)
         /\ \A m \in 1 .. Popped(q) : q[m] <= now - Window
         /\ Popped(q) < Len(q) => q[Popped(q) + 1] > now - Window
<1> DEFINE Kept == {n \in 1 .. Len(q) : q[n] > now - Window}
           Stops(k) == /\ \A m \in 1 .. k : q[m] <= now - Window
                       /\ k < Len(q) => q[k + 1] > now - Window
<1>1. Len(q) \in Nat /\ \A m \in 1 .. Len(q) : q[m] \in Int
  OBVIOUS
<1>2. Window \in Int
  BY WindowType
<1>3. \E k \in 0 .. Len(q) : Stops(k)
  <2>1. CASE Kept = {}
    BY <1>1, <1>2, <2>1
  <2>2. CASE Kept # {}
    <3>1. Kept \subseteq Nat
      BY <1>1
    <3>2. PICK n \in Kept : \A m \in Kept : n <= m
      <4> HIDE DEF Kept
      <4> QED
        BY <2>2, <3>1, LeastNumber
    <3>3. n \in 1 .. Len(q) /\ n - 1 \in 0 .. Len(q) /\ q[(n - 1) + 1] > now - Window
      BY <1>1, <3>2
    <3>4. \A m \in 1 .. n - 1 : q[m] <= now - Window
      BY <1>1, <1>2, <3>2, <3>3, SMTT(30)
    <3>5. QED
      BY <3>3, <3>4
  <2>3. QED
    BY <2>1, <2>2
<1>4. QED
  BY <1>3 DEF Popped

-----------------------------------------------------------------------------
(***************************************************************************)
(* The inductive invariant.  What _requests holds is explained by what was  *)
(* let through: q is the newest part of `admitted`, and everything before   *)
(* it has left the window.                                                  *)
(***************************************************************************)
NewestAdmitted(q) ==
  /\ q \in Seq(Times)
  /\ Len(q) <= Len(admitted)
  /\ \A n \in 1 .. Len(q) : q[n] = admitted[Len(admitted) - Len(q) + n]
  /\ \A n \in 1 .. Len(admitted) - Len(q) : admitted[n] <= now - Window

TypesHold ==
  /\ limit \in Limits
  /\ now \in Times
  /\ recent \in Seq(Times)
  /\ admitted \in Seq(Times)
  /\ response \in [status : {"none", "passed", "401", "403", "429"},
                   retry : 0 .. WindowSeconds]
  /\ refusal \in [at : Times \cup {-1}, retry : 0 .. WindowSeconds, alone : BOOLEAN]

InOrder ==
  \A n \in 1 .. Len(admitted) :
    /\ admitted[n] <= now
    /\ \A m \in 1 .. n : admitted[m] <= admitted[n]

\* The request whose place the refused client waits for.
Oldest == admitted[Len(admitted) - limit + 1]

RefusalExplained ==
  refusal.alone =>
    /\ limit # 0 /\ limit <= Len(admitted)
    /\ refusal.at \in Times /\ refusal.retry \in 1 .. WindowSeconds
    /\ Oldest + Window <= refusal.at + refusal.retry * TicksPerSecond
    /\ refusal.at + (refusal.retry - 1) * TicksPerSecond < Oldest + Window

IInv ==
  /\ TypesHold
  /\ limit # 0 => Len(recent) <= limit
  /\ InOrder
  /\ NewestAdmitted(recent)
  /\ WindowBound
  /\ RefusalExplained

\* The types of the clock's values and of sequences of them.
LEMMA TimesAreNumbers ==
  /\ Times \subseteq Nat
  /\ Limits \subseteq Nat
  /\ \A q \in Seq(Times) : q \in Seq(Int)
  /\ \A q \in Seq(Times) :
       /\ Len(q) \in Nat /\ DOMAIN q = 1 .. Len(q)
       /\ \A n \in 1 .. Len(q) : q[n] \in Times
<1>1. Times \subseteq Nat /\ Times \subseteq Int
  BY ClockAssumption DEF Times
<1>2. \A q \in Seq(Times) : q \in Seq(Int)
  BY <1>1, SeqMonotonic
<1>3. \A q \in Seq(Times) :
        /\ Len(q) \in Nat /\ DOMAIN q = 1 .. Len(q)
        /\ \A n \in 1 .. Len(q) : q[n] \in Times
  BY LenProperties, ElementOfSeq
<1>4. QED
  BY <1>1, <1>2, <1>3, LimitsAssumption

\* Pruning keeps a suffix: the entries that are popped have left the window.
LEMMA Pruning ==
  ASSUME IInv
  PROVE  /\ Popped(recent) \in 0 .. Len(recent)
         /\ Len(InWindow(recent)) = Len(recent) - Popped(recent)
         /\ \A n \in 1 .. Len(InWindow(recent)) :
              InWindow(recent)[n] = recent[Popped(recent) + n]
         /\ NewestAdmitted(InWindow(recent))
<1> DEFINE k == Popped(recent)
           q == InWindow(recent)
<1>1. recent \in Seq(Times) /\ admitted \in Seq(Times) /\ now \in Times
  BY DEF IInv, TypesHold
<1>2. /\ Len(recent) \in Nat /\ Len(admitted) \in Nat /\ now \in Int
      /\ \A n \in 1 .. Len(recent) : recent[n] \in Times
  BY <1>1, TimesAreNumbers
<1>3. /\ k \in 0 .. Len(recent)
      /\ \A m \in 1 .. k : recent[m] <= now - Window
  BY <1>1, <1>2, TimesAreNumbers, PoppedExact
<1>4. /\ q \in Seq(Times)
      /\ Len(q) = Len(recent) - k
      /\ \A n \in 1 .. Len(q) : q[n] = recent[k + n]
  <2>1. k + 1 \in Int /\ Len(recent) \in Int
        /\ \A n \in k + 1 .. Len(recent) : recent[n] \in Times
    BY <1>2, <1>3
  <2> HIDE DEF k
  <2>2. /\ SubSeq(recent, k + 1, Len(recent)) \in Seq(Times)
        /\ Len(SubSeq(recent, k + 1, Len(recent)))
             = IF k + 1 <= Len(recent) THEN Len(recent) - (k + 1) + 1 ELSE 0
        /\ \A n \in 1 .. Len(recent) - (k + 1) + 1 :
             SubSeq(recent, k + 1, Len(recent))[n] = recent[(k + 1) + n - 1]
    BY <2>1, SubSeqProperties
  <2>3. q = SubSeq(recent, k + 1, Len(recent))
    BY DEF InWindow, k
  <2> HIDE DEF q
  <2>4. Len(q) = Len(recent) - k
    BY <1>2, <1>3, <2>2, <2>3
  <2>5. \A n \in 1 .. Len(q) : q[n] = recent[k + n]
    BY <1>2, <1>3, <2>2, <2>3, <2>4
  <2>6. QED
    BY <2>2, <2>3, <2>4, <2>5
<1>5. /\ Len(recent) <= Len(admitted)
      /\ \A n \in 1 .. Len(recent) : recent[n] = admitted[Len(admitted) - Len(recent) + n]
      /\ \A n \in 1 .. Len(admitted) - Len(recent) : admitted[n] <= now - Window
  BY DEF IInv, NewestAdmitted
<1>6. \A n \in 1 .. Len(q) : q[n] = admitted[Len(admitted) - Len(q) + n]
  <2> HIDE DEF k, q
  <2> TAKE n \in 1 .. Len(q)
  <2>1. q[n] = recent[k + n] /\ k + n \in 1 .. Len(recent)
    BY <1>2, <1>3, <1>4
  <2>2. recent[k + n] = admitted[Len(admitted) - Len(recent) + (k + n)]
    BY <1>5, <2>1
  <2>3. Len(admitted) - Len(recent) + (k + n) = Len(admitted) - Len(q) + n
    BY <1>2, <1>3, <1>4
  <2>4. QED
    BY <2>1, <2>2, <2>3
<1>7. \A n \in 1 .. Len(admitted) - Len(q) : admitted[n] <= now - Window
  <2> HIDE DEF k, q
  <2> TAKE n \in 1 .. Len(admitted) - Len(q)
  <2>1. CASE n <= Len(admitted) - Len(recent)
    BY <1>2, <1>5, <2>1
  <2>2. CASE ~(n <= Len(admitted) - Len(recent))
    <3> DEFINE m == n - (Len(admitted) - Len(recent))
    <3>1. m \in 1 .. k /\ m \in 1 .. Len(recent)
      BY <1>2, <1>3, <1>4, <2>2
    <3>2. recent[m] = admitted[Len(admitted) - Len(recent) + m]
      BY <1>5, <3>1
    <3>3. Len(admitted) - Len(recent) + m = n
      BY <1>2, <2>2
    <3>4. recent[m] <= now - Window
      BY <1>3, <3>1
    <3>5. QED
      BY <3>2, <3>3, <3>4
  <2>3. QED
    BY <2>1, <2>2
<1>8. Len(q) <= Len(admitted)
  <2> HIDE DEF k, q
  <2> QED
    BY <1>2, <1>3, <1>4, <1>5
<1>9. QED
  BY <1>3, <1>4, <1>6, <1>7, <1>8 DEF NewestAdmitted

\* The window is full exactly while the request `limit` places back is in it.
LEMMA FullWindow ==
  ASSUME IInv, limit # 0, limit <= Len(admitted)
  PROVE  /\ Oldest \in Times
         /\ Len(InWindow(recent)) >= limit <=> Oldest > now - Window
<1> DEFINE k == Popped(recent)
           q == InWindow(recent)
           p == Len(admitted) - limit + 1
<1>1. recent \in Seq(Times) /\ admitted \in Seq(Times) /\ now \in Times /\ limit \in Limits
  BY DEF IInv, TypesHold
<1>2. /\ Len(recent) \in Nat /\ Len(admitted) \in Nat /\ now \in Int /\ limit \in Nat \ {0}
      /\ \A n \in 1 .. Len(admitted) : admitted[n] \in Times /\ admitted[n] \in Int
  BY <1>1, TimesAreNumbers
<1>3. p \in 1 .. Len(admitted)
  BY <1>2
<1>4. /\ Len(q) = Len(recent) - k
      /\ k \in 0 .. Len(recent)
      /\ Len(q) <= Len(admitted)
      /\ \A n \in 1 .. Len(q) : q[n] = admitted[Len(admitted) - Len(q) + n]
      /\ \A n \in 1 .. Len(q) : q[n] = recent[k + n]
      /\ \A n \in 1 .. Len(admitted) - Len(q) : admitted[n] <= now - Window
  BY Pruning DEF NewestAdmitted
<1>5. k < Len(recent) => recent[k + 1] > now - Window
  BY <1>1, <1>2, TimesAreNumbers, PoppedExact
<1>6. Window \in Int
  BY WindowType
<1> HIDE DEF k, q
<1>7. CASE Len(q) >= limit
  <2> DEFINE f == Len(admitted) - Len(q) + 1
  <2>1. f \in 1 .. p /\ f \in 1 .. Len(admitted) /\ k < Len(recent) /\ 1 \in 1 .. Len(q)
    BY <1>2, <1>3, <1>4, <1>7
  <2>2. admitted[f] = recent[k + 1]
    BY <1>4, <2>1
  <2>3. admitted[f] <= admitted[p]
    BY <1>3, <2>1 DEF IInv, InOrder
  <2>4. admitted[p] > now - Window
    BY <1>2, <1>3, <1>5, <1>6, <2>1, <2>2, <2>3
  <2>5. QED
    BY <1>2, <1>3, <1>7, <2>4 DEF Oldest, q
<1>8. CASE ~(Len(q) >= limit)
  <2>1. p \in 1 .. Len(admitted) - Len(q)
    BY <1>2, <1>3, <1>4, <1>8
  <2>2. admitted[p] <= now - Window
    BY <1>4, <2>1
  <2>3. ~(admitted[p] > now - Window)
    BY <1>2, <1>3, <1>6, <2>2
  <2>4. QED
    BY <1>2, <1>3, <1>8, <2>3 DEF Oldest, q
<1>9. QED
  BY <1>7, <1>8

\* Before the first request nothing is recorded.
LEMMA InvariantHolds == Init => IInv
<1> SUFFICES ASSUME Init PROVE IInv
  OBVIOUS
<1>1. /\ limit \in Limits /\ limit \in Nat /\ now = 0 /\ recent = <<>> /\ admitted = <<>>
      /\ response = [status |-> "none", retry |-> 0]
      /\ refusal = [at |-> -1, retry |-> 0, alone |-> FALSE]
  BY TimesAreNumbers DEF Init, None
<1>2. 0 \in Times /\ 0 \in 0 .. WindowSeconds
  BY ClockAssumption DEF Times
<1>3. <<>> \in Seq(Times) /\ Len(<<>>) = 0 /\ DOMAIN <<>> = 1 .. 0
  OBVIOUS
<1>4. TypesHold
  BY <1>1, <1>2, <1>3 DEF TypesHold
<1>5. NewestAdmitted(recent) /\ InOrder /\ WindowBound
  BY <1>1, <1>3 DEF NewestAdmitted, InOrder, WindowBound
<1>6. RefusalExplained /\ (limit # 0 => Len(recent) <= limit)
  BY <1>1, <1>3 DEF RefusalExplained
<1>7. QED
  BY <1>4, <1>5, <1>6 DEF IInv

\* What a request let through is recorded as.
LEMMA AdmitStep ==
  ASSUME IInv, NEW r \in Requests, Admit(r)
  PROVE  IInv'
<1> DEFINE q == InWindow(recent)
<1>1. /\ limit # 0 /\ limit' = limit /\ now' = now
      /\ Len(q) < limit
      /\ recent' = Append(q, now)
      /\ admitted' = Append(admitted, now)
      /\ refusal' = [refusal EXCEPT !.alone = FALSE]
      /\ response' = [status |-> "passed", retry |-> 0]
  BY DEF Admit, Answer
<1>2. TypesHold /\ InOrder /\ WindowBound
  BY DEF IInv
<1>3. /\ limit \in Limits /\ now \in Times /\ admitted \in Seq(Times)
      /\ refusal \in [at : Times \cup {-1}, retry : 0 .. WindowSeconds, alone : BOOLEAN]
  BY <1>2 DEF TypesHold
<1>4. /\ Len(admitted) \in Nat /\ now \in Int /\ limit \in Nat \ {0}
      /\ \A n \in 1 .. Len(admitted) : admitted[n] \in Int
  BY <1>1, <1>3, TimesAreNumbers
<1>5. NewestAdmitted(q)
  BY Pruning
<1>6. /\ q \in Seq(Times) /\ Len(q) \in Nat /\ Len(q) <= Len(admitted)
      /\ \A n \in 1 .. Len(q) : q[n] = admitted[Len(admitted) - Len(q) + n]
      /\ \A n \in 1 .. Len(admitted) - Len(q) : admitted[n] <= now - Window
  BY <1>5, TimesAreNumbers DEF NewestAdmitted
<1>7. Window \in Int
  BY WindowType
<1> HIDE DEF q
<1>8. /\ recent' \in Seq(Times) /\ Len(recent') = Len(q) + 1
      /\ \A n \in 1 .. Len(q) : recent'[n] = q[n]
      /\ recent'[Len(q) + 1] = now
  BY <1>1, <1>3, <1>6, AppendProperties
<1>9. /\ admitted' \in Seq(Times) /\ Len(admitted') = Len(admitted) + 1
      /\ \A n \in 1 .. Len(admitted) : admitted'[n] = admitted[n]
      /\ admitted'[Len(admitted) + 1] = now
      /\ DOMAIN admitted' = 1 .. Len(admitted) + 1
  BY <1>1, <1>3, AppendProperties, TimesAreNumbers
<1>10. TypesHold'
  <2>1. 0 \in 0 .. WindowSeconds
    BY ClockAssumption
  <2>2. refusal' \in [at : Times \cup {-1}, retry : 0 .. WindowSeconds, alone : BOOLEAN]
    BY <1>1, <1>3
  <2>3. response' \in [status : {"none", "passed", "401", "403", "429"},
                       retry : 0 .. WindowSeconds]
    BY <1>1, <2>1
  <2>4. QED
    BY <1>1, <1>3, <1>8, <1>9, <2>2, <2>3 DEF TypesHold, Times
<1>11. (limit # 0 => Len(recent) <= limit)'
  BY <1>1, <1>4, <1>6, <1>8
<1>12. InOrder'
  BY <1>1, <1>2, <1>4, <1>9 DEF InOrder
<1>13. NewestAdmitted(recent)'
  <2>1. Len(recent') <= Len(admitted')
    BY <1>4, <1>6, <1>8, <1>9
  <2>2. \A n \in 1 .. Len(recent') :
          recent'[n] = admitted'[Len(admitted') - Len(recent') + n]
    <3> TAKE n \in 1 .. Len(recent')
    <3>1. CASE n \in 1 .. Len(q)
      <4>1. Len(admitted) - Len(q) + n \in 1 .. Len(admitted)
            /\ Len(admitted') - Len(recent') + n = Len(admitted) - Len(q) + n
        BY <1>4, <1>6, <1>8, <1>9, <3>1
      <4>2. QED
        BY <1>6, <1>8, <1>9, <3>1, <4>1
    <3>2. CASE n = Len(q) + 1
      <4>1. Len(admitted') - Len(recent') + n = Len(admitted) + 1
        BY <1>4, <1>6, <1>8, <1>9, <3>2
      <4>2. QED
        BY <1>8, <1>9, <3>2, <4>1
    <3>3. QED
      BY <1>6, <1>8, <3>1, <3>2
  <2>3. \A n \in 1 .. Len(admitted') - Len(recent') : admitted'[n] <= now' - Window
    BY <1>1, <1>4, <1>6, <1>8, <1>9
  <2>4. QED
    BY <1>8, <2>1, <2>2, <2>3, ClockAssumption DEF NewestAdmitted, Times, Window
<1>14. WindowBound'
  <2>1. ASSUME NEW n \in 1 .. Len(admitted) + 1, n + limit \in 1 .. Len(admitted) + 1
        PROVE  admitted'[n + limit] - admitted'[n] >= Window
    <3>1. CASE n + limit \in 1 .. Len(admitted)
      <4>1. n \in 1 .. Len(admitted) /\ n \in DOMAIN admitted /\ n + limit \in DOMAIN admitted
        BY <1>3, <1>4, <3>1, TimesAreNumbers
      <4>2. admitted[n + limit] - admitted[n] >= Window
        BY <1>1, <1>2, <4>1 DEF WindowBound
      <4>3. QED
        BY <1>9, <3>1, <4>1, <4>2
    <3>2. CASE n + limit = Len(admitted) + 1
      <4>1. n = Len(admitted) - limit + 1 /\ limit <= Len(admitted) /\ n \in 1 .. Len(admitted)
        BY <1>4, <3>2
      <4>2. ~(Oldest > now - Window) /\ Oldest \in Times
        BY <1>1, <1>4, <1>6, <4>1, FullWindow DEF q
      <4>3. admitted[n] <= now - Window
        BY <1>4, <1>7, <4>1, <4>2 DEF Oldest
      <4>4. QED
        BY <1>4, <1>7, <1>9, <3>2, <4>1, <4>3
    <3>3. QED
      BY <1>4, <2>1, <3>1, <3>2
  <2>2. QED
    BY <1>1, <1>9, <2>1 DEF WindowBound, Window
<1>15. RefusalExplained'
  <2>1. refusal'.alone = FALSE
    BY <1>1, <1>3
  <2>2. QED
    BY <2>1 DEF RefusalExplained
<1>16. QED
  BY <1>10, <1>11, <1>12, <1>13, <1>14, <1>15 DEF IInv

\* What a refused request is told.
LEMMA ThrottleStep ==
  ASSUME IInv, NEW r \in Requests, Throttle(r)
  PROVE  IInv'
<1> DEFINE q == InWindow(recent)
           h == Head(q)
           x == Window - (now - h)
<1>1. /\ limit # 0 /\ limit' = limit /\ now' = now /\ admitted' = admitted
      /\ Len(q) >= limit
      /\ recent' = q
      /\ refusal' = [at |-> now, retry |-> RetryAfter(q), alone |-> TRUE]
      /\ response' = [status |-> "429", retry |-> RetryAfter(q)]
  BY DEF Throttle, Answer
<1>2. TypesHold /\ InOrder /\ WindowBound /\ Len(recent) <= limit
  BY <1>1 DEF IInv
<1>3. limit \in Limits /\ now \in Times /\ admitted \in Seq(Times) /\ recent \in Seq(Times)
  BY <1>2 DEF TypesHold
<1>4. /\ Len(admitted) \in Nat /\ now \in Int /\ limit \in Nat \ {0} /\ Len(recent) \in Nat
      /\ \A n \in 1 .. Len(admitted) : admitted[n] \in Times /\ admitted[n] \in Int
  BY <1>1, <1>3, TimesAreNumbers
<1>5. /\ Popped(recent) \in 0 .. Len(recent)
      /\ Len(q) = Len(recent) - Popped(recent)
      /\ NewestAdmitted(q)
  BY Pruning
<1>6. /\ q \in Seq(Times) /\ Len(q) <= Len(admitted) /\ Len(q) = limit
      /\ \A n \in 1 .. Len(q) : q[n] = admitted[Len(admitted) - Len(q) + n]
  BY <1>1, <1>2, <1>4, <1>5 DEF NewestAdmitted
<1>7. limit <= Len(admitted) /\ 1 \in 1 .. Len(q)
  BY <1>4, <1>6
<1>8. h = Oldest
  <2>1. h = q[1]
    OBVIOUS
  <2>2. q[1] = admitted[Len(admitted) - limit + 1]
    BY <1>6, <1>7
  <2>3. QED
    BY <2>1, <2>2 DEF Oldest
<1>9. Oldest \in Times /\ Oldest > now - Window
  BY <1>1, <1>7, FullWindow
<1>10. Oldest <= now
  <2>1. Len(admitted) - limit + 1 \in 1 .. Len(admitted)
    BY <1>4, <1>7
  <2>2. QED
    BY <1>2, <2>1 DEF Oldest, InOrder
<1>11. Window \in Int /\ Oldest \in Int /\ Times \subseteq Int
  BY <1>9, WindowType, TimesAreNumbers
<1>12. x \in 1 .. Window
  <2> HIDE DEF h, q
  <2> QED
    BY <1>4, <1>8, <1>9, <1>10, <1>11
<1>13. /\ CeilSeconds(x) \in 1 .. WindowSeconds
       /\ x <= CeilSeconds(x) * TicksPerSecond
       /\ (CeilSeconds(x) - 1) * TicksPerSecond < x
  <2> HIDE DEF x
  <2> QED
    BY <1>12, CeilSecondsExact
<1>14. RetryAfter(q) = CeilSeconds(x)
  <2>1. RetryAfter(q) = IF CeilSeconds(x) < 1 THEN 1 ELSE CeilSeconds(x)
    BY DEF RetryAfter
  <2>2. ~(CeilSeconds(x) < 1)
    <3> HIDE DEF x
    <3> QED
      BY <1>13
  <2>3. QED
    BY <2>1, <2>2
<1>15. x = Window - (now - Oldest)
  BY <1>8
<1> DEFINE c == CeilSeconds(x)
<1> HIDE DEF h, q, x, c
<1>16. TypesHold'
  <2>1. c \in 1 .. WindowSeconds /\ WindowSeconds \in Nat
    BY <1>13, ClockAssumption DEF c
  <2>2. c \in 0 .. WindowSeconds
    BY <2>1
  <2>3. response' \in [status : {"none", "passed", "401", "403", "429"},
                       retry : 0 .. WindowSeconds]
    BY <1>1, <1>14, <2>2 DEF c
  <2>4. refusal' \in [at : Times \cup {-1}, retry : 0 .. WindowSeconds, alone : BOOLEAN]
    BY <1>1, <1>3, <1>14, <2>2 DEF c
  <2>5. QED
    BY <1>1, <1>3, <1>6, <2>3, <2>4 DEF TypesHold, Times
<1>17. (limit # 0 => Len(recent) <= limit)'
  BY <1>1, <1>4, <1>6
<1>18. InOrder' /\ WindowBound' /\ NewestAdmitted(recent)'
  BY <1>1, <1>2, <1>5 DEF InOrder, WindowBound, NewestAdmitted, Times, Window
<1>19. RefusalExplained'
  <2>1. Oldest' = Oldest
    BY <1>1 DEF Oldest
  <2>2. refusal'.at = now /\ refusal'.retry = c
    BY <1>1, <1>14 DEF c
  <2>3. c \in 1 .. WindowSeconds /\ c \in Int
    BY <1>13, ClockAssumption DEF c
  <2>4. c * TicksPerSecond \in Int /\ (c - 1) * TicksPerSecond \in Int
    BY <2>3, ClockAssumption
  <2>5. /\ Oldest + Window <= now + c * TicksPerSecond
        /\ now + (c - 1) * TicksPerSecond < Oldest + Window
    <3>1. x <= c * TicksPerSecond /\ (c - 1) * TicksPerSecond < x
      BY <1>13 DEF c
    <3> DEFINE a == c * TicksPerSecond
               b == (c - 1) * TicksPerSecond
    <3>2. a \in Int /\ b \in Int /\ x <= a /\ b < x
      BY <2>4, <3>1
    <3> HIDE DEF a, b
    <3>3. Oldest + Window <= now + a /\ now + b < Oldest + Window
      BY <1>4, <1>11, <1>15, <3>2
    <3>4. QED
      BY <3>3 DEF a, b
  <2>6. limit' # 0 /\ limit' <= Len(admitted') /\ refusal'.at \in Times /\ Window' = Window
    BY <1>1, <1>3, <1>7, <2>2 DEF Window
  <2>7. QED
    BY <2>1, <2>2, <2>3, <2>5, <2>6 DEF RefusalExplained, Times
<1>20. QED
  BY <1>16, <1>17, <1>18, <1>19 DEF IInv

\* A request the limiter is not consulted about, and no step at all.
LEMMA UnlimitedStep ==
  ASSUME IInv,
         \/ \E r \in Requests : Refuse(r) \/ PassFreely(r)
         \/ UNCHANGED vars
  PROVE  IInv'
<1>1. /\ UNCHANGED <<limit, now, recent, admitted, refusal>>
      /\ response' \in [status : {"none", "passed", "401", "403", "429"},
                        retry : 0 .. WindowSeconds]
  <2>1. 0 \in 0 .. WindowSeconds
    BY ClockAssumption
  <2>2. ASSUME NEW r \in Requests, Refuse(r) \/ PassFreely(r)
        PROVE  <1>1!1 /\ <1>1!2
    BY <2>1, <2>2 DEF Refuse, PassFreely, Answer
  <2>3. CASE UNCHANGED vars
    BY <2>3 DEF vars, IInv, TypesHold
  <2>4. QED
    BY <2>2, <2>3
<1>2. QED
  BY <1>1 DEF IInv, TypesHold, InOrder, NewestAdmitted, WindowBound, RefusalExplained,
              Oldest, Times, Window

\* Time only takes requests out of the window.
LEMMA TickStep ==
  ASSUME IInv, Tick
  PROVE  IInv'
<1>1. /\ now < MaxTime /\ now' = now + 1
      /\ UNCHANGED <<limit, recent, response, admitted, refusal>>
      /\ now \in Times /\ admitted \in Seq(Times)
      /\ InOrder /\ NewestAdmitted(recent)
  BY DEF Tick, IInv, TypesHold
<1>2. /\ Len(admitted) \in Nat
      /\ \A n \in 1 .. Len(admitted) : admitted[n] \in Int
      /\ now \in Int /\ Window \in Int
  BY <1>1, TimesAreNumbers, WindowType
<1>3. now' \in Times
  BY <1>1, ClockAssumption DEF Times
<1>4. InOrder'
  BY <1>1, <1>2 DEF InOrder
<1>5. NewestAdmitted(recent)'
  <2>1. \A n \in 1 .. Len(admitted) - Len(recent) :
          admitted[n] <= now - Window => admitted[n] <= now' - Window
    <3>1. Len(recent) \in Nat
      BY TimesAreNumbers DEF IInv, TypesHold
    <3>2. QED
      BY <1>1, <1>2, <3>1
  <2>2. QED
    BY <1>1, <2>1 DEF NewestAdmitted, Times, Window
<1>6. QED
  BY <1>1, <1>3, <1>4, <1>5
     DEF IInv, TypesHold, WindowBound, RefusalExplained, Oldest, Times, Window

\* Every reachable state satisfies the invariant.
LEMMA Invariance == Spec => []IInv
<1>1. IInv /\ [Next]_vars => IInv'
  <2> SUFFICES ASSUME IInv, [Next]_vars PROVE IInv'
    OBVIOUS
  <2>1. ASSUME NEW r \in Requests, Admit(r) PROVE IInv'
    BY <2>1, AdmitStep
  <2>2. ASSUME NEW r \in Requests, Throttle(r) PROVE IInv'
    BY <2>2, ThrottleStep
  <2>3. CASE Tick
    BY <2>3, TickStep
  <2>4. CASE (\E r \in Requests : Refuse(r) \/ PassFreely(r)) \/ UNCHANGED vars
    BY <2>4, UnlimitedStep
  <2>5. QED
    BY <2>1, <2>2, <2>3, <2>4 DEF Next
<1>2. QED
  BY InvariantHolds, <1>1, PTL DEF Spec

-----------------------------------------------------------------------------
\* Whatever the limit, the window and the clock: _requests never outgrows the
\* limit, and every Retry-After is at most the window (app.py L155-172).
THEOREM LimiterTypeCorrect == Spec => []TypeOK
<1>1. IInv => TypeOK
  BY DEF IInv, TypesHold, TypeOK
<1>2. QED
  BY <1>1, Invariance, PTL

\* No window of a minute, wherever it starts, sees more than the configured
\* number of orchestrations and approvals (app.py L155-172).
THEOREM WindowNeverOverrun == Spec => []WindowBound
<1>1. IInv => WindowBound
  BY DEF IInv
<1>2. QED
  BY <1>1, Invariance, PTL

\* The seconds a refused client is told are enough, and one less would not be
\* (app.py L164-169).
THEOREM RetryAfterIsExact == Spec => []RetryAfterExact
<1>1. IInv => RetryAfterExact
  <2> SUFFICES ASSUME IInv, refusal.alone
               PROVE  /\ now >= refusal.at + refusal.retry * TicksPerSecond =>
                           Len(InWindow(recent)) < limit
                      /\ now <= refusal.at + (refusal.retry - 1) * TicksPerSecond =>
                           Len(InWindow(recent)) >= limit
    BY DEF RetryAfterExact
  <2>1. /\ limit # 0 /\ limit <= Len(admitted)
        /\ refusal.at \in Times /\ refusal.retry \in 1 .. WindowSeconds
        /\ Oldest + Window <= refusal.at + refusal.retry * TicksPerSecond
        /\ refusal.at + (refusal.retry - 1) * TicksPerSecond < Oldest + Window
    BY DEF IInv, RefusalExplained
  <2>2. /\ Oldest \in Times
        /\ Len(InWindow(recent)) >= limit <=> Oldest > now - Window
    BY <2>1, FullWindow
  <2>3. Len(InWindow(recent)) \in Int
    BY Pruning, TimesAreNumbers DEF NewestAdmitted
  <2>4. limit \in Int /\ now \in Int /\ Oldest \in Int /\ Window \in Int /\ refusal.at \in Int
    <3>1. limit \in Limits /\ now \in Times
      BY DEF IInv, TypesHold
    <3>2. Times \subseteq Nat /\ Limits \subseteq Nat
      BY TimesAreNumbers
    <3>3. refusal.at \in Times /\ Oldest \in Times
      BY <2>1, <2>2
    <3>4. Window \in Nat
      BY WindowType
    <3>5. \A t \in Times : t \in Int
      BY <3>2
    <3>6. \A n \in Limits : n \in Int
      BY <3>2
    <3>7. Window \in Int
      BY <3>4
    <3>8. QED
      BY <3>1, <3>3, <3>5, <3>6, <3>7, Zenon
  <2> DEFINE a == refusal.at + refusal.retry * TicksPerSecond
             b == refusal.at + (refusal.retry - 1) * TicksPerSecond
  <2>5. refusal.retry \in Int /\ TicksPerSecond \in Int
    BY <2>1, ClockAssumption
  <2>6. a \in Int /\ b \in Int /\ Oldest + Window <= a /\ b < Oldest + Window
    BY <2>1, <2>4, <2>5
  <2> HIDE DEF a, b
  <2>7. /\ now >= a => Len(InWindow(recent)) < limit
        /\ now <= b => Len(InWindow(recent)) >= limit
    BY <2>2, <2>3, <2>4, <2>6
  <2>8. QED
    BY <2>7 DEF a, b
<1>2. QED
  BY <1>1, Invariance, PTL

\* The window _requests shows is the window of what was let through: pruning
\* loses no request and no refused one is counted (app.py L155-172, L285-326).
THEOREM QuotaServedExactly == Spec => []ServedExactly
<1>1. IInv => ServedExactly
  <2> SUFFICES ASSUME IInv PROVE InWindow(recent) = InWindow(admitted)
    BY DEF ServedExactly
  <2> DEFINE k == Popped(recent)
             j == Popped(admitted)
             q == InWindow(recent)
             d == Len(admitted) - Len(q)
  <2>1. admitted \in Seq(Times) /\ recent \in Seq(Times) /\ now \in Times
    BY DEF IInv, TypesHold
  <2>2. /\ Len(admitted) \in Nat /\ Len(recent) \in Nat /\ now \in Int /\ Window \in Int
        /\ admitted \in Seq(Int) /\ recent \in Seq(Int)
        /\ \A n \in 1 .. Len(admitted) : admitted[n] \in Times /\ admitted[n] \in Int
    BY <2>1, TimesAreNumbers, WindowType
  <2>3. /\ k \in 0 .. Len(recent)
        /\ Len(q) = Len(recent) - k
        /\ \A n \in 1 .. Len(q) : q[n] = recent[k + n]
        /\ q \in Seq(Times)
        /\ Len(q) <= Len(admitted)
        /\ \A n \in 1 .. Len(q) : q[n] = admitted[d + n]
        /\ \A n \in 1 .. d : admitted[n] <= now - Window
    BY Pruning DEF NewestAdmitted
  <2>4. k < Len(recent) => recent[k + 1] > now - Window
    BY <2>2, PoppedExact
  <2>5. /\ j \in 0 .. Len(admitted)
        /\ \A m \in 1 .. j : admitted[m] <= now - Window
        /\ j < Len(admitted) => admitted[j + 1] > now - Window
    BY <2>2, PoppedExact
  <2>6. InWindow(admitted) = SubSeq(admitted, j + 1, Len(admitted))
    BY DEF InWindow
  <2> HIDE DEF k, j, q
  <2>7. d \in 0 .. Len(admitted) /\ Len(q) \in Nat
    BY <2>2, <2>3
  <2>8. j = d
    <3>1. ~(j < d)
      <4>1. SUFFICES ASSUME j < d PROVE FALSE
        OBVIOUS
      <4>2. j + 1 \in 1 .. d /\ j + 1 \in 1 .. Len(admitted) /\ j < Len(admitted)
        BY <2>2, <2>5, <2>7, <4>1
      <4>3. QED
        BY <2>2, <2>3, <2>5, <4>2
    <3>2. ~(d < j)
      <4>1. SUFFICES ASSUME d < j PROVE FALSE
        OBVIOUS
      <4>2. d + 1 \in 1 .. j /\ d + 1 \in 1 .. Len(admitted) /\ 1 \in 1 .. Len(q)
        BY <2>2, <2>3, <2>5, <2>7, <4>1, SMTT(30)
      <4>3. k < Len(recent) /\ admitted[d + 1] = recent[k + 1]
        BY <2>2, <2>3, <4>2, SMTT(30)
      <4>4. QED
        BY <2>2, <2>4, <2>5, <4>2, <4>3
    <3>3. QED
      BY <2>2, <2>5, <2>7, <3>1, <3>2
  <2> DEFINE w == SubSeq(admitted, d + 1, Len(admitted))
  <2>9. /\ w \in Seq(Times)
        /\ Len(w) = Len(q)
        /\ \A n \in 1 .. Len(q) : w[n] = admitted[d + n]
    <3>1. /\ d + 1 \in Int /\ Len(admitted) \in Int
          /\ \A n \in d + 1 .. Len(admitted) : admitted[n] \in Times
      BY <2>2, <2>7
    <3> HIDE DEF d
    <3>2. /\ w \in Seq(Times)
          /\ Len(w) = IF d + 1 <= Len(admitted) THEN Len(admitted) - (d + 1) + 1 ELSE 0
          /\ \A n \in 1 .. Len(admitted) - (d + 1) + 1 : w[n] = admitted[(d + 1) + n - 1]
      BY <3>1, SubSeqProperties
    <3>3. Len(admitted) - (d + 1) + 1 = Len(q)
      BY <2>2, <2>7 DEF d
    <3> HIDE DEF w
    <3>4. Len(w) = Len(q)
      BY <2>2, <2>7, <3>2, <3>3
    <3>5. \A n \in 1 .. Len(q) : (d + 1) + n - 1 = d + n
      BY <2>7
    <3>6. QED
      BY <3>2, <3>3, <3>4, <3>5
  <2> HIDE DEF w, d
  <2>10. q = w
    BY <2>3, <2>9, SeqEqual
  <2>11. QED
    BY <2>6, <2>8, <2>10 DEF q, w
<1>2. QED
  BY <1>1, Invariance, PTL
-----------------------------------------------------------------------------
(***************************************************************************)
(* The two expensive endpoints: a request that was let in, until it is      *)
(* answered.                                                                *)
(***************************************************************************)

\* A request is one that may arrive.
RequestOK ==
  request \in [endpoint : {"orchestrate", "approve"}, media : Media,
               declared : {"absent", "invalid", "given"},
               size : 0 .. MaxBody, log : 0 .. MaxBody]

\* A log that was measured stays the one that is analysed.
LogMeasured ==
  /\ pc \in {"options", "policy", "analysis", "agents"} => request.log \in 1 .. MaxLog
  /\ status = "200" => request.log \in 1 .. MaxLog

\* Nothing is called before the policy was consulted, and offline no longer
\* changes once it was.
PolicyConsulted ==
  /\ pc \in {"analysis", "agents"} => offline \/ policy
  /\ live => pc \in {"agents", "answered"} /\ policy /\ ~offline

\* What is open or stored is so between two places of the handler only.
HeldBetween ==
  /\ temporary => pc = "analysis"
  /\ form = "open" => pc \in {"log", "options"}

\* The buffer grows only while it is within the limit.
BodyMeasured == pc \in {"start", "body"} => received <= Limit

HandlerIInv ==
  /\ HandlerTypeOK
  /\ RequestOK
  /\ LogMeasured
  /\ PolicyConsulted
  /\ HeldBetween
  /\ BodyMeasured

\* The limit on a body is a number.
LEMMA BodyLimitType == Limit \in Nat
BY SizesAssumption DEF Limit

\* Every step of the handler preserves the inductive invariant.
LEMMA HandlerStep == HandlerIInv /\ [HandlerNext]_handlerVars => HandlerIInv'
<1> SUFFICES ASSUME HandlerIInv, [HandlerNext]_handlerVars PROVE HandlerIInv'
  OBVIOUS
<1> USE SizesAssumption
        DEF HandlerIInv, HandlerTypeOK, RequestOK, LogMeasured,
            PolicyConsulted, HeldBetween, BodyMeasured, AnswerWith, Continue,
            Accepted, Orchestrating, Media, Forms
<1>0. UNCHANGED <<request, policy>> /\ Limit' = Limit
  BY DEF HandlerNext, RefuseMedia, RefuseLength, Begin,
         Receive, Disconnect, BodyComplete,
         RefuseContent, ParseContent, RefuseLog,
         RefuseLargeLog, AcceptLog, RefuseOptions,
         AcceptOptions, RefuseLive, StoreInput,
         StoreFails, Analyze, AnalysisFails,
         RunAgents, Decide, Answered, handlerVars, Limit
<1>1. CASE RefuseMedia \/ RefuseLength \/ Begin
  BY <1>0, <1>1 DEF RefuseMedia, RefuseLength, Begin
<1>2. CASE Receive
  <2>1. PICK chunk \in 1 .. MaxChunk :
          received + chunk <= request.size /\ received' = received + chunk
    BY <1>2 DEF Receive
  <2>2. received' \in 0 .. MaxBody
    BY <2>1
  <2>3. received' <= Limit' + MaxChunk
    BY <1>0, <1>2, <2>1, BodyLimitType DEF Receive
  <2> QED
    BY <1>0, <1>2, <2>1, <2>2, <2>3, BodyLimitType DEF Receive
<1>3. CASE Disconnect \/ BodyComplete
  BY <1>0, <1>3 DEF Disconnect, BodyComplete
<1>4. CASE RefuseContent \/ ParseContent
  BY <1>0, <1>4 DEF RefuseContent, ParseContent
<1>5. CASE RefuseLog \/ RefuseLargeLog \/ AcceptLog
  BY <1>0, <1>5 DEF RefuseLog, RefuseLargeLog, AcceptLog
<1>6. CASE RefuseOptions \/ AcceptOptions
  BY <1>0, <1>6 DEF RefuseOptions, AcceptOptions
<1>7. CASE RefuseLive
  BY <1>0, <1>7 DEF RefuseLive
<1>8. CASE StoreInput
  BY <1>0, <1>8 DEF StoreInput
<1>9. CASE StoreFails
  BY <1>0, <1>9 DEF StoreFails
\* Here the providers come within reach, of a request the policy allows.
<1>10. CASE Analyze \/ AnalysisFails
  <2>1. live' = ~offline /\ offline' = offline
    BY <1>10 DEF Analyze, AnalysisFails
  <2>2. offline \in BOOLEAN
    OBVIOUS
  <2>3. offline \/ policy
    BY <1>10 DEF Analyze, AnalysisFails
  <2>4. live' \in BOOLEAN /\ (live' => policy /\ ~offline)
    BY <2>1, <2>2, <2>3, Zenon
  <2>5. /\ temporary' = FALSE /\ received' = received
        /\ pc = "analysis" /\ pc' \in {"agents", "answered"}
        /\ pc' = "answered" => form' # "open" /\ status' \in {"422", "500"}
        /\ pc' # "answered" => status' = status
        /\ form' \in {form, "closed"}
    BY <1>10 DEF Analyze, AnalysisFails
  <2>6. HandlerTypeOK'
    BY <1>0, <2>1, <2>2, <2>4, <2>5
  <2>7. RequestOK' /\ LogMeasured' /\ HeldBetween' /\ BodyMeasured'
    BY <1>0, <2>5
  <2>8. PolicyConsulted'
    BY <1>0, <2>1, <2>3, <2>4, <2>5
  <2> QED
    BY <2>6, <2>7, <2>8
<1>11. CASE RunAgents \/ Decide
  BY <1>0, <1>11 DEF RunAgents, Decide
<1>12. CASE Answered \/ UNCHANGED handlerVars
  BY <1>0, <1>12 DEF Answered, handlerVars
<1> QED
  BY <1>1, <1>2, <1>3, <1>4, <1>5, <1>6, <1>7, <1>8, <1>9, <1>10, <1>11, <1>12
     DEF HandlerNext

\* The inductive invariant holds from the arrival of a request to its answer.
LEMMA HandlerInvariance == HandlerSpec => []HandlerIInv
<1>1. HandlerInit => HandlerIInv
  <2> SUFFICES ASSUME HandlerInit PROVE HandlerIInv
    OBVIOUS
  <2>1. /\ received \in 0 .. MaxBody
        /\ received <= Limit /\ received <= Limit + MaxChunk
    BY SizesAssumption, BodyLimitType DEF HandlerInit
  <2> QED
    BY <2>1
       DEF HandlerInit, HandlerIInv, HandlerTypeOK, RequestOK, LogMeasured,
           PolicyConsulted, HeldBetween, BodyMeasured
<1> QED
  BY <1>1, HandlerStep, PTL DEF HandlerSpec

\* The body buffer never holds more than the limit and one chunk, however long a
\* body is and whether its length was announced.
THEOREM BufferBounded == HandlerSpec => []HandlerTypeOK
<1>1. HandlerIInv => HandlerTypeOK
  BY DEF HandlerIInv
<1> QED
  BY <1>1, HandlerInvariance, PTL

\* Only a log within its limit is analysed, and no provider or model is within
\* reach of a request unless it and the policy are for live operation.
THEOREM AnalysesAllowed == HandlerSpec => []AnalysedAsAllowed
<1>1. HandlerIInv => AnalysedAsAllowed
  BY DEF HandlerIInv, LogMeasured, PolicyConsulted, AnalysedAsAllowed
<1> QED
  BY <1>1, HandlerInvariance, PTL

\* An answered request leaves no temporary file and no open upload.
THEOREM NothingIsLeftBehind == HandlerSpec => []NothingLeftBehind
<1>1. HandlerIInv => NothingLeftBehind
  BY DEF HandlerIInv, HeldBetween, NothingLeftBehind
<1> QED
  BY <1>1, HandlerInvariance, PTL
=============================================================================
