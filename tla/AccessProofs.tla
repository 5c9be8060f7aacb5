---------------------------- MODULE AccessProofs ----------------------------
(***************************************************************************)
(* Theorems about who may do what and how often: Access, for every number  *)
(* of users, keys, secrets and requests in flight, and RateLimiter, for    *)
(* every quota, window and clock.                                          *)
(***************************************************************************)
EXTENDS Access, RateLimiter, FiniteSetTheorems, SequenceTheorems,
        WellFoundedInduction, TLAPS

-----------------------------------------------------------------------------
(* The quota of a caller *)

(* The deque holds the last attempts let through, and every one of those   *)
(* before it is out of the window.                                         *)
Skipped(k) == Len(granted[k]) - Len(attempts[k])

DequeInv ==
    \A k \in Caller :
      /\ Len(attempts[k]) <= Len(granted[k])
      /\ \A i \in 1..Len(attempts[k]) : attempts[k][i] = granted[k][Skipped(k) + i]
      /\ \A i \in 1..Skipped(k) : now - granted[k][i] >= Window

(* The clock does not go back, and an attempt comes a window after the one *)
(* that is MaxAttempts before it.                                          *)
SpacedInv ==
    \A k \in Caller :
      /\ \A i \in DOMAIN granted[k] : granted[k][i] <= now
      /\ \A i, j \in DOMAIN granted[k] : i <= j => granted[k][i] <= granted[k][j]
      /\ \A i, j \in DOMAIN granted[k] :
           j = i + MaxAttempts => granted[k][j] >= granted[k][i] + Window

(* A promise outlasts the window of the oldest attempt of a full deque.    *)
PromiseInv ==
    \A k \in Caller :
      promise[k] # -1 /\ Len(attempts[k]) = MaxAttempts =>
        promise[k] >= attempts[k][1] + Window

LimiterInv == LimiterTypeOK /\ DequeInv /\ SpacedInv /\ PromiseInv

(* A set of naturals has a least element.                                  *)
LEMMA LeastNat ==
    ASSUME NEW S \in SUBSET Nat, S # {}
    PROVE  \E m \in S : \A i \in S : m <= i
<1>1. IsWellFoundedOn(OpToRel(<, Nat), Nat)
  BY NatLessThanWellFounded
<1>2. PICK m \in S : \A i \in S : ~(<<i, m>> \in OpToRel(<, Nat))
  BY <1>1, WFMin
<1>3. \A i \in S : ~(i < m)
  BY <1>2 DEF OpToRel
<1> QED BY <1>3

(* `q` is the deque `a` without its first `n` attempts, which have expired. *)
Shortened(q, a, n) ==
    /\ n \in 0..Len(a)
    /\ q \in Seq(Time) /\ Len(q) = Len(a) - n
    /\ \A i \in 1..(Len(a) - n) : q[i] = a[n + i]
    /\ \A i \in 1..n : now - a[i] >= Window

(* The loop over popleft() takes the expired attempts, and stops at one    *)
(* that has not expired.                                                   *)
LEMMA DropExpiredIs ==
    ASSUME NEW q \in Seq(Time)
    PROVE  \E n \in 0..Len(q) :
             /\ Shortened(DropExpired(q), q, n)
             /\ n < Len(q) => ~(now - q[n + 1] >= Window)
<1> DEFINE S == {i \in DOMAIN q : ~Expired(q[i])} \cup {Len(q) + 1}
           first == Min(S)
<1>1. DOMAIN q = 1..Len(q) /\ Len(q) \in Nat
  OBVIOUS
<1>2. S \in SUBSET Nat /\ S # {}
  BY <1>1
<1>3. \E m \in S : \A i \in S : m <= i
  BY <1>2, LeastNat
<1>4. first \in S /\ \A i \in S : first <= i
  BY <1>3 DEF Min
<1>5. DropExpired(q) = SubSeq(q, first, Len(q))
  BY DEF DropExpired
<1>6. first \in 1..(Len(q) + 1) /\ (first <= Len(q) => ~Expired(q[first]))
  BY <1>1, <1>4
<1>7. \A i \in 1..(first - 1) : Expired(q[i])
  <2> HIDE DEF first
  <2> SUFFICES ASSUME NEW i \in 1..(first - 1), ~Expired(q[i]) PROVE FALSE
    OBVIOUS
  <2>1. i \in DOMAIN q /\ ~(first <= i)
    BY <1>1, <1>6
  <2> QED BY <1>4, <2>1
<1> HIDE DEF S, first
<1> DEFINE n == first - 1
           r == SubSeq(q, first, Len(q))
<1>8. /\ r \in Seq(Time)
      /\ Len(r) = IF first <= Len(q) THEN Len(q) - first + 1 ELSE 0
      /\ \A i \in 1..(Len(q) - first + 1) : r[i] = q[first + i - 1]
  <2>1. first \in Int /\ Len(q) \in Int /\ \A i \in first..Len(q) : q[i] \in Time
    BY <1>1, <1>6
  <2> QED BY <2>1, SubSeqProperties
<1>9. n \in 0..Len(q) /\ Len(q) - first + 1 = Len(q) - n /\ first = n + 1
  BY <1>1, <1>6
<1> HIDE DEF r
<1>10. Len(r) = Len(q) - n
  BY <1>1, <1>6, <1>8, <1>9
<1>11. \A i \in 1..(Len(q) - n) : r[i] = q[n + i]
  <2> SUFFICES ASSUME NEW i \in 1..(Len(q) - n) PROVE r[i] = q[n + i]
    OBVIOUS
  <2>1. first + i - 1 = n + i /\ i \in 1..(Len(q) - first + 1)
    BY <1>1, <1>6, <1>9
  <2> QED BY <1>8, <2>1
<1>12. DropExpired(q) = r
  BY <1>5 DEF r
<1> HIDE DEF n
<1>13. Shortened(DropExpired(q), q, n)
  BY <1>7, <1>8, <1>9, <1>10, <1>11, <1>12 DEF Shortened, n, Expired
<1>14. n < Len(q) => ~(now - q[n + 1] >= Window)
  BY <1>1, <1>6, <1>9 DEF Expired
<1> QED BY <1>9, <1>13, <1>14

(* The types of one key, and its deque in order.                           *)
LEMMA KeyAt ==
    ASSUME LimiterAssumption, LimiterInv, NEW k \in Caller
    PROVE  /\ attempts[k] \in Seq(Time) /\ granted[k] \in Seq(Time)
           /\ Len(attempts[k]) \in Nat /\ Len(granted[k]) \in Nat
           /\ DOMAIN attempts[k] = 1..Len(attempts[k])
           /\ DOMAIN granted[k] = 1..Len(granted[k])
           /\ Len(attempts[k]) <= MaxAttempts /\ Len(attempts[k]) <= Len(granted[k])
           /\ promise[k] \in Int /\ now \in Time
           /\ \A i \in DOMAIN granted[k] : granted[k][i] \in Int
           /\ \A i \in 1..Len(attempts[k]) : attempts[k][i] \in Int /\ attempts[k][i] <= now
           /\ \A i, j \in 1..Len(attempts[k]) : i <= j => attempts[k][i] <= attempts[k][j]
<1>1. /\ attempts[k] \in Seq(Time) /\ granted[k] \in Seq(Time)
      /\ Len(attempts[k]) <= MaxAttempts /\ promise[k] \in Int /\ now \in Time
  BY DEF LimiterInv, LimiterTypeOK
<1>2. /\ Len(attempts[k]) \in Nat /\ Len(granted[k]) \in Nat
      /\ DOMAIN attempts[k] = 1..Len(attempts[k])
      /\ DOMAIN granted[k] = 1..Len(granted[k])
  BY <1>1
<1>3. /\ Len(attempts[k]) <= Len(granted[k])
      /\ \A i \in 1..Len(attempts[k]) : attempts[k][i] = granted[k][Skipped(k) + i]
  BY DEF LimiterInv, DequeInv
<1>4. Skipped(k) \in Nat /\ Skipped(k) + Len(attempts[k]) = Len(granted[k])
  BY <1>2, <1>3 DEF Skipped
<1>5. \A i \in 1..Len(attempts[k]) : Skipped(k) + i \in DOMAIN granted[k]
  BY <1>2, <1>4
<1>8. \A i \in DOMAIN granted[k] : granted[k][i] \in Int
  <2>1. \A i \in DOMAIN granted[k] : granted[k][i] \in Time
    BY <1>1, <1>2
  <2>2. \A t \in Time : t \in Int
    BY DEF Time, LimiterAssumption
  <2> QED BY <2>1, <2>2
<1>6. \A i \in 1..Len(attempts[k]) : attempts[k][i] \in Int /\ attempts[k][i] <= now
  <2>1. \A i \in DOMAIN granted[k] : granted[k][i] <= now
    BY DEF LimiterInv, SpacedInv
  <2> QED BY <1>3, <1>5, <1>8, <2>1
<1>7. ASSUME NEW i \in 1..Len(attempts[k]), NEW j \in 1..Len(attempts[k]), i <= j
      PROVE  attempts[k][i] <= attempts[k][j]
  <2>1. Skipped(k) + i <= Skipped(k) + j
    BY <1>2, <1>4, <1>7
  <2>2. granted[k][Skipped(k) + i] <= granted[k][Skipped(k) + j]
    BY <1>5, <2>1 DEF LimiterInv, SpacedInv
  <2> QED BY <1>3, <2>2
<1> QED BY <1>1, <1>2, <1>3, <1>6, <1>7, <1>8

(* purge_stale_keys() takes a whole deque or nothing of it: when its last  *)
(* attempt has expired they all have.                                      *)
LEMMA PurgedIs ==
    ASSUME LimiterAssumption, LimiterInv, NEW k \in Caller
    PROVE  \E n \in 0..Len(attempts[k]) : Shortened(Purged(k), attempts[k], n)
<1> DEFINE a == attempts[k]
<1>1. /\ a \in Seq(Time) /\ Len(a) \in Nat /\ now \in Int
      /\ \A i \in 1..Len(a) : a[i] \in Int
      /\ \A i, j \in 1..Len(a) : i <= j => a[i] <= a[j]
  BY KeyAt DEF Time
<1> HIDE DEF a
<1>2. CASE a # <<>> /\ Expired(Last(a))
  <2>1. Purged(k) = <<>>
    BY <1>2 DEF Purged, a
  <2>2. Len(a) \in 1..Len(a) /\ now - a[Len(a)] >= Window
    BY <1>1, <1>2, EmptySeq DEF Expired, Last
  <2>3. \A i \in 1..Len(a) : now - a[i] >= Window
    <3> SUFFICES ASSUME NEW i \in 1..Len(a) PROVE now - a[i] >= Window
      OBVIOUS
    <3>1. a[i] <= a[Len(a)] /\ a[i] \in Int /\ a[Len(a)] \in Int
      BY <1>1, <2>2
    <3> QED BY <1>1, <2>2, <3>1 DEF LimiterAssumption
  <2>4. Purged(k) \in Seq(Time) /\ Len(Purged(k)) = 0
    BY <2>1, EmptySeq
  <2>5. Shortened(Purged(k), a, Len(a))
    BY <1>1, <2>3, <2>4 DEF Shortened
  <2> QED BY <1>1, <2>5 DEF a
<1>3. CASE ~(a # <<>> /\ Expired(Last(a)))
  <2>1. Purged(k) = a
    BY <1>3 DEF Purged, a
  <2>2. Shortened(Purged(k), a, 0)
    BY <1>1, <2>1 DEF Shortened
  <2> QED BY <1>1, <2>2 DEF a
<1> QED BY <1>2, <1>3

LEMMA CurrentIs ==
    ASSUME LimiterAssumption, LimiterInv, NEW k \in Caller
    PROVE  \E n \in 0..Len(attempts[k]) :
             /\ Shortened(Current(k), attempts[k], n)
             /\ n < Len(attempts[k]) => ~(now - attempts[k][n + 1] >= Window)
<1> DEFINE a == attempts[k]
           p == Purged(k)
           c == Current(k)
<1>1. PICK m \in 0..Len(a) : Shortened(p, a, m)
  BY PurgedIs
<1>2. Len(a) \in Nat
  BY KeyAt
<1>3. PICK n \in 0..Len(p) :
        /\ Shortened(c, p, n)
        /\ n < Len(p) => ~(now - p[n + 1] >= Window)
  BY <1>1, DropExpiredIs DEF Shortened, Current
<1> HIDE DEF a, p, c
<1>4. /\ Len(p) = Len(a) - m /\ Len(c) = Len(p) - n /\ c \in Seq(Time)
      /\ \A i \in 1..(Len(a) - m) : p[i] = a[m + i]
      /\ \A i \in 1..(Len(p) - n) : c[i] = p[n + i]
      /\ \A i \in 1..m : now - a[i] >= Window
      /\ \A i \in 1..n : now - p[i] >= Window
  <2>1. /\ Len(p) = Len(a) - m /\ \A i \in 1..(Len(a) - m) : p[i] = a[m + i]
        /\ \A i \in 1..m : now - a[i] >= Window
    BY <1>1 DEF Shortened
  <2>2. /\ Len(c) = Len(p) - n /\ c \in Seq(Time)
        /\ \A i \in 1..(Len(p) - n) : c[i] = p[n + i]
        /\ \A i \in 1..n : now - p[i] >= Window
    BY <1>3 DEF Shortened
  <2> QED BY <2>1, <2>2
<1>5. m \in Nat /\ n \in Nat /\ m + n \in 0..Len(a) /\ Len(c) = Len(a) - (m + n)
  BY <1>1, <1>2, <1>3, <1>4
<1>6. ASSUME NEW i \in 1..(Len(a) - (m + n)) PROVE c[i] = a[(m + n) + i]
  <2>1. i \in 1..(Len(p) - n) /\ n + i \in 1..(Len(a) - m) /\ m + (n + i) = (m + n) + i
    BY <1>2, <1>4, <1>5
  <2> QED BY <1>4, <2>1
<1>7. ASSUME NEW i \in 1..(m + n) PROVE now - a[i] >= Window
  <2>1. CASE i <= m
    BY <1>4, <1>5, <2>1
  <2>2. CASE ~(i <= m)
    <3>1. i - m \in 1..n /\ i - m \in 1..(Len(a) - m) /\ m + (i - m) = i
      BY <1>2, <1>5, <2>2
    <3> QED BY <1>4, <3>1
  <2> QED BY <2>1, <2>2
<1>8. ASSUME m + n < Len(a) PROVE ~(now - a[(m + n) + 1] >= Window)
  <2>1. n < Len(p) /\ n + 1 \in 1..(Len(a) - m) /\ m + (n + 1) = (m + n) + 1
    BY <1>2, <1>4, <1>5, <1>8
  <2>2. p[n + 1] = a[m + (n + 1)]
    BY <1>4, <2>1
  <2>3. p[n + 1] = a[(m + n) + 1]
    BY <2>1, <2>2
  <2>4. ~(now - p[n + 1] >= Window)
    BY <1>3, <2>1
  <2> QED BY <2>3, <2>4
<1>9. Shortened(c, a, m + n)
  BY <1>4, <1>5, <1>6, <1>7 DEF Shortened
<1> QED BY <1>5, <1>8, <1>9 DEF a, c

(* What the conjuncts of LimiterInv say of one key.                        *)
KeyInv(k) ==
    /\ Len(attempts[k]) <= MaxAttempts
    /\ Len(attempts[k]) <= Len(granted[k])
    /\ \A i \in 1..Len(attempts[k]) : attempts[k][i] = granted[k][Skipped(k) + i]
    /\ \A i \in 1..Skipped(k) : now - granted[k][i] >= Window
    /\ \A i \in DOMAIN granted[k] : granted[k][i] <= now
    /\ \A i, j \in DOMAIN granted[k] : i <= j => granted[k][i] <= granted[k][j]
    /\ \A i, j \in DOMAIN granted[k] :
         j = i + MaxAttempts => granted[k][j] >= granted[k][i] + Window
    /\ promise[k] # -1 /\ Len(attempts[k]) = MaxAttempts =>
         promise[k] >= attempts[k][1] + Window

LEMMA KeyInvs ==
    LimiterInv <=> /\ now \in Time
                   /\ attempts \in [Caller -> Seq(Time)]
                   /\ granted \in [Caller -> Seq(Time)]
                   /\ promise \in [Caller -> Int]
                   /\ \A k \in Caller : KeyInv(k)
BY DEF LimiterInv, LimiterTypeOK, DequeInv, SpacedInv, PromiseInv, KeyInv

LEMMA KeyInvsNext ==
    ASSUME (now \in Time)', attempts' \in [Caller -> Seq(Time)],
           granted' \in [Caller -> Seq(Time)], promise' \in [Caller -> Int],
           \A k \in Caller : KeyInv(k)'
    PROVE  LimiterInv'
BY DEF LimiterInv, LimiterTypeOK, DequeInv, SpacedInv, PromiseInv, KeyInv, Skipped

(* A key whose deque has only been shortened keeps its invariant, with a   *)
(* promise that is -1, the old one, or long enough.                        *)
LEMMA ShortenedKeeps ==
    ASSUME LimiterAssumption, LimiterInv, NEW k \in Caller, NEW n \in 0..Len(attempts[k]),
           Shortened(attempts'[k], attempts[k], n),
           now' = now, granted'[k] = granted[k],
           \/ promise'[k] \in {-1, promise[k]}
           \/ Len(attempts'[k]) = MaxAttempts /\ promise'[k] >= attempts'[k][1] + Window
           \/ Len(attempts'[k]) # MaxAttempts
    PROVE  KeyInv(k)'
<1> DEFINE a == attempts[k]
           b == attempts'[k]
           g == granted[k]
           s == Len(g) - Len(a)
<1>1. KeyInv(k)
  BY KeyInvs
<1>2. /\ Len(a) \in Nat /\ Len(g) \in Nat /\ Len(a) <= Len(g) /\ Len(a) <= MaxAttempts
      /\ MaxAttempts \in Nat \ {0}
  BY KeyAt DEF LimiterAssumption
<1>3. /\ Len(b) = Len(a) - n /\ \A i \in 1..(Len(a) - n) : b[i] = a[n + i]
      /\ \A i \in 1..n : now - a[i] >= Window
  BY DEF Shortened
<1>4. /\ \A i \in 1..Len(a) : a[i] = g[s + i]
      /\ \A i \in 1..s : now - g[i] >= Window
  BY <1>1 DEF KeyInv, Skipped
<1>5. Skipped(k)' = s + n /\ Len(g) - Len(b) = s + n
  BY <1>2, <1>3 DEF Skipped
<1>6. Len(b) <= Len(a) /\ Len(b) \in Nat /\ s \in Nat
  BY <1>2, <1>3
<1> HIDE DEF a, b, g, s
<1>7. ASSUME NEW i \in 1..Len(b) PROVE b[i] = g[(s + n) + i]
  <2>1. i \in 1..(Len(a) - n) /\ n + i \in 1..Len(a) /\ s + (n + i) = (s + n) + i
    BY <1>2, <1>3, <1>6
  <2> QED BY <1>3, <1>4, <2>1
<1>8. ASSUME NEW i \in 1..(s + n) PROVE now - g[i] >= Window
  <2>1. CASE i <= s
    BY <1>4, <1>6, <2>1
  <2>2. CASE ~(i <= s)
    <3>1. i - s \in 1..n /\ i - s \in 1..Len(a) /\ s + (i - s) = i
      BY <1>2, <1>6, <2>2 DEF a
    <3> QED BY <1>3, <1>4, <3>1
  <2> QED BY <2>1, <2>2
<1>9. ASSUME Len(b) = MaxAttempts, promise'[k] = promise[k], promise[k] # -1
      PROVE  promise'[k] >= b[1] + Window
  <2>1. n = 0 /\ Len(a) = MaxAttempts /\ 1 \in 1..(Len(a) - n) /\ n + 1 = 1
    BY <1>2, <1>3, <1>9 DEF a
  <2>2. b[1] = a[1]
    BY <1>3, <2>1
  <2>3. promise[k] >= a[1] + Window
    BY <1>1, <1>9, <2>1 DEF KeyInv, a
  <2> QED BY <1>9, <2>2, <2>3
<1>10. promise'[k] # -1 /\ Len(b) = MaxAttempts => promise'[k] >= b[1] + Window
  BY <1>9 DEF b
<1>11. Len(b) <= MaxAttempts /\ Len(b) <= Len(g)
  BY <1>2, <1>6
<1>12. granted'[k] = g /\ attempts'[k] = b
  BY DEF g, b
<1>13. /\ \A i \in 1..Len(b) : b[i] = g[Skipped(k)' + i]
       /\ \A i \in 1..Skipped(k)' : now' - g[i] >= Window
  BY <1>5, <1>7, <1>8
<1>14. /\ \A i \in DOMAIN g : g[i] <= now'
       /\ \A i, j \in DOMAIN g : i <= j => g[i] <= g[j]
       /\ \A i, j \in DOMAIN g : j = i + MaxAttempts => g[j] >= g[i] + Window
  BY <1>1 DEF KeyInv, g
<1> QED BY <1>10, <1>11, <1>12, <1>13, <1>14 DEF KeyInv

(* The whole seconds of Retry-After are not less than what remains.        *)
LEMMA RetryAfterEnough ==
    ASSUME LimiterAssumption, NEW deque \in Seq(Time), deque # <<>>, now \in Time,
           deque[1] <= now, now - deque[1] < Window
    PROVE  /\ RetryAfter(deque) \in Nat
           /\ now + Second * RetryAfter(deque) >= deque[1] + Window
<1> DEFINE h == deque[1]
           r == Window - (now - h)
           x == (r + Second - 1) \div Second
           S == {1, x}
           top == Max(S)
<1>1. h \in Int /\ now \in Int /\ Head(deque) = h
  <2>1. Len(deque) \in Nat \ {0} /\ Head(deque) = deque[1]
    BY EmptySeq
  <2>2. h \in Time
    BY <2>1
  <2> QED BY <2>1, <2>2 DEF Time, LimiterAssumption
<1>2. r \in Nat \ {0} /\ now + r = h + Window /\ Second \in Nat \ {0}
  BY <1>1 DEF LimiterAssumption
<1>3. RetryAfter(deque) = top
  BY <1>1 DEF RetryAfter
<1> HIDE DEF h, r
<1>4. r + Second - 1 \in Nat
  BY <1>2
<1>5. x \in Nat /\ Second * x >= r
  <2> DEFINE e == r + Second - 1
  <2>1. e \in Nat /\ r = e - Second + 1
    BY <1>2, <1>4
  <2> HIDE DEF e
  <2>2. e \div Second \in Nat /\ Second * (e \div Second) > e - Second
    BY <1>2, <2>1
  <2> QED BY <1>2, <2>1, <2>2 DEF e
<1> HIDE DEF x
<1>6. \E m \in S : \A i \in S : m >= i
  BY <1>5
<1>7. top \in S /\ \A i \in S : top >= i
  BY <1>6 DEF Max
<1> HIDE DEF top
<1>8. top \in Nat /\ top >= x
  BY <1>5, <1>7
<1> HIDE DEF S
<1>9. Second * top >= Second * x
  BY <1>2, <1>5, <1>8
<1>10. Second * top \in Int /\ Second * x \in Int
  BY <1>2, <1>5, <1>8
<1>11. now + Second * top >= h + Window
  BY <1>1, <1>2, <1>5, <1>9, <1>10
<1> QED BY <1>3, <1>8, <1>11 DEF h

LEMMA LimiterInitInv == ASSUME LimiterAssumption, LimiterInit PROVE LimiterInv
<1> USE DEF LimiterInit
<1>1. now \in Time
  BY DEF Time, LimiterAssumption
<1>2. <<>> \in Seq(Time) /\ Len(<<>>) = 0 /\ DOMAIN <<>> = {}
  BY EmptySeq
<1>3. /\ attempts \in [Caller -> Seq(Time)] /\ granted \in [Caller -> Seq(Time)]
      /\ promise \in [Caller -> Int]
  BY <1>2
<1>4. ASSUME NEW k \in Caller PROVE KeyInv(k)
  <2>1. attempts[k] = <<>> /\ granted[k] = <<>> /\ promise[k] = -1
    OBVIOUS
  <2>2. Skipped(k) = 0
    BY <1>2, <2>1 DEF Skipped
  <2> QED BY <1>2, <2>1, <2>2 DEF KeyInv, LimiterAssumption
<1> QED BY <1>1, <1>3, <1>4, KeyInvs

(* Time passes: what has expired stays expired.                            *)
LEMMA TickKeeps == ASSUME LimiterAssumption, LimiterInv, Tick PROVE LimiterInv'
<1>1. now' = now + 1 /\ now \in Nat /\ now' \in Time
      /\ UNCHANGED <<attempts, granted, promise>> /\ Window \in Nat
  BY KeyInvs DEF Tick, Time, LimiterAssumption
<1>2. ASSUME NEW k \in Caller PROVE KeyInv(k)'
  <2>1. KeyInv(k) /\ DOMAIN granted[k] = 1..Len(granted[k])
        /\ Skipped(k) \in Nat /\ Skipped(k) <= Len(granted[k])
    BY KeyInvs, KeyAt DEF Skipped
  <2>2. \A i \in DOMAIN granted[k] : granted[k][i] \in Int
    BY KeyAt
  <2>3. \A i \in 1..Skipped(k) : now' - granted[k][i] >= Window
    <3> SUFFICES ASSUME NEW i \in 1..Skipped(k) PROVE now' - granted[k][i] >= Window
      OBVIOUS
    <3>1. granted[k][i] \in Int /\ now - granted[k][i] >= Window
      BY <2>1, <2>2, KeyAt DEF KeyInv
    <3> QED BY <1>1, <3>1
  <2>4. \A i \in DOMAIN granted[k] : granted[k][i] <= now'
    BY <1>1, <2>1, <2>2 DEF KeyInv
  <2>5. Skipped(k)' = Skipped(k)
    BY <1>1 DEF Skipped
  <2> QED BY <1>1, <2>1, <2>3, <2>4, <2>5 DEF KeyInv
<1>3. /\ attempts' \in [Caller -> Seq(Time)] /\ granted' \in [Caller -> Seq(Time)]
      /\ promise' \in [Caller -> Int]
  BY <1>1, KeyInvs
<1>4. (now \in Time)' /\ \A k \in Caller : KeyInv(k)'
  BY <1>1, <1>2
<1> QED BY <1>3, <1>4, KeyInvsNext

(* An attempt is let through: it comes a window after the one that is      *)
(* MaxAttempts before it, because that one is no longer in the deque.      *)
LEMMA GrantedKeeps ==
    ASSUME LimiterAssumption, LimiterInv, NEW k \in Caller,
           Len(Current(k)) < MaxAttempts, now' = now,
           attempts'[k] = Append(Current(k), now),
           granted'[k] = Append(granted[k], now), promise'[k] = -1
    PROVE  KeyInv(k)'
<1> DEFINE a == attempts[k]
           c == Current(k)
           g == granted[k]
           s == Len(g) - Len(a)
           b == attempts'[k]
           f == granted'[k]
<1>1. PICK n \in 0..Len(a) : Shortened(c, a, n)
  BY CurrentIs
<1>2. /\ Len(a) \in Nat /\ Len(g) \in Nat /\ Len(a) <= Len(g) /\ now \in Time
      /\ MaxAttempts \in Nat \ {0} /\ now \in Int /\ Window \in Nat
      /\ DOMAIN g = 1..Len(g) /\ \A i \in DOMAIN g : g[i] \in Int
  BY KeyAt DEF LimiterAssumption, Time
<1>3. /\ c \in Seq(Time) /\ Len(c) = Len(a) - n /\ Len(c) < MaxAttempts
      /\ \A i \in 1..(Len(a) - n) : c[i] = a[n + i]
      /\ \A i \in 1..n : now - a[i] >= Window
  BY <1>1 DEF Shortened
<1>4. /\ \A i \in 1..Len(a) : a[i] = g[s + i]
      /\ \A i \in 1..s : now - g[i] >= Window
      /\ \A i \in DOMAIN g : g[i] <= now
      /\ \A i, j \in DOMAIN g : i <= j => g[i] <= g[j]
      /\ \A i, j \in DOMAIN g : j = i + MaxAttempts => g[j] >= g[i] + Window
  BY KeyInvs DEF KeyInv, Skipped
<1>5. /\ Len(b) = Len(c) + 1 /\ b[Len(c) + 1] = now
      /\ \A i \in 1..Len(c) : b[i] = c[i]
  <2>1. b = Append(c, now)
    OBVIOUS
  <2>2. c \in Seq(Time) /\ now \in Time
    BY <1>2, <1>3
  <2>3. /\ Len(Append(c, now)) = Len(c) + 1 /\ Append(c, now)[Len(c) + 1] = now
        /\ \A i \in 1..Len(c) : Append(c, now)[i] = c[i]
    BY <2>2, AppendProperties
  <2> QED BY <2>1, <2>3
<1>6. /\ Len(f) = Len(g) + 1 /\ f[Len(g) + 1] = now
      /\ \A i \in 1..Len(g) : f[i] = g[i] /\ DOMAIN f = 1..(Len(g) + 1)
  <2>1. g \in Seq(Time)
    BY KeyAt
  <2> QED BY <1>2, <2>1
<1>7. DOMAIN f = 1..(Len(g) + 1)
  <2>1. g \in Seq(Time)
    BY KeyAt
  <2> QED BY <1>2, <2>1
<1>8. Skipped(k)' = s + n
  BY <1>2, <1>3, <1>5, <1>6 DEF Skipped
<1> HIDE DEF a, b, c, f, g, s
<1>9. Len(c) \in Nat /\ s \in Nat /\ s + n + Len(c) = Len(g) /\ s + Len(a) = Len(g)
      /\ Len(b) <= MaxAttempts /\ Len(b) <= Len(f)
      /\ n \in Nat /\ n <= Len(a) /\ Len(a) \in Nat /\ Len(g) \in Nat
  BY <1>2, <1>3, <1>5, <1>6 DEF s
<1>10. \A i \in 1..(s + n) : now - g[i] >= Window /\ f[i] = g[i] /\ i \in DOMAIN g
  <2> SUFFICES ASSUME NEW i \in 1..(s + n)
               PROVE  now - g[i] >= Window /\ f[i] = g[i] /\ i \in DOMAIN g
    OBVIOUS
  <2>1. i \in 1..Len(g)
    BY <1>2, <1>9
  <2>2. CASE i <= s
    BY <1>2, <1>4, <1>6, <1>9, <2>1, <2>2
  <2>3. CASE ~(i <= s)
    <3>1. i - s \in 1..n /\ i - s \in 1..Len(a) /\ s + (i - s) = i
      BY <1>9, <2>3
    <3> QED BY <1>2, <1>3, <1>4, <1>6, <2>1, <3>1
  <2> QED BY <2>2, <2>3
<1>11. \A i \in 1..Len(b) : b[i] = f[(s + n) + i]
  <2> SUFFICES ASSUME NEW i \in 1..Len(b) PROVE b[i] = f[(s + n) + i]
    OBVIOUS
  <2>1. CASE i = Len(c) + 1
    <3>1. (s + n) + i = Len(g) + 1
      <4>1. s \in Nat /\ n \in Nat /\ Len(c) \in Nat
        BY <1>9
      <4>2. s + n + Len(c) = Len(g)
        BY <1>9
      <4>3. (s + n) + (Len(c) + 1) = (s + n + Len(c)) + 1
        BY <4>1
      <4> QED BY <2>1, <4>2, <4>3
    <3> QED BY <1>5, <1>6, <2>1, <3>1
  <2>2. CASE i # Len(c) + 1
    <3>1. /\ i \in 1..Len(c) /\ i \in 1..(Len(a) - n) /\ n + i \in 1..Len(a)
          /\ s + (n + i) = (s + n) + i /\ (s + n) + i \in 1..Len(g)
      <4>1. /\ s \in Nat /\ n \in Nat /\ Len(c) \in Nat /\ Len(a) \in Nat /\ Len(g) \in Nat
            /\ s + n + Len(c) = Len(g) /\ s + Len(a) = Len(g) /\ Len(b) = Len(c) + 1
        BY <1>5, <1>9
      <4>2. i \in 1..Len(c) /\ i \in Nat
        BY <2>2, <4>1
      <4>3. Len(c) = Len(a) - n
        BY <4>1
      <4>4. i \in 1..(Len(a) - n)
        BY <4>2, <4>3
      <4>5. n + i \in 1..Len(a) /\ s + (n + i) = (s + n) + i
        BY <4>1, <4>2
      <4>6. (s + n) + i \in 1..Len(g)
        BY <4>1, <4>2
      <4> QED BY <4>2, <4>4, <4>5, <4>6
    <3>2. b[i] = a[n + i] /\ a[n + i] = g[s + (n + i)]
      BY <1>3, <1>4, <1>5, <3>1
    <3> QED BY <1>6, <3>1, <3>2
  <2> QED BY <2>1, <2>2
<1>12. \A i \in DOMAIN f : f[i] <= now
  <2> SUFFICES ASSUME NEW i \in DOMAIN f PROVE f[i] <= now
    OBVIOUS
  <2>1. i = Len(g) + 1 \/ i \in 1..Len(g)
    BY <1>2, <1>7
  <2> QED BY <1>2, <1>4, <1>6, <2>1
<1>13. \A i, j \in DOMAIN f : i <= j => f[i] <= f[j]
  <2> SUFFICES ASSUME NEW i \in DOMAIN f, NEW j \in DOMAIN f, i <= j PROVE f[i] <= f[j]
    OBVIOUS
  <2>1. CASE j = Len(g) + 1
    BY <1>6, <1>12, <2>1
  <2>2. CASE j # Len(g) + 1
    <3>1. i \in 1..Len(g) /\ j \in 1..Len(g)
      BY <1>2, <1>7, <2>2
    <3> QED BY <1>2, <1>4, <1>6, <3>1
  <2> QED BY <2>1, <2>2
<1>14. \A i, j \in DOMAIN f : j = i + MaxAttempts => f[j] >= f[i] + Window
  <2> SUFFICES ASSUME NEW i \in DOMAIN f, NEW j \in DOMAIN f, j = i + MaxAttempts
               PROVE  f[j] >= f[i] + Window
    OBVIOUS
  <2>1. CASE j = Len(g) + 1
    <3>1. i \in 1..(s + n)
      <4>1. i \in Nat \ {0} /\ i + MaxAttempts = Len(g) + 1
        BY <1>2, <1>7, <2>1
      <4>2. /\ s \in Nat /\ n \in Nat /\ Len(c) \in Nat /\ Len(g) \in Nat
            /\ s + n + Len(c) = Len(g)
        BY <1>9
      <4>3. Len(c) < MaxAttempts /\ MaxAttempts \in Nat
        BY <1>2, <1>3
      <4>4. i <= s + n
        BY <4>1, <4>2, <4>3
      <4> QED BY <4>1, <4>2, <4>4
    <3>2. f[j] = now /\ now - g[i] >= Window /\ f[i] = g[i] /\ g[i] \in Int
      BY <1>2, <1>6, <1>10, <2>1, <3>1
    <3> QED BY <1>2, <3>2
  <2>2. CASE j # Len(g) + 1
    <3>1. i \in 1..Len(g) /\ j \in 1..Len(g)
      BY <1>2, <1>7, <2>2
    <3> QED BY <1>2, <1>4, <1>6, <3>1
  <2> QED BY <2>1, <2>2
<1>15. \A i \in 1..(s + n) : now' - f[i] >= Window
  BY <1>10
<1>16. attempts'[k] = b /\ granted'[k] = f
  BY DEF b, f
<1> QED BY <1>8, <1>9, <1>11, <1>12, <1>13, <1>14, <1>15, <1>16 DEF KeyInv

(* allow(): the deque of the key, and those that purge_stale_keys() drops. *)
LEMMA AllowKeeps ==
    ASSUME LimiterAssumption, LimiterInv, NEW k \in Caller, Allow(k)
    PROVE  LimiterInv'
<1> DEFINE c == Current(k)
           refused == Len(c) >= MaxAttempts
<1>1. /\ now' = now
      /\ \A o \in Caller \ {k} : /\ attempts'[o] = Purged(o) /\ granted'[o] = granted[o]
                                  /\ promise'[o] = promise[o]
  BY KeyInvs DEF Allow
<1>2. PICK n \in 0..Len(attempts[k]) :
        /\ Shortened(c, attempts[k], n)
        /\ n < Len(attempts[k]) => ~(now - attempts[k][n + 1] >= Window)
  BY CurrentIs
<1>3. c \in Seq(Time) /\ Len(c) \in Nat /\ now \in Time
  BY <1>2, KeyInvs DEF Shortened
<1>4. ASSUME NEW o \in Caller \ {k} PROVE KeyInv(o)' /\ Purged(o) \in Seq(Time)
  <2>1. PICK m \in 0..Len(attempts[o]) : Shortened(Purged(o), attempts[o], m)
    BY PurgedIs
  <2>2. KeyInv(o)'
    BY <1>1, <2>1, ShortenedKeeps
  <2> QED BY <2>1, <2>2 DEF Shortened
<1>5. CASE refused
  <2>1. /\ attempts' = [[o \in Caller |-> Purged(o)] EXCEPT ![k] = c]
        /\ promise' = [promise EXCEPT ![k] = now + Second * RetryAfter(c)]
        /\ UNCHANGED <<now, granted>>
    BY <1>5 DEF Allow
  <2>2. attempts'[k] = c /\ promise'[k] = now + Second * RetryAfter(c)
    BY <2>1, KeyInvs
  <2>3. /\ Len(c) = Len(attempts[k]) - n /\ \A i \in 1..(Len(attempts[k]) - n) : c[i] = attempts[k][n + i]
    BY <1>2 DEF Shortened
  <2>4. /\ Len(attempts[k]) \in Nat /\ Len(attempts[k]) <= MaxAttempts
        /\ MaxAttempts \in Nat \ {0}
        /\ \A i \in 1..Len(attempts[k]) : attempts[k][i] \in Int /\ attempts[k][i] <= now
    BY KeyAt DEF LimiterAssumption
  <2> HIDE DEF c
  <2>5. n = 0 /\ Len(c) = MaxAttempts /\ 1 \in 1..Len(attempts[k]) /\ n + 1 = 1
    BY <1>3, <1>5, <2>3, <2>4
  <2>6. c[1] = attempts[k][1]
    BY <2>3, <2>5
  <2>7. c[1] \in Int /\ c[1] <= now /\ ~(now - c[1] >= Window)
    BY <1>2, <2>4, <2>5, <2>6
  <2>8. now - c[1] < Window /\ c # <<>>
    BY <1>3, <2>4, <2>5, <2>7, EmptySeq DEF Time, LimiterAssumption
  <2>9. RetryAfter(c) \in Nat /\ now + Second * RetryAfter(c) >= c[1] + Window
    BY <1>3, <2>7, <2>8, RetryAfterEnough
  <2>10. KeyInv(k)'
    BY <1>2, <2>1, <2>2, <2>5, <2>9, ShortenedKeeps DEF c
  <2>11. now + Second * RetryAfter(c) \in Int
    BY <1>3, <2>9 DEF Time, LimiterAssumption
  <2>12. /\ attempts' \in [Caller -> Seq(Time)] /\ granted' \in [Caller -> Seq(Time)]
         /\ promise' \in [Caller -> Int]
    BY <1>3, <1>4, <2>1, <2>11, KeyInvs
  <2>13. (now \in Time)' /\ \A o \in Caller : KeyInv(o)'
    BY <1>1, <1>3, <1>4, <2>10
  <2> QED BY <2>12, <2>13, KeyInvsNext
<1>6. CASE ~refused
  <2>1. /\ attempts' = [[o \in Caller |-> Purged(o)] EXCEPT ![k] = Append(c, now)]
        /\ granted' = [granted EXCEPT ![k] = Append(@, now)]
        /\ promise' = [promise EXCEPT ![k] = -1]
    BY <1>6 DEF Allow
  <2>2. /\ attempts'[k] = Append(c, now) /\ granted'[k] = Append(granted[k], now)
        /\ promise'[k] = -1
    BY <2>1, KeyInvs
  <2>3. Len(c) < MaxAttempts
    BY <1>3, <1>6 DEF LimiterAssumption
  <2>4. KeyInv(k)'
    BY <1>1, <2>2, <2>3, GrantedKeeps
  <2>5. Append(c, now) \in Seq(Time) /\ Append(granted[k], now) \in Seq(Time)
    BY <1>3, KeyAt
  <2>6. /\ attempts' \in [Caller -> Seq(Time)] /\ granted' \in [Caller -> Seq(Time)]
        /\ promise' \in [Caller -> Int]
    <3> HIDE DEF c
    <3> QED BY <1>4, <2>1, <2>5, KeyInvs
  <2>7. (now \in Time)' /\ \A o \in Caller : KeyInv(o)'
    BY <1>1, <1>3, <1>4, <2>4
  <2> QED BY <2>6, <2>7, KeyInvsNext
<1> QED BY <1>5, <1>6

LEMMA LimiterNextInv ==
    ASSUME LimiterAssumption, LimiterInv, [LimiterNext]_limiterVars
    PROVE  LimiterInv'
<1>1. CASE Tick
  BY <1>1, TickKeeps
<1>2. ASSUME NEW k \in Caller, Allow(k) PROVE LimiterInv'
  BY <1>2, AllowKeeps
<1>3. CASE UNCHANGED limiterVars
  BY <1>3 DEF limiterVars, LimiterInv, LimiterTypeOK, DequeInv, SpacedInv, PromiseInv, Skipped
<1> QED BY <1>1, <1>2, <1>3 DEF LimiterNext

(* Attempts a window apart: those of one window are consecutive, and the   *)
(* first and the last of them less than MaxAttempts apart.                 *)
LEMMA SpacedCounts == ASSUME LimiterAssumption, LimiterInv PROVE AtMostMax
<1> SUFFICES ASSUME NEW k \in Caller, NEW t \in Time
             PROVE  Cardinality({i \in DOMAIN granted[k] :
                                   t <= granted[k][i] /\ granted[k][i] < t + Window})
                      <= MaxAttempts
  BY DEF AtMostMax
<1> DEFINE g == granted[k]
           S == {i \in DOMAIN g : t <= g[i] /\ g[i] < t + Window}
<1>1. /\ DOMAIN g = 1..Len(g) /\ Len(g) \in Nat /\ g \in Seq(Time)
      /\ MaxAttempts \in Nat \ {0} /\ Window \in Nat /\ Horizon \in Nat
  BY KeyAt DEF LimiterAssumption
<1>2. \A i, j \in DOMAIN g : i <= j => g[i] <= g[j]
  BY DEF LimiterInv, SpacedInv
<1>3. \A i, j \in DOMAIN g : j = i + MaxAttempts => g[j] >= g[i] + Window
  BY DEF LimiterInv, SpacedInv
<1> HIDE DEF g
<1>4. \A i \in DOMAIN g : g[i] \in Int
  BY <1>1 DEF Time
<1>5. CASE S = {}
  <2>1. Cardinality(S) = 0
    BY <1>5, FS_EmptySet
  <2> QED BY <1>1, <2>1 DEF g
<1>6. CASE S # {}
  <2>1. S \in SUBSET Nat
    BY <1>1
  <2>2. PICK m \in S : \A i \in S : m <= i
    BY <1>6, <2>1, LeastNat
  <2> DEFINE top == m + MaxAttempts - 1
  <2>3. m \in Int /\ top \in Int /\ ~(m > top) /\ top - m + 1 = MaxAttempts
    BY <1>1, <2>1
  <2>4. ASSUME NEW i \in S PROVE i \in m..top
    <3>1. i \in DOMAIN g /\ m \in DOMAIN g /\ m <= i
      BY <2>2
    <3>2. ASSUME i >= m + MaxAttempts PROVE FALSE
      <4> DEFINE j == m + MaxAttempts
      <4>1. j \in DOMAIN g /\ j <= i
        BY <1>1, <3>1, <3>2
      <4>2. g[j] >= g[m] + Window /\ g[j] <= g[i]
        BY <1>2, <1>3, <3>1, <4>1
      <4>3. t <= g[m] /\ g[i] < t + Window /\ g[m] \in Int /\ g[i] \in Int /\ g[j] \in Int
        BY <1>4, <3>1, <4>1
      <4> QED BY <1>1, <4>2, <4>3 DEF Time
    <3> QED BY <1>1, <3>1, <3>2
  <2>5. IsFiniteSet(m..top) /\ Cardinality(m..top) = MaxAttempts
    BY <2>3, FS_Interval
  <2>6. S \in SUBSET (m..top)
    BY <2>4
  <2>7. Cardinality(S) <= Cardinality(m..top)
    BY <2>5, <2>6, FS_Subset
  <2> QED BY <2>5, <2>7 DEF g
<1> QED BY <1>5, <1>6

(* Once the promise is over, the oldest attempt of a full deque has        *)
(* expired: the deque is no longer full.                                   *)
LEMMA PromiseKept == ASSUME LimiterAssumption, LimiterInv PROVE RetryAfterHonest
<1> SUFFICES ASSUME NEW k \in Caller, promise[k] # -1, now >= promise[k],
                    ~(Len(Current(k)) < MaxAttempts)
             PROVE  FALSE
  BY DEF RetryAfterHonest
<1> DEFINE a == attempts[k]
<1>1. PICK n \in 0..Len(a) :
        /\ Shortened(Current(k), a, n)
        /\ n < Len(a) => ~(now - a[n + 1] >= Window)
  BY CurrentIs
<1>2. /\ Len(a) \in Nat /\ Len(a) <= MaxAttempts /\ MaxAttempts \in Nat \ {0}
      /\ promise[k] \in Int /\ now \in Int /\ Window \in Int
      /\ \A i \in 1..Len(a) : a[i] \in Int
  BY KeyAt DEF LimiterAssumption, Time
<1>3. Len(Current(k)) = Len(a) - n
  BY <1>1 DEF Shortened
<1> HIDE DEF a
<1>4. n = 0 /\ Len(a) = MaxAttempts /\ n < Len(a) /\ 1 \in 1..Len(a) /\ n + 1 = 1
  BY <1>2, <1>3
<1>5. promise[k] >= a[1] + Window
  BY <1>4 DEF LimiterInv, PromiseInv, a
<1>6. ~(now - a[1] >= Window) /\ a[1] \in Int
  BY <1>1, <1>2, <1>4
<1> QED BY <1>2, <1>5, <1>6

(* The invariant of RateLimiter.                                           *)
LEMMA LimiterInvariant == ASSUME LimiterAssumption PROVE LimiterSpec => []LimiterInv
<1>1. LimiterInit => LimiterInv
  BY LimiterInitInv
<1>2. LimiterInv /\ [LimiterNext]_limiterVars => LimiterInv'
  BY LimiterNextInv
<1> QED BY <1>1, <1>2, PTL DEF LimiterSpec

(* The quota of a key is kept over every window, and the Retry-After of a  *)
(* refusal is long enough (SlidingWindowRateLimiter.allow, retry_after).   *)
THEOREM QuotaKeptHolds == ASSUME LimiterAssumption PROVE LimiterSpec => []QuotaKept
<1>1. LimiterSpec => []LimiterInv
  BY LimiterInvariant
<1>2. LimiterInv => QuotaKept
  BY SpacedCounts, PromiseKept DEF QuotaKept
<1> QED BY <1>1, <1>2, PTL

USE ConstantsAssumption

-----------------------------------------------------------------------------
(* Ids *)

(* One more than the greatest of a set of ids is not in it.                *)
LEMMA NewIdIsNew ==
    ASSUME NEW n \in Nat, NEW S \in SUBSET (1..n)
    PROVE  1 + Max(S \cup {0}) \notin S
<1> DEFINE T == {n - i : i \in S \cup {0}}
<1>1. IsWellFoundedOn(OpToRel(<, Nat), Nat)
  BY NatLessThanWellFounded
<1>2. T \subseteq Nat /\ T # {}
  OBVIOUS
<1>3. PICK t \in T : \A u \in T : ~(<<u, t>> \in OpToRel(<, Nat))
  BY <1>1, <1>2, WFMin
<1>4. \A u \in T : ~(u < t)
  BY <1>2, <1>3 DEF OpToRel
<1>5. PICK m \in S \cup {0} : t = n - m
  OBVIOUS
<1>6. \A i \in S \cup {0} : m >= i
  BY <1>4, <1>5
<1> DEFINE top == Max(S \cup {0})
<1>7. top \in S \cup {0} /\ \A i \in S \cup {0} : top >= i
  BY <1>6 DEF Max
<1> HIDE DEF top
<1>8. top \in Int /\ \A i \in S : top >= i
  BY <1>7
<1>9. 1 + top \notin S
  BY <1>8
<1> QED BY <1>9 DEF top

(* The id given to a new row is one no row has.                            *)
LEMMA NewIds == NextUser \notin Users /\ NextKey \notin Keys
<1>1. Users \in SUBSET (1..MaxUsers) /\ Keys \in SUBSET (1..MaxKeys)
  BY DEF Users, Keys, UserId, KeyId
<1>2. 1 + Max(Users \cup {0}) \notin Users
  BY <1>1, NewIdIsNew
<1>3. 1 + Max(Keys \cup {0}) \notin Keys
  BY <1>1, NewIdIsNew
<1> QED BY <1>2, <1>3 DEF NextUser, NextKey

-----------------------------------------------------------------------------
(* Types *)

Kinds == {"login", "password", "reset", "create_user", "delete_user",
          "create_key", "revoke", "resolve"}
WellFormedOps == {o \in Operation : WellFormed(o)}

LEMMA OpTypes ==
    ASSUME TypeOK, NEW q \in Request, op[q] # None
    PROVE  /\ op[q] \in Operation /\ WellFormed(op[q])
           /\ op[q].kind \in Kinds /\ op[q].step \in {"user", "read", "save", "commit"}
           /\ op[q].actor \in UserId \cup {None}
           /\ op[q].target \in UserId \cup KeyId \cup {None}
           /\ op[q].entity \in UserRow \cup KeyRow \cup {None}
           /\ op[q].base \in UserRow \cup KeyRow \cup {None}
           /\ op[q].late \in BOOLEAN
<1>1. op[q] \in Operation /\ WellFormed(op[q])
  BY DEF TypeOK
<1> QED BY <1>1 DEF Operation, Kinds

(* A request that goes on, or ends, has an operation of the right form.    *)
LEMMA OperateTypes ==
    ASSUME TypeOK, NEW q \in Request, NEW kind \in Kinds,
           NEW step \in {"user", "read", "save", "commit"},
           NEW actor \in UserId \cup {None},
           NEW target \in UserId \cup KeyId \cup {None},
           NEW entity \in UserRow \cup KeyRow \cup {None},
           NEW base \in UserRow \cup KeyRow \cup {None},
           Operate(q, kind, step, actor, target, entity, base),
           kind \in SessionKinds => actor \in UserId,
           step = "user" => kind \in SessionKinds,
           step \in {"read", "save"} => kind \in UserKinds \cup KeyKinds,
           kind \in UserKinds \cup {"login", "delete_user"} /\ step # "user" =>
             target \in UserId,
           kind \in KeyKinds /\ step # "user" => target \in KeyId,
           kind = "login" => entity \in UserRow,
           step \in {"save", "commit"} =>
             /\ kind \in UserKinds => entity \in UserRow
             /\ kind \in KeyKinds => entity \in KeyRow,
           step = "commit" =>
             /\ kind \in UserKinds => base \in UserRow
             /\ kind \in KeyKinds => base \in KeyRow
    PROVE  op' \in [Request -> WellFormedOps \cup {None}]
<1> DEFINE o == [kind |-> kind, step |-> step, actor |-> actor, target |-> target,
                 entity |-> entity, base |-> base, late |-> FALSE]
<1>1. o \in Operation
  BY DEF Operation, Kinds
<1>2. WellFormed(o)
  BY DEF WellFormed
<1>3. op' = [op EXCEPT ![q] = o]
  BY DEF Operate
<1> HIDE DEF o
<1> QED BY <1>1, <1>2, <1>3 DEF TypeOK, WellFormedOps

LEMMA ReturnTypes ==
    ASSUME TypeOK, NEW q \in Request, Return(q)
    PROVE  op' \in [Request -> WellFormedOps \cup {None}]
BY DEF Return, TypeOK, WellFormedOps

(* A step that writes op alone.                                            *)
LEMMA OpOnly ==
    ASSUME TypeOK, op' \in [Request -> WellFormedOps \cup {None}],
           UNCHANGED <<users, sessions, keys, process>>, secrets' \in 0..MaxSecrets
    PROVE  TypeOK'
BY DEF TypeOK, WellFormedOps

LEMMA BeginTypes ==
    ASSUME TypeOK, NEW q \in Request, Login(q) \/ Authenticate(q) \/ Resolve(q)
    PROVE  TypeOK'
<1> USE DEF Kinds, UserKinds, KeyKinds, SessionKinds
<1>1. UNCHANGED <<users, sessions, keys, process>> /\ secrets' \in 0..MaxSecrets
  BY DEF Login, Authenticate, Resolve, TypeOK
<1>2. CASE Login(q)
  <2>1. PICK u \in Users : Operate(q, "login", "commit", None, u, users[u], None)
    BY <1>2 DEF Login
  <2>2. u \in UserId /\ users[u] \in UserRow
    BY DEF Users, TypeOK
  <2> QED BY <1>1, <2>1, <2>2, OperateTypes, OpOnly
<1>3. CASE Authenticate(q)
  <2>1. PICK s \in sessions, kind \in SessionKinds :
          Operate(q, kind, "user", s.user, None, None, None)
    BY <1>3 DEF Authenticate
  <2>2. s.user \in UserId
    BY DEF TypeOK, SessionRow
  <2> QED BY <1>1, <2>1, <2>2, OperateTypes, OpOnly
<1>4. CASE Resolve(q)
  <2>1. PICK k \in Keys : Operate(q, "resolve", "save", None, k, keys[k], None)
    BY <1>4 DEF Resolve
  <2>2. k \in KeyId /\ keys[k] \in KeyRow
    BY DEF Keys, TypeOK
  <2> QED BY <1>1, <2>1, <2>2, OperateTypes, OpOnly
<1> QED BY <1>2, <1>3, <1>4

LEMMA AuthorizeTypes ==
    ASSUME TypeOK, NEW q \in Request, Authorize(q)
    PROVE  TypeOK'
<1> USE DEF Kinds, UserKinds, KeyKinds, SessionKinds
<1> DEFINE u == op[q].actor
           kind == op[q].kind
<1>1. UNCHANGED <<users, sessions, keys, process>> /\ secrets' \in 0..MaxSecrets
  BY DEF Authorize, TypeOK
<1>2. op[q] # None /\ kind \in SessionKinds /\ op[q].step = "user"
  BY DEF Authorize, At
<1>3. kind \in Kinds /\ u \in UserId
  BY <1>2, OpTypes DEF WellFormed
<1>4. \/ Return(q)
      \/ kind = "password" /\ Operate(q, kind, "read", u, u, None, None)
      \/ kind = "reset" /\ \E v \in UserId : Operate(q, kind, "read", u, v, None, None)
      \/ kind = "revoke" /\ \E k \in KeyId : Operate(q, kind, "read", u, k, None, None)
      \/ kind = "delete_user" /\ \E v \in UserId :
           Operate(q, kind, "commit", u, v, None, None)
      \/ kind \in {"create_user", "create_key"} /\
           Operate(q, kind, "commit", u, None, None, None)
  BY <1>2 DEF Authorize
<1> HIDE DEF u, kind
<1>6. CASE Return(q)
  BY <1>1, <1>6, ReturnTypes, OpOnly
<1>7. CASE kind = "password" /\ Operate(q, kind, "read", u, u, None, None)
  BY <1>1, <1>3, <1>7, OperateTypes, OpOnly
<1>8. CASE kind = "reset" /\ \E v \in UserId : Operate(q, kind, "read", u, v, None, None)
  BY <1>1, <1>3, <1>8, OperateTypes, OpOnly
<1>9. CASE kind = "revoke" /\ \E k \in KeyId : Operate(q, kind, "read", u, k, None, None)
  BY <1>1, <1>3, <1>9, OperateTypes, OpOnly
<1>10. CASE kind = "delete_user" /\ \E v \in UserId :
              Operate(q, kind, "commit", u, v, None, None)
  BY <1>1, <1>3, <1>10, OperateTypes, OpOnly
<1>11. CASE kind \in {"create_user", "create_key"} /\
              Operate(q, kind, "commit", u, None, None, None)
  BY <1>1, <1>3, <1>11, OperateTypes, OpOnly
<1> QED BY <1>4, <1>6, <1>7, <1>8, <1>9, <1>10, <1>11

LEMMA ReadTypes ==
    ASSUME TypeOK, NEW q \in Request, ReadUser(q) \/ ReadKey(q)
    PROVE  TypeOK'
<1> USE DEF Kinds, UserKinds, KeyKinds, SessionKinds
<1>1. /\ op[q] # None /\ op[q].kind \in {"password", "reset", "revoke"}
      /\ op[q].step = "read"
  BY DEF ReadUser, ReadKey, At
<1>2. /\ op[q].kind \in Kinds /\ op[q].actor \in UserId
      /\ op[q].kind \in UserKinds => op[q].target \in UserId
      /\ op[q].kind \in KeyKinds => op[q].target \in KeyId
  BY <1>1, OpTypes DEF WellFormed
<1>3. UNCHANGED <<users, sessions, keys, process>> /\ secrets' \in 0..MaxSecrets
  BY DEF ReadUser, ReadKey, TypeOK, Draw, Fresh, Secret
<1>4. CASE Return(q)
  BY <1>3, <1>4, ReturnTypes, OpOnly
<1>5. CASE ReadUser(q) /\ ~Return(q)
  <2> DEFINE entity == [users[op[q].target] EXCEPT !.hash = Fresh, !.must_change = FALSE]
  <2>1. /\ op[q].kind \in UserKinds /\ op[q].target \in Users /\ Fresh \in Secret
        /\ Operate(q, op[q].kind, "save", op[q].actor, op[q].target, entity, None)
    BY <1>5 DEF ReadUser, At, Draw
  <2>2. users[op[q].target] \in UserRow
    BY <2>1 DEF Users, TypeOK
  <2>3. entity \in UserRow
    BY <2>1, <2>2 DEF UserRow
  <2> HIDE DEF entity
  <2> QED BY <1>2, <1>3, <2>1, <2>3, OperateTypes, OpOnly
<1>6. CASE ReadKey(q) /\ ~Return(q)
  <2> DEFINE entity == [keys[op[q].target] EXCEPT !.revoked = TRUE]
  <2>1. /\ op[q].kind = "revoke" /\ op[q].target \in Keys
        /\ Operate(q, op[q].kind, "save", op[q].actor, op[q].target, entity, None)
    BY <1>6 DEF ReadKey, At
  <2>2. keys[op[q].target] \in KeyRow
    BY <2>1 DEF Keys, TypeOK
  <2>3. entity \in KeyRow
    BY <2>2 DEF KeyRow
  <2> HIDE DEF entity
  <2> QED BY <1>2, <1>3, <2>1, <2>3, OperateTypes, OpOnly
<1> QED BY <1>4, <1>5, <1>6

LEMMA SaveTypes ==
    ASSUME TypeOK, NEW q \in Request, Save(q)
    PROVE  TypeOK'
<1> USE DEF Kinds, UserKinds, KeyKinds, SessionKinds
<1> DEFINE o == op[q]
           row == IF o.kind \in UserKinds THEN users[o.target] ELSE keys[o.target]
<1>1. o # None /\ o.kind \in UserKinds \cup KeyKinds /\ o.step = "save"
  BY DEF Save, At
<1>2. /\ o.kind \in Kinds /\ o.actor \in UserId \cup {None}
      /\ o.kind \in SessionKinds => o.actor \in UserId
      /\ o.kind \in UserKinds => o.target \in UserId /\ o.entity \in UserRow
      /\ o.kind \in KeyKinds => o.target \in KeyId /\ o.entity \in KeyRow
  BY <1>1, OpTypes DEF WellFormed
<1>3. UNCHANGED <<users, sessions, keys, process>> /\ secrets' \in 0..MaxSecrets
  BY DEF Save, TypeOK
<1>4. /\ o.kind \in UserKinds => row \in UserRow \cup {None}
      /\ o.kind \in KeyKinds => row \in KeyRow \cup {None}
  BY <1>1, <1>2 DEF TypeOK
<1>5. \/ Return(q)
      \/ row # None /\ Operate(q, o.kind, "commit", o.actor, o.target, o.entity, row)
  BY DEF Save
<1> HIDE DEF o, row
<1>6. CASE Return(q)
  BY <1>3, <1>6, ReturnTypes, OpOnly
<1>7. CASE row # None /\ Operate(q, o.kind, "commit", o.actor, o.target, o.entity, row)
  BY <1>1, <1>2, <1>3, <1>4, <1>7, OperateTypes, OpOnly
<1> QED BY <1>5, <1>6, <1>7

(* What the ORM writes is a row.                                           *)
LEMMA WrittenTypes ==
    /\ \A row, base, entity \in UserRow : WrittenUser(row, base, entity) \in UserRow
    /\ \A row, base, entity \in KeyRow : WrittenKey(row, base, entity) \in KeyRow
<1>1. \A row, base, entity \in UserRow : WrittenUser(row, base, entity) \in UserRow
  BY DEF WrittenUser, Column, UserRow
<1>2. \A row, base, entity \in KeyRow : WrittenKey(row, base, entity) \in KeyRow
  BY DEF WrittenKey, Column, KeyRow
<1> QED BY <1>1, <1>2

LEMMA ReturnLateTypes ==
    ASSUME TypeOK, NEW q \in Request, NEW u, ReturnLate(q, u)
    PROVE  op' \in [Request -> WellFormedOps \cup {None}]
<1>1. ASSUME NEW p \in Request, At(p, {"login"}, "commit")
      PROVE  [kind |-> "login", step |-> "commit", actor |-> op[p].actor,
              target |-> op[p].target, entity |-> op[p].entity,
              base |-> op[p].base, late |-> TRUE] \in WellFormedOps
  <2> DEFINE o == [kind |-> "login", step |-> "commit", actor |-> op[p].actor,
                   target |-> op[p].target, entity |-> op[p].entity,
                   base |-> op[p].base, late |-> TRUE]
  <2>1. op[p] # None /\ op[p].kind = "login" /\ op[p].step = "commit"
    BY <1>1 DEF At
  <2>2. op[p].target \in UserId /\ op[p].entity \in UserRow
    BY <2>1, OpTypes DEF WellFormed, UserKinds
  <2>3. o \in Operation
    BY <2>1, <2>2, OpTypes DEF Operation
  <2>4. WellFormed(o)
    BY <2>2 DEF WellFormed, UserKinds, KeyKinds, SessionKinds
  <2> QED BY <2>3, <2>4 DEF WellFormedOps
<1>2. ASSUME NEW p \in Request
      PROVE  (IF p = q THEN None
              ELSE IF At(p, {"login"}, "commit") /\ op[p].target = u
              THEN [kind |-> "login", step |-> "commit", actor |-> op[p].actor,
                    target |-> u, entity |-> op[p].entity,
                    base |-> op[p].base, late |-> TRUE]
              ELSE op[p]) \in WellFormedOps \cup {None}
  <2>1. op[p] \in WellFormedOps \cup {None}
    BY DEF TypeOK, WellFormedOps
  <2> QED BY <1>1, <2>1
<1> QED BY <1>2 DEF ReturnLate

LEMMA CommitTypes ==
    ASSUME TypeOK, NEW q \in Request,
           \/ CommitLogin(q) \/ CommitPassword(q) \/ CommitCreateUser(q)
           \/ CommitDeleteUser(q) \/ CommitCreateKey(q) \/ CommitKey(q)
    PROVE  TypeOK'
<1> USE DEF UserKinds, KeyKinds
<1>1. CASE CommitLogin(q)
  <2>1. op' \in [Request -> WellFormedOps \cup {None}]
    BY <1>1, ReturnTypes DEF CommitLogin
  <2>2. /\ op[q] # None /\ op[q].kind = "login" /\ op[q].step = "commit"
        /\ op[q].target \in UserId /\ op[q].entity \in UserRow /\ op[q].late \in BOOLEAN
    BY <1>1, OpTypes DEF CommitLogin, At, WellFormed
  <2>3. sessions' \in SUBSET SessionRow /\ secrets' \in 0..MaxSecrets
    <3>1. CASE op[q].target \in Users
      <4> DEFINE s == [token |-> Fresh, user |-> op[q].target,
                       hash |-> op[q].entity.hash, late |-> op[q].late]
      <4>1. Fresh \in Secret /\ secrets' = Fresh /\ sessions' = sessions \cup {s}
        BY <1>1, <3>1 DEF CommitLogin, Draw, NewSession
      <4>2. s \in SessionRow
        BY <2>2, <4>1 DEF SessionRow, UserRow
      <4> QED BY <4>1, <4>2 DEF TypeOK, Secret
    <3>2. CASE op[q].target \notin Users
      BY <1>1, <3>2 DEF CommitLogin, TypeOK
    <3> QED BY <3>1, <3>2
  <2> QED BY <1>1, <2>1, <2>3 DEF CommitLogin, TypeOK, WellFormedOps
<1>2. CASE CommitPassword(q)
  <2> DEFINE o == op[q]
             u == op[q].target
  <2>1. /\ o # None /\ o.kind \in UserKinds /\ o.step = "commit" /\ u \in UserId
        /\ o.entity \in UserRow /\ o.base \in UserRow
    BY <1>2, OpTypes DEF CommitPassword, At, WellFormed
  <2>2. UNCHANGED <<keys, secrets, process>>
    BY <1>2 DEF CommitPassword
  <2>3. CASE u \notin Users
    <3>1. Return(q) /\ UNCHANGED <<users, sessions>>
      BY <1>2, <2>3 DEF CommitPassword
    <3> QED BY <2>2, <3>1, ReturnTypes, OpOnly DEF TypeOK
  <2>4. CASE u \in Users
    <3>1. /\ users' = [users EXCEPT ![u] = WrittenUser(@, o.base, o.entity)]
          /\ sessions' = Forget(u) /\ ReturnLate(q, u)
      BY <1>2, <2>4 DEF CommitPassword
    <3>2. WrittenUser(users[u], o.base, o.entity) \in UserRow
      BY <2>1, <2>4, WrittenTypes DEF Users, TypeOK
    <3>3. users' \in [UserId -> UserRow \cup {None}]
      BY <3>1, <3>2 DEF TypeOK
    <3>4. op' \in [Request -> WellFormedOps \cup {None}]
      BY <3>1, ReturnLateTypes
    <3>5. sessions' \in SUBSET SessionRow
      BY <3>1 DEF Forget, TypeOK
    <3> QED BY <2>2, <3>3, <3>4, <3>5 DEF TypeOK, WellFormedOps
  <2> QED BY <2>3, <2>4
<1>3. CASE CommitCreateUser(q)
  <2>1. PICK role \in Role :
          users' = [users EXCEPT ![NextUser] =
                      [hash |-> Fresh, role |-> role, must_change |-> FALSE]]
    BY <1>3 DEF CommitCreateUser, NewUser
  <2>2. Fresh \in Secret /\ secrets' = Fresh
    BY <1>3 DEF CommitCreateUser, Draw
  <2>3. [hash |-> Fresh, role |-> role, must_change |-> FALSE] \in UserRow
    BY <2>2 DEF UserRow
  <2>4. users' \in [UserId -> UserRow \cup {None}]
    BY <2>1, <2>3 DEF TypeOK
  <2>5. op' \in [Request -> WellFormedOps \cup {None}]
    BY <1>3, ReturnTypes DEF CommitCreateUser
  <2> QED BY <1>3, <2>2, <2>4, <2>5 DEF CommitCreateUser, TypeOK, Secret, WellFormedOps,
        NewUser
<1>4. CASE CommitDeleteUser(q)
  <2>1. op' \in [Request -> WellFormedOps \cup {None}]
    BY <1>4, ReturnLateTypes DEF CommitDeleteUser
  <2>2. keys' \in [KeyId -> KeyRow \cup {None}]
    BY <1>4 DEF CommitDeleteUser, Disowned, TypeOK
  <2>3. users' \in [UserId -> UserRow \cup {None}] /\ sessions' \in SUBSET SessionRow
    BY <1>4 DEF CommitDeleteUser, Forget, TypeOK
  <2> QED BY <1>4, <2>1, <2>2, <2>3 DEF CommitDeleteUser, TypeOK, WellFormedOps
<1>5. CASE CommitCreateKey(q)
  <2>1. op' \in [Request -> WellFormedOps \cup {None}]
    BY <1>5, ReturnTypes DEF CommitCreateKey
  <2>2. op[q] # None /\ op[q].actor \in UserId
    BY <1>5, OpTypes DEF CommitCreateKey, At, WellFormed, SessionKinds
  <2>3. keys' \in [KeyId -> KeyRow \cup {None}] /\ secrets' \in 0..MaxSecrets
    <3>1. CASE op[q].actor \in Users
      <4> DEFINE k == [hash |-> Fresh, owner |-> op[q].actor, revoked |-> FALSE]
      <4>1. /\ Fresh \in Secret /\ secrets' = Fresh
            /\ keys' = [keys EXCEPT ![NextKey] = k]
        BY <1>5, <3>1 DEF CommitCreateKey, Draw, NewKey
      <4>2. k \in KeyRow
        BY <2>2, <4>1 DEF KeyRow
      <4> HIDE DEF k
      <4>3. keys' \in [KeyId -> KeyRow \cup {None}]
        BY <4>1, <4>2 DEF TypeOK
      <4>4. secrets' \in 0..MaxSecrets
        BY <4>1 DEF Secret
      <4> QED BY <4>3, <4>4
    <3>2. CASE op[q].actor \notin Users
      BY <1>5, <3>2 DEF CommitCreateKey, TypeOK
    <3> QED BY <3>1, <3>2
  <2> QED BY <1>5, <2>1, <2>3 DEF CommitCreateKey, TypeOK, WellFormedOps
<1>6. CASE CommitKey(q)
  <2> DEFINE o == op[q]
             written == WrittenKey(keys[o.target], o.base, o.entity)
  <2>1. /\ o # None /\ o.target \in KeyId
        /\ o.entity \in KeyRow /\ o.base \in KeyRow
    BY <1>6, OpTypes DEF CommitKey, At, WellFormed
  <2>2. o.target \in Keys => written \in KeyRow
    BY <2>1, WrittenTypes DEF Keys, TypeOK
  <2>3. \/ keys' = keys
        \/ o.target \in Keys /\ keys' = [keys EXCEPT ![o.target] = written]
    BY <1>6 DEF CommitKey
  <2>4. keys' \in [KeyId -> KeyRow \cup {None}]
    BY <2>1, <2>2, <2>3 DEF TypeOK
  <2>5. op' \in [Request -> WellFormedOps \cup {None}]
    BY <1>6, ReturnTypes DEF CommitKey
  <2> QED BY <1>6, <2>4, <2>5 DEF CommitKey, TypeOK, WellFormedOps
<1> QED BY <1>1, <1>2, <1>3, <1>4, <1>5, <1>6

LEMMA ProcessTypes ==
    ASSUME TypeOK, EndSession \/ Boot \/ Restart
    PROVE  TypeOK'
<1>1. CASE EndSession
  BY <1>1 DEF EndSession, TypeOK
<1>2. CASE Boot
  <2> DEFINE row == [hash |-> Fresh, role |-> "admin", must_change |-> TRUE]
  <2>1. CASE Users = {}
    <3>1. /\ Fresh \in Secret /\ secrets' = Fresh
          /\ users' = [users EXCEPT ![1] = row]
      BY <1>2, <2>1 DEF Boot, Draw, NewUser
    <3>2. row \in UserRow
      BY <3>1 DEF UserRow, Role
    <3> HIDE DEF row
    <3>3. users' \in [UserId -> UserRow \cup {None}]
      BY <3>1, <3>2 DEF TypeOK
    <3>4. secrets' \in 0..MaxSecrets
      BY <3>1 DEF Secret
    <3> QED BY <1>2, <3>3, <3>4 DEF Boot, TypeOK
  <2>2. CASE Users # {}
    BY <1>2, <2>2 DEF Boot, TypeOK
  <2> QED BY <2>1, <2>2
<1>3. CASE Restart
  BY <1>3 DEF Restart, TypeOK
<1> QED BY <1>1, <1>2, <1>3

LEMMA NextTypes == TypeOK /\ [Next]_vars => TypeOK'
<1> SUFFICES ASSUME TypeOK, [Next]_vars
             PROVE  TypeOK'
  OBVIOUS
<1>1. CASE UNCHANGED vars
  BY <1>1 DEF vars, TypeOK
<1>2. ASSUME NEW q \in Request, RequestStep(q)
      PROVE  TypeOK'
  BY <1>2, BeginTypes, AuthorizeTypes, ReadTypes, SaveTypes, CommitTypes
     DEF RequestStep
<1>3. CASE EndSession \/ Boot \/ Restart
  BY <1>3, ProcessTypes
<1> QED BY <1>1, <1>2, <1>3 DEF Next

LEMMA InitTypes == Init => TypeOK
BY DEF Init, TypeOK

(* Every row, and every operation under way, has its type; an operation    *)
(* has what its kind and step need.                                        *)
THEOREM TypeCorrect == Spec => []TypeOK
BY InitTypes, NextTypes, PTL DEF Spec

-----------------------------------------------------------------------------
(* Owners *)

LEMMA Shape ==
    ASSUME TypeOK
    PROVE  /\ Users \subseteq UserId /\ Keys \subseteq KeyId
           /\ DOMAIN users = UserId /\ DOMAIN keys = KeyId
           /\ \A u \in Users : users[u] \in UserRow
           /\ \A k \in Keys : keys[k] \in KeyRow /\ keys[k].owner \in UserId
<1>1. \A k \in Keys : keys[k] \in KeyRow
  BY DEF TypeOK, Keys
<1> QED BY <1>1 DEF TypeOK, Users, Keys, KeyRow

(* The rows that a step leaves: none of them loses its owner.              *)
LEMMA OwnersKept ==
    ASSUME NoOrphans, Users \subseteq Users',
           \A s \in sessions' : s \in sessions \/ s.user \in Users,
           \A k \in Keys' : \/ keys'[k].owner \in Users
                            \/ k \in Keys /\ keys'[k] = keys[k]
    PROVE  NoOrphans'
BY DEF NoOrphans

LEMMA NoOrphansStep ==
    ASSUME TypeOK, NoOrphans, [Next]_vars
    PROVE  NoOrphans'
<1>1. CASE UNCHANGED <<users, sessions, keys>>
  BY <1>1 DEF NoOrphans, Users, Keys
<1>2. CASE EndSession
  <2>1. users' = users /\ keys' = keys /\ sessions' \subseteq sessions
    BY <1>2 DEF EndSession
  <2> QED BY <2>1 DEF NoOrphans, Users, Keys
<1>3. CASE Boot /\ Users = {}
  <2>1. Users \subseteq Users' /\ sessions' = sessions /\ keys' = keys
    BY <1>3 DEF Boot
  <2> QED BY <2>1, OwnersKept DEF Keys
<1>4. ASSUME NEW q \in Request, CommitLogin(q)
      PROVE  NoOrphans'
  <2>1. users' = users /\ keys' = keys
    BY <1>4 DEF CommitLogin
  <2>2. \A s \in sessions' : s \in sessions \/ s.user \in Users
    BY <1>4 DEF CommitLogin, NewSession
  <2> QED BY <2>1, <2>2 DEF NoOrphans, Users, Keys
<1>5. ASSUME NEW q \in Request, CommitPassword(q), op[q].target \in Users
      PROVE  NoOrphans'
  <2>1. /\ users' = [users EXCEPT ![op[q].target] =
                       WrittenUser(@, op[q].base, op[q].entity)]
        /\ keys' = keys /\ sessions' = Forget(op[q].target)
    BY <1>5 DEF CommitPassword
  <2>2. None \notin UserRow /\ op[q].entity \in UserRow /\ op[q].base \in UserRow
    BY <1>5, OpTypes DEF CommitPassword, At, WellFormed, UserKinds
  <2>3. WrittenUser(users[op[q].target], op[q].base, op[q].entity) # None
    BY <1>5, <2>2, Shape, WrittenTypes
  <2>4. Users' = Users
    BY <1>5, <2>1, <2>3, Shape DEF Users
  <2>5. \A s \in sessions' : s \in sessions
    BY <2>1 DEF Forget
  <2>6. Keys' = Keys
    BY <2>1 DEF Keys
  <2> QED BY <2>1, <2>4, <2>5, <2>6, OwnersKept
<1>6. ASSUME NEW q \in Request, CommitCreateUser(q)
      PROVE  NoOrphans'
  <2>1. PICK role \in Role :
          users' = [users EXCEPT ![NextUser] =
                      [hash |-> Fresh, role |-> role, must_change |-> FALSE]]
    BY <1>6 DEF CommitCreateUser, NewUser
  <2>2. UNCHANGED <<sessions, keys>>
    BY <1>6 DEF CommitCreateUser
  <2>3. Users \subseteq Users'
    <3>1. \A u \in Users : u # NextUser
      BY NewIds
    <3>2. \A u \in Users : users'[u] = users[u]
      BY <2>1, <3>1, Shape
    <3> QED BY <3>2 DEF Users
  <2>4. Keys' = Keys
    BY <2>2 DEF Keys
  <2> QED BY <2>2, <2>3, <2>4, OwnersKept
<1>7. ASSUME NEW q \in Request, CommitDeleteUser(q)
      PROVE  NoOrphans'
  <2> DEFINE u == op[q].target
  <2>1. /\ users' = [users EXCEPT ![u] = None]
        /\ sessions' = Forget(u) /\ keys' = Disowned(u)
    BY <1>7 DEF CommitDeleteUser
  <2>2. Users' = Users \ {u}
    BY <2>1, Shape DEF Users
  <2>3. \A s \in sessions' : s \in sessions /\ s.user # u
    BY <2>1 DEF Forget
  <2>4. \A k \in Keys' : k \in Keys /\ keys[k].owner # u /\ keys'[k] = keys[k]
    BY <2>1 DEF Keys, Disowned
  <2> QED BY <2>2, <2>3, <2>4 DEF NoOrphans
<1>8. ASSUME NEW q \in Request, CommitCreateKey(q)
      PROVE  NoOrphans'
  <2>1. users' = users /\ sessions' = sessions
    BY <1>8 DEF CommitCreateKey
  <2>2. \A k \in Keys' : \/ keys'[k].owner \in Users
                         \/ k \in Keys /\ keys'[k] = keys[k]
    <3>1. CASE op[q].actor \in Users
      BY <1>8, <3>1, Shape DEF CommitCreateKey, Keys, NewKey
    <3>2. CASE op[q].actor \notin Users
      BY <1>8, <3>2 DEF CommitCreateKey, Keys
    <3> QED BY <3>1, <3>2
  <2> QED BY <2>1, <2>2, OwnersKept DEF Users
<1>9. ASSUME NEW q \in Request, CommitKey(q)
      PROVE  NoOrphans'
  <2> DEFINE o == op[q]
             written == WrittenKey(keys[o.target], o.base, o.entity)
  <2>1. users' = users /\ sessions' = sessions
    BY <1>9 DEF CommitKey
  <2>2. \/ keys' = keys
        \/ written.owner \in Users /\ keys' = [keys EXCEPT ![o.target] = written]
    BY <1>9 DEF CommitKey
  <2> HIDE DEF written
  <2>3. \A k \in Keys' : \/ keys'[k].owner \in Users
                         \/ k \in Keys /\ keys'[k] = keys[k]
    BY <2>2, Shape DEF Keys
  <2> QED BY <2>1, <2>3, OwnersKept DEF Users
<1>10. ASSUME NEW q \in Request, RequestStep(q)
       PROVE  NoOrphans'
  <2>1. CASE \/ Login(q) \/ Authenticate(q) \/ Authorize(q) \/ ReadUser(q)
             \/ ReadKey(q) \/ Resolve(q) \/ Save(q)
    BY <1>1, <2>1 DEF Login, Authenticate, Authorize, ReadUser, ReadKey, Resolve, Save
  <2>2. CASE CommitPassword(q) /\ op[q].target \notin Users
    BY <1>1, <2>2 DEF CommitPassword
  <2> QED BY <1>4, <1>5, <1>6, <1>7, <1>8, <1>9, <1>10, <2>1, <2>2 DEF RequestStep
<1>11. CASE UNCHANGED vars \/ Restart \/ (Boot /\ Users # {})
  BY <1>1, <1>11 DEF vars, Restart, Boot
<1> QED BY <1>2, <1>3, <1>10, <1>11 DEF Next

(* A session or a key has an owner who exists, whichever requests are in   *)
(* flight: the inserts meet the foreign keys, the deletion cascades, and   *)
(* an id is given again only when no row of it is left.                    *)
THEOREM NoOrphansHolds == Spec => []NoOrphans
<1>1. Init => NoOrphans
  BY DEF Init, NoOrphans, Keys
<1> QED BY <1>1, NoOrphansStep, TypeCorrect, PTL DEF Spec

-----------------------------------------------------------------------------
(* What one step does to the operations *)

Steps(q) == Login(q) \/ Authenticate(q) \/ Authorize(q) \/ ReadUser(q)
              \/ ReadKey(q) \/ Resolve(q) \/ Save(q)

Commits(q) == CommitLogin(q) \/ CommitPassword(q) \/ CommitCreateUser(q)
                \/ CommitDeleteUser(q) \/ CommitCreateKey(q) \/ CommitKey(q)

(* The request of a step: what it was, and what it has become.             *)
Opened(q) == /\ op'[q].kind = "login" /\ op'[q].step = "commit"
             /\ op'[q].target \in Users /\ op'[q].entity = users[op'[q].target]
Admitted(q) == /\ op[q] # None /\ op[q].step = "user" /\ op[q].actor \in Users
               /\ op'[q].kind \in SessionKinds /\ op'[q].step \in {"read", "commit"}
               /\ Permitted(op'[q].kind, users[op[q].actor])
               /\ op'[q].kind \in UserKinds \cup {"revoke"} => op'[q].step = "read"
Changed(q) == /\ op[q] # None /\ op[q].step = "read"
              /\ op'[q].kind = op[q].kind /\ op'[q].step = "save"
              /\ \/ op[q].kind \in UserKinds /\ ~op'[q].entity.must_change
                 \/ op[q].kind = "revoke" /\ op'[q].entity.revoked
Found(q) == /\ op'[q].kind = "resolve" /\ op'[q].step = "save"
            /\ op'[q].target \in Keys
ReadAgain(q) == /\ op[q] # None /\ op[q].step = "save"
                /\ op[q].kind \in UserKinds \cup KeyKinds
                /\ op'[q].kind = op[q].kind /\ op'[q].step = "commit"
                /\ op'[q].entity = op[q].entity

LEMMA OperateWrites ==
    ASSUME TypeOK, NEW q \in Request, NEW kind, NEW step, NEW actor, NEW target,
           NEW entity, NEW base,
           Operate(q, kind, step, actor, target, entity, base)
    PROVE  /\ op'[q].kind = kind /\ op'[q].step = step /\ op'[q].target = target
           /\ op'[q].entity = entity
           /\ \A p \in Request : p # q => op'[p] = op[p]
BY DEF Operate, TypeOK

LEMMA StepsWrite ==
    ASSUME TypeOK, NEW q \in Request, Steps(q)
    PROVE  /\ UNCHANGED <<users, sessions, keys>>
           /\ \A p \in Request : p # q => op'[p] = op[p]
           /\ \/ op'[q] = None \/ Opened(q) \/ op'[q].step = "user" \/ Admitted(q)
              \/ Changed(q) \/ Found(q) \/ ReadAgain(q)
<1>1. UNCHANGED <<users, sessions, keys>>
  BY DEF Steps, Login, Authenticate, Authorize, ReadUser, ReadKey, Resolve, Save
<1>2. CASE Return(q)
  <2>1. op'[q] = None /\ \A p \in Request : p # q => op'[p] = op[p]
    BY <1>2 DEF Return, TypeOK
  <2> QED BY <1>1, <2>1
<1>3. CASE Login(q)
  <2>1. PICK u \in Users : Operate(q, "login", "commit", None, u, users[u], None)
    BY <1>3 DEF Login
  <2> QED BY <1>1, <2>1, OperateWrites DEF Opened
<1>4. CASE Authenticate(q)
  <2>1. PICK s \in sessions, kind \in SessionKinds :
          Operate(q, kind, "user", s.user, None, None, None)
    BY <1>4 DEF Authenticate
  <2> QED BY <1>1, <2>1, OperateWrites
<1>5. CASE Authorize(q) /\ ~Return(q)
  <2> DEFINE u == op[q].actor
             kind == op[q].kind
  <2>1. op[q] # None /\ kind \in SessionKinds /\ op[q].step = "user"
    BY <1>5 DEF Authorize, At
  <2>2. /\ u \in Users /\ Permitted(kind, users[u])
        /\ \/ kind = "password" /\ Operate(q, kind, "read", u, u, None, None)
           \/ kind = "reset" /\ \E v \in UserId : Operate(q, kind, "read", u, v, None, None)
           \/ kind = "revoke" /\ \E k \in KeyId : Operate(q, kind, "read", u, k, None, None)
           \/ kind = "delete_user" /\ \E v \in UserId :
                Operate(q, kind, "commit", u, v, None, None)
           \/ kind \in {"create_user", "create_key"} /\
                Operate(q, kind, "commit", u, None, None, None)
    BY <1>5, <2>1 DEF Authorize, SessionKinds
  <2> HIDE DEF u, kind
  <2>3. ASSUME NEW v, NEW step \in {"read", "commit"},
               Operate(q, kind, step, u, v, None, None),
               kind \in UserKinds \cup {"revoke"} => step = "read"
        PROVE  Admitted(q) /\ \A p \in Request : p # q => op'[p] = op[p]
    <3>1. /\ op'[q].kind = kind /\ op'[q].step = step
          /\ \A p \in Request : p # q => op'[p] = op[p]
      BY <2>3, OperateWrites
    <3> QED BY <2>1, <2>2, <2>3, <3>1 DEF Admitted, u, kind
  <2>4. CASE kind = "password" /\ Operate(q, kind, "read", u, u, None, None)
    BY <1>1, <2>3, <2>4
  <2>5. CASE kind = "reset" /\ \E v \in UserId : Operate(q, kind, "read", u, v, None, None)
    BY <1>1, <2>3, <2>5
  <2>6. CASE kind = "revoke" /\ \E k \in KeyId : Operate(q, kind, "read", u, k, None, None)
    BY <1>1, <2>3, <2>6
  <2>7. CASE kind = "delete_user" /\ \E v \in UserId :
               Operate(q, kind, "commit", u, v, None, None)
    BY <1>1, <2>3, <2>7 DEF UserKinds
  <2>8. CASE kind \in {"create_user", "create_key"} /\
               Operate(q, kind, "commit", u, None, None, None)
    BY <1>1, <2>3, <2>8 DEF UserKinds
  <2> QED BY <2>2, <2>4, <2>5, <2>6, <2>7, <2>8
<1>6. CASE ReadUser(q) /\ ~Return(q)
  <2> DEFINE entity == [users[op[q].target] EXCEPT !.hash = Fresh, !.must_change = FALSE]
  <2>1. /\ op[q] # None /\ op[q].kind \in UserKinds /\ op[q].step = "read"
        /\ op[q].target \in Users
        /\ Operate(q, op[q].kind, "save", op[q].actor, op[q].target, entity, None)
    BY <1>6 DEF ReadUser, At
  <2>2. ~entity.must_change
    BY <2>1, Shape DEF UserRow
  <2> HIDE DEF entity
  <2>3. Changed(q) /\ \A p \in Request : p # q => op'[p] = op[p]
    BY <2>1, <2>2, OperateWrites DEF Changed
  <2> QED BY <1>1, <2>3
<1>7. CASE ReadKey(q) /\ ~Return(q)
  <2> DEFINE entity == [keys[op[q].target] EXCEPT !.revoked = TRUE]
  <2>1. /\ op[q] # None /\ op[q].kind = "revoke" /\ op[q].step = "read"
        /\ op[q].target \in Keys
        /\ Operate(q, op[q].kind, "save", op[q].actor, op[q].target, entity, None)
    BY <1>7 DEF ReadKey, At
  <2>2. entity.revoked
    BY <2>1, Shape DEF KeyRow
  <2> HIDE DEF entity
  <2>3. Changed(q) /\ \A p \in Request : p # q => op'[p] = op[p]
    BY <2>1, <2>2, OperateWrites DEF Changed
  <2> QED BY <1>1, <2>3
<1>8. CASE Resolve(q)
  <2>1. PICK k \in Keys : Operate(q, "resolve", "save", None, k, keys[k], None)
    BY <1>8 DEF Resolve
  <2> QED BY <1>1, <2>1, OperateWrites DEF Found
<1>9. CASE Save(q) /\ ~Return(q)
  <2>1. op[q] # None /\ op[q].kind \in UserKinds \cup KeyKinds /\ op[q].step = "save"
    BY <1>9 DEF Save, At
  <2>2. PICK row : Operate(q, op[q].kind, "commit", op[q].actor, op[q].target,
                           op[q].entity, row)
    BY <1>9 DEF Save
  <2>3. ReadAgain(q) /\ \A p \in Request : p # q => op'[p] = op[p]
    BY <2>1, <2>2, OperateWrites DEF ReadAgain
  <2> QED BY <1>1, <2>3
<1> QED BY <1>2, <1>3, <1>4, <1>5, <1>6, <1>7, <1>8, <1>9 DEF Steps

(* A commit ends its request; of the others it changes only logins, which  *)
(* become late.                                                            *)
Delayed(p) == /\ At(p, {"login"}, "commit") /\ op'[p] # None
              /\ op'[p].kind = "login" /\ op'[p].step = "commit" /\ op'[p].late

LEMMA ReturnLateWrites ==
    ASSUME TypeOK, NEW q \in Request, NEW u, ReturnLate(q, u)
    PROVE  /\ op'[q] = None
           /\ \A p \in Request : p # q =>
                IF At(p, {"login"}, "commit") /\ op[p].target = u
                THEN Delayed(p) ELSE op'[p] = op[p]
<1>1. None \notin WellFormedOps
  BY DEF WellFormedOps
<1>2. \A p \in Request : At(p, {"login"}, "commit") /\ op[p].target = u /\ p # q =>
        op'[p] # None
  <2>1. op' \in [Request -> WellFormedOps \cup {None}]
    BY ReturnLateTypes
  <2> SUFFICES ASSUME NEW p \in Request, At(p, {"login"}, "commit"),
                      op[p].target = u, p # q
               PROVE  op'[p] # None
    OBVIOUS
  <2> DEFINE o == [kind |-> "login", step |-> "commit", actor |-> op[p].actor,
                   target |-> u, entity |-> op[p].entity,
                   base |-> op[p].base, late |-> TRUE]
  <2>2. op'[p] = o
    BY DEF ReturnLate
  <2>3. /\ op[p] # None /\ op[p].kind = "login" /\ op[p].step = "commit"
    BY DEF At
  <2>4. /\ u \in UserId /\ op[p].entity \in UserRow
        /\ op[p].actor \in UserId \cup {None}
        /\ op[p].base \in UserRow \cup KeyRow \cup {None}
    BY <2>3, OpTypes DEF WellFormed, UserKinds
  <2>5. o \in Operation
    BY <2>4 DEF Operation
  <2> QED BY <2>2, <2>5
<1>3. \A p \in Request : At(p, {"login"}, "commit") /\ op[p].target = u /\ p # q =>
        Delayed(p)
  BY <1>2 DEF ReturnLate, Delayed
<1>4. /\ op'[q] = None
      /\ \A p \in Request : p # q /\ ~(At(p, {"login"}, "commit") /\ op[p].target = u)
           => op'[p] = op[p]
  BY DEF ReturnLate
<1> QED BY <1>3, <1>4

LEMMA CommitsWrite ==
    ASSUME TypeOK, NEW q \in Request, Commits(q)
    PROVE  /\ op'[q] = None
           /\ \A p \in Request : p # q => op'[p] = op[p] \/ Delayed(p)
<1>1. CASE Return(q)
  BY <1>1 DEF Return, TypeOK
<1>2. ASSUME NEW u, ReturnLate(q, u)
      PROVE  /\ op'[q] = None
             /\ \A p \in Request : p # q => op'[p] = op[p] \/ Delayed(p)
  BY <1>2, ReturnLateWrites
<1>3. Return(q) \/ ReturnLate(q, op[q].target)
  BY DEF Commits, CommitLogin, CommitPassword, CommitCreateUser, CommitDeleteUser,
         CommitCreateKey, CommitKey
<1> QED BY <1>1, <1>2, <1>3

LEMMA NextSplit ==
    ASSUME [Next]_vars
    PROVE  \/ UNCHANGED vars \/ EndSession \/ Boot \/ Restart
           \/ \E q \in Request : Steps(q) \/ Commits(q)
BY DEF Next, RequestStep, Steps, Commits

-----------------------------------------------------------------------------
(* Revocation *)

(* What a request is about to save: a changed password need not be changed *)
(* again, a revoked key is revoked.                                        *)
Saving(q) == op[q] # None /\ op[q].step \in {"save", "commit"}
EntityInv ==
    \A q \in Request : Saving(q) =>
        /\ op[q].kind \in UserKinds => ~op[q].entity.must_change
        /\ op[q].kind = "revoke" => op[q].entity.revoked

LEMMA EntityStep ==
    ASSUME TypeOK, EntityInv, [Next]_vars
    PROVE  EntityInv'
<1> USE DEF EntityInv, Saving
<1>1. CASE UNCHANGED vars \/ EndSession \/ Boot
  <2>1. op' = op
    BY <1>1 DEF vars, EndSession, Boot
  <2> QED BY <2>1
<1>2. CASE Restart
  BY <1>2 DEF Restart
<1>3. ASSUME NEW q \in Request, Steps(q)
      PROVE  EntityInv'
  <2>1. ASSUME op'[q] # None, op'[q].step \in {"save", "commit"}
        PROVE  /\ op'[q].kind \in UserKinds => ~op'[q].entity.must_change
               /\ op'[q].kind = "revoke" => op'[q].entity.revoked
    <3> USE DEF UserKinds, KeyKinds
    <3>1. CASE Opened(q)
      BY <3>1 DEF Opened
    <3>2. CASE Admitted(q)
      BY <2>1, <3>2 DEF Admitted
    <3>3. CASE Changed(q)
      BY <3>3 DEF Changed
    <3>4. CASE Found(q)
      BY <3>4 DEF Found
    <3>5. CASE ReadAgain(q)
      BY <3>5 DEF ReadAgain
    <3> QED BY <1>3, <2>1, <3>1, <3>2, <3>3, <3>4, <3>5, StepsWrite
  <2>2. \A p \in Request : p # q => op'[p] = op[p]
    BY <1>3, StepsWrite
  <2> QED BY <2>1, <2>2
<1>4. ASSUME NEW q \in Request, Commits(q)
      PROVE  EntityInv'
  <2>1. op'[q] = None /\ \A p \in Request : p # q => op'[p] = op[p] \/ Delayed(p)
    BY <1>4, CommitsWrite
  <2> QED BY <2>1 DEF Delayed, UserKinds
<1> QED BY <1>1, <1>2, <1>3, <1>4, NextSplit

LEMMA EntityHolds == Spec => []EntityInv
<1>1. Init => EntityInv
  BY DEF Init, EntityInv, Saving
<1> QED BY <1>1, EntityStep, TypeCorrect, PTL DEF Spec

(* One key's revocation under one step: only a commit of resolve() whose   *)
(* save() had met the revoked row can undo it.                             *)
LEMMA RevivedStep ==
    ASSUME TypeOK, EntityInv, [Next]_vars, NEW k \in KeyId, Revived(k)
    PROVE  \E q \in Request : /\ At(q, {"resolve"}, "commit")
                              /\ op[q].target = k
                              /\ op[q].base.revoked
<1>1. /\ keys[k] # None /\ keys'[k] # None /\ keys'[k] # keys[k]
      /\ keys[k].revoked /\ ~keys'[k].revoked
  BY DEF Revived
<1>2. k \in Keys /\ keys' # keys
  BY <1>1 DEF Keys
<1>3. ASSUME NEW q \in Request, CommitDeleteUser(q)
      PROVE  FALSE
  BY <1>1, <1>3 DEF CommitDeleteUser, Disowned
<1>4. ASSUME NEW q \in Request, CommitCreateKey(q)
      PROVE  FALSE
  <2>1. k # NextKey
    BY <1>2, NewIds
  <2>2. keys'[k] = keys[k]
    BY <1>4, <2>1, Shape DEF CommitCreateKey
  <2> QED BY <1>1, <2>2
<1>5. ASSUME NEW q \in Request, CommitKey(q)
      PROVE  /\ At(q, {"resolve"}, "commit") /\ op[q].target = k
             /\ op[q].base.revoked
  <2> DEFINE o == op[q]
             written == WrittenKey(keys[o.target], o.base, o.entity)
  <2>1. keys' = [keys EXCEPT ![o.target] = written]
    BY <1>2, <1>5 DEF CommitKey
  <2>2. o.target = k /\ keys'[k] = written
    BY <1>1, <1>2, <2>1, Shape
  <2>3. written.revoked = Column(keys[k].revoked, o.base.revoked, o.entity.revoked)
    BY <2>2 DEF WrittenKey
  <2>4. /\ o # None /\ o.kind \in KeyKinds /\ o.step = "commit"
        /\ o.entity \in KeyRow /\ o.base \in KeyRow
    BY <1>5, OpTypes DEF CommitKey, At, WellFormed
  <2> HIDE DEF written
  <2>5. ~o.entity.revoked /\ o.base.revoked
    BY <1>1, <2>2, <2>3, <2>4 DEF Column, KeyRow
  <2>6. o.kind = "resolve"
    BY <2>4, <2>5 DEF EntityInv, Saving, KeyKinds
  <2> QED BY <2>2, <2>4, <2>5, <2>6 DEF At
<1>6. \A q \in Request : ~Steps(q)
  BY <1>2, StepsWrite
<1>7. ~(UNCHANGED vars \/ EndSession \/ Boot \/ Restart)
  BY <1>2 DEF vars, EndSession, Boot, Restart
<1>8. PICK q \in Request : Commits(q)
  BY <1>6, <1>7, NextSplit
<1>9. CommitDeleteUser(q) \/ CommitCreateKey(q) \/ CommitKey(q)
  BY <1>2, <1>8 DEF Commits, CommitLogin, CommitPassword, CommitCreateUser
<1> QED BY <1>3, <1>4, <1>5, <1>9

(* A revoked key comes back to life in no other way than the known one: a  *)
(* resolve() that read the key before its revocation and saved it after.   *)
THEOREM RevivedByResolveHolds == Spec => RevivedByResolve
<1>1. TypeOK /\ EntityInv /\ [Next]_vars =>
        [\A k \in KeyId : Revived(k) =>
           \E q \in Request : /\ At(q, {"resolve"}, "commit")
                              /\ op[q].target = k
                              /\ op[q].base.revoked]_vars
  BY RevivedStep
<1> QED BY <1>1, TypeCorrect, EntityHolds, PTL DEF Spec, RevivedByResolve

-----------------------------------------------------------------------------
(* Sessions and passwords *)

(* No operation is under way while the process boots. *)
BootInv == process = "boot" => \A q \in Request : op[q] = None

LEMMA BootStep ==
    ASSUME TypeOK, BootInv, [Next]_vars
    PROVE  BootInv'
<1>1. CASE UNCHANGED vars \/ EndSession \/ Boot \/ Restart
  BY <1>1 DEF vars, EndSession, Boot, Restart, BootInv
<1>2. ASSUME NEW q \in Request, Steps(q) \/ Commits(q)
      PROVE  process = "up" /\ process' = process
  <2>1. process = "up" \/ op[q] # None
    BY <1>2 DEF Steps, Commits, Login, CommitLogin, Authenticate, Authorize, ReadUser,
       ReadKey, Resolve, Save, CommitPassword, CommitCreateUser, CommitDeleteUser,
       CommitCreateKey, CommitKey, At
  <2>2. process' = process
    BY <1>2 DEF Steps, Commits, Login, CommitLogin, Authenticate, Authorize, ReadUser,
       ReadKey, Resolve, Save, CommitPassword, CommitCreateUser, CommitDeleteUser,
       CommitCreateKey, CommitKey
  <2> QED BY <2>1, <2>2 DEF BootInv, TypeOK
<1> QED BY <1>1, <1>2, NextSplit DEF BootInv

LEMMA BootHolds == Spec => []BootInv
<1>1. Init => BootInv
  BY DEF Init, BootInv
<1> QED BY <1>1, BootStep, TypeCorrect, PTL DEF Spec

(* A login about to commit is late, or its user still has the password it  *)
(* verified.                                                               *)
LoginInv ==
    \A q \in Request : At(q, {"login"}, "commit") =>
        \/ op[q].late
        \/ op[q].target \in Users /\ users[op[q].target].hash = op[q].entity.hash

(* A step that leaves users' hashes, opens no session and adds no login. *)
LEMMA StaleKept ==
    ASSUME NoOrphans, StaleSessionsRaced, LoginInv,
           \A u \in Users : u \in Users' /\ users'[u] = users[u],
           sessions' \subseteq sessions,
           \A q \in Request : op'[q] = op[q] \/ ~At(q, {"login"}, "commit")'
    PROVE  StaleSessionsRaced' /\ LoginInv'
<1>1. StaleSessionsRaced'
  BY DEF StaleSessionsRaced, NoOrphans
<1>2. LoginInv'
  BY DEF LoginInv, At
<1> QED BY <1>1, <1>2

LEMMA StaleStep ==
    ASSUME TypeOK, NoOrphans, BootInv, StaleSessionsRaced, LoginInv, [Next]_vars
    PROVE  StaleSessionsRaced' /\ LoginInv'
<1>1. CASE UNCHANGED vars \/ EndSession \/ Restart \/ (Boot /\ Users # {})
  <2>1. users' = users /\ sessions' \subseteq sessions
    BY <1>1 DEF vars, EndSession, Restart, Boot
  <2>2. \A q \in Request : op'[q] = op[q] \/ op'[q] = None
    BY <1>1 DEF vars, EndSession, Restart, Boot
  <2> QED BY <2>1, <2>2, StaleKept DEF Users, At
<1>2. CASE Boot /\ Users = {}
  <2>1. sessions' = sessions /\ op' = op
    BY <1>2 DEF Boot
  <2> QED BY <1>2, <2>1, StaleKept
<1>3. ASSUME NEW q \in Request, Steps(q)
      PROVE  StaleSessionsRaced' /\ LoginInv'
  <2>1. /\ UNCHANGED <<users, sessions, keys>>
        /\ \A p \in Request : p # q => op'[p] = op[p]
    BY <1>3, StepsWrite
  <2>2. CASE ~At(q, {"login"}, "commit")'
    BY <2>1, <2>2, StaleKept DEF Users
  <2>3. CASE At(q, {"login"}, "commit")'
    <3>1. op'[q] # None /\ op'[q].kind = "login" /\ op'[q].step = "commit"
      BY <2>3 DEF At
    <3>2. Opened(q)
      BY <1>3, <3>1, StepsWrite
         DEF Admitted, Changed, Found, ReadAgain, SessionKinds, UserKinds, KeyKinds
    <3>3. LoginInv'
      BY <2>1, <3>2 DEF LoginInv, At, Opened, Users
    <3>4. StaleSessionsRaced'
      BY <2>1 DEF StaleSessionsRaced, Users
    <3> QED BY <3>3, <3>4
  <2> QED BY <2>2, <2>3
<1>4. ASSUME NEW q \in Request, CommitLogin(q)
      PROVE  StaleSessionsRaced' /\ LoginInv'
  <2>1. /\ users' = users /\ At(q, {"login"}, "commit")
        /\ op'[q] = None /\ \A p \in Request : p # q => op'[p] = op[p]
    BY <1>4 DEF CommitLogin, Return, TypeOK
  <2>2. CASE sessions' = sessions
    BY <2>1, <2>2, StaleKept DEF Users, At
  <2>3. CASE sessions' = sessions \cup
               {[token |-> Fresh, user |-> op[q].target,
                 hash |-> op[q].entity.hash, late |-> op[q].late]}
    <3>1. StaleSessionsRaced'
      BY <2>1, <2>3 DEF StaleSessionsRaced, LoginInv, Users
    <3>2. LoginInv'
      BY <2>1 DEF LoginInv, At, Users
    <3> QED BY <3>1, <3>2
  <2> QED BY <1>4, <2>2, <2>3 DEF CommitLogin, NewSession
<1>5. ASSUME NEW q \in Request, NEW u \in UserId, ReturnLate(q, u), sessions' = Forget(u),
             \A v \in Users : v # u => v \in Users' /\ users'[v] = users[v]
      PROVE  StaleSessionsRaced' /\ LoginInv'
  <2>1. StaleSessionsRaced'
    BY <1>5 DEF StaleSessionsRaced, Forget, NoOrphans
  <2>2. /\ op'[q] = None
        /\ \A p \in Request : p # q =>
             IF At(p, {"login"}, "commit") /\ op[p].target = u
             THEN Delayed(p) ELSE op'[p] = op[p]
    BY <1>5, ReturnLateWrites
  <2>3. LoginInv'
    BY <1>5, <2>2 DEF LoginInv, At, Delayed
  <2> QED BY <2>1, <2>3
<1>6. ASSUME NEW q \in Request, CommitPassword(q)
      PROVE  StaleSessionsRaced' /\ LoginInv'
  <2>1. CASE op[q].target \notin Users
    <3>1. UNCHANGED <<users, sessions>> /\ Return(q)
      BY <1>6, <2>1 DEF CommitPassword
    <3>2. op'[q] = None /\ \A p \in Request : p # q => op'[p] = op[p]
      BY <3>1 DEF Return, TypeOK
    <3> QED BY <3>1, <3>2, StaleKept DEF Users, At
  <2>2. CASE op[q].target \in Users
    <3>1. /\ users' = [users EXCEPT ![op[q].target] =
                         WrittenUser(@, op[q].base, op[q].entity)]
          /\ sessions' = Forget(op[q].target) /\ ReturnLate(q, op[q].target)
      BY <1>6, <2>2 DEF CommitPassword
    <3>2. \A v \in Users : v # op[q].target => v \in Users' /\ users'[v] = users[v]
      BY <3>1, Shape DEF Users
    <3> QED BY <1>5, <2>2, <3>1, <3>2, Shape
  <2> QED BY <2>1, <2>2
<1>7. ASSUME NEW q \in Request, CommitDeleteUser(q)
      PROVE  StaleSessionsRaced' /\ LoginInv'
  <2>1. /\ users' = [users EXCEPT ![op[q].target] = None]
        /\ sessions' = Forget(op[q].target) /\ ReturnLate(q, op[q].target)
    BY <1>7 DEF CommitDeleteUser
  <2>2. \A v \in Users : v # op[q].target => v \in Users' /\ users'[v] = users[v]
    BY <2>1, Shape DEF Users
  <2>3. op[q].target \in UserId
    BY <1>7, OpTypes DEF CommitDeleteUser, At, WellFormed
  <2> QED BY <1>5, <2>1, <2>2, <2>3
<1>8. ASSUME NEW q \in Request, CommitCreateUser(q)
      PROVE  StaleSessionsRaced' /\ LoginInv'
  <2>1. PICK role \in Role :
          users' = [users EXCEPT ![NextUser] =
                      [hash |-> Fresh, role |-> role, must_change |-> FALSE]]
    BY <1>8 DEF CommitCreateUser, NewUser
  <2>2. /\ sessions' = sessions
        /\ op'[q] = None /\ \A p \in Request : p # q => op'[p] = op[p]
    BY <1>8 DEF CommitCreateUser, Return, TypeOK
  <2>3. \A u \in Users : u # NextUser
    BY NewIds
  <2>4. \A u \in Users : u \in Users' /\ users'[u] = users[u]
    BY <2>1, <2>3, Shape DEF Users
  <2> QED BY <2>2, <2>4, StaleKept DEF At
<1>9. ASSUME NEW q \in Request, CommitCreateKey(q) \/ CommitKey(q)
      PROVE  StaleSessionsRaced' /\ LoginInv'
  <2>1. users' = users /\ sessions' = sessions /\ Return(q)
    BY <1>9 DEF CommitCreateKey, CommitKey
  <2>2. op'[q] = None /\ \A p \in Request : p # q => op'[p] = op[p]
    BY <2>1 DEF Return, TypeOK
  <2> QED BY <2>1, <2>2, StaleKept DEF Users, At
<1>10. ASSUME NEW q \in Request, Commits(q)
       PROVE  StaleSessionsRaced' /\ LoginInv'
  BY <1>4, <1>6, <1>7, <1>8, <1>9, <1>10 DEF Commits
<1>11. \/ UNCHANGED vars \/ EndSession \/ Restart \/ Boot
       \/ \E q \in Request : Steps(q) \/ Commits(q)
  BY NextSplit
<1>12. CASE Boot
  BY <1>1, <1>2, <1>12
<1> QED BY <1>1, <1>3, <1>10, <1>11, <1>12

(* A session opened with a password that is no longer the user's comes     *)
(* from a login that overlapped the change, and from nothing else.         *)
THEOREM StaleSessionsRacedHolds == Spec => []StaleSessionsRaced
<1>1. Init => StaleSessionsRaced /\ LoginInv
  BY DEF Init, StaleSessionsRaced, LoginInv, At
<1> QED BY <1>1, StaleStep, TypeCorrect, NoOrphansHolds, BootHolds, PTL DEF Spec

-----------------------------------------------------------------------------
(* The bootstrap password *)

(* While a user must change the password, requests that passed the checks  *)
(* only log in or change a password.                                       *)
Forced == {u \in Users : users[u].must_change}
ConfinedInv ==
    Forced # {} =>
      \A q \in Request :
        \/ op[q] = None \/ op[q].step = "user" \/ op[q].kind \in {"login", "password"}

(* No commit obliges a user to change the password.                        *)
LEMMA ForcedShrinks ==
    ASSUME TypeOK, EntityInv, NEW q \in Request, Commits(q)
    PROVE  Forced' \subseteq Forced
<1>1. CASE users' = users
  BY <1>1 DEF Forced, Users
<1>2. CASE CommitPassword(q) /\ op[q].target \in Users
  <2> DEFINE o == op[q]
             u == op[q].target
             written == WrittenUser(users[u], o.base, o.entity)
  <2>1. users' = [users EXCEPT ![u] = written]
    BY <1>2 DEF CommitPassword
  <2>2. /\ o # None /\ o.kind \in UserKinds /\ o.step = "commit"
        /\ o.entity \in UserRow /\ o.base \in UserRow
    BY <1>2, OpTypes DEF CommitPassword, At, WellFormed
  <2>3. ~o.entity.must_change
    BY <2>2 DEF EntityInv, Saving
  <2>4. written.must_change =
          Column(users[u].must_change, o.base.must_change, o.entity.must_change)
    BY DEF WrittenUser
  <2> HIDE DEF written
  <2>5. written.must_change => users[u].must_change
    BY <2>2, <2>3, <2>4 DEF Column, UserRow
  <2>6. \A v \in UserId : v # u => users'[v] = users[v]
    BY <2>1, Shape
  <2>7. users'[u] = written /\ u \in Users
    BY <1>2, <2>1, Shape
  <2> QED BY <2>5, <2>6, <2>7 DEF Forced, Users
<1>3. CASE CommitCreateUser(q)
  <2>1. PICK role \in Role :
          users' = [users EXCEPT ![NextUser] =
                      [hash |-> Fresh, role |-> role, must_change |-> FALSE]]
    BY <1>3 DEF CommitCreateUser, NewUser
  <2>2. \A v \in UserId : \/ users'[v] = users[v]
                          \/ ~users'[v].must_change
    BY <2>1, Shape
  <2> QED BY <2>2 DEF Forced, Users
<1>4. CASE CommitDeleteUser(q)
  <2>1. users' = [users EXCEPT ![op[q].target] = None]
    BY <1>4 DEF CommitDeleteUser
  <2>2. \A v \in UserId : users'[v] = users[v] \/ users'[v] = None
    BY <2>1, Shape
  <2> QED BY <2>2 DEF Forced, Users
<1> QED BY <1>1, <1>2, <1>3, <1>4
        DEF Commits, CommitLogin, CommitPassword, CommitCreateKey, CommitKey

LEMMA ConfinedStep ==
    ASSUME TypeOK, NoOrphans, BootInv, EntityInv, BootstrapConfined, ConfinedInv,
           [Next]_vars
    PROVE  BootstrapConfined' /\ ConfinedInv'
<1>1. CASE UNCHANGED vars \/ EndSession \/ Restart \/ (Boot /\ Users # {})
  <2>1. users' = users /\ keys' = keys
    BY <1>1 DEF vars, EndSession, Restart, Boot
  <2>2. \A q \in Request : op'[q] = op[q] \/ op'[q] = None
    BY <1>1 DEF vars, EndSession, Restart, Boot
  <2> QED BY <2>1, <2>2 DEF BootstrapConfined, ConfinedInv, Forced, Users, Keys
<1>2. CASE Boot /\ Users = {}
  <2>1. Keys = {}
    BY <1>2 DEF NoOrphans
  <2>2. /\ keys' = keys /\ op' = op
        /\ users' = [users EXCEPT ![1] =
                       [hash |-> Fresh, role |-> "admin", must_change |-> TRUE]]
    BY <1>2 DEF Boot, NewUser
  <2>3. Keys' = {}
    BY <2>1, <2>2 DEF Keys
  <2>4. Users' \subseteq {1}
    BY <1>2, <2>2, Shape DEF Users
  <2>5. \A q \in Request : op'[q] = None
    BY <1>2, <2>2 DEF BootInv, Boot
  <2> QED BY <2>3, <2>4, <2>5 DEF BootstrapConfined, ConfinedInv
<1>3. ASSUME NEW q \in Request, Steps(q)
      PROVE  BootstrapConfined' /\ ConfinedInv'
  <2>1. /\ UNCHANGED <<users, sessions, keys>>
        /\ \A p \in Request : p # q => op'[p] = op[p]
    BY <1>3, StepsWrite
  <2>2. BootstrapConfined' /\ Forced' = Forced
    BY <2>1 DEF BootstrapConfined, Forced, Users, Keys
  <2>3. ASSUME Forced # {}, op'[q] # None, op'[q].step # "user"
        PROVE  op'[q].kind \in {"login", "password"}
    <3>1. PICK u \in Users : users[u].must_change
      BY <2>3 DEF Forced
    <3>2. Users = {u} /\ Keys = {}
      BY <3>1 DEF BootstrapConfined
    <3>3. CASE Opened(q)
      BY <3>3 DEF Opened
    <3>4. CASE Admitted(q)
      BY <3>1, <3>2, <3>4 DEF Admitted, Permitted, Administers
    <3>5. CASE Changed(q)
      BY <2>3, <3>5 DEF Changed, ConfinedInv
    <3>6. CASE Found(q)
      BY <3>2, <3>6 DEF Found
    <3>7. CASE ReadAgain(q)
      BY <2>3, <3>7 DEF ReadAgain, ConfinedInv
    <3> QED BY <1>3, <2>3, <3>3, <3>4, <3>5, <3>6, <3>7, StepsWrite
  <2>4. ConfinedInv'
    BY <2>1, <2>2, <2>3 DEF ConfinedInv
  <2> QED BY <2>2, <2>4
<1>4. ASSUME NEW q \in Request, Commits(q)
      PROVE  BootstrapConfined' /\ ConfinedInv'
  <2>1. Forced' \subseteq Forced
    BY <1>4, ForcedShrinks
  <2>2. op'[q] = None /\ \A p \in Request : p # q => op'[p] = op[p] \/ Delayed(p)
    BY <1>4, CommitsWrite
  <2>3. ConfinedInv'
    BY <2>1, <2>2 DEF ConfinedInv, Delayed
  <2>4. ASSUME NEW u \in Forced'
        PROVE  Users' = {u} /\ Keys' = {}
    <3>1. u \in Forced /\ Users = {u} /\ Keys = {}
      BY <2>1, <2>4 DEF BootstrapConfined, Forced
    <3>2. op[q] # None /\ op[q].step # "user"
      BY <1>4 DEF Commits, CommitLogin, CommitPassword, CommitCreateUser,
         CommitDeleteUser, CommitCreateKey, CommitKey, At
    <3>3. op[q].kind \in {"login", "password"}
      BY <3>1, <3>2 DEF ConfinedInv
    <3>4. CommitLogin(q) \/ CommitPassword(q)
      BY <1>4, <3>3 DEF Commits, CommitCreateUser, CommitDeleteUser,
         CommitCreateKey, CommitKey, At, KeyKinds
    <3>5. keys' = keys
      BY <3>4 DEF CommitLogin, CommitPassword
    <3>6. Users' \subseteq Users
      BY <3>4, Shape DEF CommitLogin, CommitPassword, Users
    <3>7. u \in Users'
      BY DEF Forced
    <3> QED BY <3>1, <3>5, <3>6, <3>7 DEF Keys
  <2>5. BootstrapConfined'
    BY <2>4 DEF BootstrapConfined, Forced
  <2> QED BY <2>3, <2>5
<1>5. \/ UNCHANGED vars \/ EndSession \/ Restart \/ Boot
      \/ \E q \in Request : Steps(q) \/ Commits(q)
  BY NextSplit
<1>6. CASE Boot
  BY <1>1, <1>2, <1>6
<1> QED BY <1>1, <1>3, <1>4, <1>5, <1>6

(* Until the bootstrap password is changed its user is alone and owns no   *)
(* key, whatever requests overlap, and also after a restart on an emptied  *)
(* table.                                                                  *)
THEOREM BootstrapConfinedHolds == Spec => []BootstrapConfined
<1>1. Init => BootstrapConfined /\ ConfinedInv
  BY DEF Init, BootstrapConfined, ConfinedInv, Users
<1> QED BY <1>1, ConfinedStep, TypeCorrect, NoOrphansHolds, BootHolds, EntityHolds,
           PTL DEF Spec
=============================================================================
