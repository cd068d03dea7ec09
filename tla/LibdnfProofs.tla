---------------------------- MODULE LibdnfProofs ----------------------------
(***************************************************************************)
(* Proofs about the countme cookie (module Countme), the filters of a sack *)
(* (CommonSack), the choice of a source (RepoHandle), what a microdnf      *)
(* command does of what was asked (Microdnf) and which value of an option  *)
(* holds (Conf).                                                           *)
(***************************************************************************)
EXTENDS Countme, CommonSack, RepoHandle, Microdnf, Conf, WellFoundedInduction, FiniteSetTheorems, TLAPS

-----------------------------------------------------------------------------
(* Arithmetic.  What the provers know of division, said once.              *)

LEMMA DivisionFacts ==
    ASSUME NEW a \in Nat, NEW b \in Nat \ {0}
    PROVE  /\ a \div b \in Nat /\ a % b \in 0 .. b - 1
           /\ a = b * (a \div b) + (a % b)
OBVIOUS

LEMMA ProductFacts ==
    ASSUME NEW a \in Nat, NEW c \in Nat, NEW b \in Nat \ {0}
    PROVE  /\ a * b \in Nat
           /\ a < c => a * b + b <= c * b
           /\ c <= a => c * b <= a * b
OBVIOUS

LEMMA DivisionMonotone ==
    ASSUME NEW a \in Nat, NEW c \in Nat, a <= c, NEW b \in Nat \ {0}
    PROVE  a \div b <= c \div b
<1> DEFINE x == a \div b
           y == c \div b
<1>1. x \in Nat /\ y \in Nat /\ b * x <= a /\ c < b * y + b
  BY DivisionFacts
<1> HIDE DEF x, y
<1>2. ~ (y < x)
  <2>1. y < x => y * b + b <= x * b
    BY <1>1, ProductFacts
  <2>2. y * b = b * y /\ x * b = b * x /\ x * b \in Nat /\ y * b \in Nat
    BY <1>1, ProductFacts
  <2> QED
    BY <1>1, <2>1, <2>2
<1> QED
  BY <1>1, <1>2 DEF x, y

\* Every set of numbers that is not empty has a smallest one.
LEMMA HasSmallest ==
    ASSUME NEW T \in SUBSET Nat, T # {}
    PROVE  \E x \in T : \A y \in T : x <= y
<1> DEFINE R == OpToRel(<, Nat)
<1>1. \A a, b \in Nat : a < b => <<a, b>> \in R
  BY DEF OpToRel
<1>2. IsWellFoundedOn(R, Nat)
  BY NatLessThanWellFounded
<1> HIDE DEF R
<1>3. PICK x \in T : \A y \in T : ~ (<<y, x>> \in R)
  BY <1>2, WFMin
<1>4. \A y \in T : ~ (y < x)
  BY <1>1, <1>3
<1>5. \A y \in T : x <= y
  BY <1>4
<1> QED
  BY <1>5

-----------------------------------------------------------------------------
(* Windows of time.                                                        *)

\* Where window w starts, and that a time is such a place.
Start(w) == COUNTME_OFFSET + w * COUNTME_WINDOW
Aligned(x) == (x - COUNTME_OFFSET) % COUNTME_WINDOW = 0

LEMMA WindowHoldsTime ==
    ASSUME NEW t \in Nat, COUNTME_OFFSET <= t
    PROVE  /\ WindowOf(t) \in Nat
           /\ Start(WindowOf(t)) <= t /\ t < Start(WindowOf(t)) + COUNTME_WINDOW
<1>1. t - COUNTME_OFFSET \in Nat /\ COUNTME_WINDOW \in Nat \ {0}
  BY CountmeAssumption
<1>2. WindowOf(t) \in Nat
  BY <1>1, DivisionFacts DEF WindowOf
<1> QED
  BY <1>1, <1>2, CountmeAssumption, DivisionFacts DEF WindowOf, Start

LEMMA StartsAreOrdered ==
    ASSUME NEW w \in Nat, NEW v \in Nat
    PROVE  /\ Start(w) \in Nat /\ COUNTME_OFFSET <= Start(w)
           /\ w < v <=> Start(w) + COUNTME_WINDOW <= Start(v)
           /\ w <= v <=> Start(w) <= Start(v)
BY CountmeAssumption, ProductFacts DEF Start

LEMMA OneWindowPerTime ==
    ASSUME NEW t \in Nat, COUNTME_OFFSET <= t, NEW w \in Nat,
           Start(w) <= t, t < Start(w) + COUNTME_WINDOW
    PROVE  WindowOf(t) = w
<1> DEFINE v == WindowOf(t)
<1>1. v \in Nat /\ Start(v) <= t /\ t < Start(v) + COUNTME_WINDOW
  BY WindowHoldsTime
<1> HIDE DEF v
<1>2. /\ v < w <=> Start(v) + COUNTME_WINDOW <= Start(w)
      /\ w < v <=> Start(w) + COUNTME_WINDOW <= Start(v)
      /\ Start(v) \in Nat /\ Start(w) \in Nat /\ COUNTME_WINDOW \in Nat
  BY <1>1, StartsAreOrdered, CountmeAssumption
<1>3. ~ (v < w) /\ ~ (w < v)
  BY <1>1, <1>2
<1> QED
  BY <1>1, <1>3 DEF v

LEMMA AlignedIsStart ==
    ASSUME NEW t \in Nat, COUNTME_OFFSET <= t, Aligned(t)
    PROVE  WindowOf(t) \in Nat /\ Start(WindowOf(t)) = t
<1> DEFINE d == t - COUNTME_OFFSET
           w == d \div COUNTME_WINDOW
<1>1. d \in Nat /\ COUNTME_WINDOW \in Nat \ {0} /\ COUNTME_OFFSET \in Nat /\ t = COUNTME_OFFSET + d
  BY CountmeAssumption
<1>2. d % COUNTME_WINDOW = 0
  BY DEF Aligned
<1> HIDE DEF d
<1>3. w \in Nat /\ d = COUNTME_WINDOW * w
  BY <1>1, <1>2, DivisionFacts
<1> HIDE DEF w
<1>4. Start(w) = t
  BY <1>1, <1>3 DEF Start
<1> QED
  BY <1>3, <1>4 DEF WindowOf, d, w

LEMMA StartIsAligned ==
    ASSUME NEW w \in Nat
    PROVE  Aligned(Start(w))
<1>1. COUNTME_WINDOW \in Nat \ {0} /\ COUNTME_OFFSET \in Nat
  BY CountmeAssumption
<1>2. w * COUNTME_WINDOW \in Nat
  BY <1>1, ProductFacts
<1>3. Start(w) - COUNTME_OFFSET = w * COUNTME_WINDOW
  BY <1>1, <1>2 DEF Start
<1>4. (w * COUNTME_WINDOW) % COUNTME_WINDOW = 0
  BY <1>1
<1> QED
  BY <1>3, <1>4 DEF Aligned

\* The window the code counts starts where the window of the time does.
LEMMA CountedWindow ==
    ASSUME NEW t \in Nat, NEW x \in Nat, COUNTME_OFFSET <= x, x <= t, Aligned(x)
    PROVE  t - ((t - x) % COUNTME_WINDOW) = Start(WindowOf(t))
<1>1. WindowOf(x) \in Nat /\ x = Start(WindowOf(x))
  BY AlignedIsStart
<1>2. PICK k \in Nat : x = Start(k)
  BY <1>1
<1> DEFINE d == t - x
<1>3. d \in Nat /\ COUNTME_WINDOW \in Nat \ {0} /\ COUNTME_OFFSET \in Nat
  BY CountmeAssumption
<1> HIDE DEF d
<1> DEFINE a == d \div COUNTME_WINDOW
           r == d % COUNTME_WINDOW
<1>4. d = COUNTME_WINDOW * a + r /\ a \in Nat /\ r \in 0 .. COUNTME_WINDOW - 1
  BY <1>3, DivisionFacts
<1> HIDE DEF a, r
<1>5. t = x + d
  BY DEF d
<1>6. Start(k + a) = Start(k) + COUNTME_WINDOW * a /\ k + a \in Nat
  BY <1>3, <1>4 DEF Start
<1>7. Start(k + a) \in Nat /\ COUNTME_WINDOW * a \in Nat /\ Start(k) \in Nat
  BY <1>3, <1>4, <1>6, StartsAreOrdered
<1>8. t = Start(k + a) + r
  BY <1>2, <1>4, <1>5, <1>6, <1>7
<1>9. WindowOf(t) = k + a
  BY <1>3, <1>4, <1>6, <1>7, <1>8, OneWindowPerTime, StartsAreOrdered
<1> QED
  BY <1>4, <1>7, <1>8, <1>9 DEF r, d

\* The windows of the times of a behaviour.
LEMMA WindowInRange ==
    ASSUME NEW t \in Nat, COUNTME_OFFSET <= t, t <= COUNTME_OFFSET + MaxTime
    PROVE  WindowOf(t) \in Windows
<1> DEFINE e == COUNTME_OFFSET + MaxTime
<1>1. e \in Nat /\ COUNTME_OFFSET <= e /\ t <= e
  BY CountmeAssumption
<1>2. t - COUNTME_OFFSET \in Nat /\ e - COUNTME_OFFSET \in Nat /\ COUNTME_WINDOW \in Nat \ {0}
      /\ t - COUNTME_OFFSET <= e - COUNTME_OFFSET
  BY <1>1, CountmeAssumption
<1>3. WindowOf(t) <= WindowOf(e)
  BY <1>2, DivisionMonotone DEF WindowOf
<1>4. WindowOf(t) \in Nat /\ WindowOf(e) \in Nat
  BY <1>1, WindowHoldsTime
<1> QED
  BY <1>3, <1>4 DEF Windows

LEMMA WindowsAreNumbers == Windows \subseteq Nat
BY DEF Windows

-----------------------------------------------------------------------------
(* Buckets.                                                                *)

InBucket(step, i) ==
    /\ \A j \in 1 .. i - 1 : step >= COUNTME_BUCKETS[j]
    /\ i <= Len(COUNTME_BUCKETS) => step < COUNTME_BUCKETS[i]

LEMMA BucketExists ==
    ASSUME NEW step \in Nat
    PROVE  /\ BucketOf(step) \in 1 .. Len(COUNTME_BUCKETS) + 1
           /\ InBucket(step, BucketOf(step))
<1> DEFINE n == Len(COUNTME_BUCKETS)
           T == {i \in 1 .. n + 1 : i <= n => step < COUNTME_BUCKETS[i]}
<1>1. n \in Nat /\ \A j \in 1 .. n : COUNTME_BUCKETS[j] \in Nat
  BY CountmeAssumption
<1> HIDE DEF n
<1>2. T \in SUBSET Nat /\ n + 1 \in T
  BY <1>1
<1>3. PICK i \in T : \A y \in T : i <= y
  BY <1>2, HasSmallest
<1>4. \A j \in 1 .. i - 1 : step >= COUNTME_BUCKETS[j]
  <2>1. SUFFICES ASSUME NEW j \in 1 .. i - 1 PROVE step >= COUNTME_BUCKETS[j]
    OBVIOUS
  <2>2. j \in 1 .. n /\ j < i
    BY <1>1, <1>3, <2>1
  <2>3. j \notin T
    BY <1>3, <2>2
  <2> QED
    BY <1>1, <2>2, <2>3
<1>5. \E k \in 1 .. Len(COUNTME_BUCKETS) + 1 :
         /\ \A j \in 1 .. k - 1 : step >= COUNTME_BUCKETS[j]
         /\ k <= Len(COUNTME_BUCKETS) => step < COUNTME_BUCKETS[k]
  BY <1>3, <1>4 DEF n
<1> QED
  BY <1>5 DEF BucketOf, InBucket

\* The longer a system has been counted, the higher its bucket.
LEMMA BucketMonotone ==
    ASSUME NEW s \in Nat, NEW u \in Nat, s <= u
    PROVE  BucketOf(s) <= BucketOf(u)
<1> DEFINE i == BucketOf(s)
           k == BucketOf(u)
           n == Len(COUNTME_BUCKETS)
<1>1. n \in Nat /\ \A j \in 1 .. n : COUNTME_BUCKETS[j] \in Nat
  BY CountmeAssumption
<1>2. i \in 1 .. n + 1 /\ k \in 1 .. n + 1 /\ InBucket(s, i) /\ InBucket(u, k)
  BY BucketExists
<1> HIDE DEF i, k
<1>3. ~ (k < i)
  <2>1. SUFFICES ASSUME k < i PROVE FALSE
    OBVIOUS
  <2>2. k \in 1 .. i - 1 /\ k \in 1 .. n
    BY <1>1, <1>2, <2>1
  <2>3. s >= COUNTME_BUCKETS[k] /\ u < COUNTME_BUCKETS[k] /\ COUNTME_BUCKETS[k] \in Nat
    BY <1>1, <1>2, <2>2 DEF InBucket
  <2> QED
    BY <2>3
<1> QED
  BY <1>1, <1>2, <1>3 DEF i, k

-----------------------------------------------------------------------------
(* The invariant of countme for one process, over the values it speaks of:  *)
(* the time t, the cookie ck, the place stage of the call, the values m in its  *)
(* memory, the flag f of its request, and the counts of the origin.         *)

CookieRecs == [epoch : Nat, win : Nat, budget : {-1} \cup 1 .. COUNTME_BUDGET]

CookieOk(c, t) ==
    /\ c \in CookieRecs
    /\ Aligned(c.win) /\ COUNTME_OFFSET <= c.win /\ c.win <= t
    /\ c.epoch # 0 => Aligned(c.epoch) /\ COUNTME_OFFSET <= c.epoch /\ c.epoch <= c.win

CmKinds(t, ck, stage, m, f, cnt, req, b) ==
    /\ t \in Nat /\ COUNTME_OFFSET + COUNTME_WINDOW <= t /\ t <= COUNTME_OFFSET + MaxTime
    /\ stage \in {"idle", "decide", "open", "write", "send"}
    /\ CookieOk(ck, t) /\ CookieOk(m, t)
    /\ f \in [window : Windows, bucket : Nat]
    /\ cnt \in [Windows -> Nat] /\ req \in [Windows -> Nat] /\ b \in Nat

\* The cookie that the next call will start from, if nobody is killed.
Cur(ck, stage, m) == IF stage = "idle" THEN ck ELSE m

\* A request that will carry the flag is under way.
Pending(stage, f) == stage \in {"open", "write", "send"} /\ f.bucket # 0

\* The requests of window w, with the one under way unless it has the flag.
Asked(stage, f, req, w) ==
    IF stage \in {"open", "write", "send"} /\ f.bucket = 0 /\ f.window = w THEN req[w] + 1 ELSE req[w]

\* A counted window is in the cookie or is over; while the cookie is being
\* rewritten all of them are over, and a flag is for a later one.
CmOnce(t, ck, stage, m, f, cnt) ==
    /\ stage \in {"decide", "send"} => ck = m
    /\ \A w \in Windows : cnt[w] <= 1
    /\ \A w \in Windows : cnt[w] # 0 => Start(w) <= ck.win \/ Start(w) + COUNTME_WINDOW <= t
    /\ stage \in {"open", "write"} =>
          \A w \in Windows : cnt[w] # 0 => Start(w) + COUNTME_WINDOW <= t
    /\ Pending(stage, f) =>
          m.win = Start(f.window) /\ \A w \in Windows : cnt[w] # 0 => w < f.window

\* A window that is not counted has spent of the budget what it has asked; the
\* cookie names only windows that are counted or about to be.
CmAsked(t, ck, stage, m, f, cnt, req) ==
    LET c == Cur(ck, stage, m) IN
    \A w \in Windows :
        /\ Asked(stage, f, req, w) # 0 => Start(w) <= t
        /\ cnt[w] = 0 => Asked(stage, f, req, w) < COUNTME_BUDGET
        /\ cnt[w] = 0 /\ Asked(stage, f, req, w) # 0 /\ c.win < Start(w) =>
              c.budget >= 1 /\ Asked(stage, f, req, w) + c.budget <= COUNTME_BUDGET
        /\ w # 0 /\ c.win = Start(w) => cnt[w] # 0 \/ (Pending(stage, f) /\ f.window = w)

\* The bucket sent last is not above that of the cookie.
StepOf(c) == (c.win - c.epoch) \div COUNTME_WINDOW

CmBucket(ck, stage, m, f, b) ==
    LET c == Cur(ck, stage, m) IN
    /\ c.epoch = 0 => b = 0
    /\ c.epoch # 0 => b <= BucketOf(StepOf(c))
    /\ Pending(stage, f) => c.epoch # 0 /\ f.bucket = BucketOf(StepOf(c))

CmGood(t, ck, stage, m, f, cnt, req, b, dead) ==
    /\ CmKinds(t, ck, stage, m, f, cnt, req, b)
    /\ CmOnce(t, ck, stage, m, f, cnt)
    /\ ~ dead => CmAsked(t, ck, stage, m, f, cnt, req) /\ CmBucket(ck, stage, m, f, b)

CmInv(q) ==
    /\ cmPc \in [Proc -> {"idle", "decide", "open", "write", "send"}]
    /\ mem \in [Proc -> CookieRecs]
    /\ flag \in [Proc -> [window : Windows, bucket : Nat]]
    /\ CmGood(now, cookie, cmPc[q], mem[q], flag[q], counted, requests, bucket, killed)

\* The absent cookie is a good one.
LEMMA NoCookieOk ==
    ASSUME NEW t \in Nat, COUNTME_OFFSET <= t
    PROVE  CookieOk(NoCookie, t) /\ NoCookie.win = Start(0) /\ NoCookie.epoch = 0
<1>1. COUNTME_OFFSET \in Nat /\ Start(0) = COUNTME_OFFSET
  BY CountmeAssumption DEF Start
<1>2. NoCookie \in CookieRecs /\ NoCookie.win = COUNTME_OFFSET /\ NoCookie.epoch = 0
  BY <1>1 DEF NoCookie, CookieRecs
<1>3. Aligned(COUNTME_OFFSET)
  BY <1>1, StartIsAligned
<1> QED
  BY <1>1, <1>2, <1>3 DEF CookieOk

\* Reading the cookie.
LEMMA LoadKeeps ==
    ASSUME NEW t, NEW ck, NEW m, NEW f, NEW cnt, NEW req, NEW b, NEW dead,
           CmGood(t, ck, "idle", m, f, cnt, req, b, dead)
    PROVE  CmGood(t, ck, "decide", ck, f, cnt, req, b, dead)
<1>1. CmKinds(t, ck, "decide", ck, f, cnt, req, b)
  BY DEF CmGood, CmKinds
<1>2. CmOnce(t, ck, "decide", ck, f, cnt)
  BY DEF CmGood, CmOnce, Pending
<1>3. CmAsked(t, ck, "idle", m, f, cnt, req) => CmAsked(t, ck, "decide", ck, f, cnt, req)
  BY DEF CmAsked, Asked, Pending, Cur
<1>4. CmBucket(ck, "idle", m, f, b) => CmBucket(ck, "decide", ck, f, b)
  BY DEF CmBucket, Pending, Cur
<1> QED
  BY <1>1, <1>2, <1>3, <1>4 DEF CmGood

\* The window is the one in the cookie: it has been counted.
LEMMA AlreadyKeeps ==
    ASSUME NEW t, NEW ck, NEW m, NEW f, NEW cnt, NEW req, NEW b, NEW dead \in BOOLEAN,
           CmGood(t, ck, "decide", m, f, cnt, req, b, dead), ~ (t - m.win >= COUNTME_WINDOW)
    PROVE  CmGood(t, ck, "send", m, [window |-> WindowOf(t), bucket |-> 0], cnt, req, b, dead)
<1> DEFINE g == [window |-> WindowOf(t), bucket |-> 0]
           v == WindowOf(t)
<1>1. /\ t \in Nat /\ COUNTME_OFFSET + COUNTME_WINDOW <= t /\ t <= COUNTME_OFFSET + MaxTime
      /\ m \in CookieRecs /\ Aligned(m.win) /\ COUNTME_OFFSET <= m.win /\ m.win <= t
      /\ ck = m
  BY DEF CmGood, CmKinds, CmOnce, CookieOk
<1>2. m.win \in Nat /\ COUNTME_OFFSET \in Nat /\ COUNTME_WINDOW \in Nat \ {0}
  BY <1>1, CountmeAssumption DEF CookieRecs
<1>3. COUNTME_OFFSET <= t
  BY <1>1, <1>2
<1>4. v \in Windows /\ v \in Nat
  BY <1>1, <1>3, WindowInRange, WindowHoldsTime
<1>5. m.win = Start(v) /\ v # 0
  <2>1. WindowOf(m.win) \in Nat /\ Start(WindowOf(m.win)) = m.win
    BY <1>1, <1>2, AlignedIsStart
  <2>2. t < m.win + COUNTME_WINDOW
    BY <1>1, <1>2
  <2>3. WindowOf(t) = WindowOf(m.win)
    BY <1>1, <1>3, <2>1, <2>2, OneWindowPerTime
  <2>4. Start(0) = COUNTME_OFFSET
    BY <1>2 DEF Start
  <2> QED
    BY <1>1, <1>2, <2>1, <2>2, <2>3, <2>4
<1>6. g \in [window : Windows, bucket : Nat] /\ g.window = v /\ g.bucket = 0
  BY <1>4
<1> HIDE DEF g, v
<1>7. CmKinds(t, ck, "send", m, g, cnt, req, b)
  BY <1>6 DEF CmGood, CmKinds
<1>8. CmOnce(t, ck, "send", m, g, cnt)
  BY <1>1, <1>6 DEF CmGood, CmOnce, Pending
<1>9. ASSUME ~ dead PROVE CmAsked(t, ck, "send", m, g, cnt, req)
  <2>1. CmAsked(t, ck, "decide", m, f, cnt, req)
    BY <1>9 DEF CmGood
  <2>2. cnt[v] # 0
    BY <1>4, <1>5, <2>1 DEF CmAsked, Cur, Pending
  <2>3. Start(v) <= t
    BY <1>1, <1>5
  <2>4. SUFFICES ASSUME NEW w \in Windows
                 PROVE  /\ Asked("send", g, req, w) # 0 => Start(w) <= t
                        /\ cnt[w] = 0 => Asked("send", g, req, w) < COUNTME_BUDGET
                        /\ cnt[w] = 0 /\ Asked("send", g, req, w) # 0 /\ m.win < Start(w) =>
                              /\ m.budget >= 1
                              /\ Asked("send", g, req, w) + m.budget <= COUNTME_BUDGET
                        /\ w # 0 /\ m.win = Start(w) => cnt[w] # 0
    BY DEF CmAsked, Cur
  <2>5. CASE w = v
    BY <2>2, <2>3, <2>5
  <2>6. CASE w # v
    <3>1. Asked("send", g, req, w) = Asked("decide", f, req, w)
      BY <1>6, <2>6 DEF Asked
    <3> QED
      BY <2>1, <3>1 DEF CmAsked, Cur, Pending
  <2> QED
    BY <2>5, <2>6
<1>10. ASSUME ~ dead PROVE CmBucket(ck, "send", m, g, b)
  BY <1>6, <1>10 DEF CmGood, CmBucket, Cur, Pending
<1> QED
  BY <1>7, <1>8, <1>9, <1>10 DEF CmGood, g

\* A window has passed since the one in the cookie: all counted ones are over.
LEMMA AllAreOver ==
    ASSUME NEW t, NEW ck, NEW m, NEW f, NEW cnt, NEW req, NEW b, NEW dead,
           CmGood(t, ck, "decide", m, f, cnt, req, b, dead), t - m.win >= COUNTME_WINDOW
    PROVE  /\ t \in Nat /\ m \in CookieRecs /\ CookieOk(m, t) /\ ck = m
           /\ WindowOf(t) \in Windows /\ WindowOf(t) \in Nat /\ Start(WindowOf(t)) \in Nat
           /\ Start(WindowOf(t)) <= t /\ m.win < Start(WindowOf(t)) /\ m.win \in Nat
           /\ \A w \in Windows : cnt[w] # 0 => Start(w) + COUNTME_WINDOW <= t /\ w < WindowOf(t)
<1> DEFINE v == WindowOf(t)
<1>1. /\ t \in Nat /\ COUNTME_OFFSET + COUNTME_WINDOW <= t /\ t <= COUNTME_OFFSET + MaxTime
      /\ CookieOk(m, t) /\ ck = m
      /\ \A w \in Windows : cnt[w] # 0 => Start(w) <= m.win \/ Start(w) + COUNTME_WINDOW <= t
  BY DEF CmGood, CmKinds, CmOnce
<1>2. m \in CookieRecs /\ Aligned(m.win) /\ COUNTME_OFFSET <= m.win /\ m.win \in Nat
  BY <1>1 DEF CookieOk, CookieRecs
<1>3. COUNTME_OFFSET \in Nat /\ COUNTME_WINDOW \in Nat \ {0} /\ COUNTME_OFFSET <= t
      /\ m.win + COUNTME_WINDOW <= t
  BY <1>1, <1>2, CountmeAssumption
<1>4. v \in Windows /\ v \in Nat /\ Start(v) <= t /\ t < Start(v) + COUNTME_WINDOW
  BY <1>1, <1>3, WindowInRange, WindowHoldsTime
<1> HIDE DEF v
<1>5. Start(v) \in Nat
  BY <1>4, StartsAreOrdered
<1>6. m.win < Start(v)
  BY <1>1, <1>2, <1>3, <1>4, <1>5
<1>7. \A w \in Windows : cnt[w] # 0 => Start(w) + COUNTME_WINDOW <= t /\ w < v
  <2>1. SUFFICES ASSUME NEW w \in Windows, cnt[w] # 0
                 PROVE  Start(w) + COUNTME_WINDOW <= t /\ w < v
    OBVIOUS
  <2>2. w \in Nat
    BY WindowsAreNumbers
  <2>3. Start(w) \in Nat
    BY <2>2, StartsAreOrdered
  <2>4. Start(w) + COUNTME_WINDOW <= t
    BY <1>1, <1>2, <1>3, <2>1, <2>3
  <2>5. v <= w <=> Start(v) <= Start(w)
    BY <1>4, <2>2, StartsAreOrdered
  <2>6. ~ (v <= w)
    BY <1>1, <1>3, <1>4, <1>5, <2>2, <2>3, <2>4, <2>5
  <2> QED
    BY <1>4, <2>2, <2>4, <2>6
<1> QED
  BY <1>1, <1>2, <1>4, <1>5, <1>6, <1>7 DEF v

\* A request that only spends a part of the budget.
LEMMA SpendKeeps ==
    ASSUME NEW t, NEW ck, NEW m, NEW f, NEW cnt, NEW req, NEW b, NEW dead \in BOOLEAN,
           CmGood(t, ck, "decide", m, f, cnt, req, b, dead), t - m.win >= COUNTME_WINDOW,
           NEW n \in Budgets(m.budget), n - 1 # 0
    PROVE  CmGood(t, ck, "open", [m EXCEPT !.budget = n - 1],
                  [window |-> WindowOf(t), bucket |-> 0], cnt, req, b, dead)
<1> DEFINE v == WindowOf(t)
           g == [window |-> v, bucket |-> 0]
           k == [m EXCEPT !.budget = n - 1]
<1>1. /\ t \in Nat /\ m \in CookieRecs /\ CookieOk(m, t) /\ ck = m
      /\ v \in Windows /\ v \in Nat /\ Start(v) \in Nat
      /\ Start(v) <= t /\ m.win < Start(v)
      /\ \A w \in Windows : cnt[w] # 0 => Start(w) + COUNTME_WINDOW <= t /\ w < v
  BY AllAreOver
<1>2. COUNTME_BUDGET \in Nat \ {0} /\ m.budget \in {-1} \cup 1 .. COUNTME_BUDGET
  BY <1>1, CountmeAssumption DEF CookieRecs
<1>3. /\ n \in 2 .. COUNTME_BUDGET
      /\ m.budget = -1 \/ m.budget = n
  BY <1>2 DEF Budgets
<1>4. n - 1 \in 1 .. COUNTME_BUDGET
  BY <1>2, <1>3
<1>5. k \in CookieRecs /\ k.win = m.win /\ k.epoch = m.epoch /\ k.budget = n - 1
  BY <1>1, <1>4 DEF CookieRecs
<1>6. g \in [window : Windows, bucket : Nat] /\ g.window = v /\ g.bucket = 0
  BY <1>1
<1> HIDE DEF g, k, v
<1>7. CookieOk(k, t)
  BY <1>1, <1>5 DEF CookieOk
<1>8. CmKinds(t, ck, "open", k, g, cnt, req, b)
  BY <1>6, <1>7 DEF CmGood, CmKinds
<1>9. CmOnce(t, ck, "open", k, g, cnt)
  BY <1>1, <1>6 DEF CmGood, CmOnce, Pending
<1>10. ASSUME ~ dead PROVE CmAsked(t, ck, "open", k, g, cnt, req)
  <2>1. CmAsked(t, ck, "decide", m, f, cnt, req)
    BY <1>10 DEF CmGood
  <2>2. SUFFICES ASSUME NEW w \in Windows
                 PROVE  /\ Asked("open", g, req, w) # 0 => Start(w) <= t
                        /\ cnt[w] = 0 => Asked("open", g, req, w) < COUNTME_BUDGET
                        /\ cnt[w] = 0 /\ Asked("open", g, req, w) # 0 /\ m.win < Start(w) =>
                              /\ n - 1 >= 1
                              /\ Asked("open", g, req, w) + (n - 1) <= COUNTME_BUDGET
                        /\ w # 0 /\ m.win = Start(w) => cnt[w] # 0
    BY <1>5 DEF CmAsked, Cur
  <2>3. /\ req[w] # 0 => Start(w) <= t
        /\ cnt[w] = 0 => req[w] < COUNTME_BUDGET
        /\ cnt[w] = 0 /\ req[w] # 0 /\ m.win < Start(w) =>
              m.budget >= 1 /\ req[w] + m.budget <= COUNTME_BUDGET
        /\ w # 0 /\ m.win = Start(w) => cnt[w] # 0
    BY <2>1 DEF CmAsked, Cur, Pending, Asked
  <2>4. req[w] \in Nat
    BY DEF CmGood, CmKinds
  <2>5. CASE w = v
    <3>1. Asked("open", g, req, w) = req[w] + 1
      BY <1>6, <2>5 DEF Asked
    <3>2. req[w] # 0 /\ cnt[w] = 0 => m.budget = n /\ req[w] + n <= COUNTME_BUDGET
      BY <1>1, <1>2, <1>3, <2>3, <2>5
    <3>3. cnt[w] = 0 => req[w] + n <= COUNTME_BUDGET
      BY <1>3, <1>2, <2>4, <3>2
    <3> QED
      BY <1>1, <1>2, <1>3, <2>3, <2>4, <2>5, <3>1, <3>3
  <2>6. CASE w # v
    <3>1. Asked("open", g, req, w) = req[w]
      BY <1>6, <2>6 DEF Asked
    <3>2. cnt[w] = 0 /\ req[w] # 0 /\ m.win < Start(w) => m.budget = n /\ req[w] + n <= COUNTME_BUDGET
      BY <1>2, <1>3, <2>3
    <3>3. cnt[w] = 0 /\ req[w] # 0 /\ m.win < Start(w) => req[w] + (n - 1) <= COUNTME_BUDGET
      BY <1>2, <1>3, <2>4, <3>2
    <3> QED
      BY <1>3, <2>3, <3>1, <3>3
  <2> QED
    BY <2>5, <2>6
<1>11. ASSUME ~ dead PROVE CmBucket(ck, "open", k, g, b)
  <2>1. CmBucket(ck, "decide", m, f, b)
    BY <1>11 DEF CmGood
  <2>2. StepOf(k) = StepOf(m)
    BY <1>5 DEF StepOf
  <2> QED
    BY <1>5, <1>6, <2>1, <2>2 DEF CmBucket, Cur, Pending
<1> QED
  BY <1>8, <1>9, <1>10, <1>11 DEF CmGood, g, k, v

\* A request that carries the flag.
LEMMA CountKeeps ==
    ASSUME NEW t, NEW ck, NEW m, NEW f, NEW cnt, NEW req, NEW b, NEW dead \in BOOLEAN,
           CmGood(t, ck, "decide", m, f, cnt, req, b, dead), t - m.win >= COUNTME_WINDOW,
           NEW win, win = Start(WindowOf(t)), NEW epoch, epoch = Epoch(m.epoch, win)
    PROVE  CmGood(t, ck, "open", [epoch |-> epoch, win |-> win, budget |-> -1],
                  [window |-> WindowOf(t), bucket |-> BucketOf((win - epoch) \div COUNTME_WINDOW)],
                  cnt, req, b, dead)
<1> DEFINE v == WindowOf(t)
           k == [epoch |-> epoch, win |-> win, budget |-> -1]
           g == [window |-> v, bucket |-> BucketOf((win - epoch) \div COUNTME_WINDOW)]
<1>1. /\ t \in Nat /\ m \in CookieRecs /\ CookieOk(m, t) /\ ck = m
      /\ v \in Windows /\ v \in Nat /\ win \in Nat
      /\ win <= t /\ m.win < win /\ m.win \in Nat /\ win = Start(v)
      /\ \A w \in Windows : cnt[w] # 0 => Start(w) + COUNTME_WINDOW <= t /\ w < v
  BY AllAreOver
<1>2. COUNTME_OFFSET \in Nat \ {0} /\ COUNTME_WINDOW \in Nat \ {0} /\ COUNTME_BUDGET \in Nat
      /\ m.epoch \in Nat
  BY <1>1, CountmeAssumption DEF CookieRecs
<1>3. Aligned(win) /\ COUNTME_OFFSET <= win
  BY <1>1, StartIsAligned, StartsAreOrdered
<1>4. /\ epoch \in Nat /\ epoch # 0 /\ Aligned(epoch) /\ COUNTME_OFFSET <= epoch /\ epoch <= win
      /\ m.epoch # 0 => epoch = m.epoch /\ m.epoch <= m.win
  BY <1>1, <1>2, <1>3 DEF Epoch, CookieOk
<1>5. k \in CookieRecs /\ k.win = win /\ k.epoch = epoch /\ k.budget = -1
  BY <1>1, <1>4 DEF CookieRecs
<1>6. win - epoch \in Nat
  BY <1>1, <1>4
<1>7. (win - epoch) \div COUNTME_WINDOW \in Nat
  BY <1>2, <1>6, DivisionFacts
<1>8. StepOf(k) = (win - epoch) \div COUNTME_WINDOW
  BY <1>5 DEF StepOf
<1>9. BucketOf(StepOf(k)) \in Nat \ {0}
  <2>1. BucketOf(StepOf(k)) \in 1 .. Len(COUNTME_BUCKETS) + 1
    BY <1>7, <1>8, BucketExists
  <2> QED
    BY <2>1, CountmeAssumption
<1>10. g \in [window : Windows, bucket : Nat] /\ g.window = v /\ g.bucket = BucketOf(StepOf(k)) /\ g.bucket # 0
  BY <1>1, <1>8, <1>9
<1> HIDE DEF g, k, v
<1>11. CookieOk(k, t)
  BY <1>1, <1>3, <1>4, <1>5 DEF CookieOk
<1>12. CmKinds(t, ck, "open", k, g, cnt, req, b)
  BY <1>10, <1>11 DEF CmGood, CmKinds
<1>13. CmOnce(t, ck, "open", k, g, cnt)
  BY <1>1, <1>5, <1>10 DEF CmGood, CmOnce, Pending
<1>14. ASSUME ~ dead PROVE CmAsked(t, ck, "open", k, g, cnt, req)
  <2>1. CmAsked(t, ck, "decide", m, f, cnt, req)
    BY <1>14 DEF CmGood
  <2>2. SUFFICES ASSUME NEW w \in Windows
                 PROVE  /\ req[w] # 0 => Start(w) <= t
                        /\ cnt[w] = 0 => req[w] < COUNTME_BUDGET
                        /\ ~ (req[w] # 0 /\ win < Start(w))
                        /\ win = Start(w) => w = v
    BY <1>5, <1>10 DEF CmAsked, Cur, Asked, Pending
  <2>3. /\ req[w] # 0 => Start(w) <= t
        /\ cnt[w] = 0 => req[w] < COUNTME_BUDGET
    BY <2>1 DEF CmAsked, Asked
  <2>4. w \in Nat
    BY WindowsAreNumbers
  <2>5. Start(w) \in Nat /\ (w <= v <=> Start(w) <= Start(v)) /\ (v <= w <=> Start(v) <= Start(w))
        /\ (v < w <=> Start(v) + COUNTME_WINDOW <= Start(w))
    BY <1>1, <2>4, StartsAreOrdered
  <2>6. win = Start(w) => w = v
    BY <1>1, <2>4, <2>5
  <2>7. t < win + COUNTME_WINDOW
    BY <1>1, <1>2, <1>3, WindowHoldsTime DEF v
  <2>8. Start(w) <= t => ~ (win < Start(w))
    BY <1>1, <1>2, <2>4, <2>5, <2>7
  <2> QED
    BY <2>3, <2>6, <2>8
<1>15. ASSUME ~ dead PROVE CmBucket(ck, "open", k, g, b)
  <2>1. CmBucket(ck, "decide", m, f, b)
    BY <1>15 DEF CmGood
  <2>2. CASE m.epoch = 0
    <3>1. b = 0
      BY <2>1, <2>2 DEF CmBucket, Cur
    <3>2. b <= BucketOf(StepOf(k))
      BY <1>9, <3>1
    <3> QED
      BY <1>4, <1>5, <1>10, <3>2 DEF CmBucket, Cur
  <2>3. CASE m.epoch # 0
    <3>1. b <= BucketOf(StepOf(m)) /\ b \in Nat
      BY <2>1, <2>3 DEF CmBucket, Cur, CmGood, CmKinds
    <3>2. m.win - m.epoch \in Nat /\ m.win - m.epoch <= win - epoch
      BY <1>1, <1>2, <1>4, <2>3
    <3>3. StepOf(m) <= StepOf(k) /\ StepOf(m) \in Nat /\ StepOf(k) \in Nat
      BY <1>2, <1>6, <1>7, <1>8, <3>2, DivisionMonotone, DivisionFacts DEF StepOf
    <3>4. BucketOf(StepOf(m)) <= BucketOf(StepOf(k)) /\ BucketOf(StepOf(m)) \in 1 .. Len(COUNTME_BUCKETS) + 1
      BY <3>3, BucketMonotone, BucketExists
    <3>5. BucketOf(StepOf(m)) \in Nat
      BY <3>4, CountmeAssumption
    <3>6. b <= BucketOf(StepOf(k))
      BY <1>9, <3>1, <3>4, <3>5
    <3> QED
      BY <1>4, <1>5, <1>10, <3>6 DEF CmBucket, Cur
  <2> QED
    BY <2>2, <2>3
<1> QED
  BY <1>12, <1>13, <1>14, <1>15 DEF CmGood, g, k, v

\* The cookie is truncated, and written again.
LEMMA OpenKeeps ==
    ASSUME NEW t, NEW ck, NEW m, NEW f, NEW cnt, NEW req, NEW b, NEW dead,
           CmGood(t, ck, "open", m, f, cnt, req, b, dead)
    PROVE  CmGood(t, NoCookie, "write", m, f, cnt, req, b, dead)
<1>1. t \in Nat /\ COUNTME_OFFSET <= t
  BY CountmeAssumption DEF CmGood, CmKinds
<1>2. CookieOk(NoCookie, t)
  BY <1>1, NoCookieOk
<1>3. CmKinds(t, NoCookie, "write", m, f, cnt, req, b)
  BY <1>2 DEF CmGood, CmKinds
<1>4. CmOnce(t, NoCookie, "write", m, f, cnt)
  BY DEF CmGood, CmOnce, Pending
<1>5. CmAsked(t, ck, "open", m, f, cnt, req) => CmAsked(t, NoCookie, "write", m, f, cnt, req)
  BY DEF CmAsked, Asked, Pending, Cur
<1>6. CmBucket(ck, "open", m, f, b) => CmBucket(NoCookie, "write", m, f, b)
  BY DEF CmBucket, Pending, Cur
<1> QED
  BY <1>3, <1>4, <1>5, <1>6 DEF CmGood

LEMMA SaveKeeps ==
    ASSUME NEW t, NEW ck, NEW m, NEW f, NEW cnt, NEW req, NEW b, NEW dead,
           CmGood(t, ck, "write", m, f, cnt, req, b, dead)
    PROVE  CmGood(t, m, "send", m, f, cnt, req, b, dead)
<1>1. CmKinds(t, m, "send", m, f, cnt, req, b)
  BY DEF CmGood, CmKinds
<1>2. CmOnce(t, m, "send", m, f, cnt)
  BY DEF CmGood, CmOnce, Pending
<1>3. CmAsked(t, ck, "write", m, f, cnt, req) => CmAsked(t, m, "send", m, f, cnt, req)
  BY DEF CmAsked, Asked, Pending, Cur
<1>4. CmBucket(ck, "write", m, f, b) => CmBucket(m, "send", m, f, b)
  BY DEF CmBucket, Pending, Cur
<1> QED
  BY <1>1, <1>2, <1>3, <1>4 DEF CmGood

\* The request is sent, without the flag and with it.
LEMMA SendPlainKeeps ==
    ASSUME NEW t, NEW ck, NEW m, NEW f, NEW cnt, NEW req, NEW b, NEW dead \in BOOLEAN,
           CmGood(t, ck, "send", m, f, cnt, req, b, dead), f.bucket = 0,
           NEW r \in [Windows -> Nat], r[f.window] = AtMost(req[f.window] + 1, COUNTME_BUDGET),
           \A w \in Windows : w # f.window => r[w] = req[w]
    PROVE  CmGood(t, ck, "idle", m, f, cnt, r, b, dead)
<1> DEFINE n == AtMost(req[f.window] + 1, COUNTME_BUDGET)
           v == f.window
<1>1. v \in Windows /\ req \in [Windows -> Nat] /\ COUNTME_BUDGET \in Nat \ {0} /\ ck = m
  BY CountmeAssumption DEF CmGood, CmKinds, CmOnce
<1>2. req[v] \in Nat
  BY <1>1
<1>3. n \in Nat /\ (req[v] + 1 < COUNTME_BUDGET => n = req[v] + 1)
  BY <1>1, <1>2 DEF AtMost
<1>4. r \in [Windows -> Nat] /\ r[v] = n /\ \A w \in Windows : w # v => r[w] = req[w]
  BY <1>1, <1>3
<1> HIDE DEF n
<1>5. CmKinds(t, ck, "idle", m, f, cnt, r, b)
  BY <1>4 DEF CmGood, CmKinds
<1>6. CmOnce(t, ck, "idle", m, f, cnt)
  BY DEF CmGood, CmOnce, Pending
<1>7. ASSUME ~ dead PROVE CmAsked(t, ck, "idle", m, f, cnt, r)
  <2>1. CmAsked(t, ck, "send", m, f, cnt, req)
    BY <1>7 DEF CmGood
  <2>2. SUFFICES ASSUME NEW w \in Windows
                 PROVE  /\ r[w] # 0 => Start(w) <= t
                        /\ cnt[w] = 0 => r[w] < COUNTME_BUDGET
                        /\ cnt[w] = 0 /\ r[w] # 0 /\ m.win < Start(w) =>
                              m.budget >= 1 /\ r[w] + m.budget <= COUNTME_BUDGET
                        /\ w # 0 /\ m.win = Start(w) => cnt[w] # 0
    BY <1>1 DEF CmAsked, Cur, Asked, Pending
  <2>3. CASE w = v
    <3>1. Asked("send", f, req, w) = req[v] + 1
      BY <2>3 DEF Asked
    <3>2. /\ Start(w) <= t
          /\ cnt[w] = 0 => req[v] + 1 < COUNTME_BUDGET
          /\ cnt[w] = 0 /\ m.win < Start(w) =>
                m.budget >= 1 /\ (req[v] + 1) + m.budget <= COUNTME_BUDGET
          /\ w # 0 /\ m.win = Start(w) => cnt[w] # 0
      <4>1. req[v] + 1 # 0
        BY <1>2
      <4> QED
        BY <2>1, <3>1, <4>1 DEF CmAsked, Cur, Pending
    <3>3. r[w] = n /\ (cnt[w] = 0 => n = req[v] + 1)
      BY <1>3, <1>4, <2>3, <3>2
    <3> QED
      BY <3>2, <3>3
  <2>4. CASE w # v
    <3>1. Asked("send", f, req, w) = req[w] /\ r[w] = req[w]
      BY <1>4, <2>4 DEF Asked
    <3> QED
      BY <2>1, <3>1 DEF CmAsked, Cur, Pending
  <2> QED
    BY <2>3, <2>4
<1>8. ASSUME ~ dead PROVE CmBucket(ck, "idle", m, f, b)
  BY <1>1, <1>8 DEF CmGood, CmBucket, Cur, Pending
<1> QED
  BY <1>5, <1>6, <1>7, <1>8 DEF CmGood

LEMMA SendFlagKeeps ==
    ASSUME NEW t, NEW ck, NEW m, NEW f, NEW cnt, NEW req, NEW b, NEW dead \in BOOLEAN,
           CmGood(t, ck, "send", m, f, cnt, req, b, dead), f.bucket # 0,
           NEW r \in [Windows -> Nat], \A w \in Windows : w # f.window => r[w] = req[w],
           NEW d \in [Windows -> Nat], d[f.window] = AtMost(cnt[f.window] + 1, 2),
           \A w \in Windows : w # f.window => d[w] = cnt[w]
    PROVE  /\ CmGood(t, ck, "idle", m, f, d, r, f.bucket, dead)
           /\ ~ dead => f.bucket >= b
<1> DEFINE c == AtMost(cnt[f.window] + 1, 2)
           v == f.window
<1>1. /\ v \in Windows /\ req \in [Windows -> Nat] /\ cnt \in [Windows -> Nat] /\ f.bucket \in Nat
      /\ COUNTME_BUDGET \in Nat \ {0} /\ ck = m /\ t \in Nat /\ CookieOk(m, t) /\ b \in Nat
      /\ m.win = Start(v) /\ \A w \in Windows : cnt[w] # 0 => w < v
  BY CountmeAssumption DEF CmGood, CmKinds, CmOnce, Pending
<1>2. req[v] \in Nat /\ cnt[v] = 0 /\ v \in Nat
  <2>1. v \in Nat
    BY <1>1, WindowsAreNumbers
  <2>2. ~ (v < v)
    BY <2>1
  <2> QED
    BY <1>1, <2>1, <2>2
<1>3. c = 1
  BY <1>1, <1>2 DEF AtMost
<1>4. r \in [Windows -> Nat] /\ \A w \in Windows : w # v => r[w] = req[w]
  OBVIOUS
<1>5. d \in [Windows -> Nat] /\ d[v] = 1 /\ \A w \in Windows : w # v => d[w] = cnt[w]
  BY <1>1, <1>3
<1> HIDE DEF c
<1>6. Start(v) <= t
  BY <1>1 DEF CookieOk
<1>7. CmKinds(t, ck, "idle", m, f, d, r, f.bucket)
  BY <1>1, <1>4, <1>5 DEF CmGood, CmKinds
<1>8. CmOnce(t, ck, "idle", m, f, d)
  <2>1. \A w \in Windows : d[w] <= 1
    BY <1>5 DEF CmGood, CmOnce
  <2>2. Start(v) <= ck.win
    BY <1>1, <1>2, StartsAreOrdered
  <2>3. \A w \in Windows : d[w] # 0 => Start(w) <= ck.win \/ Start(w) + COUNTME_WINDOW <= t
    BY <1>5, <2>2 DEF CmGood, CmOnce
  <2> QED
    BY <2>1, <2>3 DEF CmOnce, Pending
<1>9. ASSUME ~ dead PROVE CmAsked(t, ck, "idle", m, f, d, r)
  <2>1. CmAsked(t, ck, "send", m, f, cnt, req)
    BY <1>9 DEF CmGood
  <2>2. SUFFICES ASSUME NEW w \in Windows
                 PROVE  /\ r[w] # 0 => Start(w) <= t
                        /\ d[w] = 0 => r[w] < COUNTME_BUDGET
                        /\ d[w] = 0 /\ r[w] # 0 /\ m.win < Start(w) =>
                              m.budget >= 1 /\ r[w] + m.budget <= COUNTME_BUDGET
                        /\ w # 0 /\ m.win = Start(w) => d[w] # 0
    BY <1>1 DEF CmAsked, Cur, Asked, Pending
  <2>3. CASE w = v
    BY <1>5, <1>6, <2>3
  <2>4. CASE w # v
    <3>1. Asked("send", f, req, w) = req[w] /\ r[w] = req[w] /\ d[w] = cnt[w]
      BY <1>4, <1>5, <2>4 DEF Asked
    <3> QED
      BY <2>1, <2>4, <3>1 DEF CmAsked, Cur, Pending
  <2> QED
    BY <2>3, <2>4
<1>10. ASSUME ~ dead PROVE CmBucket(ck, "idle", m, f, f.bucket) /\ f.bucket >= b
  <2>1. CmBucket(ck, "send", m, f, b)
    BY <1>10 DEF CmGood
  <2>2. m.epoch # 0 /\ f.bucket = BucketOf(StepOf(m)) /\ b <= BucketOf(StepOf(m))
    BY <2>1 DEF CmBucket, Cur, Pending
  <2>3. b <= f.bucket
    BY <2>2
  <2>4. f.bucket >= b /\ f.bucket <= f.bucket
    BY <1>1, <2>3
  <2> QED
    BY <1>1, <2>2, <2>4 DEF CmBucket, Cur, Pending
<1> QED
  BY <1>7, <1>8, <1>9, <1>10 DEF CmGood

\* Time goes on; a process is killed.
LEMMA TickKeeps ==
    ASSUME NEW t, NEW ck, NEW stage, NEW m, NEW f, NEW cnt, NEW req, NEW b, NEW dead \in BOOLEAN,
           CmGood(t, ck, stage, m, f, cnt, req, b, dead), t < COUNTME_OFFSET + MaxTime
    PROVE  CmGood(t + 1, ck, stage, m, f, cnt, req, b, dead)
<1>1. /\ t \in Nat /\ COUNTME_OFFSET \in Nat /\ MaxTime \in Nat /\ COUNTME_WINDOW \in Nat
      /\ COUNTME_OFFSET + COUNTME_WINDOW <= t
  BY CountmeAssumption DEF CmGood, CmKinds
<1>2. /\ t + 1 \in Nat /\ COUNTME_OFFSET + COUNTME_WINDOW <= t + 1
      /\ t + 1 <= COUNTME_OFFSET + MaxTime /\ \A x \in Nat : x <= t => x <= t + 1
  BY <1>1
<1>3. \A c : CookieOk(c, t) => CookieOk(c, t + 1)
  BY <1>2 DEF CookieOk, CookieRecs
<1>4. CmKinds(t + 1, ck, stage, m, f, cnt, req, b)
  BY <1>2, <1>3 DEF CmGood, CmKinds
<1>5. \A w \in Windows : Start(w) \in Nat /\ Start(w) + COUNTME_WINDOW \in Nat
  BY <1>1, WindowsAreNumbers, StartsAreOrdered
<1>6. CmOnce(t + 1, ck, stage, m, f, cnt)
  BY <1>2, <1>5 DEF CmGood, CmOnce
<1>7. ASSUME ~ dead PROVE CmAsked(t + 1, ck, stage, m, f, cnt, req)
  BY <1>2, <1>5, <1>7 DEF CmGood, CmAsked
<1> QED
  BY <1>4, <1>6, <1>7 DEF CmGood

LEMMA CrashKeeps ==
    ASSUME NEW t, NEW ck, NEW stage, NEW m, NEW f, NEW cnt, NEW req, NEW b, NEW dead,
           CmGood(t, ck, stage, m, f, cnt, req, b, dead)
    PROVE  CmGood(t, ck, "idle", m, f, cnt, req, b, TRUE)
BY DEF CmGood, CmKinds, CmOnce, Pending

-----------------------------------------------------------------------------
(* countme: the theorem.                                                   *)

LEMMA CmInit_CmInv ==
    ASSUME NEW q, Proc = {q}, CmInit
    PROVE  CmInv(q)
<1> DEFINE f == [window |-> 0, bucket |-> 0]
           t == COUNTME_OFFSET + COUNTME_WINDOW
           zero == [w \in Windows |-> 0]
<1>1. /\ COUNTME_OFFSET \in Nat \ {0} /\ COUNTME_WINDOW \in Nat \ {0} /\ MaxTime \in Nat
      /\ COUNTME_WINDOW <= MaxTime /\ COUNTME_BUDGET \in Nat \ {0}
  BY CountmeAssumption
<1>2. t \in Nat /\ COUNTME_OFFSET <= t /\ t <= COUNTME_OFFSET + MaxTime /\ Start(0) <= t
  BY <1>1 DEF Start
<1>3. 0 \in Windows
  <2>1. WindowOf(COUNTME_OFFSET) \in Windows
    BY <1>1, WindowInRange
  <2>2. COUNTME_OFFSET - COUNTME_OFFSET = 0 /\ 0 \div COUNTME_WINDOW = 0
    BY <1>1
  <2> QED
    BY <2>1, <2>2 DEF WindowOf
<1>4. f \in [window : Windows, bucket : Nat] /\ f.bucket = 0 /\ zero \in [Windows -> Nat]
  BY <1>3
<1>5. CookieOk(NoCookie, t) /\ NoCookie.win = Start(0) /\ NoCookie.epoch = 0 /\ NoCookie \in CookieRecs
  BY <1>2, NoCookieOk DEF CookieOk
<1> HIDE DEF f, t
<1>6. CmKinds(t, NoCookie, "idle", NoCookie, f, zero, zero, 0)
  BY <1>2, <1>4, <1>5 DEF CmKinds, t
<1>7. CmOnce(t, NoCookie, "idle", NoCookie, f, zero)
  BY DEF CmOnce, Pending
<1>8. CmAsked(t, NoCookie, "idle", NoCookie, f, zero, zero)
  <2>1. SUFFICES ASSUME NEW w \in Windows
                 PROVE  /\ 0 < COUNTME_BUDGET
                        /\ ~ (w # 0 /\ NoCookie.win = Start(w))
    BY DEF CmAsked, Cur, Asked, Pending
  <2>2. w \in Nat
    BY WindowsAreNumbers
  <2>3. w <= 0 <=> Start(w) <= Start(0)
    BY <2>2, StartsAreOrdered
  <2>4. Start(w) \in Nat /\ Start(0) \in Nat
    BY <2>2, StartsAreOrdered
  <2> QED
    BY <1>1, <1>5, <2>2, <2>3, <2>4
<1>9. CmBucket(NoCookie, "idle", NoCookie, f, 0)
  BY <1>5 DEF CmBucket, Cur, Pending
<1>10. CmGood(t, NoCookie, "idle", NoCookie, f, zero, zero, 0, FALSE)
  BY <1>6, <1>7, <1>8, <1>9 DEF CmGood
<1>11. /\ now = t /\ cookie = NoCookie /\ cmPc[q] = "idle" /\ mem[q] = NoCookie /\ flag[q] = f
       /\ counted = zero /\ requests = zero /\ bucket = 0 /\ killed = FALSE
  BY DEF CmInit, t, f
<1>12. /\ cmPc \in [Proc -> {"idle", "decide", "open", "write", "send"}]
       /\ mem \in [Proc -> CookieRecs]
       /\ flag \in [Proc -> [window : Windows, bucket : Nat]]
  BY <1>4, <1>5 DEF CmInit, f
<1> QED
  BY <1>10, <1>11, <1>12 DEF CmInv

\* What a step leaves of the process is told by four values.
CmStep(q, stage, m, f) ==
    /\ cmPc' = [cmPc EXCEPT ![q] = stage] /\ mem' = [mem EXCEPT ![q] = m]
    /\ flag' = [flag EXCEPT ![q] = f]

LEMMA CmStepGood ==
    ASSUME NEW q, Proc = {q}, CmInv(q), NEW stage, NEW m, NEW f, CmStep(q, stage, m, f),
           CmGood(now', cookie', stage, m, f, counted', requests', bucket', killed')
    PROVE  CmInv(q)'
<1>1. stage \in {"idle", "decide", "open", "write", "send"} /\ m \in CookieRecs
      /\ f \in [window : Windows, bucket : Nat]
  BY DEF CmGood, CmKinds, CookieOk
<1>2. cmPc'[q] = stage /\ cmPc' \in [Proc -> {"idle", "decide", "open", "write", "send"}]
  BY <1>1 DEF CmInv, CmStep
<1>3. mem'[q] = m /\ mem' \in [Proc -> CookieRecs]
  BY <1>1 DEF CmInv, CmStep
<1>4. flag'[q] = f /\ flag' \in [Proc -> [window : Windows, bucket : Nat]]
  BY <1>1 DEF CmInv, CmStep
<1> QED
  BY <1>2, <1>3, <1>4 DEF CmInv

LEMMA CmNext_CmInv ==
    ASSUME NEW q, Proc = {q}, CmInv(q), killed \in BOOLEAN, CmNext
    PROVE  CmInv(q)' /\ killed' \in BOOLEAN /\ (~ killed => bucket' >= bucket)
<1>1. /\ cmPc \in [Proc -> {"idle", "decide", "open", "write", "send"}]
      /\ mem \in [Proc -> CookieRecs]
      /\ flag \in [Proc -> [window : Windows, bucket : Nat]]
      /\ CmGood(now, cookie, cmPc[q], mem[q], flag[q], counted, requests, bucket, killed)
  BY DEF CmInv
<1>2. /\ cmPc = [cmPc EXCEPT ![q] = cmPc[q]] /\ mem = [mem EXCEPT ![q] = mem[q]]
      /\ flag = [flag EXCEPT ![q] = flag[q]]
  BY <1>1
<1>3. bucket \in Nat
  BY <1>1 DEF CmGood, CmKinds
<1>4. bucket >= bucket
  BY <1>3
<1>5. CASE Tick
  <2>1. /\ now < COUNTME_OFFSET + MaxTime /\ now' = now + 1 /\ cookie' = cookie
        /\ counted' = counted /\ requests' = requests /\ bucket' = bucket /\ killed' = killed
        /\ CmStep(q, cmPc[q], mem[q], flag[q])
    BY <1>2, <1>5 DEF Tick, origin, CmStep
  <2>2. CmGood(now', cookie', cmPc[q], mem[q], flag[q], counted', requests', bucket', killed')
    BY <1>1, <2>1, TickKeeps
  <2> QED
    BY <1>4, <2>1, <2>2, CmStepGood
<1>6. CASE LoadCookie(q)
  <2>1. /\ cmPc[q] = "idle" /\ now' = now /\ cookie' = cookie
        /\ counted' = counted /\ requests' = requests /\ bucket' = bucket /\ killed' = killed
        /\ CmStep(q, "decide", cookie, flag[q])
    BY <1>2, <1>6 DEF LoadCookie, origin, CmStep
  <2>2. CmGood(now', cookie', "decide", cookie, flag[q], counted', requests', bucket', killed')
    BY <1>1, <2>1, LoadKeeps
  <2> QED
    BY <1>4, <2>1, <2>2, CmStepGood
<1>7. CASE AlreadyCounted(q)
  <2> DEFINE g == [window |-> WindowOf(now), bucket |-> 0]
  <2>1. /\ cmPc[q] = "decide" /\ now' = now /\ cookie' = cookie
        /\ ~ (now - mem[q].win >= COUNTME_WINDOW)
        /\ counted' = counted /\ requests' = requests /\ bucket' = bucket /\ killed' = killed
        /\ CmStep(q, "send", mem[q], g)
    BY <1>2, <1>7 DEF AlreadyCounted, WindowAdvanced, SetFlag, origin, CmStep
  <2>2. CmGood(now', cookie', "send", mem[q], g, counted', requests', bucket', killed')
    BY <1>1, <2>1, AlreadyKeeps
  <2> QED
    BY <1>4, <2>1, <2>2, CmStepGood
<1>8. CASE SpendBudget(q)
  <2> DEFINE g == [window |-> WindowOf(now), bucket |-> 0]
  <2>1. PICK n \in Budgets(mem[q].budget) :
           n - 1 # 0 /\ mem' = [mem EXCEPT ![q].budget = n - 1]
    BY <1>8 DEF SpendBudget
  <2>2. /\ cmPc[q] = "decide" /\ now' = now /\ cookie' = cookie
        /\ now - mem[q].win >= COUNTME_WINDOW
        /\ counted' = counted /\ requests' = requests /\ bucket' = bucket /\ killed' = killed
        /\ CmStep(q, "open", [mem[q] EXCEPT !.budget = n - 1], g)
    BY <1>8, <2>1 DEF SpendBudget, WindowAdvanced, SetFlag, origin, CmStep
  <2>3. CmGood(now', cookie', "open", [mem[q] EXCEPT !.budget = n - 1], g, counted', requests',
               bucket', killed')
    BY <1>1, <2>1, <2>2, SpendKeeps
  <2> QED
    BY <1>4, <2>2, <2>3, CmStepGood
<1>9. CASE Count(q)
  <2> DEFINE win == WindowStart(mem[q].win)
             epoch == Epoch(mem[q].epoch, win)
             k == [epoch |-> epoch, win |-> win, budget |-> -1]
             g == [window |-> WindowOf(now), bucket |-> BucketOf((win - epoch) \div COUNTME_WINDOW)]
  <2>1. /\ cmPc[q] = "decide" /\ now' = now /\ cookie' = cookie
        /\ now - mem[q].win >= COUNTME_WINDOW
        /\ counted' = counted /\ requests' = requests /\ bucket' = bucket /\ killed' = killed
        /\ CmStep(q, "open", k, g)
    BY <1>9 DEF Count, WindowAdvanced, SetFlag, origin, CmStep
  <2>2. win = Start(WindowOf(now))
    <3>1. /\ now \in Nat /\ mem[q].win \in Nat /\ COUNTME_OFFSET <= mem[q].win
          /\ mem[q].win <= now /\ Aligned(mem[q].win)
      BY <1>1 DEF CmGood, CmKinds, CookieOk, CookieRecs
    <3> QED
      BY <3>1, CountedWindow DEF WindowStart
  <2> HIDE DEF win
  <2>3. CmGood(now', cookie', "open", k, g, counted', requests', bucket', killed')
    BY <1>1, <2>1, <2>2, CountKeeps
  <2> QED
    BY <1>4, <2>1, <2>3, CmStepGood
<1>10. CASE OpenCookie(q)
  <2>1. /\ cmPc[q] = "open" /\ now' = now /\ cookie' = NoCookie
        /\ counted' = counted /\ requests' = requests /\ bucket' = bucket /\ killed' = killed
        /\ CmStep(q, "write", mem[q], flag[q])
    BY <1>2, <1>10 DEF OpenCookie, origin, CmStep
  <2>2. CmGood(now', cookie', "write", mem[q], flag[q], counted', requests', bucket', killed')
    BY <1>1, <2>1, OpenKeeps
  <2> QED
    BY <1>4, <2>1, <2>2, CmStepGood
<1>11. CASE SaveCookie(q)
  <2>1. /\ cmPc[q] = "write" /\ now' = now /\ cookie' = mem[q]
        /\ counted' = counted /\ requests' = requests /\ bucket' = bucket /\ killed' = killed
        /\ CmStep(q, "send", mem[q], flag[q])
    BY <1>2, <1>11 DEF SaveCookie, origin, CmStep
  <2>2. CmGood(now', cookie', "send", mem[q], flag[q], counted', requests', bucket', killed')
    BY <1>1, <2>1, SaveKeeps
  <2> QED
    BY <1>4, <2>1, <2>2, CmStepGood
<1>12. CASE Send(q)
  <2> DEFINE v == flag[q].window
             r == [requests EXCEPT ![v] = AtMost(requests[v] + 1, COUNTME_BUDGET)]
             d == [counted EXCEPT ![v] = AtMost(counted[v] + 1, 2)]
  <2>1. /\ cmPc[q] = "send" /\ now' = now /\ cookie' = cookie /\ killed' = killed
        /\ requests' = r
        /\ flag[q].bucket = 0 => counted' = counted /\ bucket' = bucket
        /\ flag[q].bucket # 0 => counted' = d /\ bucket' = flag[q].bucket
        /\ CmStep(q, "idle", mem[q], flag[q])
    BY <1>2, <1>12 DEF Send, CmStep
  <2>2. /\ v \in Windows /\ requests \in [Windows -> Nat] /\ counted \in [Windows -> Nat]
        /\ COUNTME_BUDGET \in Nat
    BY <1>1, CountmeAssumption DEF CmGood, CmKinds
  <2>3. AtMost(requests[v] + 1, COUNTME_BUDGET) \in Nat /\ AtMost(counted[v] + 1, 2) \in Nat
    BY <2>2 DEF AtMost
  <2>4. /\ r \in [Windows -> Nat] /\ r[v] = AtMost(requests[v] + 1, COUNTME_BUDGET)
        /\ \A w \in Windows : w # v => r[w] = requests[w]
    BY <2>2, <2>3
  <2>5. /\ d \in [Windows -> Nat] /\ d[v] = AtMost(counted[v] + 1, 2)
        /\ \A w \in Windows : w # v => d[w] = counted[w]
    BY <2>2, <2>3
  <2> HIDE DEF r, d
  <2>6. CASE flag[q].bucket = 0
    <3>1. CmGood(now', cookie', "idle", mem[q], flag[q], counted', requests', bucket', killed')
      BY <1>1, <2>1, <2>6, <2>4, SendPlainKeeps
    <3> QED
      BY <1>4, <2>1, <2>6, <3>1, CmStepGood
  <2>7. CASE flag[q].bucket # 0
    <3>1. /\ CmGood(now', cookie', "idle", mem[q], flag[q], counted', requests', bucket', killed')
          /\ ~ killed => bucket' >= bucket
      BY <1>1, <2>1, <2>7, <2>4, <2>5, SendFlagKeeps
    <3> QED
      BY <2>1, <3>1, CmStepGood
  <2> QED
    BY <2>6, <2>7
<1>13. CASE Crash(q)
  <2>1. /\ now' = now /\ cookie' = cookie
        /\ counted' = counted /\ requests' = requests /\ bucket' = bucket /\ killed' = TRUE
        /\ CmStep(q, "idle", mem[q], flag[q])
    BY <1>2, <1>13 DEF Crash, origin, CmStep
  <2>2. CmGood(now', cookie', "idle", mem[q], flag[q], counted', requests', bucket', killed')
    BY <1>1, <2>1, CrashKeeps
  <2> QED
    BY <1>4, <2>1, <2>2, CmStepGood
<1> QED
  BY <1>5, <1>6, <1>7, <1>8, <1>9, <1>10, <1>11, <1>12, <1>13 DEF CmNext

\* Repo::Impl::add_countme_flag, for one process at a time: whatever the length
\* of the windows, the budget and the buckets, and wherever the process is
\* killed, no window is counted twice and the cookie holds window starts of the
\* past; while nobody is killed every window with as many requests as the
\* budget is counted.
THEOREM CountsExactlyOnce ==
    ASSUME NEW q, Proc = {q}
    PROVE  CmSpec => []CountedOnce
<1>1. CmInit => CmInv(q) /\ killed \in BOOLEAN
  <2>1. CmInit => killed \in BOOLEAN
    BY DEF CmInit
  <2> QED
    BY <2>1, CmInit_CmInv
<1>2. CmInv(q) /\ killed \in BOOLEAN /\ [CmNext]_cmVars => (CmInv(q) /\ killed \in BOOLEAN)'
  <2>1. CmInv(q) /\ UNCHANGED cmVars => CmInv(q)'
    BY DEF cmVars, origin, CmInv
  <2>2. killed \in BOOLEAN /\ UNCHANGED cmVars => killed' \in BOOLEAN
    BY DEF cmVars
  <2> QED
    BY <2>1, <2>2, CmNext_CmInv
<1>3. CmInv(q) => CountedOnce
  <2>1. SUFFICES ASSUME CmInv(q) PROVE CountedOnce
    OBVIOUS
  <2>2. CmGood(now, cookie, cmPc[q], mem[q], flag[q], counted, requests, bucket, killed)
    BY <2>1 DEF CmInv
  <2>3. OnlyOncePerWindow
    BY <2>2 DEF CmGood, CmOnce, OnlyOncePerWindow
  <2>4. CountedWhenAsked
    <3>1. SUFFICES ASSUME ~ killed, NEW w \in Windows, requests[w] >= COUNTME_BUDGET
                   PROVE  counted[w] >= 1
      BY DEF CountedWhenAsked
    <3>2. /\ requests[w] \in Nat /\ counted[w] \in Nat /\ COUNTME_BUDGET \in Nat
          /\ counted[w] = 0 => Asked(cmPc[q], flag[q], requests, w) < COUNTME_BUDGET
      BY <2>2, <3>1, CountmeAssumption DEF CmGood, CmKinds, CmAsked
    <3>3. \/ Asked(cmPc[q], flag[q], requests, w) = requests[w]
          \/ Asked(cmPc[q], flag[q], requests, w) = requests[w] + 1
      BY DEF Asked
    <3> QED
      BY <3>1, <3>2, <3>3
  <2>5. CookieAligned
    BY <2>2 DEF CmGood, CmKinds, CookieOk, Aligned, CookieAligned
  <2> QED
    BY <2>3, <2>4, <2>5 DEF CountedOnce
<1> QED
  BY <1>1, <1>2, <1>3, PTL DEF CmSpec

\* The bucket a system reports (the age of its first counted window) never goes
\* down, as long as no process was killed and with it the cookie lost.
THEOREM BucketStaysUp ==
    ASSUME NEW q, Proc = {q}
    PROVE  CmSpec => BucketNeverFalls
<1>1. CmInit => CmInv(q) /\ killed \in BOOLEAN
  <2>1. CmInit => killed \in BOOLEAN
    BY DEF CmInit
  <2> QED
    BY <2>1, CmInit_CmInv
<1>2. CmInv(q) /\ killed \in BOOLEAN /\ [CmNext]_cmVars =>
         /\ (CmInv(q) /\ killed \in BOOLEAN)'
         /\ [~ killed => bucket' >= bucket]_cmVars
  <2>1. CmInv(q) /\ UNCHANGED cmVars => CmInv(q)'
    BY DEF cmVars, origin, CmInv
  <2>2. killed \in BOOLEAN /\ UNCHANGED cmVars => killed' \in BOOLEAN
    BY DEF cmVars
  <2> QED
    BY <2>1, <2>2, CmNext_CmInv
<1> QED
  BY <1>1, <1>2, PTL DEF CmSpec, BucketNeverFalls

-----------------------------------------------------------------------------
(* The choice of a source.                                                 *)

\* lr_handle_init_remote and get_hash go through the sources in one order, and
\* is_local knows that order.
LEMMA OneOrderOfSources ==
    ASSUME NEW c, SourceOf(c).source # "none"
    PROVE  /\ SourceOf(c).url = HashedUrl(c)
           /\ IsLocalRepo(c) => SourceOf(c).source = "URLS"
BY DEF SourceOf, HashedUrl, IsLocalRepo, HasUrl

\* The metadata in a cache directory is of the source the directory is named
\* after, for every set of configurations and every sequence of calls that
\* change the options, the headers and the callbacks between the downloads.
THEOREM SourcesStayAgreed == RhSpec => []SourcesAgree
<1>1. RhInit => SourcesAgree
  BY DEF RhInit, SourcesAgree
<1>2. SourcesAgree /\ [RhNext]_rhVars => SourcesAgree'
  <2>1. SUFFICES ASSUME SourcesAgree, [RhNext]_rhVars PROVE SourcesAgree'
    OBVIOUS
  <2>2. CASE FetchMetadata
    <3> DEFINE e == [from |-> InitRemote(rhConf).url, source |-> InitRemote(rhConf).source,
                     dir |-> HashedUrl(rhConf), local |-> IsLocalRepo(rhConf)]
    <3>1. \/ rhFetched' = rhFetched
          \/ ~ InitRemoteFails(rhConf) /\ rhFetched' = rhFetched \cup {e}
      BY <2>2 DEF FetchMetadata
    <3>2. ~ InitRemoteFails(rhConf) => e.dir = e.from /\ (e.local => e.source = "URLS")
      BY OneOrderOfSources DEF InitRemote, InitRemoteFails
    <3> HIDE DEF e
    <3> QED
      BY <2>1, <3>1, <3>2 DEF SourcesAgree
  <2>3. CASE ~ FetchMetadata
    <3>1. rhFetched' = rhFetched
      BY <2>1, <2>3 DEF RhNext, SetConf, SetHeaders, SetCallbacks, VerifyRepo, DownloadWithRepo,
         DownloadWithConfig, rhVars
    <3> QED
      BY <2>1, <3>1 DEF SourcesAgree
  <2> QED
    BY <2>2, <2>3
<1> QED
  BY <1>1, <1>2, PTL DEF RhSpec

-----------------------------------------------------------------------------
(* The filters of a sack.                                                  *)

LEMMA SmallDivision ==
    ASSUME NEW a \in Nat, NEW b \in Nat, a < b
    PROVE  a \div b = 0 /\ a % b = a
OBVIOUS

LEMMA FirstAnswerIs ==
    ASSUME NEW n \in Nat, NEW A, A \in [1 .. n -> {"yes", "no", "throw"}]
    PROVE  \/ FirstAnswer(A) = "no" /\ \A k \in 1 .. n : A[k] = "no"
           \/ \E k \in 1 .. n : A[k] # "no" /\ FirstAnswer(A) = A[k]
<1> DEFINE I == {k \in 1 .. Len(A) : A[k] # "no"}
<1>1. Len(A) = n
  OBVIOUS
<1>2. SelectInSeq(A, LAMBDA a : a # "no") = IF I # {} THEN Min(I) ELSE 0
  BY DEF SelectInSeq
<1>3. I \in SUBSET Nat /\ I \subseteq 1 .. n
  BY <1>1
<1>4. CASE I = {}
  <2>1. FirstAnswer(A) = "no"
    BY <1>2, <1>4 DEF FirstAnswer
  <2> QED
    BY <1>1, <1>4, <2>1
<1>5. CASE I # {}
  <2>1. \E x \in I : \A y \in I : x <= y
    BY <1>3, <1>5, HasSmallest
  <2>2. Min(I) \in I
    BY <2>1 DEF Min
  <2> HIDE DEF I
  <2> DEFINE m == Min(I)
  <2>3. m \in I
    BY <2>2
  <2> HIDE DEF m
  <2>4. m \in 1 .. n
    BY <1>3, <2>3
  <2>5. m # 0
    BY <2>4
  <2>6. FirstAnswer(A) = A[m]
    BY <1>2, <1>5, <2>5 DEF FirstAnswer, m
  <2>7. A[m] # "no"
    BY <2>3 DEF I
  <2> QED
    BY <2>4, <2>6, <2>7
<1> QED
  BY <1>4, <1>5

\* What the caller of a RepoQuery filter expects of an item.
Matches(i, f) ==
    \E k \in DOMAIN f.patterns :
        LET p == f.patterns[k] IN
        IF f.getter = "enabled" THEN MatchBool(csEnabled[i], f.cmp, p) = "yes"
        ELSE MatchString(CsAttr[i].id[1], f.cmp, p) = "yes"

\* With one id the loops of match_string go once over the patterns.
LEMMA MatchesOneId ==
    ASSUME NEW i \in ToSet(CsItems), NEW f \in CsFilters
    PROVE  LET A == [k \in 1 .. Len(f.patterns) |->
                        MatchString(CsAttr[i].id[1], f.cmp, f.patterns[k])]
           IN MatchStrings(CsAttr[i].id, f.cmp, f.patterns) = FirstAnswer(A)
<1> DEFINE vs == CsAttr[i].id
           ps == f.patterns
           N == Len(ps)
           A == [k \in 1 .. N |-> MatchString(vs[1], f.cmp, ps[k])]
           B == [k \in 1 .. Len(vs) * Len(ps) |->
                    MatchString(vs[((k - 1) \div Len(ps)) + 1], f.cmp, ps[((k - 1) % Len(ps)) + 1])]
<1>1. Len(vs) = 1 /\ N \in Nat
  BY CommonSackAssumption
<1>2. Len(vs) * Len(ps) = N
  BY <1>1
<1>3. \A k \in 1 .. N : ((k - 1) \div Len(ps)) + 1 = 1 /\ ((k - 1) % Len(ps)) + 1 = k
  <2>1. SUFFICES ASSUME NEW k \in 1 .. N
                 PROVE  ((k - 1) \div N) + 1 = 1 /\ ((k - 1) % N) + 1 = k
    OBVIOUS
  <2> HIDE DEF N
  <2>2. k - 1 \in Nat /\ k - 1 < N /\ k \in Nat
    BY <1>1
  <2>3. (k - 1) \div N = 0 /\ (k - 1) % N = k - 1
    BY <1>1, <2>2, SmallDivision
  <2> QED
    BY <2>2, <2>3
<1>4. B = A
  BY <1>2, <1>3
<1> QED
  BY <1>4 DEF MatchStrings

\* A filter of RepoQuery answers for every item or throws for every item.
LEMMA AllOrNone ==
    ASSUME NEW f \in CsFilters, f.getter \in RepoGetters
    PROVE  \/ \A i \in ToSet(CsItems) : Answer(i, f) = "throw"
           \/ /\ csAlive
              /\ \A i \in ToSet(CsItems) : Answer(i, f) = IF Matches(i, f) THEN "yes" ELSE "no"
<1> DEFINE ps == f.patterns
           Known == f.cmp \in {"EXACT", "NEQ", "IEXACT", "GLOB", "REGEX", "IGLOB", "IREGEX"}
           A(i) == [k \in 1 .. Len(ps) |-> MatchString(CsAttr[i].id[1], f.cmp, ps[k])]
<1>1. CASE ~ csAlive
  BY <1>1 DEF Answer
<1>2. CASE csAlive /\ f.getter = "enabled"
  <2>1. ps \in Seq(ToSet(ps)) /\ Len(ps) = 1
    BY <1>2, CommonSackAssumption
  <2>2. DOMAIN ps = {1}
    BY <2>1
  <2>3. \A i \in ToSet(CsItems) : Answer(i, f) = MatchBool(csEnabled[i], f.cmp, ps[1])
    BY <1>2 DEF Answer
  <2>4. \A i \in ToSet(CsItems) : Matches(i, f) <=> MatchBool(csEnabled[i], f.cmp, ps[1]) = "yes"
    BY <1>2, <2>2 DEF Matches
  <2>5. \A v, p : MatchBool(v, f.cmp, p) \in {"yes", "no"}
    BY DEF MatchBool, Truth
  <2> QED
    BY <1>2, <2>3, <2>4, <2>5
<1>3. CASE csAlive /\ f.getter = "id"
  <2>1. ps \in Seq(ToSet(ps)) /\ Len(ps) \in Nat /\ DOMAIN ps = 1 .. Len(ps)
    BY CommonSackAssumption
  <2>2. \A i \in ToSet(CsItems) : Answer(i, f) = FirstAnswer(A(i))
    BY <1>3, MatchesOneId DEF Answer
  <2>3. \A i \in ToSet(CsItems) : Matches(i, f) <=> \E k \in 1 .. Len(ps) : A(i)[k] = "yes"
    BY <1>3, <2>1 DEF Matches
  <2>4. \A v, p : MatchString(v, f.cmp, p) \in IF Known THEN {"yes", "no"} ELSE {"throw"}
    BY DEF MatchString, Truth
  <2>5. \A i \in ToSet(CsItems) : A(i) \in [1 .. Len(ps) -> {"yes", "no", "throw"}]
    BY <2>4
  <2>6. \A i \in ToSet(CsItems), k \in 1 .. Len(ps) :
           A(i)[k] \in IF Known THEN {"yes", "no"} ELSE {"throw"}
    BY <2>4
  <2> HIDE DEF A, Known, ps
  <2>7. \A i \in ToSet(CsItems) :
           \/ FirstAnswer(A(i)) = "no" /\ \A k \in 1 .. Len(ps) : A(i)[k] = "no"
           \/ \E k \in 1 .. Len(ps) : A(i)[k] # "no" /\ FirstAnswer(A(i)) = A(i)[k]
    BY <2>1, <2>5, FirstAnswerIs
  <2>8. CASE Known \/ Len(ps) = 0
    <3>1. \A i \in ToSet(CsItems), k \in 1 .. Len(ps) : A(i)[k] \in {"yes", "no"}
      BY <2>6, <2>8
    <3>2. \A i \in ToSet(CsItems) :
             FirstAnswer(A(i)) = IF \E k \in 1 .. Len(ps) : A(i)[k] = "yes" THEN "yes" ELSE "no"
      BY <2>7, <3>1
    <3> QED
      BY <1>3, <2>2, <2>3, <3>2
  <2>9. CASE ~ Known /\ Len(ps) # 0
    <3>1. 1 \in 1 .. Len(ps)
      BY <2>1, <2>9
    <3>2. \A i \in ToSet(CsItems), k \in 1 .. Len(ps) : A(i)[k] = "throw"
      BY <2>6, <2>9
    <3>3. \A i \in ToSet(CsItems) : FirstAnswer(A(i)) = "throw"
      BY <2>7, <3>1, <3>2
    <3> QED
      BY <2>2, <3>3
  <2> QED
    BY <2>8, <2>9
<1> QED
  BY <1>1, <1>2, <1>3 DEF RepoGetters


\* Every item of a query is met on the walk.
LEMMA WalkMeetsAll ==
    ASSUME NEW q \in CsQueries, csQuery \in [CsQueries -> SUBSET ToSet(CsItems)]
    PROVE  /\ \A k \in Walk(q) : k \in Nat /\ CsItems[k] \in csQuery[q] /\ CsItems[k] \in ToSet(CsItems)
           /\ \A i \in csQuery[q] : \E k \in Walk(q) : CsItems[k] = i
<1>1. csQuery[q] \subseteq ToSet(CsItems)
  OBVIOUS
<1>2. \A k \in DOMAIN CsItems : k \in Nat
  BY CommonSackAssumption
<1> QED
  BY <1>1, <1>2 DEF Walk, ToSet

\* What ifilter leaves of a query.
LEMMA FilteredWhole ==
    ASSUME NEW q \in CsQueries, NEW f \in CsFilters, f.getter \in RepoGetters,
           csQuery \in [CsQueries -> SUBSET ToSet(CsItems)]
    PROVE  IF CsFiltered(q, f).threw THEN CsFiltered(q, f).set = csQuery[q]
           ELSE CsFiltered(q, f).set = {i \in csQuery[q] : csAlive /\ Matches(i, f)}
<1> DEFINE throws == {k \in Walk(q) : Answer(CsItems[k], f) = "throw"}
           seen == {k \in Walk(q) : \A t \in throws : k < t}
           gone == {CsItems[k] : k \in {j \in seen : Answer(CsItems[j], f) = "no"}}
<1>1. CsFiltered(q, f) = [threw |-> throws # {}, set |-> csQuery[q] \ gone]
  BY DEF CsFiltered
<1>2. CsFiltered(q, f).threw = (throws # {}) /\ CsFiltered(q, f).set = csQuery[q] \ gone
  BY <1>1
<1>3. CASE \A i \in ToSet(CsItems) : Answer(i, f) = "throw"
  <2>1. throws = Walk(q)
    BY <1>3, WalkMeetsAll
  <2>2. seen = {}
    BY <2>1, WalkMeetsAll
  <2>3. gone = {}
    BY <2>2
  <2>4. throws = {} => csQuery[q] = {}
    BY <2>1, WalkMeetsAll
  <2> HIDE DEF throws, seen, gone
  <2> QED
    BY <1>2, <2>3, <2>4
<1>4. CASE /\ csAlive
           /\ \A i \in ToSet(CsItems) : Answer(i, f) = IF Matches(i, f) THEN "yes" ELSE "no"
  <2>1. throws = {}
    BY <1>4, WalkMeetsAll
  <2>2. seen = Walk(q)
    BY <2>1
  <2>3. gone = {i \in csQuery[q] : ~ Matches(i, f)}
    BY <1>4, <2>2, WalkMeetsAll
  <2> HIDE DEF throws, seen, gone
  <2> QED
    BY <1>2, <1>4, <2>1, <2>3
<1> QED
  BY <1>3, <1>4, AllOrNone

\* Queries, limits and the sack hold items, and the last filter is one the
\* callers use.
CsHolds ==
    /\ csData \in Seq(ToSet(CsItems))
    /\ csExcludes \subseteq ToSet(CsItems) /\ csIncludes \subseteq ToSet(CsItems)
    /\ csQuery \in [CsQueries -> SUBSET ToSet(CsItems)]

CsInv == CsHolds /\ FilterAllOrNothing

LEMMA CsHoldsKept ==
    ASSUME CsHolds, [CsNext]_csVars
    PROVE  CsHolds'
<1> USE DEF CsHolds
<1>1. ASSUME NEW q \in CsQueries, NewCsQuery(q)
      PROVE  CsHolds'
  <2>1. ToSet(csData) \subseteq ToSet(CsItems)
    BY DEF ToSet
  <2> QED
    BY <1>1, <2>1 DEF NewCsQuery
<1>2. ASSUME NEW q \in CsQueries, SetLimits(q)
      PROVE  CsHolds'
  BY <1>2 DEF SetLimits
<1>3. ASSUME NEW q \in CsQueries, NEW f \in CsFilters, IFilter(q, f)
      PROVE  CsHolds'
  <2>1. CsFiltered(q, f).set \subseteq csQuery[q]
    BY DEF CsFiltered
  <2> QED
    BY <1>3, <2>1 DEF IFilter
<1>4. ASSUME NEW q \in CsQueries, NEW r \in CsQueries, Combine(q, r)
      PROVE  CsHolds'
  BY <1>4 DEF Combine
<1>5. ASSUME NEW i \in ToSet(CsItems), SackAddItem(i)
      PROVE  CsHolds'
  BY <1>5 DEF SackAddItem
<1>6. ASSUME NEW i \in ToSet(CsItems), SetEnabled(i)
      PROVE  CsHolds'
  BY <1>6 DEF SetEnabled
<1>7. CASE DropSack
  BY <1>7 DEF DropSack
<1>8. CASE UNCHANGED csVars
  BY <1>8 DEF csVars
<1> QED
  BY <1>1, <1>2, <1>3, <1>4, <1>5, <1>6, <1>7, <1>8 DEF CsNext

\* A filter of rpm::RepoQuery answers for the whole query or leaves it as it
\* was: in Query::ifilter no item is erased before another one throws, because
\* the getters of RepoQuery have one value for each item and match_string
\* throws for the operator, not for the value.  For every sack, every filter
\* and every order of operations on queries, limits and items.
THEOREM FilterStaysWhole == CsSpec => []FilterAllOrNothing
<1>1. CsInit => CsInv
  <2> SUFFICES ASSUME CsInit PROVE CsInv
    OBVIOUS
  <2>1. csLast.q = "none"
    BY DEF CsInit, NoFilterYet
  <2>2. FilterAllOrNothing
    BY <2>1, CommonSackAssumption DEF FilterAllOrNothing
  <2> QED
    BY <2>2 DEF CsInit, CsInv, CsHolds
<1>2. CsInv /\ [CsNext]_csVars => CsInv'
  <2> SUFFICES ASSUME CsInv, [CsNext]_csVars PROVE CsInv'
    OBVIOUS
  <2>1. CsHolds'
    BY CsHoldsKept DEF CsInv
  <2>2. ASSUME NEW q \in CsQueries, NEW f \in CsFilters, IFilter(q, f)
        PROVE  FilterAllOrNothing'
    <3> DEFINE r == CsFiltered(q, f)
    <3>1. csQuery \in [CsQueries -> SUBSET ToSet(CsItems)]
      BY DEF CsInv, CsHolds
    <3>2. f.getter \in RepoGetters =>
             IF r.threw THEN r.set = csQuery[q]
             ELSE r.set = {i \in csQuery[q] : csAlive /\ Matches(i, f)}
      BY <3>1, FilteredWhole
    <3> HIDE DEF r
    <3>3. /\ csQuery' = [csQuery EXCEPT ![q] = r.set]
          /\ csLast' = [q |-> q, f |-> f, before |-> csQuery[q], threw |-> r.threw]
          /\ csAlive' = csAlive /\ csEnabled' = csEnabled
      BY <2>2 DEF IFilter, r
    <3>4. /\ csQuery'[q] = r.set
          /\ csLast'.q = q /\ csLast'.f = f /\ csLast'.before = csQuery[q] /\ csLast'.threw = r.threw
      BY <3>1, <3>3
    <3>5. f.getter \in RepoGetters =>
             IF csLast'.threw THEN csQuery'[csLast'.q] = csLast'.before
             ELSE csQuery'[csLast'.q] = {i \in csLast'.before : csAlive /\ Matches(i, csLast'.f)}
      BY <3>2, <3>4
    <3> QED
      BY <3>3, <3>4, <3>5 DEF FilterAllOrNothing, Matches
  <2>3. ASSUME csLast' = NoFilterYet
        PROVE  FilterAllOrNothing'
    <3>1. csLast'.q = "none"
      BY <2>3 DEF NoFilterYet
    <3>2. ~ (csLast'.q \in CsQueries)
      BY <3>1, CommonSackAssumption
    <3> QED
      BY <3>2 DEF FilterAllOrNothing
  <2>4. ASSUME UNCHANGED csVars
        PROVE  FilterAllOrNothing'
    <3>1. csQuery' = csQuery /\ csLast' = csLast /\ csAlive' = csAlive /\ csEnabled' = csEnabled
      BY <2>4 DEF csVars
    <3>2. FilterAllOrNothing
      BY DEF CsInv
    <3> QED
      BY <3>1, <3>2 DEF FilterAllOrNothing
  <2>5. \/ csLast' = NoFilterYet \/ UNCHANGED csVars
        \/ \E q \in CsQueries, f \in CsFilters : IFilter(q, f)
    BY DEF CsNext, NewCsQuery, SetLimits, Combine, SackAddItem, SetEnabled, DropSack
  <2>6. FilterAllOrNothing'
    BY <2>2, <2>3, <2>4, <2>5
  <2> QED
    BY <2>1, <2>6 DEF CsInv
<1>3. CsInv => FilterAllOrNothing
  BY DEF CsInv
<1> QED
  BY <1>1, <1>2, <1>3, PTL DEF CsSpec

-----------------------------------------------------------------------------
(* microdnf: what a command was asked for and what its transaction does.   *)

CommandNames ==
    {"install", "upgrade", "reinstall", "download", "remove", "repolist", "repoinfo", "repoquery"}

LEMMA CommandsNamed == Commands = CommandNames
  BY DEF Commands, CommandOf, CommandNames

\* Every argument a command knows is one of NamedArgs.
LEMMA ArgsAreNamed ==
    \A cmd \in CommandNames \cup {"microdnf"} : ArgsOf(cmd) \subseteq NamedArgs
  BY DEF CommandNames, CommandOf, ArgsOf, NamedArgs, CmdInstall, CmdUpgrade, CmdReinstall, CmdDownload,
         CmdRemove, CmdRepolist, CmdRepoquery, Cmd

\* What the arguments exclude.
LEMMA ConflictGroups ==
    ASSUME NEW a \in NamedArgs
    PROVE  \/ a.conflicts = {} /\ a.name \in {"help", "setopt", "available", "installed"}
           \/ a.conflicts = {"all", "enabled", "disabled"} /\ a.name \in a.conflicts /\ a.short = None
           \/ a.conflicts = {"info", "nevra"} /\ a.name \in a.conflicts /\ a.short = None
<1>1. CASE a \in RootArgs
  <2>1. a = NamedArg("help", "h", FALSE, None, "", {}) \/ a = NamedArg("setopt", None, TRUE, None, "", {})
    BY <1>1 DEF RootArgs
  <2>2. CASE a = NamedArg("help", "h", FALSE, None, "", {})
    BY <2>2 DEF NamedArg
  <2>3. CASE a = NamedArg("setopt", None, TRUE, None, "", {})
    BY <2>3 DEF NamedArg
  <2> QED
    BY <2>1, <2>2, <2>3
<1>2. CASE a \in RepolistArgs
  BY <1>2 DEF RepolistArgs, NamedArg
<1>3. CASE a \in RepoqueryArgs
  BY <1>3 DEF RepoqueryArgs, NamedArg
<1> QED
  BY <1>1, <1>2, <1>3 DEF NamedArgs

LEMMA ConflictsAreMutual ==
    ASSUME NEW a \in NamedArgs, NEW b \in NamedArgs, b.name \in a.conflicts \ {a.name}
    PROVE  a.name \in b.conflicts \ {b.name}
  BY ConflictGroups

\* Of two arguments that exclude each other at most one was counted, and the
\* tokens left are tokens of the command line.
ArgNames == {arg.name : arg \in NamedArgs}

AtMostOne ==
    \A arg \in NamedArgs : \A other \in arg.conflicts \ {arg.name} :
        ~ (counts[arg.name] > 0 /\ counts[other] > 0)

UdParseInv ==
    /\ counts \in [ArgNames -> Nat]
    /\ parse \in [cmd : CommandNames \cup {"microdnf"}, rest : Seq(Tokens), short : Nat, used : {0, 1}]
    /\ command \in CommandNames \cup {None}
    /\ AtMostOne

\* The element that stands for package p.
Covers(list, p) == \E e \in Range(list) : SameName(e.pkg, p) /\ TsVersion[e.pkg] >= TsVersion[p]

TsElements == [op : {"install", "upgrade", "reinstall", "erase"}, pkg : TsPkgs]

UdRunInv ==
    /\ elements \in Seq(TsElements)
    /\ result \subseteq TsPkgs
    /\ downloads \in [TsPkgs -> {"READY", "SUCCESS", "ERROR", "added"}]
    /\ pc = "configured" => command \in CommandNames
    /\ pc = "download" => command \in CommandNames
    /\ pc = "add" => command \in {"install", "upgrade", "reinstall", "remove"}
    /\ pc \notin {"run", "end"} => rpmdb = TsInstalled
    /\ pc = "download" => \A p \in TsPkgs : downloads[p] # "added"
    /\ pc = "add" => \A p \in result : downloads[p] = "added" => Covers(elements, p)
    /\ pc = "run" => \A p \in result : Covers(elements, p)

UdInv == UdParseInv /\ UdRunInv

-----------------------------------------------------------------------------
\* Counting an argument that no counted one excludes.
LEMMA CountedAlone ==
    ASSUME UdParseInv, NEW arg \in NamedArgs, ~ Conflict(arg),
           counts' = [counts EXCEPT ![arg.name] = @ + 1]
    PROVE  counts' \in [ArgNames -> Nat] /\ AtMostOne'
<1>1. arg.name \in ArgNames /\ counts \in [ArgNames -> Nat] /\ AtMostOne
  BY DEF UdParseInv, ArgNames
<1>2. counts' \in [ArgNames -> Nat]
  BY <1>1
<1>3. ASSUME NEW a \in NamedArgs, NEW other \in a.conflicts \ {a.name},
             counts'[a.name] > 0, counts'[other] > 0
      PROVE  FALSE
  <2>1. PICK b \in NamedArgs : b.name = other
    <3>1. other \in {"all", "enabled", "disabled", "info", "nevra"}
      BY <1>3, ConflictGroups
    <3>2. CASE other \in {"all", "enabled", "disabled"}
      <4>1. NamedArg(other, None, FALSE, "enable_disable", other, {"all", "enabled", "disabled"}) \in RepolistArgs
        BY <3>2 DEF RepolistArgs
      <4> QED
        BY <4>1 DEF NamedArg, NamedArgs
    <3>3. CASE other \in {"info", "nevra"}
      <4>1. NamedArg(other, None, FALSE, other, "true", {"info", "nevra"}) \in RepoqueryArgs
        BY <3>3 DEF RepoqueryArgs
      <4> QED
        BY <4>1 DEF NamedArg, NamedArgs
    <3> QED
      BY <3>1, <3>2, <3>3
  <2>2. a.name \in ArgNames /\ other \in ArgNames
    BY <2>1 DEF ArgNames
  <2>3. a.name \in b.conflicts \ {b.name}
    BY <1>3, <2>1, ConflictsAreMutual
  <2>4. ~ (counts[a.name] > 0 /\ counts[other] > 0)
    BY <1>1, <1>3 DEF AtMostOne
  <2>5. CASE a.name = arg.name
    <3>1. other \in arg.conflicts \ {arg.name}
      BY <1>3, <2>1, <2>5, ConflictGroups
    <3> QED
      BY <3>1, <1>1, <1>3, <2>2, <2>5 DEF Conflict
  <2>6. CASE other = arg.name
    <3>1. a.name \in arg.conflicts \ {arg.name}
      BY <1>3, <2>1, <2>3, <2>6, ConflictGroups
    <3> QED
      BY <3>1, <1>1, <1>3, <2>2, <2>6 DEF Conflict
  <2> QED
    BY <1>1, <1>3, <2>2, <2>4, <2>5, <2>6
<1> QED
  BY <1>2, <1>3 DEF AtMostOne

\* A letter that parse_short() looks at is no `None', so that only -h has it.
LEMMA LettersAreLetters ==
    ASSUME UdParseInv, Parsing
    PROVE  None \notin ShortLetters
<1>1. Token \in Tokens
  BY DEF UdParseInv, Parsing, Token
<1>2. Token.letters \in Seq(STRING) /\ None \notin Range(Token.letters)
  BY <1>1, MicrodnfAssumption
<1>3. parse.short < Len(Token.letters) => Token.letters[parse.short + 1] \in Range(Token.letters)
  BY <1>2 DEF UdParseInv, Range
<1> QED
  BY <1>2, <1>3 DEF ShortLetters, None

LEMMA Dropped ==
    ASSUME UdParseInv, NEW n \in Nat
    PROVE  Drop(n) \in Seq(Tokens)
  BY DEF UdParseInv, Drop

\* Taking an argument that nothing excludes.
LEMMA TakeStep ==
    ASSUME UdParseInv, NEW arg \in NamedArgs, ~ Conflict(arg), NEW value, NEW n \in Nat, NEW short \in Nat,
           Take(arg, value, n, short)
    PROVE  UdParseInv'
<1>1. counts' \in [ArgNames -> Nat] /\ AtMostOne'
  BY CountedAlone DEF Take
<1>2. command' = command /\ (UNCHANGED parse \/ Went(n, short))
  BY DEF Take, Throw
<1>3. CASE UNCHANGED parse
  BY <1>1, <1>2, <1>3 DEF UdParseInv
<1>4. CASE Went(n, short)
  <2> DEFINE rest == Drop(n)
  <2>1. rest \in Seq(Tokens)
    BY Dropped
  <2>2. parse' = [parse EXCEPT !.rest = rest, !.short = short]
    BY <1>4 DEF Went
  <2> HIDE DEF rest
  <2> QED
    BY <2>1, <2>2, <1>1, <1>2 DEF UdParseInv
<1> QED
  BY <1>2, <1>3, <1>4

\* The parser keeps what it counted and what is left of the command line.
LEMMA ParseKept ==
    ASSUME UdParseInv, ParseStep
    PROVE  UdParseInv'
<1>1. ASSUME ParseLong PROVE UdParseInv'
  <2>1. PICK arg \in ArgsOf(parse.cmd) :
          \/ Throw /\ UNCHANGED counts
          \/ ~ Conflict(arg) /\ Take(arg, Token.value, 1, parse.short)
          \/ ~ Conflict(arg) /\ Take(arg, parse.rest[2].name, 2, parse.short)
          \/ ~ Conflict(arg) /\ Take(arg, "", 1, parse.short)
    BY <1>1 DEF ParseLong
  <2>2. arg \in NamedArgs /\ parse.short \in Nat
    BY ArgsAreNamed DEF UdParseInv
  <2>3. CASE Throw /\ UNCHANGED counts
    BY <2>3 DEF UdParseInv, Throw, AtMostOne
  <2> QED
    BY <2>1, <2>2, <2>3, TakeStep
<1>2. ASSUME ParseShort PROVE UdParseInv'
  <2>1. PICK arg \in ArgsOf(parse.cmd), letter \in ShortLetters :
          /\ arg.short = letter
          /\ Take(arg, "", 0, parse.short + 1) \/ Take(arg, "", 1, 0)
    BY <1>2 DEF ParseShort
  <2>2. arg \in NamedArgs /\ parse.short \in Nat /\ parse.short + 1 \in Nat
    BY ArgsAreNamed DEF UdParseInv
  <2>3. letter # None
    BY <1>2, LettersAreLetters DEF ParseShort
  <2>4. ~ Conflict(arg)
    BY <2>1, <2>2, <2>3, ConflictGroups DEF Conflict
  <2> QED
    BY <2>1, <2>2, <2>4, TakeStep
<1>3. ASSUME EnterCommand PROVE UdParseInv'
  <2> DEFINE rest == Drop(1)
             name == Token.name
  <2>1. rest \in Seq(Tokens)
    BY Dropped
  <2>2. name \in CommandNames /\ parse' = [cmd |-> name, rest |-> rest, short |-> 0, used |-> 0]
    BY <1>3, CommandsNamed DEF EnterCommand
  <2> HIDE DEF rest, name
  <2>3. parse' \in [cmd : CommandNames \cup {"microdnf"}, rest : Seq(Tokens), short : Nat, used : {0, 1}]
    BY <2>1, <2>2
  <2> QED
    BY <2>3, <1>3 DEF UdParseInv, EnterCommand, AtMostOne
<1>4. ASSUME ParsePositional PROVE UdParseInv'
  <2>1. << >> \in Seq(Tokens)
    OBVIOUS
  <2>2. parse' = [parse EXCEPT !.rest = << >>, !.used = 1]
    BY <1>4 DEF ParsePositional
  <2> QED
    BY <2>1, <2>2, <1>4 DEF UdParseInv, ParsePositional, AtMostOne
<1>5. ASSUME SkipArgument PROVE UdParseInv'
  <2> DEFINE rest == Drop(1)
  <2>1. rest \in Seq(Tokens)
    BY Dropped
  <2>2. parse' = [parse EXCEPT !.rest = rest, !.short = parse.short]
    BY <1>5 DEF SkipArgument, Went
  <2> HIDE DEF rest
  <2> QED
    BY <2>1, <2>2, <1>5 DEF UdParseInv, SkipArgument, AtMostOne
<1>6. ASSUME ParseEnd PROVE UdParseInv'
  <2>1. command' \in CommandNames \cup {None}
    BY <1>6, CommandsNamed DEF ParseEnd, SelectCommand
  <2> QED
    BY <2>1, <1>6 DEF UdParseInv, ParseEnd, AtMostOne
<1> QED
  BY <1>1, <1>2, <1>3, <1>4, <1>5, <1>6 DEF ParseStep

-----------------------------------------------------------------------------
LEMMA SetToSeqIsSeq ==
    ASSUME NEW S, IsFiniteSet(S)
    PROVE  SetToSeq(S) \in Seq(S)
<1> DEFINE n == Cardinality(S)
<1>1. n \in Nat /\ ExistsBijection(1 .. n, S)
  BY FS_CardinalityType
<1>2. \E f \in [1 .. n -> S] : IsInjective(f)
  BY <1>1 DEF ExistsBijection, Bijection, Injection
<1>3. SetToSeq(S) \in [1 .. n -> S]
  BY <1>2 DEF SetToSeq
<1> HIDE DEF n
<1> QED
  BY <1>1, <1>3

\* The elements that an upgrade adds for what it replaces.
LEMMA ErasesTyped ==
    ASSUME NEW R \in SUBSET TsPkgs
    PROVE  SetToSeq({[op |-> "erase", pkg |-> q] : q \in R}) \in Seq(TsElements)
<1> DEFINE S == {[op |-> "erase", pkg |-> q] : q \in R}
           f == [q \in R |-> [op |-> "erase", pkg |-> q]]
<1>1. IsFiniteSet(R)
  BY FS_Subset, RpmTransactionAssumption
<1>2. f \in Surjection(R, S)
  BY DEF Surjection
<1>3. IsFiniteSet(S)
  BY <1>1, <1>2, FS_Surjection
<1>4. S \subseteq TsElements
  BY DEF TsElements
<1>5. SetToSeq(S) \in Seq(S)
  BY <1>3, SetToSeqIsSeq
<1> HIDE DEF S
<1>6. SetToSeq(S) \in Seq(TsElements)
  BY <1>4, <1>5
<1> QED
  BY <1>6 DEF S

LEMMA CoversMore ==
    ASSUME NEW s \in Seq(TsElements), NEW t \in Seq(TsElements), NEW q, Covers(s, q)
    PROVE  s \o t \in Seq(TsElements) /\ Covers(s \o t, q)
<1>1. PICK k \in DOMAIN s : SameName(s[k].pkg, q) /\ TsVersion[s[k].pkg] >= TsVersion[q]
  BY DEF Covers, Range
<1>2. s \o t \in Seq(TsElements) /\ k \in DOMAIN (s \o t) /\ (s \o t)[k] = s[k]
  OBVIOUS
<1> QED
  BY <1>1, <1>2 DEF Covers, Range

LEMMA AppendCovers ==
    ASSUME NEW s \in Seq(TsElements), NEW e \in TsElements
    PROVE  /\ Append(s, e) \in Seq(TsElements) /\ Covers(Append(s, e), e.pkg)
           /\ \A q \in TsPkgs : Covers(s, q) => Covers(Append(s, e), q)
<1> DEFINE t == Append(s, e)
<1>1. /\ t \in Seq(TsElements) /\ Len(s) + 1 \in DOMAIN t /\ t[Len(s) + 1] = e
      /\ \A k \in DOMAIN s : k \in DOMAIN t /\ t[k] = s[k]
  OBVIOUS
<1>2. e.pkg \in TsPkgs /\ TsVersion[e.pkg] \in Int
  BY RpmTransactionAssumption DEF TsElements
<1> HIDE DEF t
<1>3. Covers(t, e.pkg)
  BY <1>1, <1>2 DEF Covers, Range, SameName
<1>4. ASSUME NEW q \in TsPkgs, Covers(s, q) PROVE Covers(t, q)
  <2>1. PICK k \in DOMAIN s : SameName(s[k].pkg, q) /\ TsVersion[s[k].pkg] >= TsVersion[q]
    BY <1>4 DEF Covers, Range
  <2> QED
    BY <1>1, <2>1 DEF Covers, Range
<1> QED
  BY <1>1, <1>3, <1>4 DEF t

\* An addition covers its package and uncovers none: what it takes the place of
\* has its name and is older.
LEMMA AdditionCovers ==
    ASSUME NEW list \in Seq(TsElements), NEW op \in {"install", "upgrade", "reinstall"}, NEW p \in TsPkgs,
           rpmdb \subseteq TsPkgs
    PROVE  /\ AddedElement(list, op, p) \in Seq(TsElements)
           /\ Covers(AddedElement(list, op, p), p)
           /\ \A q \in TsPkgs : Covers(list, q) => Covers(AddedElement(list, op, p), q)
<1> DEFINE new == [op |-> op, pkg |-> p]
           old == {e \in Range(list) : Supersedes(p, e)}
           renewed == [k \in DOMAIN list |-> IF list[k] \in old THEN new ELSE list[k]]
           replaced == IF op = "install" THEN {}
                       ELSE {q \in rpmdb : SameName(p, q)} \ ({p} \cup {e.pkg : e \in Range(list)})
           base == IF old = {} THEN Append(list, new) ELSE renewed
           erases == SetToSeq({[op |-> "erase", pkg |-> q] : q \in replaced})
<1>1. new \in TsElements /\ new.pkg = p
  BY DEF TsElements
<1>2. erases \in Seq(TsElements)
  <2>1. replaced \in SUBSET TsPkgs
    OBVIOUS
  <2> HIDE DEF replaced
  <2> QED
    BY <2>1, ErasesTyped
<1>3. AddedElement(list, op, p) =
        IF \E e \in old : TsVersion[e.pkg] >= TsVersion[p] THEN list ELSE base \o erases
  BY DEF AddedElement
<1>4. CASE \E e \in old : TsVersion[e.pkg] >= TsVersion[p]
  <2>1. Covers(list, p)
    BY <1>4 DEF Covers, Supersedes
  <2> QED
    BY <1>3, <1>4, <2>1
<1>5. CASE ~ \E e \in old : TsVersion[e.pkg] >= TsVersion[p]
  <2> HIDE DEF new, erases
  <2>1. /\ base \in Seq(TsElements) /\ Covers(base, p)
        /\ \A q \in TsPkgs : Covers(list, q) => Covers(base, q)
    <3>1. CASE old = {}
      <4>1. base = Append(list, new)
        BY <3>1
      <4> HIDE DEF base
      <4> QED
        BY <4>1, <1>1, AppendCovers
    <3>2. CASE old # {}
      <4>1. base = renewed
        BY <3>2
      <4>2. renewed \in Seq(TsElements)
        BY <1>1
      <4>3. PICK k0 \in DOMAIN list : list[k0] \in old
        BY <3>2 DEF Range
      <4>4. Covers(renewed, p)
        <5>1. renewed[k0] = new /\ k0 \in DOMAIN renewed
          BY <4>3
        <5>2. TsVersion[p] \in Int
          BY RpmTransactionAssumption
        <5> HIDE DEF renewed
        <5> QED
          BY <5>1, <5>2, <1>1 DEF Covers, Range, SameName
      <4>5. ASSUME NEW q \in TsPkgs, Covers(list, q) PROVE Covers(renewed, q)
        <5>1. PICK k \in DOMAIN list : SameName(list[k].pkg, q) /\ TsVersion[list[k].pkg] >= TsVersion[q]
          BY <4>5 DEF Covers, Range
        <5>2. k \in DOMAIN renewed /\ list[k] \in TsElements
          OBVIOUS
        <5>3. CASE list[k] \in old
          <6>1. renewed[k] = new
            BY <5>3
          <6>2. SameName(list[k].pkg, p) /\ ~ (TsVersion[list[k].pkg] >= TsVersion[p])
            BY <5>3, <1>5 DEF Supersedes
          <6>3. TsVersion[p] \in Int /\ TsVersion[q] \in Int /\ TsVersion[list[k].pkg] \in Int
            BY <5>2, RpmTransactionAssumption DEF TsElements
          <6>4. SameName(p, q) /\ TsVersion[p] >= TsVersion[q]
            BY <5>1, <6>2, <6>3 DEF SameName
          <6> HIDE DEF renewed
          <6> QED
            BY <5>2, <6>1, <6>4, <1>1 DEF Covers, Range
        <5>4. CASE list[k] \notin old
          <6>1. renewed[k] = list[k]
            BY <5>4
          <6> HIDE DEF renewed, old
          <6> QED
            BY <5>1, <5>2, <6>1 DEF Covers, Range
        <5> QED
          BY <5>3, <5>4
      <4> HIDE DEF renewed, base
      <4> QED
        BY <4>1, <4>2, <4>4, <4>5
    <3> QED
      BY <3>1, <3>2
  <2>2. AddedElement(list, op, p) = base \o erases
    BY <1>3, <1>5
  <2> HIDE DEF base
  <2> QED
    BY <1>2, <2>1, <2>2, CoversMore
<1> QED
  BY <1>4, <1>5

-----------------------------------------------------------------------------
LEMMA UdInitial == UdInit => UdInv
<1> SUFFICES ASSUME UdInit PROVE UdInv
  OBVIOUS
<1>1. UdParseInv
  <2>1. PICK argv \in Argvs : parse = [cmd |-> "microdnf", rest |-> argv, short |-> 0, used |-> 0]
    BY DEF UdInit
  <2>2. argv \in Seq(Tokens)
    BY MicrodnfAssumption
  <2>3. counts = [name \in ArgNames |-> 0] /\ command = None
    BY DEF UdInit, ArgNames
  <2>4. AtMostOne
    <3> SUFFICES ASSUME NEW arg \in NamedArgs PROVE ~ (counts[arg.name] > 0)
      BY DEF AtMostOne
    <3> QED
      BY <2>3 DEF ArgNames
  <2> QED
    BY <2>1, <2>2, <2>3, <2>4 DEF UdParseInv
<1>2. UdRunInv
  <2>1. /\ elements = << >> /\ rpmdb = TsInstalled /\ result = {} /\ pc = "parse"
        /\ downloads = [p \in TsPkgs |-> "READY"]
    BY DEF UdInit, TsInit
  <2> QED
    BY <2>1 DEF UdRunInv
<1> QED
  BY <1>1, <1>2 DEF UdInv

\* The steps after the parser leave its counts alone.
LEMMA ParsedKept ==
    ASSUME UdParseInv, UNCHANGED udParsed
    PROVE  UdParseInv'
  BY DEF UdParseInv, udParsed, AtMostOne

LEMMA ParseRuns ==
    ASSUME UdRunInv, ParseStep
    PROVE  UdRunInv'
<1>1. /\ UNCHANGED <<elements, rpmdb, result, downloads>>
      /\ pc = "parse" /\ pc' \in {"parse", "parsed"}
  BY DEF ParseStep, tsVars, ParseLong, ParseShort, EnterCommand, ParsePositional, SkipArgument, ParseEnd,
         Take, Throw, Parsing
<1> QED
  BY <1>1 DEF UdRunInv

LEMMA MainRuns ==
    ASSUME UdParseInv, UdRunInv, MainStep
    PROVE  UdRunInv'
<1>1. UNCHANGED <<elements, rpmdb>>
  BY DEF MainStep, tsVars
<1>2. ASSUME NoCommand \/ Configure \/ Printed PROVE UdRunInv'
  BY <1>1, <1>2 DEF NoCommand, Configure, Printed, CommandFails, UdRunInv, UdParseInv, udParsed
<1>3. ASSUME RunCommand PROVE UdRunInv'
  <2>1. pc = "configured" /\ (pc' = CommandOf[command].then \/ pc' = "end")
    BY <1>3 DEF RunCommand, CommandFails
  <2>2. result' \subseteq TsPkgs
    <3>1. result' = result \/ \E from \in SUBSET TsPkgs : result' = Selected(from)
      <4> DEFINE from == (IF CommandOf[command].system THEN TsInstalled ELSE {}) \cup
                         (IF CommandOf[command].repos THEN RepoPkgs ELSE {})
      <4>1. from \subseteq TsPkgs
        BY RpmTransactionAssumption, MicrodnfAssumption
      <4>2. result' = result \/ result' = Selected(from)
        BY <1>3 DEF RunCommand
      <4> HIDE DEF from
      <4> QED
        BY <4>1, <4>2
    <3>2. ASSUME NEW from PROVE Selected(from) \subseteq from
      BY DEF Selected
    <3> QED
      BY <3>1, <3>2 DEF UdRunInv
  <2>3. downloads' = [p \in TsPkgs |-> "READY"] /\ UNCHANGED command
    BY <1>3 DEF RunCommand, udParsed
  <2>4. /\ command \in CommandNames
        /\ CommandOf[command].then \in {"download", "printed"}
             \/ (CommandOf[command].then = "add" /\ command = "remove")
    BY <2>1 DEF UdRunInv, CommandNames, CommandOf, CmdInstall, CmdUpgrade, CmdReinstall, CmdDownload,
           CmdRemove, CmdRepolist, CmdRepoquery, Cmd
  <2> QED
    BY <1>1, <2>1, <2>2, <2>3, <2>4 DEF UdRunInv
<1>4. ASSUME NEW p \in TsPkgs, DownloadEnds(p) PROVE UdRunInv'
  BY <1>1, <1>4 DEF DownloadEnds, UdRunInv, udParsed
<1>5. ASSUME DownloadsEnd PROVE UdRunInv'
  <2>1. CommandOf[command].op # None => command \in {"install", "upgrade", "reinstall", "remove"}
    BY <1>5 DEF DownloadsEnd, UdRunInv, CommandNames, CommandOf, CmdInstall, CmdUpgrade, CmdReinstall,
           CmdDownload, CmdRemove, CmdRepolist, CmdRepoquery, Cmd
  <2> QED
    BY <1>1, <1>5, <2>1 DEF DownloadsEnd, UdRunInv, udParsed
<1> QED
  BY <1>2, <1>3, <1>4, <1>5 DEF MainStep

\* An item is added: its package is covered, and the others stay so.
LEMMA AddRuns ==
    ASSUME UdRunInv, NEW p \in TsPkgs, AddItem(p)
    PROVE  UdRunInv'
<1>1. /\ pc = "add" /\ rpmdb = TsInstalled /\ rpmdb \subseteq TsPkgs
      /\ UNCHANGED <<rpmdb, result, command>>
      /\ downloads' = [downloads EXCEPT ![p] = "added"]
  BY RpmTransactionAssumption DEF AddItem, UdRunInv, TsAdd, TsErase, udParsed
<1>2. PICK rc \in (IF p \in files THEN {"OK", "NOKEY", "FAIL"} ELSE {"FAIL"}), accepted \in BOOLEAN :
        LET op == CommandOf[command].op
            ok == IF op = "erase" THEN TsEraseOk(p, accepted) ELSE TsAddOk(rc, accepted)
        IN /\ IF op = "erase" THEN TsErase(p, accepted) ELSE TsAdd(op, p, rc, accepted)
           /\ IF ok THEN UNCHANGED <<pc, status>> ELSE CommandFails
  BY DEF AddItem
<1> DEFINE op == CommandOf[command].op
<1>3. op \in {"install", "upgrade", "reinstall", "erase"}
  BY <1>1 DEF UdRunInv, CommandOf, CmdInstall, CmdUpgrade, CmdReinstall, CmdRemove, Cmd
<1>4. /\ elements' \in Seq(TsElements)
      /\ \A q \in TsPkgs : Covers(elements, q) => Covers(elements', q)
      /\ pc' = "end" \/ (pc' = pc /\ Covers(elements', p))
  <2>1. CASE op = "erase"
    <3> DEFINE e == [op |-> "erase", pkg |-> p]
    <3>1. e \in TsElements /\ e.pkg = p
      BY DEF TsElements
    <3>2. /\ TsErase(p, accepted)
          /\ IF TsEraseOk(p, accepted) THEN pc' = pc ELSE pc' = "end"
      BY <1>2, <2>1 DEF CommandFails
    <3>3. /\ elements' = Append(elements, e) \/ elements' = elements
          /\ TsEraseOk(p, accepted) => elements' = Append(elements, e)
      BY <3>2 DEF TsErase, TsEraseOk
    <3> HIDE DEF e
    <3> QED
      BY <3>1, <3>2, <3>3, AppendCovers DEF UdRunInv
  <2>2. CASE op # "erase"
    <3>1. /\ TsAdd(op, p, rc, accepted)
          /\ IF TsAddOk(rc, accepted) THEN pc' = pc ELSE pc' = "end"
      BY <1>2, <2>2 DEF CommandFails
    <3>2. /\ elements' = AddedElement(elements, op, p) \/ elements' = elements
          /\ TsAddOk(rc, accepted) => elements' = AddedElement(elements, op, p)
      BY <3>1 DEF TsAdd, TsAddOk
    <3> HIDE DEF op
    <3>3. op \in {"install", "upgrade", "reinstall"} /\ elements \in Seq(TsElements)
      BY <1>3, <2>2 DEF UdRunInv
    <3> DEFINE new == AddedElement(elements, op, p)
    <3>4. /\ new \in Seq(TsElements) /\ Covers(new, p)
          /\ \A q \in TsPkgs : Covers(elements, q) => Covers(new, q)
      BY <3>3, <1>1, AdditionCovers
    <3> HIDE DEF new
    <3>5. elements' = new \/ (elements' = elements /\ pc' = "end")
      BY <3>1, <3>2 DEF new
    <3>6. pc' = "end" \/ pc' = pc
      BY <3>1
    <3> QED
      BY <3>3, <3>4, <3>5, <3>6
  <2> QED
    BY <2>1, <2>2
<1>5. downloads' \in [TsPkgs -> {"READY", "SUCCESS", "ERROR", "added"}]
  BY <1>1 DEF UdRunInv
<1> QED
  BY <1>1, <1>4, <1>5 DEF UdRunInv

LEMMA UdNextKeeps ==
    ASSUME UdInv, [UdNext]_<<udVars, tsVars>>
    PROVE  UdInv'
<1> USE DEF UdInv
<1>1. CASE ParseStep
  BY <1>1, ParseKept, ParseRuns
<1>2. CASE MainStep
  <2>1. UNCHANGED udParsed
    BY <1>2 DEF MainStep, NoCommand, Configure, RunCommand, DownloadsEnd, Printed, DownloadEnds
  <2> QED
    BY <1>2, <2>1, ParsedKept, MainRuns
<1>3. ASSUME NEW p \in TsPkgs, AddItem(p) PROVE UdInv'
  <2>1. UNCHANGED udParsed
    BY <1>3 DEF AddItem
  <2> QED
    BY <1>3, <2>1, ParsedKept, AddRuns
<1>4. CASE RunTransaction
  <2>1. UNCHANGED udParsed /\ UNCHANGED <<elements, rpmdb, result, downloads>>
    BY <1>4 DEF RunTransaction, TsRun, tsVars
  <2>2. pc = "add" /\ pc' \in {"run", "end"} /\ \A p \in result : downloads[p] = "added"
    BY <1>4 DEF RunTransaction, CommandFails
  <2>3. UdRunInv'
    BY <2>1, <2>2 DEF UdRunInv, udParsed
  <2> QED
    BY <2>1, <2>3, ParsedKept
<1>5. CASE pc = "run" /\ RpmStep /\ UNCHANGED udVars
  <2>1. UNCHANGED elements
    BY <1>5 DEF RpmStep, StageStart, NoVerify, StageProgress, StageStop, OpenFile, ElementStart,
           ElementProgress, Scriptlet, UnpackError, ElementStop, TsRunEnd, tsInputs
  <2>2. UNCHANGED udParsed /\ UNCHANGED <<pc, result, downloads, command>>
    BY <1>5 DEF udVars, udParsed
  <2>3. UdRunInv'
    BY <1>5, <2>1, <2>2 DEF UdRunInv
  <2> QED
    BY <2>2, <2>3, ParsedKept
<1>6. CASE TransactionEnds
  <2>1. UNCHANGED udParsed /\ UNCHANGED <<result, downloads>> /\ elements' = << >> /\ pc' = "end"
    BY <1>6 DEF TransactionEnds, TsDestroyed, CommandFails
  <2>2. UdRunInv'
    BY <2>1 DEF UdRunInv
  <2> QED
    BY <2>1, <2>2, ParsedKept
<1>7. CASE UNCHANGED <<udVars, tsVars>>
  <2>1. UNCHANGED udParsed /\ UNCHANGED <<pc, result, downloads, command, elements, rpmdb>>
    BY <1>7 DEF udVars, tsVars, udParsed
  <2>2. UdRunInv'
    BY <2>1 DEF UdRunInv
  <2> QED
    BY <2>1, <2>2, ParsedKept
<1> QED
  BY <1>1, <1>2, <1>3, <1>4, <1>5, <1>6, <1>7 DEF UdNext

\* Whatever the command line, the pool and the answers of rpm are: microdnf
\* starts a command only with options that agree, and a transaction that rpm runs
\* has an element for every package the patterns selected, or a newer one of its
\* name (Command::parse, Context::download_and_run, rpm::Transaction).
THEOREM RequestedStaysDone == UdSpec => []RequestedIsDone
<1>1. UdInv => RequestedIsDone
  <2> SUFFICES ASSUME UdInv PROVE RequestedIsDone
    OBVIOUS
  <2>1. OptionsAgree
    BY ArgsAreNamed DEF UdInv, UdParseInv, AtMostOne, OptionsAgree, None, CommandNames
  <2>2. RunsWhole
    BY DEF UdInv, UdRunInv, RunsWhole, Covers
  <2> QED
    BY <2>1, <2>2 DEF RequestedIsDone
<1> QED
  BY <1>1, UdInitial, UdNextKeeps, PTL DEF UdSpec

-----------------------------------------------------------------------------
(* The options of ConfigMain.                                              *)

\* A set of numbers that holds 0 and with each number the next one.
LEMMA Reaches ==
    ASSUME NEW N \in Nat, NEW G, 0 \in G, \A n \in 1 .. N : n - 1 \in G => n \in G
    PROVE  N \in G
<1> DEFINE T == {n \in 0 .. N : n \notin G}
<1>1. SUFFICES ASSUME T # {} PROVE FALSE
  OBVIOUS
<1>2. T \in SUBSET Nat
  OBVIOUS
<1>3. PICK n \in T : \A m \in T : n <= m
  <2> HIDE DEF T
  <2> QED
    BY <1>1, <1>2, HasSmallest
<1>4. n \in 1 .. N /\ n - 1 \in 0 .. N /\ ~ (n <= n - 1)
  BY <1>3
<1> QED
  BY <1>3, <1>4

LEMMA ToSetAppend ==
    ASSUME NEW S, NEW s \in Seq(S), NEW x \in S
    PROVE  Append(s, x) \in Seq(S) /\ ToSet(Append(s, x)) = ToSet(s) \cup {x}
<1>1. /\ DOMAIN s = 1 .. Len(s) /\ Len(s) \in Nat /\ DOMAIN Append(s, x) = 1 .. Len(s) + 1
      /\ \A i \in 1 .. Len(s) : Append(s, x)[i] = s[i]
      /\ Append(s, x)[Len(s) + 1] = x
  OBVIOUS
<1>2. 1 .. Len(s) + 1 = (1 .. Len(s)) \cup {Len(s) + 1}
  BY <1>1
<1>3. ToSet(Append(s, x)) = ToSet(s) \cup {x}
  BY <1>1, <1>2 DEF ToSet
<1> QED
  BY <1>3

\* What is kept of the items of a list: every one that is not empty.
KeptOf(items, kept, N) ==
    kept = [n \in 0 .. N |-> IF n = 0 THEN << >> ELSE KeepItem(kept[n - 1], items[n])]

LEMMA NonEmptyIs ==
    ASSUME NEW S, NEW items \in Seq(S)
    PROVE  NonEmpty(items) \in Seq(S) /\ ToSet(NonEmpty(items)) = ToSet(items) \ {""}
<1> DEFINE N == Len(items)
           G == {n \in 0 .. N : \E kept : KeptOf(items, kept, n)}
<1>0. N \in Nat /\ \A n \in 1 .. N : items[n] \in S
  OBVIOUS
<1> HIDE DEF N
<1>1. 0 \in G
  <2> DEFINE kept == [n \in 0 .. 0 |-> << >>]
  <2>1. KeptOf(items, kept, 0)
    BY DEF KeptOf
  <2> QED
    BY <1>0, <2>1
<1>2. ASSUME NEW n \in 1 .. N, n - 1 \in G PROVE n \in G
  <2>1. PICK f : KeptOf(items, f, n - 1)
    BY <1>2
  <2> DEFINE last == KeepItem(f[n - 1], items[n])
             g == [m \in 0 .. n |-> IF m = n THEN last ELSE f[m]]
  <2>2. n \in Nat /\ n # 0 /\ n - 1 \in 0 .. n - 1 /\ n \in 0 .. n
    BY <1>0
  <2>4. f[0] = << >> /\ \A m \in 1 .. n - 1 : f[m] = KeepItem(f[m - 1], items[m])
    BY <2>1, <2>2 DEF KeptOf
  <2> HIDE DEF last
  <2>5. g[n] = last /\ \A m \in 0 .. n - 1 : g[m] = f[m]
    BY <2>2
  <2>6. DOMAIN g = 0 .. n /\ g = [m \in 0 .. n |-> g[m]]
    OBVIOUS
  <2> HIDE DEF g
  <2>7. g[0] = << >>
    BY <2>2, <2>4, <2>5
  <2>8. ASSUME NEW m \in 1 .. n PROVE g[m] = KeepItem(g[m - 1], items[m])
    <3>1. m - 1 \in 0 .. n - 1 /\ (m = n \/ m \in 1 .. n - 1)
      BY <2>2
    <3>2. g[m - 1] = f[m - 1]
      BY <2>5, <3>1
    <3>3. CASE m = n
      BY <2>5, <3>2, <3>3 DEF last
    <3>4. CASE m \in 1 .. n - 1
      BY <2>2, <2>4, <2>5, <3>2, <3>4
    <3> QED
      BY <3>1, <3>3, <3>4
  <2>9. \A m \in 0 .. n : g[m] = IF m = 0 THEN << >> ELSE KeepItem(g[m - 1], items[m])
    BY <2>2, <2>7, <2>8
  <2>10. KeptOf(items, g, n)
    BY <2>6, <2>9 DEF KeptOf
  <2> QED
    BY <1>0, <2>10
<1>3. N \in G
  <2> HIDE DEF G
  <2> QED
    BY <1>0, <1>1, <1>2, Reaches
<1> DEFINE kept == CHOOSE f : KeptOf(items, f, N)
<1>4. KeptOf(items, kept, N)
  BY <1>3
<1>5. NonEmpty(items) = kept[N]
  BY DEF NonEmpty, KeptOf, N
<1> HIDE DEF kept
<1>6. kept[0] = << >> /\ \A n \in 1 .. N : kept[n] = KeepItem(kept[n - 1], items[n])
  BY <1>0, <1>4 DEF KeptOf
<1> DEFINE Good(n) == kept[n] \in Seq(S) /\ ToSet(kept[n]) = {items[m] : m \in 1 .. n} \ {""}
           H == {n \in 0 .. N : Good(n)}
<1>7. 0 \in H
  <2>1. << >> \in Seq(S) /\ ToSet(<< >>) = {} /\ 1 .. 0 = {}
    BY DEF ToSet
  <2>2. {items[m] : m \in 1 .. 0} \ {""} = {}
    BY <2>1
  <2>3. kept[0] = << >>
    BY <1>6
  <2>4. Good(0)
    BY <2>1, <2>2, <2>3
  <2> HIDE DEF Good
  <2> QED
    BY <1>0, <2>4
<1>8. ASSUME NEW n \in 1 .. N, n - 1 \in H PROVE n \in H
  <2>1. n \in 0 .. N /\ n # 0 /\ 1 .. n = (1 .. n - 1) \cup {n} /\ items[n] \in S
    BY <1>0
  <2>2. kept[n] = KeepItem(kept[n - 1], items[n])
    BY <1>6
  <2>3. kept[n - 1] \in Seq(S) /\ ToSet(kept[n - 1]) = {items[m] : m \in 1 .. n - 1} \ {""}
    BY <1>8
  <2>4. {items[m] : m \in 1 .. n} = {items[m] : m \in 1 .. n - 1} \cup {items[n]}
    BY <2>1
  <2>5. CASE items[n] = ""
    BY <2>1, <2>2, <2>3, <2>4, <2>5 DEF KeepItem
  <2>6. CASE items[n] # ""
    <3>1. kept[n] = Append(kept[n - 1], items[n])
      BY <2>2, <2>6 DEF KeepItem
    <3>2. kept[n] \in Seq(S) /\ ToSet(kept[n]) = ToSet(kept[n - 1]) \cup {items[n]}
      <4> DEFINE s == kept[n - 1]
                 x == items[n]
      <4>1. s \in Seq(S) /\ x \in S /\ kept[n] = Append(s, x)
        BY <2>1, <2>3, <3>1
      <4> HIDE DEF s, x
      <4>2. Append(s, x) \in Seq(S) /\ ToSet(Append(s, x)) = ToSet(s) \cup {x}
        BY <4>1, ToSetAppend
      <4> QED
        BY <4>1, <4>2 DEF s, x
    <3> QED
      BY <2>1, <2>3, <2>4, <2>6, <3>2
  <2> QED
    BY <2>5, <2>6
<1>9. N \in H
  <2> HIDE DEF H
  <2> QED
    BY <1>0, <1>7, <1>8, Reaches
<1>10. ToSet(items) = {items[m] : m \in 1 .. N}
  BY DEF ToSet, N
<1> QED
  BY <1>5, <1>9, <1>10

-----------------------------------------------------------------------------
IsSeq(s) == s \in Seq(ToSet(s))

LEMMA IsSeqFacts ==
    ASSUME NEW s, IsSeq(s)
    PROVE  DOMAIN s = 1 .. Len(s) /\ Len(s) \in Nat /\ \A i \in 1 .. Len(s) : s[i] \in ToSet(s)
BY DEF IsSeq, ToSet

LEMMA IsSeqOf ==
    ASSUME NEW S, NEW s \in Seq(S)
    PROVE  IsSeq(s)
<1>1. DOMAIN s = 1 .. Len(s) /\ Len(s) \in Nat /\ \A i \in 1 .. Len(s) : s[i] \in ToSet(s)
  BY DEF ToSet
<1>2. s = [i \in 1 .. Len(s) |-> s[i]]
  BY <1>1
<1> QED
  BY <1>1, <1>2 DEF IsSeq

LEMMA AppendIsSeq ==
    ASSUME NEW s, IsSeq(s), NEW x
    PROVE  /\ IsSeq(Append(s, x)) /\ DOMAIN Append(s, x) = DOMAIN s \cup {Len(s) + 1}
           /\ Append(s, x)[Len(s) + 1] = x /\ \A i \in DOMAIN s : Append(s, x)[i] = s[i] /\ i <= Len(s) /\ i \in Nat
<1> DEFINE S == ToSet(s) \cup {x}
<1>0. DOMAIN s = 1 .. Len(s) /\ Len(s) \in Nat /\ \A i \in 1 .. Len(s) : s[i] \in S
  BY IsSeqFacts
<1>1. s \in Seq(S) /\ x \in S
  <2>1. s \in Seq(ToSet(s))
    BY DEF IsSeq
  <2>2. s = [i \in 1 .. Len(s) |-> s[i]]
    BY <1>0, <2>1
  <2> QED
    BY <1>0, <2>2
<1> HIDE DEF S
<1>2. Append(s, x) \in Seq(S)
  BY <1>1
<1>3. /\ DOMAIN Append(s, x) = 1 .. Len(s) + 1
      /\ Append(s, x)[Len(s) + 1] = x /\ \A i \in 1 .. Len(s) : Append(s, x)[i] = s[i]
  BY <1>1
<1>4. 1 .. Len(s) + 1 = (1 .. Len(s)) \cup {Len(s) + 1}
  BY <1>0
<1>5. IsSeq(Append(s, x))
  BY <1>2, IsSeqOf
<1>6. \A i \in DOMAIN s : Append(s, x)[i] = s[i] /\ i <= Len(s) /\ i \in Nat
  BY <1>0, <1>3
<1> QED
  BY <1>0, <1>3, <1>4, <1>5, <1>6

LEMMA JoinIsSeq ==
    ASSUME NEW s, IsSeq(s), NEW t, IsSeq(t)
    PROVE  IsSeq(s \o t) /\ ToSet(s \o t) = ToSet(s) \cup ToSet(t)
<1> DEFINE S == ToSet(s) \cup ToSet(t)
<1>0. /\ DOMAIN s = 1 .. Len(s) /\ Len(s) \in Nat /\ \A i \in 1 .. Len(s) : s[i] \in S
      /\ DOMAIN t = 1 .. Len(t) /\ Len(t) \in Nat /\ \A i \in 1 .. Len(t) : t[i] \in S
  BY IsSeqFacts
<1>1. s \in Seq(S) /\ t \in Seq(S)
  <2>1. s \in Seq(ToSet(s)) /\ t \in Seq(ToSet(t))
    BY DEF IsSeq
  <2>2. s = [i \in 1 .. Len(s) |-> s[i]] /\ t = [i \in 1 .. Len(t) |-> t[i]]
    BY <1>0, <2>1
  <2> QED
    BY <1>0, <2>2
<1> HIDE DEF S
<1>2. s \o t \in Seq(S) /\ Len(s \o t) = Len(s) + Len(t)
  BY <1>1
<1>3. /\ DOMAIN (s \o t) = 1 .. Len(s) + Len(t)
      /\ \A i \in 1 .. Len(s) : (s \o t)[i] = s[i]
      /\ \A i \in 1 .. Len(t) : (s \o t)[Len(s) + i] = t[i]
  BY <1>1
<1>4. \A i \in 1 .. Len(s) + Len(t) : i \in 1 .. Len(s) \/ \E j \in 1 .. Len(t) : i = Len(s) + j
  <2>1. ASSUME NEW i \in 1 .. Len(s) + Len(t), i \notin 1 .. Len(s) PROVE \E j \in 1 .. Len(t) : i = Len(s) + j
    <3>1. i - Len(s) \in 1 .. Len(t) /\ i = Len(s) + (i - Len(s))
      BY <1>0, <2>1
    <3> QED
      BY <3>1
  <2> QED
    BY <2>1
<1>5. \A x : x \in ToSet(s \o t) <=> x \in ToSet(s) \cup ToSet(t)
  <2>1. ASSUME NEW i \in 1 .. Len(s) + Len(t) PROVE (s \o t)[i] \in ToSet(s) \cup ToSet(t)
    BY <1>0, <1>3, <1>4, <2>1 DEF ToSet
  <2>2. ASSUME NEW i \in 1 .. Len(s) PROVE s[i] \in ToSet(s \o t)
    <3>1. i \in 1 .. Len(s) + Len(t)
      BY <1>0
    <3> QED
      BY <1>3, <3>1 DEF ToSet
  <2>3. ASSUME NEW i \in 1 .. Len(t) PROVE t[i] \in ToSet(s \o t)
    <3>1. Len(s) + i \in 1 .. Len(s) + Len(t)
      BY <1>0
    <3> QED
      BY <1>3, <3>1 DEF ToSet
  <2> QED
    BY <1>0, <1>3, <2>1, <2>2, <2>3 DEF ToSet
<1>6. IsSeq(s \o t)
  BY <1>2, IsSeqOf
<1> QED
  BY <1>5, <1>6

-----------------------------------------------------------------------------
LEMMA MainFacts ==
    ASSUME NEW o \in MainOptions
    PROVE  /\ ~ IsChild(o) /\ Base(o) = o /\ Kind(o) = COpt[o].kind /\ COpt[o].prio \in {0, 10}
           /\ Kind(o) = "append" => IsSeq(COpt[o].dflt)
BY ConfAssumption DEF Base, Kind, EMPTY, DEFAULT, IsSeq

\* What a call does to an option that is no list to be added to.
LEMMA PlainSet ==
    ASSUME NEW o \in MainOptions, Kind(o) # "append", NEW st, NEW p, NEW t
    PROVE  NewString(o, st, p, t).st =
             IF /\ NewString(o, st, p, t).how = "value" /\ Allowed(o, t, FromString(o, t).v)
                /\ p >= st.prio
             THEN [prio |-> p, value |-> Meaning(o, t)] ELSE st
<1> DEFINE r == FromString(o, t)
           ok == Allowed(o, t, r.v)
<1>1. CASE Kind(o) = "globs"
  <2>1. ok
    BY <1>1 DEF Allowed
  <2>2. NewString(o, st, p, t) = Result(IF p >= st.prio THEN Store(st, p, ResolveGlobs(t.items)) ELSE st, "value")
    BY <1>1, MainFacts DEF NewString
  <2>3. NewString(o, st, p, t).how = "value"
        /\ NewString(o, st, p, t).st = IF p >= st.prio THEN Store(st, p, ResolveGlobs(t.items)) ELSE st
    BY <2>2 DEF Result
  <2> QED
    BY <1>1, <2>1, <2>3 DEF Store, Meaning
<1>2. CASE Kind(o) # "globs"
  <2> HIDE DEF r, ok
  <2>1. NewString(o, st, p, t) = SetParsed(o, st, p, t, r)
    BY <1>2, MainFacts DEF NewString, SetOption, r
  <2>2. Meaning(o, t) = r.v
    BY <1>2 DEF Meaning, r
  <2>3. CASE r.how # "value"
    BY <2>1, <2>3 DEF SetParsed, Result
  <2>4. CASE r.how = "value" /\ p >= st.prio /\ ~ ok
    BY <2>1, <2>4 DEF SetParsed, Result, ok, r
  <2>5. CASE r.how = "value" /\ ~ (p >= st.prio /\ ~ ok)
    <3>1. SetParsed(o, st, p, t, r) = Result(Store(st, p, r.v), "value")
      BY <2>5 DEF SetParsed, ok, r
    <3>2. NewString(o, st, p, t).st = Store(st, p, r.v) /\ NewString(o, st, p, t).how = "value"
      BY <2>1, <3>1 DEF Result
    <3> QED
      BY <2>2, <2>5, <3>2 DEF Store, ok, r
  <2> QED
    BY <2>3, <2>4, <2>5
<1> QED
  BY <1>1, <1>2

\* A text that does not clear the list; a list with the items of a text; and
\* one with the items of another list as well.
OnlyAdds(t) == t.word # "" /\ t.items[1] # ""
HasItems(list, t) == ToSet(t.items) \subseteq ToSet(list) \cup {""}
ItemsOf(t) == ToSet(t.items) \ {""}

\* What a call adds to a list.
LEMMA AppendSet ==
    ASSUME NEW o \in MainOptions, Kind(o) = "append", NEW st, st.prio \in Int, NEW p \in Int, NEW t, IsSeq(t.items)
    PROVE  /\ NewString(o, st, p, t).how = "value" /\ Allowed(o, t, FromString(o, t).v)
           /\ NewString(o, st, p, t).st.prio \in Int
           /\ OnlyAdds(t) /\ IsSeq(st.value) =>
                /\ IsSeq(NewString(o, st, p, t).st.value)
                /\ ToSet(NewString(o, st, p, t).st.value) = ToSet(st.value) \cup ItemsOf(t)
<1> DEFINE h == AppendItems(st, p, t.items)
           new == NonEmpty(t.items)
           start == IF t.items # << >> /\ t.items[1] = "" THEN Store(st, p, << >>) ELSE st
           add == IF p < st.prio THEN st.prio ELSE p
<1>1. Allowed(o, t, FromString(o, t).v)
  BY DEF Allowed
<1>2. h = IF new = << >> THEN start ELSE [prio |-> add, value |-> start.value \o new]
  BY DEF AppendItems
<1>3. IsSeq(new) /\ ToSet(new) = ToSet(t.items) \ {""}
  BY NonEmptyIs, IsSeqOf DEF IsSeq
<1>4. start.prio \in Int /\ add \in Int
  BY DEF Store
<1>5. t.items[1] # "" => start = st
  OBVIOUS
<1> HIDE DEF new, start, add, h
<1>6. h.prio \in Int
  BY <1>2, <1>4
<1>7. ASSUME t.items[1] # "", IsSeq(st.value)
      PROVE  IsSeq(h.value) /\ ToSet(h.value) = ToSet(st.value) \cup (ToSet(t.items) \ {""})
  <2>1. CASE new = << >>
    <3>1. ToSet(new) = {}
      BY <2>1 DEF ToSet
    <3> QED
      BY <1>2, <1>3, <1>5, <1>7, <2>1, <3>1
  <2>2. CASE new # << >>
    <3>1. h.value = st.value \o new
      BY <1>2, <1>5, <1>7, <2>2
    <3> QED
      BY <1>3, <1>7, <3>1, JoinIsSeq
  <2> QED
    BY <2>1, <2>2
<1>8. CASE t.word # ""
  <2>1. NewString(o, st, p, t) = Result(h, "value")
    BY <1>8 DEF NewString, h
  <2>2. NewString(o, st, p, t).how = "value" /\ NewString(o, st, p, t).st = h
    BY <2>1 DEF Result
  <2> QED
    BY <1>1, <1>6, <1>7, <1>8, <2>2 DEF OnlyAdds, ItemsOf
<1>9. CASE t.word = ""
  <2> DEFINE r == FromString(o, t)
  <2>1. r = Parses(t.items)
    BY DEF FromString, ListFromString
  <2>2. r.how = "value"
    BY <2>1 DEF Parses
  <2>4. Allowed(o, t, r.v)
    BY DEF Allowed
  <2> HIDE DEF r
  <2>3. NewString(o, st, p, t) = SetParsed(o, st, p, t, r)
    BY <1>9, MainFacts DEF NewString, SetOption, r
  <2>5. SetParsed(o, st, p, t, r) = Result(Store(st, p, r.v), "value")
    BY <2>2, <2>4 DEF SetParsed
  <2>6. NewString(o, st, p, t).how = "value" /\ NewString(o, st, p, t).st = Store(st, p, r.v)
    BY <2>3, <2>5 DEF Result
  <2>7. Store(st, p, r.v).prio \in Int
    BY DEF Store
  <2> QED
    BY <1>1, <1>9, <2>6, <2>7 DEF OnlyAdds
<1> QED
  BY <1>8, <1>9

-----------------------------------------------------------------------------
\* The sets of option o that counted.
Counted(o, sets) == {i \in DOMAIN sets : Accepted(o, sets[i])}

Ranked(o, st, sets) ==
    \/ Counted(o, sets) = {} /\ st = [prio |-> COpt[o].prio, value |-> COpt[o].dflt]
    \/ \E i \in Counted(o, sets) :
          /\ Wins(i, Counted(o, sets), sets)
          /\ st = [prio |-> sets[i].prio, value |-> Meaning(o, sets[i].text)]

Grown(o, st, sets) ==
    (\A i \in Counted(o, sets) : OnlyAdds(sets[i].text)) =>
        /\ IsSeq(st.value)
        /\ \A i \in Counted(o, sets) : HasItems(st.value, sets[i].text)

\* The options vals are what the sets of sets made of them.
Made(vals, sets) ==
    /\ IsSeq(sets) /\ \A i \in DOMAIN sets : sets[i].prio \in Int
    /\ vals = [o \in MainOptions |-> vals[o]]
    /\ \A o \in MainOptions :
          /\ vals[o].prio \in Int
          /\ Kind(o) # "append" => Ranked(o, vals[o], sets)
          /\ Kind(o) = "append" => Grown(o, vals[o], sets)

\* A set of another option, or one that is not accepted, does not count.
LEMMA CountedNext ==
    ASSUME NEW sets, IsSeq(sets), NEW x, NEW o
    PROVE  Counted(o, Append(sets, x)) =
              IF Accepted(o, x) THEN Counted(o, sets) \cup {Len(sets) + 1} ELSE Counted(o, sets)
<1> DEFINE more == Append(sets, x)
<1>1. /\ DOMAIN more = DOMAIN sets \cup {Len(sets) + 1} /\ more[Len(sets) + 1] = x
      /\ \A i \in DOMAIN sets : more[i] = sets[i]
  BY AppendIsSeq
<1> HIDE DEF more
<1>2. Counted(o, more) = IF Accepted(o, x) THEN Counted(o, sets) \cup {Len(sets) + 1} ELSE Counted(o, sets)
  BY <1>1 DEF Counted
<1> QED
  BY <1>2 DEF more

LEMMA SameCounted ==
    ASSUME NEW sets, IsSeq(sets), NEW x, NEW o, NEW st, ~ Accepted(o, x)
    PROVE  /\ Ranked(o, st, sets) => Ranked(o, st, Append(sets, x))
           /\ Grown(o, st, sets) => Grown(o, st, Append(sets, x))
<1> DEFINE more == Append(sets, x)
<1>1. Counted(o, more) = Counted(o, sets)
  BY CountedNext
<1>2. \A i \in DOMAIN sets : more[i] = sets[i]
  BY AppendIsSeq
<1>3. Counted(o, sets) \subseteq DOMAIN sets
  BY DEF Counted
<1> HIDE DEF more
<1>4. Ranked(o, st, sets) => Ranked(o, st, more)
  BY <1>1, <1>2, <1>3 DEF Ranked, Wins
<1>5. Grown(o, st, sets) => Grown(o, st, more)
  BY <1>1, <1>2, <1>3 DEF Grown
<1> QED
  BY <1>4, <1>5 DEF more

LEMMA RankedNext ==
    ASSUME NEW sets, IsSeq(sets), \A i \in DOMAIN sets : sets[i].prio \in Int,
           NEW o \in MainOptions, Kind(o) # "append", NEW st, st.prio \in Int, Ranked(o, st, sets),
           NEW p \in {20, 70, 80}, NEW t, NEW x, NEW r, r = NewString(o, st, p, t),
           x = [opt |-> o, prio |-> p, text |-> t, how |-> r.how]
    PROVE  r.st.prio \in Int /\ Ranked(o, r.st, Append(sets, x))
<1> DEFINE more == Append(sets, x)
           n == Len(sets) + 1
           A == Counted(o, sets)
<1>0. x.opt = o /\ x.prio = p /\ x.text = t /\ x.how = r.how
  OBVIOUS
<1>1. r.st = IF r.how = "value" /\ Allowed(o, t, FromString(o, t).v) /\ p >= st.prio
             THEN [prio |-> p, value |-> Meaning(o, t)] ELSE st
  BY PlainSet
<1>2. Accepted(o, x) <=> r.how = "value" /\ Allowed(o, t, FromString(o, t).v)
  BY <1>0 DEF Accepted
<1>3. r.st.prio \in Int
  BY <1>1
<1>4. CASE ~ Accepted(o, x)
  <2>1. r.st = st
    BY <1>1, <1>2, <1>4
  <2> QED
    BY <1>3, <1>4, <2>1, SameCounted
<1>5. CASE Accepted(o, x)
  <2>1. /\ more[n] = x /\ \A i \in DOMAIN sets : more[i] = sets[i] /\ i <= Len(sets) /\ i \in Nat
        /\ Len(sets) \in Nat
    BY AppendIsSeq, IsSeqFacts
  <2>2. Counted(o, more) = A \cup {n} /\ A \subseteq DOMAIN sets
    BY <1>5, CountedNext DEF Counted
  <2> HIDE DEF more, A
  <2>3. CASE p >= st.prio
    <3>1. r.st = [prio |-> p, value |-> Meaning(o, t)]
      BY <1>1, <1>2, <1>5, <2>3
    <3>2. ASSUME NEW i \in A PROVE sets[i].prio <= p /\ sets[i].prio \in Int
      <4>1. PICK k \in A : /\ Wins(k, A, sets)
                           /\ st = [prio |-> sets[k].prio, value |-> Meaning(o, sets[k].text)]
        BY DEF Ranked, A
      <4>2. st.prio = sets[k].prio /\ sets[i].prio \in Int /\ sets[k].prio \in Int
        BY <2>2, <4>1
      <4>3. sets[i].prio <= sets[k].prio
        BY <4>1, <4>2 DEF Wins
      <4> QED
        BY <2>3, <4>2, <4>3
    <3>3. Wins(n, A \cup {n}, more)
      <4>1. ASSUME NEW j \in A PROVE more[j].prio < more[n].prio \/ (more[j].prio = more[n].prio /\ j <= n)
        <5>1. j \in DOMAIN sets /\ more[j] = sets[j] /\ j <= n
          BY <2>1, <2>2
        <5>2. sets[j].prio <= p /\ sets[j].prio \in Int /\ more[n].prio = p
          BY <1>0, <2>1, <3>2
        <5> QED
          BY <5>1, <5>2
      <4> QED
        BY <2>1, <4>1 DEF Wins
    <3>4. r.st = [prio |-> more[n].prio, value |-> Meaning(o, more[n].text)]
      BY <1>0, <2>1, <3>1
    <3> QED
      BY <1>3, <2>2, <3>3, <3>4 DEF Ranked, more
  <2>4. CASE ~ (p >= st.prio)
    <3>1. r.st = st
      BY <1>1, <2>4
    <3>2. A # {}
      <4>1. ASSUME A = {} PROVE FALSE
        <5>1. st = [prio |-> COpt[o].prio, value |-> COpt[o].dflt]
          BY <4>1 DEF Ranked, A
        <5>2. st.prio \in {0, 10}
          BY <5>1, MainFacts
        <5> QED
          BY <2>4, <5>2
      <4> QED
        BY <4>1
    <3>3. PICK k \in A : /\ Wins(k, A, sets)
                         /\ st = [prio |-> sets[k].prio, value |-> Meaning(o, sets[k].text)]
      BY <3>2 DEF Ranked, A
    <3>4. k \in DOMAIN sets /\ more[k] = sets[k] /\ st.prio = sets[k].prio /\ p < sets[k].prio
      BY <2>1, <2>2, <2>4, <3>3
    <3>5. Wins(k, A \cup {n}, more)
      <4>1. ASSUME NEW j \in A PROVE more[j].prio < more[k].prio \/ (more[j].prio = more[k].prio /\ j <= k)
        BY <2>1, <2>2, <3>3, <3>4 DEF Wins
      <4>2. more[n].prio < more[k].prio
        BY <1>0, <2>1, <3>4
      <4> QED
        BY <4>1, <4>2 DEF Wins
    <3>6. r.st = [prio |-> more[k].prio, value |-> Meaning(o, more[k].text)]
      BY <3>1, <3>3, <3>4
    <3> QED
      BY <1>3, <2>2, <3>5, <3>6 DEF Ranked, more
  <2> QED
    BY <2>3, <2>4
<1> QED
  BY <1>4, <1>5

LEMMA GrownNext ==
    ASSUME NEW sets, IsSeq(sets), NEW o, NEW st, Grown(o, st, sets), NEW t, NEW x, NEW after,
           Accepted(o, x), x.text = t,
           OnlyAdds(t) /\ IsSeq(st.value) =>
             IsSeq(after.value) /\ ToSet(after.value) = ToSet(st.value) \cup ItemsOf(t)
    PROVE  Grown(o, after, Append(sets, x))
<1> DEFINE more == Append(sets, x)
           n == Len(sets) + 1
           A == Counted(o, sets)
<1>1. /\ more[n] = x /\ \A i \in DOMAIN sets : more[i] = sets[i]
  BY AppendIsSeq
<1>2. Counted(o, more) = A \cup {n} /\ A \subseteq DOMAIN sets
  BY CountedNext DEF Counted
<1> HIDE DEF more, A, n
<1>3. ASSUME \A i \in A \cup {n} : OnlyAdds(more[i].text)
      PROVE  IsSeq(after.value) /\ \A i \in A \cup {n} : HasItems(after.value, more[i].text)
  <2>1. \A i \in A : OnlyAdds(sets[i].text)
    BY <1>1, <1>2, <1>3
  <2>2. IsSeq(st.value) /\ \A i \in A : HasItems(st.value, sets[i].text)
    BY <2>1 DEF Grown, A
  <2>3. more[n].text = t
    BY <1>1
  <2>4. OnlyAdds(t)
    BY <1>3, <2>3
  <2>5. IsSeq(after.value) /\ ToSet(after.value) = ToSet(st.value) \cup ItemsOf(t)
    BY <2>2, <2>4
  <2>6. ASSUME NEW i \in A PROVE HasItems(after.value, more[i].text)
    <3>1. HasItems(st.value, sets[i].text) /\ more[i] = sets[i]
      BY <1>1, <1>2, <2>2
    <3> QED
      BY <2>5, <3>1 DEF HasItems
  <2>7. HasItems(after.value, more[n].text)
    BY <2>3, <2>5 DEF HasItems, ItemsOf
  <2> QED
    BY <2>5, <2>6, <2>7
<1>4. Grown(o, after, more)
  BY <1>2, <1>3 DEF Grown
<1> QED
  BY <1>4 DEF more

LEMMA SetKeepsMade ==
    ASSUME NEW vals, NEW sets, Made(vals, sets), NEW o \in MainOptions, NEW p \in {20, 70, 80},
           NEW t \in AllTexts, NEW r, r = NewString(o, vals[o], p, t), NEW x,
           x = [opt |-> o, prio |-> p, text |-> t, how |-> r.how]
    PROVE  Made([vals EXCEPT ![o] = r.st], Append(sets, x))
<1> DEFINE more == Append(sets, x)
           after == [vals EXCEPT ![o] = r.st]
<1>0. x.opt = o /\ x.prio = p
  OBVIOUS
<1>1. /\ IsSeq(sets) /\ vals[o].prio \in Int /\ \A i \in DOMAIN sets : sets[i].prio \in Int
      /\ IsSeq(t.items)
  BY ConfAssumption DEF Made, IsSeq
<1>2. IsSeq(more) /\ \A i \in DOMAIN more : more[i].prio \in Int
  <2>1. /\ IsSeq(more) /\ DOMAIN more = DOMAIN sets \cup {Len(sets) + 1} /\ more[Len(sets) + 1] = x
        /\ \A i \in DOMAIN sets : more[i] = sets[i]
    BY <1>1, AppendIsSeq
  <2> HIDE DEF more
  <2> QED
    BY <1>0, <1>1, <2>1
<1>3. /\ after = [k \in MainOptions |-> after[k]] /\ after[o] = r.st
      /\ \A k \in MainOptions \ {o} : after[k] = vals[k]
  BY DEF Made
<1>4. /\ Kind(o) # "append" => r.st.prio \in Int /\ Ranked(o, r.st, more)
      /\ Kind(o) = "append" => r.st.prio \in Int /\ Grown(o, r.st, more)
  <2>1. CASE Kind(o) # "append"
    <3>1. Ranked(o, vals[o], sets)
      BY <2>1 DEF Made
    <3> QED
      BY <1>1, <2>1, <3>1, RankedNext
  <2>2. CASE Kind(o) = "append"
    <3>1. Grown(o, vals[o], sets)
      BY <2>2 DEF Made
    <3> DEFINE st == vals[o]
    <3>2. r = NewString(o, st, p, t) /\ st.prio \in Int /\ p \in Int
      BY <1>1
    <3> HIDE DEF st
    <3>3. /\ r.how = "value" /\ Allowed(o, t, FromString(o, t).v) /\ r.st.prio \in Int
          /\ OnlyAdds(t) /\ IsSeq(st.value) =>
               IsSeq(r.st.value) /\ ToSet(r.st.value) = ToSet(st.value) \cup ItemsOf(t)
      <4>1. IsSeq(t.items) /\ st.prio \in Int /\ p \in Int
        BY <1>1, <3>2
      <4>2. /\ NewString(o, st, p, t).how = "value" /\ Allowed(o, t, FromString(o, t).v)
            /\ NewString(o, st, p, t).st.prio \in Int
            /\ OnlyAdds(t) /\ IsSeq(st.value) =>
                 /\ IsSeq(NewString(o, st, p, t).st.value)
                 /\ ToSet(NewString(o, st, p, t).st.value) = ToSet(st.value) \cup ItemsOf(t)
        BY <2>2, <4>1, AppendSet
      <4> QED
        BY <3>2, <4>2
    <3>4. Grown(o, st, sets)
      BY <3>1 DEF st
    <3>5. Accepted(o, x) /\ x.text = t
      BY <3>3 DEF Accepted
    <3> DEFINE stored == r.st
    <3>6. Grown(o, stored, Append(sets, x))
      <4>1. OnlyAdds(t) /\ IsSeq(st.value) =>
               IsSeq(stored.value) /\ ToSet(stored.value) = ToSet(st.value) \cup ItemsOf(t)
        BY <3>3
      <4> HIDE DEF stored
      <4> QED
        BY <1>1, <3>4, <3>5, <4>1, GrownNext
    <3> QED
      BY <2>2, <3>3, <3>6
  <2> QED
    BY <2>1, <2>2
<1>5. ASSUME NEW k \in MainOptions \ {o}
      PROVE  /\ vals[k].prio \in Int
             /\ Kind(k) # "append" => Ranked(k, vals[k], more)
             /\ Kind(k) = "append" => Grown(k, vals[k], more)
  <2>1. ~ Accepted(k, x)
    BY <1>0 DEF Accepted
  <2>2. /\ vals[k].prio \in Int
        /\ Kind(k) # "append" => Ranked(k, vals[k], sets)
        /\ Kind(k) = "append" => Grown(k, vals[k], sets)
    BY DEF Made
  <2> QED
    BY <1>1, <2>1, <2>2, SameCounted
<1> HIDE DEF more, after
<1>6. Made(after, more)
  BY <1>2, <1>3, <1>4, <1>5 DEF Made
<1> QED
  BY <1>6 DEF after, more

-----------------------------------------------------------------------------
(* Loading a section, item by item.                                        *)

LoadStart(vals) == [opts |-> vals, sets |-> << >>, how |-> "value"]

LoadOf(start, items, p, acc, N) ==
    acc = [n \in 0 .. N |-> IF n = 0 THEN start ELSE LoadNext(acc[n - 1], items[n], p)]

LEMMA LoadSectionIs ==
    ASSUME NEW vals, NEW items, IsSeq(items), NEW p
    PROVE  \E acc : /\ acc[0] = LoadStart(vals)
                    /\ \A n \in 1 .. Len(items) : acc[n] = LoadNext(acc[n - 1], items[n], p)
                    /\ LoadSection(vals, items, p) = acc[Len(items)]
<1> DEFINE N == Len(items)
           start == LoadStart(vals)
           G == {n \in 0 .. N : \E acc : LoadOf(start, items, p, acc, n)}
<1>0. N \in Nat
  BY IsSeqFacts
<1>a. LoadSection(vals, items, p) = (CHOOSE f : LoadOf(start, items, p, f, N))[N]
  BY DEF LoadSection, LoadOf, LoadStart
<1> HIDE DEF N, start
<1>1. 0 \in G
  <2> DEFINE acc == [n \in 0 .. 0 |-> start]
  <2>1. LoadOf(start, items, p, acc, 0)
    BY DEF LoadOf
  <2> HIDE DEF acc
  <2> QED
    BY <1>0, <2>1
<1>2. ASSUME NEW n \in 1 .. N, n - 1 \in G PROVE n \in G
  <2>1. PICK f : LoadOf(start, items, p, f, n - 1)
    BY <1>2
  <2> DEFINE last == LoadNext(f[n - 1], items[n], p)
             g == [m \in 0 .. n |-> IF m = n THEN last ELSE f[m]]
  <2>2. n \in Nat /\ n # 0 /\ n - 1 \in 0 .. n - 1 /\ n \in 0 .. n
    BY <1>0
  <2>4. f[0] = start /\ \A m \in 1 .. n - 1 : f[m] = LoadNext(f[m - 1], items[m], p)
    BY <2>1, <2>2 DEF LoadOf
  <2> HIDE DEF last
  <2>5. g[n] = last /\ \A m \in 0 .. n - 1 : g[m] = f[m]
    BY <2>2
  <2>6. DOMAIN g = 0 .. n /\ g = [m \in 0 .. n |-> g[m]]
    OBVIOUS
  <2> HIDE DEF g
  <2>7. g[0] = start
    BY <2>2, <2>4, <2>5
  <2>8. ASSUME NEW m \in 1 .. n PROVE g[m] = LoadNext(g[m - 1], items[m], p)
    <3>1. m - 1 \in 0 .. n - 1 /\ (m = n \/ m \in 1 .. n - 1)
      BY <2>2
    <3>2. g[m - 1] = f[m - 1]
      BY <2>5, <3>1
    <3>3. CASE m = n
      BY <2>5, <3>2, <3>3 DEF last
    <3>4. CASE m \in 1 .. n - 1
      BY <2>2, <2>4, <2>5, <3>2, <3>4
    <3> QED
      BY <3>1, <3>3, <3>4
  <2>9. \A m \in 0 .. n : g[m] = IF m = 0 THEN start ELSE LoadNext(g[m - 1], items[m], p)
    BY <2>2, <2>7, <2>8
  <2>10. LoadOf(start, items, p, g, n)
    BY <2>6, <2>9 DEF LoadOf
  <2> QED
    BY <1>0, <2>10
<1>3. N \in G
  <2> HIDE DEF G
  <2> QED
    BY <1>0, <1>1, <1>2, Reaches
<1> DEFINE acc == CHOOSE f : LoadOf(start, items, p, f, N)
<1>4. LoadOf(start, items, p, acc, N)
  BY <1>3
<1>5. LoadSection(vals, items, p) = acc[N]
  BY <1>a
<1> HIDE DEF acc
<1>6. acc[0] = start /\ \A n \in 1 .. N : acc[n] = LoadNext(acc[n - 1], items[n], p)
  BY <1>0, <1>4 DEF LoadOf
<1> QED
  BY <1>5, <1>6 DEF N, start

LEMMA JoinAppend ==
    ASSUME NEW s, IsSeq(s), NEW t, IsSeq(t), NEW x
    PROVE  s \o Append(t, x) = Append(s \o t, x)
<1> DEFINE S == ToSet(s) \cup ToSet(t) \cup {x}
<1>0. /\ DOMAIN s = 1 .. Len(s) /\ Len(s) \in Nat /\ \A i \in 1 .. Len(s) : s[i] \in S
      /\ DOMAIN t = 1 .. Len(t) /\ Len(t) \in Nat /\ \A i \in 1 .. Len(t) : t[i] \in S
  BY IsSeqFacts
<1>1. s \in Seq(S) /\ t \in Seq(S) /\ x \in S
  <2>1. s \in Seq(ToSet(s)) /\ t \in Seq(ToSet(t))
    BY DEF IsSeq
  <2>2. s = [i \in 1 .. Len(s) |-> s[i]] /\ t = [i \in 1 .. Len(t) |-> t[i]]
    BY <1>0, <2>1
  <2> QED
    BY <1>0, <2>2
<1> HIDE DEF S
<1> QED
  BY <1>1

LEMMA LoadNextKeeps ==
    ASSUME NEW acc, NEW sets, IsSeq(sets), IsSeq(acc.sets), Made(acc.opts, sets \o acc.sets), NEW item, item[2] \in AllTexts
    PROVE  /\ IsSeq(LoadNext(acc, item, 20).sets)
           /\ Made(LoadNext(acc, item, 20).opts, sets \o LoadNext(acc, item, 20).sets)
<1> DEFINE o == ConfBinds[item[1]]
           t == item[2]
<1>1. CASE ~ (acc.how = "value" /\ item[1] \in DOMAIN ConfBinds /\ o \in DOMAIN acc.opts)
  <2>1. LoadNext(acc, item, 20) = acc
    BY <1>1 DEF LoadNext
  <2> QED
    BY <2>1
<1>2. CASE acc.how = "value" /\ item[1] \in DOMAIN ConfBinds /\ o \in DOMAIN acc.opts
  <2> DEFINE vals == acc.opts
             done == acc.sets
             r == NewString(o, vals[o], 20, t)
             x == [opt |-> o, prio |-> 20, text |-> t, how |-> r.how]
             how == IF r.how = "std" THEN "std" ELSE "value"
             after == [vals EXCEPT ![o] = r.st]
  <2>1. LoadNext(acc, item, 20) = [opts |-> after, sets |-> Append(done, x), how |-> how]
    BY <1>2 DEF LoadNext, LoadItem, AfterItem
  <2>2. o \in MainOptions
    BY <1>2 DEF Made
  <2>3. t \in AllTexts /\ Made(vals, sets \o done)
    OBVIOUS
  <2> HIDE DEF o, t, vals, done, how
  <2>4. Made(after, Append(sets \o done, x))
    BY <2>2, <2>3, SetKeepsMade
  <2>5. IsSeq(done)
    BY DEF done
  <2> HIDE DEF after, x
  <2>6. LoadNext(acc, item, 20).opts = after /\ LoadNext(acc, item, 20).sets = Append(done, x)
    BY <2>1
  <2>7. sets \o Append(done, x) = Append(sets \o done, x) /\ IsSeq(Append(done, x))
    BY <2>5, JoinAppend, AppendIsSeq
  <2> QED
    BY <2>4, <2>6, <2>7
<1> QED
  BY <1>1, <1>2

LEMMA LoadKeepsMade ==
    ASSUME NEW vals, NEW sets, Made(vals, sets), NEW items, IsSeq(items),
           \A n \in 1 .. Len(items) : items[n][2] \in AllTexts
    PROVE  Made(LoadSection(vals, items, 20).opts, sets \o LoadSection(vals, items, 20).sets)
<1> DEFINE N == Len(items)
<1>0. N \in Nat /\ IsSeq(sets)
  BY IsSeqFacts DEF Made
<1>a. ASSUME NEW p
      PROVE  \E acc : /\ acc[0] = LoadStart(vals)
                      /\ \A n \in 1 .. Len(items) : acc[n] = LoadNext(acc[n - 1], items[n], p)
                      /\ LoadSection(vals, items, p) = acc[Len(items)]
  BY LoadSectionIs
<1>1. PICK acc : /\ acc[0] = LoadStart(vals)
                 /\ \A n \in 1 .. N : acc[n] = LoadNext(acc[n - 1], items[n], 20)
                 /\ LoadSection(vals, items, 20) = acc[N]
  BY <1>a
<1> HIDE DEF N
<1> DEFINE Good(n) == IsSeq(acc[n].sets) /\ Made(acc[n].opts, sets \o acc[n].sets)
           H == {n \in 0 .. N : Good(n)}
<1>2. 0 \in H
  <2>1. acc[0].opts = vals /\ acc[0].sets = << >>
    BY <1>1 DEF LoadStart
  <2>2. IsSeq(<< >>) /\ sets \o << >> = sets
    <3>1. sets \in Seq(ToSet(sets))
      BY <1>0 DEF IsSeq
    <3>2. << >> \in Seq({})
      OBVIOUS
    <3>3. IsSeq(<< >>)
      BY <3>2, IsSeqOf
    <3> QED
      BY <3>1, <3>3
  <2>3. Good(0)
    BY <2>1, <2>2
  <2> HIDE DEF Good
  <2> QED
    BY <1>0, <2>3
<1>3. ASSUME NEW n \in 1 .. N, n - 1 \in H PROVE n \in H
  <2>1. n \in 0 .. N /\ Good(n - 1)
    BY <1>0, <1>3
  <2>2. acc[n] = LoadNext(acc[n - 1], items[n], 20) /\ items[n][2] \in AllTexts
    BY <1>1, <1>3 DEF N
  <2>3. Good(n)
    <3> DEFINE a == acc[n - 1]
               item == items[n]
    <3>1. IsSeq(a.sets) /\ Made(a.opts, sets \o a.sets) /\ item[2] \in AllTexts
      BY <2>1, <2>2
    <3>2. acc[n] = LoadNext(a, item, 20)
      BY <2>2
    <3> HIDE DEF a, item
    <3>3. /\ IsSeq(LoadNext(a, item, 20).sets)
          /\ Made(LoadNext(a, item, 20).opts, sets \o LoadNext(a, item, 20).sets)
      BY <1>0, <3>1, LoadNextKeeps
    <3> QED
      BY <3>2, <3>3
  <2> HIDE DEF Good
  <2> QED
    BY <2>1, <2>3
<1>4. N \in H
  <2> HIDE DEF H
  <2> QED
    BY <1>0, <1>2, <1>3, Reaches
<1> QED
  BY <1>1, <1>4

-----------------------------------------------------------------------------
ConfInv == Made(confMain, confSets)

LEMMA ConfInvInit == ConfInit => ConfInv
<1> SUFFICES ASSUME ConfInit PROVE ConfInv
  OBVIOUS
<1>1. confMain = [o \in MainOptions |-> [prio |-> COpt[o].prio, value |-> COpt[o].dflt]] /\ confSets = << >>
  BY DEF ConfInit
<1>2. IsSeq(<< >>) /\ DOMAIN << >> = {}
  <2>1. << >> \in Seq({})
    OBVIOUS
  <2>2. IsSeq(<< >>)
    BY <2>1, IsSeqOf
  <2> QED
    BY <2>2
<1>3. ASSUME NEW o \in MainOptions
      PROVE  /\ confMain[o].prio \in Int
             /\ Kind(o) # "append" => Ranked(o, confMain[o], << >>)
             /\ Kind(o) = "append" => Grown(o, confMain[o], << >>)
  <2>1. confMain[o] = [prio |-> COpt[o].prio, value |-> COpt[o].dflt]
    BY <1>1
  <2>2. Counted(o, << >>) = {}
    BY <1>2 DEF Counted
  <2>3. confMain[o].prio = COpt[o].prio /\ confMain[o].value = COpt[o].dflt
    BY <2>1
  <2>4. COpt[o].prio \in {0, 10} /\ (Kind(o) = "append" => IsSeq(COpt[o].dflt))
    BY MainFacts
  <2>5. Ranked(o, confMain[o], << >>)
    BY <2>1, <2>2 DEF Ranked
  <2>6. Kind(o) = "append" => Grown(o, confMain[o], << >>)
    BY <2>2, <2>3, <2>4 DEF Grown
  <2> QED
    BY <2>3, <2>4, <2>5, <2>6
<1> QED
  BY <1>1, <1>2, <1>3 DEF ConfInv, Made

LEMMA ConfInvNext == ConfInv /\ [ConfNext]_confAll => ConfInv'
<1> SUFFICES ASSUME ConfInv, [ConfNext]_confAll PROVE ConfInv'
  OBVIOUS
<1>1. ASSUME NEW o \in MainOptions, NEW p \in {COMMANDLINE, RUNTIME}, NEW t \in ConfTexts, MainSet(o, p, t)
      PROVE  ConfInv'
  <2> DEFINE r == NewString(o, confMain[o], p, t)
             x == [opt |-> o, prio |-> p, text |-> t, how |-> r.how]
  <2>1. confMain' = [confMain EXCEPT ![o] = r.st] /\ confSets' = Append(confSets, x)
    BY <1>1 DEF MainSet
  <2>2. p \in {20, 70, 80} /\ t \in AllTexts
    BY DEF COMMANDLINE, RUNTIME, AllTexts
  <2>3. Made([confMain EXCEPT ![o] = r.st], Append(confSets, x))
    BY <2>2, SetKeepsMade DEF ConfInv
  <2> HIDE DEF x, r
  <2> QED
    BY <2>1, <2>3 DEF ConfInv
<1>2. ASSUME NEW f \in ConfFiles, LoadConfigFromFile(f) PROVE ConfInv'
  <2>1. PICK k \in DOMAIN f.sections :
          \E r \in {LoadSection(confMain, f.sections[k].items, MAINCONFIG)} :
              confMain' = r.opts /\ confSets' = confSets \o r.sets
    BY <1>2 DEF LoadConfigFromFile
  <2> DEFINE items == f.sections[k].items
             r == LoadSection(confMain, items, 20)
  <2>2. confMain' = r.opts /\ confSets' = confSets \o r.sets
    BY <2>1 DEF MAINCONFIG
  <2>3. IsSeq(items)
    BY ConfAssumption DEF IsSeq
  <2>4. ASSUME NEW n \in 1 .. Len(items) PROVE items[n][2] \in AllTexts
    <3> DEFINE s == f.sections[k]
               of(q) == {q.items[m][2] : m \in DOMAIN q.items}
               all == UNION {ToSet(g.sections) : g \in ConfFiles}
    <3>1. n \in DOMAIN items
      BY <2>3, IsSeqFacts
    <3>2. s \in all
      BY DEF ToSet
    <3>3. items[n][2] \in of(s)
      BY <3>1
    <3>4. AllTexts = ConfTexts \cup UNION {of(q) : q \in all}
      BY DEF AllTexts
    <3> HIDE DEF of, all, s
    <3> QED
      BY <3>2, <3>3, <3>4
  <2>5. Made(confMain, confSets)
    BY DEF ConfInv
  <2> HIDE DEF items
  <2>6. Made(r.opts, confSets \o r.sets)
    BY <2>3, <2>4, <2>5, LoadKeepsMade
  <2> HIDE DEF r
  <2> QED
    BY <2>2, <2>6 DEF ConfInv
<1>3. ASSUME UNCHANGED <<confMain, confSets>> PROVE ConfInv'
  BY <1>3 DEF ConfInv
<1>4. ASSUME NEW k, NEW o, NEW p, NEW t, RepoSet(k, o, p, t) PROVE ConfInv'
  BY <1>3, <1>4 DEF RepoSet
<1>5. ASSUME NEW f, NewReposFromFile(f) PROVE ConfInv'
  BY <1>3, <1>5 DEF NewReposFromFile
<1>6. ASSUME NEW d, AddVars(d) PROVE ConfInv'
  BY <1>3, <1>6 DEF AddVars
<1>7. ASSUME UNCHANGED confAll PROVE ConfInv'
  BY <1>3, <1>7 DEF confAll
<1> QED
  BY <1>1, <1>2, <1>4, <1>5, <1>6, <1>7 DEF ConfNext

LEMMA ConfInvSays == ConfInv => HighestPriorityWins
<1> SUFFICES ASSUME ConfInv, NEW o \in MainOptions
             PROVE  LET sets == {i \in DOMAIN confSets : Accepted(o, confSets[i])}
                        text(i) == confSets[i].text
                    IN IF Kind(o) = "append"
                       THEN (\A i \in sets : text(i).word # "" /\ text(i).items[1] # "") =>
                              \A i \in sets : ToSet(text(i).items) \subseteq ToSet(confMain[o].value) \cup {""}
                       ELSE /\ sets = {} => confMain[o] = [prio |-> COpt[o].prio, value |-> COpt[o].dflt]
                            /\ \A i \in sets : Wins(i, sets, confSets) =>
                                 confMain[o] = [prio |-> confSets[i].prio, value |-> Meaning(o, text(i))]
  BY DEF HighestPriorityWins
<1> DEFINE A == Counted(o, confSets)
<1>1. CASE Kind(o) = "append"
  <2>1. Grown(o, confMain[o], confSets)
    BY <1>1 DEF ConfInv, Made
  <2> QED
    BY <1>1, <2>1 DEF Grown, Counted, OnlyAdds, HasItems
<1>2. CASE Kind(o) # "append"
  <2>1. Ranked(o, confMain[o], confSets)
    BY <1>2 DEF ConfInv, Made
  <2>2. \A i \in A : confSets[i].prio \in Int /\ i \in Nat
    BY IsSeqFacts DEF ConfInv, Made, Counted
  <2>3. ASSUME NEW i \in A, NEW j \in A, Wins(i, A, confSets), Wins(j, A, confSets) PROVE i = j
    BY <2>2, <2>3 DEF Wins
  <2>4. /\ A = {} => confMain[o] = [prio |-> COpt[o].prio, value |-> COpt[o].dflt]
        /\ \A i \in A : Wins(i, A, confSets) =>
             confMain[o] = [prio |-> confSets[i].prio, value |-> Meaning(o, confSets[i].text)]
    BY <2>1, <2>3 DEF Ranked
  <2> QED
    BY <1>2, <2>4 DEF Counted
<1> QED
  BY <1>1, <1>2

\* For any options, files and order of calls: of the values that were read
\* without error the one of the highest priority holds, of equals the last, and
\* lists only grow (Option::set, option_T_list_append, load_config_from_parser).
THEOREM HighestAlwaysWins == ConfSpec => []HighestPriorityWins
  BY ConfInvInit, ConfInvNext, ConfInvSays, PTL DEF ConfSpec
=============================================================================
