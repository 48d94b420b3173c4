---------------------------- MODULE WindowProofs ----------------------------
(***************************************************************************)
(* The window limits and the allowance of Limiter, for any number of       *)
(* requests, layers, windows and buckets, when no thread is delayed across *)
(* a second between its clock read and its lock (PromptLock).              *)
(***************************************************************************)
EXTENDS LimiterProofs

-----------------------------------------------------------------------------
(* The inductive invariant.                                                *)

\* A count n of the window that opens at w is in counter c, of a bucket last
\* touched at t.
Shows(n, c, w, t) == n > 0 => c.start = w /\ n <= c.count /\ w <= t

\* A thread locks in the second in which it read the clock.
Prompt == \A r \in Reqs : req[r].ref # None => req[r].now = clock

\* A permit of the map settles in the bucket of the map.
ArcsAreLive ==
  \A r \in Reqs :
    /\ req[r].pc \in {"commitLock", "postLock"}
    /\ req[r].layer \in req[r].held \ req[r].late
    => states[req[r].layer] = req[r].ref

\* No window of layer k that opens after the present one has a history.
NothingAhead(k) ==
  \A w \in Times :
    /\ \A i \in ReqDims : w > BucketStart(clock, ReqLen[i]) => admitted[k][i][w] = 0
    /\ \A i \in TokDims : w > BucketStart(clock, TokLen[i]) => used[k][i][w] = 0

\* What layer k admitted in the present windows is in its bucket, so that
\* there is nothing to remember when it has none.
AdmittedShows(k) ==
  \A i \in ReqDims :
    LET w == BucketStart(clock, ReqLen[i]) IN
    Limit[k].req[i] # NoLimit =>
      /\ states[k] = None => admitted[k][i][w] = 0
      /\ states[k] # None => Shows(admitted[k][i][w], heap[states[k]].req[i], w,
                                   heap[states[k]].lastTouched)

\* The same for what was posted.
UsedShows(k) ==
  \A i \in TokDims :
    LET w == BucketStart(clock, TokLen[i]) IN
    /\ states[k] = None => used[k][i][w] = 0
    /\ states[k] # None => Shows(used[k][i][w], heap[states[k]].tok[i], w,
                                 heap[states[k]].lastTouched)

\* The bucket of an allowance that was drawn on is known to carry one, as is
\* every bucket with a member, so it is never reaped.
AllowanceKept(k) ==
  Limit[k].granted # NoLimit =>
    /\ spent[k] > 0 => /\ states[k] # None
                       /\ spent[k] <= heap[states[k]].consumed
                       /\ heap[states[k]].carriesAllowance = TRUE
    /\ states[k] # None /\ heap[states[k]].inFlight # {}
         => heap[states[k]].carriesAllowance = TRUE

\* WindowCap of layer k.
Capped(k) ==
  \A i \in ReqDims, w \in Times :
    Limit[k].req[i] # NoLimit => admitted[k][i][w] <= Limit[k].req[i]

LayerInv(k) ==
  NothingAhead(k) /\ AdmittedShows(k) /\ UsedShows(k) /\ AllowanceKept(k) /\ Capped(k)

\* WindowCap and NoAdmitPastUsage made inductive.
UsageInv == CapInv /\ Prompt /\ ArcsAreLive /\ \A k \in Layers : LayerInv(k)

-----------------------------------------------------------------------------
(* Windows.                                                                *)

\* A window opens before its times and ends len later.
LEMMA WindowBounds ==
  ASSUME NEW t \in Nat, NEW len \in Nat \ {0}
  PROVE  BucketStart(t, len) <= t /\ t < BucketStart(t, len) + len
  BY DEF BucketStart

\* Windows keep the order of their times.
LEMMA WindowOrder ==
  ASSUME NEW t \in Nat, NEW u \in Nat, t <= u, NEW len \in Nat \ {0}
  PROVE  BucketStart(t, len) <= BucketStart(u, len)
  BY DEF BucketStart

\* Time `now` and the window it falls in are among the times of the histories.
LEMMA WindowIsTime ==
  ASSUME NEW now \in Times, NEW len \in Nat \ {0}
  PROVE  /\ BucketStart(now, len) \in Times /\ BucketStart(now, len) \in Nat
         /\ BucketStart(now, len) <= now
  <1>1. now \in Nat
    BY LimiterAssumption DEF Times
  <1>2. BucketStart(now, len) <= now /\ BucketStart(now, len) \in Nat
    BY <1>1, WindowBounds, BucketStartType
  <1> QED
    BY <1>2, LimiterAssumption DEF Times

\* The count of the window w survives from counter c to counter d.
WindowKept(c, d, w) == c.start = w => d.start = w /\ c.count <= d.count

\* roll_if_stale, add and the roll-back keep the window of `now`.
LEMMA WindowKeepers ==
  ASSUME NEW c \in Counters, NEW now \in Nat, NEW len \in Nat \ {0}, NEW d \in Nat
  PROVE  LET w == BucketStart(now, len) IN
         /\ WindowKept(c, c, w)
         /\ WindowKept(c, RollIfStale(c, now, len), w)
         /\ WindowKept(c, AddTo(c, now, len, d), w)
         /\ WindowKept(c, RolledBack(c, now, len), w)
  <1> DEFINE w == BucketStart(now, len)
  <1>1. w \in Nat
    BY BucketStartType
  <1>2. WindowKept(c, c, w)
    BY DEF WindowKept, Counters
  <1>3. WindowKept(c, RollIfStale(c, now, len), w)
    BY <1>1 DEF WindowKept, RollIfStale, Counters
  <1>4. WindowKept(c, AddTo(c, now, len, d), w)
    BY <1>1 DEF WindowKept, AddTo, RollIfStale, Counters
  <1>5. WindowKept(c, RolledBack(c, now, len), w)
    BY <1>1 DEF WindowKept, RolledBack, Decrement, AddTo, RollIfStale, Counters
  <1> QED
    BY <1>2, <1>3, <1>4, <1>5

\* add leaves the counter in the window of `now`, with what was there.
LEMMA AddCounts ==
  ASSUME NEW c \in Counters, NEW now \in Nat, NEW len \in Nat \ {0}, NEW d \in Nat
  PROVE  /\ AddTo(c, now, len, d).start = BucketStart(now, len)
         /\ AddTo(c, now, len, d).count = RollIfStale(c, now, len).count + d
         /\ c.start = BucketStart(now, len) => RollIfStale(c, now, len).count = c.count
         /\ RollIfStale(c, now, len).count \in Nat
  <1>1. BucketStart(now, len) \in Nat
    BY BucketStartType
  <1> QED
    BY <1>1 DEF AddTo, RollIfStale, Counters

-----------------------------------------------------------------------------
(* What the operations on a bucket keep.                                   *)

\* Bucket t is bucket s, of a layer with limits lim, after an operation at
\* `now`: no present count and no spend is lost, and it is known to carry an
\* allowance if it was, or if somebody entered.
Keeps(s, t, lim, now) ==
  /\ \A i \in ReqDims : WindowKept(s.req[i], t.req[i], BucketStart(now, ReqLen[i]))
  /\ \A i \in TokDims : WindowKept(s.tok[i], t.tok[i], BucketStart(now, TokLen[i]))
  /\ t.lastTouched \in {s.lastTouched, now}
  /\ s.consumed <= t.consumed
  /\ lim.granted # NoLimit =>
       \/ t.carriesAllowance = TRUE
       \/ t.carriesAllowance = s.carriesAllowance /\ t.inFlight \subseteq s.inFlight

\* The counters of a bucket are counters.
LEMMA CountersOf ==
  ASSUME NEW M, NEW s \in KeyStates(M)
  PROVE  /\ \A i \in ReqDims : s.req[i] \in Counters
         /\ \A i \in TokDims : s.tok[i] \in Counters
         /\ s.consumed \in Nat /\ s.lastTouched \in Nat
  BY DEF KeyStates

\* An operation that does nothing.
LEMMA KeepsSame ==
  ASSUME NEW M, NEW s \in KeyStates(M), NEW lim, NEW now \in Nat
  PROVE  Keeps(s, s, lim, now)
  <1>1. /\ \A i \in ReqDims : s.req[i] \in Counters
        /\ \A i \in TokDims : s.tok[i] \in Counters
        /\ s.consumed \in Nat
    BY CountersOf
  <1>2. \A c \in Counters : \A w : WindowKept(c, c, w)
    BY DEF WindowKept, Counters
  <1> QED
    BY <1>1, <1>2 DEF Keeps

\* The fields of an updated bucket.
LEMMA UpdatedFields ==
  ASSUME NEW M, NEW s \in KeyStates(M), NEW rq, NEW tk, NEW ca, NEW co, NEW fl, NEW t
  PROVE  LET u == Updated(s, rq, tk, ca, co, fl, t) IN
         /\ u.req = rq /\ u.tok = tk /\ u.carriesAllowance = ca
         /\ u.consumed = co /\ u.inFlight = fl /\ u.lastTouched = t
  BY DEF Updated, KeyStates

\* The token windows an acquire read keep their counts.
LEMMA RolledTokensKeep ==
  ASSUME NEW M, NEW s \in KeyStates(M), NEW lim, NEW now \in Nat, NEW j,
         NEW i \in TokDims
  PROVE  WindowKept(s.tok[i], RolledTokens(s, lim, now, j)[i], BucketStart(now, TokLen[i]))
  <1>1. s.tok[i] \in Counters /\ TokLen[i] \in Nat \ {0} /\ 0 \in Nat
    BY CountersOf, TokLenType
  <1>2. /\ WindowKept(s.tok[i], s.tok[i], BucketStart(now, TokLen[i]))
        /\ WindowKept(s.tok[i], RollIfStale(s.tok[i], now, TokLen[i]),
                      BucketStart(now, TokLen[i]))
    BY <1>1, WindowKeepers
  <1> QED
    BY <1>2 DEF RolledTokens

\* So do the request windows of a refused request.
LEMMA RejectedRequestsKeep ==
  ASSUME NEW M, NEW s \in KeyStates(M), NEW lim, NEW now \in Nat, NEW j,
         NEW i \in ReqDims
  PROVE  WindowKept(s.req[i], RejectedRequests(s, lim, now, j)[i],
                    BucketStart(now, ReqLen[i]))
  <1>1. s.req[i] \in Counters /\ ReqLen[i] \in Nat \ {0} /\ 0 \in Nat
    BY CountersOf, ReqLenType
  <1>2. /\ WindowKept(s.req[i], s.req[i], BucketStart(now, ReqLen[i]))
        /\ WindowKept(s.req[i], RollIfStale(s.req[i], now, ReqLen[i]),
                      BucketStart(now, ReqLen[i]))
        /\ WindowKept(s.req[i], RolledBack(s.req[i], now, ReqLen[i]),
                      BucketStart(now, ReqLen[i]))
    BY <1>1, WindowKeepers
  <1> QED
    BY <1>2 DEF RejectedRequests

\* An updated bucket keeps what its parts keep.
LEMMA UpdatedKeeps ==
  ASSUME NEW M, NEW s \in KeyStates(M), NEW lim, NEW now \in Nat,
         NEW rq, NEW tk, NEW ca, NEW co, NEW fl, NEW t,
         \A i \in ReqDims : WindowKept(s.req[i], rq[i], BucketStart(now, ReqLen[i])),
         \A i \in TokDims : WindowKept(s.tok[i], tk[i], BucketStart(now, TokLen[i])),
         t \in {s.lastTouched, now}, s.consumed <= co,
         lim.granted # NoLimit =>
           ca = TRUE \/ (ca = s.carriesAllowance /\ fl \subseteq s.inFlight)
  PROVE  Keeps(s, Updated(s, rq, tk, ca, co, fl, t), lim, now)
  <1> DEFINE u == Updated(s, rq, tk, ca, co, fl, t)
  <1>1. /\ u.req = rq /\ u.tok = tk /\ u.carriesAllowance = ca
        /\ u.consumed = co /\ u.inFlight = fl /\ u.lastTouched = t
    BY UpdatedFields
  <1> HIDE DEF u
  <1>2. Keeps(s, u, lim, now)
    BY <1>1 DEF Keeps
  <1> QED
    BY <1>2 DEF u

\* acquire that admits: one more in every request window with a limit, and the
\* limit was not reached there; the present token windows are below theirs.
LEMMA AdmitKeeps ==
  ASSUME NEW M, NEW s \in KeyStates(M), NEW lim \in RateLimits, NEW now \in Nat,
         NEW m, Admits(s, lim, now)
  PROVE  LET t == AfterAdmit(s, lim, now, m) IN
         /\ Keeps(s, t, lim, now)
         /\ t.lastTouched = now
         /\ \A i \in ReqDims : lim.req[i] # NoLimit =>
              /\ t.req[i] = AddTo(s.req[i], now, ReqLen[i], 1)
              /\ RollIfStale(s.req[i], now, ReqLen[i]).count + 1 <= lim.req[i]
  <1> DEFINE rq == [i \in ReqDims |->
                      IF lim.req[i] # NoLimit
                        THEN AddTo(s.req[i], now, ReqLen[i], 1) ELSE s.req[i]]
             tk == RolledTokens(s, lim, now, Len(TokLen))
             ca == lim.granted # NoLimit
             fl == s.inFlight \cup {m}
             u == Updated(s, rq, tk, ca, s.consumed, fl, now)
  <1>1. AfterAdmit(s, lim, now, m) = u
    BY DEF AfterAdmit, Updated, KeyStates
  <1>2. ASSUME NEW i \in ReqDims
        PROVE  WindowKept(s.req[i], rq[i], BucketStart(now, ReqLen[i]))
    <2>1. s.req[i] \in Counters /\ ReqLen[i] \in Nat \ {0} /\ 1 \in Nat
      BY CountersOf, ReqLenType
    <2>2. /\ WindowKept(s.req[i], s.req[i], BucketStart(now, ReqLen[i]))
          /\ WindowKept(s.req[i], AddTo(s.req[i], now, ReqLen[i], 1),
                        BucketStart(now, ReqLen[i]))
      BY <2>1, WindowKeepers
    <2> QED
      BY <2>2
  <1>3. \A i \in TokDims : WindowKept(s.tok[i], tk[i], BucketStart(now, TokLen[i]))
    BY RolledTokensKeep
  <1>4. \A i \in ReqDims : lim.req[i] # NoLimit =>
          /\ rq[i] = AddTo(s.req[i], now, ReqLen[i], 1)
          /\ RollIfStale(s.req[i], now, ReqLen[i]).count + 1 <= lim.req[i]
    BY DEF Admits, RefusingDims, FitsOneMore
  <1>5. lim.granted # NoLimit => ca = TRUE
    OBVIOUS
  <1>6. s.consumed <= s.consumed
    BY CountersOf
  <1> HIDE DEF rq, tk, ca, fl
  <1>7. Keeps(s, u, lim, now)
    BY <1>2, <1>3, <1>5, <1>6, UpdatedKeeps
  <1>8. u.lastTouched = now /\ u.req = rq
    BY UpdatedFields
  <1> HIDE DEF u
  <1> QED
    BY <1>1, <1>4, <1>7, <1>8

\* acquire that admits found the allowance and the token windows not used up.
LEMMA AdmitsBelow ==
  ASSUME NEW M, NEW s \in KeyStates(M), NEW lim \in RateLimits, NEW now \in Nat,
         Admits(s, lim, now)
  PROVE  /\ lim.granted # NoLimit => s.consumed < lim.granted
         /\ \A i \in TokDims : lim.tok[i] # NoLimit =>
              RollIfStale(s.tok[i], now, TokLen[i]).count < lim.tok[i]
  <1>1. ASSUME lim.granted # NoLimit
        PROVE  s.consumed < lim.granted
    <2>1. s.consumed \in Nat /\ lim.granted \in Nat
      BY <1>1, CountersOf DEF RateLimits, OptLimit
    <2>2. ~(s.consumed >= lim.granted)
      BY <1>1 DEF Admits, AllowanceExhausted
    <2> QED
      BY <2>1, <2>2
  <1>2. ASSUME NEW i \in TokDims, lim.tok[i] # NoLimit
        PROVE  RollIfStale(s.tok[i], now, TokLen[i]).count < lim.tok[i]
    <2>1. s.tok[i] \in Counters /\ TokLen[i] \in Nat \ {0}
      BY CountersOf, TokLenType
    <2>2. RollIfStale(s.tok[i], now, TokLen[i]).count \in Nat
      BY <2>1, AddCounts
    <2>3. lim.tok[i] \in Nat
      BY <1>2 DEF RateLimits, OptLimit
    <2>4. ~(RollIfStale(s.tok[i], now, TokLen[i]).count >= lim.tok[i])
      BY <1>2 DEF Admits, ExceededTokDims, IsExceeded
    <2> QED
      BY <2>2, <2>3, <2>4
  <1> QED
    BY <1>1, <1>2

\* acquire that refuses.
LEMMA RejectKeeps ==
  ASSUME NEW M, NEW s \in KeyStates(M), NEW lim, NEW now \in Nat
  PROVE  Keeps(s, AfterReject(s, lim, now), lim, now)
  <1> DEFINE ca == lim.granted # NoLimit
             tkAll == RolledTokens(s, lim, now, Len(TokLen))
             tkOne == RolledTokens(s, lim, now, FirstOf(ExceededTokDims(s, lim, now)))
             rq == RejectedRequests(s, lim, now, FirstOf(RefusingDims(s, lim, now)))
             With(r, t) == Updated(s, r, t, ca, s.consumed, s.inFlight, s.lastTouched)
             KeptReq(r) == \A i \in ReqDims :
                             WindowKept(s.req[i], r[i], BucketStart(now, ReqLen[i]))
             KeptTok(t) == \A i \in TokDims :
                             WindowKept(s.tok[i], t[i], BucketStart(now, TokLen[i]))
  <1>1. KeptTok(tkAll) /\ KeptTok(tkOne) /\ KeptReq(rq)
    BY RolledTokensKeep, RejectedRequestsKeep
  <1>2. Keeps(s, s, lim, now)
    BY KeepsSame
  <1>3. KeptTok(s.tok) /\ KeptReq(s.req)
    BY <1>2 DEF Keeps
  <1>4. \/ AfterReject(s, lim, now) = s
        \/ AfterReject(s, lim, now) = With(s.req, s.tok)
        \/ AfterReject(s, lim, now) = With(s.req, tkOne)
        \/ AfterReject(s, lim, now) = With(rq, tkAll)
    BY DEF AfterReject, Updated, KeyStates
  <1>5. (lim.granted # NoLimit => ca = TRUE) /\ s.consumed <= s.consumed
    BY CountersOf
  <1> HIDE DEF ca, tkAll, tkOne, rq
  <1>6. ASSUME NEW r, NEW t, KeptReq(r), KeptTok(t)
        PROVE  Keeps(s, With(r, t), lim, now)
    BY <1>5, <1>6, UpdatedKeeps
  <1> HIDE DEF With, KeptReq, KeptTok
  <1> QED
    BY <1>1, <1>2, <1>3, <1>4, <1>6

\* Bucket t is bucket s after an amount was posted to it at `now`.
Posts(s, t, lim, now, amount) ==
  /\ Keeps(s, t, lim, now)
  /\ t.lastTouched = now
  /\ t.consumed = s.consumed + amount
  /\ t.carriesAllowance = s.carriesAllowance
  /\ t.inFlight \subseteq s.inFlight
  /\ \A i \in TokDims : t.tok[i] = AddTo(s.tok[i], now, TokLen[i], amount)

\* add_tokens: the amount more in every token window and in the spend.
LEMMA AddTokensKeeps ==
  ASSUME NEW M, NEW s \in KeyStates(M), NEW lim, NEW now \in Nat, NEW amount \in Nat
  PROVE  Posts(s, AfterAddTokens(s, now, amount), lim, now, amount)
  <1> DEFINE tk == [i \in TokDims |-> AddTo(s.tok[i], now, TokLen[i], amount)]
             co == s.consumed + amount
             u == Updated(s, s.req, tk, s.carriesAllowance, co, s.inFlight, now)
  <1>1. AfterAddTokens(s, now, amount) = u
    BY DEF AfterAddTokens, Updated, KeyStates
  <1>2. ASSUME NEW i \in TokDims
        PROVE  WindowKept(s.tok[i], tk[i], BucketStart(now, TokLen[i]))
    <2>1. s.tok[i] \in Counters /\ TokLen[i] \in Nat \ {0}
      BY CountersOf, TokLenType
    <2>2. WindowKept(s.tok[i], AddTo(s.tok[i], now, TokLen[i], amount),
                     BucketStart(now, TokLen[i]))
      BY <2>1, WindowKeepers
    <2> QED
      BY <2>2
  <1>3. \A i \in ReqDims : WindowKept(s.req[i], s.req[i], BucketStart(now, ReqLen[i]))
    BY KeepsSame DEF Keeps
  <1>4. s.consumed <= co
    BY CountersOf
  <1>5. \A i \in TokDims : tk[i] = AddTo(s.tok[i], now, TokLen[i], amount)
    OBVIOUS
  <1> HIDE DEF tk
  <1>6. Keeps(s, u, lim, now)
    BY <1>2, <1>3, <1>4, UpdatedKeeps
  <1>7. /\ u.lastTouched = now /\ u.tok = tk /\ u.consumed = co
        /\ u.carriesAllowance = s.carriesAllowance /\ u.inFlight = s.inFlight
    BY UpdatedFields
  <1> HIDE DEF u
  <1>8. Posts(s, u, lim, now, amount)
    BY <1>5, <1>6, <1>7 DEF Posts
  <1> QED
    BY <1>1, <1>8

\* release frees a member and touches the bucket.
LEMMA ReleaseKeeps ==
  ASSUME NEW M, NEW s \in KeyStates(M), NEW lim, NEW now \in Nat, NEW m
  PROVE  LET t == AfterRelease(s, now, m) IN
         /\ Keeps(s, t, lim, now)
         /\ t.req = s.req /\ t.tok = s.tok /\ t.lastTouched = now
         /\ t.consumed = s.consumed /\ t.carriesAllowance = s.carriesAllowance
  <1> DEFINE t == AfterRelease(s, now, m)
  <1>1. /\ t.req = s.req /\ t.tok = s.tok /\ t.lastTouched = now
        /\ t.consumed = s.consumed /\ t.carriesAllowance = s.carriesAllowance
        /\ t.inFlight = s.inFlight \ {m}
    BY DEF AfterRelease, KeyStates
  <1>2. Keeps(s, s, lim, now)
    BY KeepsSame
  <1> HIDE DEF t
  <1>3. Keeps(s, t, lim, now)
    BY <1>1, <1>2 DEF Keeps
  <1> QED
    BY <1>1, <1>3 DEF t

\* commit: both under one lock.
LEMMA CommitKeeps ==
  ASSUME NEW M, NEW s \in KeyStates(M), NEW lim, NEW now \in Nat, NEW amount \in Nat,
         NEW m
  PROVE  Posts(s, AfterCommit(s, now, amount, m), lim, now, amount)
  <1> DEFINE a == AfterAddTokens(s, now, amount)
             t == AfterRelease(a, now, m)
  <1>1. a \in KeyStates(M)
    BY AfterAddTokensType
  <1>2. Posts(s, a, lim, now, amount)
    BY AddTokensKeeps
  <1> HIDE DEF a
  <1>3. t.req = a.req /\ t.tok = a.tok /\ t.lastTouched = now /\ t.consumed = a.consumed
    BY <1>1, ReleaseKeeps
  <1>4. t.carriesAllowance = a.carriesAllowance
    BY <1>1, ReleaseKeeps
  <1>5. t.inFlight = a.inFlight \ {m}
    BY <1>1, AfterReleaseType
  <1> HIDE DEF t
  <1>6. Keeps(s, t, lim, now)
    BY <1>2, <1>3, <1>4, <1>5 DEF Posts, Keeps
  <1>7. Posts(s, t, lim, now, amount)
    BY <1>2, <1>3, <1>4, <1>5, <1>6 DEF Posts
  <1> QED
    BY <1>7 DEF a, t, AfterCommit

\* A count that shows, shows after an `add` to both.
LEMMA ShowsMore ==
  ASSUME NEW n \in Nat, NEW c \in Counters, NEW now \in Nat, NEW len \in Nat \ {0},
         NEW d \in Nat, NEW t, Shows(n, c, BucketStart(now, len), t)
  PROVE  /\ Shows(n + d, AddTo(c, now, len, d), BucketStart(now, len), now)
         /\ n <= RollIfStale(c, now, len).count
         /\ RollIfStale(c, now, len).count \in Nat
  <1> DEFINE w == BucketStart(now, len)
             rolled == RollIfStale(c, now, len).count
             a == AddTo(c, now, len, d)
  <1>1. w \in Nat /\ w <= now /\ c.count \in Nat
    BY BucketStartType, WindowBounds DEF Counters
  <1>2. /\ a.start = w /\ a.count = rolled + d /\ rolled \in Nat
        /\ c.start = w => rolled = c.count
    BY <1>1 DEF AddTo, RollIfStale, Counters
  <1>3. n > 0 => c.start = w /\ n <= c.count
    BY DEF Shows
  <1> HIDE DEF w, rolled, a
  <1>4. n <= rolled
    BY <1>1, <1>2, <1>3
  <1>5. Shows(n + d, a, w, now)
    BY <1>1, <1>2, <1>4 DEF Shows
  <1> QED
    BY <1>2, <1>4, <1>5 DEF w, rolled, a

-----------------------------------------------------------------------------
(* What the steps do to one layer.                                         *)

USE LimiterAssumption DEF Layers, Times

\* What type correctness says of the bucket of a layer.
LEMMA BucketTypes ==
  ASSUME TypeOK, NEW k \in Layers
  PROVE  /\ states[k] # None => states[k] \in Buckets /\ heap[states[k]] \in KeyStates(Reqs)
         /\ clock \in Nat /\ clock \in Times
         /\ Limit[k] \in RateLimits
         /\ spent[k] \in Nat
         /\ \A i \in ReqDims, w \in Times : admitted[k][i][w] \in Nat
         /\ \A i \in TokDims, w \in Times : used[k][i][w] \in Nat
  <1>1. /\ states[k] # None => states[k] \in Buckets /\ heap[states[k]] \in KeyStates(Reqs)
        /\ clock \in Nat /\ clock \in Times
    BY DEF TypeOK
  <1>2. Limit[k] \in RateLimits
    OBVIOUS
  <1>3. /\ spent[k] \in Nat
        /\ admitted[k] \in [ReqDims -> [Times -> Nat]]
        /\ used[k] \in [TokDims -> [Times -> Nat]]
    BY DEF TypeOK
  <1> QED
    BY <1>1, <1>2, <1>3

\* The bucket of a layer before and after an operation that keeps it.
BucketKept(k) ==
  /\ states'[k] = states[k]
  /\ states[k] # None => Keeps(heap[states[k]], heap'[states[k]], Limit[k], clock)

\* What type correctness says of it.
LEMMA KeptTypes ==
  ASSUME TypeOK, TypeOK', NEW k \in Layers, BucketKept(k), states[k] # None,
         NEW s, s = heap[states[k]], NEW t, t = heap'[states[k]]
  PROVE  /\ \A i \in ReqDims : s.req[i] \in Counters /\ t.req[i] \in Counters
         /\ \A i \in TokDims : s.tok[i] \in Counters /\ t.tok[i] \in Counters
         /\ s.lastTouched \in Nat /\ t.lastTouched \in {s.lastTouched, clock}
         /\ s.consumed \in Nat /\ t.consumed \in Nat
  <1>1. s \in KeyStates(Reqs) /\ t \in KeyStates(Reqs)
    BY DEF TypeOK
  <1>2. t.lastTouched \in {s.lastTouched, clock}
    BY DEF BucketKept, Keeps
  <1> QED
    BY <1>1, <1>2, CountersOf

\* Nothing that was admitted is lost.
LEMMA AdmittedKept ==
  ASSUME TypeOK, TypeOK', NEW k \in Layers, AdmittedShows(k), BucketKept(k),
         clock' = clock, admitted'[k] = admitted[k]
  PROVE  AdmittedShows(k)'
  <1>1. CASE states[k] = None
    BY <1>1 DEF AdmittedShows, BucketKept
  <1>2. CASE states[k] # None
    <2> DEFINE s == heap[states[k]]
               t == heap'[states[k]]
    <2> SUFFICES ASSUME NEW i \in ReqDims, Limit[k].req[i] # NoLimit
                 PROVE  LET w == BucketStart(clock, ReqLen[i]) IN
                        Shows(admitted[k][i][w], t.req[i], w, t.lastTouched)
      BY <1>2 DEF AdmittedShows, BucketKept
    <2> DEFINE w == BucketStart(clock, ReqLen[i])
               n == admitted[k][i][w]
    <2>1. w \in Times /\ w \in Nat /\ w <= clock /\ clock \in Nat
      BY BucketTypes, ReqLenType, WindowIsTime
    <2>2. Shows(n, s.req[i], w, s.lastTouched)
      BY <1>2 DEF AdmittedShows
    <2>3. WindowKept(s.req[i], t.req[i], w)
      BY <1>2 DEF BucketKept, Keeps
    <2>4. n \in Nat
      BY <2>1, BucketTypes
    <2>5. /\ s.req[i] \in Counters /\ t.req[i] \in Counters
          /\ s.lastTouched \in Nat /\ t.lastTouched \in {s.lastTouched, clock}
      BY <1>2, KeptTypes
    <2> HIDE DEF n, w, s, t
    <2>6. Shows(n, t.req[i], w, t.lastTouched)
      BY <2>1, <2>2, <2>3, <2>4, <2>5 DEF Shows, WindowKept, Counters
    <2> QED
      BY <2>6 DEF n, w
  <1> QED
    BY <1>1, <1>2

\* Nothing that was posted is lost.
LEMMA UsedKept ==
  ASSUME TypeOK, TypeOK', NEW k \in Layers, UsedShows(k), BucketKept(k),
         clock' = clock, used'[k] = used[k]
  PROVE  UsedShows(k)'
  <1>1. CASE states[k] = None
    BY <1>1 DEF UsedShows, BucketKept
  <1>2. CASE states[k] # None
    <2> DEFINE s == heap[states[k]]
               t == heap'[states[k]]
    <2> SUFFICES ASSUME NEW i \in TokDims
                 PROVE  LET w == BucketStart(clock, TokLen[i]) IN
                        Shows(used[k][i][w], t.tok[i], w, t.lastTouched)
      BY <1>2 DEF UsedShows, BucketKept
    <2> DEFINE w == BucketStart(clock, TokLen[i])
               n == used[k][i][w]
    <2>1. w \in Times /\ w \in Nat /\ w <= clock /\ clock \in Nat
      BY BucketTypes, TokLenType, WindowIsTime
    <2>2. Shows(n, s.tok[i], w, s.lastTouched)
      BY <1>2 DEF UsedShows
    <2>3. WindowKept(s.tok[i], t.tok[i], w)
      BY <1>2 DEF BucketKept, Keeps
    <2>4. n \in Nat
      BY <2>1, BucketTypes
    <2>5. /\ s.tok[i] \in Counters /\ t.tok[i] \in Counters
          /\ s.lastTouched \in Nat /\ t.lastTouched \in {s.lastTouched, clock}
      BY <1>2, KeptTypes
    <2> HIDE DEF n, w, s, t
    <2>6. Shows(n, t.tok[i], w, t.lastTouched)
      BY <2>1, <2>2, <2>3, <2>4, <2>5 DEF Shows, WindowKept, Counters
    <2> QED
      BY <2>6 DEF n, w
  <1> QED
    BY <1>1, <1>2

\* The allowance stays known.
LEMMA AllowanceStays ==
  ASSUME TypeOK, TypeOK', NEW k \in Layers, AllowanceKept(k), BucketKept(k),
         spent'[k] = spent[k]
  PROVE  AllowanceKept(k)'
  <1>1. CASE states[k] = None
    BY <1>1 DEF AllowanceKept, BucketKept
  <1>2. CASE states[k] # None
    <2> DEFINE s == heap[states[k]]
               t == heap'[states[k]]
    <2> SUFFICES ASSUME Limit[k].granted # NoLimit
                 PROVE  /\ spent[k] > 0 => spent[k] <= t.consumed /\ t.carriesAllowance = TRUE
                        /\ t.inFlight # {} => t.carriesAllowance = TRUE
      BY <1>2 DEF AllowanceKept, BucketKept
    <2>1. /\ spent[k] > 0 => spent[k] <= s.consumed /\ s.carriesAllowance = TRUE
          /\ s.inFlight # {} => s.carriesAllowance = TRUE
      BY <1>2 DEF AllowanceKept
    <2>2. /\ s.consumed <= t.consumed
          /\ \/ t.carriesAllowance = TRUE
             \/ t.carriesAllowance = s.carriesAllowance /\ t.inFlight \subseteq s.inFlight
      BY <1>2 DEF BucketKept, Keeps
    <2>3. spent[k] \in Nat /\ s.consumed \in Nat /\ t.consumed \in Nat
      BY <1>2, BucketTypes, KeptTypes
    <2> HIDE DEF s, t
    <2> QED
      BY <2>1, <2>2, <2>3
  <1> QED
    BY <1>1, <1>2

\* A layer whose bucket only went through an operation that keeps it.
LEMMA LayerKept ==
  ASSUME TypeOK, TypeOK', NEW k \in Layers, LayerInv(k), BucketKept(k), clock' = clock,
         admitted'[k] = admitted[k], used'[k] = used[k], spent'[k] = spent[k]
  PROVE  LayerInv(k)'
  <1>1. NothingAhead(k)' /\ Capped(k)'
    BY DEF LayerInv, NothingAhead, Capped
  <1>2. AdmittedShows(k)' /\ UsedShows(k)' /\ AllowanceKept(k)'
    BY AdmittedKept, UsedKept, AllowanceStays DEF LayerInv
  <1> QED
    BY <1>1, <1>2 DEF LayerInv

\* state_for makes a new bucket for a layer that had none.
LEMMA LayerCreated ==
  ASSUME TypeOK, NEW k \in Layers, LayerInv(k), clock' = clock,
         states[k] = None, states'[k] # None, heap'[states'[k]] = NewKeyState(clock),
         admitted'[k] = admitted[k], used'[k] = used[k], spent'[k] = spent[k]
  PROVE  LayerInv(k)'
  <1> DEFINE t == heap'[states'[k]]
  <1>1. NothingAhead(k)' /\ Capped(k)'
    BY DEF LayerInv, NothingAhead, Capped
  <1>2. t.inFlight = {}
    BY DEF NewKeyState
  <1> HIDE DEF t
  <1>3. AdmittedShows(k)'
    <2> SUFFICES ASSUME NEW i \in ReqDims, Limit[k].req[i] # NoLimit
                 PROVE  LET w == BucketStart(clock, ReqLen[i]) IN
                        Shows(admitted[k][i][w], t.req[i], w, t.lastTouched)
      BY DEF AdmittedShows, t
    <2>1. admitted[k][i][BucketStart(clock, ReqLen[i])] = 0
      BY DEF LayerInv, AdmittedShows
    <2> QED
      BY <2>1 DEF Shows
  <1>4. UsedShows(k)'
    <2> SUFFICES ASSUME NEW i \in TokDims
                 PROVE  LET w == BucketStart(clock, TokLen[i]) IN
                        Shows(used[k][i][w], t.tok[i], w, t.lastTouched)
      BY DEF UsedShows, t
    <2>1. used[k][i][BucketStart(clock, TokLen[i])] = 0
      BY DEF LayerInv, UsedShows
    <2> QED
      BY <2>1 DEF Shows
  <1>5. AllowanceKept(k)'
    BY <1>2 DEF LayerInv, AllowanceKept, t
  <1> QED
    BY <1>1, <1>3, <1>4, <1>5 DEF LayerInv

\* A window whose bucket was touched in it is not idle for IdleFor.
LEMMA OpenIsRecent ==
  ASSUME NEW now \in Nat, NEW len \in Nat \ {0}, len <= IdleFor, NEW t \in Nat,
         BucketStart(now, len) <= t
  PROVE  t >= (IF now >= IdleFor THEN now - IdleFor ELSE 0)
  <1>1. now < BucketStart(now, len) + len /\ BucketStart(now, len) \in Nat
    BY WindowBounds, BucketStartType
  <1> QED
    BY <1>1, IdleForAssumption

\* reap takes no bucket with a count of an open window or a spent allowance.
LEMMA LayerReaped ==
  ASSUME TypeOK, NEW k \in Layers, LayerInv(k), clock' = clock, heap' = heap,
         states[k] # None, states'[k] = None, ~SurvivesReap(heap[states[k]], clock),
         admitted'[k] = admitted[k], used'[k] = used[k], spent'[k] = spent[k]
  PROVE  LayerInv(k)'
  <1> DEFINE s == heap[states[k]]
  <1>0. /\ s \in KeyStates(Reqs) /\ clock \in Nat /\ clock \in Times
        /\ s.lastTouched \in Nat /\ s.consumed \in Nat /\ spent[k] \in Nat
        /\ \A i \in ReqDims, w \in Times : admitted[k][i][w] \in Nat
        /\ \A i \in TokDims, w \in Times : used[k][i][w] \in Nat
    BY BucketTypes, CountersOf
  <1>1. NothingAhead(k)' /\ Capped(k)'
    BY DEF LayerInv, NothingAhead, Capped
  <1>2. ~(s.lastTouched >= (IF clock >= IdleFor THEN clock - IdleFor ELSE 0))
    BY DEF SurvivesReap
  <1>3. ~(s.carriesAllowance = TRUE /\ s.consumed > 0)
    BY DEF SurvivesReap
  <1>4. ASSUME NEW i \in ReqDims, Limit[k].req[i] # NoLimit
        PROVE  admitted[k][i][BucketStart(clock, ReqLen[i])] = 0
    <2> DEFINE w == BucketStart(clock, ReqLen[i])
               n == admitted[k][i][w]
    <2>1. ReqLen[i] \in Nat \ {0} /\ ReqLen[i] <= IdleFor
      BY ReqLenType, IdleForAssumption
    <2>2. n \in Nat
      BY <1>0, <2>1, WindowIsTime
    <2>3. n > 0 => w <= s.lastTouched
      BY <1>4 DEF LayerInv, AdmittedShows, Shows
    <2>4. ~(w <= s.lastTouched)
      BY <1>0, <1>2, <2>1, OpenIsRecent
    <2> HIDE DEF w
    <2> QED
      BY <2>2, <2>3, <2>4 DEF w
  <1>5. ASSUME NEW i \in TokDims
        PROVE  used[k][i][BucketStart(clock, TokLen[i])] = 0
    <2> DEFINE w == BucketStart(clock, TokLen[i])
               n == used[k][i][w]
    <2>1. TokLen[i] \in Nat \ {0} /\ TokLen[i] <= IdleFor
      BY TokLenType, IdleForAssumption
    <2>2. n \in Nat
      BY <1>0, <2>1, WindowIsTime
    <2>3. n > 0 => w <= s.lastTouched
      BY <1>5 DEF LayerInv, UsedShows, Shows
    <2>4. ~(w <= s.lastTouched)
      BY <1>0, <1>2, <2>1, OpenIsRecent
    <2> HIDE DEF w
    <2> QED
      BY <2>2, <2>3, <2>4 DEF w
  <1>6. Limit[k].granted # NoLimit => ~(spent[k] > 0)
    <2>1. Limit[k].granted # NoLimit /\ spent[k] > 0 =>
            spent[k] <= s.consumed /\ s.carriesAllowance = TRUE
      BY DEF LayerInv, AllowanceKept
    <2> HIDE DEF s
    <2> QED
      BY <1>0, <1>3, <2>1
  <1>7. AdmittedShows(k)' /\ UsedShows(k)' /\ AllowanceKept(k)'
    BY <1>4, <1>5, <1>6 DEF AdmittedShows, UsedShows, AllowanceKept
  <1> QED
    BY <1>1, <1>7 DEF LayerInv

\* A second passes: a window either stays open or the next one is empty.
LEMMA LayerTicked ==
  ASSUME TypeOK, NEW k \in Layers, LayerInv(k), clock' = clock + 1, clock' \in Times,
         heap' = heap, states'[k] = states[k],
         admitted'[k] = admitted[k], used'[k] = used[k], spent'[k] = spent[k]
  PROVE  LayerInv(k)'
  <1>0. clock \in Nat /\ clock \in Times /\ clock + 1 \in Nat /\ clock <= clock + 1
    BY BucketTypes
  <1>1. ASSUME NEW len \in Nat \ {0}
        PROVE  /\ BucketStart(clock, len) <= BucketStart(clock', len)
               /\ BucketStart(clock, len) \in Nat /\ BucketStart(clock', len) \in Times
               /\ BucketStart(clock', len) \in Nat
    BY <1>0, WindowOrder, WindowIsTime
  <1>2. NothingAhead(k)'
    <2> SUFFICES ASSUME NEW w \in Times
                 PROVE  /\ \A i \in ReqDims : w > BucketStart(clock', ReqLen[i]) => admitted[k][i][w] = 0
                        /\ \A i \in TokDims : w > BucketStart(clock', TokLen[i]) => used[k][i][w] = 0
      BY DEF NothingAhead
    <2>1. w \in Nat
      OBVIOUS
    <2>2. ASSUME NEW i \in ReqDims, w > BucketStart(clock', ReqLen[i])
          PROVE  admitted[k][i][w] = 0
      <3>1. w > BucketStart(clock, ReqLen[i])
        BY <1>1, <2>1, <2>2, ReqLenType
      <3> QED
        BY <3>1 DEF LayerInv, NothingAhead
    <2>3. ASSUME NEW i \in TokDims, w > BucketStart(clock', TokLen[i])
          PROVE  used[k][i][w] = 0
      <3>1. w > BucketStart(clock, TokLen[i])
        BY <1>1, <2>1, <2>3, TokLenType
      <3> QED
        BY <3>1 DEF LayerInv, NothingAhead
    <2> QED
      BY <2>2, <2>3
  <1>3. AdmittedShows(k)'
    <2> SUFFICES ASSUME NEW i \in ReqDims, Limit[k].req[i] # NoLimit
                 PROVE  LET w == BucketStart(clock', ReqLen[i]) IN
                        /\ states[k] = None => admitted[k][i][w] = 0
                        /\ states[k] # None => Shows(admitted[k][i][w], heap[states[k]].req[i],
                                                     w, heap[states[k]].lastTouched)
      BY DEF AdmittedShows
    <2> DEFINE v == BucketStart(clock, ReqLen[i])
               w == BucketStart(clock', ReqLen[i])
    <2>1. v <= w /\ v \in Nat /\ w \in Nat /\ w \in Times
      BY <1>1, ReqLenType
    <2>2. w > v => admitted[k][i][w] = 0
      BY <2>1 DEF LayerInv, NothingAhead
    <2>3. CASE w = v
      BY <2>3 DEF LayerInv, AdmittedShows
    <2>4. CASE w # v
      <3>1. admitted[k][i][w] = 0
        BY <2>1, <2>2, <2>4
      <3> QED
        BY <3>1 DEF Shows
    <2> QED
      BY <2>3, <2>4
  <1>4. UsedShows(k)'
    <2> SUFFICES ASSUME NEW i \in TokDims
                 PROVE  LET w == BucketStart(clock', TokLen[i]) IN
                        /\ states[k] = None => used[k][i][w] = 0
                        /\ states[k] # None => Shows(used[k][i][w], heap[states[k]].tok[i],
                                                     w, heap[states[k]].lastTouched)
      BY DEF UsedShows
    <2> DEFINE v == BucketStart(clock, TokLen[i])
               w == BucketStart(clock', TokLen[i])
    <2>1. v <= w /\ v \in Nat /\ w \in Nat /\ w \in Times
      BY <1>1, TokLenType
    <2>2. w > v => used[k][i][w] = 0
      BY <2>1 DEF LayerInv, NothingAhead
    <2>3. CASE w = v
      BY <2>3 DEF LayerInv, UsedShows
    <2>4. CASE w # v
      <3>1. used[k][i][w] = 0
        BY <2>1, <2>2, <2>4
      <3> QED
        BY <3>1 DEF Shows
    <2> QED
      BY <2>3, <2>4
  <1>5. AllowanceKept(k)' /\ Capped(k)'
    BY DEF LayerInv, AllowanceKept, Capped
  <1> QED
    BY <1>2, <1>3, <1>4, <1>5 DEF LayerInv

\* What a history says after d more.
LEMMA LoggedAt ==
  ASSUME NEW h, NEW len, NEW now, NEW d, NEW i \in DOMAIN len, NEW w \in Times,
         h[i][w] \in Nat
  PROVE  /\ w = BucketStart(now, len[i]) => Logged(h, len, now, d)[i][w] = h[i][w] + d
         /\ w # BucketStart(now, len[i]) => Logged(h, len, now, d)[i][w] = h[i][w]
  BY DEF Logged

\* A layer that admits a request into its bucket counts it and stays capped.
LEMMA LayerAdmitted ==
  ASSUME TypeOK, TypeOK', NEW k \in Layers, LayerInv(k), clock' = clock, NEW r,
         states[k] # None, states'[k] = states[k],
         Admits(heap[states[k]], Limit[k], clock),
         heap'[states[k]] = AfterAdmit(heap[states[k]], Limit[k], clock, r),
         admitted'[k] = Logged(admitted[k], ReqLen, clock, 1),
         used'[k] = used[k], spent'[k] = spent[k]
  PROVE  LayerInv(k)'
  <1> DEFINE b == states[k]
             s == heap[b]
             t == heap'[b]
  <1>0. /\ clock \in Nat /\ clock \in Times /\ Limit[k] \in RateLimits
        /\ b \in Buckets /\ s \in KeyStates(Reqs) /\ t \in KeyStates(Reqs)
        /\ \A i \in ReqDims, w \in Times : admitted[k][i][w] \in Nat
    BY BucketTypes DEF TypeOK
  <1>1. /\ Keeps(s, t, Limit[k], clock) /\ t.lastTouched = clock
        /\ \A i \in ReqDims : Limit[k].req[i] # NoLimit =>
             /\ t.req[i] = AddTo(s.req[i], clock, ReqLen[i], 1)
             /\ RollIfStale(s.req[i], clock, ReqLen[i]).count + 1 <= Limit[k].req[i]
    BY <1>0, AdmitKeeps
  <1>2. UsedShows(k)' /\ AllowanceKept(k)'
    <2>1. BucketKept(k)
      BY <1>1 DEF BucketKept
    <2> QED
      BY <2>1, UsedKept, AllowanceStays DEF LayerInv
  <1>3. ASSUME NEW i \in ReqDims, NEW w \in Times
        PROVE  /\ w = BucketStart(clock, ReqLen[i])
                    => admitted'[k][i][w] = admitted[k][i][w] + 1
               /\ w # BucketStart(clock, ReqLen[i])
                    => admitted'[k][i][w] = admitted[k][i][w]
    BY <1>0, LoggedAt DEF ReqDims
  <1>4. NothingAhead(k)'
    <2> SUFFICES ASSUME NEW w \in Times, NEW i \in ReqDims,
                        w > BucketStart(clock, ReqLen[i])
                 PROVE  admitted'[k][i][w] = 0
      BY DEF LayerInv, NothingAhead
    <2>1. BucketStart(clock, ReqLen[i]) \in Nat
      BY <1>0, ReqLenType, BucketStartType
    <2>1a. w \in Nat
      OBVIOUS
    <2>2. admitted[k][i][w] = 0
      BY DEF LayerInv, NothingAhead
    <2> QED
      BY <1>3, <2>1, <2>1a, <2>2
  <1>5. ASSUME NEW i \in ReqDims, Limit[k].req[i] # NoLimit
        PROVE  LET w == BucketStart(clock, ReqLen[i]) IN
               /\ Shows(admitted'[k][i][w], t.req[i], w, t.lastTouched)
               /\ admitted'[k][i][w] <= Limit[k].req[i]
    <2> DEFINE w == BucketStart(clock, ReqLen[i])
               n == admitted[k][i][w]
               c == s.req[i]
               len == ReqLen[i]
    <2>1. w \in Times
      BY <1>0, ReqLenType, WindowIsTime
    <2>2. n \in Nat /\ admitted'[k][i][w] = n + 1
      BY <1>0, <1>3, <2>1
    <2>3. Limit[k].req[i] \in Nat
      BY <1>0, <1>5 DEF RateLimits, OptLimit
    <2>4. /\ c \in Counters /\ len \in Nat \ {0} /\ clock \in Nat /\ 1 \in Nat
          /\ w = BucketStart(clock, len)
      BY <1>0, ReqLenType, CountersOf
    <2>5. Shows(n, c, w, s.lastTouched)
      BY <1>5 DEF LayerInv, AdmittedShows
    <2>6. /\ t.req[i] = AddTo(c, clock, len, 1) /\ t.lastTouched = clock
          /\ RollIfStale(c, clock, len).count + 1 <= Limit[k].req[i]
      BY <1>1, <1>5
    <2> HIDE DEF w, n, c, t, s, len
    <2>7. /\ Shows(n + 1, AddTo(c, clock, len, 1), w, clock)
          /\ n <= RollIfStale(c, clock, len).count
          /\ RollIfStale(c, clock, len).count \in Nat
      BY <2>2, <2>4, <2>5, ShowsMore
    <2>8. n + 1 <= Limit[k].req[i]
      BY <2>2, <2>3, <2>6, <2>7
    <2> QED
      BY <2>2, <2>6, <2>7, <2>8 DEF w
  <1>6. AdmittedShows(k)'
    BY <1>5 DEF AdmittedShows
  <1>7. Capped(k)'
    <2> SUFFICES ASSUME NEW i \in ReqDims, NEW w \in Times, Limit[k].req[i] # NoLimit
                 PROVE  admitted'[k][i][w] <= Limit[k].req[i]
      BY DEF Capped
    <2>1. CASE w = BucketStart(clock, ReqLen[i])
      BY <1>5, <2>1
    <2>2. CASE w # BucketStart(clock, ReqLen[i])
      BY <1>3, <2>2 DEF LayerInv, Capped
    <2> QED
      BY <2>1, <2>2
  <1> QED
    BY <1>2, <1>4, <1>6, <1>7 DEF LayerInv

\* A layer to whose bucket an amount is posted; what is counted as spent is
\* posted by somebody who is in flight there.
LEMMA LayerPosted ==
  ASSUME TypeOK, TypeOK', NEW k \in Layers, LayerInv(k), clock' = clock,
         NEW amount \in Nat, states[k] # None, states'[k] = states[k],
         Posts(heap[states[k]], heap'[states[k]], Limit[k], clock, amount),
         admitted'[k] = admitted[k],
         used'[k] = Logged(used[k], TokLen, clock, amount),
         \/ spent'[k] = spent[k]
         \/ spent'[k] = spent[k] + amount /\ heap[states[k]].inFlight # {}
  PROVE  LayerInv(k)'
  <1> DEFINE s == heap[states[k]]
             t == heap'[states[k]]
  <1>p. /\ BucketKept(k)
        /\ t.lastTouched = clock /\ t.consumed = s.consumed + amount
        /\ t.carriesAllowance = s.carriesAllowance /\ t.inFlight \subseteq s.inFlight
        /\ \A i \in TokDims : t.tok[i] = AddTo(s.tok[i], clock, TokLen[i], amount)
    BY DEF Posts, BucketKept
  <1>0. /\ clock \in Nat /\ clock \in Times /\ spent[k] \in Nat
        /\ \A i \in TokDims, w \in Times : used[k][i][w] \in Nat
    BY BucketTypes
  <1>1. /\ \A i \in TokDims : s.tok[i] \in Counters
        /\ s.consumed \in Nat
    BY <1>p, KeptTypes
  <1>2. AdmittedShows(k)' /\ Capped(k)'
    <2>1. AdmittedShows(k)'
      BY <1>p, AdmittedKept DEF LayerInv
    <2>2. Capped(k)'
      BY DEF LayerInv, Capped
    <2> QED
      BY <2>1, <2>2
  <1>3. ASSUME NEW i \in TokDims, NEW w \in Times
        PROVE  /\ w = BucketStart(clock, TokLen[i])
                    => used'[k][i][w] = used[k][i][w] + amount
               /\ w # BucketStart(clock, TokLen[i])
                    => used'[k][i][w] = used[k][i][w]
    BY <1>0, LoggedAt DEF TokDims
  <1>4. NothingAhead(k)'
    <2> SUFFICES ASSUME NEW w \in Times, NEW i \in TokDims,
                        w > BucketStart(clock, TokLen[i])
                 PROVE  used'[k][i][w] = 0
      BY DEF LayerInv, NothingAhead
    <2>1. BucketStart(clock, TokLen[i]) \in Nat
      BY <1>0, TokLenType, BucketStartType
    <2>2. w \in Nat
      OBVIOUS
    <2>3. used[k][i][w] = 0
      BY DEF LayerInv, NothingAhead
    <2>4. w # BucketStart(clock, TokLen[i])
      BY <2>1, <2>2
    <2> QED
      BY <1>3, <2>3, <2>4
  <1>5. UsedShows(k)'
    <2> SUFFICES ASSUME NEW i \in TokDims
                 PROVE  LET w == BucketStart(clock, TokLen[i]) IN
                        Shows(used'[k][i][w], t.tok[i], w, clock)
      BY <1>p DEF UsedShows
    <2> DEFINE w == BucketStart(clock, TokLen[i])
               n == used[k][i][w]
               c == s.tok[i]
               len == TokLen[i]
    <2>1. w \in Times
      BY <1>0, TokLenType, WindowIsTime
    <2>2. n \in Nat /\ used'[k][i][w] = n + amount
      BY <1>0, <1>3, <2>1
    <2>3. /\ c \in Counters /\ len \in Nat \ {0} /\ clock \in Nat
          /\ w = BucketStart(clock, len)
      BY <1>0, <1>1, TokLenType
    <2>4. Shows(n, c, w, s.lastTouched)
      BY DEF LayerInv, UsedShows
    <2>5. t.tok[i] = AddTo(c, clock, len, amount)
      BY <1>p
    <2> HIDE DEF w, n, c, len, s, t
    <2>6. Shows(n + amount, AddTo(c, clock, len, amount), w, clock)
      BY <2>2, <2>3, <2>4, ShowsMore
    <2> QED
      BY <2>2, <2>5, <2>6 DEF w
  <1>6. AllowanceKept(k)'
    <2>1. Limit[k].granted # NoLimit =>
            /\ spent[k] > 0 => spent[k] <= s.consumed /\ s.carriesAllowance = TRUE
            /\ s.inFlight # {} => s.carriesAllowance = TRUE
      BY DEF LayerInv, AllowanceKept
    <2> SUFFICES ASSUME Limit[k].granted # NoLimit
                 PROVE  /\ spent'[k] > 0 => spent'[k] <= t.consumed /\ t.carriesAllowance = TRUE
                        /\ t.inFlight # {} => t.carriesAllowance = TRUE
      BY DEF AllowanceKept
    <2> HIDE DEF s, t
    <2>2. t.inFlight # {} => t.carriesAllowance = TRUE
      BY <1>p, <2>1, Zenon
    <2>3. CASE spent'[k] = spent[k]
      <3>1. spent'[k] > 0 => spent'[k] <= t.consumed
        BY <1>p, <1>0, <1>1, <2>1, <2>3
      <3>2. spent'[k] > 0 => t.carriesAllowance = TRUE
        BY <1>p, <2>1, <2>3, Zenon
      <3> QED
        BY <2>2, <3>1, <3>2, Zenon
    <2>4. CASE spent'[k] = spent[k] + amount /\ heap[states[k]].inFlight # {}
      <3>1. spent'[k] <= t.consumed
        BY <1>p, <1>0, <1>1, <2>1, <2>4
      <3>2. t.carriesAllowance = TRUE
        BY <1>p, <2>1, <2>4, Zenon DEF s
      <3> QED
        BY <2>2, <3>1, <3>2, Zenon
    <2> QED
      BY <2>3, <2>4, Zenon
  <1> QED
    BY <1>2, <1>4, <1>5, <1>6 DEF LayerInv

\* A layer whose bucket nothing happens to.
LEMMA LayerSame ==
  ASSUME TypeOK, TypeOK', NEW k \in Layers, LayerInv(k), clock' = clock,
         states'[k] = states[k], states[k] # None => heap'[states[k]] = heap[states[k]],
         admitted'[k] = admitted[k], used'[k] = used[k], spent'[k] = spent[k]
  PROVE  LayerInv(k)'
  <1>1. states[k] # None => Keeps(heap[states[k]], heap[states[k]], Limit[k], clock)
    BY BucketTypes, KeepsSame
  <1>2. BucketKept(k)
    BY <1>1 DEF BucketKept
  <1> QED
    BY <1>2, LayerKept

-----------------------------------------------------------------------------
(* The steps keep the invariant.                                           *)

\* A step of request r that looks nothing up and leaves it without an Arc.
LEMMA ArcGone ==
  ASSUME TypeOK', Prompt, ArcsAreLive, NEW r \in Reqs, clock' = clock, states' = states,
         \A q \in Reqs \ {r} : req'[q] = req[q], req'[r].ref = None
  PROVE  Prompt' /\ ArcsAreLive'
  <1>1. req'[r].pc \notin {"commitLock", "postLock"}
    BY DEF TypeOK, Locking
  <1>2. Prompt'
    BY DEF Prompt
  <1>3. ArcsAreLive'
    BY <1>1 DEF ArcsAreLive
  <1> QED
    BY <1>2, <1>3

\* The initial state satisfies the invariant.
LEMMA UsageInit == Init => UsageInv
  <1> SUFFICES ASSUME Init PROVE UsageInv
    OBVIOUS
  <1>1. CapInv /\ TypeOK /\ clock = 0 /\ clock \in Times
    BY CapInit DEF CapInv, Init
  <1>2. \A r \in Reqs : req[r].ref = None /\ req[r].pc = "reserve"
    BY DEF Init
  <1>3. Prompt /\ ArcsAreLive
    BY <1>2 DEF Prompt, ArcsAreLive
  <1>4. ASSUME NEW k \in Layers
        PROVE  LayerInv(k)
    <2>1. /\ states[k] = None /\ spent[k] = 0
          /\ \A i \in ReqDims, w \in Times : admitted[k][i][w] = 0
          /\ \A i \in TokDims, w \in Times : used[k][i][w] = 0
      BY DEF Init
    <2>2. /\ \A i \in ReqDims : BucketStart(clock, ReqLen[i]) \in Times
          /\ \A i \in TokDims : BucketStart(clock, TokLen[i]) \in Times
      BY <1>1, ReqLenType, TokLenType, WindowIsTime
    <2>3. \A i \in ReqDims : Limit[k].req[i] # NoLimit => Limit[k].req[i] \in Nat
      BY DEF RateLimits, OptLimit
    <2>4. NothingAhead(k) /\ Capped(k)
      BY <2>1, <2>3 DEF NothingAhead, Capped
    <2>5. AdmittedShows(k) /\ UsedShows(k) /\ AllowanceKept(k)
      BY <2>1, <2>2 DEF AdmittedShows, UsedShows, AllowanceKept
    <2> QED
      BY <2>4, <2>5 DEF LayerInv
  <1> QED
    BY <1>1, <1>3, <1>4 DEF UsageInv

\* The lookup half of a store call.
LEMMA LookupUsage ==
  ASSUME UsageInv, TypeOK', CapInv', NEW r \in Reqs, NEW from, NEW to \in Locking,
         Lookup(r, from, to)
  PROVE  UsageInv'
  <1> DEFINE k == req[r].layer
  <1> PICK b \in Buckets :
        /\ StateFor(k, b)
        /\ req' = [req EXCEPT ![r].pc = to, ![r].ref = b, ![r].now = clock]
    BY Zenon DEF Lookup
  <1>0. /\ TypeOK /\ req[r] \in ReqStates /\ k \in Layers
        /\ clock' = clock /\ admitted' = admitted /\ used' = used /\ spent' = spent
    BY LockingTypes DEF UsageInv, CapInv, Lookup
  <1>1. /\ \A q \in Reqs \ {r} : req'[q] = req[q]
        /\ req'[r].layer = k /\ req'[r].held = req[r].held /\ req'[r].late = req[r].late
        /\ req'[r].ref = b /\ req'[r].now = clock
    BY <1>0 DEF TypeOK, ReqStates
  <1>2. /\ b # None
        /\ \A q \in Reqs : req[q].pc \in Locking => req[q].ref # None
        /\ states \in [Layers -> Buckets \cup {None}] /\ heap \in [Buckets -> KeyStates(Reqs)]
        /\ \A q \in Reqs : req[q].layer \in Layers
    BY <1>0, LockingTypes DEF TypeOK
  <1>3. Prompt'
    BY <1>0, <1>1 DEF UsageInv, Prompt
  <1>4. \A j \in Layers : LayerInv(j)
    BY DEF UsageInv
  <1> HIDE DEF k
  <1>5. CASE states[k] = b /\ UNCHANGED <<states, heap>>
    <2>1. \A j \in Layers : LayerInv(j)'
      BY <1>0, <1>4, <1>5, LayerSame
    <2>2. ArcsAreLive'
      <3> SUFFICES ASSUME NEW q \in Reqs, req'[q].pc \in {"commitLock", "postLock"},
                          req'[q].layer \in req'[q].held \ req'[q].late
                   PROVE  states[req'[q].layer] = req'[q].ref
        BY <1>5 DEF ArcsAreLive
      <3>1. CASE q = r
        BY <1>1, <1>5, <3>1
      <3>2. CASE q # r
        <4>1. req'[q] = req[q]
          BY <1>1, <3>2
        <4> QED
          BY <4>1 DEF UsageInv, ArcsAreLive
      <3> QED
        BY <3>1, <3>2
    <2> QED
      BY <1>3, <2>1, <2>2 DEF UsageInv
  <1>6. CASE /\ states[k] = None /\ b \in FreeBuckets
             /\ states' = [states EXCEPT ![k] = b]
             /\ heap' = [heap EXCEPT ![b] = NewKeyState(clock)]
    <2>1. /\ \A j \in Layers \ {k} : states'[j] = states[j]
          /\ states'[k] = b /\ heap'[b] = NewKeyState(clock)
          /\ \A c \in Buckets \ {b} : heap'[c] = heap[c]
      BY <1>0, <1>2, <1>6
    <2>2. \A j \in Layers : states[j] # b
      BY <1>6 DEF FreeBuckets
    <2>3. ASSUME NEW j \in Layers
          PROVE  LayerInv(j)'
      <3>1. CASE j = k
        BY <1>0, <1>2, <1>4, <1>6, <2>1, <3>1, LayerCreated
      <3>2. CASE j # k
        <4>1. states[j] # None => heap'[states[j]] = heap[states[j]]
          BY <1>2, <2>1, <2>2
        <4> QED
          BY <1>0, <1>4, <2>1, <3>2, <4>1, LayerSame
      <3> QED
        BY <3>1, <3>2
    <2>4. ArcsAreLive'
      <3> SUFFICES ASSUME NEW q \in Reqs, req'[q].pc \in {"commitLock", "postLock"},
                          req'[q].layer \in req'[q].held \ req'[q].late
                   PROVE  states'[req'[q].layer] = req'[q].ref
        BY DEF ArcsAreLive
      <3>1. CASE q = r
        BY <1>1, <2>1, <3>1
      <3>2. CASE q # r
        <4>1. states[req[q].layer] = req[q].ref /\ req'[q] = req[q]
          BY <1>1, <3>2 DEF UsageInv, ArcsAreLive
        <4>2. req[q].ref # None
          BY <1>2, <4>1 DEF Locking
        <4> QED
          BY <1>2, <1>6, <2>1, <4>1, <4>2
      <3> QED
        BY <3>1, <3>2
    <2> QED
      BY <1>3, <2>3, <2>4 DEF UsageInv
  <1> QED
    BY <1>5, <1>6, Zenon DEF StateFor

\* What the invariant says of a request at its lock: it read the present time,
\* and no other layer has its bucket.
LEMMA AtTheLock ==
  ASSUME UsageInv, NEW r \in Reqs, req[r].pc \in Locking
  PROVE  /\ TypeOK /\ req[r] \in ReqStates /\ req[r].layer \in Layers
         /\ req[r].ref \in Buckets /\ req[r].ref # None /\ req[r].now = clock
         /\ heap[req[r].ref] \in KeyStates(Reqs) /\ heap \in [Buckets -> KeyStates(Reqs)]
         /\ \A j \in Layers : states[j] = req[r].ref => j = req[r].layer
         /\ \A j \in Layers : states[j] # None => states[j] \in Buckets
         /\ \A j \in Layers : LayerInv(j)
         /\ clock \in Nat
  <1>1. /\ TypeOK /\ req[r] \in ReqStates /\ req[r].layer \in Layers
        /\ req[r].ref \in Buckets /\ req[r].ref # None
        /\ heap[req[r].ref] \in KeyStates(Reqs)
    BY LockingTypes DEF UsageInv, CapInv
  <1>2. req[r].now = clock
    BY <1>1 DEF UsageInv, Prompt
  <1>3. \A j \in Layers : states[j] = req[r].ref => j = req[r].layer
    BY <1>1 DEF UsageInv, CapInv, BucketsBelong
  <1>4. heap \in [Buckets -> KeyStates(Reqs)] /\ clock \in Times
    BY <1>1 DEF TypeOK
  <1>5. clock \in Nat
    BY <1>4
  <1>6. \A j \in Layers : states[j] # None => states[j] \in Buckets
    BY <1>1, BucketTypes
  <1> QED
    BY <1>1, <1>2, <1>3, <1>4, <1>5, <1>6 DEF UsageInv

\* acquire that admits.
LEMMA AdmitUsage ==
  ASSUME UsageInv, TypeOK', CapInv', NEW r \in Reqs, Admit(r)
  PROVE  UsageInv'
  <1> DEFINE k == req[r].layer
             b == req[r].ref
  <1>0. req[r].pc = "acquire" /\ req[r].pc \in Locking
    BY DEF Admit, Locking
  <1>1. /\ TypeOK /\ req[r] \in ReqStates /\ k \in Layers
        /\ b \in Buckets /\ b # None /\ req[r].now = clock
        /\ heap[b] \in KeyStates(Reqs) /\ heap \in [Buckets -> KeyStates(Reqs)]
        /\ \A j \in Layers : states[j] = b => j = k
        /\ \A j \in Layers : states[j] # None => states[j] \in Buckets
        /\ \A j \in Layers : LayerInv(j)
    BY <1>0, AtTheLock
  <1>2. /\ clock' = clock /\ states' = states /\ used' = used /\ spent' = spent
        /\ Admits(heap[b], Limit[k], clock)
        /\ heap' = [heap EXCEPT ![b] = AfterAdmit(heap[b], Limit[k], clock, r)]
        /\ admitted' = IF states[k] = b
                         THEN [admitted EXCEPT ![k] = Logged(admitted[k], ReqLen, clock, 1)]
                         ELSE admitted
    BY <1>1 DEF Admit
  <1>3. /\ \A q \in Reqs \ {r} : req'[q] = req[q]
        /\ req'[r].ref = None
    <2> DEFINE p == IF k = NumLayers THEN "running" ELSE "reserve"
               l == IF k = NumLayers THEN 1 ELSE k + 1
               lt == IF states[k] = b THEN req[r].late ELSE req[r].late \cup {k}
    <2>1. req' = [req EXCEPT ![r] = Left(req[r], p, l, req[r].held \cup {k}, lt)]
      BY <1>1 DEF Admit, Left, ReqStates, TypeOK
    <2> HIDE DEF p, l, lt
    <2> QED
      BY <1>1, <2>1 DEF Left, TypeOK, ReqStates
  <1> HIDE DEF k, b
  <1>4. Prompt' /\ ArcsAreLive'
    BY <1>2, <1>3, ArcGone DEF UsageInv
  <1>5. /\ heap'[b] = AfterAdmit(heap[b], Limit[k], clock, r)
        /\ \A c \in Buckets \ {b} : heap'[c] = heap[c]
    BY <1>1, <1>2
  <1>6. ASSUME NEW j \in Layers
        PROVE  LayerInv(j)'
    <2>1. CASE states[j] = b
      <3>1. j = k /\ states[k] = b
        BY <1>1, <2>1
      <3>2. admitted'[k] = Logged(admitted[k], ReqLen, clock, 1)
        BY <1>1, <1>2, <3>1 DEF TypeOK
      <3> QED
        BY <1>1, <1>2, <1>5, <3>1, <3>2, LayerAdmitted
    <2>2. CASE states[j] # b
      <3>1. admitted'[j] = admitted[j]
        BY <1>1, <1>2, <2>2 DEF TypeOK
      <3>2. states[j] # None => heap'[states[j]] = heap[states[j]]
        BY <1>1, <1>5, <2>2
      <3> QED
        BY <1>1, <1>2, <3>1, <3>2, LayerSame
    <2> QED
      BY <2>1, <2>2
  <1> QED
    BY <1>4, <1>6 DEF UsageInv

\* A step of request r at its lock that keeps its bucket and adds nothing to a
\* history.
LEMMA LockedUsage ==
  ASSUME UsageInv, TypeOK', CapInv', NEW r \in Reqs, req[r].pc \in Locking,
         NEW t, heap' = [heap EXCEPT ![req[r].ref] = t],
         Keeps(heap[req[r].ref], t, Limit[req[r].layer], clock),
         \A q \in Reqs \ {r} : req'[q] = req[q], req'[r].ref = None,
         UNCHANGED <<clock, states, admitted, used, spent>>
  PROVE  UsageInv'
  <1> DEFINE k == req[r].layer
             b == req[r].ref
  <1>1. /\ TypeOK /\ k \in Layers /\ b \in Buckets /\ heap \in [Buckets -> KeyStates(Reqs)]
        /\ \A j \in Layers : states[j] = b => j = k
        /\ \A j \in Layers : states[j] # None => states[j] \in Buckets
        /\ \A j \in Layers : LayerInv(j)
    BY AtTheLock
  <1>2. /\ Keeps(heap[b], heap'[b], Limit[k], clock)
        /\ \A c \in Buckets \ {b} : heap'[c] = heap[c]
    BY <1>1
  <1> HIDE DEF k, b
  <1>3. Prompt' /\ ArcsAreLive'
    BY ArcGone DEF UsageInv
  <1>4. ASSUME NEW j \in Layers
        PROVE  LayerInv(j)'
    <2>1. CASE states[j] = b
      <3>1. BucketKept(j)
        BY <1>1, <1>2, <2>1 DEF BucketKept
      <3> QED
        BY <1>1, <3>1, LayerKept
    <2>2. CASE states[j] # b
      <3>1. states[j] # None => heap'[states[j]] = heap[states[j]]
        BY <1>1, <1>2, <2>2
      <3> QED
        BY <1>1, <3>1, LayerSame
    <2> QED
      BY <2>1, <2>2
  <1> QED
    BY <1>3, <1>4 DEF UsageInv

\* acquire that refuses.
LEMMA RejectUsage ==
  ASSUME UsageInv, TypeOK', CapInv', NEW r \in Reqs, Reject(r)
  PROVE  UsageInv'
  <1> DEFINE k == req[r].layer
             b == req[r].ref
             t == AfterReject(heap[b], Limit[k], clock)
  <1>0. req[r].pc = "acquire" /\ req[r].pc \in Locking
    BY DEF Reject, Locking
  <1>1. /\ TypeOK /\ req[r] \in ReqStates /\ k \in Layers /\ b \in Buckets
        /\ req[r].now = clock /\ heap[b] \in KeyStates(Reqs) /\ clock \in Nat
    BY <1>0, AtTheLock
  <1>2. /\ heap' = [heap EXCEPT ![b] = t]
        /\ UNCHANGED <<clock, states, admitted, used, spent>>
    BY <1>1 DEF Reject
  <1>3. Keeps(heap[b], t, Limit[k], clock)
    BY <1>1, RejectKeeps
  <1>4. /\ \A q \in Reqs \ {r} : req'[q] = req[q]
        /\ req'[r].ref = None
    BY <1>1 DEF Reject, TypeOK, ReqStates
  <1> HIDE DEF t
  <1> QED
    BY <1>0, <1>2, <1>3, <1>4, LockedUsage

\* A step of request r at its lock that posts an amount to its bucket.
LEMMA PostedUsage ==
  ASSUME UsageInv, TypeOK', CapInv', NEW r \in Reqs,
         req[r].pc \in {"commitLock", "postLock"}, NEW amount \in Nat,
         NEW t, heap' = [heap EXCEPT ![req[r].ref] = t],
         Posts(heap[req[r].ref], t, Limit[req[r].layer], clock, amount),
         Post(r, req[r].layer, req[r].ref, clock, amount),
         \A q \in Reqs \ {r} : req'[q] = req[q], req'[r].ref = None,
         UNCHANGED <<clock, states, admitted>>
  PROVE  UsageInv'
  <1> DEFINE k == req[r].layer
             b == req[r].ref
  <1>0. req[r].pc \in Locking
    BY DEF Locking
  <1>1. /\ TypeOK /\ k \in Layers /\ b \in Buckets /\ b # None
        /\ heap \in [Buckets -> KeyStates(Reqs)]
        /\ \A j \in Layers : states[j] = b => j = k
        /\ \A j \in Layers : states[j] # None => states[j] \in Buckets
        /\ \A j \in Layers : LayerInv(j)
    BY <1>0, AtTheLock
  <1>2. heap'[b] = t /\ \A c \in Buckets \ {b} : heap'[c] = heap[c]
    BY <1>1
  <1>3. /\ used' = IF states[k] = b
                     THEN [used EXCEPT ![k] = Logged(used[k], TokLen, clock, amount)]
                     ELSE used
        /\ spent' = IF k \in req[r].held \ req[r].late
                      THEN [spent EXCEPT ![k] = spent[k] + amount] ELSE spent
    BY DEF Post
  <1>4. k \in req[r].held \ req[r].late => states[k] = b /\ r \in heap[b].inFlight
    <2> SUFFICES ASSUME k \in req[r].held \ req[r].late
                 PROVE  states[k] = b /\ r \in heap[b].inFlight
      OBVIOUS
    <2>1. states[k] = b
      BY DEF UsageInv, ArcsAreLive
    <2>2. r \in heap[states[k]].inFlight
      BY DEF UsageInv, CapInv, PermitsAreMembers
    <2> QED
      BY <2>1, <2>2
  <1>5. used \in [Layers -> [TokDims -> [Times -> Nat]]] /\ spent \in [Layers -> Nat]
    BY <1>1 DEF TypeOK
  <1>6. Posts(heap[b], t, Limit[k], clock, amount)
    OBVIOUS
  <1> HIDE DEF k, b
  <1>7. Prompt' /\ ArcsAreLive'
    BY ArcGone DEF UsageInv
  <1>8. ASSUME NEW j \in Layers
        PROVE  LayerInv(j)'
    <2>1. CASE states[j] = b
      <3>1. j = k /\ states[k] = b
        BY <1>1, <2>1
      <3>2. used'[k] = Logged(used[k], TokLen, clock, amount)
        BY <1>1, <1>3, <1>5, <3>1
      <3>3. \/ spent'[k] = spent[k]
            \/ spent'[k] = spent[k] + amount /\ heap[states[k]].inFlight # {}
        BY <1>1, <1>3, <1>4, <1>5
      <3>4. /\ states[k] # None /\ states'[k] = states[k]
            /\ Posts(heap[states[k]], heap'[states[k]], Limit[k], clock, amount)
            /\ admitted'[k] = admitted[k] /\ clock' = clock /\ LayerInv(k)
        BY <1>1, <1>2, <1>6, <3>1
      <3> QED
        BY <1>1, <3>1, <3>2, <3>3, <3>4, LayerPosted
    <2>2. CASE states[j] # b
      <3>1. used'[j] = used[j] /\ spent'[j] = spent[j]
        BY <1>1, <1>3, <1>4, <1>5, <2>2
      <3>2. states[j] # None => heap'[states[j]] = heap[states[j]]
        BY <1>1, <1>2, <2>2
      <3> QED
        BY <1>1, <3>1, <3>2, LayerSame
    <2> QED
      BY <2>1, <2>2
  <1> QED
    BY <1>7, <1>8 DEF UsageInv

\* commit of one layer.
LEMMA CommitLayerUsage ==
  ASSUME UsageInv, TypeOK', CapInv', NEW r \in Reqs, CommitLayer(r)
  PROVE  UsageInv'
  <1> DEFINE k == req[r].layer
             b == req[r].ref
             amount == AmountFor(k, req[r].bill)
             s == heap[b]
             t == AfterCommit(s, clock, amount, r)
             p == IF k = NumLayers THEN "done" ELSE "commit"
             l == IF k = NumLayers THEN k ELSE k + 1
  <1>0. req[r].pc = "commitLock" /\ req[r].pc \in Locking
    BY DEF CommitLayer, Locking
  <1>1. /\ TypeOK /\ req[r] \in ReqStates /\ k \in Layers /\ b \in Buckets
        /\ req[r].now = clock /\ s \in KeyStates(Reqs) /\ clock \in Nat
    BY <1>0, AtTheLock
  <1>2. amount \in Nat
    BY <1>0, <1>1, LockingTypes, AmountType DEF Billing
  <1>3. /\ heap' = [heap EXCEPT ![b] = t]
        /\ Post(r, k, b, clock, amount)
        /\ UNCHANGED <<clock, states, admitted>>
    BY <1>1 DEF CommitLayer
  <1>4. /\ \A q \in Reqs \ {r} : req'[q] = req[q]
        /\ req'[r].ref = None
    <2>1. req' = [req EXCEPT ![r].pc = p, ![r].layer = l, ![r].ref = None,
                             ![r].held = @ \ {k}]
      BY DEF CommitLayer
    <2> HIDE DEF p, l
    <2> QED
      BY <1>1, <2>1 DEF TypeOK, ReqStates
  <1> HIDE DEF k, b, amount
  <1>5. Posts(s, t, Limit[k], clock, amount)
    BY <1>1, <1>2, CommitKeeps
  <1> HIDE DEF t
  <1> QED
    BY <1>0, <1>2, <1>3, <1>4, <1>5, PostedUsage DEF k, b

\* add_tokens of one layer.
LEMMA PostTokensUsage ==
  ASSUME UsageInv, TypeOK', CapInv', NEW r \in Reqs, PostTokens(r)
  PROVE  UsageInv'
  <1> DEFINE k == req[r].layer
             b == req[r].ref
             amount == AmountFor(k, req[r].bill)
             s == heap[b]
             t == AfterAddTokens(s, clock, amount)
  <1>0. req[r].pc = "postLock" /\ req[r].pc \in Locking /\ req' = NextPost(r)
    BY DEF PostTokens, Locking
  <1>1. /\ TypeOK /\ k \in Layers /\ b \in Buckets
        /\ req[r].now = clock /\ s \in KeyStates(Reqs) /\ clock \in Nat
    BY <1>0, AtTheLock
  <1>2. amount \in Nat
    BY <1>0, <1>1, LockingTypes, AmountType DEF Billing
  <1>3. /\ heap' = [heap EXCEPT ![b] = t]
        /\ Post(r, k, b, clock, amount)
        /\ UNCHANGED <<clock, states, admitted>>
    BY <1>1 DEF PostTokens
  <1>4. /\ \A q \in Reqs \ {r} : req'[q] = req[q]
        /\ req'[r].ref = None
    BY <1>0, <1>1, NextPostPermits
  <1> HIDE DEF k, b, amount
  <1>5. Posts(s, t, Limit[k], clock, amount)
    BY <1>1, <1>2, AddTokensKeeps
  <1> HIDE DEF t
  <1> QED
    BY <1>0, <1>2, <1>3, <1>4, <1>5, PostedUsage DEF k, b

\* Drop of one reservation or stream hold.
LEMMA DropOneUsage ==
  ASSUME UsageInv, TypeOK', CapInv', NEW r \in Reqs, DropOne(r)
  PROVE  UsageInv'
  <1> PICK k \in req[r].held :
        /\ heap' = IF states[k] = None THEN heap
                   ELSE [heap EXCEPT ![states[k]] = AfterRelease(@, clock, r)]
        /\ req' = [req EXCEPT ![r].held = @ \ {k}]
    BY DEF DropOne
  <1>0. /\ req[r].pc = "drop" /\ TypeOK /\ UNCHANGED <<clock, states, admitted, used, spent>>
        /\ k \in Layers /\ req[r] \in ReqStates /\ req[r].ref = None
    BY DEF DropOne, UsageInv, CapInv, TypeOK, ReqStates, Locking
  <1>1. /\ \A q \in Reqs \ {r} : req'[q] = req[q]
        /\ req'[r].ref = None
    BY <1>0 DEF TypeOK, ReqStates
  <1>2. Prompt' /\ ArcsAreLive'
    BY <1>0, <1>1, ArcGone DEF UsageInv
  <1>3. /\ \A j \in Layers : states[j] # None => states[j] \in Buckets
        /\ heap \in [Buckets -> KeyStates(Reqs)] /\ clock \in Nat
        /\ \A j \in Layers : LayerInv(j)
        /\ \A j \in Layers : states[j] # None /\ states[j] = states[k] => j = k
    BY <1>0 DEF UsageInv, CapInv, TypeOK, BucketsBelong
  <1>4. ASSUME NEW j \in Layers
        PROVE  LayerInv(j)'
    <2>1. CASE states[k] # None /\ j = k
      <3> DEFINE b == states[k]
                 t == AfterRelease(heap[b], clock, r)
      <3>1. b \in Buckets /\ heap[b] \in KeyStates(Reqs)
        BY <1>0, <1>3, <2>1
      <3>2. Keeps(heap[b], t, Limit[k], clock)
        BY <1>3, <3>1, ReleaseKeeps
      <3>3. heap'[b] = t
        BY <1>3, <2>1, <3>1
      <3>4. BucketKept(k)
        BY <1>0, <3>2, <3>3 DEF BucketKept
      <3> HIDE DEF b, t
      <3> QED
        BY <1>0, <1>3, <2>1, <3>4, LayerKept
    <2>2. CASE ~(states[k] # None /\ j = k)
      <3>1. states[j] # None => heap'[states[j]] = heap[states[j]]
        BY <1>0, <1>3, <2>2
      <3> QED
        BY <1>0, <1>3, <3>1, LayerSame
    <2> QED
      BY <2>1, <2>2
  <1> QED
    BY <1>2, <1>4 DEF UsageInv

\* reap of one entry of the map.
LEMMA ReapUsage ==
  ASSUME UsageInv, TypeOK', CapInv', NEW k \in Layers, Reap(k)
  PROVE  UsageInv'
  <1>0. /\ TypeOK /\ UNCHANGED <<clock, heap, req, admitted, used, spent>>
        /\ states[k] # None /\ ~SurvivesReap(heap[states[k]], clock)
        /\ states'[k] = None /\ \A j \in Layers \ {k} : states'[j] = states[j]
        /\ \A j \in Layers : LayerInv(j)
    BY DEF Reap, UsageInv, CapInv, TypeOK
  <1>1. Prompt'
    BY <1>0 DEF UsageInv, Prompt
  <1>2. ArcsAreLive'
    <2> SUFFICES ASSUME NEW r \in Reqs, req[r].pc \in {"commitLock", "postLock"},
                        req[r].layer \in req[r].held \ req[r].late
                 PROVE  states'[req[r].layer] = req[r].ref
      BY <1>0 DEF ArcsAreLive
    <2>1. states[req[r].layer] = req[r].ref /\ req[r].layer \in Layers
      BY <1>0, LockingTypes DEF UsageInv, ArcsAreLive
    <2>2. r \in heap[states[req[r].layer]].inFlight
      BY DEF UsageInv, CapInv, PermitsAreMembers
    <2>3. heap[states[k]].inFlight = {}
      BY <1>0 DEF SurvivesReap
    <2> QED
      BY <1>0, <2>1, <2>2, <2>3
  <1>3. ASSUME NEW j \in Layers
        PROVE  LayerInv(j)'
    <2>1. CASE j = k
      BY <1>0, <2>1, LayerReaped
    <2>2. CASE j # k
      BY <1>0, <2>2, LayerSame
    <2> QED
      BY <2>1, <2>2
  <1> QED
    BY <1>1, <1>2, <1>3 DEF UsageInv

\* peek rolls windows of another time only.
LEMMA PeekUsage ==
  ASSUME UsageInv, TypeOK', CapInv', NEW k \in Layers, Peek(k)
  PROVE  UsageInv'
  <1> DEFINE b == states[k]
             s == heap[b]
             rq == [i \in ReqDims |-> IF i = 2 THEN RollIfStale(s.req[i], clock, ReqLen[i])
                                      ELSE s.req[i]]
             tk == [i \in TokDims |-> IF i = 1 THEN RollIfStale(s.tok[i], clock, TokLen[i])
                                      ELSE s.tok[i]]
             u == Updated(s, rq, tk, s.carriesAllowance, s.consumed, s.inFlight, s.lastTouched)
  <1>1. /\ b \in Buckets /\ s \in KeyStates(Reqs) /\ clock \in Nat /\ TypeOK
        /\ UNCHANGED <<clock, states, req, admitted, used, spent>>
        /\ heap \in [Buckets -> KeyStates(Reqs)]
    <2>1. states[k] # None /\ UNCHANGED <<clock, states, req, admitted, used, spent>>
      BY Zenon DEF Peek
    <2>2. TypeOK
      BY DEF UsageInv, CapInv
    <2>3. b \in Buckets /\ s \in KeyStates(Reqs) /\ clock \in Nat
      BY <2>1, <2>2, BucketTypes
    <2>4. heap \in [Buckets -> KeyStates(Reqs)]
      BY <2>2 DEF TypeOK
    <2> HIDE DEF s, b
    <2> QED
      BY <2>1, <2>2, <2>3, <2>4
  <1>2. ASSUME NEW i \in ReqDims
        PROVE  WindowKept(s.req[i], rq[i], BucketStart(clock, ReqLen[i]))
    <2>1. s.req[i] \in Counters /\ ReqLen[i] \in Nat \ {0} /\ 0 \in Nat
      BY <1>1, CountersOf, ReqLenType
    <2> HIDE DEF s
    <2>2. /\ WindowKept(s.req[i], s.req[i], BucketStart(clock, ReqLen[i]))
          /\ WindowKept(s.req[i], RollIfStale(s.req[i], clock, ReqLen[i]),
                        BucketStart(clock, ReqLen[i]))
      BY <1>1, <2>1, WindowKeepers
    <2> QED
      BY <2>2
  <1>3. ASSUME NEW i \in TokDims
        PROVE  WindowKept(s.tok[i], tk[i], BucketStart(clock, TokLen[i]))
    <2>1. s.tok[i] \in Counters /\ TokLen[i] \in Nat \ {0} /\ 0 \in Nat
      BY <1>1, CountersOf, TokLenType
    <2> HIDE DEF s
    <2>2. /\ WindowKept(s.tok[i], s.tok[i], BucketStart(clock, TokLen[i]))
          /\ WindowKept(s.tok[i], RollIfStale(s.tok[i], clock, TokLen[i]),
                        BucketStart(clock, TokLen[i]))
      BY <1>1, <2>1, WindowKeepers
    <2> QED
      BY <2>2
  <1>4. heap' = [heap EXCEPT ![b] = u]
    BY <1>1 DEF Peek, TypeOK, KeyStates, Updated
  <1>5. s.consumed <= s.consumed
    BY <1>1, CountersOf
  <1> HIDE DEF rq, tk
  <1>6. Keeps(s, u, Limit[k], clock)
    BY <1>1, <1>2, <1>3, <1>5, UpdatedKeeps
  <1> HIDE DEF u
  <1>7. heap'[b] = u /\ \A c \in Buckets \ {b} : heap'[c] = heap[c]
    BY <1>1, <1>4
  <1>8. Prompt' /\ ArcsAreLive'
    BY <1>1 DEF UsageInv, Prompt, ArcsAreLive
  <1>9. ASSUME NEW j \in Layers
        PROVE  LayerInv(j)'
    <2>0. LayerInv(j)
      BY DEF UsageInv
    <2>1. CASE j = k
      <3>1. BucketKept(k)
        BY <1>1, <1>6, <1>7 DEF BucketKept
      <3> QED
        BY <1>1, <2>0, <2>1, <3>1, LayerKept
    <2>2. CASE j # k
      <3>1. states[j] # None => states[j] \in Buckets /\ states[j] # b
        BY <1>1, <2>2 DEF UsageInv, CapInv, BucketsBelong, TypeOK
      <3>2. states[j] # None => heap'[states[j]] = heap[states[j]]
        BY <1>7, <3>1
      <3> QED
        BY <1>1, <2>0, <3>2, LayerSame
    <2> QED
      BY <2>1, <2>2
  <1> QED
    BY <1>8, <1>9 DEF UsageInv

\* The steps of a request that touch nothing but its own program counter,
\* layer and bill.
LEMMA LocalStepUsage ==
  ASSUME UsageInv, TypeOK', CapInv', NEW r \in Reqs,
         \/ Abandon(r) \/ BeginCommit(r) \/ IntoStreamHold(r)
         \/ EndStream(r) \/ SkipPost(r) \/ Dropped(r)
  PROVE  UsageInv'
  <1>0. TypeOK /\ req[r] \in ReqStates
    BY DEF UsageInv, CapInv, TypeOK
  <1>1. UNCHANGED <<clock, states, heap, admitted, used, spent>>
    BY Zenon DEF Abandon, BeginCommit, IntoStreamHold, EndStream, SkipPost, Dropped
  <1>2. /\ \A q \in Reqs \ {r} : req'[q] = req[q]
        /\ req'[r].ref = None
    <2>1. CASE SkipPost(r)
      BY <1>0, <2>1, NextPostPermits DEF SkipPost
    <2>2. CASE Abandon(r) \/ IntoStreamHold(r) \/ Dropped(r)
      <3>1. PICK p : req' = [req EXCEPT ![r].pc = p]
        BY <2>2 DEF Abandon, IntoStreamHold, Dropped
      <3>2. req[r].ref = None
        BY <1>0, <2>2 DEF Abandon, IntoStreamHold, Dropped, TypeOK, Locking
      <3> QED
        BY <1>0, <3>1, <3>2 DEF TypeOK, ReqStates
    <2>3. CASE BeginCommit(r) \/ EndStream(r)
      <3>1. PICK p, bill : req' = [req EXCEPT ![r].pc = p, ![r].layer = 1, ![r].bill = bill]
        BY <2>3 DEF BeginCommit, EndStream
      <3>2. req[r].ref = None
        BY <1>0, <2>3 DEF BeginCommit, EndStream, TypeOK, Locking
      <3> QED
        BY <1>0, <3>1, <3>2 DEF TypeOK, ReqStates
    <2> QED
      BY <2>1, <2>2, <2>3
  <1>3. Prompt' /\ ArcsAreLive'
    BY <1>1, <1>2, ArcGone DEF UsageInv
  <1>4. \A j \in Layers : LayerInv(j)'
    BY <1>0, <1>1, LayerSame DEF UsageInv
  <1> QED
    BY <1>3, <1>4 DEF UsageInv

\* The clock ticks while no thread is between its clock read and its lock.
LEMMA TickUsage ==
  ASSUME UsageInv, TypeOK', CapInv', PromptLock, Tick
  PROVE  UsageInv'
  <1>0. /\ TypeOK /\ clock' = clock + 1 /\ clock' \in Times
        /\ UNCHANGED <<states, heap, req, admitted, used, spent>>
        /\ \A r \in Reqs : req[r].ref = None
    BY DEF UsageInv, CapInv, Tick, TypeOK
  <1>1. Prompt' /\ ArcsAreLive'
    BY <1>0 DEF UsageInv, Prompt, ArcsAreLive
  <1>2. \A j \in Layers : LayerInv(j)'
    BY <1>0, LayerTicked DEF UsageInv
  <1> QED
    BY <1>1, <1>2 DEF UsageInv

\* Every step keeps the invariant.
LEMMA UsageStep ==
  ASSUME PromptLock, UsageInv, [Next]_vars
  PROVE  UsageInv'
  <1>0. TypeOK /\ TypeOK' /\ CapInv'
    BY TypeStep, CapStep DEF UsageInv, CapInv
  <1>1. ASSUME NEW r \in Reqs, Step(r)
        PROVE  UsageInv'
    <2>1. CASE BeginAcquire(r)
      BY <1>0, <2>1, LookupUsage DEF BeginAcquire, Locking
    <2>2. CASE LookupCommit(r)
      BY <1>0, <2>2, LookupUsage DEF LookupCommit, Locking
    <2>3. CASE LookupPost(r)
      BY <1>0, <2>3, LookupUsage DEF LookupPost, Locking
    <2>4. CASE Admit(r)
      BY <1>0, <2>4, AdmitUsage
    <2>5. CASE CommitLayer(r)
      BY <1>0, <2>5, CommitLayerUsage
    <2>6. CASE DropOne(r)
      BY <1>0, <2>6, DropOneUsage
    <2>7. CASE Reject(r)
      BY <1>0, <2>7, RejectUsage
    <2>8. CASE PostTokens(r)
      BY <1>0, <2>8, PostTokensUsage
    <2>9. CASE \/ Abandon(r) \/ BeginCommit(r) \/ IntoStreamHold(r)
               \/ EndStream(r) \/ SkipPost(r) \/ Dropped(r)
      BY <1>0, <2>9, LocalStepUsage
    <2> QED
      BY <1>1, <2>1, <2>2, <2>3, <2>4, <2>5, <2>6, <2>7, <2>8, <2>9 DEF Step
  <1>2. ASSUME NEW k \in Layers, Reap(k)
        PROVE  UsageInv'
    BY <1>0, <1>2, ReapUsage
  <1>3. ASSUME NEW k \in Layers, Peek(k)
        PROVE  UsageInv'
    BY <1>0, <1>3, PeekUsage
  <1>4. CASE Tick
    BY <1>0, <1>4, TickUsage
  <1>5. CASE UNCHANGED vars
    <2>1. UNCHANGED <<clock, states, heap, req, admitted, used, spent>>
      BY <1>5 DEF vars
    <2>2. Prompt' /\ ArcsAreLive'
      BY <2>1 DEF UsageInv, Prompt, ArcsAreLive
    <2>3. \A j \in Layers : LayerInv(j)'
      BY <1>0, <2>1, LayerSame DEF UsageInv
    <2> QED
      BY <1>0, <2>2, <2>3 DEF UsageInv
  <1> QED
    BY <1>1, <1>2, <1>3, <1>4, <1>5 DEF Next

(* No window admits more than its limit: for any windows, limits, layers   *)
(* and requests, and any interleaving of lookups, locks, refusals, peeks,  *)
(* ticks and the reaper, the buckets of the map that a layer had one after *)
(* another admit together at most the limit in each window of each request *)
(* dimension.                                                              *)
THEOREM RequestLimit ==
  ASSUME PromptLock
  PROVE  Spec => []WindowCap
  <1>1. Init => UsageInv
    BY UsageInit
  <1>2. UsageInv /\ [Next]_vars => UsageInv'
    BY UsageStep
  <1>3. UsageInv => WindowCap
    BY DEF UsageInv, LayerInv, Capped, WindowCap
  <1> QED
    BY <1>1, <1>2, <1>3, PTL DEF Spec

\* A step of another request, or of none, leaves request r as it is.
LEMMA OthersStep ==
  ASSUME TypeOK, NEW q \in Reqs, Step(q), NEW r \in Reqs, q # r
  PROVE  req'[r] = req[r]
  <1>0. req \in [Reqs -> ReqStates]
    BY DEF TypeOK
  <1>1. CASE BeginAcquire(q) \/ LookupCommit(q) \/ LookupPost(q)
    <2>1. PICK p, b : req' = [req EXCEPT ![q].pc = p, ![q].ref = b, ![q].now = clock]
      BY <1>1, Zenon DEF BeginAcquire, LookupCommit, LookupPost, Lookup
    <2> QED
      BY <1>0, <2>1
  <1>2. CASE Admit(q)
    <2>1. PICK p, l, hd, lt :
            req' = [req EXCEPT ![q].pc = p, ![q].layer = l, ![q].ref = None,
                               ![q].held = hd, ![q].late = lt]
      BY <1>2, Zenon DEF Admit
    <2> QED
      BY <1>0, <2>1
  <1>3. CASE CommitLayer(q)
    <2>1. PICK p, l, hd :
            req' = [req EXCEPT ![q].pc = p, ![q].layer = l, ![q].ref = None, ![q].held = hd]
      BY <1>3, Zenon DEF CommitLayer
    <2> QED
      BY <1>0, <2>1
  <1>4. CASE Reject(q)
    BY <1>0, <1>4 DEF Reject
  <1>5. CASE SkipPost(q) \/ PostTokens(q)
    BY <1>5, NextPostPermits DEF SkipPost, PostTokens
  <1>6. CASE DropOne(q)
    BY <1>0, <1>6 DEF DropOne
  <1>7. CASE Abandon(q) \/ IntoStreamHold(q) \/ Dropped(q)
    BY <1>0, <1>7 DEF Abandon, IntoStreamHold, Dropped
  <1>8. CASE BeginCommit(q) \/ EndStream(q)
    BY <1>0, <1>8 DEF BeginCommit, EndStream
  <1> QED
    BY <1>1, <1>2, <1>3, <1>4, <1>5, <1>6, <1>7, <1>8 DEF Step

\* A request leaves its acquire admitted, for the next layer or the call, or
\* refused, for its drop.
LEMMA FromAcquire ==
  ASSUME TypeOK, Next, NEW r \in Reqs, req[r].pc = "acquire", req'[r].pc # "acquire"
  PROVE  \/ Admit(r) /\ req'[r].pc # "drop"
         \/ Reject(r) /\ req'[r].pc = "drop"
  <1>1. ASSUME NEW q \in Reqs, Step(q)
        PROVE  Admit(r) \/ Reject(r)
    <2>1. q = r
      BY <1>1, OthersStep
    <2> QED
      BY <1>1, <2>1
         DEF Step, BeginAcquire, LookupCommit, LookupPost, Lookup, Abandon, BeginCommit,
             CommitLayer, IntoStreamHold, EndStream, SkipPost, PostTokens, DropOne, Dropped
  <1>2. CASE Tick \/ \E k \in Layers : Reap(k) \/ Peek(k)
    <2>1. req' = req
      BY <1>2, Zenon DEF Tick, Reap, Peek
    <2> QED
      BY <2>1
  <1>3. req[r] \in ReqStates /\ req \in [Reqs -> ReqStates]
    BY DEF TypeOK
  <1>4. ASSUME Reject(r) PROVE req'[r].pc = "drop"
    BY <1>3, <1>4 DEF Reject, ReqStates
  <1>5. ASSUME Admit(r) PROVE req'[r].pc # "drop"
    <2> DEFINE p == IF req[r].layer = NumLayers THEN "running" ELSE "reserve"
    <2>1. PICK l, hd, lt :
            req' = [req EXCEPT ![r].pc = p, ![r].layer = l, ![r].ref = None,
                               ![r].held = hd, ![r].late = lt]
      BY <1>5, Zenon DEF Admit
    <2>2. p # "drop"
      OBVIOUS
    <2> HIDE DEF p
    <2> QED
      BY <1>3, <2>1, <2>2 DEF ReqStates
  <1> QED
    BY <1>1, <1>2, <1>4, <1>5 DEF Next

\* acquire admits into the map only below the token limits of the present
\* windows and below the allowance.
LEMMA AdmitBelowUsage ==
  ASSUME UsageInv, NEW r \in Reqs, Admit(r), states[req[r].layer] = req[r].ref
  PROVE  LET k == req[r].layer IN
         /\ Limit[k].granted # NoLimit => spent[k] < Limit[k].granted
         /\ \A i \in TokDims : Limit[k].tok[i] # NoLimit
              => used[k][i][BucketStart(clock, TokLen[i])] < Limit[k].tok[i]
  <1> DEFINE k == req[r].layer
             s == heap[states[k]]
  <1>0. req[r].pc = "acquire" /\ req[r].pc \in Locking
    BY DEF Admit, Locking
  <1>1. /\ TypeOK /\ k \in Layers /\ states[k] # None /\ LayerInv(k)
        /\ s \in KeyStates(Reqs) /\ req[r].now = clock /\ clock \in Nat
    BY <1>0, AtTheLock
  <1>2. Admits(s, Limit[k], clock)
    BY <1>1 DEF Admit
  <1>3. /\ Limit[k] \in RateLimits /\ spent[k] \in Nat /\ clock \in Times
        /\ \A i \in TokDims, w \in Times : used[k][i][w] \in Nat
    BY <1>1, BucketTypes
  <1>4. /\ Limit[k].granted # NoLimit => s.consumed < Limit[k].granted
        /\ \A i \in TokDims : Limit[k].tok[i] # NoLimit =>
             RollIfStale(s.tok[i], clock, TokLen[i]).count < Limit[k].tok[i]
    BY <1>1, <1>2, <1>3, AdmitsBelow
  <1>5. ASSUME Limit[k].granted # NoLimit
        PROVE  spent[k] < Limit[k].granted
    <2>1. spent[k] > 0 => spent[k] <= s.consumed
      BY <1>1, <1>5 DEF LayerInv, AllowanceKept
    <2>2. s.consumed \in Nat
      BY <1>1, CountersOf
    <2>3. Limit[k].granted \in Nat
      BY <1>3, <1>5 DEF RateLimits, OptLimit
    <2> HIDE DEF s, k
    <2> QED
      BY <1>3, <1>4, <1>5, <2>1, <2>2, <2>3
  <1>6. ASSUME NEW i \in TokDims, Limit[k].tok[i] # NoLimit
        PROVE  used[k][i][BucketStart(clock, TokLen[i])] < Limit[k].tok[i]
    <2> DEFINE w == BucketStart(clock, TokLen[i])
               n == used[k][i][w]
               c == s.tok[i]
               len == TokLen[i]
    <2>1. /\ len \in Nat \ {0} /\ c \in Counters /\ w \in Times
          /\ w = BucketStart(clock, len) /\ 0 \in Nat
      BY <1>1, <1>3, TokLenType, CountersOf, WindowIsTime
    <2>2. n \in Nat
      BY <1>3, <2>1
    <2>3. Shows(n, c, w, s.lastTouched)
      BY <1>1 DEF LayerInv, UsedShows
    <2>4. RollIfStale(c, clock, len).count < Limit[k].tok[i]
      BY <1>4, <1>6
    <2>5. Limit[k].tok[i] \in Nat
      BY <1>3, <1>6 DEF RateLimits, OptLimit
    <2> HIDE DEF w, n, c, len, s, k
    <2>6. /\ n <= RollIfStale(c, clock, len).count
          /\ RollIfStale(c, clock, len).count \in Nat
      BY <1>1, <2>1, <2>2, <2>3, ShowsMore
    <2>7. n < Limit[k].tok[i]
      BY <2>2, <2>4, <2>5, <2>6
    <2> QED
      BY <2>7 DEF n, w
  <1> QED
    BY <1>5, <1>6

(* Nothing is admitted past posted usage: for any limits and any amounts,  *)
(* although the reaper drops idle buckets, acquire admits into the map     *)
(* only while what was posted there in the present window is below each    *)
(* token limit and what was ever posted under the permits of the map is    *)
(* below the cumulative allowance.                                         *)
THEOREM UsageLimit ==
  ASSUME PromptLock
  PROVE  Spec => NoAdmitPastUsage
  <1>1. Init => UsageInv
    BY UsageInit
  <1>2. UsageInv /\ [Next]_vars => UsageInv'
    BY UsageStep
  <1> DEFINE A == \A r \in Reqs :
       LET k == req[r].layer IN
       /\ req[r].pc = "acquire" /\ req'[r].pc \in {"reserve", "running"}
       /\ states[k] = req[r].ref
       => /\ Limit[k].granted # NoLimit => spent[k] < Limit[k].granted
          /\ \A i \in TokDims :
               Limit[k].tok[i] # NoLimit
                 => used[k][i][BucketStart(clock, TokLen[i])] < Limit[k].tok[i]
  <1>3. UsageInv /\ [Next]_vars => [A]_vars
    <2> SUFFICES ASSUME UsageInv, Next PROVE A
      OBVIOUS
    <2>1. TypeOK
      BY DEF UsageInv, CapInv
    <2> QED
      BY <2>1, FromAcquire, AdmitBelowUsage
  <1> QED
    BY <1>1, <1>2, <1>3, PTL DEF Spec, NoAdmitPastUsage

\* The roll-back undoes exactly the increment it follows.
LEMMA RollBackIsFree ==
  ASSUME NEW c \in Counters, NEW now \in Nat, NEW len \in Nat \ {0}
  PROVE  /\ RollIfStale(RolledBack(c, now, len), now, len).count
              = RollIfStale(c, now, len).count
         /\ RollIfStale(RollIfStale(c, now, len), now, len).count
              = RollIfStale(c, now, len).count
  <1>1. BucketStart(now, len) \in Nat
    BY BucketStartType
  <1> QED
    BY <1>1 DEF RolledBack, Decrement, AddTo, RollIfStale, Counters

\* A refusal leaves every request window with the count it had.
LEMMA RejectCounts ==
  ASSUME NEW M, NEW s \in KeyStates(M), NEW lim, NEW now \in Nat, NEW i \in ReqDims
  PROVE  RollIfStale(AfterReject(s, lim, now).req[i], now, ReqLen[i]).count
           = RollIfStale(s.req[i], now, ReqLen[i]).count
  <1> DEFINE c == s.req[i]
             len == ReqLen[i]
             rq == RejectedRequests(s, lim, now, FirstOf(RefusingDims(s, lim, now)))
  <1>1. c \in Counters /\ len \in Nat \ {0}
    BY CountersOf, ReqLenType
  <1>2. rq[i] \in {c, RolledBack(c, now, len), RollIfStale(c, now, len)}
    BY DEF RejectedRequests
  <1> HIDE DEF rq
  <1>3. AfterReject(s, lim, now).req \in {s.req, rq}
    BY DEF AfterReject, KeyStates, rq
  <1> HIDE DEF c, len
  <1>4. /\ RollIfStale(RolledBack(c, now, len), now, len).count
             = RollIfStale(c, now, len).count
        /\ RollIfStale(RollIfStale(c, now, len), now, len).count
             = RollIfStale(c, now, len).count
    BY <1>1, RollBackIsFree
  <1>5. AfterReject(s, lim, now).req[i] \in {c, RolledBack(c, now, len), RollIfStale(c, now, len)}
    BY <1>2, <1>3 DEF c
  <1> QED
    BY <1>4, <1>5 DEF c, len

(* A refused request consumes nothing: for any limits, whichever dimension *)
(* refuses and whatever the tighter ones had counted before it, every      *)
(* request window of every bucket counts after the refusal what it counted *)
(* before.                                                                 *)
THEOREM RefusalIsFree ==
  ASSUME PromptLock
  PROVE  Spec => RejectIsFree
  <1>1. Init => UsageInv
    BY UsageInit
  <1>2. UsageInv /\ [Next]_vars => UsageInv'
    BY UsageStep
  <1> DEFINE A == \A r \in Reqs, b \in Buckets :
                    req[r].pc = "acquire" /\ req'[r].pc = "drop" =>
                      \A i \in ReqDims : Count(heap'[b], i) = Count(heap[b], i)
  <1>3. UsageInv /\ [Next]_vars => [A]_vars
    <2> SUFFICES ASSUME UsageInv, Next, NEW r \in Reqs, NEW b \in Buckets,
                        req[r].pc = "acquire", req'[r].pc = "drop", NEW i \in ReqDims
                 PROVE  Count(heap'[b], i) = Count(heap[b], i)
      OBVIOUS
    <2>1. TypeOK /\ req[r].pc \in Locking
      BY DEF UsageInv, CapInv, Locking
    <2>2. Reject(r)
      BY <2>1, FromAcquire
    <2> DEFINE a == req[r].ref
               t == AfterReject(heap[a], Limit[req[r].layer], clock)
    <2>3. /\ a \in Buckets /\ heap \in [Buckets -> KeyStates(Reqs)] /\ clock \in Nat
          /\ heap[a] \in KeyStates(Reqs) /\ req[r].now = clock
      BY <2>1, AtTheLock
    <2>4. heap' = [heap EXCEPT ![a] = t]
      BY <2>2, <2>3 DEF Reject
    <2>5. RollIfStale(t.req[i], clock, ReqLen[i]).count
            = RollIfStale(heap[a].req[i], clock, ReqLen[i]).count
      BY <2>3, RejectCounts
    <2> HIDE DEF t, a
    <2>6. CASE b = a
      <3>1. heap'[b] = t
        BY <2>3, <2>4, <2>6
      <3> QED
        BY <2>5, <2>6, <3>1 DEF Count
    <2>7. CASE b # a
      <3>1. heap'[b] = heap[b]
        BY <2>3, <2>4, <2>7
      <3> QED
        BY <3>1
    <2> QED
      BY <2>6, <2>7
  <1> QED
    BY <1>1, <1>2, <1>3, PTL DEF Spec, RejectIsFree
=============================================================================
