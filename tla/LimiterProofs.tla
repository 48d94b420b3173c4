--------------------------- MODULE LimiterProofs ---------------------------
(***************************************************************************)
(* Type correctness of Limiter and the concurrency limit, for any number   *)
(* of requests, layers, windows and buckets.                               *)
(***************************************************************************)
EXTENDS Limiter, FiniteSetTheorems, TLAPS

-----------------------------------------------------------------------------
(* The window operators keep counters counters.                            *)

\* BucketStart, the `(now / len) * len` of window.rs, is a natural number.
LEMMA BucketStartType ==
  ASSUME NEW now \in Nat, NEW len \in Nat \ {0}
  PROVE  BucketStart(now, len) \in Nat
  <1>1. now \div len \in Nat
    OBVIOUS
  <1>2. QED
    BY <1>1 DEF BucketStart

\* roll_if_stale, add and decrement of window.rs return counters.
LEMMA WindowTypes ==
  ASSUME NEW c \in Counters, NEW now \in Nat, NEW len \in Nat \ {0}, NEW d \in Nat
  PROVE  /\ RollIfStale(c, now, len) \in Counters
         /\ AddTo(c, now, len, d) \in Counters
         /\ Decrement(c, now, len, d) \in Counters
  <1>1. BucketStart(now, len) \in Nat
    BY BucketStartType
  <1>2. RollIfStale(c, now, len) \in Counters
    BY <1>1 DEF RollIfStale, Counters
  <1>3. AddTo(c, now, len, d) \in Counters
    BY <1>2 DEF AddTo, Counters
  <1>4. Decrement(c, now, len, d) \in Counters
    BY <1>1 DEF Decrement, Counters
  <1>5. QED
    BY <1>2, <1>3, <1>4

\* Window lengths are positive, so the division of BucketStart is defined.
LEMMA ReqLenType == ASSUME NEW i \in ReqDims PROVE ReqLen[i] \in Nat \ {0}
  BY WindowsAssumption DEF ReqDims

\* The same for the token windows.
LEMMA TokLenType == ASSUME NEW i \in TokDims PROVE TokLen[i] \in Nat \ {0}
  BY WindowsAssumption DEF TokDims

-----------------------------------------------------------------------------
(* What the store's operations do to one bucket.                           *)

\* KeyState::new is a well-typed bucket with nobody in flight.
LEMMA NewKeyStateType ==
  ASSUME NEW M, NEW now \in Nat
  PROVE  NewKeyState(now) \in KeyStates(M)
  BY DEF NewKeyState, KeyStates, NewCounter, Counters

\* A bucket with new windows, flag, spend, members and time.
Updated(s, rq, tk, ca, co, fl, t) ==
  [s EXCEPT !.carriesAllowance = ca, !.tok = tk, !.req = rq, !.consumed = co,
            !.inFlight = fl, !.lastTouched = t]

\* It is a bucket, with the members it was given.
LEMMA KeyStateUpdate ==
  ASSUME NEW M, NEW s \in KeyStates(M),
         NEW rq \in [ReqDims -> Counters], NEW tk \in [TokDims -> Counters],
         NEW ca \in BOOLEAN, NEW co \in Nat, NEW fl \in SUBSET M, NEW t \in Nat
  PROVE  /\ Updated(s, rq, tk, ca, co, fl, t) \in KeyStates(M)
         /\ Updated(s, rq, tk, ca, co, fl, t).inFlight = fl
  BY DEF KeyStates, Updated

\* A rejection's rolled-back windows are windows.
LEMMA RejectedRequestsType ==
  ASSUME NEW M, NEW s \in KeyStates(M), NEW lim, NEW now \in Nat, NEW j
  PROVE  RejectedRequests(s, lim, now, j) \in [ReqDims -> Counters]
  <1> SUFFICES ASSUME NEW i \in ReqDims
               PROVE  /\ s.req[i] \in Counters
                      /\ RolledBack(s.req[i], now, ReqLen[i]) \in Counters
                      /\ RollIfStale(s.req[i], now, ReqLen[i]) \in Counters
    BY DEF RejectedRequests
  <1>1. s.req[i] \in Counters
    BY DEF KeyStates
  <1>2. ReqLen[i] \in Nat \ {0}
    BY ReqLenType
  <1>3. AddTo(s.req[i], now, ReqLen[i], 1) \in Counters
    BY <1>1, <1>2, WindowTypes
  <1>4. RolledBack(s.req[i], now, ReqLen[i]) \in Counters
    BY <1>2, <1>3, WindowTypes DEF RolledBack
  <1>5. RollIfStale(s.req[i], now, ReqLen[i]) \in Counters
    BY <1>1, <1>2, WindowTypes
  <1>6. QED
    BY <1>1, <1>4, <1>5

\* The token windows an acquire read are windows.
LEMMA RolledTokensType ==
  ASSUME NEW M, NEW s \in KeyStates(M), NEW lim, NEW now \in Nat, NEW j
  PROVE  RolledTokens(s, lim, now, j) \in [TokDims -> Counters]
  <1> SUFFICES ASSUME NEW i \in TokDims
               PROVE  /\ s.tok[i] \in Counters
                      /\ RollIfStale(s.tok[i], now, TokLen[i]) \in Counters
    BY DEF RolledTokens
  <1>1. s.tok[i] \in Counters
    BY DEF KeyStates
  <1>2. TokLen[i] \in Nat \ {0}
    BY TokLenType
  <1>3. QED
    BY <1>1, <1>2, WindowTypes

\* acquire admitting m: well typed, and m is the one new member.
LEMMA AfterAdmitType ==
  ASSUME NEW M, NEW s \in KeyStates(M), NEW lim, NEW now \in Nat, NEW m \in M
  PROVE  /\ AfterAdmit(s, lim, now, m) \in KeyStates(M)
         /\ AfterAdmit(s, lim, now, m).inFlight = s.inFlight \cup {m}
  <1> DEFINE rq == [i \in ReqDims |->
                      IF lim.req[i] # NoLimit
                        THEN AddTo(s.req[i], now, ReqLen[i], 1) ELSE s.req[i]]
             tk == RolledTokens(s, lim, now, Len(TokLen))
             ca == lim.granted # NoLimit
  <1>0. ca \in BOOLEAN
    OBVIOUS
  <1>1. tk \in [TokDims -> Counters]
    BY RolledTokensType
  <1>2. ASSUME NEW i \in ReqDims
        PROVE  s.req[i] \in Counters /\ AddTo(s.req[i], now, ReqLen[i], 1) \in Counters
    <2>1. s.req[i] \in Counters
      BY DEF KeyStates
    <2>2. QED
      BY <2>1, ReqLenType, WindowTypes
  <1>3. rq \in [ReqDims -> Counters]
    BY <1>2
  <1>4. AfterAdmit(s, lim, now, m) =
          Updated(s, rq, tk, ca, s.consumed, s.inFlight \cup {m}, now)
    BY DEF AfterAdmit, Updated, KeyStates
  <1> HIDE DEF rq, tk, ca
  <1>5. s.inFlight \cup {m} \in SUBSET M /\ s.consumed \in Nat
    BY DEF KeyStates
  <1>6. QED
    BY <1>0, <1>1, <1>3, <1>4, <1>5, KeyStateUpdate

\* acquire refusing: well typed, and nobody enters or leaves.
LEMMA AfterRejectType ==
  ASSUME NEW M, NEW s \in KeyStates(M), NEW lim, NEW now \in Nat
  PROVE  /\ AfterReject(s, lim, now) \in KeyStates(M)
         /\ AfterReject(s, lim, now).inFlight = s.inFlight
  <1> DEFINE ca == lim.granted # NoLimit
             tkAll == RolledTokens(s, lim, now, Len(TokLen))
             tkOne == RolledTokens(s, lim, now, FirstOf(ExceededTokDims(s, lim, now)))
             rq == RejectedRequests(s, lim, now, FirstOf(RefusingDims(s, lim, now)))
             With(r, t) == Updated(s, r, t, ca, s.consumed, s.inFlight, s.lastTouched)
  <1>0. ca \in BOOLEAN
    OBVIOUS
  <1>1. tkAll \in [TokDims -> Counters] /\ tkOne \in [TokDims -> Counters]
    BY RolledTokensType
  <1>2. rq \in [ReqDims -> Counters]
    BY RejectedRequestsType
  <1>3. /\ s.req \in [ReqDims -> Counters] /\ s.tok \in [TokDims -> Counters]
        /\ s.consumed \in Nat /\ s.inFlight \in SUBSET M /\ s.lastTouched \in Nat
    BY DEF KeyStates
  <1>4. \/ AfterReject(s, lim, now) = s
        \/ AfterReject(s, lim, now) = With(s.req, s.tok)
        \/ AfterReject(s, lim, now) = With(s.req, tkOne)
        \/ AfterReject(s, lim, now) = With(rq, tkAll)
    BY DEF AfterReject, Updated, KeyStates
  <1> HIDE DEF ca, tkAll, tkOne, rq
  <1>5. ASSUME NEW r \in [ReqDims -> Counters], NEW t \in [TokDims -> Counters]
        PROVE  With(r, t) \in KeyStates(M) /\ With(r, t).inFlight = s.inFlight
    BY <1>0, <1>3, KeyStateUpdate
  <1> HIDE DEF With
  <1>6. QED
    BY <1>1, <1>2, <1>3, <1>4, <1>5

\* add_tokens: well typed, and nobody enters or leaves.
LEMMA AfterAddTokensType ==
  ASSUME NEW M, NEW s \in KeyStates(M), NEW now \in Nat, NEW amount \in Nat
  PROVE  /\ AfterAddTokens(s, now, amount) \in KeyStates(M)
         /\ AfterAddTokens(s, now, amount).inFlight = s.inFlight
  <1> DEFINE tk == [i \in TokDims |-> AddTo(s.tok[i], now, TokLen[i], amount)]
  <1>1. /\ s.req \in [ReqDims -> Counters] /\ s.tok \in [TokDims -> Counters]
        /\ s.consumed + amount \in Nat /\ s.inFlight \in SUBSET M
        /\ s.carriesAllowance \in BOOLEAN
    BY DEF KeyStates
  <1>2. ASSUME NEW i \in TokDims
        PROVE  AddTo(s.tok[i], now, TokLen[i], amount) \in Counters
    BY <1>1, TokLenType, WindowTypes
  <1>3. tk \in [TokDims -> Counters]
    BY <1>2
  <1>4. AfterAddTokens(s, now, amount) =
          Updated(s, s.req, tk, s.carriesAllowance, s.consumed + amount, s.inFlight, now)
    BY DEF AfterAddTokens, Updated, KeyStates
  <1> HIDE DEF tk
  <1>5. QED
    BY <1>1, <1>3, <1>4, KeyStateUpdate

\* release: well typed, and m is the only one who may leave.
LEMMA AfterReleaseType ==
  ASSUME NEW M, NEW s \in KeyStates(M), NEW now \in Nat, NEW m
  PROVE  /\ AfterRelease(s, now, m) \in KeyStates(M)
         /\ AfterRelease(s, now, m).inFlight = s.inFlight \ {m}
  BY DEF AfterRelease, KeyStates

\* commit: the same.
LEMMA AfterCommitType ==
  ASSUME NEW M, NEW s \in KeyStates(M), NEW now \in Nat, NEW amount \in Nat, NEW m
  PROVE  /\ AfterCommit(s, now, amount, m) \in KeyStates(M)
         /\ AfterCommit(s, now, amount, m).inFlight = s.inFlight \ {m}
  <1>1. /\ AfterAddTokens(s, now, amount) \in KeyStates(M)
        /\ AfterAddTokens(s, now, amount).inFlight = s.inFlight
    BY AfterAddTokensType
  <1>2. QED
    BY <1>1, AfterReleaseType DEF AfterCommit

-----------------------------------------------------------------------------
(* Type correctness.                                                       *)

USE LimiterAssumption DEF Layers, Times

\* The initial state is well typed.
LEMMA TypeInit == Init => TypeOK
  <1> SUFFICES ASSUME Init PROVE TypeOK
    OBVIOUS
  <1>1. heap \in [Buckets -> KeyStates(Reqs)]
    BY NewKeyStateType DEF Init
  <1>2. req \in [Reqs -> ReqStates]
    BY DEF Init, ReqStates, PCs
  <1>3. ASSUME NEW r \in Reqs
        PROVE  req[r].pc = "reserve" /\ req[r].ref = None
    BY DEF Init
  <1>4. /\ clock \in Times
        /\ states \in [Layers -> Buckets \cup {None}]
        /\ admitted \in [Layers -> [ReqDims -> [Times -> Nat]]]
        /\ used \in [Layers -> [TokDims -> [Times -> Nat]]]
        /\ spent \in [Layers -> Nat]
    BY DEF Init
  <1>5. QED
    BY <1>1, <1>2, <1>3, <1>4 DEF TypeOK, Locking, Billing

\* state_for keeps the map and the heap well typed and yields a bucket.
LEMMA StateForType ==
  ASSUME TypeOK, NEW k \in Layers, NEW b \in Buckets, StateFor(k, b)
  PROVE  /\ states' \in [Layers -> Buckets \cup {None}]
         /\ heap' \in [Buckets -> KeyStates(Reqs)]
  <1>1. NewKeyState(clock) \in KeyStates(Reqs)
    BY NewKeyStateType DEF TypeOK
  <1>2. CASE UNCHANGED <<states, heap>>
    BY <1>2 DEF TypeOK
  <1>3. CASE /\ states' = [states EXCEPT ![k] = b]
             /\ heap' = [heap EXCEPT ![b] = NewKeyState(clock)]
    BY <1>1, <1>3 DEF TypeOK
  <1>4. QED
    BY <1>2, <1>3 DEF StateFor

\* The lookup half of a store call is well typed.
LEMMA LookupType ==
  ASSUME TypeOK, NEW r \in Reqs, NEW from, NEW to \in Locking, Lookup(r, from, to),
         to \in Billing => from \in Billing
  PROVE  TypeOK'
  <1> PICK b \in Buckets :
        /\ StateFor(req[r].layer, b)
        /\ req' = [req EXCEPT ![r].pc = to, ![r].ref = b, ![r].now = clock]
    BY DEF Lookup
  <1>0. req[r].pc = from /\ UNCHANGED <<clock, admitted, used, spent>>
    BY DEF Lookup
  <1>1. req[r] \in ReqStates
    BY DEF TypeOK
  <1>2. req[r].layer \in Layers
    BY <1>1 DEF ReqStates
  <1>3. /\ states' \in [Layers -> Buckets \cup {None}]
        /\ heap' \in [Buckets -> KeyStates(Reqs)]
    BY <1>2, StateForType
  <1>4. req' \in [Reqs -> ReqStates]
    BY <1>1 DEF TypeOK, ReqStates, PCs, Locking
  <1>5. \A q \in Reqs : /\ req'[q].pc \in Locking <=> req'[q].ref # None
                        /\ req'[q].pc \in Billing => req'[q].bill # None
    BY <1>0, <1>1 DEF TypeOK, ReqStates, Locking, Billing
  <1>6. QED
    BY <1>0, <1>3, <1>4, <1>5 DEF TypeOK

\* What type correctness says of a request that is about to lock its bucket.
LEMMA LockingTypes ==
  ASSUME TypeOK, NEW r \in Reqs
  PROVE  /\ req[r] \in ReqStates
         /\ req[r].layer \in Layers
         /\ req[r].now \in Times /\ req[r].now \in Nat
         /\ req[r].pc \in Locking => req[r].ref \in Buckets /\ heap[req[r].ref] \in KeyStates(Reqs)
         /\ req[r].pc \in Billing => req[r].bill \in Bills
  <1>1. req[r] \in ReqStates
    BY DEF TypeOK
  <1>2. req[r].layer \in Layers /\ req[r].now \in Times /\ req[r].now \in Nat
    BY <1>1 DEF ReqStates
  <1>3. ASSUME req[r].pc \in Locking
        PROVE  req[r].ref \in Buckets
    BY <1>1, <1>3 DEF ReqStates, TypeOK
  <1>4. ASSUME req[r].pc \in Billing
        PROVE  req[r].bill \in Bills
    BY <1>1, <1>4 DEF ReqStates, TypeOK
  <1>5. QED
    BY <1>1, <1>2, <1>3, <1>4 DEF TypeOK

\* A layer is charged a natural number.
LEMMA AmountType ==
  ASSUME NEW k \in Layers, NEW bill \in Bills
  PROVE  AmountFor(k, bill) \in Nat
  BY DEF AmountFor

\* A layer's histories stay tables of naturals.
LEMMA LoggedType ==
  ASSUME NEW len, NEW h \in [DOMAIN len -> [Times -> Nat]], NEW now, NEW d \in Nat
  PROVE  Logged(h, len, now, d) \in [DOMAIN len -> [Times -> Nat]]
  <1>1. ASSUME NEW i \in DOMAIN len, NEW w \in Times
        PROVE  h[i][w] + (IF w = BucketStart(now, len[i]) THEN d ELSE 0) \in Nat
    OBVIOUS
  <1>2. QED
    BY <1>1 DEF Logged

\* The histories of what was posted stay well typed.
LEMMA PostType ==
  ASSUME TypeOK, NEW r, NEW k \in Layers, NEW b, NEW now, NEW amount \in Nat,
         Post(r, k, b, now, amount)
  PROVE  /\ used' \in [Layers -> [TokDims -> [Times -> Nat]]]
         /\ spent' \in [Layers -> Nat]
  <1> DEFINE v == Logged(used[k], TokLen, now, amount)
  <1>1. used' = used \/ used' = [used EXCEPT ![k] = v]
    BY DEF Post
  <1>2. used \in [Layers -> [TokDims -> [Times -> Nat]]] /\ spent \in [Layers -> Nat]
    BY DEF TypeOK
  <1>3. v \in [TokDims -> [Times -> Nat]]
    BY <1>2, LoggedType DEF TokDims
  <1> HIDE DEF v
  <1>4. used' \in [Layers -> [TokDims -> [Times -> Nat]]]
    BY <1>1, <1>2, <1>3
  <1>5. spent' \in [Layers -> Nat]
    BY <1>2 DEF Post
  <1>6. QED
    BY <1>4, <1>5

\* A request that leaves the lock, holding the layers hd, lt of them late.
Left(q, p, l, hd, lt) ==
  [q EXCEPT !.pc = p, !.layer = l, !.ref = None, !.held = hd, !.late = lt]

\* It is a request, with what it was given.
LEMMA LeftType ==
  ASSUME NEW q \in ReqStates, NEW p \in PCs, NEW l \in Layers,
         NEW hd \in SUBSET Layers, NEW lt \in SUBSET Layers
  PROVE  /\ Left(q, p, l, hd, lt) \in ReqStates
         /\ Left(q, p, l, hd, lt).pc = p
         /\ Left(q, p, l, hd, lt).ref = None
         /\ Left(q, p, l, hd, lt).bill = q.bill
  BY DEF ReqStates, Left

\* A request's new state types the table of requests.
LEMMA OneRequest ==
  ASSUME TypeOK, NEW r \in Reqs, NEW u \in ReqStates, req' = [req EXCEPT ![r] = u],
         u.pc \in Locking <=> u.ref # None, u.pc \in Billing => u.bill # None
  PROVE  /\ req' \in [Reqs -> ReqStates]
         /\ \A q \in Reqs : /\ req'[q].pc \in Locking <=> req'[q].ref # None
                            /\ req'[q].pc \in Billing => req'[q].bill # None
  BY DEF TypeOK

\* acquire that admits.
LEMMA AdmitType ==
  ASSUME TypeOK, NEW r \in Reqs, Admit(r)
  PROVE  TypeOK'
  <1> DEFINE k == req[r].layer
             b == req[r].ref
             p == IF k = NumLayers THEN "running" ELSE "reserve"
             l == IF k = NumLayers THEN 1 ELSE k + 1
             hd == req[r].held \cup {k}
             lt == IF states[k] = b THEN req[r].late ELSE req[r].late \cup {k}
             u == Left(req[r], p, l, hd, lt)
  <1>0. req[r].pc = "acquire"
    BY DEF Admit
  <1>1. /\ req[r] \in ReqStates /\ k \in Layers /\ b \in Buckets
        /\ req[r].now \in Times /\ req[r].now \in Nat /\ heap[b] \in KeyStates(Reqs)
    BY <1>0, LockingTypes DEF Locking
  <1>2. heap' \in [Buckets -> KeyStates(Reqs)]
    <2>1. AfterAdmit(heap[b], Limit[k], req[r].now, r) \in KeyStates(Reqs)
      BY <1>1, AfterAdmitType
    <2>2. heap' = [heap EXCEPT ![b] = AfterAdmit(heap[b], Limit[k], req[r].now, r)]
      BY DEF Admit
    <2>3. QED
      BY <1>1, <2>1, <2>2 DEF TypeOK
  <1>3. /\ req' \in [Reqs -> ReqStates]
        /\ \A q \in Reqs : /\ req'[q].pc \in Locking <=> req'[q].ref # None
                           /\ req'[q].pc \in Billing => req'[q].bill # None
    <2>1. /\ p \in PCs /\ p \notin Locking /\ p \notin Billing /\ l \in Layers
          /\ hd \in SUBSET Layers /\ lt \in SUBSET Layers
      BY <1>1 DEF PCs, Locking, Billing, ReqStates
    <2>2. req' = [req EXCEPT ![r] = u]
      BY <1>1 DEF Admit, Left, ReqStates, TypeOK
    <2> HIDE DEF p, l, hd, lt
    <2>3. u \in ReqStates /\ u.pc = p /\ u.ref = None
      BY <1>1, <2>1, LeftType
    <2> HIDE DEF u
    <2>4. QED
      BY <2>1, <2>2, <2>3, OneRequest
  <1>4. admitted' \in [Layers -> [ReqDims -> [Times -> Nat]]]
    <2> DEFINE v == Logged(admitted[k], ReqLen, req[r].now, 1)
    <2>1. admitted' = admitted \/ admitted' = [admitted EXCEPT ![k] = v]
      BY DEF Admit
    <2>2. admitted \in [Layers -> [ReqDims -> [Times -> Nat]]] /\ 1 \in Nat
      BY DEF TypeOK
    <2>3. v \in [ReqDims -> [Times -> Nat]]
      BY <1>1, <2>2, LoggedType DEF ReqDims
    <2> HIDE DEF v
    <2>4. QED
      BY <1>1, <2>1, <2>2, <2>3
  <1>5. QED
    BY <1>2, <1>3, <1>4 DEF Admit, TypeOK

\* A refusal writes a well-typed bucket and sends the request to its drop.
LEMMA RejectType ==
  ASSUME TypeOK, NEW r \in Reqs, Reject(r)
  PROVE  TypeOK'
  <1> DEFINE k == req[r].layer
             b == req[r].ref
  <1>0. req[r].pc = "acquire"
    BY DEF Reject
  <1>1. /\ req[r] \in ReqStates /\ k \in Layers /\ b \in Buckets
        /\ req[r].now \in Nat /\ heap[b] \in KeyStates(Reqs)
    BY <1>0, LockingTypes DEF Locking
  <1>2. heap' \in [Buckets -> KeyStates(Reqs)]
    <2>1. AfterReject(heap[b], Limit[k], req[r].now) \in KeyStates(Reqs)
      BY <1>1, AfterRejectType
    <2>2. heap' = [heap EXCEPT ![b] = AfterReject(heap[b], Limit[k], req[r].now)]
      BY DEF Reject
    <2>3. QED
      BY <1>1, <2>1, <2>2 DEF TypeOK
  <1>3. req' \in [Reqs -> ReqStates]
    BY <1>1 DEF Reject, TypeOK, ReqStates, PCs
  <1>4. \A q \in Reqs : /\ req'[q].pc \in Locking <=> req'[q].ref # None
                        /\ req'[q].pc \in Billing => req'[q].bill # None
    BY <1>1 DEF Reject, TypeOK, ReqStates, Locking, Billing
  <1>5. QED
    BY <1>2, <1>3, <1>4 DEF Reject, TypeOK

\* commit of one layer.
LEMMA CommitLayerType ==
  ASSUME TypeOK, NEW r \in Reqs, CommitLayer(r)
  PROVE  TypeOK'
  <1> DEFINE k == req[r].layer
             b == req[r].ref
             amount == AmountFor(k, req[r].bill)
             p == IF k = NumLayers THEN "done" ELSE "commit"
             l == IF k = NumLayers THEN k ELSE k + 1
             hd == req[r].held \ {k}
             u == Left(req[r], p, l, hd, req[r].late)
  <1>0. req[r].pc = "commitLock"
    BY DEF CommitLayer
  <1>1. /\ req[r] \in ReqStates /\ k \in Layers /\ b \in Buckets
        /\ req[r].now \in Times /\ req[r].now \in Nat /\ heap[b] \in KeyStates(Reqs)
        /\ amount \in Nat /\ req[r].bill # None
    BY <1>0, LockingTypes, AmountType DEF Locking, Billing, TypeOK
  <1>2. heap' \in [Buckets -> KeyStates(Reqs)]
    <2>1. AfterCommit(heap[b], req[r].now, amount, r) \in KeyStates(Reqs)
      BY <1>1, AfterCommitType
    <2>2. heap' = [heap EXCEPT ![b] = AfterCommit(heap[b], req[r].now, amount, r)]
      BY DEF CommitLayer
    <2>3. QED
      BY <1>1, <2>1, <2>2 DEF TypeOK
  <1>3. /\ req' \in [Reqs -> ReqStates]
        /\ \A q \in Reqs : /\ req'[q].pc \in Locking <=> req'[q].ref # None
                           /\ req'[q].pc \in Billing => req'[q].bill # None
    <2>1. /\ p \in PCs /\ p \notin Locking /\ l \in Layers
          /\ hd \in SUBSET Layers /\ req[r].late \in SUBSET Layers
      BY <1>1 DEF PCs, Locking, ReqStates
    <2>2. req' = [req EXCEPT ![r] = u]
      BY <1>1 DEF CommitLayer, Left, ReqStates, TypeOK
    <2> HIDE DEF p, l, hd
    <2>3. u \in ReqStates /\ u.pc = p /\ u.ref = None /\ u.bill = req[r].bill
      BY <1>1, <2>1, LeftType
    <2> HIDE DEF u
    <2>4. QED
      BY <1>1, <2>1, <2>2, <2>3, OneRequest
  <1>4. /\ used' \in [Layers -> [TokDims -> [Times -> Nat]]]
        /\ spent' \in [Layers -> Nat]
    <2>1. Post(r, k, b, req[r].now, amount)
      BY DEF CommitLayer
    <2> HIDE DEF k, b, amount
    <2>2. QED
      BY <1>1, <2>1, PostType
  <1>5. QED
    BY <1>2, <1>3, <1>4 DEF CommitLayer, TypeOK

\* The stream callback moves to the next layer, or to dropping the guard.
LEMMA NextPostType ==
  ASSUME TypeOK, NEW r \in Reqs, req[r].pc \in {"post", "postLock"}, req' = NextPost(r)
  PROVE  /\ req' \in [Reqs -> ReqStates]
         /\ \A q \in Reqs : /\ req'[q].pc \in Locking <=> req'[q].ref # None
                            /\ req'[q].pc \in Billing => req'[q].bill # None
  <1> DEFINE k == req[r].layer
             p == IF k = NumLayers THEN "drop" ELSE "post"
             l == IF k = NumLayers THEN k ELSE k + 1
             u == [req[r] EXCEPT !.pc = p, !.layer = l, !.ref = None]
  <1>1. req[r] \in ReqStates /\ k \in Layers /\ req[r].bill # None
    BY LockingTypes DEF TypeOK, Billing
  <1>2. p \in PCs /\ p \notin Locking /\ l \in Layers
    BY <1>1 DEF PCs, Locking
  <1>3. req' = [req EXCEPT ![r] = u]
    BY <1>1 DEF NextPost, ReqStates, TypeOK
  <1> HIDE DEF p, l
  <1>4. u \in ReqStates /\ u.pc = p /\ u.ref = None /\ u.bill = req[r].bill
    BY <1>1, <1>2 DEF ReqStates
  <1> HIDE DEF u
  <1>5. QED
    BY <1>1, <1>2, <1>3, <1>4, OneRequest

\* add_tokens of one layer.
LEMMA PostTokensType ==
  ASSUME TypeOK, NEW r \in Reqs, PostTokens(r)
  PROVE  TypeOK'
  <1> DEFINE k == req[r].layer
             b == req[r].ref
             amount == AmountFor(k, req[r].bill)
  <1>0. req[r].pc = "postLock" /\ req' = NextPost(r)
    BY DEF PostTokens
  <1>1. /\ k \in Layers /\ b \in Buckets /\ amount \in Nat
        /\ req[r].now \in Times /\ req[r].now \in Nat /\ heap[b] \in KeyStates(Reqs)
    BY <1>0, LockingTypes, AmountType DEF Locking, Billing
  <1>2. heap' \in [Buckets -> KeyStates(Reqs)]
    <2>1. AfterAddTokens(heap[b], req[r].now, amount) \in KeyStates(Reqs)
      BY <1>1, AfterAddTokensType
    <2>2. heap' = [heap EXCEPT ![b] = AfterAddTokens(heap[b], req[r].now, amount)]
      BY DEF PostTokens
    <2>3. QED
      BY <1>1, <2>1, <2>2 DEF TypeOK
  <1>3. /\ req' \in [Reqs -> ReqStates]
        /\ \A q \in Reqs : /\ req'[q].pc \in Locking <=> req'[q].ref # None
                           /\ req'[q].pc \in Billing => req'[q].bill # None
    BY <1>0, NextPostType
  <1>4. /\ used' \in [Layers -> [TokDims -> [Times -> Nat]]]
        /\ spent' \in [Layers -> Nat]
    <2>1. Post(r, k, b, req[r].now, amount)
      BY DEF PostTokens
    <2> HIDE DEF k, b, amount
    <2>2. QED
      BY <1>1, <2>1, PostType
  <1>5. QED
    BY <1>2, <1>3, <1>4 DEF PostTokens, TypeOK

\* Drop of one reservation or stream hold.
LEMMA DropOneType ==
  ASSUME TypeOK, NEW r \in Reqs, DropOne(r)
  PROVE  TypeOK'
  <1> PICK k \in req[r].held :
        /\ heap' = IF states[k] = None THEN heap
                   ELSE [heap EXCEPT ![states[k]] = AfterRelease(@, clock, r)]
        /\ req' = [req EXCEPT ![r].held = @ \ {k}]
    BY DEF DropOne
  <1> DEFINE u == [req[r] EXCEPT !.held = req[r].held \ {k}]
  <1>1. req[r] \in ReqStates /\ req[r].pc = "drop" /\ k \in Layers
    BY LockingTypes DEF DropOne, ReqStates
  <1>2. heap' \in [Buckets -> KeyStates(Reqs)]
    <2>1. CASE states[k] = None
      BY <2>1 DEF TypeOK
    <2>2. CASE states[k] # None
      <3>1. states[k] \in Buckets /\ heap[states[k]] \in KeyStates(Reqs) /\ clock \in Nat
        BY <1>1, <2>2 DEF TypeOK
      <3>2. AfterRelease(heap[states[k]], clock, r) \in KeyStates(Reqs)
        BY <3>1, AfterReleaseType
      <3>3. heap' = [heap EXCEPT ![states[k]] = AfterRelease(heap[states[k]], clock, r)]
        BY <2>2
      <3>4. QED
        BY <3>1, <3>2, <3>3 DEF TypeOK
    <2>3. QED
      BY <2>1, <2>2
  <1>3. /\ req' \in [Reqs -> ReqStates]
        /\ \A q \in Reqs : /\ req'[q].pc \in Locking <=> req'[q].ref # None
                           /\ req'[q].pc \in Billing => req'[q].bill # None
    <2>1. req' = [req EXCEPT ![r] = u]
      BY <1>1 DEF ReqStates, TypeOK
    <2>2. /\ u \in ReqStates /\ u.pc = req[r].pc /\ u.ref = req[r].ref
          /\ u.bill = req[r].bill
      BY <1>1 DEF ReqStates
    <2>3. u.pc \notin Locking /\ u.pc \notin Billing /\ u.ref = None
      BY <1>1, <2>2 DEF TypeOK, Locking, Billing
    <2> HIDE DEF u
    <2>4. QED
      BY <2>1, <2>2, <2>3, OneRequest
  <1>4. QED
    BY <1>2, <1>3 DEF DropOne, TypeOK

\* A step of a request that changes nothing but its own pc, layer and bill.
LEMMA LocalStepType ==
  ASSUME TypeOK, NEW r \in Reqs, UNCHANGED <<clock, states, heap, admitted, used, spent>>,
         NEW p \in PCs \ Locking, NEW l \in Layers, NEW bill \in Bills \cup {None},
         p \in Billing => bill # None, req[r].pc \notin Locking,
         req' = [req EXCEPT ![r].pc = p, ![r].layer = l, ![r].bill = bill]
  PROVE  TypeOK'
  <1> DEFINE u == [req[r] EXCEPT !.pc = p, !.layer = l, !.bill = bill]
  <1>1. req[r] \in ReqStates /\ req[r].ref = None
    BY DEF TypeOK
  <1>2. u \in ReqStates /\ u.pc = p /\ u.ref = None /\ u.bill = bill
    BY <1>1 DEF ReqStates
  <1>3. req' = [req EXCEPT ![r] = u]
    BY <1>1 DEF ReqStates, TypeOK
  <1> HIDE DEF u
  <1>4. /\ req' \in [Reqs -> ReqStates]
        /\ \A q \in Reqs : /\ req'[q].pc \in Locking <=> req'[q].ref # None
                           /\ req'[q].pc \in Billing => req'[q].bill # None
    BY <1>2, <1>3, OneRequest
  <1>5. QED
    BY <1>4 DEF TypeOK

\* peek rolls the minute windows of one bucket.
LEMMA PeekType ==
  ASSUME TypeOK, NEW k \in Layers, Peek(k)
  PROVE  TypeOK' /\ \A b \in Buckets : heap'[b].inFlight = heap[b].inFlight
  <1> DEFINE b == states[k]
             s == heap[b]
             rq == [i \in ReqDims |-> IF i = 2 THEN RollIfStale(s.req[i], clock, ReqLen[i])
                                      ELSE s.req[i]]
             tk == [i \in TokDims |-> IF i = 1 THEN RollIfStale(s.tok[i], clock, TokLen[i])
                                      ELSE s.tok[i]]
             u == [s EXCEPT !.req = rq, !.tok = tk]
  <1>1. b \in Buckets /\ s \in KeyStates(Reqs) /\ clock \in Nat
    BY DEF Peek, TypeOK
  <1>2. ASSUME NEW i \in ReqDims
        PROVE  s.req[i] \in Counters /\ RollIfStale(s.req[i], clock, ReqLen[i]) \in Counters
    <2>1. s.req[i] \in Counters
      BY <1>1 DEF KeyStates
    <2>2. QED
      BY <1>1, <2>1, ReqLenType, WindowTypes
  <1>3. ASSUME NEW i \in TokDims
        PROVE  s.tok[i] \in Counters /\ RollIfStale(s.tok[i], clock, TokLen[i]) \in Counters
    <2>1. s.tok[i] \in Counters
      BY <1>1 DEF KeyStates
    <2>2. QED
      BY <1>1, <2>1, TokLenType, WindowTypes
  <1>4. rq \in [ReqDims -> Counters] /\ tk \in [TokDims -> Counters]
    BY <1>2, <1>3
  <1>5. heap' = [heap EXCEPT ![b] = u]
    BY <1>1 DEF Peek, TypeOK, KeyStates
  <1> HIDE DEF rq, tk
  <1>6. u \in KeyStates(Reqs) /\ u.inFlight = s.inFlight
    BY <1>1, <1>4 DEF KeyStates
  <1> HIDE DEF u
  <1>7. heap' \in [Buckets -> KeyStates(Reqs)]
    BY <1>1, <1>5, <1>6 DEF TypeOK
  <1>8. TypeOK'
    BY <1>7 DEF Peek, TypeOK
  <1>9. QED
    BY <1>1, <1>5, <1>6, <1>8 DEF TypeOK

\* Every step keeps the state well typed.
LEMMA TypeStep == TypeOK /\ [Next]_vars => TypeOK'
  <1> SUFFICES ASSUME TypeOK, [Next]_vars PROVE TypeOK'
    OBVIOUS
  <1>1. ASSUME NEW r \in Reqs, Step(r) PROVE TypeOK'
    <2>0. /\ req[r] \in ReqStates /\ req[r].layer \in Layers
          /\ req[r].bill \in Bills \cup {None}
      BY LockingTypes DEF ReqStates
    <2>1. CASE BeginAcquire(r)
      BY <2>1, LookupType DEF BeginAcquire, Locking, Billing
    <2>2. CASE Admit(r)
      BY <2>2, AdmitType
    <2>3. CASE Reject(r)
      BY <2>3, RejectType
    <2>4. CASE Abandon(r)
      <3>1. /\ req[r].pc \notin Locking /\ "drop" \in PCs \ Locking /\ "drop" \notin Billing
            /\ UNCHANGED <<clock, states, heap, admitted, used, spent>>
        BY <2>4 DEF Abandon, Locking, PCs, Billing
      <3>2. req' = [req EXCEPT ![r].pc = "drop", ![r].layer = req[r].layer,
                               ![r].bill = req[r].bill]
        BY <2>0, <2>4 DEF Abandon, TypeOK, ReqStates
      <3>3. QED
        BY <2>0, <3>1, <3>2, LocalStepType
    <2>5. CASE BeginCommit(r)
      <3>1. /\ req[r].pc \notin Locking /\ "commit" \in PCs \ Locking
            /\ UNCHANGED <<clock, states, heap, admitted, used, spent>> /\ 1 \in Layers
        BY <2>5 DEF BeginCommit, Locking, PCs
      <3>2. PICK bill \in Bills :
              req' = [req EXCEPT ![r].pc = "commit", ![r].layer = 1, ![r].bill = bill]
        BY <2>5 DEF BeginCommit
      <3>3. bill # None /\ bill \in Bills \cup {None}
        OBVIOUS
      <3>4. QED
        BY <3>1, <3>2, <3>3, LocalStepType
    <2>6. CASE LookupCommit(r)
      BY <2>6, LookupType DEF LookupCommit, Locking, Billing
    <2>7. CASE CommitLayer(r)
      BY <2>7, CommitLayerType
    <2>8. CASE IntoStreamHold(r)
      <3>1. /\ req[r].pc \notin Locking /\ "stream" \in PCs \ Locking
            /\ "stream" \notin Billing
            /\ UNCHANGED <<clock, states, heap, admitted, used, spent>>
        BY <2>8 DEF IntoStreamHold, Locking, PCs, Billing
      <3>2. req' = [req EXCEPT ![r].pc = "stream", ![r].layer = req[r].layer,
                               ![r].bill = req[r].bill]
        BY <2>0, <2>8 DEF IntoStreamHold, TypeOK, ReqStates
      <3>3. QED
        BY <2>0, <3>1, <3>2, LocalStepType
    <2>9. CASE EndStream(r)
      <3>1. /\ req[r].pc \notin Locking /\ "post" \in PCs \ Locking
            /\ UNCHANGED <<clock, states, heap, admitted, used, spent>> /\ 1 \in Layers
        BY <2>9 DEF EndStream, Locking, PCs
      <3>2. PICK bill \in Bills :
              req' = [req EXCEPT ![r].pc = "post", ![r].layer = 1, ![r].bill = bill]
        BY <2>9 DEF EndStream
      <3>3. bill # None /\ bill \in Bills \cup {None}
        OBVIOUS
      <3>4. QED
        BY <3>1, <3>2, <3>3, LocalStepType
    <2>10. CASE LookupPost(r)
      BY <2>10, LookupType DEF LookupPost, Locking, Billing
    <2>11. CASE SkipPost(r)
      BY <2>11, NextPostType DEF SkipPost, TypeOK
    <2>12. CASE PostTokens(r)
      BY <2>12, PostTokensType
    <2>13. CASE DropOne(r)
      BY <2>13, DropOneType
    <2>14. CASE Dropped(r)
      <3>1. /\ req[r].pc \notin Locking /\ "done" \in PCs \ Locking /\ "done" \notin Billing
            /\ UNCHANGED <<clock, states, heap, admitted, used, spent>>
        BY <2>14 DEF Dropped, Locking, PCs, Billing
      <3>2. req' = [req EXCEPT ![r].pc = "done", ![r].layer = req[r].layer,
                               ![r].bill = req[r].bill]
        BY <2>0, <2>14 DEF Dropped, TypeOK, ReqStates
      <3>3. QED
        BY <2>0, <3>1, <3>2, LocalStepType
    <2>15. QED
      BY <1>1, <2>1, <2>2, <2>3, <2>4, <2>5, <2>6, <2>7, <2>8, <2>9, <2>10, <2>11,
         <2>12, <2>13, <2>14 DEF Step
  <1>2. ASSUME NEW k \in Layers, Reap(k) PROVE TypeOK'
    BY <1>2 DEF Reap, TypeOK
  <1>3. ASSUME NEW k \in Layers, Peek(k) PROVE TypeOK'
    BY <1>3, PeekType
  <1>4. CASE Tick
    BY <1>4 DEF Tick, TypeOK
  <1>5. CASE UNCHANGED vars
    BY <1>5 DEF vars, TypeOK
  <1>6. QED
    BY <1>1, <1>2, <1>3, <1>4, <1>5 DEF Next

(* Limiter is type correct: every reachable state has well-formed buckets, *)
(* and a request holds an Arc exactly between a lookup and its lock.       *)
THEOREM TypeCorrect == Spec => []TypeOK
  BY TypeInit, TypeStep, PTL DEF Spec

-----------------------------------------------------------------------------
(* The concurrency limit.  CapInv is inductive; the three actions that can *)
(* add a member, a bucket or lose one have lemmas of their own, all the    *)
(* others only take permits and members away (FewerPermits).               *)

\* The in_flight sets are finite.
LEMMA MembersFinite ==
  ASSUME TypeOK, NEW b \in Buckets
  PROVE  IsFiniteSet(heap[b].inFlight) /\ heap[b].inFlight \subseteq Reqs
  <1>1. heap[b].inFlight \subseteq Reqs
    BY DEF TypeOK, KeyStates
  <1>2. QED
    BY <1>1, FS_Subset

\* A limit that is set is a natural number.
LEMMA CapType ==
  ASSUME NEW k \in Layers, Limit[k].concurrency # NoLimit
  PROVE  Limit[k].concurrency \in Nat
  BY DEF RateLimits, OptLimit

\* The initial state satisfies the inductive invariant.
LEMMA CapInit == Init => CapInv
  <1> SUFFICES ASSUME Init PROVE CapInv
    OBVIOUS
  <1>1. TypeOK
    BY TypeInit
  <1>2. \A k \in Layers : states[k] = None
    BY DEF Init
  <1>3. \A r \in Reqs : req[r].held = {} /\ req[r].ref = None
    BY DEF Init
  <1>4. QED
    BY <1>1, <1>2, <1>3 DEF CapInv, BucketsBelong, PermitsAreMembers, MembersWithinCap

\* Steps that leave the map alone and take no new permit, Arc or member; a
\* member that goes has given its permit up.
LEMMA FewerPermits ==
  ASSUME CapInv, TypeOK', states' = states,
         \A q \in Reqs : req'[q].held \subseteq req[q].held /\ req'[q].late = req[q].late,
         \A q \in Reqs : req'[q].ref # None =>
           req'[q].ref = req[q].ref /\ req'[q].layer = req[q].layer,
         \A b \in Buckets : heap'[b].inFlight \subseteq heap[b].inFlight,
         \A q \in Reqs : \A k \in req'[q].held :
           states[k] # None /\ q \in heap[states[k]].inFlight
             => q \in heap'[states[k]].inFlight
  PROVE  CapInv'
  <1>1. BucketsBelong'
    BY DEF CapInv, BucketsBelong
  <1>2. PermitsAreMembers'
    BY DEF CapInv, PermitsAreMembers
  <1>3. MembersWithinCap'
    <2> SUFFICES ASSUME NEW k \in Layers, states[k] # None,
                        Limit[k].concurrency # NoLimit
                 PROVE  Cardinality(heap'[states[k]].inFlight) <= Limit[k].concurrency
      BY DEF MembersWithinCap
    <2>1. states[k] \in Buckets
      BY DEF CapInv, TypeOK
    <2>2. IsFiniteSet(heap[states[k]].inFlight)
      BY <2>1, MembersFinite DEF CapInv
    <2>3. /\ heap'[states[k]].inFlight \subseteq heap[states[k]].inFlight
          /\ Cardinality(heap[states[k]].inFlight) <= Limit[k].concurrency
      BY <2>1 DEF CapInv, MembersWithinCap
    <2>4. /\ IsFiniteSet(heap'[states[k]].inFlight)
          /\ Cardinality(heap'[states[k]].inFlight) <= Cardinality(heap[states[k]].inFlight)
      BY <2>2, <2>3, FS_Subset
    <2>5. /\ Cardinality(heap'[states[k]].inFlight) \in Nat
          /\ Cardinality(heap[states[k]].inFlight) \in Nat
          /\ Limit[k].concurrency \in Nat
      BY <2>2, <2>4, FS_CardinalityType, CapType
    <2>6. QED
      BY <2>3, <2>4, <2>5
  <1>4. QED
    BY <1>1, <1>2, <1>3 DEF CapInv

\* state_for: a new bucket is nobody's home and has no members.
LEMMA LookupCap ==
  ASSUME CapInv, TypeOK', NEW r \in Reqs, NEW from, NEW to, Lookup(r, from, to)
  PROVE  CapInv'
  <1> DEFINE k == req[r].layer
  <1>0. TypeOK /\ req[r] \in ReqStates /\ k \in Layers
    BY LockingTypes DEF CapInv
  <1> PICK b \in Buckets :
        /\ StateFor(k, b)
        /\ req' = [req EXCEPT ![r].pc = to, ![r].ref = b, ![r].now = clock]
    BY DEF Lookup
  <1>1. /\ \A q \in Reqs : /\ req'[q].held = req[q].held /\ req'[q].late = req[q].late
                            /\ req'[q].layer = req[q].layer
        /\ req'[r].ref = b
        /\ \A q \in Reqs \ {r} : req'[q].ref = req[q].ref
    BY <1>0 DEF TypeOK, ReqStates
  <1>2. CASE states[k] = b /\ UNCHANGED <<states, heap>>
    <2>1. BucketsBelong'
      <3>1. ASSUME NEW k1 \in Layers, NEW k2 \in Layers,
                   states'[k1] # None, states'[k1] = states'[k2]
            PROVE  k1 = k2
        BY <1>2, <3>1 DEF CapInv, BucketsBelong
      <3>2. ASSUME NEW q \in Reqs, NEW j \in Layers,
                   req'[q].ref # None, states'[j] = req'[q].ref
            PROVE  j = req'[q].layer
        <4>1. CASE q = r
          <5>1. states[j] = states[k] /\ states[k] # None
            BY <1>1, <1>2, <3>2, <4>1
          <5>2. j = k
            BY <1>0, <5>1 DEF CapInv, BucketsBelong
          <5>3. QED
            BY <1>1, <4>1, <5>2
        <4>2. CASE q # r
          BY <1>1, <1>2, <3>2, <4>2 DEF CapInv, BucketsBelong
        <4>3. QED
          BY <4>1, <4>2
      <3>3. QED
        BY <3>1, <3>2 DEF BucketsBelong
    <2>2. PermitsAreMembers'
      BY <1>1, <1>2 DEF CapInv, PermitsAreMembers
    <2>3. MembersWithinCap'
      BY <1>2 DEF CapInv, MembersWithinCap
    <2>4. QED
      BY <2>1, <2>2, <2>3 DEF CapInv
  <1>3. CASE /\ states[k] = None
             /\ b \in FreeBuckets
             /\ states' = [states EXCEPT ![k] = b]
             /\ heap' = [heap EXCEPT ![b] = NewKeyState(clock)]
    <2>0. /\ states'[k] = b
          /\ \A j \in Layers \ {k} : states'[j] = states[j] /\ states[j] # b
          /\ \A q \in Reqs : req[q].ref # b
      BY <1>0, <1>3 DEF FreeBuckets, TypeOK
    <2>1. /\ heap'[b].inFlight = {}
          /\ \A c \in Buckets \ {b} : heap'[c] = heap[c]
      BY <1>0, <1>3 DEF TypeOK, NewKeyState
    <2>2. BucketsBelong'
      <3>1. ASSUME NEW k1 \in Layers, NEW k2 \in Layers,
                   states'[k1] # None, states'[k1] = states'[k2]
            PROVE  k1 = k2
        BY <2>0, <3>1 DEF CapInv, BucketsBelong
      <3>2. ASSUME NEW q \in Reqs, NEW j \in Layers,
                   req'[q].ref # None, states'[j] = req'[q].ref
            PROVE  j = req'[q].layer
        <4>1. CASE q = r
          BY <1>1, <2>0, <3>2, <4>1
        <4>2. CASE q # r
          <5>1. req'[q].ref = req[q].ref /\ req'[q].layer = req[q].layer
            BY <1>1, <4>2
          <5>2. j # k /\ states[j] = req[q].ref
            BY <2>0, <3>2, <5>1
          <5>3. QED
            BY <3>2, <5>1, <5>2 DEF CapInv, BucketsBelong
        <4>3. QED
          BY <4>1, <4>2
      <3>3. QED
        BY <3>1, <3>2 DEF BucketsBelong
    <2>3. PermitsAreMembers'
      <3> SUFFICES ASSUME NEW q \in Reqs, NEW j \in req[q].held \ req[q].late
                   PROVE  states'[j] # None /\ q \in heap'[states'[j]].inFlight
        BY <1>1 DEF PermitsAreMembers
      <3>1. j \in Layers /\ states[j] # None /\ q \in heap[states[j]].inFlight
        BY <1>0 DEF CapInv, PermitsAreMembers, TypeOK, ReqStates
      <3>2. j # k /\ states'[j] = states[j] /\ states[j] # b /\ states[j] \in Buckets
        BY <1>0, <1>3, <2>0, <3>1 DEF TypeOK
      <3>3. QED
        BY <2>1, <3>1, <3>2
    <2>4. MembersWithinCap'
      <3> SUFFICES ASSUME NEW j \in Layers, states'[j] # None,
                          Limit[j].concurrency # NoLimit
                   PROVE  Cardinality(heap'[states'[j]].inFlight) <= Limit[j].concurrency
        BY DEF MembersWithinCap
      <3>1. CASE j = k
        <4>1. heap'[states'[j]].inFlight = {}
          BY <2>0, <2>1, <3>1
        <4>2. Cardinality(heap'[states'[j]].inFlight) = 0
          BY <4>1, FS_EmptySet
        <4>3. QED
          BY <4>2, CapType
      <3>2. CASE j # k
        <4>1. states'[j] = states[j] /\ states[j] # b /\ states[j] \in Buckets
          BY <1>0, <2>0, <3>2 DEF TypeOK
        <4>2. heap'[states'[j]] = heap[states[j]]
          BY <2>1, <4>1
        <4>3. QED
          BY <4>1, <4>2 DEF CapInv, MembersWithinCap
      <3>3. QED
        BY <3>1, <3>2
    <2>5. QED
      BY <2>2, <2>3, <2>4 DEF CapInv
  <1>4. QED
    BY <1>2, <1>3 DEF StateFor

\* acquire that admits: the gate left room for one more member.
LEMMA AdmitCap ==
  ASSUME CapInv, TypeOK', NEW r \in Reqs, Admit(r)
  PROVE  CapInv'
  <1> DEFINE k == req[r].layer
             b == req[r].ref
             p == IF k = NumLayers THEN "running" ELSE "reserve"
             l == IF k = NumLayers THEN 1 ELSE k + 1
             lt == IF states[k] = b THEN req[r].late ELSE req[r].late \cup {k}
  <1>0. /\ TypeOK /\ req[r] \in ReqStates /\ k \in Layers /\ b \in Buckets
        /\ req[r].now \in Nat /\ heap[b] \in KeyStates(Reqs) /\ states' = states
    BY LockingTypes DEF CapInv, Admit, Locking
  <1>1. /\ heap'[b].inFlight = heap[b].inFlight \cup {r}
        /\ \A c \in Buckets \ {b} : heap'[c] = heap[c]
    <2>1. heap' = [heap EXCEPT ![b] = AfterAdmit(heap[b], Limit[k], req[r].now, r)]
      BY DEF Admit
    <2>2. AfterAdmit(heap[b], Limit[k], req[r].now, r).inFlight = heap[b].inFlight \cup {r}
      BY <1>0, AfterAdmitType
    <2>3. QED
      BY <1>0, <2>1, <2>2 DEF TypeOK
  <1>2. /\ \A q \in Reqs \ {r} : req'[q] = req[q]
        /\ req'[r].ref = None
        /\ req'[r].held = req[r].held \cup {k}
        /\ req'[r].late = lt
    <2>1. req' = [req EXCEPT ![r].pc = p, ![r].layer = l, ![r].ref = None,
                             ![r].held = @ \cup {k}, ![r].late = lt]
      BY DEF Admit
    <2> HIDE DEF p, l, lt
    <2>2. QED
      BY <1>0, <2>1 DEF TypeOK, ReqStates
  <1>3. BucketsBelong'
    BY <1>0, <1>2 DEF CapInv, BucketsBelong
  <1>4. PermitsAreMembers'
    <2> SUFFICES ASSUME NEW q \in Reqs, NEW j \in req'[q].held \ req'[q].late
                 PROVE  states[j] # None /\ q \in heap'[states[j]].inFlight
      BY <1>0 DEF PermitsAreMembers
    <2>1. CASE q = r /\ j = k
      BY <1>0, <1>1, <1>2, <2>1
    <2>2. CASE ~(q = r /\ j = k)
      <3>1. j \in req[q].held \ req[q].late
        BY <1>2, <2>2
      <3>2. states[j] # None /\ q \in heap[states[j]].inFlight
        BY <3>1 DEF CapInv, PermitsAreMembers
      <3>3. states[j] \in Buckets
        BY <1>0, <3>1, <3>2 DEF TypeOK, ReqStates
      <3>4. QED
        BY <1>1, <3>2, <3>3
    <2>3. QED
      BY <2>1, <2>2
  <1>5. MembersWithinCap'
    <2> SUFFICES ASSUME NEW j \in Layers, states[j] # None, Limit[j].concurrency # NoLimit
                 PROVE  Cardinality(heap'[states[j]].inFlight) <= Limit[j].concurrency
      BY <1>0 DEF MembersWithinCap
    <2>0. states[j] \in Buckets
      BY <1>0 DEF TypeOK
    <2>1. CASE states[j] = b
      <3>1. j = k
        BY <1>0, <2>1 DEF CapInv, BucketsBelong
      <3>2. ~ConcurrencyFull(heap[b], Limit[k])
        BY DEF Admit, Admits
      <3>3. ~(Cardinality(heap[b].inFlight) >= Limit[k].concurrency)
        BY <3>1, <3>2 DEF ConcurrencyFull
      <3>4. IsFiniteSet(heap[b].inFlight)
        BY <1>0, MembersFinite
      <3>5. /\ Cardinality(heap[b].inFlight) \in Nat
            /\ Limit[k].concurrency \in Nat
            /\ Cardinality(heap[b].inFlight \cup {r}) =
                 IF r \in heap[b].inFlight THEN Cardinality(heap[b].inFlight)
                 ELSE Cardinality(heap[b].inFlight) + 1
        BY <3>1, <3>4, FS_CardinalityType, FS_AddElement, CapType
      <3>6. heap'[states[j]].inFlight = heap[b].inFlight \cup {r}
        BY <1>1, <2>1
      <3> DEFINE n == Cardinality(heap[b].inFlight)
                 m == Cardinality(heap[b].inFlight \cup {r})
      <3>7. m <= n + 1 /\ n < Limit[k].concurrency /\ m \in Nat
        <4>1. n \in Nat /\ Limit[k].concurrency \in Nat /\ (m = n \/ m = n + 1)
          BY <3>5
        <4> HIDE DEF n, m
        <4>2. ~(n >= Limit[k].concurrency)
          BY <3>3 DEF n
        <4>3. QED
          BY <4>1, <4>2
      <3> HIDE DEF n, m
      <3>8. m <= Limit[k].concurrency
        BY <3>5, <3>7 DEF n
      <3>9. QED
        BY <3>1, <3>6, <3>8 DEF m
    <2>2. CASE states[j] # b
      BY <1>1, <2>0, <2>2 DEF CapInv, MembersWithinCap
    <2>3. QED
      BY <2>1, <2>2
  <1>6. QED
    BY <1>3, <1>4, <1>5 DEF CapInv

\* A request that gives up its permit of layer k in bucket b of that layer.
LEMMA GivenUp ==
  ASSUME CapInv, TypeOK', states' = states, NEW r \in Reqs, NEW k \in Layers,
         NEW b \in Buckets, \A j \in Layers : states[j] = b => j = k,
         heap'[b].inFlight = heap[b].inFlight \ {r},
         \A c \in Buckets \ {b} : heap'[c] = heap[c],
         \A q \in Reqs \ {r} : req'[q] = req[q],
         req'[r].ref = None,
         req'[r].held = req[r].held \ {k}, req'[r].late = req[r].late
  PROVE  CapInv'
  <1>1. ASSUME NEW q \in Reqs, NEW j \in req'[q].held, states[j] # None,
               q \in heap[states[j]].inFlight
        PROVE  q \in heap'[states[j]].inFlight
    <2>0. j \in Layers /\ states[j] \in Buckets
      <3>1. req[q] \in ReqStates /\ states \in [Layers -> Buckets \cup {None}]
        BY DEF CapInv, TypeOK
      <3>2. req'[q].held \subseteq req[q].held
        <4>1. CASE q = r
          BY <4>1
        <4>2. CASE q # r
          BY <4>2
        <4>3. QED
          BY <4>1, <4>2
      <3>3. req[q].held \subseteq Layers
        BY <3>1 DEF ReqStates
      <3>4. j \in Layers
        BY <3>2, <3>3
      <3>5. QED
        BY <1>1, <3>1, <3>4
    <2>1. CASE states[j] = b
      <3>1. q # r
        BY <1>1, <2>0, <2>1
      <3>2. QED
        BY <1>1, <2>1, <3>1
    <2>2. CASE states[j] # b
      BY <1>1, <2>0, <2>2
    <2>3. QED
      BY <2>1, <2>2
  <1>2. \A c \in Buckets : heap'[c].inFlight \subseteq heap[c].inFlight
    <2> SUFFICES ASSUME NEW c \in Buckets
                 PROVE  heap'[c].inFlight \subseteq heap[c].inFlight
      OBVIOUS
    <2>1. CASE c = b
      BY <2>1
    <2>2. CASE c # b
      BY <2>2
    <2>3. QED
      BY <2>1, <2>2
  <1>3. \A q \in Reqs : req'[q].held \subseteq req[q].held /\ req'[q].late = req[q].late
    OBVIOUS
  <1>4. \A q \in Reqs : req'[q].ref # None =>
          req'[q].ref = req[q].ref /\ req'[q].layer = req[q].layer
    OBVIOUS
  <1>5. QED
    BY <1>1, <1>2, <1>3, <1>4, FewerPermits

\* commit frees exactly the committing request's member.
LEMMA CommitLayerCap ==
  ASSUME CapInv, TypeOK', NEW r \in Reqs, CommitLayer(r)
  PROVE  CapInv'
  <1> DEFINE k == req[r].layer
             b == req[r].ref
             amount == AmountFor(k, req[r].bill)
             p == IF k = NumLayers THEN "done" ELSE "commit"
             l == IF k = NumLayers THEN k ELSE k + 1
  <1>0. req[r].pc = "commitLock" /\ TypeOK /\ states' = states
    BY DEF CommitLayer, CapInv
  <1>1. /\ req[r] \in ReqStates /\ k \in Layers /\ b \in Buckets /\ b # None
        /\ req[r].now \in Nat /\ heap[b] \in KeyStates(Reqs) /\ amount \in Nat
    BY <1>0, LockingTypes, AmountType DEF Locking, Billing
  <1>2. /\ heap'[b].inFlight = heap[b].inFlight \ {r}
        /\ \A c \in Buckets \ {b} : heap'[c] = heap[c]
    <2>1. heap' = [heap EXCEPT ![b] = AfterCommit(heap[b], req[r].now, amount, r)]
      BY DEF CommitLayer
    <2>2. AfterCommit(heap[b], req[r].now, amount, r).inFlight = heap[b].inFlight \ {r}
      BY <1>1, AfterCommitType
    <2>3. QED
      BY <1>0, <1>1, <2>1, <2>2 DEF TypeOK
  <1>3. /\ \A q \in Reqs \ {r} : req'[q] = req[q]
        /\ req'[r].ref = None
        /\ req'[r].held = req[r].held \ {k} /\ req'[r].late = req[r].late
    <2>1. req' = [req EXCEPT ![r].pc = p, ![r].layer = l, ![r].ref = None,
                             ![r].held = @ \ {k}]
      BY DEF CommitLayer
    <2> HIDE DEF p, l
    <2>2. QED
      BY <1>0, <1>1, <2>1 DEF TypeOK, ReqStates
  <1>4. \A j \in Layers : states[j] = b => j = k
    BY <1>1 DEF CapInv, BucketsBelong
  <1> HIDE DEF k, b
  <1>5. QED
    BY <1>0, <1>1, <1>2, <1>3, <1>4, GivenUp

\* release frees exactly the dropping request's member.
LEMMA DropOneCap ==
  ASSUME CapInv, TypeOK', NEW r \in Reqs, DropOne(r)
  PROVE  CapInv'
  <1> PICK k \in req[r].held :
        /\ heap' = IF states[k] = None THEN heap
                   ELSE [heap EXCEPT ![states[k]] = AfterRelease(@, clock, r)]
        /\ req' = [req EXCEPT ![r].held = @ \ {k}]
    BY DEF DropOne
  <1>0. /\ req[r].pc = "drop" /\ TypeOK /\ states' = states /\ k \in Layers
        /\ req[r] \in ReqStates /\ req[r].ref = None
    BY DEF DropOne, CapInv, TypeOK, ReqStates, Locking
  <1>1. /\ \A q \in Reqs \ {r} : req'[q] = req[q]
        /\ req'[r].ref = None
        /\ req'[r].held = req[r].held \ {k} /\ req'[r].late = req[r].late
    BY <1>0 DEF TypeOK, ReqStates
  <1>2. CASE states[k] = None
    <2>1. heap' = heap
      BY <1>2
    <2>2. /\ \A q \in Reqs : req'[q].held \subseteq req[q].held /\ req'[q].late = req[q].late
          /\ \A q \in Reqs : req'[q].ref # None =>
               req'[q].ref = req[q].ref /\ req'[q].layer = req[q].layer
      BY <1>1
    <2>3. QED
      BY <1>0, <2>1, <2>2, FewerPermits
  <1>3. CASE states[k] # None
    <2> DEFINE b == states[k]
    <2>1. b \in Buckets /\ heap[b] \in KeyStates(Reqs) /\ clock \in Nat
      BY <1>0, <1>3 DEF TypeOK
    <2>2. /\ heap'[b].inFlight = heap[b].inFlight \ {r}
          /\ \A c \in Buckets \ {b} : heap'[c] = heap[c]
      <3>1. heap' = [heap EXCEPT ![b] = AfterRelease(heap[b], clock, r)]
        BY <1>3
      <3>2. AfterRelease(heap[b], clock, r).inFlight = heap[b].inFlight \ {r}
        BY <2>1, AfterReleaseType
      <3>3. QED
        BY <1>0, <2>1, <3>1, <3>2 DEF TypeOK
    <2>3. \A j \in Layers : states[j] = b => j = k
      BY <1>0, <1>3 DEF CapInv, BucketsBelong
    <2> HIDE DEF b
    <2>4. QED
      BY <1>0, <1>1, <2>1, <2>2, <2>3, GivenUp
  <1>4. QED
    BY <1>2, <1>3

\* reap drops a bucket without members, so no permit is lost with it.
LEMMA ReapCap ==
  ASSUME CapInv, TypeOK', NEW k \in Layers, Reap(k)
  PROVE  CapInv'
  <1>0. /\ states'[k] = None /\ heap' = heap /\ req' = req
        /\ \A j \in Layers \ {k} : states'[j] = states[j]
    BY DEF Reap, CapInv, TypeOK
  <1>1. BucketsBelong'
    BY <1>0 DEF CapInv, BucketsBelong
  <1>2. PermitsAreMembers'
    <2> SUFFICES ASSUME NEW q \in Reqs, NEW j \in req[q].held \ req[q].late
                 PROVE  states'[j] # None /\ q \in heap[states'[j]].inFlight
      BY <1>0 DEF PermitsAreMembers
    <2>1. j \in Layers /\ states[j] # None /\ q \in heap[states[j]].inFlight
      BY DEF CapInv, PermitsAreMembers, TypeOK, ReqStates
    <2>2. heap[states[k]].inFlight = {}
      BY DEF Reap, SurvivesReap
    <2>3. QED
      BY <1>0, <2>1, <2>2
  <1>3. MembersWithinCap'
    BY <1>0 DEF CapInv, MembersWithinCap
  <1>4. QED
    BY <1>1, <1>2, <1>3 DEF CapInv

\* A step of request r that keeps every in_flight set and r's permits, and
\* after which r holds no Arc.
LEMMA QuietCap ==
  ASSUME CapInv, TypeOK', states' = states, NEW r \in Reqs,
         \A c \in Buckets : heap'[c].inFlight = heap[c].inFlight,
         \A q \in Reqs \ {r} : req'[q] = req[q],
         req'[r].ref = None, req'[r].held = req[r].held, req'[r].late = req[r].late
  PROVE  CapInv'
  <1>1. \A q \in Reqs : req'[q].held = req[q].held /\ req'[q].late = req[q].late
    OBVIOUS
  <1>2. \A q \in Reqs : req'[q].ref # None =>
          req'[q].ref = req[q].ref /\ req'[q].layer = req[q].layer
    OBVIOUS
  <1>3. ASSUME NEW q \in Reqs, NEW k \in req'[q].held, states[k] # None,
               q \in heap[states[k]].inFlight
        PROVE  q \in heap'[states[k]].inFlight
    <2>1. req[q] \in ReqStates /\ states \in [Layers -> Buckets \cup {None}]
      BY DEF CapInv, TypeOK
    <2>2. k \in Layers
      BY <1>1, <2>1 DEF ReqStates
    <2>3. QED
      BY <1>3, <2>1, <2>2
  <1>4. QED
    BY <1>1, <1>2, <1>3, FewerPermits

\* A refusal leaves every in_flight set as it was.
LEMMA RejectCap ==
  ASSUME CapInv, TypeOK', NEW r \in Reqs, Reject(r)
  PROVE  CapInv'
  <1> DEFINE k == req[r].layer
             b == req[r].ref
             s == AfterReject(heap[b], Limit[k], req[r].now)
  <1>0. /\ TypeOK /\ req[r] \in ReqStates /\ k \in Layers /\ b \in Buckets
        /\ req[r].now \in Nat /\ heap[b] \in KeyStates(Reqs) /\ states' = states
    BY LockingTypes DEF CapInv, Reject, Locking
  <1>1. s.inFlight = heap[b].inFlight
    BY <1>0, AfterRejectType
  <1>2. heap' = [heap EXCEPT ![b] = s]
    BY DEF Reject
  <1> HIDE DEF s
  <1>3. \A c \in Buckets : heap'[c].inFlight = heap[c].inFlight
    BY <1>0, <1>1, <1>2 DEF TypeOK
  <1>4. /\ \A q \in Reqs \ {r} : req'[q] = req[q]
        /\ req'[r].ref = None /\ req'[r].held = req[r].held /\ req'[r].late = req[r].late
    BY <1>0 DEF Reject, TypeOK, ReqStates
  <1>5. QED
    BY <1>0, <1>3, <1>4, QuietCap

\* NextPost moves r to its next layer without an Arc.
LEMMA NextPostPermits ==
  ASSUME TypeOK, NEW r \in Reqs, req' = NextPost(r)
  PROVE  /\ \A q \in Reqs \ {r} : req'[q] = req[q]
         /\ req'[r].ref = None /\ req'[r].held = req[r].held /\ req'[r].late = req[r].late
  <1> DEFINE p == IF req[r].layer = NumLayers THEN "drop" ELSE "post"
             l == IF req[r].layer = NumLayers THEN req[r].layer ELSE req[r].layer + 1
  <1>1. req[r] \in ReqStates
    BY DEF TypeOK
  <1>2. req' = [req EXCEPT ![r].pc = p, ![r].layer = l, ![r].ref = None]
    BY <1>1 DEF NextPost, TypeOK, ReqStates
  <1> HIDE DEF p, l
  <1>3. QED
    BY <1>1, <1>2 DEF TypeOK, ReqStates

\* add_tokens leaves every in_flight set as it was.
LEMMA PostTokensCap ==
  ASSUME CapInv, TypeOK', NEW r \in Reqs, PostTokens(r)
  PROVE  CapInv'
  <1> DEFINE k == req[r].layer
             b == req[r].ref
             amount == AmountFor(k, req[r].bill)
             s == AfterAddTokens(heap[b], req[r].now, amount)
  <1>0. TypeOK /\ req[r].pc = "postLock" /\ states' = states /\ req' = NextPost(r)
    BY DEF CapInv, PostTokens
  <1>1. /\ b \in Buckets /\ req[r].now \in Nat /\ heap[b] \in KeyStates(Reqs)
        /\ amount \in Nat
    BY <1>0, LockingTypes, AmountType DEF Locking, Billing
  <1>2. s.inFlight = heap[b].inFlight
    <2> HIDE DEF amount, k, b
    <2>1. QED
      BY <1>1, AfterAddTokensType
  <1>3. heap' = [heap EXCEPT ![b] = s]
    BY DEF PostTokens
  <1> HIDE DEF s
  <1>4. \A c \in Buckets : heap'[c].inFlight = heap[c].inFlight
    BY <1>0, <1>1, <1>2, <1>3 DEF TypeOK
  <1>5. QED
    BY <1>0, <1>4, NextPostPermits, QuietCap

\* The steps of a request that touch nothing but its own program counter,
\* layer and bill.
LEMMA LocalStepCap ==
  ASSUME CapInv, TypeOK', NEW r \in Reqs,
         \/ Abandon(r) \/ BeginCommit(r) \/ IntoStreamHold(r)
         \/ EndStream(r) \/ SkipPost(r) \/ Dropped(r)
  PROVE  CapInv'
  <1>0. TypeOK /\ req[r] \in ReqStates
    BY DEF CapInv, TypeOK
  <1>1. states' = states /\ heap' = heap
    BY DEF Abandon, BeginCommit, IntoStreamHold, EndStream, SkipPost, Dropped
  <1>2. /\ \A q \in Reqs \ {r} : req'[q] = req[q]
        /\ req'[r].ref = None /\ req'[r].held = req[r].held /\ req'[r].late = req[r].late
    <2>1. CASE SkipPost(r)
      BY <1>0, <2>1, NextPostPermits DEF SkipPost
    <2>2. CASE Abandon(r) \/ IntoStreamHold(r) \/ Dropped(r)
      <3>1. PICK p : req' = [req EXCEPT ![r].pc = p]
        BY <2>2 DEF Abandon, IntoStreamHold, Dropped
      <3>2. req[r].ref = None
        BY <1>0, <2>2 DEF Abandon, IntoStreamHold, Dropped, TypeOK, Locking
      <3>3. QED
        BY <1>0, <3>1, <3>2 DEF TypeOK, ReqStates
    <2>3. CASE BeginCommit(r) \/ EndStream(r)
      <3>1. PICK p, bill : req' = [req EXCEPT ![r].pc = p, ![r].layer = 1, ![r].bill = bill]
        BY <2>3 DEF BeginCommit, EndStream
      <3>2. req[r].ref = None
        BY <1>0, <2>3 DEF BeginCommit, EndStream, TypeOK, Locking
      <3>3. QED
        BY <1>0, <3>1, <3>2 DEF TypeOK, ReqStates
    <2>4. QED
      BY <2>1, <2>2, <2>3
  <1>3. QED
    BY <1>1, <1>2, QuietCap

\* peek rolls windows only.
LEMMA PeekCap ==
  ASSUME CapInv, TypeOK', NEW k \in Layers, Peek(k)
  PROVE  CapInv'
  <1>1. states' = states /\ req' = req
    BY DEF Peek
  <1>2. \A c \in Buckets : heap'[c].inFlight = heap[c].inFlight
    BY PeekType DEF CapInv
  <1>3. \A q \in Reqs : \A j \in req[q].held : j \in Layers
    BY DEF CapInv, TypeOK, ReqStates
  <1>4. \A q \in Reqs : \A j \in req'[q].held :
          states[j] # None /\ q \in heap[states[j]].inFlight
            => q \in heap'[states[j]].inFlight
    BY <1>1, <1>2, <1>3 DEF CapInv, TypeOK
  <1>5. QED
    BY <1>1, <1>2, <1>4, FewerPermits

\* Every step keeps the strengthened invariant.
LEMMA CapStep ==
  CapInv /\ [Next]_vars => CapInv'
  <1> SUFFICES ASSUME CapInv, [Next]_vars
               PROVE  CapInv'
    OBVIOUS
  <1>0. TypeOK /\ TypeOK'
    BY TypeStep DEF CapInv
  <1>1. ASSUME NEW r \in Reqs, Step(r)
        PROVE  CapInv'
    <2>1. CASE BeginAcquire(r)
      BY <1>0, <2>1, LookupCap DEF BeginAcquire
    <2>2. CASE LookupCommit(r)
      BY <1>0, <2>2, LookupCap DEF LookupCommit
    <2>3. CASE LookupPost(r)
      BY <1>0, <2>3, LookupCap DEF LookupPost
    <2>4. CASE Admit(r)
      BY <1>0, <2>4, AdmitCap
    <2>5. CASE CommitLayer(r)
      BY <1>0, <2>5, CommitLayerCap
    <2>6. CASE DropOne(r)
      BY <1>0, <2>6, DropOneCap
    <2>7. CASE Reject(r)
      BY <1>0, <2>7, RejectCap
    <2>8. CASE PostTokens(r)
      BY <1>0, <2>8, PostTokensCap
    <2>9. CASE \/ Abandon(r) \/ BeginCommit(r) \/ IntoStreamHold(r)
               \/ EndStream(r) \/ SkipPost(r) \/ Dropped(r)
      BY <1>0, <2>9, LocalStepCap
    <2>10. QED
      BY <1>1, <2>1, <2>2, <2>3, <2>4, <2>5, <2>6, <2>7, <2>8, <2>9 DEF Step
  <1>2. ASSUME NEW k \in Layers, Reap(k)
        PROVE  CapInv'
    BY <1>0, <1>2, ReapCap
  <1>3. ASSUME NEW k \in Layers, Peek(k)
        PROVE  CapInv'
    BY <1>0, <1>3, PeekCap
  <1>4. CASE Tick \/ UNCHANGED vars
    <2>1. states' = states /\ heap' = heap /\ req' = req
      BY <1>4 DEF Tick, vars
    <2>2. QED
      BY <1>0, <2>1, FewerPermits
  <1>5. QED
    BY <1>1, <1>2, <1>3, <1>4 DEF Next

(* Spec => []LiveHoldersWithinCap: for any number of requests, layers and  *)
(* buckets, any limits and any interleaving of lookups, locks, commits,    *)
(* drops and the reaper, the requests a layer has admitted into a bucket   *)
(* of the map and that have not given their slot back are never more than  *)
(* the layer's concurrency limit.                                          *)
THEOREM ConcurrencyLimit == Spec => []LiveHoldersWithinCap
  <1>1. Init => CapInv
    BY CapInit
  <1>2. CapInv /\ [Next]_vars => CapInv'
    BY CapStep
  <1>3. CapInv => LiveHoldersWithinCap
    <2> SUFFICES ASSUME CapInv, NEW k \in Layers, Limit[k].concurrency # NoLimit
                 PROVE  Cardinality(LiveHolders(k)) <= Limit[k].concurrency
      BY DEF LiveHoldersWithinCap
    <2>1. CASE states[k] = None
      <3>1. LiveHolders(k) = {}
        BY <2>1 DEF LiveHolders, CapInv, PermitsAreMembers
      <3>2. Cardinality(LiveHolders(k)) = 0
        BY <3>1, FS_EmptySet
      <3>3. QED
        BY <3>2, CapType
    <2>2. CASE states[k] # None
      <3> DEFINE M == heap[states[k]].inFlight
      <3>1. states[k] \in Buckets
        BY <2>2 DEF CapInv, TypeOK
      <3>2. IsFiniteSet(M)
        BY <3>1, MembersFinite DEF CapInv
      <3>3. LiveHolders(k) \subseteq M
        BY DEF LiveHolders, CapInv, PermitsAreMembers
      <3>4. Cardinality(M) <= Limit[k].concurrency
        BY <2>2 DEF CapInv, MembersWithinCap
      <3> HIDE DEF M
      <3>5. /\ Cardinality(LiveHolders(k)) <= Cardinality(M)
            /\ IsFiniteSet(LiveHolders(k))
        BY <3>2, <3>3, FS_Subset
      <3>6. /\ Cardinality(LiveHolders(k)) \in Nat
            /\ Cardinality(M) \in Nat /\ Limit[k].concurrency \in Nat
        BY <3>2, <3>5, FS_CardinalityType, CapType
      <3>7. QED
        BY <3>4, <3>5, <3>6
    <2>3. QED
      BY <2>1, <2>2
  <1>4. QED
    BY <1>1, <1>2, <1>3, PTL DEF Spec

=============================================================================
