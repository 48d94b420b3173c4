----------------------------- MODULE LocalStore -----------------------------
(***************************************************************************)
(* What each operation of the in-process counter store (aisix-ratelimit,   *)
(* store/local.rs) does to ONE bucket while it holds the bucket's mutex.   *)
(* The map of buckets, and the gap between looking a bucket up and locking *)
(* it, belong to module Limiter.                                           *)
(*                                                                         *)
(* A request dimension is an index of ReqLen, tightest window first (rps,  *)
(* rpm, rph, rpd in the code); a token dimension an index of TokLen (tpm,  *)
(* tph, tpd).                                                              *)
(***************************************************************************)
EXTENDS FixedWindow, FiniteSets, Sequences

CONSTANTS ReqLen,     \* window lengths of the request dimensions, in seconds
          TokLen,     \* window lengths of the token dimensions
          NoLimit,    \* `None` in a RateLimit field
          IdleFor     \* RATE_LIMIT_BUCKET_IDLE_TTL

ReqDims == DOMAIN ReqLen
TokDims == DOMAIN TokLen

ASSUME WindowsAssumption ==
  /\ ReqLen \in Seq(Nat \ {0})
  /\ TokLen \in Seq(Nat \ {0})
  /\ NoLimit \notin Nat

\* Longer than the widest window, as the constant's comment requires.
ASSUME IdleForAssumption ==
  /\ IdleFor \in Nat
  /\ \A i \in ReqDims : ReqLen[i] <= IdleFor
  /\ \A i \in TokDims : TokLen[i] <= IdleFor

OptLimit == Nat \cup {NoLimit}

\* aisix_core::RateLimit
RateLimits == [concurrency : OptLimit, granted : OptLimit,
               req : [ReqDims -> OptLimit], tok : [TokDims -> OptLimit]]

KeyStates(Member) ==
  [req : [ReqDims -> Counters], tok : [TokDims -> Counters],
   consumed : Nat, carriesAllowance : BOOLEAN,
   inFlight : SUBSET Member, lastTouched : Nat]

NewKeyState(now) ==
  [req |-> [i \in ReqDims |-> NewCounter], tok |-> [i \in TokDims |-> NewCounter],
   consumed |-> 0, carriesAllowance |-> FALSE, inFlight |-> {},
   lastTouched |-> now]

-----------------------------------------------------------------------------
(* acquire, in the order of the code.                                      *)

\* Mutant: the slot limit compared with > instead of >=.
ConcurrencyFullOffByOne(s, lim) ==
  lim.concurrency # NoLimit /\ Cardinality(s.inFlight) > lim.concurrency

ConcurrencyFull(s, lim) ==
  lim.concurrency # NoLimit /\ Cardinality(s.inFlight) >= lim.concurrency

\* The cumulative allowance: no window, so it never comes back by itself.
AllowanceExhausted(s, lim) ==
  lim.granted # NoLimit /\ s.consumed >= lim.granted

ExceededTokDims(s, lim, now) ==
  {i \in TokDims : /\ lim.tok[i] # NoLimit
                   /\ IsExceeded(s.tok[i], now, TokLen[i], lim.tok[i])}

\* The request dimensions that refuse one more; the tightest of them rejects.
RefusingDims(s, lim, now) ==
  {i \in ReqDims : /\ lim.req[i] # NoLimit
                   /\ ~FitsOneMore(s.req[i], now, ReqLen[i], lim.req[i])}

Admits(s, lim, now) ==
  /\ ~ConcurrencyFull(s, lim)
  /\ ~AllowanceExhausted(s, lim)
  /\ ExceededTokDims(s, lim, now) = {}
  /\ RefusingDims(s, lim, now) = {}

\* The token windows that were read have been rolled to `now`; a rejection at
\* token dimension j leaves the ones after it alone.
RolledTokens(s, lim, now, j) ==
  [i \in TokDims |-> IF lim.tok[i] # NoLimit /\ i <= j
                       THEN RollIfStale(s.tok[i], now, TokLen[i]) ELSE s.tok[i]]

AfterAdmit(s, lim, now, m) ==
  [s EXCEPT !.carriesAllowance = (lim.granted # NoLimit),
            !.tok = RolledTokens(s, lim, now, Len(TokLen)),
            !.req = [i \in ReqDims |->
                       IF lim.req[i] # NoLimit
                         THEN AddTo(s.req[i], now, ReqLen[i], 1) ELSE s.req[i]],
            !.inFlight = @ \cup {m},
            !.lastTouched = now]

\* Mutant: the tighter dimensions keep the increment of a refused request.
NotRolledBack(c, now, len) == AddTo(c, now, len, 1)

\* What the dimensions tighter than the refusing one j are left with: the
\* increment they took is rolled back by exactly one.
RolledBack(c, now, len) == Decrement(AddTo(c, now, len, 1), now, len, 1)

RejectedRequests(s, lim, now, j) ==
  [i \in ReqDims |->
     IF lim.req[i] = NoLimit \/ i > j THEN s.req[i]
     ELSE IF i < j THEN RolledBack(s.req[i], now, ReqLen[i])
     ELSE RollIfStale(s.req[i], now, ReqLen[i])]

FirstOf(D) == CHOOSE i \in D : \A j \in D : i <= j

\* A rejection takes no slot and does not touch lastTouched.
AfterReject(s, lim, now) ==
  IF ConcurrencyFull(s, lim) THEN s
  ELSE LET a == [s EXCEPT !.carriesAllowance = (lim.granted # NoLimit)] IN
    IF AllowanceExhausted(s, lim) THEN a
    ELSE IF ExceededTokDims(s, lim, now) # {}
      THEN [a EXCEPT !.tok = RolledTokens(s, lim, now,
                                FirstOf(ExceededTokDims(s, lim, now)))]
      ELSE [a EXCEPT !.tok = RolledTokens(s, lim, now, Len(TokLen)),
                     !.req = RejectedRequests(s, lim, now,
                                FirstOf(RefusingDims(s, lim, now)))]

-----------------------------------------------------------------------------
\* add_tokens: every token window and the cumulative counter, whatever the unit.
AfterAddTokens(s, now, amount) ==
  [s EXCEPT !.tok = [i \in TokDims |-> AddTo(s.tok[i], now, TokLen[i], amount)],
            !.consumed = @ + amount,
            !.lastTouched = now]

\* Mutant: release only touches the bucket.
ReleaseKeepsMember(s, now, m) == [s EXCEPT !.lastTouched = now]

\* release: by name, so a member that is not there frees nothing.
AfterRelease(s, now, m) ==
  [s EXCEPT !.inFlight = @ \ {m}, !.lastTouched = now]

\* commit: the amount and the slot under one lock.
AfterCommit(s, now, amount, m) ==
  AfterRelease(AfterAddTokens(s, now, amount), now, m)

\* Mutant: reap looks at slots and allowances, not at idleness.
SurvivesReapIfHeld(s, now) ==
  s.inFlight # {} \/ (s.carriesAllowance /\ s.consumed > 0)

\* Mutant: reap forgets that a spent allowance has no window.
SurvivesReapIfRecent(s, now) ==
  \/ s.inFlight # {}
  \/ s.lastTouched >= (IF now >= IdleFor THEN now - IdleFor ELSE 0)

\* reap drops exactly the buckets for which this is false.
SurvivesReap(s, now) ==
  \/ s.inFlight # {}
  \/ s.lastTouched >= (IF now >= IdleFor THEN now - IdleFor ELSE 0)
  \/ s.carriesAllowance /\ s.consumed > 0

=============================================================================
