------------------------------ MODULE Limiter ------------------------------
(***************************************************************************)
(* Requests of one gateway process taking, holding and settling            *)
(* rate-limit reservations (aisix-ratelimit limiter.rs over                *)
(* store/local.rs; the layers are reserved by aisix-proxy quota.rs).       *)
(*                                                                         *)
(* A request reserves its layers one after another.  Every store call but  *)
(* `release`, `peek` and `reap` happens in two steps: `state_for` clones   *)
(* the bucket's Arc out of the map, then the bucket is locked; other       *)
(* threads run in between.  `heap` is what the Arcs point to, `states` the *)
(* DashMap.  A bucket that left the map is still reachable by the Arcs     *)
(* taken before.                                                           *)
(***************************************************************************)
EXTENDS LocalStore

CONSTANTS Reqs,        \* requests; each one's reservations carry its own member
          NumLayers,   \* how many buckets a request reserves, in order
          Limit,       \* the RateLimit of each layer
          Unit,        \* the CounterUnit of each layer: "tokens" or "microUsd"
          Bills,       \* what a request may turn out to cost
          Buckets,     \* identities of KeyState objects
          None,        \* no bucket
          MaxTime,     \* bound on the clock
          PromptLock   \* TRUE: the clock does not tick between a thread's
                       \* clock read and its lock

Layers == 1..NumLayers
Times == 0..MaxTime

ASSUME LimiterAssumption ==
  /\ IsFiniteSet(Reqs)
  /\ NumLayers \in Nat \ {0}
  /\ MaxTime \in Nat
  /\ Limit \in [Layers -> RateLimits]
  /\ Unit \in [Layers -> {"tokens", "microUsd"}]
  /\ Bills \subseteq [tokens : Nat, microUsd : Nat]
  /\ None \notin Buckets \cup Bills
  /\ PromptLock \in BOOLEAN

VARIABLES clock,     \* Clock::unix_secs
          states,    \* LocalStore::states: layer -> bucket
          heap,      \* bucket -> KeyState
          req,       \* the requests' own state
          admitted,  \* history: [layer][i][w], requests that buckets of the map
                     \* admitted in the window of request dimension i that opens at w
          used,      \* history: [layer][i][w], what was posted to buckets of the map
                     \* in the window of token dimension i that opens at w
          spent      \* history: [layer], what was posted under a permit of the map

vars == <<clock, states, heap, req, admitted, used, spent>>

PCs == {"reserve", "acquire", "running", "commit", "commitLock", "stream",
        "post", "postLock", "drop", "done"}

(* pc, the layer the request is at, the Arc and the clock value it read,   *)
(* the bill it settles, the layers whose reservation it still holds, and   *)
(* (history) the layers that admitted it in a bucket the reaper had taken  *)
(* out of the map between its lookup and its lock.                         *)
ReqStates == [pc : PCs, layer : Layers, ref : Buckets \cup {None}, now : Times,
              bill : Bills \cup {None}, held : SUBSET Layers, late : SUBSET Layers]

Init ==
  /\ clock = 0
  /\ states = [k \in Layers |-> None]
  /\ heap = [b \in Buckets |-> NewKeyState(0)]
  /\ req = [r \in Reqs |-> [pc |-> "reserve", layer |-> 1, ref |-> None, now |-> 0,
                            bill |-> None, held |-> {}, late |-> {}]]
  /\ admitted = [k \in Layers |-> [i \in ReqDims |-> [w \in Times |-> 0]]]
  /\ used = [k \in Layers |-> [i \in TokDims |-> [w \in Times |-> 0]]]
  /\ spent = [k \in Layers |-> 0]

-----------------------------------------------------------------------------
\* Objects nothing points to any more.
FreeBuckets ==
  {b \in Buckets : /\ \A k \in Layers : states[k] # b
                   /\ \A r \in Reqs : req[r].ref # b}

\* state_for(k) yields bucket b.
StateFor(k, b) ==
  \/ /\ states[k] = b
     /\ UNCHANGED <<states, heap>>
  \/ /\ states[k] = None
     /\ b \in FreeBuckets
     /\ states' = [states EXCEPT ![k] = b]
     /\ heap' = [heap EXCEPT ![b] = NewKeyState(clock)]

\* The first half of every store call: the clock is read, the Arc cloned.
Lookup(r, from, to) ==
  /\ req[r].pc = from
  /\ \E b \in Buckets :
       /\ StateFor(req[r].layer, b)
       /\ req' = [req EXCEPT ![r].pc = to, ![r].ref = b, ![r].now = clock]
  /\ UNCHANGED <<clock, admitted, used, spent>>

\* A history of one layer after d more at time `now`; len: its windows' lengths.
Logged(h, len, now, d) ==
  [i \in DOMAIN len |-> [w \in Times |->
     h[i][w] + (IF w = BucketStart(now, len[i]) THEN d ELSE 0)]]

\* pre_commit: store.acquire up to the lock.
BeginAcquire(r) == Lookup(r, "reserve", "acquire")

\* acquire under the lock, every gate passed; then the next layer or the call.
Admit(r) ==
  LET k == req[r].layer
      b == req[r].ref
      now == req[r].now
  IN /\ req[r].pc = "acquire"
     /\ Admits(heap[b], Limit[k], now)
     /\ heap' = [heap EXCEPT ![b] = AfterAdmit(heap[b], Limit[k], now, r)]
     /\ req' = [req EXCEPT ![r].pc = IF k = NumLayers THEN "running" ELSE "reserve",
                           ![r].layer = IF k = NumLayers THEN 1 ELSE k + 1,
                           ![r].ref = None,
                           ![r].held = @ \cup {k},
                           ![r].late = IF states[k] = b THEN @ ELSE @ \cup {k}]
     /\ admitted' = IF states[k] = b
                      THEN [admitted EXCEPT ![k] = Logged(@, ReqLen, now, 1)]
                      ELSE admitted
     /\ UNCHANGED <<clock, states, used, spent>>

\* Mutant: the refused request keeps its Arc.
RejectKeepsArc(r) ==
  LET k == req[r].layer
      b == req[r].ref
  IN /\ req[r].pc = "acquire"
     /\ ~Admits(heap[b], Limit[k], req[r].now)
     /\ heap' = [heap EXCEPT ![b] = AfterReject(heap[b], Limit[k], req[r].now)]
     /\ req' = [req EXCEPT ![r].pc = "drop"]
     /\ UNCHANGED <<clock, states, admitted, used, spent>>

\* A gate refuses: `?` returns and the Vec of earlier layers is dropped.
Reject(r) ==
  LET k == req[r].layer
      b == req[r].ref
  IN /\ req[r].pc = "acquire"
     /\ ~Admits(heap[b], Limit[k], req[r].now)
     /\ heap' = [heap EXCEPT ![b] = AfterReject(heap[b], Limit[k], req[r].now)]
     /\ req' = [req EXCEPT ![r].pc = "drop", ![r].ref = None]
     /\ UNCHANGED <<clock, states, admitted, used, spent>>

\* The upstream call fails or the caller leaves: the reservation is dropped.
Abandon(r) ==
  /\ req[r].pc = "running"
  /\ req' = [req EXCEPT ![r].pc = "drop"]
  /\ UNCHANGED <<clock, states, heap, admitted, used, spent>>

\* MultiReservation::commit with the actual usage.
BeginCommit(r) ==
  /\ req[r].pc = "running"
  /\ \E bill \in Bills :
       req' = [req EXCEPT ![r].pc = "commit", ![r].layer = 1, ![r].bill = bill]
  /\ UNCHANGED <<clock, states, heap, admitted, used, spent>>

LookupCommit(r) == Lookup(r, "commit", "commitLock")

AmountFor(k, bill) == IF Unit[k] = "tokens" THEN bill.tokens ELSE bill.microUsd

Post(r, k, b, now, amount) ==
  /\ used' = IF states[k] = b THEN [used EXCEPT ![k] = Logged(@, TokLen, now, amount)]
             ELSE used
  /\ spent' = IF k \in req[r].held \ req[r].late THEN [spent EXCEPT ![k] = @ + amount]
              ELSE spent

\* store.commit for one layer, under the lock; the reservation is then inert.
CommitLayer(r) ==
  LET k == req[r].layer
      b == req[r].ref
      now == req[r].now
      amount == AmountFor(k, req[r].bill)
  IN /\ req[r].pc = "commitLock"
     /\ heap' = [heap EXCEPT ![b] = AfterCommit(heap[b], now, amount, r)]
     /\ req' = [req EXCEPT ![r].pc = IF k = NumLayers THEN "done" ELSE "commit",
                           ![r].layer = IF k = NumLayers THEN k ELSE k + 1,
                           ![r].ref = None,
                           ![r].held = @ \ {k}]
     /\ Post(r, k, b, now, amount)
     /\ UNCHANGED <<clock, states, admitted>>

\* into_stream_hold: the slots stay taken, the guard owns their release.
IntoStreamHold(r) ==
  /\ req[r].pc = "running"
  /\ req' = [req EXCEPT ![r].pc = "stream"]
  /\ UNCHANGED <<clock, states, heap, admitted, used, spent>>

\* on_complete, at the end of the stream or when the caller abandons it.
EndStream(r) ==
  /\ req[r].pc = "stream"
  /\ \E bill \in Bills :
       req' = [req EXCEPT ![r].pc = "post", ![r].layer = 1, ![r].bill = bill]
  /\ UNCHANGED <<clock, states, heap, admitted, used, spent>>

\* After the last layer the callback drops the guard.
NextPost(r) ==
  [req EXCEPT ![r].pc = IF req[r].layer = NumLayers THEN "drop" ELSE "post",
              ![r].layer = IF @ = NumLayers THEN @ ELSE @ + 1,
              ![r].ref = None]

LookupPost(r) ==
  /\ req[r].pc = "post"
  /\ AmountFor(req[r].layer, req[r].bill) # 0
  /\ Lookup(r, "post", "postLock")

\* add_tokens(0) returns before it looks at the store.
SkipPost(r) ==
  /\ req[r].pc = "post"
  /\ AmountFor(req[r].layer, req[r].bill) = 0
  /\ req' = NextPost(r)
  /\ UNCHANGED <<clock, states, heap, admitted, used, spent>>

\* add_tokens under the lock.
PostTokens(r) ==
  LET k == req[r].layer
      b == req[r].ref
      amount == AmountFor(k, req[r].bill)
  IN /\ req[r].pc = "postLock"
     /\ heap' = [heap EXCEPT ![b] = AfterAddTokens(heap[b], req[r].now, amount)]
     /\ req' = NextPost(r)
     /\ Post(r, k, b, req[r].now, amount)
     /\ UNCHANGED <<clock, states, admitted>>

\* Drop of a Reservation or of the guard's hold: release never inserts, and
\* the map entry stays locked while the bucket is.
DropOne(r) ==
  /\ req[r].pc = "drop"
  /\ \E k \in req[r].held :
       /\ \A j \in req[r].held : k <= j
       /\ heap' = IF states[k] = None THEN heap
                  ELSE [heap EXCEPT ![states[k]] = AfterRelease(@, clock, r)]
       /\ req' = [req EXCEPT ![r].held = @ \ {k}]
  /\ UNCHANGED <<clock, states, admitted, used, spent>>

Dropped(r) ==
  /\ req[r].pc = "drop"
  /\ req[r].held = {}
  /\ req' = [req EXCEPT ![r].pc = "done"]
  /\ UNCHANGED <<clock, states, heap, admitted, used, spent>>

\* The upkeep task visits one map entry, its bucket locked.
Reap(k) ==
  /\ states[k] # None
  /\ ~SurvivesReap(heap[states[k]], clock)
  /\ states' = [states EXCEPT ![k] = None]
  /\ UNCHANGED <<clock, heap, req, admitted, used, spent>>

\* peek reads the minute windows (rpm, tpm), which rolls them.
Peek(k) ==
  /\ states[k] # None
  /\ LET b == states[k] IN
     heap' = [heap EXCEPT
       ![b].req = [i \in ReqDims |-> IF i = 2 THEN RollIfStale(@[i], clock, ReqLen[i])
                                     ELSE @[i]],
       ![b].tok = [i \in TokDims |-> IF i = 1 THEN RollIfStale(@[i], clock, TokLen[i])
                                     ELSE @[i]]]
  /\ UNCHANGED <<clock, states, req, admitted, used, spent>>

Tick ==
  /\ clock < MaxTime
  /\ PromptLock => \A r \in Reqs : req[r].ref = None
  /\ clock' = clock + 1
  /\ UNCHANGED <<states, heap, req, admitted, used, spent>>

\* The steps of one request's task.
Step(r) ==
  \/ BeginAcquire(r) \/ Admit(r) \/ Reject(r)
  \/ Abandon(r) \/ BeginCommit(r) \/ LookupCommit(r) \/ CommitLayer(r)
  \/ IntoStreamHold(r) \/ EndStream(r)
  \/ LookupPost(r) \/ SkipPost(r) \/ PostTokens(r)
  \/ DropOne(r) \/ Dropped(r)

Next ==
  \/ \E r \in Reqs : Step(r)
  \/ \E k \in Layers : Reap(k) \/ Peek(k)
  \/ Tick

Spec == Init /\ [][Next]_vars

\* Every task is scheduled, and upstream timeouts end every call and stream.
FairSpec == Spec /\ \A r \in Reqs : WF_vars(Step(r))

-----------------------------------------------------------------------------
Locking == {"acquire", "commitLock", "postLock"}
Billing == {"commit", "commitLock", "post", "postLock"}

TypeOK ==
  /\ clock \in Times
  /\ states \in [Layers -> Buckets \cup {None}]
  /\ heap \in [Buckets -> KeyStates(Reqs)]
  /\ req \in [Reqs -> ReqStates]
  /\ admitted \in [Layers -> [ReqDims -> [Times -> Nat]]]
  /\ used \in [Layers -> [TokDims -> [Times -> Nat]]]
  /\ spent \in [Layers -> Nat]
  /\ \A r \in Reqs : /\ req[r].pc \in Locking <=> req[r].ref # None
                     /\ req[r].pc \in Billing => req[r].bill # None

LiveHolders(k) == {r \in Reqs : k \in req[r].held \ req[r].late}

(* A layer never has more requests in flight than its concurrency limit,   *)
(* counting the requests it admitted in a bucket of the map: through       *)
(* commits, drops, stream hand-over, reaping and any interleaving of       *)
(* lookups and locks, no slot is handed out twice or freed by a stranger.  *)
LiveHoldersWithinCap ==
  \A k \in Layers :
    Limit[k].concurrency # NoLimit
      => Cardinality(LiveHolders(k)) <= Limit[k].concurrency

\* No two layers share a bucket; an Arc is of the layer its holder is at.
BucketsBelong ==
  /\ \A k1, k2 \in Layers :
       states[k1] # None /\ states[k1] = states[k2] => k1 = k2
  /\ \A r \in Reqs, k \in Layers :
       req[r].ref # None /\ states[k] = req[r].ref => k = req[r].layer

\* A permit given in the map stays there: reap never drops its bucket.
PermitsAreMembers ==
  \A r \in Reqs : \A k \in req[r].held \ req[r].late :
    states[k] # None /\ r \in heap[states[k]].inFlight

\* The in_flight set of a bucket of the map respects the limit.
MembersWithinCap ==
  \A k \in Layers :
    states[k] # None /\ Limit[k].concurrency # NoLimit
      => Cardinality(heap[states[k]].inFlight) <= Limit[k].concurrency

\* LiveHoldersWithinCap made inductive.
CapInv == TypeOK /\ BucketsBelong /\ PermitsAreMembers /\ MembersWithinCap

(* No window of any request dimension admits more than its limit, although *)
(* rejections roll counters back, peeks roll them forward and the reaper   *)
(* drops idle buckets with their counts.                                   *)
WindowCap ==
  \A k \in Layers, i \in ReqDims, w \in Times :
    Limit[k].req[i] # NoLimit => admitted[k][i][w] <= Limit[k].req[i]

(* acquire admits nothing into the map once what was posted there has      *)
(* reached a token limit in the current window, or what was posted under   *)
(* its permits has ever reached the cumulative allowance.                  *)
NoAdmitPastUsage ==
  [][\A r \in Reqs :
       LET k == req[r].layer IN
       /\ req[r].pc = "acquire" /\ req'[r].pc \in {"reserve", "running"}
       /\ states[k] = req[r].ref
       => /\ Limit[k].granted # NoLimit => spent[k] < Limit[k].granted
          /\ \A i \in TokDims :
               Limit[k].tok[i] # NoLimit
                 => used[k][i][BucketStart(clock, TokLen[i])] < Limit[k].tok[i]]_vars

\* What the code's counters say at the present time.
Count(s, i) == RollIfStale(s.req[i], clock, ReqLen[i]).count

(* A refused request consumes nothing: whatever dimension refused it, no   *)
(* request window of the bucket counts more, or less, than before.         *)
RejectIsFree ==
  [][\A r \in Reqs, b \in Buckets :
       req[r].pc = "acquire" /\ req'[r].pc = "drop" =>
         \A i \in ReqDims : Count(heap'[b], i) = Count(heap[b], i)]_vars

(* Every slot taken is given back: a request that holds the permit of some *)
(* layer, also one that a later layer refuses, comes to have no member in  *)
(* any bucket of the map.                                                  *)
SlotsFreed ==
  \A r \in Reqs :
    req[r].held # {} ~>
      \A k \in Layers : states[k] # None => r \notin heap[states[k]].inFlight

(* window.rs: the counter "resets at the start of every new window"; so no *)
(* step throws away the count of the window that is still open.            *)
ResetsOnlyAtNewWindow ==
  [][\A k \in Layers, i \in ReqDims :
       /\ states[k] # None /\ states'[k] = states[k]
       /\ heap[states[k]].req[i].start = BucketStart(clock, ReqLen[i])
       => heap'[states[k]].req[i].start = heap[states[k]].req[i].start]_vars

(* What local.rs says of reap: a bucket that holds a permit is never       *)
(* dropped, so a permit is always in the bucket of the map.                *)
PermitsStayInMap ==
  \A r \in Reqs : \A k \in req[r].held :
    states[k] # None /\ r \in heap[states[k]].inFlight

=============================================================================
