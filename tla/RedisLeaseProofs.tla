-------------------------- MODULE RedisLeaseProofs --------------------------
(***************************************************************************)
(* Proofs about RedisLease, for any requests, replicas, limits and times   *)
(* that satisfy the module's assumptions.                                  *)
(*                                                                         *)
(* The argument is one of ages.  A confirmed lease whose refreshes failed  *)
(* m times in a row is at most m periods, an attempt and an answer's way   *)
(* old (Held, below), which RefreshAssumption keeps within the TTL as long *)
(* as m <= Misses: no script prunes it and the key does not expire.  So it *)
(* is counted, and ACQUIRE_LUA lets nobody in beside a full set.           *)
(***************************************************************************)
EXTENDS RedisLease, FiniteSetTheorems, TLAPS

\* A command of r on its way; an answer r waits for.
On(op, r, c) == Msg(op, r, c) \in wire
Got(op, r, a) == [op |-> op, r |-> r, says |-> a] \in reply

\* A period of the task, and the age of a lease after m failures in a row.
Period == RefreshEvery + Budget
Slack(m) == m * Period + Budget

\* Redis has r's member, no older than n.
Within(r, n) == zset[r] # None /\ zset[r] <= n

-----------------------------------------------------------------------------
(* The inductive invariant, request by request. *)

\* Where a request and its task can be, together.
Control(r) ==
  /\ ref[r].pc \in {"sleep", "flight"} => Live(r)
  /\ Live(r) => own[r] # None /\ (ref[r].pc = "off" => r \in lost)
  /\ req[r].pc \in {"new", "acquiring"} => ref[r].pc = "off"
  /\ ref[r].pc = "sleep" => ref[r].left <= RefreshEvery
  /\ ref[r].pc = "flight" => ref[r].left <= Budget /\ ref[r].owned = own[r]
  /\ ref[r].pc = "answered" /\ Live(r) => own[r] = "unknown"
  /\ Live(r) /\ own[r] \in {"local", "unknown"} => r \in local

\* What can be on its way.  An acquire is the only one that makes a member.
Commands(r) ==
  /\ req[r].pc = "new" => /\ \A op \in {"acquire", "refresh", "remove"}, c \in {"waits", "gone"} :
                               ~On(op, r, c)
                          /\ zset[r] = None
  /\ On("acquire", r, "waits") => req[r].pc = "acquiring"
  /\ On("acquire", r, "gone") => /\ req[r].pc # "acquiring"
                                 /\ Live(r) => own[r] = "unknown"
  /\ On("acquire", r, "waits") \/ On("acquire", r, "gone") => zset[r] = None
  /\ On("refresh", r, "waits") => ref[r].pc = "flight"
  /\ On("remove", r, "waits") => req[r].pc = "committing"
  /\ On("remove", r, "gone") => req[r].pc \in {"committing", "over"}

\* What an answer still says when it is read.
Replies(r) ==
  /\ \A a \in {"yes", "no"} : Got("acquire", r, a) =>
       req[r].pc = "acquiring" /\ ~On("acquire", r, "waits")
  /\ Got("acquire", r, "yes") => Within(r, Budget - req[r].left)
  /\ \A a \in {"yes", "no"} : Got("refresh", r, a) =>
       ref[r].pc = "flight" /\ ~On("refresh", r, "waits")
  /\ Got("refresh", r, "yes") => Within(r, Budget - ref[r].left)
  /\ Got("refresh", r, "no") /\ own[r] = "redis" => zset[r] = None /\ misses[r] > Misses
  /\ Live(r) /\ ref[r].pc = "answered" => Within(r, Budget)

\* How old a confirmed lease is, and what losing it takes.
Held(r) ==
  /\ Live(r) /\ own[r] = "redis" /\ misses[r] <= Misses =>
       \/ /\ ref[r].pc = "sleep"
          /\ Within(r, Slack(misses[r]) + RefreshEvery - ref[r].left)
       \/ /\ ref[r].pc = "flight"
          /\ Within(r, Slack(misses[r]) + Period - ref[r].left)
  /\ r \in lost => Live(r) /\ own[r] = "redis" /\ zset[r] = None /\ misses[r] > Misses
  /\ zset[r] # None => keyLeft + zset[r] >= Ttl + 1

Sound(r) == Control(r) /\ Commands(r) /\ Replies(r) /\ Held(r)

Counted ==
  /\ Cardinality(Members) <= limit
  /\ \A h \in Replicas : Cardinality(InLocal(h)) <= limit

\* TypeOK without what a caller waits for: that follows from Commands.
Requests == [pc : {"new", "acquiring", "held", "committing", "over"}, left : 0..Budget]
Tasks == [pc : {"off", "sleep", "flight", "answered"}, left : Nat,
          owned : {"redis", "unknown", None}]
Ops == {"acquire", "refresh", "remove"}

Typed ==
  /\ req \in [Reqs -> Requests]
  /\ ref \in [Reqs -> Tasks]
  /\ own \in [Reqs -> {"redis", "local", "unknown", None}]
  /\ local \subseteq Reqs /\ lost \subseteq Reqs
  /\ wire \subseteq [op : Ops, r : Reqs, caller : {"waits", "gone"}]
  /\ reply \subseteq [op : Ops, r : Reqs, says : {"yes", "no"}]
  /\ limit \in Caps
  /\ zset \in [Reqs -> 0..(Ttl + 1) \cup {None}]
  /\ keyLeft \in 0..(Ttl + 1)
  /\ misses \in [Reqs -> 0..(Misses + 1)]

IInv == Typed /\ (\A r \in Reqs : Sound(r)) /\ Counted

-----------------------------------------------------------------------------
(* Ages, and the set of commands. *)

LEMMA SlackFacts ==
  /\ Period \in Nat /\ Budget <= Ttl
  /\ \A m \in Nat : Slack(m) \in Nat /\ Slack(m) >= Budget
  /\ \A m \in Nat : Slack(m + 1) = Slack(m) + Period
  /\ \A m \in 0..Misses : Slack(m) + Period <= Ttl
<1> USE LeaseAssumption
<1>1. Period \in Nat /\ Period >= Budget
  BY DEF Period
<1> HIDE DEF Period
<1>2. \A m \in Nat : m * Period \in Nat
  BY <1>1
<1>3. \A m \in Nat : (m + 1) * Period = m * Period + Period
  BY <1>1
<1>4. ASSUME NEW m \in 0..Misses PROVE Slack(m) + Period <= Ttl
  <2>1. (Misses - m) * Period \in Nat
    BY <1>1
  <2>2. (Misses + 1) * Period = (m + 1) * Period + (Misses - m) * Period
    BY <1>1
  <2>3. (Misses + 1) * Period + Budget <= Ttl
    BY RefreshAssumption DEF Period
  <2>4. (m + 1) * Period = m * Period + Period /\ m * Period \in Nat
    BY <1>2, <1>3
  <2> QED
    BY <2>1, <2>2, <2>3, <2>4, <1>1 DEF Slack
<1>5. Budget <= Ttl
  <2>1. Slack(0) + Period <= Ttl /\ 0 * Period \in Nat
    BY <1>4, <1>2
  <2> QED
    BY <2>1, <1>1 DEF Slack
<1> QED
  BY <1>1, <1>4, <1>5 DEF Slack

\* What Abandon does to the commands of a request.
LEMMA AbandonOn ==
  ASSUME wire \subseteq [op : Ops, r : Reqs, caller : {"waits", "gone"}],
         NEW r \in Reqs, NEW ops, NEW q \in Reqs, NEW op \in Ops
  PROVE  /\ q = r /\ op \in ops =>
              /\ Msg(op, q, "waits") \notin Abandon(ops, r)
              /\ Msg(op, q, "gone") \in Abandon(ops, r) <=>
                   On(op, q, "waits") \/ On(op, q, "gone")
         /\ q # r \/ op \notin ops =>
              \A c \in {"waits", "gone"} : Msg(op, q, c) \in Abandon(ops, r) <=> On(op, q, c)
<1>1. \A w \in wire : w = Msg(w.op, w.r, w.caller) /\ w.caller \in {"waits", "gone"}
  BY DEF Msg
<1>2. \A o, u, l : Msg(o, u, l).op = o /\ Msg(o, u, l).r = u /\ Msg(o, u, l).caller = l
  BY DEF Msg
<1>3. ASSUME q = r, op \in ops
      PROVE  /\ Msg(op, q, "waits") \notin Abandon(ops, r)
             /\ Msg(op, q, "gone") \in Abandon(ops, r) <=>
                  On(op, q, "waits") \/ On(op, q, "gone")
  BY <1>3, <1>1, <1>2 DEF Abandon, On
<1>4. ASSUME q # r \/ op \notin ops, NEW c \in {"waits", "gone"}
      PROVE  Msg(op, q, c) \in Abandon(ops, r) <=> On(op, q, c)
  BY <1>4, <1>1, <1>2 DEF Abandon, On
<1> QED
  BY <1>3, <1>4

\* A step that gives up some of r's commands and sends others.
LEMMA WireStep ==
  ASSUME Typed, NEW r \in Reqs, NEW ops, NEW sent, \A m \in sent : m.r = r,
         wire' = Abandon(ops, r) \cup sent
  PROVE  /\ \A q \in Reqs \ {r}, op \in Ops, c \in {"waits", "gone"} :
              On(op, q, c)' <=> On(op, q, c)
         /\ \A op \in Ops \ ops, c \in {"waits", "gone"} :
              On(op, r, c)' <=> On(op, r, c) \/ Msg(op, r, c) \in sent
         /\ \A op \in Ops \cap ops :
              /\ On(op, r, "waits")' <=> Msg(op, r, "waits") \in sent
              /\ On(op, r, "gone")' <=> \/ On(op, r, "waits") \/ On(op, r, "gone")
                                        \/ Msg(op, r, "gone") \in sent
<1>1. \A o, u, l : Msg(o, u, l).r = u
  BY DEF Msg
<1>2. wire \subseteq [op : Ops, r : Reqs, caller : {"waits", "gone"}]
  BY DEF Typed
<1>3. \A q \in Reqs, op \in Ops, c \in {"waits", "gone"} :
        On(op, q, c)' <=> Msg(op, q, c) \in Abandon(ops, r) \/ Msg(op, q, c) \in sent
  BY DEF On
<1>4. \A q \in Reqs \ {r}, op \in Ops, c \in {"waits", "gone"} : Msg(op, q, c) \notin sent
  BY <1>1
<1>5. ASSUME NEW q \in Reqs \ {r}, NEW op \in Ops, NEW c \in {"waits", "gone"}
      PROVE  On(op, q, c)' <=> On(op, q, c)
  BY <1>2, <1>3, <1>4, AbandonOn
<1>6. ASSUME NEW op \in Ops \ ops, NEW c \in {"waits", "gone"}
      PROVE  On(op, r, c)' <=> On(op, r, c) \/ Msg(op, r, c) \in sent
  BY <1>2, <1>3, AbandonOn
<1>7. ASSUME NEW op \in Ops \cap ops
      PROVE  /\ On(op, r, "waits")' <=> Msg(op, r, "waits") \in sent
             /\ On(op, r, "gone")' <=> \/ On(op, r, "waits") \/ On(op, r, "gone")
                                       \/ Msg(op, r, "gone") \in sent
  BY <1>2, <1>3, AbandonOn
<1> QED
  BY <1>5, <1>6, <1>7

\* One command is sent.
LEMMA SendStep ==
  ASSUME Typed, NEW r \in Reqs, NEW o \in Ops, NEW d \in {"waits", "gone"}, NEW ops,
         wire' = Abandon(ops, r) \cup {Msg(o, r, d)}
  PROVE  /\ \A q \in Reqs \ {r}, op \in Ops, c \in {"waits", "gone"} :
              On(op, q, c)' <=> On(op, q, c)
         /\ \A op \in Ops \ ops, c \in {"waits", "gone"} :
              On(op, r, c)' <=> On(op, r, c) \/ (op = o /\ c = d)
         /\ \A op \in Ops \cap ops :
              /\ On(op, r, "waits")' <=> op = o /\ d = "waits"
              /\ On(op, r, "gone")' <=> \/ On(op, r, "waits") \/ On(op, r, "gone")
                                        \/ op = o /\ d = "gone"
<1> DEFINE sent == {Msg(o, r, d)}
<1>1. \A p, u, c : Msg(p, u, c).op = p /\ Msg(p, u, c).r = u /\ Msg(p, u, c).caller = c
  BY DEF Msg
<1>2. \A m \in sent : m.r = r
  BY <1>1
<1>3. \A op \in Ops, c \in {"waits", "gone"} : Msg(op, r, c) \in sent <=> op = o /\ c = d
  BY <1>1
<1>4. wire' = Abandon(ops, r) \cup sent
  OBVIOUS
<1> HIDE DEF sent
<1> QED
  BY <1>2, <1>3, <1>4, WireStep

\* Nothing is sent.
LEMMA AbandonStep ==
  ASSUME Typed, NEW r \in Reqs, NEW ops, wire' = Abandon(ops, r)
  PROVE  /\ \A q \in Reqs \ {r}, op \in Ops, c \in {"waits", "gone"} :
              On(op, q, c)' <=> On(op, q, c)
         /\ \A op \in Ops \ ops, c \in {"waits", "gone"} : On(op, r, c)' <=> On(op, r, c)
         /\ \A op \in Ops \cap ops :
              /\ ~On(op, r, "waits")'
              /\ On(op, r, "gone")' <=> On(op, r, "waits") \/ On(op, r, "gone")
<1> DEFINE sent == {}
<1>1. wire' = Abandon(ops, r) \cup sent
  OBVIOUS
<1>2. \A m : m \notin sent
  OBVIOUS
<1> HIDE DEF sent
<1> QED
  BY <1>1, <1>2, WireStep

LEMMA SendIsAbandonNothing == \A r : Abandon({}, r) = wire
BY DEF Abandon

LEMMA ReplyStep ==
  ASSUME NEW r \in Reqs, NEW ops, reply' = NoReply(ops, r)
  PROVE  \A q \in Reqs, op \in Ops, a \in {"yes", "no"} :
           Got(op, q, a)' <=> Got(op, q, a) /\ (q # r \/ op \notin ops)
BY DEF NoReply, Got

-----------------------------------------------------------------------------
(* A step that leaves a request alone, prunes its overdue member or loses  *)
(* its messages keeps what is known of it.                                 *)

Kept(q) ==
  /\ req'[q] = req[q] /\ ref'[q] = ref[q] /\ own'[q] = own[q] /\ misses'[q] = misses[q]
  /\ \/ zset'[q] = zset[q]
     \/ zset[q] # None /\ zset[q] > Ttl /\ zset'[q] = None
  /\ q \in local' <=> q \in local
  /\ q \in lost' <=> q \in lost
  /\ \A op \in Ops, c \in {"waits", "gone"} : On(op, q, c)' => On(op, q, c)
  /\ \A op \in Ops, a \in {"yes", "no"} : Got(op, q, a)' => Got(op, q, a)
  /\ keyLeft' >= keyLeft

\* A member that something known of it keeps young is not overdue.
LEMMA YoungEnough ==
  ASSUME Typed, NEW r \in Reqs, Control(r)
  PROVE  /\ Within(r, Budget) => zset[r] <= Ttl
         /\ Within(r, Budget - req[r].left) => zset[r] <= Ttl
         /\ ref[r].pc = "flight" /\ Within(r, Budget - ref[r].left) => zset[r] <= Ttl
         /\ misses[r] <= Misses /\ Within(r, Slack(misses[r]) + RefreshEvery - ref[r].left)
              => zset[r] <= Ttl
         /\ misses[r] <= Misses /\ Within(r, Slack(misses[r]) + Period - ref[r].left)
              => zset[r] <= Ttl
<1> USE LeaseAssumption
<1>1. zset[r] # None => zset[r] \in Nat
  BY DEF Typed
<1>2. req[r].left \in Nat /\ ref[r].left \in Nat /\ misses[r] \in Nat
  BY DEF Typed, Requests, Tasks
<1>3. misses[r] <= Misses => Slack(misses[r]) \in Nat /\ Slack(misses[r]) + Period <= Ttl
  BY <1>2, SlackFacts
<1>4. Budget <= Ttl /\ RefreshEvery <= Period /\ Period \in Nat
  BY SlackFacts DEF Period
<1> QED
  BY <1>1, <1>2, <1>3, <1>4 DEF Within

LEMMA KeptSound ==
  ASSUME Typed, Typed', NEW q \in Reqs, Sound(q), Kept(q)
  PROVE  Sound(q)'
<1> USE LeaseAssumption
<1>1. Live(q)' <=> Live(q)
  BY DEF Live, Kept
<1>2. /\ zset[q] # None => zset[q] \in Nat
      /\ keyLeft \in Nat /\ keyLeft' \in Nat
  BY DEF Typed
<1>3. \A n : Within(q, n) /\ zset[q] <= Ttl => Within(q, n)'
  BY <1>2 DEF Within, Kept
<1>4. Control(q)'
  BY <1>1 DEF Sound, Control, Kept
<1>5. Commands(q)'
  BY <1>1 DEF Sound, Commands, Kept, Ops
<1>6. Replies(q)'
  BY <1>1, <1>2, <1>3, YoungEnough DEF Sound, Replies, Kept, Ops
<1>7. Held(q)'
  <2>1. /\ req'[q] = req[q] /\ ref'[q] = ref[q] /\ own'[q] = own[q] /\ misses'[q] = misses[q]
        /\ (Slack(misses[q]) + RefreshEvery - ref[q].left)' =
             Slack(misses[q]) + RefreshEvery - ref[q].left
        /\ (Slack(misses[q]) + Period - ref[q].left)' = Slack(misses[q]) + Period - ref[q].left
    BY DEF Kept
  <2>2. ASSUME Live(q)', (own[q] = "redis")', (misses[q] <= Misses)'
        PROVE  \/ /\ (ref[q].pc = "sleep")'
                  /\ Within(q, Slack(misses[q]) + RefreshEvery - ref[q].left)'
               \/ /\ (ref[q].pc = "flight")'
                  /\ Within(q, Slack(misses[q]) + Period - ref[q].left)'
    BY <1>1, <1>3, <2>1, <2>2, YoungEnough DEF Sound, Held
  <2>3. (q \in lost => Live(q) /\ own[q] = "redis" /\ zset[q] = None /\ misses[q] > Misses)'
    BY <1>1, <1>2, <2>1 DEF Sound, Held, Kept
  <2>4. (zset[q] # None => keyLeft + zset[q] >= Ttl + 1)'
    BY <1>2 DEF Sound, Held, Kept
  <2> QED
    BY <2>2, <2>3, <2>4 DEF Held
<1> QED
  BY <1>4, <1>5, <1>6, <1>7 DEF Sound

LEMMA OthersKept ==
  ASSUME IInv, Typed', NEW r \in Reqs, \A q \in Reqs \ {r} : Kept(q), Sound(r)'
  PROVE  \A q \in Reqs : Sound(q)'
BY KeptSound DEF IInv

-----------------------------------------------------------------------------
(* acquire. *)

LEMMA SendAcquireSound ==
  ASSUME IInv, Typed', NEW r \in Reqs, SendAcquire(r)
  PROVE  \A q \in Reqs : Sound(q)'
<1> USE LeaseAssumption
<1>1. Typed /\ Sound(r)
  BY DEF IInv
<1>2. /\ req' = [req EXCEPT ![r] = [pc |-> "acquiring", left |-> Budget]]
      /\ req[r].pc = "new"
      /\ wire' = Abandon({}, r) \cup {Msg("acquire", r, "waits")}
      /\ UNCHANGED <<ref, own, local, lost, reply, zset, keyLeft, misses>>
  BY SendIsAbandonNothing DEF SendAcquire, bucket
<1>3. /\ \A q \in Reqs \ {r}, op \in Ops, c \in {"waits", "gone"} :
           On(op, q, c)' <=> On(op, q, c)
      /\ \A op \in Ops, c \in {"waits", "gone"} :
           On(op, r, c)' <=> On(op, r, c) \/ (op = "acquire" /\ c = "waits")
  BY <1>1, <1>2, SendStep DEF Ops
<1>4. \A q \in Reqs, op \in Ops, a \in {"yes", "no"} : Got(op, q, a)' <=> Got(op, q, a)
  BY <1>2 DEF Got
<1>5. \A q \in Reqs \ {r} : Kept(q)
  BY <1>1, <1>2, <1>3, <1>4 DEF Kept, Typed
<1>6. /\ req'[r].pc = "acquiring" /\ req'[r].left = Budget /\ ~Live(r) /\ ~Live(r)'
      /\ ref'[r] = ref[r] /\ own'[r] = own[r] /\ zset'[r] = zset[r] /\ misses'[r] = misses[r]
      /\ ref[r].pc = "off" /\ zset[r] = None
      /\ \A op \in Ops, c \in {"waits", "gone"} : ~On(op, r, c)
      /\ \A a \in {"yes", "no"} : ~Got("acquire", r, a) /\ ~Got("refresh", r, a)
  BY <1>1, <1>2 DEF Sound, Control, Commands, Replies, Live, Typed, Ops
<1>7. Control(r)'
  BY <1>6 DEF Control
<1>8. Commands(r)'
  BY <1>3, <1>6 DEF Commands, Ops
<1>9. Replies(r)'
  BY <1>4, <1>6 DEF Replies, Ops
<1>10. Held(r)'
  BY <1>1, <1>2, <1>6 DEF Held, Sound
<1> QED
  BY <1>5, <1>7, <1>8, <1>9, <1>10, OthersKept DEF Sound

\* A request that is over, or on its way out, asks little.
LEMMA EndedSound ==
  ASSUME Typed, Typed', NEW r \in Reqs, Sound(r),
         req'[r].pc \in {"committing", "over"}, ref'[r].pc \in {"off", "answered"},
         zset'[r] = zset[r], keyLeft' = keyLeft, r \notin lost',
         ~On("acquire", r, "waits")', ~On("refresh", r, "waits")',
         On("acquire", r, "gone")' => On("acquire", r, "waits") \/ On("acquire", r, "gone"),
         On("remove", r, "waits")' => req'[r].pc = "committing",
         \A a \in {"yes", "no"} : ~Got("acquire", r, a)' /\ ~Got("refresh", r, a)'
  PROVE  Sound(r)'
<1>1. ~Live(r)'
  BY DEF Live
<1>2. Control(r)'
  BY <1>1 DEF Control
<1>3. Commands(r)'
  BY <1>1 DEF Commands, Sound
<1>4. Replies(r)'
  BY <1>1 DEF Replies
<1>5. Held(r)'
  BY <1>1 DEF Held, Sound
<1> QED
  BY <1>2, <1>3, <1>4, <1>5 DEF Sound

\* A request that was let in: by Redis, whose answer is still fresh, or locally.
LEMMA AdmittedSound ==
  ASSUME Typed, Typed', NEW r \in Reqs, Sound(r), req[r].pc \in {"new", "acquiring"},
         NEW o \in {"redis", "local", "unknown"},
         req'[r].pc = "held", own'[r] = o, ref'[r] = Asleep,
         zset'[r] = zset[r], keyLeft' = keyLeft, misses'[r] = misses[r], lost' = lost,
         o = "redis" => Within(r, Budget), o # "redis" => r \in local',
         ~On("acquire", r, "waits")',
         On("acquire", r, "gone")' => /\ On("acquire", r, "waits") \/ On("acquire", r, "gone")
                                      /\ o = "unknown",
         \A c \in {"waits", "gone"} : /\ On("refresh", r, c)' => On("refresh", r, c)
                                      /\ On("remove", r, c)' => On("remove", r, c),
         \A a \in {"yes", "no"} : /\ ~Got("acquire", r, a)'
                                  /\ Got("refresh", r, a)' => Got("refresh", r, a)
  PROVE  Sound(r)'
<1> USE LeaseAssumption
<1>1. /\ Live(r)' /\ ~Live(r) /\ o # None
      /\ ref'[r].pc = "sleep" /\ ref'[r].left = RefreshEvery
      /\ ref[r].pc = "off" /\ r \notin lost
  BY DEF Live, Asleep, Sound, Control, Held
<1>2. Control(r)'
  BY <1>1 DEF Control
<1>3. Commands(r)'
  BY <1>1 DEF Commands, Sound
<1>4. Replies(r)'
  BY <1>1 DEF Replies, Sound
<1>5. Held(r)'
  <2>1. misses[r] \in Nat /\ (zset[r] # None => zset[r] \in Nat)
    BY DEF Typed
  <2>2. Slack(misses[r]) \in Nat /\ Slack(misses[r]) >= Budget
    BY <2>1, SlackFacts
  <2>3. o = "redis" => Within(r, Slack(misses[r]) + RefreshEvery - ref[r].left)'
    <3>1. o = "redis" => zset'[r] # None /\ zset'[r] <= Slack(misses'[r]) + RefreshEvery - ref'[r].left
      BY <1>1, <2>1, <2>2 DEF Within
    <3> QED
      BY <3>1 DEF Within
  <2> QED
    BY <1>1, <2>3 DEF Held, Sound
<1> QED
  BY <1>2, <1>3, <1>4, <1>5 DEF Sound

\* FallBack, of a request whose acquire is not answered.
LEMMA FallBackSound ==
  ASSUME IInv, Typed', NEW r \in Reqs, req[r].pc \in {"new", "acquiring"},
         NEW o \in {"local", "unknown"}, FallBack(r, o),
         UNCHANGED <<lost, zset, keyLeft, misses>>,
         wire' = Abandon({"acquire"}, r), reply' = NoReply({"acquire"}, r),
         o = "local" => \A c \in {"waits", "gone"} : ~On("acquire", r, c)
  PROVE  \A q \in Reqs : Sound(q)'
<1> USE LeaseAssumption
<1>1. Typed /\ Sound(r)
  BY DEF IInv
<1>2. /\ \A q \in Reqs \ {r}, op \in Ops, c \in {"waits", "gone"} :
           On(op, q, c)' <=> On(op, q, c)
      /\ \A op \in Ops \ {"acquire"}, c \in {"waits", "gone"} :
           On(op, r, c)' <=> On(op, r, c)
      /\ ~On("acquire", r, "waits")'
      /\ On("acquire", r, "gone")' => On("acquire", r, "waits") \/ On("acquire", r, "gone")
  BY <1>1, AbandonStep DEF Ops
<1>3. \A q \in Reqs, op \in Ops, a \in {"yes", "no"} :
        Got(op, q, a)' <=> Got(op, q, a) /\ (q # r \/ op # "acquire")
  BY ReplyStep
<1>4. \A q \in Reqs \ {r} : Kept(q)
  BY <1>1, <1>2, <1>3 DEF Kept, Typed, FallBack, Hold, Refuse
<1>5. Sound(r)'
  <2>1. CASE Refuse(r)
    <3>1. req'[r].pc = "over" /\ ref'[r].pc = "off" /\ r \notin lost /\ ~Live(r)
      BY <1>1, <2>1 DEF Refuse, Sound, Control, Held, Live, Typed
    <3>2. \A a \in {"yes", "no"} : ~Got("refresh", r, a) /\ ~On("refresh", r, "waits")
      BY <1>1, <3>1, <2>1 DEF Refuse, Sound, Replies, Commands
    <3>3. ~On("remove", r, "waits")
      BY <1>1 DEF Sound, Commands
    <3> QED
      BY <1>1, <1>2, <1>3, <3>1, <3>2, <3>3, EndedSound DEF Ops
  <2>2. CASE local' = local \cup {r} /\ Hold(r, o)
    <3>1. req'[r].pc = "held" /\ own'[r] = o /\ ref'[r] = Asleep /\ r \in local'
      BY <1>1, <2>2 DEF Hold, Typed
    <3> QED
      BY <1>1, <1>2, <1>3, <3>1, AdmittedSound DEF Ops
  <2> QED
    BY <2>1, <2>2 DEF FallBack
<1> QED
  BY <1>4, <1>5, OthersKept

LEMMA AcquireOfflineSound ==
  ASSUME IInv, Typed', NEW r \in Reqs, AcquireOffline(r)
  PROVE  \A q \in Reqs : Sound(q)'
<1>1. Typed /\ Sound(r) /\ req[r].pc = "new"
  BY DEF IInv, AcquireOffline
<1>2. \A c \in {"waits", "gone"} : ~On("acquire", r, c)
  BY <1>1 DEF Sound, Commands
<1>3. wire' = Abandon({"acquire"}, r)
  <2>1. \A w \in wire : ~(w.r = r /\ w.op = "acquire")
    <3>1. \A w \in wire : w = Msg(w.op, w.r, w.caller) /\ w.caller \in {"waits", "gone"}
      BY <1>1 DEF Msg, Typed
    <3> QED
      BY <3>1, <1>2 DEF On
  <2> QED
    BY <2>1 DEF Abandon, AcquireOffline
<1>4. reply' = NoReply({"acquire"}, r)
  <2>1. \A a \in {"yes", "no"} : ~Got("acquire", r, a)
    BY <1>1 DEF Sound, Replies
  <2>2. \A a \in reply : a = [op |-> a.op, r |-> a.r, says |-> a.says] /\ a.says \in {"yes", "no"}
    BY <1>1 DEF Typed
  <2>3. \A a \in reply : a.r # r \/ a.op # "acquire"
    BY <2>1, <2>2 DEF Got
  <2> QED
    BY <2>3 DEF NoReply, AcquireOffline
<1> QED
  BY <1>1, <1>2, <1>3, <1>4, FallBackSound DEF AcquireOffline, bucket

LEMMA AcquireFailsSound ==
  ASSUME IInv, Typed', NEW r \in Reqs, AcquireFails(r)
  PROVE  \A q \in Reqs : Sound(q)'
BY FallBackSound DEF AcquireFails, bucket

LEMMA AcquiredSound ==
  ASSUME IInv, Typed', NEW r \in Reqs, Acquired(r)
  PROVE  \A q \in Reqs : Sound(q)'
<1> USE LeaseAssumption
<1>1. Typed /\ Sound(r) /\ req[r].pc = "acquiring" /\ UNCHANGED <<lost, wire, zset, keyLeft, misses>>
  BY DEF IInv, Acquired, bucket
<1>2. \A q \in Reqs, op \in Ops, c \in {"waits", "gone"} : On(op, q, c)' <=> On(op, q, c)
  BY <1>1 DEF On
<1>3. \A q \in Reqs, op \in Ops, a \in {"yes", "no"} :
        Got(op, q, a)' <=> Got(op, q, a) /\ (q # r \/ op # "acquire")
  BY ReplyStep DEF Acquired
<1>4. \A q \in Reqs \ {r} : Kept(q)
  BY <1>1, <1>2, <1>3 DEF Kept, Typed, Acquired, Hold, Refuse
<1>5. PICK a \in reply : /\ a.r = r /\ a.op = "acquire"
                         /\ \/ a.says = "yes" /\ Hold(r, "redis") /\ UNCHANGED local
                            \/ a.says = "no" /\ Refuse(r)
  BY DEF Acquired
<1>6. Got("acquire", r, a.says) /\ a.says \in {"yes", "no"}
  BY <1>1, <1>5 DEF Got, Typed
<1>7. /\ ~On("acquire", r, "waits") /\ ~On("acquire", r, "gone") /\ ~On("remove", r, "waits")
      /\ ref[r].pc = "off" /\ ~On("refresh", r, "waits") /\ r \notin lost
      /\ ~Got("refresh", r, "yes") /\ ~Got("refresh", r, "no")
  <2>1. ref[r].pc = "off" /\ ~Live(r)
    BY <1>1 DEF Sound, Control, Live
  <2>2. r \notin lost
    BY <1>1, <2>1 DEF Sound, Held
  <2>3. ~Got("refresh", r, "yes") /\ ~Got("refresh", r, "no")
    BY <1>1, <2>1 DEF Sound, Replies
  <2>4. \A b \in {"yes", "no"} : Got("acquire", r, b) => ~On("acquire", r, "waits")
    BY <1>1 DEF Sound, Replies
  <2>5. ~On("acquire", r, "waits")
    BY <1>6, <2>4
  <2> QED
    BY <1>1, <2>1, <2>2, <2>3, <2>5 DEF Sound, Commands
<1>8. Sound(r)'
  <2>1. CASE a.says = "yes" /\ Hold(r, "redis")
    <3>1. req'[r].pc = "held" /\ own'[r] = "redis" /\ ref'[r] = Asleep
      BY <1>1, <2>1 DEF Hold, Typed
    <3>2. Within(r, Budget)
      <4>1. Within(r, Budget - req[r].left)
        BY <1>1, <1>6, <2>1 DEF Sound, Replies
      <4>2. zset[r] # None => zset[r] \in Nat
        BY <1>1 DEF Typed
      <4>3. req[r].left \in Nat
        BY <1>1 DEF Typed, Requests
      <4> QED
        BY <4>1, <4>2, <4>3 DEF Within
    <3> QED
      BY <1>1, <1>2, <1>3, <1>7, <3>1, <3>2, AdmittedSound DEF Ops
  <2>2. CASE Refuse(r)
    <3>1. req'[r].pc = "over" /\ ref'[r].pc = "off"
      BY <1>1, <1>7, <2>2 DEF Refuse, Typed
    <3> QED
      BY <1>1, <1>2, <1>3, <1>7, <3>1, EndedSound DEF Ops
  <2> QED
    BY <1>5, <2>1, <2>2
<1> QED
  BY <1>4, <1>8, OthersKept

LEMMA CancelAcquireSound ==
  ASSUME IInv, Typed', NEW r \in Reqs, CancelAcquire(r)
  PROVE  \A q \in Reqs : Sound(q)'
<1>1. /\ Typed /\ Sound(r) /\ req[r].pc = "acquiring"
      /\ wire' = Abandon({"acquire"}, r) /\ UNCHANGED <<ref, own, local, lost, zset, keyLeft, misses>>
  BY DEF IInv, CancelAcquire, bucket
<1>2. /\ \A q \in Reqs \ {r}, op \in Ops, c \in {"waits", "gone"} :
           On(op, q, c)' <=> On(op, q, c)
      /\ \A op \in Ops \ {"acquire"}, c \in {"waits", "gone"} :
           On(op, r, c)' <=> On(op, r, c)
      /\ ~On("acquire", r, "waits")'
      /\ On("acquire", r, "gone")' => On("acquire", r, "waits") \/ On("acquire", r, "gone")
  BY <1>1, AbandonStep DEF Ops
<1>3. \A q \in Reqs, op \in Ops, a \in {"yes", "no"} :
        Got(op, q, a)' <=> Got(op, q, a) /\ (q # r \/ op # "acquire")
  BY ReplyStep DEF CancelAcquire
<1>4. \A q \in Reqs \ {r} : Kept(q)
  BY <1>1, <1>2, <1>3 DEF Kept, Typed, CancelAcquire
<1>5. Sound(r)'
  <2>1. ref[r].pc = "off" /\ ~Live(r)
    BY <1>1 DEF Sound, Control, Live
  <2>2. r \notin lost
    BY <1>1, <2>1 DEF Sound, Held
  <2>3. \A a \in {"yes", "no"} : ~Got("refresh", r, a)
    BY <1>1, <2>1 DEF Sound, Replies
  <2>4. ~On("refresh", r, "waits") /\ ~On("remove", r, "waits")
    BY <1>1, <2>1 DEF Sound, Commands
  <2>5. req'[r].pc = "over" /\ ref'[r].pc = "off"
    BY <1>1, <2>1 DEF CancelAcquire, Typed
  <2> QED
    BY <1>1, <1>2, <1>3, <2>2, <2>3, <2>4, <2>5, EndedSound DEF Ops
<1> QED
  BY <1>4, <1>5, OthersKept

-----------------------------------------------------------------------------
(* commit and release. *)

\* Finish, with r's calls given up and perhaps a command sent.
LEMMA FinishSound ==
  ASSUME IInv, Typed', NEW r \in Reqs, NEW pc \in {"committing", "over"}, NEW left,
         Finish(r, pc, left), req[r].pc \in {"held", "committing"},
         local' \in {local, local \ {r}}, UNCHANGED <<zset, keyLeft>>,
         NEW ops \in SUBSET Ops, "refresh" \in ops,
         reply' = NoReply(ops, r),
         \A q \in Reqs \ {r}, op \in Ops, c \in {"waits", "gone"} :
           On(op, q, c)' <=> On(op, q, c),
         ~On("refresh", r, "waits")',
         On("remove", r, "waits")' => pc = "committing",
         \A c \in {"waits", "gone"} : On("acquire", r, c)' <=> On("acquire", r, c)
  PROVE  \A q \in Reqs : Sound(q)'
<1>1. Typed /\ Sound(r)
  BY DEF IInv
<1>2. \A q \in Reqs, op \in Ops, a \in {"yes", "no"} :
        Got(op, q, a)' <=> Got(op, q, a) /\ (q # r \/ op \notin ops)
  BY ReplyStep
<1>3. \A q \in Reqs \ {r} : Kept(q)
  BY <1>1, <1>2 DEF Kept, Typed, Finish, StopRefresh
<1>4. Sound(r)'
  <2>1. req'[r].pc = pc /\ ref'[r].pc \in {"off", "answered"} /\ r \notin lost'
    BY <1>1 DEF Finish, StopRefresh, Off, Typed
  <2>2. ~On("acquire", r, "waits")
    BY <1>1 DEF Sound, Commands
  <2>3. \A a \in {"yes", "no"} : ~Got("acquire", r, a)
    BY <1>1 DEF Sound, Replies
  <2>4. \A a \in {"yes", "no"} : ~Got("acquire", r, a)' /\ ~Got("refresh", r, a)'
    BY <1>2, <2>3 DEF Ops
  <2> QED
    BY <1>1, <2>1, <2>2, <2>4, EndedSound
<1> QED
  BY <1>3, <1>4, OthersKept

LEMMA CommitOfflineSound ==
  ASSUME IInv, Typed', NEW r \in Reqs, CommitOffline(r)
  PROVE  \A q \in Reqs : Sound(q)'
<1>1. /\ Typed /\ Sound(r) /\ req[r].pc = "held" /\ Finish(r, "over", 0)
      /\ wire' = Abandon({"refresh"}, r) /\ reply' = NoReply({"refresh"}, r)
      /\ local' = local \ {r} /\ UNCHANGED <<zset, keyLeft>>
  BY DEF IInv, CommitOffline, Live, bucket
<1>2. /\ \A q \in Reqs \ {r}, op \in Ops, c \in {"waits", "gone"} :
           On(op, q, c)' <=> On(op, q, c)
      /\ \A op \in Ops \ {"refresh"}, c \in {"waits", "gone"} : On(op, r, c)' <=> On(op, r, c)
      /\ ~On("refresh", r, "waits")'
  BY <1>1, AbandonStep DEF Ops
<1>3. ~On("remove", r, "waits")'
  BY <1>1, <1>2 DEF Sound, Commands, Ops
<1>4. {"refresh"} \in SUBSET Ops /\ "refresh" \in {"refresh"} /\ "acquire" \in Ops \ {"refresh"}
  BY DEF Ops
<1> QED
  BY <1>1, <1>2, <1>3, <1>4, FinishSound

LEMMA SendCommitSound ==
  ASSUME IInv, Typed', NEW r \in Reqs, SendCommit(r)
  PROVE  \A q \in Reqs : Sound(q)'
<1>1. /\ Typed /\ Sound(r) /\ req[r].pc = "held" /\ Finish(r, "committing", Budget)
      /\ wire' = Abandon({"refresh"}, r) \cup {Msg("remove", r, "waits")}
      /\ reply' = NoReply({"refresh"}, r)
      /\ local' = local /\ UNCHANGED <<zset, keyLeft>>
  BY DEF IInv, SendCommit, Live, bucket
<1>2. /\ \A q \in Reqs \ {r}, op \in Ops, c \in {"waits", "gone"} :
           On(op, q, c)' <=> On(op, q, c)
      /\ \A c \in {"waits", "gone"} : On("acquire", r, c)' <=> On("acquire", r, c)
      /\ ~On("refresh", r, "waits")'
  BY <1>1, SendStep DEF Ops
<1>3. {"refresh"} \in SUBSET Ops /\ "refresh" \in {"refresh"}
  BY DEF Ops
<1> QED
  BY <1>1, <1>2, <1>3, FinishSound

LEMMA ReleaseSound ==
  ASSUME IInv, Typed', NEW r \in Reqs, Release(r)
  PROVE  \A q \in Reqs : Sound(q)'
<1> DEFINE ops == {"refresh", "remove"}
<1>1. /\ Typed /\ Sound(r) /\ req[r].pc \in {"held", "committing"} /\ Finish(r, "over", 0)
      /\ \/ wire' = Abandon(ops, r)
         \/ wire' = Abandon(ops, r) \cup {Msg("remove", r, "gone")}
      /\ reply' = NoReply(ops, r)
      /\ local' = local \ {r} /\ UNCHANGED <<zset, keyLeft>>
  <2>1. \A x : x \cup {} = x
    OBVIOUS
  <2> QED
    BY <2>1 DEF IInv, Release, Live, bucket
<1>2. "acquire" \in Ops \ ops /\ "refresh" \in Ops \cap ops /\ "remove" \in Ops \cap ops
      /\ ops \in SUBSET Ops
  BY DEF Ops
<1> HIDE DEF ops
<1>3. /\ \A q \in Reqs \ {r}, op \in Ops, c \in {"waits", "gone"} :
           On(op, q, c)' <=> On(op, q, c)
      /\ \A c \in {"waits", "gone"} : On("acquire", r, c)' <=> On("acquire", r, c)
      /\ ~On("refresh", r, "waits")' /\ ~On("remove", r, "waits")'
  <2>1. CASE wire' = Abandon(ops, r)
    BY <1>1, <1>2, <2>1, AbandonStep
  <2>2. CASE wire' = Abandon(ops, r) \cup {Msg("remove", r, "gone")}
    BY <1>1, <1>2, <2>2, SendStep DEF Ops
  <2> QED
    BY <1>1, <2>1, <2>2
<1> QED
  BY <1>1, <1>2, <1>3, FinishSound

LEMMA CommitEndsSound ==
  ASSUME IInv, Typed', NEW r \in Reqs, CommitEnds(r)
  PROVE  \A q \in Reqs : Sound(q)'
<1>1. /\ Typed /\ Sound(r) /\ req[r].pc = "committing" /\ local' = local \ {r}
      /\ req' = [req EXCEPT ![r] = [pc |-> "over", left |-> 0]]
      /\ wire' = Abandon({"remove"}, r) /\ reply' = NoReply({"remove"}, r)
      /\ UNCHANGED <<ref, own, lost, zset, keyLeft, misses>>
  BY DEF IInv, CommitEnds, bucket
<1>2. /\ \A q \in Reqs \ {r}, op \in Ops, c \in {"waits", "gone"} :
           On(op, q, c)' <=> On(op, q, c)
      /\ \A op \in Ops \ {"remove"}, c \in {"waits", "gone"} : On(op, r, c)' <=> On(op, r, c)
      /\ ~On("remove", r, "waits")'
  BY <1>1, AbandonStep DEF Ops
<1>3. \A q \in Reqs, op \in Ops, a \in {"yes", "no"} :
        Got(op, q, a)' <=> Got(op, q, a) /\ (q # r \/ op # "remove")
  BY <1>1, ReplyStep
<1>4. \A q \in Reqs \ {r} : Kept(q)
  BY <1>1, <1>2, <1>3 DEF Kept, Typed
<1>5. Sound(r)'
  <2>1. ~Live(r) /\ ref[r].pc \in {"off", "answered"}
    BY <1>1 DEF Sound, Control, Live, Typed, Tasks
  <2>2. r \notin lost
    BY <1>1, <2>1 DEF Sound, Held
  <2>3. \A a \in {"yes", "no"} : ~Got("refresh", r, a) /\ ~Got("acquire", r, a)
    BY <1>1, <2>1 DEF Sound, Replies
  <2>4. ~On("refresh", r, "waits") /\ ~On("acquire", r, "waits")
    BY <1>1, <2>1 DEF Sound, Commands
  <2>5. req'[r].pc = "over" /\ ref'[r] = ref[r]
    BY <1>1 DEF Typed
  <2>6. \A a \in {"yes", "no"} : ~Got("acquire", r, a)' /\ ~Got("refresh", r, a)'
    BY <1>3, <2>3 DEF Ops
  <2>7. ~On("refresh", r, "waits")' /\ ~On("acquire", r, "waits")'
        /\ (On("acquire", r, "gone")' => On("acquire", r, "gone"))
    BY <1>2, <2>4 DEF Ops
  <2> QED
    BY <1>1, <1>2, <2>1, <2>2, <2>5, <2>6, <2>7, EndedSound
<1> QED
  BY <1>4, <1>5, OthersKept

\* The death of a replica.
LEMMA CrashSound ==
  ASSUME IInv, Typed', NEW h \in Replicas, Crash(h)
  PROVE  \A q \in Reqs : Sound(q)'
<1>1. Typed /\ UNCHANGED <<zset, keyLeft>>
  BY DEF IInv, Crash, bucket
<1>2. \A w \in wire : w = Msg(w.op, w.r, w.caller) /\ w.caller \in {"waits", "gone"}
  BY <1>1 DEF Msg, Typed
<1>3. \A o, u, c : Msg(o, u, c).op = o /\ Msg(o, u, c).r = u /\ Msg(o, u, c).caller = c
  BY DEF Msg
<1>4. wire' = {w \in wire : Home[w.r] # h}
                 \cup {Msg(w.op, w.r, "gone") : w \in {v \in wire : Home[v.r] = h}}
  BY DEF Crash
<1>5. ASSUME NEW q \in Reqs, Home[q] # h PROVE Sound(q)'
  <2>1. \A op \in Ops, c \in {"waits", "gone"} : On(op, q, c)' <=> On(op, q, c)
    BY <1>2, <1>3, <1>4, <1>5 DEF On
  <2>2. \A op \in Ops, a \in {"yes", "no"} : Got(op, q, a)' <=> Got(op, q, a)
    BY <1>5 DEF Got, Crash
  <2>3. Kept(q)
    BY <1>1, <1>5, <2>1, <2>2 DEF Kept, Crash, Typed
  <2> QED
    BY <2>3, KeptSound DEF IInv
<1>6. ASSUME NEW q \in Reqs, Home[q] = h PROVE Sound(q)'
  <2>1. \A op \in Ops : /\ ~On(op, q, "waits")'
                        /\ On(op, q, "gone")' => On(op, q, "waits") \/ On(op, q, "gone")
    BY <1>2, <1>3, <1>4, <1>6 DEF On
  <2>2. \A op \in Ops, a \in {"yes", "no"} : ~Got(op, q, a)'
    BY <1>6 DEF Got, Crash
  <2>3. /\ ref'[q].pc = "off" /\ q \notin lost' /\ Sound(q)
        /\ req'[q].pc = IF req[q].pc = "new" THEN "new" ELSE "over"
    <3>1. ref'[q].pc = "off" /\ q \notin lost'
      BY <1>6 DEF Crash, Off
    <3>2. req[q].pc \in {"new", "acquiring", "held", "committing", "over"}
      BY <1>1 DEF Typed, Requests
    <3> QED
      BY <1>6, <3>1, <3>2 DEF Crash, IInv
  <2>4. CASE req[q].pc = "new"
    <3>1. req'[q].pc = "new" /\ ~Live(q)' /\ zset[q] = None
      BY <2>3, <2>4 DEF Live, Sound, Commands
    <3>2. \A op \in Ops, c \in {"waits", "gone"} : ~On(op, q, c)'
      BY <2>1, <2>3, <2>4 DEF Sound, Commands, Ops
    <3>3. Control(q)'
      BY <2>3, <3>1 DEF Control
    <3>4. Commands(q)'
      BY <1>1, <3>1, <3>2 DEF Commands, Ops
    <3>5. Replies(q)'
      BY <2>2, <3>1 DEF Replies, Ops
    <3>6. Held(q)'
      BY <1>1, <2>3, <3>1 DEF Held
    <3> QED
      BY <3>3, <3>4, <3>5, <3>6 DEF Sound
  <2>5. CASE req[q].pc # "new"
    <3>1. req'[q].pc = "over" /\ zset'[q] = zset[q] /\ keyLeft' = keyLeft
      BY <1>1, <2>3, <2>5
    <3> QED
      BY <1>1, <2>1, <2>2, <2>3, <3>1, EndedSound DEF Ops
  <2> QED
    BY <2>4, <2>5
<1> QED
  BY <1>5, <1>6

-----------------------------------------------------------------------------
(* The refresh task. *)

\* The task of a live request sleeps again.
LEMMA AsleepSound ==
  ASSUME Typed, Typed', NEW r \in Reqs, Sound(r), Live(r), Live(r)', ref'[r] = Asleep,
         own'[r] # None, own'[r] # "redis" => r \in local',
         zset'[r] = zset[r], keyLeft' = keyLeft,
         own'[r] = "redis" /\ misses'[r] <= Misses => Within(r, Slack(misses'[r])),
         r \in lost' => r \in lost /\ own'[r] = "redis" /\ misses'[r] > Misses,
         \A c \in {"waits", "gone"} : On("acquire", r, c)' <=> On("acquire", r, c),
         On("acquire", r, "gone") => own'[r] = "unknown",
         ~On("refresh", r, "waits")',
         \A c \in {"waits", "gone"} : On("remove", r, c)' <=> On("remove", r, c),
         \A a \in {"yes", "no"} : ~Got("acquire", r, a)' /\ ~Got("refresh", r, a)'
  PROVE  Sound(r)'
<1> USE LeaseAssumption
<1>1. ref'[r].pc = "sleep" /\ ref'[r].left = RefreshEvery /\ req[r].pc = "held"
      /\ req'[r].pc = "held"
  BY DEF Asleep, Live
<1>2. Control(r)'
  BY <1>1 DEF Control, Typed
<1>3. Commands(r)'
  BY <1>1 DEF Commands, Sound
<1>4. Replies(r)'
  BY <1>1 DEF Replies
<1>5. Held(r)'
  <2>1. misses'[r] \in Nat /\ (zset[r] # None => zset[r] \in Nat)
    BY DEF Typed
  <2>2. Slack(misses'[r]) \in Nat
    BY <2>1, SlackFacts
  <2>3. own'[r] = "redis" /\ misses'[r] <= Misses =>
          zset'[r] # None /\ zset'[r] <= Slack(misses'[r]) + RefreshEvery - ref'[r].left
    BY <1>1, <2>1, <2>2 DEF Within
  <2>4. own'[r] = "redis" /\ misses'[r] <= Misses =>
          Within(r, Slack(misses[r]) + RefreshEvery - ref[r].left)'
    BY <2>3 DEF Within
  <2>5. r \in lost' => zset'[r] = None
    BY DEF Sound, Held
  <2>6. (zset[r] # None => keyLeft + zset[r] >= Ttl + 1)'
    BY DEF Sound, Held
  <2> QED
    BY <1>1, <2>4, <2>5, <2>6 DEF Held
<1> QED
  BY <1>2, <1>3, <1>4, <1>5 DEF Sound

\* One failure more: the lease may be a period older.
LEMMA MissedSlack ==
  ASSUME Typed, Typed', NEW r \in Reqs, Missed(r), Sound(r), Live(r), own[r] = "redis",
         misses'[r] <= Misses
  PROVE  /\ misses[r] <= Misses
         /\ Slack(misses'[r]) = Slack(misses[r]) + Period
         /\ Slack(misses[r]) \in Nat /\ Period \in Nat
<1> USE LeaseAssumption
<1>1. misses[r] \in Nat /\ misses'[r] = IF misses[r] > Misses THEN misses[r] ELSE misses[r] + 1
  BY DEF Missed, Typed
<1>2. misses[r] <= Misses /\ misses'[r] = misses[r] + 1
  BY <1>1
<1> QED
  BY <1>1, <1>2, SlackFacts

\* What a task that is at work says about its request.
LEMMA AtWork ==
  ASSUME Typed, NEW r \in Reqs, Sound(r), ref[r].pc \in {"sleep", "flight"}
  PROVE  /\ Live(r) /\ req[r].pc = "held" /\ own[r] # None
         /\ own[r] # "redis" => r \in local
         /\ On("acquire", r, "gone") => own[r] = "unknown"
         /\ \A a \in {"yes", "no"} : ~Got("acquire", r, a)
         /\ ref[r].left \in Nat /\ misses[r] \in Nat /\ (zset[r] # None => zset[r] \in Nat)
         /\ r \in lost => own[r] = "redis" /\ misses[r] > Misses
<1>1. Live(r) /\ req[r].pc = "held"
  BY DEF Sound, Control, Live
<1>2. own[r] \in {"redis", "local", "unknown", None} /\ ref[r].left \in Nat /\ misses[r] \in Nat
      /\ (zset[r] # None => zset[r] \in Nat)
  BY LeaseAssumption DEF Typed, Tasks
<1>3. own[r] # None /\ (own[r] # "redis" => r \in local)
  BY <1>1, <1>2 DEF Sound, Control
<1>4. On("acquire", r, "gone") => own[r] = "unknown"
  BY <1>1 DEF Sound, Commands
<1>5. \A a \in {"yes", "no"} : ~Got("acquire", r, a)
  BY <1>1 DEF Sound, Replies
<1>6. r \in lost => own[r] = "redis" /\ misses[r] > Misses
  BY DEF Sound, Held
<1> QED
  BY <1>1, <1>2, <1>3, <1>4, <1>5, <1>6

LEMMA RefreshOfflineSound ==
  ASSUME IInv, Typed', NEW r \in Reqs, RefreshOffline(r)
  PROVE  \A q \in Reqs : Sound(q)'
<1> USE LeaseAssumption
<1>1. /\ Typed /\ Sound(r) /\ ref[r].pc = "sleep" /\ ref[r].left = 0
      /\ UNCHANGED <<req, own, local, lost, wire, reply, zset, keyLeft>>
      /\ ref' = [ref EXCEPT ![r] = Asleep] /\ Missed(r)
  BY DEF IInv, RefreshOffline, Due, bucket
<1>2. /\ \A q \in Reqs, op \in Ops, c \in {"waits", "gone"} : On(op, q, c)' <=> On(op, q, c)
      /\ \A q \in Reqs, op \in Ops, a \in {"yes", "no"} : Got(op, q, a)' <=> Got(op, q, a)
  BY <1>1 DEF On, Got
<1>3. \A q \in Reqs \ {r} : Kept(q)
  BY <1>1, <1>2 DEF Kept, Typed, Missed
<1>4. Sound(r)'
  <2>1. /\ Live(r) /\ Live(r)' /\ ref'[r] = Asleep
        /\ ~On("refresh", r, "waits") /\ ~Got("refresh", r, "yes") /\ ~Got("refresh", r, "no")
    BY <1>1, AtWork DEF Live, Typed, Sound, Commands, Replies
  <2>2. ASSUME own[r] = "redis", misses'[r] <= Misses PROVE Within(r, Slack(misses'[r]))
    <3>1. misses[r] <= Misses /\ Slack(misses'[r]) = Slack(misses[r]) + Period
          /\ Slack(misses[r]) \in Nat /\ Period \in Nat
      BY <1>1, <2>1, <2>2, MissedSlack
    <3>2. Within(r, Slack(misses[r]) + RefreshEvery - ref[r].left)
      BY <1>1, <2>1, <2>2, <3>1 DEF Sound, Held
    <3>3. RefreshEvery <= Period
      BY DEF Period
    <3> QED
      BY <1>1, <3>1, <3>2, <3>3, AtWork DEF Within
  <2>3. r \in lost => own[r] = "redis" /\ misses'[r] > Misses
    BY <1>1, AtWork DEF Missed, Typed
  <2> QED
    BY <1>1, <1>2, <2>1, <2>2, <2>3, AtWork, AsleepSound DEF Ops
<1> QED
  BY <1>3, <1>4, OthersKept

LEMMA SendRefreshSound ==
  ASSUME IInv, Typed', NEW r \in Reqs, SendRefresh(r)
  PROVE  \A q \in Reqs : Sound(q)'
<1> USE LeaseAssumption
<1>1. /\ Typed /\ Sound(r) /\ ref[r].pc = "sleep" /\ ref[r].left = 0
      /\ UNCHANGED <<req, own, local, lost, reply, zset, keyLeft, misses>>
      /\ ref' = [ref EXCEPT ![r] = [pc |-> "flight", left |-> Budget, owned |-> own[r]]]
      /\ wire' = Abandon({}, r) \cup {Msg("refresh", r, "waits")}
  BY SendIsAbandonNothing DEF IInv, SendRefresh, Due, bucket
<1>2. /\ \A q \in Reqs \ {r}, op \in Ops, c \in {"waits", "gone"} :
           On(op, q, c)' <=> On(op, q, c)
      /\ \A op \in Ops, c \in {"waits", "gone"} :
           On(op, r, c)' <=> On(op, r, c) \/ (op = "refresh" /\ c = "waits")
  BY <1>1, SendStep DEF Ops
<1>3. \A q \in Reqs, op \in Ops, a \in {"yes", "no"} : Got(op, q, a)' <=> Got(op, q, a)
  BY <1>1 DEF Got
<1>4. \A q \in Reqs \ {r} : Kept(q)
  BY <1>1, <1>2, <1>3 DEF Kept, Typed
<1>5. /\ Live(r) /\ Live(r)' /\ req'[r].pc = "held" /\ req[r].pc = "held"
      /\ ref'[r].pc = "flight" /\ ref'[r].left = Budget /\ ref'[r].owned = own'[r]
      /\ own'[r] = own[r] /\ zset'[r] = zset[r] /\ misses'[r] = misses[r]
      /\ ~Got("refresh", r, "yes") /\ ~Got("refresh", r, "no")
  BY <1>1, AtWork DEF Live, Typed, Sound, Replies
<1>6. Control(r)'
  BY <1>1, <1>5 DEF Control, Sound
<1>7. Commands(r)'
  BY <1>1, <1>2, <1>5 DEF Commands, Sound, Ops
<1>8. Replies(r)'
  BY <1>1, <1>3, <1>5, AtWork DEF Replies, Ops
<1>9. Held(r)'
  <2>1. own[r] = "redis" /\ misses[r] <= Misses =>
          zset'[r] # None /\ zset'[r] <= Slack(misses'[r]) + Period - ref'[r].left
    <3>1. misses[r] <= Misses => Slack(misses[r]) \in Nat
      BY <1>1, SlackFacts, AtWork
    <3>2. own[r] = "redis" /\ misses[r] <= Misses =>
            Within(r, Slack(misses[r]) + RefreshEvery - ref[r].left)
      BY <1>1, <1>5 DEF Sound, Held
    <3> QED
      BY <1>1, <1>5, <3>1, <3>2, AtWork DEF Within, Period
  <2>2. own[r] = "redis" /\ misses[r] <= Misses =>
          Within(r, Slack(misses[r]) + Period - ref[r].left)'
    BY <2>1 DEF Within
  <2> QED
    BY <1>1, <1>5, <2>2 DEF Held, Sound
<1> QED
  BY <1>4, <1>6, <1>7, <1>8, <1>9, OthersKept DEF Sound

LEMMA RefreshFailsSound ==
  ASSUME IInv, Typed', NEW r \in Reqs, RefreshFails(r)
  PROVE  \A q \in Reqs : Sound(q)'
<1> USE LeaseAssumption
<1>1. /\ Typed /\ Sound(r) /\ ref[r].pc = "flight"
      /\ UNCHANGED <<req, own, local, lost, zset, keyLeft>>
      /\ ref' = [ref EXCEPT ![r] = Asleep] /\ Missed(r)
      /\ wire' = Abandon({"refresh"}, r) /\ reply' = NoReply({"refresh"}, r)
  BY DEF IInv, RefreshFails, bucket
<1>2. /\ \A q \in Reqs \ {r}, op \in Ops, c \in {"waits", "gone"} :
           On(op, q, c)' <=> On(op, q, c)
      /\ \A op \in Ops \ {"refresh"}, c \in {"waits", "gone"} : On(op, r, c)' <=> On(op, r, c)
      /\ ~On("refresh", r, "waits")'
  BY <1>1, AbandonStep DEF Ops
<1>3. \A q \in Reqs, op \in Ops, a \in {"yes", "no"} :
        Got(op, q, a)' <=> Got(op, q, a) /\ (q # r \/ op # "refresh")
  BY <1>1, ReplyStep
<1>4. \A q \in Reqs \ {r} : Kept(q)
  BY <1>1, <1>2, <1>3 DEF Kept, Typed, Missed
<1>5. Sound(r)'
  <2>1. Live(r) /\ Live(r)' /\ ref'[r] = Asleep
    BY <1>1, AtWork DEF Live, Typed
  <2>2. ASSUME own[r] = "redis", misses'[r] <= Misses PROVE Within(r, Slack(misses'[r]))
    <3>1. misses[r] <= Misses /\ Slack(misses'[r]) = Slack(misses[r]) + Period
          /\ Slack(misses[r]) \in Nat /\ Period \in Nat
      BY <1>1, <2>1, <2>2, MissedSlack
    <3>2. Within(r, Slack(misses[r]) + Period - ref[r].left)
      BY <1>1, <2>1, <2>2, <3>1 DEF Sound, Held
    <3> QED
      BY <1>1, <3>1, <3>2, AtWork DEF Within
  <2>3. r \in lost => own[r] = "redis" /\ misses'[r] > Misses
    BY <1>1, AtWork DEF Missed, Typed
  <2> QED
    BY <1>1, <1>2, <1>3, <2>1, <2>2, <2>3, AtWork, AsleepSound DEF Ops
<1> QED
  BY <1>4, <1>5, OthersKept

LEMMA RefreshedSound ==
  ASSUME IInv, Typed', NEW r \in Reqs, Refreshed(r)
  PROVE  \A q \in Reqs : Sound(q)'
<1> USE LeaseAssumption
<1>1. /\ Typed /\ Sound(r) /\ ref[r].pc = "flight" /\ reply' = NoReply({"refresh"}, r)
      /\ UNCHANGED <<req, own, local, wire, zset, keyLeft, misses>>
  BY DEF IInv, Refreshed, bucket
<1>2. \A q \in Reqs, op \in Ops, c \in {"waits", "gone"} : On(op, q, c)' <=> On(op, q, c)
  BY <1>1 DEF On
<1>3. \A q \in Reqs, op \in Ops, a \in {"yes", "no"} :
        Got(op, q, a)' <=> Got(op, q, a) /\ (q # r \/ op # "refresh")
  BY <1>1, ReplyStep
<1>4. \A q \in Reqs \ {r} : Kept(q)
  BY <1>1, <1>2, <1>3 DEF Kept, Typed, Refreshed
<1>5. /\ Live(r) /\ Live(r)' /\ req'[r].pc = "held" /\ ref[r].owned = own[r]
      /\ own'[r] = own[r] /\ zset'[r] = zset[r] /\ misses'[r] = misses[r]
      /\ \A a \in {"yes", "no"} : ~Got("acquire", r, a)' /\ ~Got("refresh", r, a)'
  <2>1. \A a \in {"yes", "no"} : ~Got("acquire", r, a)' /\ ~Got("refresh", r, a)'
    BY <1>1, <1>3, AtWork DEF Ops
  <2> QED
    BY <1>1, <2>1, AtWork DEF Live, Typed, Sound, Control
<1>6. PICK b \in reply :
        /\ b.r = r /\ b.op = "refresh"
        /\ \/ /\ b.says = "yes" /\ ref[r].owned = "unknown"
              /\ ref' = [ref EXCEPT ![r].pc = "answered", ![r].left = 0] /\ lost' = lost
           \/ /\ b.says = "yes" /\ ref[r].owned = "redis"
              /\ ref' = [ref EXCEPT ![r] = Asleep] /\ lost' = lost
           \/ /\ b.says = "no" /\ ref[r].owned = "redis"
              /\ ref' = [ref EXCEPT ![r] = Off] /\ lost' = lost \cup {r}
           \/ /\ b.says = "no" /\ ref[r].owned # "redis"
              /\ ref' = [ref EXCEPT ![r] = Asleep] /\ lost' = lost
  BY DEF Refreshed, IsMissing
<1>7. Got("refresh", r, b.says) /\ b.says \in {"yes", "no"}
  BY <1>1, <1>6 DEF Got, Typed
<1>8. ~On("refresh", r, "waits") /\ (b.says = "yes" => Within(r, Budget))
  <2>1. \A a \in {"yes", "no"} : Got("refresh", r, a) => ~On("refresh", r, "waits")
    BY <1>1 DEF Sound, Replies
  <2>2. Got("refresh", r, "yes") => Within(r, Budget - ref[r].left)
    BY <1>1 DEF Sound, Replies
  <2>3. Within(r, Budget - ref[r].left) => Within(r, Budget)
    BY <1>1, AtWork DEF Within
  <2> QED
    BY <1>7, <2>1, <2>2, <2>3
<1>9. Sound(r)'
  <2>1. CASE ref' = [ref EXCEPT ![r] = Asleep] /\ lost' = lost
             /\ (b.says = "yes" \/ ref[r].owned # "redis")
    <3>1. ref'[r] = Asleep
      BY <1>1, <2>1 DEF Typed
    <3>2. own[r] = "redis" => Within(r, Slack(misses'[r]))
      <4>1. Slack(misses[r]) \in Nat /\ Slack(misses[r]) >= Budget
        BY <1>1, AtWork, SlackFacts
      <4>2. own[r] = "redis" => Within(r, Budget)
        BY <1>5, <1>8, <2>1
      <4> QED
        BY <1>1, <1>5, <4>1, <4>2, AtWork DEF Within
    <3> QED
      BY <1>1, <1>2, <1>5, <1>8, <2>1, <3>1, <3>2, AtWork, AsleepSound DEF Ops
  <2>2. CASE /\ b.says = "yes" /\ ref[r].owned = "unknown"
             /\ ref' = [ref EXCEPT ![r].pc = "answered", ![r].left = 0] /\ lost' = lost
    <3>1. ref'[r].pc = "answered" /\ own'[r] = "unknown"
      BY <1>1, <1>5, <2>2 DEF Typed
    <3>2. Within(r, Budget)'
      BY <1>5, <1>8, <2>2 DEF Within
    <3>3. Control(r)'
      BY <1>1, <1>5, <3>1 DEF Control, Sound
    <3>4. Commands(r)'
      BY <1>1, <1>2, <1>5, <1>8, <3>1 DEF Commands, Sound, Ops, Live
    <3>5. Replies(r)'
      BY <1>5, <3>1, <3>2 DEF Replies
    <3>6. Held(r)'
      BY <1>1, <1>5, <3>1, <2>2 DEF Held, Sound
    <3> QED
      BY <3>3, <3>4, <3>5, <3>6 DEF Sound
  <2>3. CASE /\ b.says = "no" /\ ref[r].owned = "redis"
             /\ ref' = [ref EXCEPT ![r] = Off] /\ lost' = lost \cup {r}
    <3>1. ref'[r].pc = "off" /\ own'[r] = "redis" /\ r \in lost'
      BY <1>1, <1>5, <2>3 DEF Typed, Off
    <3>2. zset[r] = None /\ misses[r] > Misses
      BY <1>1, <1>5, <1>7, <2>3 DEF Sound, Replies
    <3>3. Control(r)'
      BY <1>1, <1>5, <3>1 DEF Control
    <3>4. Commands(r)'
      BY <1>1, <1>2, <1>5, <1>8, <3>1 DEF Commands, Sound, Ops, Live
    <3>5. Replies(r)'
      BY <1>5, <3>1 DEF Replies
    <3>6. Held(r)'
      <4>1. misses[r] \in Nat /\ ~(misses[r] <= Misses)
        BY <1>1, <3>2, AtWork
      <4> QED
        BY <1>5, <3>1, <3>2, <4>1 DEF Held
    <3> QED
      BY <3>3, <3>4, <3>5, <3>6 DEF Sound
  <2> QED
    BY <1>6, <2>1, <2>2, <2>3
<1> QED
  BY <1>4, <1>9, OthersKept

LEMMA PromoteSound ==
  ASSUME IInv, Typed', NEW r \in Reqs, Promote(r)
  PROVE  \A q \in Reqs : Sound(q)'
<1> USE LeaseAssumption
<1>1. /\ Typed /\ Sound(r) /\ ref[r].pc = "answered"
      /\ own' = [own EXCEPT ![r] = "redis"]
      /\ ref' = [ref EXCEPT ![r] = IF Live(r) THEN Asleep ELSE Off]
      /\ UNCHANGED <<req, local, lost, wire, reply, zset, keyLeft, misses>>
  BY DEF IInv, Promote, bucket
<1>2. /\ \A q \in Reqs, op \in Ops, c \in {"waits", "gone"} : On(op, q, c)' <=> On(op, q, c)
      /\ \A q \in Reqs, op \in Ops, a \in {"yes", "no"} : Got(op, q, a)' <=> Got(op, q, a)
  BY <1>1 DEF On, Got
<1>3. \A q \in Reqs \ {r} : Kept(q)
  BY <1>1, <1>2 DEF Kept, Typed
<1>4. /\ own'[r] = "redis" /\ zset'[r] = zset[r] /\ misses'[r] = misses[r]
      /\ misses[r] \in Nat /\ (zset[r] # None => zset[r] \in Nat)
      /\ req'[r] = req[r] /\ (Live(r)' <=> Live(r))
      /\ ~On("refresh", r, "waits") /\ ~Got("refresh", r, "yes") /\ ~Got("refresh", r, "no")
      /\ req[r].pc \in {"held", "committing", "over"}
  <2>1. req[r].pc \in {"held", "committing", "over"}
    BY <1>1 DEF Sound, Control, Typed, Requests
  <2> QED
    BY <1>1, <2>1 DEF Typed, Live, Sound, Commands, Replies
<1>5. ~On("acquire", r, "waits") /\ ~Got("acquire", r, "yes") /\ ~Got("acquire", r, "no")
  BY <1>1, <1>4 DEF Sound, Commands, Replies
<1>6. CASE Live(r)
  <2>1. own[r] = "unknown" /\ r \in local /\ Within(r, Budget) /\ ref'[r] = Asleep
    BY <1>1, <1>6 DEF Sound, Control, Replies, Typed
  <2>2. r \notin lost /\ ~On("acquire", r, "gone")
    BY <1>1, <2>1 DEF Sound, Held, Commands, Within
  <2>3. Within(r, Slack(misses'[r]))
    <3>1. Slack(misses[r]) \in Nat /\ Slack(misses[r]) >= Budget
      BY <1>4, SlackFacts
    <3> QED
      BY <1>4, <2>1, <3>1 DEF Within
  <2>4. Sound(r)'
    BY <1>1, <1>2, <1>4, <1>5, <1>6, <2>1, <2>2, <2>3, AsleepSound DEF Ops
  <2> QED
    BY <1>3, <2>4, OthersKept
<1>7. CASE ~Live(r)
  <2>1. ref'[r].pc = "off" /\ req[r].pc \in {"committing", "over"}
    BY <1>1, <1>4, <1>7 DEF Off, Typed, Live
  <2>2. r \notin lost /\ (On("remove", r, "waits") => req[r].pc = "committing")
    BY <1>1, <1>7 DEF Sound, Held, Commands
  <2>3. Sound(r)'
    BY <1>1, <1>2, <1>4, <1>5, <2>1, <2>2, EndedSound DEF Ops
  <2> QED
    BY <1>3, <2>3, OthersKept
<1> QED
  BY <1>6, <1>7

-----------------------------------------------------------------------------
(* The network and Redis. *)

LEMMA DeliveredWire ==
  ASSUME Typed, NEW w \in wire, wire' = wire \ {w}
  PROVE  /\ w.op \in Ops /\ w.r \in Reqs /\ w.caller \in {"waits", "gone"}
         /\ On(w.op, w.r, w.caller) /\ ~On(w.op, w.r, w.caller)'
         /\ \A q \in Reqs, op \in Ops, c \in {"waits", "gone"} : On(op, q, c)' => On(op, q, c)
<1>1. w = Msg(w.op, w.r, w.caller) /\ w.op \in Ops /\ w.r \in Reqs /\ w.caller \in {"waits", "gone"}
  BY DEF Typed, Msg
<1> QED
  BY <1>1 DEF On

LEMMA LoseSound ==
  ASSUME IInv, Typed', NEW w \in wire, Lose(w)
  PROVE  \A q \in Reqs : Sound(q)'
<1>1. Typed /\ wire' = wire \ {w}
      /\ UNCHANGED <<req, ref, own, local, lost, reply, zset, keyLeft, misses>>
  BY DEF IInv, Lose, client, bucket
<1>2. \A q \in Reqs, op \in Ops, a \in {"yes", "no"} : Got(op, q, a)' => Got(op, q, a)
  BY <1>1 DEF Got
<1>3. \A q \in Reqs : Kept(q)
  BY <1>1, <1>2, DeliveredWire DEF Kept, Typed
<1> QED
  BY <1>3, KeptSound DEF IInv

LEMMA AnswerGot ==
  ASSUME Typed, NEW w \in wire, NEW says \in {"yes", "no"}, Answer(w, says)
  PROVE  \A q \in Reqs, op \in Ops, a \in {"yes", "no"} :
           Got(op, q, a)' => \/ Got(op, q, a)
                             \/ w.caller = "waits" /\ op = w.op /\ q = w.r /\ a = says
BY DEF Answer, Got

\* What a request knows while its acquire is on its way.
LEMMA UnderWay ==
  ASSUME Typed, NEW r \in Reqs, Sound(r), NEW c \in {"waits", "gone"}, On("acquire", r, c)
  PROVE  /\ zset[r] = None /\ req[r].pc # "new" /\ r \notin lost
         /\ ~(Live(r) /\ own[r] = "redis")
         /\ \A d \in {"waits", "gone"} : On("acquire", r, d) => d = c
         /\ \A a \in {"yes", "no"} : Got("acquire", r, a) => req[r].pc = "acquiring" /\ c = "gone"
         /\ c = "waits" => req[r].pc = "acquiring"
<1>1. zset[r] = None /\ req[r].pc # "new"
  BY DEF Sound, Commands
<1>2. ~(Live(r) /\ own[r] = "redis")
  BY DEF Sound, Commands, Live
<1>3. r \notin lost
  BY <1>2 DEF Sound, Held
<1>4. \A d \in {"waits", "gone"} : On("acquire", r, d) => d = c
  BY DEF Sound, Commands
<1>5. \A a \in {"yes", "no"} : Got("acquire", r, a) => req[r].pc = "acquiring" /\ c = "gone"
  BY DEF Sound, Replies
<1> QED
  BY <1>1, <1>2, <1>3, <1>4, <1>5 DEF Sound, Commands

LEMMA PrunedFacts ==
  ASSUME Typed, NEW q \in Reqs
  PROVE  \/ Pruned[q] = zset[q]
         \/ zset[q] # None /\ zset[q] > Ttl /\ Pruned[q] = None
BY DEF Pruned

LEMMA ApplyAcquireSound ==
  ASSUME IInv, Typed', NEW w \in wire, wire' = wire \ {w}, ApplyAcquire(w), UNCHANGED client
  PROVE  \A q \in Reqs : Sound(q)'
<1> USE LeaseAssumption
<1> DEFINE r == w.r
<1>1. /\ Typed /\ r \in Reqs /\ w.caller \in {"waits", "gone"} /\ w.op = "acquire"
      /\ On("acquire", r, w.caller) /\ ~On("acquire", r, w.caller)'
      /\ \A q \in Reqs, op \in Ops, c \in {"waits", "gone"} : On(op, q, c)' => On(op, q, c)
      /\ UNCHANGED <<req, ref, own, local, lost>>
  BY DeliveredWire DEF IInv, ApplyAcquire, client
<1>2. /\ Sound(r) /\ zset[r] = None /\ req[r].pc # "new" /\ r \notin lost
      /\ ~(Live(r) /\ own[r] = "redis")
      /\ \A c \in {"waits", "gone"} : ~On("acquire", r, c)'
      /\ \A a \in {"yes", "no"} : Got("acquire", r, a) => req[r].pc = "acquiring"
      /\ w.caller = "waits" => req[r].pc = "acquiring"
  <2>1. Sound(r)
    BY <1>1 DEF IInv
  <2> HIDE DEF r
  <2>2. \A d \in {"waits", "gone"} : On("acquire", r, d) => d = w.caller
    BY <1>1, <2>1, UnderWay
  <2>3. \A c \in {"waits", "gone"} : ~On("acquire", r, c)'
    BY <1>1, <2>2 DEF Ops
  <2> QED
    BY <1>1, <2>1, <2>3, UnderWay
<1>3. PICK says \in {"yes", "no"} :
        /\ Answer(w, says)
        /\ \A q \in Reqs \ {r} : zset'[q] = Pruned[q] /\ misses'[q] = misses[q]
        /\ keyLeft' >= keyLeft
        /\ says = "yes" => zset'[r] = 0 /\ keyLeft' = Ttl + 1
        /\ says = "no" => zset'[r] = None
  <2>1. Pruned[r] = None /\ DOMAIN Pruned = Reqs
    BY <1>1, <1>2 DEF Pruned
  <2>2. keyLeft \in 0..(Ttl + 1)
    BY <1>1 DEF Typed
  <2>3. CASE Stamp(Pruned, r) /\ Answer(w, "yes")
    <3>1. /\ \A q \in Reqs \ {r} : zset'[q] = Pruned[q] /\ misses'[q] = misses[q]
          /\ zset'[r] = 0 /\ keyLeft' = Ttl + 1
      BY <1>1, <2>1, <2>3 DEF Stamp, Pruned, Typed
    <3>2. keyLeft' >= keyLeft
      BY <2>2, <3>1
    <3> QED
      BY <2>3, <3>1, <3>2
  <2>4. CASE zset' = Pruned /\ Answer(w, "no") /\ UNCHANGED <<keyLeft, misses>>
    <3>1. keyLeft' >= keyLeft
      BY <2>2, <2>4
    <3> QED
      BY <2>1, <2>4, <3>1
  <2> QED
    BY <2>3, <2>4 DEF ApplyAcquire
<1>4. \A q \in Reqs, op \in Ops, a \in {"yes", "no"} :
        Got(op, q, a)' => \/ Got(op, q, a)
                          \/ w.caller = "waits" /\ op = "acquire" /\ q = r /\ a = says
  BY <1>1, <1>3, AnswerGot
<1> HIDE DEF r
<1>5. \A q \in Reqs \ {r} : Kept(q)
  BY <1>1, <1>3, <1>4, PrunedFacts DEF Kept
<1>6. Sound(r)'
  <2>1. /\ req'[r] = req[r] /\ ref'[r] = ref[r] /\ own'[r] = own[r] /\ (Live(r)' <=> Live(r))
        /\ (r \in local' <=> r \in local) /\ r \notin lost'
    BY <1>1, <1>2 DEF Live
  <2>2. Control(r)'
    BY <1>1, <1>2, <2>1 DEF Control, Sound
  <2>3. Commands(r)'
    BY <1>1, <1>2, <2>1 DEF Commands, Sound, Ops
  <2>4. Replies(r)'
    <3>1. req[r].left \in 0..Budget /\ ref[r].left \in Nat /\ (ref[r].pc = "flight" => ref[r].left <= Budget)
      BY <1>1, <1>2 DEF Typed, Requests, Tasks, Sound, Control
    <3>2. \A a \in {"yes", "no"} : Got("refresh", r, a)' => Got("refresh", r, a)
      BY <1>1, <1>4 DEF Ops
    <3>3. \A a \in {"yes", "no"} : Got("refresh", r, a)' => ref[r].pc = "flight" /\ ~On("refresh", r, "waits")
      BY <1>2, <3>2 DEF Sound, Replies
    <3>4. ~Got("refresh", r, "yes")' /\ ~(Live(r) /\ ref[r].pc = "answered")
      BY <1>2, <3>2 DEF Sound, Replies, Within
    <3>5. \A a \in {"yes", "no"} : Got("acquire", r, a)' => req[r].pc = "acquiring"
      BY <1>1, <1>2, <1>4 DEF Ops
    <3>6. Got("acquire", r, "yes")' => Within(r, Budget - req[r].left)'
      <4>1. ~Got("acquire", r, "yes")
        BY <1>2 DEF Sound, Replies, Within
      <4>2. Got("acquire", r, "yes")' => says = "yes"
        BY <1>1, <1>4, <4>1 DEF Ops
      <4>3. says = "yes" => zset'[r] # None /\ zset'[r] <= Budget - req'[r].left
        BY <1>3, <2>1, <3>1
      <4> QED
        BY <4>2, <4>3 DEF Within
    <3>7. Got("refresh", r, "no")' => ~(own[r] = "redis")
      BY <1>2, <3>3 DEF Sound, Control
    <3> QED
      BY <1>1, <1>2, <2>1, <3>3, <3>4, <3>5, <3>6, <3>7 DEF Replies, Ops
  <2>5. Held(r)'
    BY <1>2, <1>3, <2>1 DEF Held
  <2> QED
    BY <2>2, <2>3, <2>4, <2>5 DEF Sound
<1> QED
  BY <1>1, <1>5, <1>6, OthersKept

LEMMA ApplyRefreshSound ==
  ASSUME IInv, Typed', NEW w \in wire, wire' = wire \ {w}, ApplyRefresh(w), UNCHANGED client
  PROVE  \A q \in Reqs : Sound(q)'
<1> USE LeaseAssumption
<1> DEFINE r == w.r
<1>1. /\ Typed /\ r \in Reqs /\ w.caller \in {"waits", "gone"} /\ w.op = "refresh"
      /\ On("refresh", r, w.caller) /\ ~On("refresh", r, w.caller)'
      /\ \A q \in Reqs, op \in Ops, c \in {"waits", "gone"} : On(op, q, c)' => On(op, q, c)
      /\ UNCHANGED <<req, ref, own, local, lost>>
  BY DeliveredWire DEF IInv, ApplyRefresh, client
<1>2. Sound(r)
  BY <1>1 DEF IInv
<1>3. PICK says \in {"yes", "no"} :
        /\ Answer(w, says)
        /\ \A q \in Reqs \ {r} : zset'[q] = zset[q] /\ misses'[q] = misses[q]
        /\ keyLeft' >= keyLeft
        /\ says = "yes" => /\ zset[r] # None /\ zset'[r] = 0 /\ misses'[r] = 0
                           /\ keyLeft' = Ttl + 1
        /\ says = "no" => /\ zset[r] = None /\ zset'[r] = None /\ misses'[r] = misses[r]
                          /\ keyLeft' = keyLeft
  <2>1. keyLeft \in 0..(Ttl + 1)
    BY <1>1 DEF Typed
  <2>2. CASE r \in Members /\ Stamp(zset, r) /\ Answer(w, "yes")
    <3>1. /\ \A q \in Reqs \ {r} : zset'[q] = zset[q] /\ misses'[q] = misses[q]
          /\ zset'[r] = 0 /\ misses'[r] = 0 /\ keyLeft' = Ttl + 1 /\ zset[r] # None
      BY <1>1, <2>2 DEF Stamp, Typed, Members
    <3>2. keyLeft' >= keyLeft
      BY <2>1, <3>1
    <3> QED
      BY <2>2, <3>1, <3>2
  <2>3. CASE r \notin Members /\ Answer(w, "no") /\ UNCHANGED <<zset, keyLeft, misses>>
    <3>1. keyLeft' >= keyLeft /\ zset[r] = None
      BY <1>1, <2>1, <2>3 DEF Members
    <3> QED
      BY <2>3, <3>1
  <2> QED
    BY <2>2, <2>3 DEF ApplyRefresh
<1>4. \A q \in Reqs, op \in Ops, a \in {"yes", "no"} :
        Got(op, q, a)' => \/ Got(op, q, a)
                          \/ w.caller = "waits" /\ op = "refresh" /\ q = r /\ a = says
  BY <1>1, <1>3, AnswerGot
<1> HIDE DEF r
<1>5. \A q \in Reqs \ {r} : Kept(q)
  BY <1>1, <1>3, <1>4 DEF Kept
<1>6. /\ req'[r] = req[r] /\ ref'[r] = ref[r] /\ own'[r] = own[r] /\ (Live(r)' <=> Live(r))
      /\ (r \in local' <=> r \in local) /\ (r \in lost' <=> r \in lost)
  BY <1>1 DEF Live
<1>7. /\ req[r].left \in 0..Budget /\ ref[r].left \in Nat /\ misses[r] \in Nat
      /\ ref[r].pc \in {"off", "sleep", "flight", "answered"}
      /\ ref[r].pc = "sleep" => ref[r].left <= RefreshEvery
      /\ ref[r].pc = "flight" => ref[r].left <= Budget /\ Live(r)
      /\ w.caller = "waits" => ref[r].pc = "flight"
  BY <1>1, <1>2 DEF Typed, Requests, Tasks, Sound, Control, Commands
<1>8. Sound(r)'
  <2>1. Control(r)'
    BY <1>2, <1>6 DEF Control, Sound
  <2>2. Commands(r)'
    <3>1. req[r].pc # "new"
      BY <1>1, <1>2 DEF Sound, Commands, Ops
    <3> QED
      BY <1>1, <1>2, <1>3, <1>6, <3>1 DEF Commands, Sound, Ops
  <2>3. Replies(r)'
    <3>1. \A a \in {"yes", "no"} : Got("acquire", r, a)' =>
            Got("acquire", r, a) /\ req[r].pc = "acquiring" /\ ~On("acquire", r, "waits")'
      <4>1. \A a \in {"yes", "no"} : Got("acquire", r, a)' => Got("acquire", r, a)
        BY <1>1, <1>4 DEF Ops
      <4>2. \A a \in {"yes", "no"} : Got("acquire", r, a) =>
              req[r].pc = "acquiring" /\ ~On("acquire", r, "waits")
        BY <1>2 DEF Sound, Replies
      <4> QED
        BY <1>1, <4>1, <4>2 DEF Ops
    <3>2. \A a \in {"yes", "no"} : Got("refresh", r, a)' =>
            ref[r].pc = "flight" /\ ~On("refresh", r, "waits")'
      <4>1. \A a \in {"yes", "no"} : Got("refresh", r, a) =>
              ref[r].pc = "flight" /\ ~On("refresh", r, "waits")
        BY <1>2 DEF Sound, Replies
      <4> QED
        BY <1>1, <1>4, <1>7, <4>1 DEF Ops
    <3>3. CASE says = "yes"
      <4>1. \A n \in Nat : Within(r, n)'
        BY <1>3, <3>3 DEF Within
      <4>2. (Budget - req[r].left)' \in Nat /\ (ref[r].pc = "flight" => (Budget - ref[r].left)' \in Nat)
        BY <1>6, <1>7
      <4>3. Got("refresh", r, "no")' => ~(own[r] = "redis")
        BY <1>1, <1>2, <1>3, <1>4, <3>3 DEF Sound, Replies, Ops
      <4> QED
        BY <1>6, <3>1, <3>2, <4>1, <4>2, <4>3 DEF Replies
    <3>4. CASE says = "no"
      <4>1. ~Got("acquire", r, "yes")' /\ ~Got("refresh", r, "yes")'
            /\ ~(Live(r) /\ ref[r].pc = "answered")
        BY <1>1, <1>2, <1>3, <1>4, <3>4 DEF Sound, Replies, Within, Ops
      <4>2. Got("refresh", r, "no")' /\ own[r] = "redis" => misses[r] > Misses
        <5>1. Live(r) /\ own[r] = "redis" => ~(misses[r] <= Misses)
          BY <1>2, <1>3, <3>4 DEF Sound, Held, Within
        <5> QED
          BY <1>7, <3>2, <5>1
      <4> QED
        BY <1>3, <1>6, <3>1, <3>2, <3>4, <4>1, <4>2 DEF Replies
    <3> QED
      BY <3>3, <3>4
  <2>4. Held(r)'
    <3>1. CASE says = "yes"
      <4>1. r \notin lost
        BY <1>2, <1>3, <3>1 DEF Sound, Held
      <4>2. Live(r) /\ own[r] = "redis" => ref[r].pc \in {"sleep", "flight"}
        BY <1>2, <1>7, <4>1 DEF Sound, Control
      <4>3. Slack(0) \in Nat /\ Period \in Nat /\ Slack(0) >= Budget /\ Period >= Budget
        BY SlackFacts DEF Period
      <4>4. /\ ref[r].pc = "sleep" => 0 <= Slack(0) + RefreshEvery - ref[r].left
            /\ ref[r].pc = "flight" => 0 <= Slack(0) + Period - ref[r].left
        BY <1>7, <4>3
      <4>5. /\ ref[r].pc = "sleep" => Within(r, Slack(misses[r]) + RefreshEvery - ref[r].left)'
            /\ ref[r].pc = "flight" => Within(r, Slack(misses[r]) + Period - ref[r].left)'
        BY <1>3, <1>6, <3>1, <4>4 DEF Within
      <4> QED
        BY <1>3, <1>6, <3>1, <4>1, <4>2, <4>5 DEF Held
    <3>2. CASE says = "no"
      BY <1>2, <1>3, <1>6, <3>2 DEF Held, Sound, Within
    <3> QED
      BY <3>1, <3>2
  <2> QED
    BY <2>1, <2>2, <2>3, <2>4 DEF Sound
<1> QED
  BY <1>1, <1>5, <1>8, OthersKept

LEMMA ApplyRemoveSound ==
  ASSUME IInv, Typed', NEW w \in wire, wire' = wire \ {w}, ApplyRemove(w), UNCHANGED client
  PROVE  \A q \in Reqs : Sound(q)'
<1> USE LeaseAssumption
<1> DEFINE r == w.r
<1>1. /\ Typed /\ r \in Reqs /\ w.caller \in {"waits", "gone"} /\ w.op = "remove"
      /\ On("remove", r, w.caller)
      /\ \A q \in Reqs, op \in Ops, c \in {"waits", "gone"} : On(op, q, c)' => On(op, q, c)
      /\ UNCHANGED <<req, ref, own, local, lost, keyLeft, misses>>
      /\ zset' = [zset EXCEPT ![r] = None] /\ keyLeft \in Nat
  BY DeliveredWire DEF IInv, ApplyRemove, client, Typed
<1>2. Sound(r)
  BY <1>1 DEF IInv
<1>3. \A q \in Reqs, op \in Ops, a \in {"yes", "no"} :
        Got(op, q, a)' => Got(op, q, a) \/ op = "remove"
  BY <1>1, AnswerGot DEF ApplyRemove
<1>4. \A q \in Reqs \ {r}, op \in Ops, a \in {"yes", "no"} : Got(op, q, a)' => Got(op, q, a)
  BY <1>1, AnswerGot DEF ApplyRemove
<1> HIDE DEF r
<1>5. \A q \in Reqs \ {r} : Kept(q)
  BY <1>1, <1>4 DEF Kept, Typed
<1>6. /\ req'[r] = req[r] /\ ref'[r] = ref[r] /\ own'[r] = own[r] /\ ~Live(r) /\ ~Live(r)'
      /\ (r \in local' <=> r \in local) /\ r \notin lost' /\ zset'[r] = None
      /\ req[r].pc \in {"committing", "over"}
  <2>1. req[r].pc \in {"committing", "over"}
    BY <1>1, <1>2 DEF Sound, Commands
  <2>2. ~Live(r) /\ ~Live(r)'
    BY <1>1, <2>1 DEF Live
  <2>3. r \notin lost
    BY <1>2, <2>2 DEF Sound, Held
  <2> QED
    BY <1>1, <2>1, <2>2, <2>3 DEF Typed
<1>7. \A a \in {"yes", "no"} : ~Got("acquire", r, a)' /\ ~Got("refresh", r, a)'
  <2>1. \A a \in {"yes", "no"} : ~Got("acquire", r, a) /\ ~Got("refresh", r, a)
    BY <1>2, <1>6 DEF Sound, Replies, Control
  <2> QED
    BY <1>1, <1>3, <2>1 DEF Ops
<1>8. Control(r)'
  BY <1>2, <1>6 DEF Control, Sound
<1>9. Commands(r)'
  BY <1>1, <1>2, <1>6 DEF Commands, Sound, Ops
<1>10. Replies(r)' /\ Held(r)'
  BY <1>6, <1>7 DEF Replies, Held
<1> QED
  BY <1>1, <1>5, <1>8, <1>9, <1>10, OthersKept DEF Sound

LEMMA PeekSound ==
  ASSUME IInv, Typed', Peek
  PROVE  \A q \in Reqs : Sound(q)'
<1>1. /\ Typed /\ zset' = Pruned /\ keyLeft \in Nat
      /\ UNCHANGED <<req, ref, own, local, lost, wire, reply, keyLeft, misses>>
  BY DEF IInv, Peek, client, Typed
<1>2. /\ \A q \in Reqs, op \in Ops, c \in {"waits", "gone"} : On(op, q, c)' => On(op, q, c)
      /\ \A q \in Reqs, op \in Ops, a \in {"yes", "no"} : Got(op, q, a)' => Got(op, q, a)
  BY <1>1 DEF On, Got
<1>3. \A q \in Reqs : Kept(q)
  BY <1>1, <1>2, PrunedFacts DEF Kept
<1> QED
  BY <1>3, KeptSound DEF IInv

\* Time passes: every age grows by one, and so does what is allowed for it.
LEMMA TickSound ==
  ASSUME IInv, Typed', Tick
  PROVE  \A q \in Reqs : Sound(q)'
<1> USE LeaseAssumption
<1> SUFFICES ASSUME NEW q \in Reqs PROVE Sound(q)'
  OBVIOUS
<1>1. Typed /\ Sound(q) /\ UNCHANGED <<own, local, lost, wire, reply, misses>>
  BY DEF IInv, Tick
<1>2. /\ \A op \in Ops, c \in {"waits", "gone"} : On(op, q, c)' <=> On(op, q, c)
      /\ \A op \in Ops, a \in {"yes", "no"} : Got(op, q, a)' <=> Got(op, q, a)
  BY <1>1 DEF On, Got
<1>3. /\ req'[q].pc = req[q].pc /\ ref'[q].pc = ref[q].pc /\ ref'[q].owned = ref[q].owned
      /\ own'[q] = own[q] /\ misses'[q] = misses[q] /\ (Live(q)' <=> Live(q))
      /\ req'[q].left = Less(req[q].left) /\ ref'[q].left = Less(ref[q].left)
  BY <1>1 DEF Tick, Typed, Requests, Tasks, Live
<1>4. /\ req[q].pc = "acquiring" => req[q].left > 0
      /\ ref[q].pc \in {"sleep", "flight"} => ref[q].left > 0
      /\ ref[q].pc # "answered"
      /\ req[q].left \in 0..Budget /\ ref[q].left \in Nat /\ misses[q] \in Nat
      /\ keyLeft \in Nat /\ (zset[q] # None => zset[q] \in Nat)
  BY <1>1 DEF Tick, Typed, Requests, Tasks
<1>5. /\ keyLeft' = Less(keyLeft) /\ (zset[q] = None => zset'[q] = None)
      /\ zset'[q] # None => keyLeft' # 0
      /\ zset'[q] # None => zset'[q] = IF zset[q] > Ttl THEN zset[q] ELSE zset[q] + 1
      /\ zset[q] # None /\ keyLeft' # 0 => zset'[q] # None
  BY <1>1, <1>4 DEF Tick
<1>6. zset[q] # None => keyLeft + zset[q] >= Ttl + 1
  BY <1>1 DEF Sound, Held
<1>7. \A n \in Nat : Within(q, n) /\ n < Ttl => Within(q, n + 1)'
  <2> SUFFICES ASSUME NEW n \in Nat, Within(q, n), n < Ttl PROVE Within(q, n + 1)'
    OBVIOUS
  <2>1. zset[q] # None /\ zset[q] <= n
    BY DEF Within
  <2>2. keyLeft' # 0
    BY <1>4, <1>5, <1>6, <2>1 DEF Less
  <2>3. zset'[q] # None /\ zset'[q] <= n + 1
    BY <1>4, <1>5, <2>1, <2>2
  <2> QED
    BY <2>3 DEF Within
<1>8. Control(q)'
  <2>1. ref'[q].left <= ref[q].left
    BY <1>3, <1>4 DEF Less
  <2>2. ref'[q].left \in Nat
    BY <1>3, <1>4 DEF Less
  <2> QED
    BY <1>1, <1>3, <1>4, <2>1, <2>2 DEF Control, Sound
<1>9. Commands(q)'
  BY <1>1, <1>2, <1>3, <1>5 DEF Commands, Sound, Ops
<1>10. Replies(q)'
  <2>1. /\ \A a \in {"yes", "no"} : Got("acquire", q, a)' =>
              req'[q].pc = "acquiring" /\ ~On("acquire", q, "waits")'
        /\ \A a \in {"yes", "no"} : Got("refresh", q, a)' =>
              ref'[q].pc = "flight" /\ ~On("refresh", q, "waits")'
    BY <1>1, <1>2, <1>3 DEF Sound, Replies, Ops
  <2>2. Got("acquire", q, "yes")' => Within(q, Budget - req[q].left)'
    <3> SUFFICES ASSUME Got("acquire", q, "yes")' PROVE Within(q, Budget - req[q].left)'
      OBVIOUS
    <3>1. Within(q, Budget - req[q].left) /\ req[q].pc = "acquiring"
      BY <1>1, <1>2 DEF Sound, Replies, Ops
    <3>2. /\ Budget - req[q].left \in Nat /\ Budget - req[q].left < Ttl
          /\ Budget - req'[q].left = (Budget - req[q].left) + 1
      BY <1>3, <1>4, <3>1, SlackFacts DEF Less
    <3>3. Within(q, (Budget - req[q].left) + 1)' => zset'[q] # None /\ zset'[q] <= Budget - req'[q].left
      BY <1>7, <3>1, <3>2 DEF Within
    <3>4. \E n \in Nat : n = Budget - req[q].left /\ Within(q, n + 1)'
      BY <1>7, <3>1, <3>2
    <3>5. zset'[q] # None /\ zset'[q] <= Budget - req'[q].left
      BY <3>2, <3>4 DEF Within
    <3> QED
      BY <3>5 DEF Within
  <2>3. Got("refresh", q, "yes")' => Within(q, Budget - ref[q].left)'
    <3> SUFFICES ASSUME Got("refresh", q, "yes")' PROVE Within(q, Budget - ref[q].left)'
      OBVIOUS
    <3>1. Within(q, Budget - ref[q].left) /\ ref[q].pc = "flight" /\ ref[q].left <= Budget
      BY <1>1, <1>2 DEF Sound, Replies, Control, Ops
    <3>2. /\ Budget - ref[q].left \in Nat /\ Budget - ref[q].left < Ttl
          /\ Budget - ref'[q].left = (Budget - ref[q].left) + 1
      BY <1>3, <1>4, <3>1, SlackFacts DEF Less
    <3>3. \E n \in Nat : n = Budget - ref[q].left /\ Within(q, n + 1)'
      BY <1>7, <3>1, <3>2
    <3>4. zset'[q] # None /\ zset'[q] <= Budget - ref'[q].left
      BY <3>2, <3>3 DEF Within
    <3> QED
      BY <3>4 DEF Within
  <2>4. Got("refresh", q, "no")' /\ own'[q] = "redis" => zset'[q] = None /\ misses'[q] > Misses
    BY <1>1, <1>2, <1>3, <1>5 DEF Sound, Replies, Ops
  <2> QED
    BY <1>3, <1>4, <2>1, <2>2, <2>3, <2>4 DEF Replies
<1>11. Held(q)'
  <2>1. ASSUME Live(q), own[q] = "redis", misses[q] <= Misses
        PROVE  \/ /\ ref'[q].pc = "sleep"
                  /\ Within(q, Slack(misses[q]) + RefreshEvery - ref[q].left)'
               \/ /\ ref'[q].pc = "flight"
                  /\ Within(q, Slack(misses[q]) + Period - ref[q].left)'
    <3>1. /\ Slack(misses[q]) \in Nat /\ Slack(misses[q]) + Period <= Ttl /\ Period \in Nat
          /\ RefreshEvery <= Period /\ Budget <= Period
      <4>1. misses[q] \in 0..Misses
        BY <1>4, <2>1
      <4> QED
        BY <1>4, <4>1, SlackFacts DEF Period
    <3>2. CASE ref[q].pc = "sleep" /\ Within(q, Slack(misses[q]) + RefreshEvery - ref[q].left)
      <4>1. ref[q].left <= RefreshEvery
        BY <1>1, <3>2 DEF Sound, Control
      <4> DEFINE n == Slack(misses[q]) + RefreshEvery - ref[q].left
      <4>2. n \in Nat /\ n < Ttl /\ Slack(misses'[q]) + RefreshEvery - ref'[q].left = n + 1
        BY <1>3, <1>4, <3>1, <3>2, <4>1 DEF Less
      <4>3. \E m \in Nat : m = n /\ Within(q, m + 1)'
        BY <1>7, <3>2, <4>2
      <4>4. zset'[q] # None /\ zset'[q] <= Slack(misses'[q]) + RefreshEvery - ref'[q].left
        BY <4>2, <4>3 DEF Within
      <4>5. Within(q, Slack(misses[q]) + RefreshEvery - ref[q].left)'
        BY <4>4 DEF Within
      <4> QED
        BY <1>3, <3>2, <4>5
    <3>3. CASE ref[q].pc = "flight" /\ Within(q, Slack(misses[q]) + Period - ref[q].left)
      <4>1. ref[q].left <= Budget
        BY <1>1, <3>3 DEF Sound, Control
      <4> DEFINE n == Slack(misses[q]) + Period - ref[q].left
      <4>2. n \in Nat /\ n < Ttl /\ Slack(misses'[q]) + Period - ref'[q].left = n + 1
        BY <1>3, <1>4, <3>1, <3>3, <4>1 DEF Less
      <4>3. \E m \in Nat : m = n /\ Within(q, m + 1)'
        BY <1>7, <3>3, <4>2
      <4>4. zset'[q] # None /\ zset'[q] <= Slack(misses'[q]) + Period - ref'[q].left
        BY <4>2, <4>3 DEF Within
      <4>5. Within(q, Slack(misses[q]) + Period - ref[q].left)'
        BY <4>4 DEF Within
      <4> QED
        BY <1>3, <3>3, <4>5
    <3> QED
      BY <1>1, <2>1, <3>2, <3>3 DEF Sound, Held
  <2>2. q \in lost' => Live(q)' /\ own'[q] = "redis" /\ zset'[q] = None /\ misses'[q] > Misses
    BY <1>1, <1>3, <1>5 DEF Sound, Held
  <2>3. zset'[q] # None => keyLeft' + zset'[q] >= Ttl + 1
    BY <1>4, <1>5, <1>6 DEF Less
  <2> QED
    BY <1>3, <2>1, <2>2, <2>3 DEF Held
<1> QED
  BY <1>8, <1>9, <1>10, <1>11 DEF Sound

-----------------------------------------------------------------------------
(* Types: what each step writes is what the variable may hold. *)

Wires == [op : Ops, r : Reqs, caller : {"waits", "gone"}]
Answers == [op : Ops, r : Reqs, says : {"yes", "no"}]

LEMMA MessagesTyped ==
  ASSUME Typed
  PROVE  /\ wire \subseteq Wires /\ reply \subseteq Answers
         /\ \A op \in Ops, r \in Reqs, c \in {"waits", "gone"} : Msg(op, r, c) \in Wires
         /\ \A ops, r : Abandon(ops, r) \subseteq Wires /\ NoReply(ops, r) \subseteq Answers
<1>1. wire \subseteq Wires /\ reply \subseteq Answers
  BY DEF Typed, Wires, Answers
<1>2. \A op \in Ops, r \in Reqs, c \in {"waits", "gone"} : Msg(op, r, c) \in Wires
  BY DEF Msg, Wires
<1>3. \A w \in wire : Msg(w.op, w.r, "gone") \in Wires
  BY <1>1, <1>2 DEF Wires
<1> QED
  BY <1>1, <1>2, <1>3 DEF Abandon, NoReply

\* What a step does to a request, its task and its replica.
LEMMA ClientTyped ==
  ASSUME Typed, NEW r \in Reqs
  PROVE  /\ \A pc \in {"new", "acquiring", "held", "committing", "over"}, n \in 0..Budget :
              [req EXCEPT ![r] = [pc |-> pc, left |-> n]] \in [Reqs -> Requests]
         /\ \A t \in Tasks : [ref EXCEPT ![r] = t] \in [Reqs -> Tasks]
         /\ \A o \in {"redis", "local", "unknown", None} :
              [own EXCEPT ![r] = o] \in [Reqs -> {"redis", "local", "unknown", None}]
         /\ Off \in Tasks /\ Asleep \in Tasks
         /\ [misses EXCEPT ![r] = 0] \in [Reqs -> 0..(Misses + 1)]
         /\ 0 \in 0..Budget /\ Budget \in 0..Budget
<1> USE LeaseAssumption
<1>1. Off \in Tasks /\ Asleep \in Tasks
  BY DEF Off, Asleep, Tasks
<1>2. [misses EXCEPT ![r] = 0] \in [Reqs -> 0..(Misses + 1)]
  BY DEF Typed
<1> QED
  BY <1>1, <1>2 DEF Typed, Requests

LEMMA FallBackTyped ==
  ASSUME Typed, NEW r \in Reqs, NEW o \in {"local", "unknown"}, FallBack(r, o)
  PROVE  /\ req' \in [Reqs -> Requests] /\ ref' \in [Reqs -> Tasks]
         /\ own' \in [Reqs -> {"redis", "local", "unknown", None}]
         /\ local' \subseteq Reqs
<1>1. CASE Refuse(r)
  BY <1>1, ClientTyped DEF Typed, Refuse
<1>2. CASE local' = local \cup {r} /\ Hold(r, o)
  BY <1>2, ClientTyped DEF Typed, Hold
<1> QED
  BY <1>1, <1>2 DEF FallBack

LEMMA AcquireTyped ==
  ASSUME Typed, NEW r \in Reqs,
         AcquireOffline(r) \/ SendAcquire(r) \/ Acquired(r) \/ AcquireFails(r) \/ CancelAcquire(r)
  PROVE  Typed'
<1>1. CASE AcquireOffline(r)
  <2>1. UNCHANGED <<lost, wire, reply, limit, zset, keyLeft, misses>>
    BY <1>1 DEF AcquireOffline, bucket
  <2>2. FallBack(r, "local")
    BY <1>1 DEF AcquireOffline
  <2> QED
    BY <2>1, <2>2, FallBackTyped DEF Typed
<1>2. CASE SendAcquire(r)
  <2>1. /\ req' = [req EXCEPT ![r] = [pc |-> "acquiring", left |-> Budget]]
        /\ wire' = wire \cup {Msg("acquire", r, "waits")}
        /\ UNCHANGED <<ref, own, local, lost, reply, limit, zset, keyLeft, misses>>
    BY <1>2 DEF SendAcquire, bucket
  <2>2. req' \in [Reqs -> Requests]
    BY <2>1, ClientTyped
  <2>3. wire' \subseteq Wires
    BY <2>1, MessagesTyped DEF Ops
  <2> QED
    BY <2>1, <2>2, <2>3 DEF Typed, Wires
<1>3. CASE Acquired(r)
  <2>1. /\ UNCHANGED <<lost, wire, limit, zset, keyLeft, misses>>
        /\ reply' = NoReply({"acquire"}, r)
        /\ (Hold(r, "redis") /\ UNCHANGED local) \/ Refuse(r)
    BY <1>3 DEF Acquired, bucket
  <2>2. /\ req' \in [Reqs -> Requests] /\ ref' \in [Reqs -> Tasks]
        /\ own' \in [Reqs -> {"redis", "local", "unknown", None}] /\ local' \subseteq Reqs
    BY <2>1, ClientTyped DEF Typed, Hold, Refuse
  <2>3. reply' \subseteq Answers
    BY <2>1, MessagesTyped
  <2> QED
    BY <2>1, <2>2, <2>3 DEF Typed, Answers
<1>4. CASE AcquireFails(r)
  <2>1. /\ UNCHANGED <<lost, limit, zset, keyLeft, misses>> /\ FallBack(r, "unknown")
        /\ wire' = Abandon({"acquire"}, r) /\ reply' = NoReply({"acquire"}, r)
    BY <1>4 DEF AcquireFails, bucket
  <2>2. wire' \subseteq Wires /\ reply' \subseteq Answers
    BY <2>1, MessagesTyped
  <2> QED
    BY <2>1, <2>2, FallBackTyped DEF Typed, Wires, Answers
<1>5. CASE CancelAcquire(r)
  <2>1. /\ UNCHANGED <<ref, own, local, lost, limit, zset, keyLeft, misses>>
        /\ req' = [req EXCEPT ![r] = [pc |-> "over", left |-> 0]]
        /\ wire' = Abandon({"acquire"}, r) /\ reply' = NoReply({"acquire"}, r)
    BY <1>5 DEF CancelAcquire, bucket
  <2>2. wire' \subseteq Wires /\ reply' \subseteq Answers /\ req' \in [Reqs -> Requests]
    BY <2>1, MessagesTyped, ClientTyped
  <2> QED
    BY <2>1, <2>2 DEF Typed, Wires, Answers
<1> QED
  BY <1>1, <1>2, <1>3, <1>4, <1>5

LEMMA EndTyped ==
  ASSUME Typed, NEW r \in Reqs,
         CommitOffline(r) \/ SendCommit(r) \/ Release(r) \/ CommitEnds(r)
  PROVE  Typed'
<1>1. ASSUME NEW pc \in {"committing", "over"}, NEW n \in 0..Budget, Finish(r, pc, n)
      PROVE  /\ req' \in [Reqs -> Requests] /\ ref' \in [Reqs -> Tasks]
             /\ own' \in [Reqs -> {"redis", "local", "unknown", None}]
             /\ lost' \subseteq Reqs /\ misses' \in [Reqs -> 0..(Misses + 1)]
  <2>1. StopRefresh(r) \in [Reqs -> Tasks]
    BY ClientTyped DEF StopRefresh, Typed
  <2> QED
    BY <1>1, <2>1, ClientTyped DEF Typed, Finish
<1>2. /\ UNCHANGED <<limit, zset, keyLeft>> /\ local' \subseteq Reqs
  BY DEF CommitOffline, SendCommit, Release, CommitEnds, bucket, Typed
<1>3. wire' \subseteq Wires /\ reply' \subseteq Answers
  BY MessagesTyped DEF CommitOffline, SendCommit, Release, CommitEnds, Ops
<1>4. 0 \in 0..Budget /\ Budget \in 0..Budget
  BY LeaseAssumption
<1>5. CASE CommitOffline(r) \/ SendCommit(r) \/ Release(r)
  <2>1. Finish(r, "over", 0) \/ Finish(r, "committing", Budget)
    BY <1>5 DEF CommitOffline, SendCommit, Release
  <2> QED
    BY <1>1, <1>2, <1>3, <1>4, <2>1 DEF Typed, Wires, Answers
<1>6. CASE CommitEnds(r)
  <2>1. req' \in [Reqs -> Requests] /\ UNCHANGED <<ref, own, lost, misses>>
    BY <1>6, ClientTyped DEF CommitEnds
  <2> QED
    BY <1>2, <1>3, <2>1 DEF Typed, Wires, Answers
<1> QED
  BY <1>5, <1>6

LEMMA CrashTyped ==
  ASSUME Typed, NEW h \in Replicas, Crash(h)
  PROVE  Typed'
<1> USE LeaseAssumption
<1>1. UNCHANGED <<limit, zset, keyLeft>>
  BY DEF Crash, bucket
<1>2. req' \in [Reqs -> Requests]
  BY DEF Crash, Typed, Requests
<1>3. ref' \in [Reqs -> Tasks]
  <2>1. Off \in Tasks
    BY DEF Off, Tasks
  <2> QED
    BY <2>1 DEF Crash, Typed
<1>4. own' \in [Reqs -> {"redis", "local", "unknown", None}] /\ misses' \in [Reqs -> 0..(Misses + 1)]
  BY DEF Crash, Typed
<1>5. local' \subseteq Reqs /\ lost' \subseteq Reqs /\ reply' \subseteq Answers
  BY DEF Crash, Typed, Answers
<1>6. wire' \subseteq Wires
  <2>1. \A w \in wire : w \in Wires /\ Msg(w.op, w.r, "gone") \in Wires
    BY MessagesTyped DEF Wires
  <2> QED
    BY <2>1 DEF Crash
<1> QED
  BY <1>1, <1>2, <1>3, <1>4, <1>5, <1>6 DEF Typed, Wires, Answers

LEMMA RefreshTyped ==
  ASSUME Typed, NEW r \in Reqs, Refresh(r)
  PROVE  Typed'
<1> USE LeaseAssumption
<1>1. UNCHANGED <<req, local, limit, zset, keyLeft>>
  BY DEF Refresh, RefreshOffline, SendRefresh, Refreshed, Promote, RefreshFails, bucket
<1>2. wire' \subseteq Wires /\ reply' \subseteq Answers
  BY MessagesTyped DEF Refresh, RefreshOffline, SendRefresh, Refreshed, Promote, RefreshFails, Ops
<1>3. own' \in [Reqs -> {"redis", "local", "unknown", None}] /\ lost' \subseteq Reqs
  BY DEF Refresh, RefreshOffline, SendRefresh, Refreshed, Promote, RefreshFails, Typed
<1>4. misses' \in [Reqs -> 0..(Misses + 1)]
  BY DEF Refresh, RefreshOffline, SendRefresh, Refreshed, Promote, RefreshFails, Typed, Missed
<1>5. ref' \in [Reqs -> Tasks]
  <2>1. CASE RefreshOffline(r) \/ Promote(r) \/ RefreshFails(r)
    <3>1. ref' = [ref EXCEPT ![r] = Asleep] \/ ref' = [ref EXCEPT ![r] = Off]
      BY <2>1 DEF RefreshOffline, Promote, RefreshFails
    <3> QED
      BY <3>1, ClientTyped
  <2>2. CASE SendRefresh(r)
    <3>1. [pc |-> "flight", left |-> Budget, owned |-> own[r]] \in Tasks
      BY <2>2 DEF SendRefresh, Tasks
    <3> QED
      BY <2>2, <3>1, ClientTyped DEF SendRefresh
  <2>3. CASE Refreshed(r)
    <3>1. \/ ref' = [ref EXCEPT ![r].pc = "answered", ![r].left = 0]
          \/ ref' = [ref EXCEPT ![r] = Asleep] \/ ref' = [ref EXCEPT ![r] = Off]
      BY <2>3 DEF Refreshed
    <3>2. ASSUME ref' = [ref EXCEPT ![r].pc = "answered", ![r].left = 0]
          PROVE  ref' \in [Reqs -> Tasks]
      <4>1. ref \in [Reqs -> Tasks] /\ ref[r] \in Tasks
        BY DEF Typed
      <4>2. [ref[r] EXCEPT !.pc = "answered"] \in Tasks
        BY <4>1 DEF Tasks
      <4>3. [[ref[r] EXCEPT !.pc = "answered"] EXCEPT !.left = 0] \in Tasks
        BY <4>2 DEF Tasks
      <4>4. ref' = [ref EXCEPT ![r] = [[ref[r] EXCEPT !.pc = "answered"] EXCEPT !.left = 0]]
        BY <3>2, <4>1
      <4> QED
        BY <4>1, <4>3, <4>4
    <3> QED
      BY <3>1, <3>2, ClientTyped
  <2> QED
    BY <2>1, <2>2, <2>3 DEF Refresh
<1> QED
  BY <1>1, <1>2, <1>3, <1>4, <1>5 DEF Typed, Wires, Answers

LEMMA RedisTyped ==
  ASSUME Typed, NEW w \in wire, Deliver(w) \/ Lose(w)
  PROVE  Typed'
<1> USE LeaseAssumption
<1>1. UNCHANGED <<req, ref, own, local, lost, limit>> /\ wire' = wire \ {w}
  BY DEF Deliver, Lose, client, bucket
<1>2. w \in Wires /\ w.op \in Ops /\ w.r \in Reqs
  BY DEF Typed, Wires
<1>3. \A says \in {"yes", "no"} : Answer(w, says) => reply' \subseteq Answers
  BY <1>2, MessagesTyped DEF Answer, Answers
<1>4. reply' \subseteq Answers
  BY <1>3, MessagesTyped DEF Deliver, Lose, ApplyAcquire, ApplyRefresh, ApplyRemove
<1>5. Pruned \in [Reqs -> 0..(Ttl + 1) \cup {None}]
  BY DEF Typed, Pruned
<1>6. ASSUME NEW set \in [Reqs -> 0..(Ttl + 1) \cup {None}], Stamp(set, w.r)
      PROVE  /\ zset' \in [Reqs -> 0..(Ttl + 1) \cup {None}] /\ keyLeft' \in 0..(Ttl + 1)
             /\ misses' \in [Reqs -> 0..(Misses + 1)]
  BY <1>2, <1>6 DEF Stamp, Typed
<1>7. /\ zset' \in [Reqs -> 0..(Ttl + 1) \cup {None}] /\ keyLeft' \in 0..(Ttl + 1)
      /\ misses' \in [Reqs -> 0..(Misses + 1)]
  <2>1. CASE Lose(w)
    BY <2>1 DEF Lose, bucket, Typed
  <2>2. CASE ApplyAcquire(w)
    <3>1. Stamp(Pruned, w.r) \/ (zset' = Pruned /\ UNCHANGED <<keyLeft, misses>>)
      BY <2>2 DEF ApplyAcquire
    <3> QED
      BY <1>5, <1>6, <3>1 DEF Typed
  <2>3. CASE ApplyRefresh(w)
    <3>1. Stamp(zset, w.r) \/ UNCHANGED <<zset, keyLeft, misses>>
      BY <2>3 DEF ApplyRefresh
    <3> QED
      BY <1>6, <3>1 DEF Typed
  <2>4. CASE ApplyRemove(w)
    BY <2>4 DEF ApplyRemove, Typed
  <2> QED
    BY <2>1, <2>2, <2>3, <2>4 DEF Deliver
<1> QED
  BY <1>1, <1>4, <1>7 DEF Typed, Answers

LEMMA TimeTyped ==
  ASSUME Typed, Peek \/ Tick
  PROVE  Typed'
<1> USE LeaseAssumption
<1>1. CASE Peek
  <2>1. zset' = Pruned /\ UNCHANGED <<req, ref, own, local, lost, wire, reply, limit, keyLeft, misses>>
    BY <1>1 DEF Peek, client
  <2>2. Pruned \in [Reqs -> 0..(Ttl + 1) \cup {None}]
    BY DEF Typed, Pruned
  <2> QED
    BY <2>1, <2>2 DEF Typed
<1>2. CASE Tick
  <2>1. UNCHANGED <<own, local, lost, wire, reply, limit, misses>>
    BY <1>2 DEF Tick
  <2>2. /\ \A n \in Nat : Less(n) \in Nat
        /\ \A n \in 0..Budget : Less(n) \in 0..Budget
        /\ \A n \in 0..(Ttl + 1) : Less(n) \in 0..(Ttl + 1)
    BY DEF Less
  <2>3. req' \in [Reqs -> Requests]
    <3>1. \A r \in Reqs : [req[r] EXCEPT !.left = Less(@)] \in Requests
      BY <2>2 DEF Typed, Requests
    <3> QED
      BY <1>2, <3>1 DEF Tick
  <2>4. ref' \in [Reqs -> Tasks]
    <3>1. \A r \in Reqs : [ref[r] EXCEPT !.left = Less(@)] \in Tasks
      BY <2>2 DEF Typed, Tasks
    <3> QED
      BY <1>2, <3>1 DEF Tick
  <2>5. keyLeft' \in 0..(Ttl + 1)
    BY <1>2, <2>2 DEF Tick, Typed
  <2>6. zset' \in [Reqs -> 0..(Ttl + 1) \cup {None}]
    <3>1. \A r \in Reqs : zset[r] = None \/ zset[r] \in 0..(Ttl + 1)
      BY DEF Typed
    <3>2. [r \in Reqs |-> IF zset[r] = None \/ zset[r] > Ttl THEN zset[r] ELSE zset[r] + 1]
            \in [Reqs -> 0..(Ttl + 1) \cup {None}]
      BY <3>1
    <3> QED
      BY <1>2, <3>2 DEF Tick
  <2> QED
    BY <2>1, <2>3, <2>4, <2>5, <2>6 DEF Typed
<1> QED
  BY <1>1, <1>2

-----------------------------------------------------------------------------
(* Counting. *)

LEMMA Sizes ==
  ASSUME Typed
  PROVE  /\ limit \in Nat /\ IsFiniteSet(Members) /\ Cardinality(Members) \in Nat
         /\ \A h : IsFiniteSet(InLocal(h)) /\ Cardinality(InLocal(h)) \in Nat
<1>1. IsFiniteSet(Reqs) /\ limit \in Nat
  BY LeaseAssumption DEF Typed
<1>2. \A S \in SUBSET Reqs : IsFiniteSet(S) /\ Cardinality(S) \in Nat
  BY <1>1, FS_Subset, FS_CardinalityType
<1> QED
  BY <1>1, <1>2 DEF Members, InLocal

\* Nobody is let in.
LEMMA NobodyAdded ==
  ASSUME IInv, Typed', limit' = limit,
         \A r \in Reqs : zset'[r] # None => zset[r] # None, local' \subseteq local
  PROVE  Counted'
<1>1. Typed /\ Counted
  BY DEF IInv
<1>2. Members' \subseteq Members
  BY DEF Members
<1>3. \A h : InLocal(h)' \subseteq InLocal(h)
  BY DEF InLocal
<1>4. Cardinality(Members') <= limit'
  <2>1. Cardinality(Members') <= Cardinality(Members) /\ IsFiniteSet(Members')
    BY <1>1, <1>2, Sizes, FS_Subset
  <2>2. Cardinality(Members') \in Nat
    BY <2>1, FS_CardinalityType
  <2> QED
    BY <1>1, <2>1, <2>2, Sizes DEF Counted
<1>5. ASSUME NEW h \in Replicas PROVE Cardinality(InLocal(h)') <= limit'
  <2>1. Cardinality(InLocal(h)') <= Cardinality(InLocal(h)) /\ IsFiniteSet(InLocal(h)')
    BY <1>1, <1>3, Sizes, FS_Subset
  <2>2. Cardinality(InLocal(h)') \in Nat
    BY <2>1, FS_CardinalityType
  <2> QED
    BY <1>1, <2>1, <2>2, Sizes DEF Counted
<1> QED
  BY <1>4, <1>5 DEF Counted

\* LocalStore lets a request in beside fewer than the limit.
LEMMA FallBackCounted ==
  ASSUME IInv, Typed', NEW r \in Reqs, NEW o, FallBack(r, o), limit' = limit, zset' = zset
  PROVE  Counted'
<1>1. Typed /\ Counted
  BY DEF IInv
<1>2. CASE Refuse(r)
  BY <1>2, NobodyAdded DEF Refuse
<1>3. CASE Cardinality(InLocal(Home[r])) < limit /\ local' = local \cup {r}
  <2>1. Members' = Members
    BY DEF Members
  <2>2. ASSUME NEW h \in Replicas PROVE Cardinality(InLocal(h)') <= limit'
    <3>1. CASE Home[r] # h
      <4>1. InLocal(h)' = InLocal(h)
        BY <1>3, <3>1 DEF InLocal
      <4> QED
        BY <1>1, <4>1 DEF Counted
    <3>2. CASE Home[r] = h
      <4>1. InLocal(h)' = InLocal(h) \cup {r}
        BY <1>3, <3>2 DEF InLocal
      <4>2. /\ IsFiniteSet(InLocal(h)) /\ Cardinality(InLocal(h)) \in Nat /\ limit \in Nat
            /\ Cardinality(InLocal(h)) < limit
        BY <1>1, <1>3, <3>2, Sizes
      <4>3. \/ Cardinality(InLocal(h) \cup {r}) = Cardinality(InLocal(h))
            \/ Cardinality(InLocal(h) \cup {r}) = Cardinality(InLocal(h)) + 1
        BY <4>2, FS_AddElement
      <4> QED
        BY <4>1, <4>2, <4>3
    <3> QED
      BY <3>1, <3>2
  <2> QED
    BY <1>1, <2>1, <2>2 DEF Counted
<1> QED
  BY <1>2, <1>3 DEF FallBack

\* ACQUIRE_LUA adds a member beside fewer than the limit.
LEMMA ApplyAcquireCounted ==
  ASSUME IInv, Typed', NEW w \in wire, ApplyAcquire(w), UNCHANGED <<client, limit>>
  PROVE  Counted'
<1> USE LeaseAssumption
<1> DEFINE r == w.r
           Left == {q \in Reqs : Pruned[q] # None}
<1>1. Typed /\ Counted /\ r \in Reqs /\ limit' = limit /\ local' = local
  BY DEF IInv, Typed, client
<1>2. \A q \in Reqs : Pruned[q] # None => zset[q] # None
  BY DEF Pruned
<1>3. CASE zset' = Pruned
  BY <1>1, <1>2, <1>3, NobodyAdded
<1>4. CASE Cardinality(Left) < limit /\ Stamp(Pruned, w.r)
  <2>1. zset' = [Pruned EXCEPT ![r] = 0] /\ None # 0
    BY <1>4 DEF Stamp
  <2>2. Members' = Left \cup {r}
    <3>1. \A q \in Reqs : zset'[q] # None <=> q = r \/ Pruned[q] # None
      BY <1>1, <2>1 DEF Pruned
    <3> QED
      BY <1>1, <3>1 DEF Members
  <2>3. IsFiniteSet(Left)
    BY FS_Subset
  <2> HIDE DEF Left, r
  <2>4. \/ Cardinality(Left \cup {r}) = Cardinality(Left)
        \/ Cardinality(Left \cup {r}) = Cardinality(Left) + 1
    BY <2>3, FS_AddElement
  <2>5. Cardinality(Left) \in Nat /\ limit \in Nat
    BY <1>1, <2>3, FS_CardinalityType, Sizes
  <2>6. Cardinality(Members') <= limit'
    BY <1>1, <1>4, <2>2, <2>4, <2>5
  <2>7. \A h : InLocal(h)' = InLocal(h)
    BY <1>1 DEF InLocal
  <2> QED
    BY <1>1, <2>6, <2>7 DEF Counted
<1> QED
  BY <1>3, <1>4 DEF ApplyAcquire

\* Nothing else makes a member or takes a local slot.
LEMMA RestCounted ==
  ASSUME IInv, Typed',
         \/ \E r \in Reqs : \/ SendAcquire(r) \/ Acquired(r) \/ CancelAcquire(r)
                            \/ CommitOffline(r) \/ SendCommit(r) \/ Release(r) \/ CommitEnds(r)
                            \/ Refresh(r)
         \/ \E h \in Replicas : Crash(h)
         \/ \E w \in wire : (ApplyRefresh(w) \/ ApplyRemove(w)) /\ UNCHANGED <<client, limit>>
         \/ \E w \in wire : Lose(w)
         \/ Peek \/ Tick \/ UNCHANGED vars
  PROVE  Counted'
<1> USE LeaseAssumption
<1>1. Typed
  BY DEF IInv
<1>2. ASSUME NEW r \in Reqs,
             \/ SendAcquire(r) \/ Acquired(r) \/ CancelAcquire(r)
             \/ CommitOffline(r) \/ SendCommit(r) \/ Release(r) \/ CommitEnds(r)
      PROVE  Counted'
  <2>1. zset' = zset /\ limit' = limit /\ local' \subseteq local
    BY <1>2 DEF SendAcquire, Acquired, CancelAcquire, CommitOffline, SendCommit, Release, CommitEnds,
                bucket, Refuse
  <2> QED
    BY <2>1, NobodyAdded
<1>3. ASSUME NEW r \in Reqs, Refresh(r) PROVE Counted'
  <2>1. zset' = zset /\ limit' = limit /\ local' = local
    BY <1>3 DEF Refresh, RefreshOffline, SendRefresh, Refreshed, Promote, RefreshFails, bucket
  <2> QED
    BY <2>1, NobodyAdded
<1>4. ASSUME NEW h \in Replicas, Crash(h) PROVE Counted'
  <2>1. zset' = zset /\ limit' = limit /\ local' \subseteq local
    BY <1>4 DEF Crash, bucket
  <2> QED
    BY <2>1, NobodyAdded
<1>5. ASSUME NEW w \in wire, UNCHANGED <<client, limit>>, ApplyRefresh(w) \/ ApplyRemove(w)
      PROVE  Counted'
  <2>1. limit' = limit /\ local' = local /\ w.r \in Reqs
    BY <1>1, <1>5 DEF client, Typed
  <2>2. \A q \in Reqs : zset'[q] # None => zset[q] # None
    BY <1>1, <1>5, <2>1 DEF ApplyRefresh, ApplyRemove, Stamp, Members, Typed
  <2> QED
    BY <2>1, <2>2, NobodyAdded
<1>6. ASSUME NEW w \in wire, Lose(w) PROVE Counted'
  <2>1. zset' = zset /\ limit' = limit /\ local' = local
    BY <1>6 DEF Lose, client, bucket
  <2> QED
    BY <2>1, NobodyAdded
<1>7. ASSUME Peek PROVE Counted'
  <2>1. /\ limit' = limit /\ local' = local
        /\ \A q \in Reqs : zset'[q] # None => zset[q] # None
    BY <1>7 DEF Peek, client, Pruned
  <2> QED
    BY <2>1, NobodyAdded
<1>8. ASSUME Tick PROVE Counted'
  <2>1. /\ limit' = limit /\ local' = local
        /\ \A q \in Reqs : zset'[q] # None => zset[q] # None
    BY <1>8 DEF Tick
  <2> QED
    BY <2>1, NobodyAdded
<1>9. ASSUME UNCHANGED vars PROVE Counted'
  <2>1. zset' = zset /\ limit' = limit /\ local' = local
    BY <1>9 DEF vars, client, bucket
  <2> QED
    BY <2>1, NobodyAdded
<1> QED
  BY <1>2, <1>3, <1>4, <1>5, <1>6, <1>7, <1>8, <1>9

-----------------------------------------------------------------------------
(* The invariant. *)

LEMMA InitIInv ==
  ASSUME Init
  PROVE  IInv
<1> USE LeaseAssumption
<1>1. Typed
  BY DEF Init, Typed, Requests, Tasks, Off
<1>2. ASSUME NEW r \in Reqs PROVE Sound(r)
  <2>1. /\ req[r].pc = "new" /\ ref[r].pc = "off" /\ zset[r] = None /\ ~Live(r) /\ r \notin lost
        /\ \A op, c : ~On(op, r, c)
        /\ \A op, a : ~Got(op, r, a)
    BY DEF Init, Off, Live, On, Got
  <2> QED
    BY <2>1 DEF Sound, Control, Commands, Replies, Held
<1>3. Counted
  <2>1. Members = {} /\ \A h : InLocal(h) = {}
    BY DEF Init, Members, InLocal
  <2> QED
    BY <1>1, <2>1, FS_EmptySet, Sizes DEF Counted
<1> QED
  BY <1>1, <1>2, <1>3 DEF IInv

LEMMA IInvStep ==
  ASSUME IInv, [Next]_vars
  PROVE  IInv'
<1>1. Typed
  BY DEF IInv
<1>2. ASSUME NEW r \in Reqs, AcquireOffline(r) PROVE IInv'
  <2>1. Typed'
    BY <1>1, <1>2, AcquireTyped
  <2>2. Counted'
    BY <1>2, <2>1, FallBackCounted DEF AcquireOffline, bucket
  <2> QED
    BY <1>2, <2>1, <2>2, AcquireOfflineSound DEF IInv
<1>3. ASSUME NEW r \in Reqs, AcquireFails(r) PROVE IInv'
  <2>1. Typed'
    BY <1>1, <1>3, AcquireTyped
  <2>2. Counted'
    BY <1>3, <2>1, FallBackCounted DEF AcquireFails, bucket
  <2> QED
    BY <1>3, <2>1, <2>2, AcquireFailsSound DEF IInv
<1>4. ASSUME NEW r \in Reqs, SendAcquire(r) \/ Acquired(r) \/ CancelAcquire(r) PROVE IInv'
  <2>1. Typed'
    BY <1>1, <1>4, AcquireTyped
  <2>2. Counted'
    BY <1>4, <2>1, RestCounted
  <2> QED
    BY <1>4, <2>1, <2>2, SendAcquireSound, AcquiredSound, CancelAcquireSound DEF IInv
<1>5. ASSUME NEW r \in Reqs, CommitOffline(r) \/ SendCommit(r) \/ Release(r) \/ CommitEnds(r)
      PROVE  IInv'
  <2>1. Typed'
    BY <1>1, <1>5, EndTyped
  <2>2. Counted'
    BY <1>5, <2>1, RestCounted
  <2> QED
    BY <1>5, <2>1, <2>2, CommitOfflineSound, SendCommitSound, ReleaseSound, CommitEndsSound DEF IInv
<1>6. ASSUME NEW r \in Reqs, Refresh(r) PROVE IInv'
  <2>1. Typed'
    BY <1>1, <1>6, RefreshTyped
  <2>2. Counted'
    BY <1>6, <2>1, RestCounted
  <2> QED
    BY <1>6, <2>1, <2>2, RefreshOfflineSound, SendRefreshSound, RefreshedSound, PromoteSound,
       RefreshFailsSound DEF IInv, Refresh
<1>7. ASSUME NEW h \in Replicas, Crash(h) PROVE IInv'
  <2>1. Typed'
    BY <1>1, <1>7, CrashTyped
  <2>2. Counted'
    BY <1>7, <2>1, RestCounted
  <2> QED
    BY <1>7, <2>1, <2>2, CrashSound DEF IInv
<1>8. ASSUME NEW w \in wire, Deliver(w) PROVE IInv'
  <2>1. Typed' /\ wire' = wire \ {w} /\ UNCHANGED <<client, limit>> /\ UNCHANGED client
    BY <1>1, <1>8, RedisTyped DEF Deliver
  <2>2. CASE ApplyAcquire(w)
    BY <2>1, <2>2, ApplyAcquireSound, ApplyAcquireCounted DEF IInv
  <2>3. CASE ApplyRefresh(w)
    BY <2>1, <2>3, ApplyRefreshSound, RestCounted DEF IInv
  <2>4. CASE ApplyRemove(w)
    BY <2>1, <2>4, ApplyRemoveSound, RestCounted DEF IInv
  <2> QED
    BY <1>8, <2>2, <2>3, <2>4 DEF Deliver
<1>9. ASSUME NEW w \in wire, Lose(w) PROVE IInv'
  <2>1. Typed'
    BY <1>1, <1>9, RedisTyped
  <2>2. Counted'
    BY <1>9, <2>1, RestCounted
  <2> QED
    BY <1>9, <2>1, <2>2, LoseSound DEF IInv
<1>10. ASSUME Peek \/ Tick PROVE IInv'
  <2>1. Typed'
    BY <1>1, <1>10, TimeTyped
  <2>2. Counted'
    BY <1>10, <2>1, RestCounted
  <2> QED
    BY <1>10, <2>1, <2>2, PeekSound, TickSound DEF IInv
<1>11. ASSUME UNCHANGED vars PROVE IInv'
  BY <1>11 DEF IInv, vars, client, bucket, Typed, Sound, Control, Commands, Replies, Held, Counted,
               Live, On, Got, Within, Members, InLocal
<1> QED
  BY <1>2, <1>3, <1>4, <1>5, <1>6, <1>7, <1>8, <1>9, <1>10, <1>11 DEF Next, Call

LEMMA AlwaysIInv == Spec => []IInv
<1>1. Init => IInv
  BY InitIInv
<1>2. IInv /\ [Next]_vars => IInv'
  BY IInvStep
<1> QED
  BY <1>1, <1>2, PTL DEF Spec

-----------------------------------------------------------------------------
(* Every variable keeps its type, and a caller that waits waits for the    *)
(* call it made: the acquire of acquire(), the remove of commit(), or the  *)
(* refresh of the task, never one of an earlier phase.                     *)
THEOREM TypeCorrect == Spec => []TypeOK
<1>1. IInv => TypeOK
  <2> SUFFICES ASSUME IInv PROVE TypeOK
    OBVIOUS
  <2>1. Typed
    BY DEF IInv
  <2>2. ASSUME NEW w \in wire
        PROVE  /\ w \in [op : {"acquire", "refresh", "remove"}, r : Reqs,
                         caller : {"waits", "gone"}]
               /\ w.caller = "waits" => w.op = (CASE req[w.r].pc = "acquiring" -> "acquire"
                                                 [] req[w.r].pc = "committing" -> "remove"
                                                 [] OTHER -> "refresh")
    <3>1. /\ w \in [op : {"acquire", "refresh", "remove"}, r : Reqs, caller : {"waits", "gone"}]
          /\ w = Msg(w.op, w.r, w.caller)
      BY <2>1 DEF Typed, Ops, Msg
    <3>2. On(w.op, w.r, w.caller) /\ w.r \in Reqs /\ w.op \in Ops
      BY <3>1 DEF On, Ops
    <3>3. Sound(w.r)
      BY <3>2 DEF IInv
    <3>4. CASE w.op = "acquire" /\ w.caller = "waits"
      BY <3>1, <3>2, <3>3, <3>4 DEF Sound, Commands
    <3>5. CASE w.op = "remove" /\ w.caller = "waits"
      BY <3>1, <3>2, <3>3, <3>5 DEF Sound, Commands
    <3>6. CASE w.op = "refresh" /\ w.caller = "waits"
      <4>1. Live(w.r)
        BY <3>2, <3>3, <3>6 DEF Sound, Commands, Control
      <4> QED
        BY <3>1, <3>6, <4>1 DEF Live
    <3> QED
      BY <3>1, <3>2, <3>4, <3>5, <3>6 DEF Ops
  <2> QED
    BY <2>1, <2>2 DEF TypeOK, Typed, Requests, Tasks, Ops
<1> QED
  BY <1>1, AlwaysIInv, PTL

(* The cluster-wide limit: of the requests on a lease Redis confirmed, and *)
(* whose refreshes failed no more often in a row than the lease outlasts,  *)
(* never more than the limit live at a time, whatever commands and answers *)
(* are lost, late or given up, and whichever replicas crash.               *)
THEOREM ClusterLimit == Spec => []CapHolds
<1>1. IInv => CapHolds
  <2> SUFFICES ASSUME IInv PROVE CapHolds
    OBVIOUS
  <2> DEFINE OnLease == {r \in Reqs : Live(r) /\ own[r] = "redis" /\ misses[r] <= Misses}
  <2>1. Typed /\ Counted /\ \A r \in Reqs : Held(r)
    BY DEF IInv, Sound
  <2>2. OnLease \subseteq Members
    BY <2>1 DEF Held, Within, Members
  <2> HIDE DEF OnLease
  <2>3. Cardinality(OnLease) <= Cardinality(Members) /\ IsFiniteSet(OnLease)
    BY <2>1, <2>2, Sizes, FS_Subset
  <2>4. Cardinality(OnLease) \in Nat
    BY <2>3, FS_CardinalityType
  <2>5. Cardinality(OnLease) <= limit
    BY <2>1, <2>3, <2>4, Sizes DEF Counted
  <2> QED
    BY <2>5 DEF CapHolds, OnLease
<1> QED
  BY <1>1, AlwaysIInv, PTL

(* A replica admits no more than the limit by itself, and a live request   *)
(* is counted somewhere: in the store of its replica, or in Redis, until   *)
(* its refreshes failed for longer than a lease lasts.                     *)
THEOREM NobodyUncounted == Spec => []EveryoneCounted
<1>1. IInv => EveryoneCounted
  <2> SUFFICES ASSUME IInv PROVE EveryoneCounted
    OBVIOUS
  <2>1. \A h \in Replicas : Cardinality(InLocal(h)) <= limit
    BY DEF IInv, Counted
  <2>2. ASSUME NEW r \in Reqs, Live(r) PROVE r \in local \/ r \in Members \/ misses[r] > Misses
    <3>1. Control(r) /\ Held(r) /\ misses[r] \in Nat
      BY DEF IInv, Sound, Typed
    <3>2. own[r] = "redis" \/ own[r] \in {"local", "unknown"}
      BY <2>2, <3>1 DEF Control, IInv, Typed
    <3>3. CASE own[r] \in {"local", "unknown"}
      BY <2>2, <3>1, <3>3 DEF Control
    <3>4. CASE own[r] = "redis"
      BY <2>2, <3>1, <3>4, LeaseAssumption DEF Held, Within, Members
    <3> QED
      BY <3>2, <3>3, <3>4
  <2> QED
    BY <2>1, <2>2 DEF EveryoneCounted
<1> QED
  BY <1>1, AlwaysIInv, PTL

(* A stream is told that its lease is lost only after its refreshes failed *)
(* for longer than a lease lasts and Redis has no member of it: no late    *)
(* answer, and no member that was never confirmed, ends one.               *)
THEOREM NoFalseLoss == Spec => []LossIsReal
<1>1. IInv => LossIsReal
  BY DEF IInv, Typed, Sound, Held, LossIsReal, Members
<1> QED
  BY <1>1, AlwaysIInv, PTL

(* A late command, a refresh that races the release above all, never puts  *)
(* the member of an ended request into Redis again; only an acquire that   *)
(* is still on its way can.                                                *)
THEOREM StaysReleased == Spec => NoResurrection
<1>1. IInv /\ [Next]_vars =>
        [\A r \in Reqs :
           Ended(r) /\ r \notin Members /\ (\A w \in wire : w.r = r => w.op # "acquire")
             => zset'[r] = None]_vars
  <2> USE LeaseAssumption
  <2> SUFFICES ASSUME IInv, Next, NEW r \in Reqs, r \notin Members,
                      \A w \in wire : w.r = r => w.op # "acquire"
               PROVE  zset'[r] = None
    OBVIOUS
  <2>1. Typed /\ zset[r] = None
    BY DEF IInv, Members
  <2>2. ASSUME NEW w \in wire, Deliver(w) PROVE zset'[r] = None
    <3>1. w.op = "acquire" => w.r # r
      OBVIOUS
    <3>2. CASE ApplyAcquire(w)
      BY <2>1, <3>1, <3>2 DEF ApplyAcquire, Stamp, Pruned
    <3>3. CASE ApplyRefresh(w)
      BY <2>1, <3>3 DEF ApplyRefresh, Stamp, Members, Typed
    <3>4. CASE ApplyRemove(w)
      BY <2>1, <3>4 DEF ApplyRemove, Typed
    <3> QED
      BY <2>2, <3>2, <3>3, <3>4 DEF Deliver
  <2>3. ASSUME NEW w \in wire, Lose(w) PROVE zset'[r] = None
    BY <2>1, <2>3 DEF Lose, bucket
  <2>4. ASSUME Peek \/ Tick PROVE zset'[r] = None
    BY <2>1, <2>4 DEF Peek, Tick, Pruned
  <2>5. ASSUME NEW h \in Replicas, Crash(h) PROVE zset'[r] = None
    BY <2>1, <2>5 DEF Crash, bucket
  <2>6. ASSUME NEW q \in Reqs,
               \/ AcquireOffline(q) \/ SendAcquire(q) \/ CancelAcquire(q) \/ CommitOffline(q)
               \/ SendCommit(q) \/ Release(q) \/ Call(q)
        PROVE  zset'[r] = None
    BY <2>1, <2>6 DEF AcquireOffline, SendAcquire, CancelAcquire, CommitOffline, SendCommit, Release,
                      Call, Acquired, AcquireFails, CommitEnds, bucket
  <2>7. ASSUME NEW q \in Reqs, Refresh(q) PROVE zset'[r] = None
    BY <2>1, <2>7 DEF Refresh, RefreshOffline, SendRefresh, Refreshed, Promote, RefreshFails, bucket
  <2> QED
    BY <2>2, <2>3, <2>4, <2>5, <2>6, <2>7 DEF Next
<1> QED
  BY <1>1, AlwaysIInv, PTL DEF Spec, NoResurrection
=============================================================================
