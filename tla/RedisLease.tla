----------------------------- MODULE RedisLease -----------------------------
(***************************************************************************)
(* One bucket's concurrency limit, shared by gateway replicas through      *)
(* Redis (aisix-ratelimit store/redis.rs, and the leases limiter.rs keeps  *)
(* alive).  A request takes a member in a sorted set by a script, a task   *)
(* refreshes it while the request lives, commit or release takes it out;   *)
(* members nobody refreshes are pruned.  Whenever Redis does not answer,   *)
(* the replica's own LocalStore decides.                                   *)
(*                                                                         *)
(* A command is a message: it may be applied late, after its caller gave   *)
(* up, or never; its answer may be lost.  Scores are kept as ages, so time *)
(* is not bounded.  The windows and the allowance of a bucket are those of *)
(* LocalStore: here they refuse, or they do not.                           *)
(***************************************************************************)
EXTENDS Integers, FiniteSets

CONSTANTS Reqs,         \* requests, each with a member of its own
          Replicas,     \* gateway processes
          Home,         \* Home[r]: the replica that serves r
          Caps,         \* what RateLimit.concurrency may be
          Ttl,          \* conc_ttl
          RefreshEvery, \* stream_lease_refresh_interval
          Budget,       \* how long a caller waits for an answer
          Misses,       \* refreshes in a row that may fail
          None

ASSUME LeaseAssumption ==
  /\ IsFiniteSet(Reqs) /\ Home \in [Reqs -> Replicas]
  /\ Caps \subseteq Nat /\ Ttl \in Nat \ {0} /\ RefreshEvery \in Nat \ {0}
  /\ Budget \in Nat /\ Misses \in Nat
  /\ None \notin Nat /\ None \notin {"redis", "local", "unknown"}

\* What keeps a lease: an attempt, the ones that may fail, and the answer's way.
ASSUME RefreshAssumption == (Misses + 1) * (RefreshEvery + Budget) + Budget <= Ttl

VARIABLES req,     \* the requests
          ref,     \* their refresh tasks
          own,     \* lease_members of the request's replica
          local,   \* the members in its LocalStore
          lost,    \* lease_loss
          wire,    \* commands on their way
          reply,   \* answers on their way to a caller that waits
          limit,   \* the bucket's RateLimit.concurrency
          zset,    \* the sorted set: age of a member's score
          keyLeft, \* what is left of the key's EXPIRE
          misses   \* history: refreshes of a live request that failed in a row

client == <<req, ref, own, local, lost>>
bucket == <<limit, zset, keyLeft>>
vars == <<client, wire, reply, bucket, misses>>

Ended(r) == req[r].pc = "over"
Live(r) == req[r].pc = "held"

Off == [pc |-> "off", left |-> 0, owned |-> None]
Asleep == [pc |-> "sleep", left |-> RefreshEvery, owned |-> None]

\* A command; its caller waits for the answer, or is gone.
Msg(op, r, caller) == [op |-> op, r |-> r, caller |-> caller]

\* Mutant: the answer to a call that was given up is taken all the same.
AbandonNothing(ops, r) == wire

\* The caller gives up: its command is on its way all the same.
Abandon(ops, r) ==
  {w \in wire : w.r # r \/ w.op \notin ops}
    \cup {Msg(w.op, w.r, "gone") : w \in {v \in wire : v.r = r /\ v.op \in ops}}

NoReply(ops, r) == {a \in reply : a.r # r \/ a.op \notin ops}

\* stop_refresh: abort takes effect at an await.  A task that waits for its
\* timer or its answer is gone; one that has its answer, on another thread of
\* the runtime, goes on to its next await.
StopRefresh(r) == IF ref[r].pc = "answered" THEN ref ELSE [ref EXCEPT ![r] = Off]

-----------------------------------------------------------------------------
(* acquire. *)

InLocal(h) == {r \in Reqs : Home[r] = h /\ r \in local}

Hold(r, ownership) ==
  /\ req' = [req EXCEPT ![r] = [pc |-> "held", left |-> 0]]
  /\ own' = [own EXCEPT ![r] = ownership]
  /\ ref' = [ref EXCEPT ![r] = Asleep]

Refuse(r) ==
  /\ req' = [req EXCEPT ![r] = [pc |-> "over", left |-> 0]]
  /\ UNCHANGED <<own, ref, local>>

\* LocalStore::acquire decides; a window or the allowance may refuse as well.
FallBack(r, ownership) ==
  \/ /\ Cardinality(InLocal(Home[r])) < limit
     /\ local' = local \cup {r}
     /\ Hold(r, ownership)
  \/ Refuse(r)

\* conn.acquire fails: nothing was sent.
AcquireOffline(r) ==
  /\ req[r].pc = "new"
  /\ FallBack(r, "local")
  /\ UNCHANGED <<lost, wire, reply, bucket, misses>>

SendAcquire(r) ==
  /\ req[r].pc = "new"
  /\ req' = [req EXCEPT ![r] = [pc |-> "acquiring", left |-> Budget]]
  /\ wire' = wire \cup {Msg("acquire", r, "waits")}
  /\ UNCHANGED <<ref, own, local, lost, reply, bucket, misses>>

Acquired(r) ==
  /\ req[r].pc = "acquiring"
  /\ \E a \in reply :
       /\ a.r = r /\ a.op = "acquire"
       /\ \/ a.says = "yes" /\ Hold(r, "redis") /\ UNCHANGED local
          \/ a.says = "no" /\ Refuse(r)
  /\ reply' = NoReply({"acquire"}, r)
  /\ UNCHANGED <<lost, wire, bucket, misses>>

\* Mutant: an unanswered acquire counts as confirmed.
AcquireFailsConfirmed(r) ==
  /\ req[r].pc = "acquiring"
  /\ FallBack(r, "redis")
  /\ wire' = Abandon({"acquire"}, r) /\ reply' = NoReply({"acquire"}, r)
  /\ UNCHANGED <<lost, bucket, misses>>

\* No answer: the script may have run, or may run yet.
AcquireFails(r) ==
  /\ req[r].pc = "acquiring"
  /\ FallBack(r, "unknown")
  /\ wire' = Abandon({"acquire"}, r) /\ reply' = NoReply({"acquire"}, r)
  /\ UNCHANGED <<lost, bucket, misses>>

\* The handler is dropped before there is a Reservation.
CancelAcquire(r) ==
  /\ req[r].pc = "acquiring"
  /\ req' = [req EXCEPT ![r] = [pc |-> "over", left |-> 0]]
  /\ wire' = Abandon({"acquire"}, r) /\ reply' = NoReply({"acquire"}, r)
  /\ UNCHANGED <<ref, own, local, lost, bucket, misses>>

-----------------------------------------------------------------------------
(* commit and release. *)

\* Over: the refresh stops, the table entry and the reservation's flag go.
Finish(r, pc, left) ==
  /\ req' = [req EXCEPT ![r] = [pc |-> pc, left |-> left]]
  /\ ref' = StopRefresh(r)
  /\ own' = [own EXCEPT ![r] = None]
  /\ lost' = lost \ {r}
  /\ misses' = [misses EXCEPT ![r] = 0]

\* commit without a connection: LocalStore::commit.
CommitOffline(r) ==
  /\ Live(r)
  /\ Finish(r, "over", 0)
  /\ local' = local \ {r}
  /\ wire' = Abandon({"refresh"}, r) /\ reply' = NoReply({"refresh"}, r)
  /\ UNCHANGED bucket

SendCommit(r) ==
  /\ Live(r)
  /\ Finish(r, "committing", Budget)
  /\ wire' = Abandon({"refresh"}, r) \cup {Msg("remove", r, "waits")}
  /\ reply' = NoReply({"refresh"}, r)
  /\ UNCHANGED <<local, bucket>>

\* Mutant: Redis answered, so the local store is not asked.
CommitEndsRemote(r) ==
  /\ req[r].pc = "committing"
  /\ req' = [req EXCEPT ![r] = [pc |-> "over", left |-> 0]]
  /\ local' = IF \E a \in reply : a.r = r /\ a.op = "remove" THEN local ELSE local \ {r}
  /\ wire' = Abandon({"remove"}, r) /\ reply' = NoReply({"remove"}, r)
  /\ UNCHANGED <<ref, own, lost, bucket, misses>>

\* Answered (local.release) or failed (local.commit): the local slot is free.
CommitEnds(r) ==
  /\ req[r].pc = "committing"
  /\ req' = [req EXCEPT ![r] = [pc |-> "over", left |-> 0]]
  /\ local' = local \ {r}
  /\ wire' = Abandon({"remove"}, r) /\ reply' = NoReply({"remove"}, r)
  /\ UNCHANGED <<ref, own, lost, bucket, misses>>

\* Drop of the reservation or the stream's guard, also in the middle of commit:
\* the local slot now, the member by a task nobody waits for, if it connects.
Release(r) ==
  /\ Live(r) \/ req[r].pc = "committing"
  /\ Finish(r, "over", 0)
  /\ local' = local \ {r}
  /\ \E sent \in {{}, {Msg("remove", r, "gone")}} :
       wire' = Abandon({"refresh", "remove"}, r) \cup sent
  /\ reply' = NoReply({"refresh", "remove"}, r)
  /\ UNCHANGED bucket

\* The process dies; what it sent is on its way.
Crash(h) ==
  LET dead == {r \in Reqs : Home[r] = h /\ req[r].pc \in {"acquiring", "held", "committing"}}
  IN  /\ dead # {}
      /\ req' = [r \in Reqs |-> IF r \in dead THEN [pc |-> "over", left |-> 0] ELSE req[r]]
      /\ ref' = [r \in Reqs |-> IF Home[r] = h THEN Off ELSE ref[r]]
      /\ own' = [r \in Reqs |-> IF Home[r] = h THEN None ELSE own[r]]
      /\ local' = {r \in local : Home[r] # h}
      /\ wire' = {w \in wire : Home[w.r] # h}
                   \cup {Msg(w.op, w.r, "gone") : w \in {v \in wire : Home[v.r] = h}}
      /\ reply' = {a \in reply : Home[a.r] # h}
      /\ lost' = {r \in lost : Home[r] # h}
      /\ misses' = [r \in Reqs |-> IF Home[r] = h THEN 0 ELSE misses[r]]
      /\ UNCHANGED bucket

-----------------------------------------------------------------------------
(* The refresh task. *)

Due(r) == ref[r].pc = "sleep" /\ ref[r].left = 0

Missed(r) == misses' = [misses EXCEPT ![r] = IF @ > Misses THEN @ ELSE @ + 1]

\* LocalOnly, or no connection: Unavailable, and the task sleeps again.
RefreshOffline(r) ==
  /\ Due(r)
  /\ ref' = [ref EXCEPT ![r] = Asleep]
  /\ Missed(r)
  /\ UNCHANGED <<req, own, local, lost, wire, reply, bucket>>

SendRefresh(r) ==
  /\ Due(r) /\ own[r] \in {"redis", "unknown"}
  /\ ref' = [ref EXCEPT ![r] = [pc |-> "flight", left |-> Budget, owned |-> own[r]]]
  /\ wire' = wire \cup {Msg("refresh", r, "waits")}
  /\ UNCHANGED <<req, own, local, lost, reply, bucket, misses>>

\* Mutant: a member Redis does not have is lost, whoever it was.
MissingFor(owned) == TRUE

\* Only a member Redis confirmed can be lost.
IsMissing(owned) == owned = "redis"

Refreshed(r) ==
  /\ ref[r].pc = "flight"
  /\ \E a \in reply :
       /\ a.r = r /\ a.op = "refresh"
       /\ \/ /\ a.says = "yes" /\ ref[r].owned = "unknown"
             /\ ref' = [ref EXCEPT ![r].pc = "answered", ![r].left = 0]
             /\ UNCHANGED lost
          \/ /\ a.says = "yes" /\ ref[r].owned = "redis"
             /\ ref' = [ref EXCEPT ![r] = Asleep]
             /\ UNCHANGED lost
          \/ /\ a.says = "no" /\ IsMissing(ref[r].owned)
             /\ ref' = [ref EXCEPT ![r] = Off]
             /\ lost' = lost \cup {r}
          \/ /\ a.says = "no" /\ ~IsMissing(ref[r].owned)
             /\ ref' = [ref EXCEPT ![r] = Asleep]
             /\ UNCHANGED lost
  /\ reply' = NoReply({"refresh"}, r)
  /\ UNCHANGED <<req, own, local, wire, bucket, misses>>

\* The promotion of an Unknown member, in the task that read the ownership.
Promote(r) ==
  /\ ref[r].pc = "answered"
  /\ own' = [own EXCEPT ![r] = "redis"]
  /\ ref' = [ref EXCEPT ![r] = IF Live(r) THEN Asleep ELSE Off]
  /\ UNCHANGED <<req, local, lost, wire, reply, bucket, misses>>

RefreshFails(r) ==
  /\ ref[r].pc = "flight"
  /\ ref' = [ref EXCEPT ![r] = Asleep]
  /\ wire' = Abandon({"refresh"}, r) /\ reply' = NoReply({"refresh"}, r)
  /\ Missed(r)
  /\ UNCHANGED <<req, own, local, lost, bucket>>

-----------------------------------------------------------------------------
(* Redis: one script, one command at a time. *)

Members == {r \in Reqs : zset[r] # None}

\* Mutant: the deadline is inclusive.
PrunedAt == [r \in Reqs |-> IF zset[r] # None /\ zset[r] >= Ttl THEN None ELSE zset[r]]

\* ZREMRANGEBYSCORE up to, and without, now - conc_ttl.
Pruned == [r \in Reqs |-> IF zset[r] # None /\ zset[r] > Ttl THEN None ELSE zset[r]]

Stamp(set, r) ==
  /\ zset' = [set EXCEPT ![r] = 0]
  /\ keyLeft' = Ttl + 1
  /\ misses' = [misses EXCEPT ![r] = 0]

\* An answer, if its caller still waits.
Answer(w, says) ==
  reply' = IF w.caller = "waits" THEN reply \cup {[op |-> w.op, r |-> w.r, says |-> says]}
           ELSE reply

\* ACQUIRE_LUA: prune, count, check, add.
ApplyAcquire(w) ==
  /\ w.op = "acquire"
  /\ \/ /\ Cardinality({r \in Reqs : Pruned[r] # None}) < limit
        /\ Stamp(Pruned, w.r)
        /\ Answer(w, "yes")
     \/ \* full, or a window or the allowance refuses
        /\ zset' = Pruned
        /\ Answer(w, "no")
        /\ UNCHANGED <<keyLeft, misses>>

\* Mutant: ZADD without XX.
ApplyRefreshAdds(w) ==
  /\ w.op = "refresh"
  /\ Stamp(zset, w.r)
  /\ Answer(w, "yes")

\* REFRESH_CONCURRENCY_LUA: a member that is there, and only then.
ApplyRefresh(w) ==
  /\ w.op = "refresh"
  /\ \/ /\ w.r \in Members
        /\ Stamp(zset, w.r)
        /\ Answer(w, "yes")
     \/ /\ w.r \notin Members
        /\ Answer(w, "no")
        /\ UNCHANGED <<zset, keyLeft, misses>>

\* COMMIT_LUA's last line, and the ZREM of release: both are one "remove".
ApplyRemove(w) ==
  /\ w.op = "remove"
  /\ zset' = [zset EXCEPT ![w.r] = None]
  /\ Answer(w, "yes")
  /\ UNCHANGED <<keyLeft, misses>>

Deliver(w) ==
  /\ wire' = wire \ {w}
  /\ ApplyAcquire(w) \/ ApplyRefresh(w) \/ ApplyRemove(w)
  /\ UNCHANGED <<client, limit>>

Lose(w) ==
  /\ wire' = wire \ {w}
  /\ UNCHANGED <<client, reply, bucket, misses>>

\* PEEK_LUA prunes as well.
Peek ==
  /\ Pruned # zset
  /\ zset' = Pruned
  /\ UNCHANGED <<client, wire, reply, limit, keyLeft, misses>>

-----------------------------------------------------------------------------
Less(n) == IF n = 0 THEN 0 ELSE n - 1

\* Timers fire in time, and a task that needs no answer takes none.
Tick ==
  /\ \A r \in Reqs : /\ req[r].pc \in {"acquiring", "committing"} => req[r].left > 0
                     /\ ref[r].pc \in {"sleep", "flight"} => ref[r].left > 0
                     /\ ref[r].pc # "answered"
  /\ req' = [r \in Reqs |-> [req[r] EXCEPT !.left = Less(@)]]
  /\ ref' = [r \in Reqs |-> [ref[r] EXCEPT !.left = Less(@)]]
  /\ keyLeft' = Less(keyLeft)
  /\ zset' = IF keyLeft' = 0 THEN [r \in Reqs |-> None]
             ELSE [r \in Reqs |-> IF zset[r] = None \/ zset[r] > Ttl THEN zset[r]
                                  ELSE zset[r] + 1]
  /\ UNCHANGED <<own, local, lost, wire, reply, limit, misses>>

Call(r) == Acquired(r) \/ AcquireFails(r) \/ CommitEnds(r)
Refresh(r) == \/ RefreshOffline(r) \/ SendRefresh(r) \/ Refreshed(r) \/ Promote(r)
              \/ RefreshFails(r)

Next ==
  \/ \E r \in Reqs : \/ AcquireOffline(r) \/ SendAcquire(r) \/ CancelAcquire(r)
                     \/ CommitOffline(r) \/ SendCommit(r) \/ Release(r)
                     \/ Call(r) \/ Refresh(r)
  \/ \E h \in Replicas : Crash(h)
  \/ \E w \in wire : Deliver(w) \/ Lose(w)
  \/ Peek
  \/ Tick

Init ==
  /\ req = [r \in Reqs |-> [pc |-> "new", left |-> 0]]
  /\ ref = [r \in Reqs |-> Off]
  /\ own = [r \in Reqs |-> None]
  /\ local = {} /\ lost = {} /\ wire = {} /\ reply = {}
  /\ limit \in Caps
  /\ zset = [r \in Reqs |-> None] /\ keyLeft = 0
  /\ misses = [r \in Reqs |-> 0]

Spec == Init /\ [][Next]_vars

(* Time passes, callers and tasks run, a command does not travel for ever, *)
(* and the bucket is looked at now and then (Peek, for the headers of      *)
(* every answer).  Requests need not end.                                  *)
FairSpec ==
  /\ Spec
  /\ WF_vars(Tick) /\ WF_vars(Peek)
  /\ \A r \in Reqs : WF_vars(Call(r)) /\ WF_vars(Refresh(r))
  /\ WF_vars(\E w \in wire : Deliver(w) \/ Lose(w))

-----------------------------------------------------------------------------
(* Type correctness; a request waits for an answer to the call it made. *)
TypeOK ==
  /\ req \in [Reqs -> [pc : {"new", "acquiring", "held", "committing", "over"},
                     left : 0..Budget]]
  /\ ref \in [Reqs -> [pc : {"off", "sleep", "flight", "answered"},
                       left : Nat, owned : {"redis", "unknown", None}]]
  /\ own \in [Reqs -> {"redis", "local", "unknown", None}]
  /\ local \subseteq Reqs /\ lost \subseteq Reqs
  /\ \A w \in wire :
       /\ w \in [op : {"acquire", "refresh", "remove"}, r : Reqs, caller : {"waits", "gone"}]
       /\ w.caller = "waits" => w.op = (CASE req[w.r].pc = "acquiring" -> "acquire"
                                         [] req[w.r].pc = "committing" -> "remove"
                                         [] OTHER -> "refresh")
  /\ reply \subseteq [op : {"acquire", "refresh", "remove"}, r : Reqs, says : {"yes", "no"}]
  /\ limit \in Caps
  /\ zset \in [Reqs -> 0..(Ttl + 1) \cup {None}]
  /\ keyLeft \in 0..(Ttl + 1)
  /\ misses \in [Reqs -> 0..(Misses + 1)]

(* The cluster-wide limit: of the requests that run on a lease Redis       *)
(* confirmed, and whose refreshes did not fail more often than the lease   *)
(* outlasts, never more than the limit live at a time, whatever else was   *)
(* lost, late, given up or crashed.                                        *)
CapHolds ==
  Cardinality({r \in Reqs : Live(r) /\ own[r] = "redis" /\ misses[r] <= Misses}) <= limit

(* A replica admits no more than the limit by itself while Redis is away,  *)
(* and every live request is counted somewhere: where it was admitted, or  *)
(* in Redis, until the lease was left unrefreshed for too long.            *)
EveryoneCounted ==
  /\ \A h \in Replicas : Cardinality(InLocal(h)) <= limit
  /\ \A r \in Reqs : Live(r) => r \in local \/ r \in Members \/ misses[r] > Misses

(* A stream is told that its lease is lost only if its refreshes had been  *)
(* failing for longer than a lease lasts, and Redis has no member of it.   *)
LossIsReal == \A r \in lost : r \notin Members /\ misses[r] > Misses

(* The slot of a request that is over stays free: unless its acquire is    *)
(* still on its way, no late command, a refresh that races the release     *)
(* above all, puts its member into Redis again.                            *)
NoResurrection ==
  [][\A r \in Reqs :
       Ended(r) /\ r \notin Members /\ (\A w \in wire : w.r = r => w.op # "acquire")
         => zset'[r] = None]_vars

(* Whatever ended, and however, takes nobody's place for ever: it has no   *)
(* member in Redis and no slot in the local store.                         *)
NothingLeaks ==
  <>[](\A r \in Reqs : Ended(r) => r \notin Members /\ r \notin local)

(* No entry of lease_members is left for a request that is over.  A        *)
(* promotion that follows the removal breaks it: see README, section 6.    *)
NoEntryLeaks == <>[](\A r \in Reqs : Ended(r) => own[r] = None)
=============================================================================
