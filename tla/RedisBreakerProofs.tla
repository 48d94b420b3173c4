------------------------ MODULE RedisBreakerProofs --------------------------
(* Proofs about RedisBreaker, for any commands, claims, windows and budgets. *)
(* The first two theorems hold however late timers fire, the last two need   *)
(* prompt timers and a window that outlasts what is under way.               *)
EXTENDS RedisBreaker, FiniteSetTheorems, TLAPS

LEMMA GenerationsHaveZero == 0 \in Generations
BY BreakerAssumption, FS_CardinalityType DEF Generations

\* A generation taken by an opening is one of the Generations, not the current
\* one, and not one a command or a PING under way remembers.
LEMMA UnusedIsFresh ==
  ASSUME Unused # {}
  PROVE  LET g == CHOOSE g \in Unused : TRUE
         IN  /\ g \in Generations /\ g # generation
             /\ \A d \in Cmds : Flying(d) => g # cmd[d].seen
             /\ \A k \in Probers : Pinging(k) => g # task[k].seen
<1> DEFINE g == CHOOSE g \in Unused : TRUE
<1>1. g \in Unused
  OBVIOUS
<1> QED
  BY <1>1 DEF Unused

\* A new prober is one that was not there, and starts at the top of its loop.
LEMMA SpawnPicksFree ==
  ASSUME Spawn
  PROVE  \E k \in Probers : /\ ~Alive(k) /\ prober' = k
                            /\ task' = [task EXCEPT ![k].pc = "start"]
<1> DEFINE free == {k \in Probers : ~Alive(k) /\ k # prober}
           k == CHOOSE k \in free : TRUE
<1>1. free # {} /\ prober' = k /\ task' = [task EXCEPT ![k].pc = "start"]
  BY DEF Spawn
<1>2. k \in free
  BY <1>1
<1> QED
  BY <1>1, <1>2

\* Every variable keeps its type, the breaker's deadline its bound, whatever
\* commands, probers and Redis do.
THEOREM TypeCorrect == Spec => []TypeOK
<1> USE BreakerAssumption
<1>1. Init => TypeOK
  BY GenerationsHaveZero DEF Init, TypeOK, Idle, NoTask, MaxLeft
<1>2. TypeOK /\ [Next]_vars => TypeOK'
  <2> SUFFICES ASSUME TypeOK, [Next]_vars PROVE TypeOK'
    OBVIOUS
  <2> USE GenerationsHaveZero DEF TypeOK
  <2>1. ASSUME NEW c \in Cmds, Caller(c) PROVE TypeOK'
    <3>1. CASE Acquire(c)
      BY <3>1 DEF Acquire
    <3>2. CASE AdmitClosed(c)
      BY <3>2 DEF AdmitClosed, Fly, RoundTrip
    <3>3. CASE AdmitExpired(c)
      BY <3>3 DEF AdmitExpired, Fly, RoundTrip
    <3>4. CASE ShortCircuit(c)
      BY <3>4 DEF ShortCircuit, Idle
    <3>5. CASE EndWithout(c)
      BY <3>5 DEF EndWithout, Idle, Done
    <3> QED
      BY <2>1, <3>1, <3>2, <3>3, <3>4, <3>5 DEF Caller
  <2>2. ASSUME NEW c \in Cmds, Succeed(c) PROVE TypeOK'
    BY <2>2 DEF Succeed, close_unless_reopened, Idle, Done
  <2>3. ASSUME NEW c \in Cmds, Fail(c) PROVE TypeOK'
    <3>1. generation' \in Generations
      BY <2>3, UnusedIsFresh DEF Fail
    <3> QED
      BY <2>3, <3>1 DEF Fail, Idle
  <2>4. ASSUME NEW c \in Cmds, Claim(c) PROVE TypeOK'
    <3>1. prober' \in Probers \cup {None}
      BY <2>4, SpawnPicksFree DEF Claim
    <3>2. task' \in [Probers -> [pc : {"none", "start", "sleep", "ping"},
                                 left : 0..MaxLeft, seen : Generations]]
      BY <2>4, SpawnPicksFree DEF Claim
    <3> QED
      BY <2>4, <3>1, <3>2 DEF Claim, Idle
  <2>5. ASSUME NEW k \in Probers, Probe(k) PROVE TypeOK'
    <3>1. CASE HoldOff(k)
      BY <3>1 DEF HoldOff, NoTask, MaxLeft
    <3>2. CASE StartPing(k)
      BY <3>2 DEF StartPing, RoundTrip, MaxLeft
    <3>3. CASE PingAnswered(k)
      BY <3>3 DEF PingAnswered, NoTask, Done, MaxLeft
    <3>4. CASE PingFails(k)
      BY <3>4 DEF PingFails, NoTask, Done, MaxLeft
    <3> QED
      BY <2>5, <3>1, <3>2, <3>3, <3>4 DEF Probe
  <2>6. ASSUME NEW k \in Probers, ProberDies(k) PROVE TypeOK'
    BY <2>6 DEF ProberDies, NoTask, Done, MaxLeft
  <2>7. CASE GoDown
    BY <2>7 DEF GoDown
  <2>8. CASE ComeBack
    BY <2>8 DEF ComeBack
  <2>9. CASE Tick
    <3>1. \A n \in Nat : \A t \in 0..n : Less(t) \in 0..n
      <4> SUFFICES ASSUME NEW n \in Nat, NEW t \in 0..n PROVE Less(t) \in 0..n
        OBVIOUS
      <4>1. t # None
        OBVIOUS
      <4> QED
        BY <4>1 DEF Less
    <3>2. Budget \in Nat /\ MaxLeft \in Nat /\ Window + ProbeBudget \in Nat
      BY DEF MaxLeft
    <3>3. open' \in (0..(Window + ProbeBudget)) \cup {None}
      BY <2>9, <3>1, <3>2 DEF Tick, Less
    <3>4. cmd' \in [Cmds -> [pc : {"idle", "acquired", "flight", "failed"},
                             left : 0..Budget, seen : Generations]]
      <4>1. \A c \in Cmds : Less(cmd[c].left) \in 0..Budget
        BY <3>1, <3>2
      <4>2. cmd' = [c \in Cmds |-> [cmd[c] EXCEPT !.left = Less(@)]]
        BY <2>9 DEF Tick
      <4>3. \A c \in Cmds : [cmd[c] EXCEPT !.left = Less(@)] \in
              [pc : {"idle", "acquired", "flight", "failed"}, left : 0..Budget,
               seen : Generations]
        <5> SUFFICES ASSUME NEW c \in Cmds
                     PROVE  [cmd[c] EXCEPT !.left = Less(@)] \in
                              [pc : {"idle", "acquired", "flight", "failed"},
                               left : 0..Budget, seen : Generations]
          OBVIOUS
        <5> DEFINE l == Less(cmd[c].left)
        <5>1. l \in 0..Budget
          BY <4>1
        <5> HIDE DEF l
        <5>2. [cmd[c] EXCEPT !.left = l] \in
                 [pc : {"idle", "acquired", "flight", "failed"}, left : 0..Budget,
                  seen : Generations]
          BY <5>1
        <5> QED
          BY <5>2 DEF l
      <4> QED
        BY <4>2, <4>3
    <3>5. task' \in [Probers -> [pc : {"none", "start", "sleep", "ping"},
                                 left : 0..MaxLeft, seen : Generations]]
      <4>1. \A k \in Probers : Less(task[k].left) \in 0..MaxLeft
        BY <3>1, <3>2
      <4> QED
        BY <2>9, <4>1 DEF Tick
    <3> QED
      BY <2>9, <3>3, <3>4, <3>5 DEF Tick
  <2>10. CASE UNCHANGED vars
    BY <2>10 DEF vars
  <2> QED
    BY <2>1, <2>2, <2>3, <2>4, <2>5, <2>6, <2>7, <2>8, <2>9, <2>10 DEF Next, Answer
<1> QED
  BY <1>1, <1>2, PTL DEF Spec

\* What the generation number is for: a command or a PING under way that
\* remembers the current one was begun after the last opening.
SeenInv ==
  /\ \A c \in Cmds : Flying(c) /\ cmd[c].seen = generation => c \notin overtaken
  /\ \A k \in Probers : Pinging(k) /\ task[k].seen = generation => k \notin overtaken

LEMMA SeenInvInit == Init => SeenInv
BY DEF Init, SeenInv

LEMMA SeenInvStep == TypeOK /\ SeenInv /\ [Next]_vars => SeenInv'
<1> USE BreakerAssumption
<1> SUFFICES ASSUME TypeOK, SeenInv, [Next]_vars PROVE SeenInv'
  OBVIOUS
<1> USE DEF SeenInv, Flying, Pinging, TypeOK
<1>1. ASSUME NEW c \in Cmds, Caller(c) PROVE SeenInv'
  <2>1. CASE Acquire(c)
    BY <2>1 DEF Acquire
  <2>2. CASE AdmitClosed(c)
    BY <2>2 DEF AdmitClosed, Fly, RoundTrip
  <2>3. CASE AdmitExpired(c)
    BY <2>3 DEF AdmitExpired, Fly, RoundTrip
  <2>4. CASE ShortCircuit(c)
    BY <2>4 DEF ShortCircuit, Idle
  <2>5. CASE EndWithout(c)
    BY <2>5 DEF EndWithout, Idle, Done
  <2> QED
    BY <1>1, <2>1, <2>2, <2>3, <2>4, <2>5 DEF Caller
<1>2. ASSUME NEW c \in Cmds, Succeed(c) PROVE SeenInv'
  BY <1>2 DEF Succeed, Idle, Done
<1>3. ASSUME NEW c \in Cmds, Fail(c) PROVE SeenInv'
  <2>1. /\ \A d \in Cmds : Flying(d) => generation' # cmd[d].seen
        /\ \A k \in Probers : Pinging(k) => generation' # task[k].seen
    BY <1>3, UnusedIsFresh DEF Fail
  <2> QED
    BY <1>3, <2>1 DEF Fail, Idle
<1>4. ASSUME NEW c \in Cmds, Claim(c) PROVE SeenInv'
  <2>1. \A k \in Probers : task'[k].pc = "ping" => task'[k] = task[k]
    <3>1. CASE UNCHANGED task
      BY <3>1
    <3>2. CASE Spawn
      BY <3>2, SpawnPicksFree
    <3> QED
      BY <1>4, <3>1, <3>2 DEF Claim
  <2> QED
    BY <1>4, <2>1 DEF Claim, Idle
<1>5. ASSUME NEW k \in Probers, Probe(k) PROVE SeenInv'
  <2>1. CASE HoldOff(k)
    BY <2>1 DEF HoldOff, NoTask
  <2>2. CASE StartPing(k)
    BY <2>2 DEF StartPing, RoundTrip
  <2>3. CASE PingAnswered(k)
    BY <2>3 DEF PingAnswered, NoTask, Done
  <2>4. CASE PingFails(k)
    BY <2>4 DEF PingFails, NoTask, Done
  <2> QED
    BY <1>5, <2>1, <2>2, <2>3, <2>4 DEF Probe
<1>6. ASSUME NEW k \in Probers, ProberDies(k) PROVE SeenInv'
  BY <1>6 DEF ProberDies, NoTask, Done
<1>7. CASE GoDown
  BY <1>7 DEF GoDown
<1>8. CASE ComeBack
  BY <1>8 DEF ComeBack
<1>9. CASE Tick
  <2>1. /\ \A c \in Cmds : cmd'[c].pc = cmd[c].pc /\ cmd'[c].seen = cmd[c].seen
        /\ \A k \in Probers : task'[k].pc = task[k].pc /\ task'[k].seen = task[k].seen
    BY <1>9 DEF Tick
  <2> QED
    BY <1>9, <2>1 DEF Tick
<1>10. CASE UNCHANGED vars
  BY <1>10 DEF vars
<1> QED
  BY <1>1, <1>2, <1>3, <1>4, <1>5, <1>6, <1>7, <1>8, <1>9, <1>10 DEF Next, Answer

\* What closes the breaker, for every number of commands and probers: an answer
\* to something sent after the last failure was noted.
THEOREM ClosesOnFreshAnswer == Spec => ClosesOnNewerEvidence
<1> DEFINE Fresh == (open # None /\ open' = None) =>
       \E a \in (Cmds \cup Probers) \ overtaken :
         \/ a \in Cmds /\ Flying(a) /\ cmd'[a] = Idle
         \/ a \in Probers /\ Pinging(a) /\ task'[a] = NoTask
<1>1. TypeOK /\ SeenInv /\ [Next]_vars => [Fresh]_vars
  <2> USE BreakerAssumption
  <2> SUFFICES ASSUME TypeOK, SeenInv, Next, open # None, open' = None
               PROVE  \E a \in (Cmds \cup Probers) \ overtaken :
                        \/ a \in Cmds /\ Flying(a) /\ cmd'[a] = Idle
                        \/ a \in Probers /\ Pinging(a) /\ task'[a] = NoTask
    BY Zenon
  <2>1. ASSUME NEW c \in Cmds, Succeed(c)
        PROVE  c \notin overtaken /\ Flying(c) /\ cmd'[c] = Idle
    BY <2>1 DEF Succeed, close_unless_reopened, SeenInv, TypeOK
  <2>2. ASSUME NEW k \in Probers, PingAnswered(k)
        PROVE  k \notin overtaken /\ Pinging(k) /\ task'[k] = NoTask
    BY <2>2 DEF PingAnswered, SeenInv, TypeOK
  <2>3. \A c \in Cmds : ~Fail(c) /\ ~Claim(c) /\ ~Caller(c)
    BY DEF Fail, Claim, Caller, Acquire, AdmitClosed, AdmitExpired, ShortCircuit, EndWithout
  <2>4. \A k \in Probers : ~HoldOff(k) /\ ~StartPing(k) /\ ~PingFails(k) /\ ~ProberDies(k)
    BY DEF HoldOff, StartPing, PingFails, ProberDies
  <2>5. ~GoDown /\ ~ComeBack /\ ~Tick
    <3>1. open \in Nat
      BY DEF TypeOK
    <3>2. Less(open) \in Nat
      BY <3>1 DEF Less
    <3> QED
      BY <3>2 DEF GoDown, ComeBack, Tick
  <2>6. (\E c \in Cmds : Succeed(c)) \/ (\E k \in Probers : PingAnswered(k))
    BY <2>3, <2>4, <2>5 DEF Next, Answer, Probe
  <2> QED
    BY <2>1, <2>2, <2>6
<1> QED
  BY <1>1, SeenInvInit, SeenInvStep, TypeCorrect, PTL DEF Spec, ClosesOnNewerEvidence

-----------------------------------------------------------------------------
(* With prompt timers and a window longer than a command may take.  A      *)
(* sleeping prober is in charge, the deadline is behind its alarm, and     *)
(* what was under way when it held off ends before it wakes up.            *)

Failed(c) == cmd[c].pc = "failed"
Sleeping(k) == task[k].pc = "sleep"

\* Nobody who could close the breaker knows of this opening.
NoWitness ==
  /\ \A c \in Cmds : Flying(c) => cmd[c].seen # generation
  /\ \A k \in Probers : Pinging(k) => task[k].seen # generation

\* A failure that is noted but whose prober is not claimed yet.
Noted == \A d \in Cmds : Failed(d) => open # None /\ NoWitness

\* A command that may close the breaker was let in when nobody was in charge.
Unattended == \A c \in Cmds : Flying(c) /\ cmd[c].seen = generation => prober = None

InCharge(k) ==
  /\ prober = k /\ open # None /\ open >= task[k].left /\ task[k].left <= Window
  /\ \A c \in Cmds : /\ Flying(c) => cmd[c].left + Window <= task[k].left + Budget
                     /\ Failed(c) => task[k].left > 0

ProberInv ==
  /\ ClosedHasNoProber /\ Noted /\ Unattended
  /\ \A k \in Probers : Sleeping(k) => InCharge(k)

\* The command behind which the window was re-armed ends before the window.
Single ==
  open # None =>
    /\ \A c \in Cmds : Flying(c) /\ c \notin overtaken => cmd[c].left + Window <= open + Budget
    /\ \A c, d \in Cmds :
         Flying(c) /\ Flying(d) /\ c \notin overtaken /\ d \notin overtaken => c = d

\* A PING that lost its claim ends before the next prober wakes up.
OnePing ==
  /\ \A j \in Probers : Pinging(j) => task[j].left <= ProbeBudget
  /\ \A j, k \in Probers : Pinging(j) /\ Sleeping(k) =>
       task[j].left + Window <= task[k].left + ProbeBudget
  /\ \A j, k \in Probers : Pinging(j) /\ Pinging(k) => j = k

LEMMA ProberInvInit == Init => ProberInv /\ Single /\ OnePing
BY BreakerAssumption DEF Init, ProberInv, ClosedHasNoProber, Noted, Unattended, Single, OnePing,
   Idle, NoTask, Flying, Failed, Sleeping, Pinging

LEMMA ProberInvStep ==
  ASSUME Prompt, Window > Budget, TypeOK, TypeOK', ProberInv, [Next]_vars
  PROVE  ProberInv'
<1> USE BreakerAssumption
<1> USE DEF ProberInv, ClosedHasNoProber, Noted, NoWitness, Unattended, InCharge,
            Flying, Failed, Sleeping, Pinging
<1>0. /\ open # None => open \in Nat
      /\ \A c \in Cmds : cmd[c].left \in Nat /\ cmd[c].left <= Budget
      /\ \A k \in Probers : task[k].left \in Nat
      /\ cmd = [c \in Cmds |-> cmd[c]] /\ task = [k \in Probers |-> task[k]]
  BY DEF TypeOK
<1>1. ASSUME NEW c \in Cmds, Caller(c), ~Due PROVE ProberInv'
  <2>1. CASE Acquire(c)
    BY <1>0, <2>1 DEF Acquire
  <2>2. CASE AdmitClosed(c)
    BY <1>0, <1>1, <2>2 DEF AdmitClosed, Fly, Due
  <2>3. CASE AdmitExpired(c)
    BY <1>0, <1>1, <2>3 DEF AdmitExpired, Fly, Due, Alive
  <2>4. CASE ShortCircuit(c)
    BY <1>0, <2>4 DEF ShortCircuit, Idle
  <2>5. CASE EndWithout(c)
    BY <1>0, <2>5 DEF EndWithout, Idle
  <2> QED
    BY <1>1, <2>1, <2>2, <2>3, <2>4, <2>5 DEF Caller
<1>2. ASSUME NEW c \in Cmds, Succeed(c) PROVE ProberInv'
  BY <1>0, <1>2 DEF Succeed, close_unless_reopened, Idle
<1>3. ASSUME NEW c \in Cmds, Fail(c) PROVE ProberInv'
  <2>1. /\ \A d \in Cmds : Flying(d) => generation' # cmd[d].seen
        /\ \A k \in Probers : Pinging(k) => generation' # task[k].seen
    BY <1>3, UnusedIsFresh DEF Fail
  <2>2. /\ open' = Window /\ open' # None /\ Window > 0 /\ prober' = prober /\ task' = task
        /\ cmd'[c].pc = "failed" /\ cmd[c].pc = "flight"
        /\ \A d \in Cmds \ {c} : cmd'[d] = cmd[d]
    BY <1>0, <1>3 DEF Fail, Idle
  <2>3. NoWitness'
    BY <2>1, <2>2
  <2>4. \A k \in Probers : Sleeping(k)' => InCharge(k)'
    <3> SUFFICES ASSUME NEW k \in Probers, task[k].pc = "sleep" PROVE InCharge(k)'
      BY <2>2
    <3>1. /\ prober = k /\ cmd[c].left + Window <= task[k].left + Budget
          /\ task[k].left <= Window
      BY <1>0, <2>2 DEF TypeOK
    <3>2. task[k].left > 0
      BY <1>0, <3>1
    <3> QED
      BY <1>0, <2>2, <3>1, <3>2
  <2> QED
    BY <2>2, <2>3, <2>4
<1>4. ASSUME NEW c \in Cmds, Claim(c) PROVE ProberInv'
  <2>1. CASE UNCHANGED <<prober, task>>
    BY <1>0, <1>4, <2>1 DEF Claim, Idle
  <2>2. CASE Spawn /\ prober = None
    <3>1. PICK k \in Probers : ~Alive(k) /\ prober' = k /\ task' = [task EXCEPT ![k].pc = "start"]
      BY <2>2, SpawnPicksFree
    <3> QED
      BY <1>0, <1>4, <2>2, <3>1 DEF Claim, Idle, Alive
  <2> QED
    BY <1>4, <2>1, <2>2 DEF Claim
<1>5. ASSUME NEW k \in Probers, Probe(k) PROVE ProberInv'
  <2>1. CASE HoldOff(k)
    <3>1. UNCHANGED <<generation, prober, cmd>> /\ task[k].pc = "start"
      BY <2>1 DEF HoldOff
    <3>2. CASE prober = k
      <4>1. /\ open' = Window + ProbeBudget /\ open' # None
            /\ task'[k].pc = "sleep" /\ task'[k].left = Window
            /\ \A j \in Probers \ {k} : task'[j] = task[j]
        <5>1. /\ open' = Window + ProbeBudget
              /\ task' = [task EXCEPT ![k].pc = "sleep", ![k].left = Window]
          BY <2>1, <3>2 DEF HoldOff
        <5>2. task \in [Probers -> [pc : {"none", "start", "sleep", "ping"},
                                    left : 0..MaxLeft, seen : Generations]]
          BY DEF TypeOK
        <5>3. open' # None
          BY <5>1
        <5> HIDE DEF ProberInv
        <5> QED
          BY <5>1, <5>2, <5>3
      <4>2. InCharge(k)'
        BY <1>0, <3>1, <3>2, <4>1
      <4>3. ASSUME NEW j \in Probers, Sleeping(j)' PROVE j = k
        BY <1>0, <3>2, <4>1, <4>3
      <4>4. Noted' /\ Unattended'
        BY <1>0, <3>1, <3>2, <4>1
      <4> QED
        BY <4>1, <4>2, <4>3, <4>4
    <3>3. CASE prober # k
      BY <1>0, <2>1, <3>1, <3>3 DEF HoldOff, NoTask
    <3> QED
      BY <3>2, <3>3
  <2>2. CASE StartPing(k)
    BY <1>0, <2>2 DEF StartPing
  <2>3. CASE PingAnswered(k)
    BY <1>0, <2>3 DEF PingAnswered, NoTask
  <2>4. CASE PingFails(k)
    BY <1>0, <2>4 DEF PingFails, NoTask
  <2> QED
    BY <1>5, <2>1, <2>2, <2>3, <2>4 DEF Probe
<1>6. ASSUME NEW k \in Probers, ProberDies(k) PROVE ProberInv'
  BY <1>0, <1>6 DEF ProberDies, NoTask
<1>7. CASE GoDown
  BY <1>7 DEF GoDown
<1>8. CASE ComeBack
  BY <1>8 DEF ComeBack
<1>9. ASSUME Tick, ~Due PROVE ProberInv'
  <2>1. /\ \A c \in Cmds : /\ cmd'[c].pc = cmd[c].pc /\ cmd'[c].seen = cmd[c].seen
                           /\ cmd'[c].left = Less(cmd[c].left)
        /\ \A k \in Probers : /\ task'[k].pc = task[k].pc /\ task'[k].seen = task[k].seen
                              /\ task'[k].left = Less(task[k].left)
    BY <1>9 DEF Tick, TypeOK
  <2>2. /\ \A c \in Cmds : ~Failed(c) /\ (Flying(c) => cmd[c].left > 0)
        /\ \A k \in Probers : Sleeping(k) => task[k].left > 0
    BY <1>0, <1>9 DEF Due, Alive
  <2>3. /\ open' = Less(open) /\ UNCHANGED <<generation, prober>>
        /\ \A n \in Nat : n > 0 => Less(n) = n - 1
        /\ open' = None <=> open = None
    <3>1. \A n \in Nat : n # None
      OBVIOUS
    <3>2. \A n \in Nat : n > 0 => Less(n) = n - 1
      BY <3>1 DEF Less
    <3>3. open \in Nat => Less(open) \in Nat
      BY <3>1 DEF Less
    <3>4. open = None => Less(open) = None
      BY DEF Less
    <3> QED
      BY <1>0, <1>9, <3>1, <3>2, <3>3, <3>4 DEF Tick
  <2> QED
    BY <1>0, <2>1, <2>2, <2>3
<1>10. CASE UNCHANGED vars
  BY <1>10 DEF vars
<1> QED
  BY <1>1, <1>2, <1>3, <1>4, <1>5, <1>6, <1>7, <1>8, <1>9, <1>10 DEF Next, Answer

LEMMA SingleStep ==
  ASSUME Prompt, Window > Budget, TypeOK, TypeOK', ProberInv, Single, [Next]_vars
  PROVE  Single'
<1> USE BreakerAssumption
<1> USE DEF Single, Flying
<1>0. /\ open # None => open \in Nat
      /\ \A c \in Cmds : cmd[c].left \in Nat /\ cmd[c].left <= Budget
      /\ cmd = [c \in Cmds |-> cmd[c]]
      /\ open = None => prober = None
  BY DEF TypeOK, ProberInv, ClosedHasNoProber
<1>1. ASSUME NEW c \in Cmds, Caller(c) PROVE Single'
  <2>1. CASE Acquire(c)
    BY <1>0, <2>1 DEF Acquire
  <2>2. CASE AdmitClosed(c)
    BY <1>0, <2>2 DEF AdmitClosed
  <2>3. CASE AdmitExpired(c)
    <3>1. \A d \in Cmds : Flying(d) => d \in overtaken
      BY <1>0, <2>3 DEF AdmitExpired
    <3>2. /\ open' = Window /\ cmd'[c].left = Budget
          /\ \A d \in Cmds \ {c} : cmd'[d] = cmd[d] /\ (d \in overtaken => d \in overtaken')
      BY <1>0, <2>3 DEF AdmitExpired, Fly, RoundTrip
    <3> QED
      BY <1>0, <3>1, <3>2
  <2>4. CASE ShortCircuit(c)
    BY <1>0, <2>4 DEF ShortCircuit, Idle
  <2>5. CASE EndWithout(c)
    BY <1>0, <2>5 DEF EndWithout, Idle, Done
  <2> QED
    BY <1>1, <2>1, <2>2, <2>3, <2>4, <2>5 DEF Caller
<1>2. ASSUME NEW c \in Cmds, Succeed(c) PROVE Single'
  BY <1>0, <1>2 DEF Succeed, close_unless_reopened, Idle, Done
<1>3. ASSUME NEW c \in Cmds, Fail(c) PROVE Single'
  BY <1>0, <1>3 DEF Fail, Idle
<1>4. ASSUME NEW c \in Cmds, Claim(c) PROVE Single'
  BY <1>0, <1>4 DEF Claim, Idle
<1>5. ASSUME NEW k \in Probers, Probe(k) PROVE Single'
  <2>1. UNCHANGED cmd /\ k \notin Cmds /\ overtaken \subseteq overtaken' \cup {k}
    BY <1>5 DEF Probe, HoldOff, StartPing, PingAnswered, PingFails, RoundTrip, Done
  <2>2. \/ open' = None \/ open' = open
        \/ open' = Window + ProbeBudget /\ prober = k
    BY <1>5 DEF Probe, HoldOff, StartPing, PingAnswered, PingFails
  <2>3. CASE open' = None \/ open' = open
    BY <1>0, <2>1, <2>3
  <2>4. CASE open' = Window + ProbeBudget /\ prober = k
    <3>1. open # None
      BY <1>0, <2>4
    <3> QED
      BY <1>0, <2>1, <2>4, <3>1
  <2> QED
    BY <2>2, <2>3, <2>4
<1>6. ASSUME NEW k \in Probers, ProberDies(k) PROVE Single'
  BY <1>6 DEF ProberDies, Done
<1>7. CASE GoDown
  BY <1>7 DEF GoDown
<1>8. CASE ComeBack
  BY <1>8 DEF ComeBack
<1>9. ASSUME Tick, ~Due PROVE Single'
  <2>1. \A c \in Cmds : cmd'[c].pc = cmd[c].pc /\ cmd'[c].left = Less(cmd[c].left)
    BY <1>9 DEF Tick, TypeOK
  <2>2. \A c \in Cmds : Flying(c) => cmd[c].left > 0
    BY <1>0, <1>9 DEF Due
  <2>3. /\ open' = Less(open) /\ UNCHANGED overtaken
        /\ \A n \in Nat : n > 0 => Less(n) = n - 1
        /\ open = None => open' = None
        /\ open = 0 => open' = 0
    <3>1. \A n \in Nat : n # None
      OBVIOUS
    <3> QED
      BY <1>9, <3>1 DEF Tick, Less
  <2> QED
    BY <1>0, <2>1, <2>2, <2>3
<1>10. CASE UNCHANGED vars
  BY <1>10 DEF vars
<1> QED
  BY <1>1, <1>2, <1>3, <1>4, <1>5, <1>6, <1>7, <1>8, <1>9, <1>10 DEF Next, Answer

LEMMA OnePingStep ==
  ASSUME Prompt, Window > ProbeBudget, TypeOK, TypeOK', ProberInv, OnePing, [Next]_vars
  PROVE  OnePing'
<1> USE BreakerAssumption
<1> USE DEF OnePing, Pinging, Sleeping
<1>0. /\ \A k \in Probers : task[k].left \in Nat
      /\ \A k \in Probers : Sleeping(k) => prober = k
      /\ task \in [Probers -> [pc : {"none", "start", "sleep", "ping"},
                               left : 0..MaxLeft, seen : Generations]]
  BY DEF TypeOK, ProberInv, InCharge
<1>1. ASSUME NEW c \in Cmds, Caller(c) \/ Succeed(c) \/ Fail(c) PROVE OnePing'
  <2>1. UNCHANGED task
    BY <1>1 DEF Caller, Acquire, AdmitClosed, AdmitExpired, ShortCircuit, EndWithout, Succeed, Fail
  <2> QED
    BY <2>1
<1>2. ASSUME NEW c \in Cmds, Claim(c) PROVE OnePing'
  <2>1. CASE UNCHANGED task
    BY <2>1
  <2>2. CASE Spawn
    BY <1>0, <2>2, SpawnPicksFree
  <2> QED
    BY <1>2, <2>1, <2>2 DEF Claim
<1>3. ASSUME NEW k \in Probers, Probe(k) PROVE OnePing'
  <2>1. CASE HoldOff(k)
    <3>1. CASE task' = [task EXCEPT ![k].pc = "sleep", ![k].left = Window]
      <4>1. /\ task'[k].pc = "sleep" /\ task'[k].left = Window
            /\ \A j \in Probers \ {k} : task'[j] = task[j]
        BY <1>0, <3>1
      <4> QED
        BY <1>0, <4>1
    <3>2. CASE task' = [task EXCEPT ![k] = NoTask]
      BY <1>0, <3>2 DEF NoTask
    <3> QED
      BY <2>1, <3>1, <3>2 DEF HoldOff
  <2>2. CASE StartPing(k)
    <3>1. /\ task[k].pc = "sleep" /\ task[k].left = 0
          /\ task'[k].pc = "ping" /\ task'[k].left = ProbeBudget
          /\ \A j \in Probers \ {k} : task'[j] = task[j]
      BY <1>0, <2>2 DEF StartPing
    <3>2. \A j \in Probers : ~Pinging(j)
      BY <1>0, <3>1
    <3>3. \A j \in Probers \ {k} : ~Sleeping(j)
      BY <1>0, <3>1
    <3> QED
      BY <1>0, <3>1, <3>2, <3>3
  <2>3. CASE PingAnswered(k) \/ PingFails(k)
    <3>1. /\ task'[k].pc \in {"none", "start"}
          /\ \A j \in Probers \ {k} : task'[j] = task[j]
      BY <1>0, <2>3 DEF PingAnswered, PingFails, NoTask
    <3> QED
      BY <1>0, <3>1
  <2> QED
    BY <1>3, <2>1, <2>2, <2>3 DEF Probe
<1>4. ASSUME NEW k \in Probers, ProberDies(k) PROVE OnePing'
  BY <1>0, <1>4 DEF ProberDies, NoTask
<1>5. CASE GoDown \/ ComeBack \/ UNCHANGED vars
  <2>1. UNCHANGED task
    BY <1>5 DEF GoDown, ComeBack, vars
  <2> QED
    BY <2>1
<1>6. ASSUME Tick, ~Due PROVE OnePing'
  <2>1. \A k \in Probers : task'[k].pc = task[k].pc /\ task'[k].left = Less(task[k].left)
    BY <1>0, <1>6 DEF Tick
  <2>2. \A k \in Probers : Pinging(k) \/ Sleeping(k) => task[k].left > 0
    BY <1>0, <1>6 DEF Due, Alive
  <2>3. \A n \in Nat : n > 0 => Less(n) = n - 1
    <3>1. \A n \in Nat : n # None
      OBVIOUS
    <3> QED
      BY <3>1 DEF Less
  <2> QED
    BY <1>0, <2>1, <2>2, <2>3
<1> QED
  BY <1>1, <1>2, <1>3, <1>4, <1>5, <1>6 DEF Next, Answer

LEMMA AtMostOne ==
  ASSUME NEW S, \A x, y \in S : x = y
  PROVE  Cardinality(S) <= 1
<1>1. CASE S = {}
  BY <1>1, FS_EmptySet
<1>2. CASE S # {}
  <2>1. PICK x \in S : TRUE
    BY <1>2
  <2>2. S = {x}
    BY <2>1
  <2> QED
    BY <2>2, FS_Singleton
<1> QED
  BY <1>1, <1>2

(* A closed breaker has no prober in charge, for any commands, claims and  *)
(* probe budgets: with prompt timers it is enough that a command's budget  *)
(* is shorter than the window, as 5 s and 30 s are.                        *)
THEOREM ClosedIsUnattended ==
  ASSUME Prompt, Window > Budget
  PROVE  Spec => []ClosedHasNoProber
<1>1. Init => ProberInv
  BY ProberInvInit
<1>2. TypeOK /\ TypeOK' /\ ProberInv /\ [Next]_vars => ProberInv'
  BY ProberInvStep
<1>3. ProberInv => ClosedHasNoProber
  BY DEF ProberInv
<1> QED
  BY <1>1, <1>2, <1>3, TypeCorrect, PTL DEF Spec

(* Redis is never re-tested twice at a time: one PING, and one command     *)
(* that an expired window let through, for any commands and claims, if a   *)
(* command and a probe are each over within the window.                    *)
THEOREM ProbesOneByOne ==
  ASSUME Prompt, Window > Budget, Window > ProbeBudget
  PROVE  Spec => []OneProbeAtATime
<1>1. Init => ProberInv /\ Single /\ OnePing
  BY ProberInvInit
<1>2. TypeOK /\ TypeOK' /\ ProberInv /\ Single /\ OnePing /\ [Next]_vars
        => ProberInv' /\ Single' /\ OnePing'
  BY ProberInvStep, SingleStep, OnePingStep
<1>3. Single /\ OnePing => OneProbeAtATime
  <2> SUFFICES ASSUME Single, OnePing PROVE OneProbeAtATime
    OBVIOUS
  <2> DEFINE Pings == {k \in Probers : Pinging(k)}
             Tests == {c \in Cmds : Flying(c)} \ overtaken
  <2>1. \A j, k \in Pings : j = k
    BY DEF OnePing
  <2>2. open # None => \A c, d \in Tests : c = d
    BY DEF Single
  <2> HIDE DEF Pings, Tests
  <2>3. Cardinality(Pings) <= 1 /\ (open # None => Cardinality(Tests) <= 1)
    BY <2>1, <2>2, AtMostOne
  <2> QED
    BY <2>3 DEF OneProbeAtATime, Pings, Tests
<1> QED
  BY <1>1, <1>2, <1>3, TypeCorrect, PTL DEF Spec
=============================================================================
