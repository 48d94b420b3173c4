---------------------------- MODULE RedisBreaker ----------------------------
(***************************************************************************)
(* The cool-off breaker one Redis subsystem shares (aisix-redis: Guard,    *)
(* Breaker, probe_until_closed).  A connectivity failure opens it; while   *)
(* it is open commands are refused without a round trip, and a background  *)
(* prober PINGs Redis once per window until it may close it.               *)
(*                                                                         *)
(* Instants are kept as the time that is left until them, so time is not   *)
(* bounded.  Generations and claims are compared for equality only: an     *)
(* opening takes a generation, and a claim an id, that nobody remembers.   *)
(* trip's case without a connection to probe on is left out: connect_with  *)
(* registers one before it hands out the first RedisConn.                  *)
(***************************************************************************)
EXTENDS Integers, FiniteSets

CONSTANTS Cmds,        \* commands of the subsystem that may run at a time
          Probers,     \* claim ids, one per probe task that may exist at a time
          Window,      \* BREAKER_WINDOW
          Budget,      \* the command budget (timeout_secs)
          ProbeBudget, \* what one probe costs at worst
          Prompt,      \* TRUE: a timer that is due fires before anything else
          None

ASSUME BreakerAssumption ==
  /\ Window \in Nat \ {0} /\ Budget \in Nat \ {0} /\ ProbeBudget \in Nat \ {0}
  /\ Prompt \in BOOLEAN
  /\ Cmds \cap Probers = {} /\ None \notin Probers /\ None \notin Nat
  /\ IsFiniteSet(Cmds) /\ IsFiniteSet(Probers)

VARIABLES up,         \* Redis answers
          hit,        \* commands and PINGs that were under way while it did not
          open,       \* open_until: None, or the time left (0: expired)
          generation,
          prober,     \* BreakerState.prober
          cmd,        \* the commands
          task,       \* the probe tasks, by claim
          overtaken   \* history: commands and PINGs begun before the last opening

vars == <<up, hit, open, generation, prober, cmd, task, overtaken>>

Generations == 0..(Cardinality(Cmds) + Cardinality(Probers) + 1)
MaxLeft == Window + Budget + ProbeBudget

Idle == [pc |-> "idle", left |-> 0, seen |-> 0]
NoTask == [pc |-> "none", left |-> 0, seen |-> 0]

Flying(c) == cmd[c].pc = "flight"
Pinging(k) == task[k].pc = "ping"
Alive(k) == task[k].pc # "none"

\* Mutant: only evidence makes it closed.
IsOpenUntilClosed == open # None

\* Breaker::is_open: the deadline is still ahead.
IsOpen == open # None /\ open > 0

-----------------------------------------------------------------------------
(* Redis. *)

GoDown ==
  /\ up /\ up' = FALSE
  /\ hit' = {c \in Cmds : Flying(c)} \cup {k \in Probers : Pinging(k)}
  /\ UNCHANGED <<open, generation, prober, cmd, task, overtaken>>

ComeBack ==
  /\ ~up /\ up' = TRUE
  /\ UNCHANGED <<hit, open, generation, prober, cmd, task, overtaken>>

\* a's round trip is over.
Done(a) == hit' = hit \ {a} /\ overtaken' = overtaken \ {a}

\* a begins a round trip: it sees this opening, and an outage if there is one.
RoundTrip(a) ==
  /\ overtaken' = overtaken \ {a}
  /\ hit' = IF up THEN hit \ {a} ELSE hit \cup {a}

-----------------------------------------------------------------------------
(* A command: the check of RedisConn::acquire, then Guard::run_with. *)

Acquire(c) ==
  /\ cmd[c].pc = "idle"
  /\ ~IsOpen
  /\ cmd' = [cmd EXCEPT ![c].pc = "acquired"]
  /\ UNCHANGED <<up, hit, open, generation, prober, task, overtaken>>

Fly(c) == /\ cmd' = [cmd EXCEPT ![c] = [pc |-> "flight", left |-> Budget, seen |-> generation]]
          /\ RoundTrip(c)

AdmitClosed(c) ==
  /\ cmd[c].pc = "acquired"
  /\ open = None
  /\ Fly(c)
  /\ UNCHANGED <<up, open, generation, prober, task>>

\* Mutant: the window is not re-armed.
AdmitExpiredBare(c) ==
  /\ cmd[c].pc = "acquired"
  /\ open = 0
  /\ prober' = None
  /\ Fly(c)
  /\ UNCHANGED <<up, open, generation, task>>

\* The deadline has passed with nobody closing: one caller is let through, and
\* the window is re-armed behind it.
AdmitExpired(c) ==
  /\ cmd[c].pc = "acquired"
  /\ open = 0
  /\ prober' = None
  /\ open' = Window
  /\ Fly(c)
  /\ UNCHANGED <<up, generation, task>>

\* The breaker opened between the two checks.
ShortCircuit(c) ==
  /\ cmd[c].pc = "acquired"
  /\ IsOpen
  /\ cmd' = [cmd EXCEPT ![c] = Idle]
  /\ UNCHANGED <<up, hit, open, generation, prober, task, overtaken>>

\* Mutant: any success closes.
close_always(seen) == open' = None

close_unless_reopened(seen) == open' = IF generation = seen THEN None ELSE open

Succeed(c) ==
  /\ Flying(c) /\ up
  /\ close_unless_reopened(cmd[c].seen)
  /\ cmd' = [cmd EXCEPT ![c] = Idle]
  /\ Done(c)
  /\ UNCHANGED <<up, generation, prober, task>>

\* An error the server reported, or the caller went away.
EndWithout(c) ==
  /\ cmd[c].pc \in {"acquired", "flight"}
  /\ cmd' = [cmd EXCEPT ![c] = Idle]
  /\ Done(c)
  /\ UNCHANGED <<up, open, generation, prober, task>>

\* The generations nobody remembers: one more than there can be readers.
Unused ==
  {g \in Generations : /\ g # generation
                       /\ \A d \in Cmds : Flying(d) => g # cmd[d].seen
                       /\ \A k \in Probers : Pinging(k) => g # task[k].seen}

\* trip, first half: Breaker::open.  An I/O error, or the budget is used up.
Fail(c) ==
  /\ Flying(c) /\ c \in hit
  /\ open' = Window
  /\ Unused # {} /\ generation' = CHOOSE g \in Unused : TRUE
  /\ hit' = hit \ {c}
  /\ overtaken' = ({d \in Cmds : Flying(d)} \cup {k \in Probers : Pinging(k)}) \ {c}
  /\ cmd' = [cmd EXCEPT ![c] = [Idle EXCEPT !.pc = "failed"]]
  /\ UNCHANGED <<up, prober, task>>

\* A prober with a claim of its own.
Spawn == LET free == {k \in Probers : ~Alive(k) /\ k # prober}
             k == CHOOSE k \in free : TRUE
         IN  /\ free # {}
             /\ prober' = k
             /\ task' = [task EXCEPT ![k].pc = "start"]

\* trip, second half: claim_prober, and the task is spawned.
Claim(c) ==
  /\ cmd[c].pc = "failed"
  /\ \/ /\ prober # None
        /\ UNCHANGED <<prober, task>>
     \/ /\ prober = None
        /\ Spawn
  /\ cmd' = [cmd EXCEPT ![c] = Idle]
  /\ UNCHANGED <<up, hit, open, generation, overtaken>>

-----------------------------------------------------------------------------
(* probe_until_closed. *)

\* hold_off: the wait and the probe behind it are claimed, if the claim is ours.
HoldOff(k) ==
  /\ task[k].pc = "start"
  /\ \/ /\ prober = k
        /\ open' = Window + ProbeBudget
        /\ task' = [task EXCEPT ![k].pc = "sleep", ![k].left = Window]
     \/ /\ prober # k
        /\ task' = [task EXCEPT ![k] = NoTask]
        /\ UNCHANGED open
  /\ UNCHANGED <<up, hit, generation, prober, cmd, overtaken>>

StartPing(k) ==
  /\ task[k].pc = "sleep" /\ task[k].left = 0
  /\ task' = [task EXCEPT ![k] = [pc |-> "ping", left |-> ProbeBudget, seen |-> generation]]
  /\ RoundTrip(k)
  /\ UNCHANGED <<up, open, generation, prober, cmd>>

\* close_from_prober, unless the claim is gone or a newer failure was noted.
PingAnswered(k) ==
  /\ Pinging(k) /\ up
  /\ \/ /\ prober = k /\ generation = task[k].seen
        /\ open' = None /\ prober' = None
        /\ task' = [task EXCEPT ![k] = NoTask]
     \/ /\ prober # k \/ generation # task[k].seen
        /\ task' = [task EXCEPT ![k] = [NoTask EXCEPT !.pc = "start"]]
        /\ UNCHANGED <<open, prober>>
  /\ Done(k)
  /\ UNCHANGED <<up, generation, cmd>>

PingFails(k) ==
  /\ Pinging(k) /\ k \in hit
  /\ task' = [task EXCEPT ![k] = [NoTask EXCEPT !.pc = "start"]]
  /\ Done(k)
  /\ UNCHANGED <<up, open, generation, prober, cmd>>

\* The runtime the task was spawned on is gone.
ProberDies(k) ==
  /\ Alive(k)
  /\ task' = [task EXCEPT ![k] = NoTask]
  /\ Done(k)
  /\ UNCHANGED <<up, open, generation, prober, cmd>>

-----------------------------------------------------------------------------
\* A budget or a sleep that is over, or a step no await stands before.
Due ==
  \/ \E c \in Cmds : cmd[c].pc = "failed" \/ (Flying(c) /\ cmd[c].left = 0)
  \/ \E k \in Probers : task[k].pc = "start" \/ (Alive(k) /\ task[k].left = 0)

Less(t) == IF t = None \/ t = 0 THEN t ELSE t - 1

Tick ==
  /\ \/ IsOpen
     \/ \E c \in Cmds : Flying(c)
     \/ \E k \in Probers : Alive(k)
  /\ open' = Less(open)
  /\ cmd' = [c \in Cmds |-> [cmd[c] EXCEPT !.left = Less(@)]]
  /\ task' = [k \in Probers |-> [task[k] EXCEPT !.left = Less(@)]]
  /\ UNCHANGED <<up, hit, generation, prober, overtaken>>

Caller(c) == \/ Acquire(c) \/ AdmitClosed(c) \/ AdmitExpired(c) \/ ShortCircuit(c)
             \/ EndWithout(c)
Answer(c) == Succeed(c) \/ Fail(c)
Probe(k) == HoldOff(k) \/ StartPing(k) \/ PingAnswered(k) \/ PingFails(k)

Next ==
  \/ \E c \in Cmds : Answer(c) \/ Claim(c)
  \/ \E k \in Probers : Probe(k) \/ ProberDies(k)
  \/ GoDown \/ ComeBack
  \/ (Prompt => ~Due) /\ (Tick \/ \E c \in Cmds : Caller(c))

Init ==
  /\ up = TRUE /\ hit = {}
  /\ open = None /\ generation = 0 /\ prober = None
  /\ cmd = [c \in Cmds |-> Idle] /\ task = [k \in Probers |-> NoTask]
  /\ overtaken = {}

Spec == Init /\ [][Next]_vars

(* Timers fire and tasks run; while Redis answers, some command that       *)
(* reaches it is not given up by its caller.  No caller has to come.       *)
FairSpec ==
  /\ Spec
  /\ WF_vars(Tick)
  /\ \A c \in Cmds : /\ WF_vars(Claim(c))
                     /\ WF_vars(Answer(c)) /\ SF_vars(Succeed(c))
  /\ \A k \in Probers : WF_vars(Probe(k))

-----------------------------------------------------------------------------
(* Type correctness. *)
TypeOK ==
  /\ up \in BOOLEAN
  /\ hit \subseteq Cmds \cup Probers
  /\ open \in (0..(Window + ProbeBudget)) \cup {None}
  /\ generation \in Generations
  /\ prober \in Probers \cup {None}
  /\ cmd \in [Cmds -> [pc : {"idle", "acquired", "flight", "failed"},
                       left : 0..Budget, seen : Generations]]
  /\ task \in [Probers -> [pc : {"none", "start", "sleep", "ping"},
                           left : 0..MaxLeft, seen : Generations]]
  /\ overtaken \subseteq Cmds \cup Probers

(* The breaker closes only on an answer to something that was sent after   *)
(* the last failure was noted: a success that was already under way, or a  *)
(* PING that a newer failure overtook, does not wipe the cool-off.         *)
ClosesOnNewerEvidence ==
  [][(open # None /\ open' = None) =>
       \E a \in (Cmds \cup Probers) \ overtaken :
         \/ a \in Cmds /\ Flying(a) /\ cmd'[a] = Idle
         \/ a \in Probers /\ Pinging(a) /\ task'[a] = NoTask]_vars

(* A closed breaker has no prober in charge: none would re-open it with    *)
(* its next hold_off although no command failed.                           *)
ClosedHasNoProber == open = None => prober = None

(* Re-testing Redis is never done twice at a time: one PING, and one       *)
(* command that an expired window let through (the commands admitted by a  *)
(* closed breaker are the ones an opening overtook).                       *)
OneProbeAtATime ==
  /\ Cardinality({k \in Probers : Pinging(k)}) <= 1
  /\ open # None => Cardinality({c \in Cmds : Flying(c)} \ overtaken) <= 1

(* Redis back for good is noticed: from some time on no command is refused *)
(* without a round trip, even if no command comes and although probers die. *)
Recovers == <>[]up => <>[]~IsOpen

(* lib.rs:72: while a prober is in charge, no business command is the      *)
(* half-open probe.  The code does not keep it: a failure noted late sets  *)
(* the prober's deadline back to one window (README, section 6).           *)
NoBusinessProbe ==
  [][\A c \in Cmds : (open # None /\ ~Flying(c) /\ cmd'[c].pc = "flight") =>
       ~(prober # None /\ Alive(prober))]_vars
=============================================================================
