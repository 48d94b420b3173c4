--------------------------- MODULE SpendBilling ---------------------------
(***************************************************************************)
(* How the portal turns one tenant's gateway spend counters into debits    *)
(* (aisix-portal sweeper.rs: tick and settle; store.rs: BillingBasis).     *)
(*                                                                         *)
(* Every gateway process exposes a cumulative counter per series; a        *)
(* restart begins again at 0.  Prometheus replicas scrape it at their own  *)
(* times and may lag.  Several portal instances share one database; each   *)
(* asks for the counters as of the instant its tick began, reads the       *)
(* cursors (`billing_basis`) when the tenant's turn comes, computes what   *)
(* to charge, and writes debit, cursors and mark in one transaction that   *)
(* first compares the basis again.                                         *)
(***************************************************************************)
EXTENDS Integers, FiniteSets

CONSTANTS Series,      \* spend series of the tenant, by their full labels
          Portals,     \* portal instances on one database
          Proms,       \* Prometheus replicas
          MaxEpoch,    \* processes a series may live through
          MaxSpend,    \* bound on one process's counter
          MaxTime,     \* bound on the clock
          Exposing,    \* the processes that expose process_start_time_seconds
          Legacy,      \* TRUE: upgraded from the time-window biller
          Stale,       \* how long Prometheus answers with an old sample
          ScrapeGap,   \* a live process is scraped at least this often
          SweepGap,    \* the portal settles at least this often
          RoundGap,    \* a round is over within this time (READ_BUDGET and the writes)
          SeedGrace,   \* SEED_GRACE
          Retention,   \* CURSOR_RETENTION
          IdleEvery,   \* IDLE_SETTLE_EVERY
          None         \* NULL / no row

Epochs == 1..MaxEpoch
Times == 1..MaxTime
Amounts == 0..MaxSpend
\* instance_started_ms; 0 is NULL.
Starts == 0..MaxEpoch

ASSUME BillingAssumption ==
  /\ MaxEpoch \in Nat \ {0} /\ MaxTime \in Nat \ {0} /\ MaxSpend \in Nat
  /\ Exposing \subseteq Epochs
  /\ Legacy \in BOOLEAN
  /\ Stale \in Nat /\ ScrapeGap \in Nat /\ SweepGap \in Nat /\ RoundGap \in Nat
  /\ SeedGrace \in Nat /\ Retention \in Nat /\ IdleEvery \in Nat

VARIABLES clock,
          gw,        \* series -> the process behind it and its counter
          spent,     \* history: [series][process], what the process spent
          prom,      \* replica -> series -> last sample and last reset seen
          mark,      \* consumption_mark
          cursor,    \* spend_cursor
          portal,    \* the instances' local state
          charged    \* history: [series][process], what was debited for it

vars == <<clock, gw, spent, prom, mark, cursor, portal, charged>>

Samples == [epoch : 0..MaxEpoch, value : Amounts, at : 0..MaxTime, up : {0, 1},
            reset : 0..MaxTime]
Marks == [through : Times, seeded : {0, 1}, seededAt : Times \cup {None}]
\* `epoch` is history: the process whose sample set the cursor.
Cursors == [value : Amounts, started : Starts, updated : Times, epoch : Epochs]
\* A cursor as billing_basis reads it, a series of an answer, and what it comes to.
Rows == [value : Amounts, started : Starts]
Reports == [epoch : Epochs, value : Amounts, reset : 0..MaxTime]
Charges == [charge : Amounts, value : Amounts, started : Starts]

ASSUME NoneAssumption ==
  /\ None \notin Nat /\ None \notin Marks /\ None \notin Cursors
  /\ None \notin Rows /\ None \notin Reports /\ None \notin Charges

NoBasis == [mark |-> None, cursor |-> [s \in Series |-> None]]

BasisOfWholeRows == [mark |-> mark, cursor |-> cursor]

\* BillingBasis: everything of the rows but updated_at.
Basis ==
  [mark |-> mark,
   cursor |-> [s \in Series |-> IF cursor[s] = None THEN None
                                ELSE [value |-> cursor[s].value,
                                      started |-> cursor[s].started]]]

Idle == [pc |-> "idle", now |-> 1, answer |-> [s \in Series |-> None], basis |-> NoBasis]

Init ==
  /\ clock = 1
  /\ \E v \in [Series -> IF Legacy THEN Amounts ELSE {0}] :
       /\ gw = [s \in Series |-> [epoch |-> 1, value |-> v[s], state |-> "runs"]]
       /\ spent = [s \in Series |-> [e \in Epochs |-> IF e = 1 THEN v[s] ELSE 0]]
       /\ charged = spent
  /\ prom = [p \in Proms |-> [s \in Series |->
               [epoch |-> 0, value |-> 0, at |-> 0, up |-> 0, reset |-> 0]]]
  /\ mark = IF Legacy THEN [through |-> 1, seeded |-> 0, seededAt |-> None] ELSE None
  /\ cursor = [s \in Series |-> None]
  /\ portal = [i \in Portals |-> Idle]

-----------------------------------------------------------------------------
(* The world the portal reads: gateway processes and Prometheus.  The last *)
(* instant stands for all that follow: gateways rest, reads go on.         *)

Running == clock < MaxTime

Runs(s) == gw[s].state = "runs"

Spend(s) ==
  /\ Running
  /\ Runs(s) /\ gw[s].value < MaxSpend
  /\ gw' = [gw EXCEPT ![s].value = @ + 1]
  /\ spent' = [spent EXCEPT ![s][gw[s].epoch] = @ + 1]
  /\ UNCHANGED <<clock, prom, mark, cursor, portal, charged>>

Exit(s) ==
  /\ Running /\ Runs(s)
  /\ gw' = [gw EXCEPT ![s].state = "gone"]
  /\ UNCHANGED <<clock, spent, prom, mark, cursor, portal, charged>>

\* A new process with the same labels: its counter begins at 0.
Start(s) ==
  /\ Running /\ ~Runs(s) /\ gw[s].epoch < MaxEpoch
  /\ gw' = [gw EXCEPT ![s] = [epoch |-> @.epoch + 1, value |-> 0, state |-> "runs"]]
  /\ UNCHANGED <<clock, spent, prom, mark, cursor, portal, charged>>

\* A query is evaluated at its instant: a sample taken after it is a later one's.
QueriedNow ==
  \/ mark # None /\ mark.through = clock
  \/ \E i \in Portals : portal[i].pc # "idle" /\ portal[i].now = clock

\* resets() counts a sample that is smaller than the one before it.
Scrape(p, s) ==
  /\ Running => ~QueriedNow
  /\ prom' = [prom EXCEPT ![p][s] =
       IF Runs(s)
         THEN [epoch |-> gw[s].epoch, value |-> gw[s].value, at |-> clock, up |-> 1,
               reset |-> IF gw[s].value < @.value THEN clock ELSE @.reset]
         ELSE [@ EXCEPT !.up = 0]]
  /\ UNCHANGED <<clock, gw, spent, mark, cursor, portal, charged>>

Visible(p, s) == prom[p][s].up = 1 /\ clock - prom[p][s].at <= Stale

\* What a query says of a sample; the process shows through its start time only.
Reported(sample) ==
  [epoch |-> sample.epoch, value |-> sample.value, reset |-> sample.reset]

-----------------------------------------------------------------------------
(* One instance's round for the tenant.                                    *)

\* tick(now): the query is evaluated at `now`, by whichever replica answers.
BeginTick(i) ==
  /\ portal[i].pc = "idle"
  /\ \E p \in Proms :
       portal' = [portal EXCEPT ![i] =
         [Idle EXCEPT !.pc = "basis", !.now = clock,
                      !.answer = [s \in Series |-> 
                         IF Visible(p, s) THEN Reported(prom[p][s]) ELSE None]]]
  /\ UNCHANGED <<clock, gw, spent, prom, mark, cursor, charged>>

ReadBasis(i) ==
  /\ portal[i].pc = "basis"
  /\ portal' = [portal EXCEPT ![i].pc = "settle", ![i].basis = Basis]
  /\ UNCHANGED <<clock, gw, spent, prom, mark, cursor, charged>>

\* The read fails, the budget is used up, or the process dies: nothing moves.
GiveUp(i) ==
  /\ portal[i].pc # "idle"
  /\ portal' = [portal EXCEPT ![i] = Idle]
  /\ UNCHANGED <<clock, gw, spent, prom, mark, cursor, charged>>

StartOf(sample) == IF sample.epoch \in Exposing THEN sample.epoch ELSE 0

\* What a reading costs and where its cursor goes, by the match of the code.
Outcome(charge, value, started) ==
  [charge |-> charge, value |-> value, started |-> started]

\* Both sides know the process: only a LATER one is a restart, an earlier one
\* or a smaller value is a stale reading.
ByStartOfAny(cur, v, st) ==
  IF st # cur.started THEN Outcome(v, v, st)
  ELSE IF v < cur.value THEN Outcome(0, cur.value, cur.started)
  ELSE Outcome(v - cur.value, v, cur.started)

ByStartAsDifference(cur, v, st) ==
  IF st < cur.started \/ v < cur.value THEN Outcome(0, cur.value, cur.started)
  ELSE Outcome(v - cur.value, v, st)

ByStart(cur, v, st) ==
  IF st > cur.started THEN Outcome(v, v, st)
  ELSE IF st < cur.started \/ v < cur.value THEN Outcome(0, cur.value, cur.started)
  ELSE Outcome(v - cur.value, v, cur.started)

\* Some side does not: resets() decides.
ByResets(cur, v, st, resets) ==
  IF resets THEN Outcome(v, v, st)
  ELSE IF v >= cur.value
    THEN Outcome(v - cur.value, v, IF st # 0 THEN st ELSE cur.started)
    ELSE Outcome(0, cur.value, cur.started)

Reading(cur, sample, since, grace) ==
  LET v == sample.value
      st == StartOf(sample)
  IN IF cur = None THEN Outcome(IF grace THEN 0 ELSE v, v, st)
     ELSE IF cur.started # 0 /\ st # 0 THEN ByStart(cur, v, st)
     ELSE ByResets(cur, v, st, sample.reset > since)

NeedsSeeding(b) == b.mark # None /\ b.mark.seeded = 0

NoGrace(b, now) == FALSE

InGrace(b, now) ==
  b.mark # None /\ b.mark.seededAt # None /\ now < b.mark.seededAt + SeedGrace

\* The round's outcome for each series of the answer.
Outcomes(i) ==
  LET b == portal[i].basis
      now == portal[i].now
      since == IF b.mark = None THEN now ELSE b.mark.through
      a == portal[i].answer
  IN [s \in Series |->
        IF a[s] = None THEN None
        ELSE IF NeedsSeeding(b) THEN Outcome(0, a[s].value, StartOf(a[s]))
        ELSE Reading(b.cursor[s], a[s], since, InGrace(b, now))]

YoungMark(i) ==
  /\ ~NeedsSeeding(portal[i].basis) /\ portal[i].basis.mark # None
  /\ portal[i].now - portal[i].basis.mark.through < IdleEvery

\* Nothing changed and the mark is young: no write transaction.
NothingToSettle(i) ==
  LET b == portal[i].basis
      out == Outcomes(i)
  IN /\ ~NeedsSeeding(b) /\ b.mark # None
     /\ portal[i].now - b.mark.through < IdleEvery
     /\ \A s \in Series : out[s] # None =>
          /\ out[s].charge = 0
          /\ b.cursor[s] = [value |-> out[s].value, started |-> out[s].started]

SkipIdle(i) ==
  /\ portal[i].pc = "settle"
  /\ NothingToSettle(i)
  /\ portal' = [portal EXCEPT ![i] = Idle]
  /\ UNCHANGED <<clock, gw, spent, prom, mark, cursor, charged>>

BasisUnchecked(i) == TRUE

BasisHolds(i) == portal[i].basis = Basis

ExpiredEarly(s) == cursor[s].updated <= clock - Retention

\* Not read for longer than CURSOR_RETENTION.
Expired(s) == cursor[s].updated < clock - Retention

\* An answer without any series is an outage: nothing is pruned on its word.
MayPrune(read) == read # {}

\* The cursors the transaction leaves.
NewCursors(i) ==
  LET out == Outcomes(i)
      a == portal[i].answer
      read == {s \in Series : out[s] # None}
      \* the reading that moved the cursor, for the history field
      process(s) == IF cursor[s] # None /\ cursor[s].value = out[s].value
                                        /\ out[s].charge = 0
                                        /\ cursor[s].started = out[s].started
                      THEN cursor[s].epoch ELSE a[s].epoch
  IN [s \in Series |->
        IF s \in read
          THEN [value |-> out[s].value, started |-> out[s].started,
                updated |-> clock, epoch |-> process(s)]
        ELSE IF cursor[s] # None /\ MayPrune(read) /\ Expired(s) THEN None
        ELSE cursor[s]]

\* settle: compare the basis, then debit, cursors and mark in one transaction.
Settle(i) ==
  LET out == Outcomes(i)
      a == portal[i].answer
      now == portal[i].now
  IN /\ portal[i].pc = "settle"
     /\ ~NothingToSettle(i)
     /\ BasisHolds(i)
     /\ cursor' = NewCursors(i)
     /\ mark' = [through |-> now, seeded |-> 1,
                 seededAt |-> IF mark = None THEN None
                              ELSE IF mark.seeded = 0 THEN now ELSE mark.seededAt]
     /\ charged' = [s \in Series |->
          IF out[s] = None THEN charged[s]
          ELSE [charged[s] EXCEPT ![a[s].epoch] = @ + out[s].charge]]
     /\ portal' = [portal EXCEPT ![i] = Idle]
     /\ UNCHANGED <<clock, gw, spent, prom>>

\* Another instance settled in between: this round is left to it.
YieldRound(i) ==
  /\ portal[i].pc = "settle"
  /\ ~NothingToSettle(i)
  /\ ~BasisHolds(i)
  /\ portal' = [portal EXCEPT ![i] = Idle]
  /\ UNCHANGED <<clock, gw, spent, prom, mark, cursor, charged>>

Tick ==
  /\ Running
  /\ \A p \in Proms, s \in Series :
       Runs(s) => clock - prom[p][s].at < ScrapeGap
  /\ mark # None => clock - mark.through < SweepGap
  /\ \A i \in Portals : portal[i].pc # "idle" => clock - portal[i].now < RoundGap
  /\ clock' = clock + 1
  /\ UNCHANGED <<gw, spent, prom, mark, cursor, portal, charged>>

World ==
  \/ \E s \in Series : Spend(s) \/ Exit(s) \/ Start(s)
  \/ \E p \in Proms, s \in Series : Scrape(p, s)
  \/ Tick

Sweep(i) ==
  BeginTick(i) \/ ReadBasis(i) \/ GiveUp(i) \/ SkipIdle(i) \/ Settle(i) \/ YieldRound(i)

Next == World \/ \E i \in Portals : Sweep(i)

Spec == Init /\ [][Next]_vars

(* Time passes; scrapes and sweeps are timers that keep firing; a sweep    *)
(* whose read does not fail every time reaches its transaction.            *)
FairSpec ==
  /\ Spec
  /\ WF_vars(Tick)
  /\ \A p \in Proms, s \in Series : WF_vars(Scrape(p, s))
  /\ \A i \in Portals : /\ WF_vars(BeginTick(i))
                        /\ SF_vars(ReadBasis(i))
                        /\ SF_vars(Settle(i)) /\ SF_vars(SkipIdle(i)) /\ SF_vars(YieldRound(i))

-----------------------------------------------------------------------------
Answers == [Series -> Reports \cup {None}]
Bases == [mark : Marks \cup {None}, cursor : [Series -> Rows \cup {None}]]

TypeOK ==
  /\ clock \in Times
  /\ gw \in [Series -> [epoch : Epochs, value : Amounts, state : {"runs", "gone"}]]
  /\ spent \in [Series -> [Epochs -> Amounts]]
  /\ prom \in [Proms -> [Series -> Samples]]
  /\ mark \in Marks \cup {None}
  /\ cursor \in [Series -> Cursors \cup {None}]
  /\ portal \in [Portals -> [pc : {"idle", "basis", "settle"}, now : Times,
                             answer : Answers, basis : Bases]]
  /\ charged \in [Series -> [Epochs -> Nat]]

(* No process's spend is debited twice or before it happened: whatever     *)
(* replicas lag, processes restart, instances overlap or die mid-round,    *)
(* and whatever history an upgrade finds, the tenant never pays more than  *)
(* each process spent.                                                     *)
NoOvercharge ==
  \A s \in Series, e \in Epochs : charged[s][e] <= spent[s][e]

(* The ledger and the cursors agree: up to its cursor, the process behind  *)
(* a series has been debited in full (sweeper.rs: debit and cursor are one *)
(* transaction, and a restart is charged from 0).                          *)
CursorIsLedger ==
  \A s \in Series : cursor[s] # None => charged[s][cursor[s].epoch] = cursor[s].value

(* A cursor never goes back to an earlier process or, within a process, to *)
(* a smaller value: that difference would be debited again.                *)
CursorNeverRetreats ==
  [][\A s \in Series : cursor[s] # None /\ cursor'[s] # None =>
       \/ cursor'[s].started > cursor[s].started
       \/ cursor'[s].started = cursor[s].started /\ cursor'[s].value >= cursor[s].value]_vars

(* Once the gateways come to rest, what the live processes spent is        *)
(* debited to the last unit, although rounds fail, overlap and yield.      *)
EverythingCharged ==
  <>[](\A s \in Series : Runs(s) => charged[s][gw[s].epoch] = gw[s].value)

=============================================================================
