------------------------ MODULE SpendBillingProofs ------------------------
(***************************************************************************)
(* Proofs about SpendBilling.                                              *)
(*                                                                         *)
(* Types come with Known: nothing that Prometheus or a round knows of a    *)
(* process is more than the process spent.  From the transaction alone a   *)
(* cursor never retreats.  That a process is debited once rests on three   *)
(* facts: the cursor is the debit of the latest process (Ledger); while a  *)
(* process runs its cursor is young, and what can still be seen of it is   *)
(* not much younger than the cursor (Fresh); and when the cursor is gone,  *)
(* nobody can report a process that was debited (Forgotten).               *)
(***************************************************************************)
EXTENDS SpendBilling, TLAPS

Busy(i) == portal[i].pc # "idle"

\* What Prometheus and the portals' answers know of a series has happened.
Counters(s) ==
  /\ gw[s].value = spent[s][gw[s].epoch]
  /\ \A e \in Epochs : e > gw[s].epoch => spent[s][e] = 0
  /\ \A p \in Proms :
       /\ prom[p][s].epoch <= gw[s].epoch /\ prom[p][s].at <= clock
       /\ prom[p][s].up = 1 => prom[p][s].epoch >= 1
       /\ prom[p][s].epoch >= 1 => prom[p][s].value <= spent[s][prom[p][s].epoch]
  /\ \A i \in Portals :
       portal[i].answer[s] # None =>
         /\ portal[i].answer[s].epoch <= gw[s].epoch
         /\ portal[i].answer[s].value <= spent[s][portal[i].answer[s].epoch]

Settled ==
  /\ mark # None => /\ mark.seeded = 1 /\ mark.seededAt = None
                    /\ clock <= mark.through + SweepGap + RoundGap
  /\ \A i \in Portals : Busy(i) => portal[i].now <= clock /\ clock <= portal[i].now + RoundGap

\* The cursor says what was debited.
Ledger(s) ==
  /\ \A e \in Epochs : charged[s][e] <= spent[s][e]
  /\ cursor[s] # None =>
       /\ mark # None
       /\ cursor[s].started = cursor[s].epoch /\ cursor[s].epoch <= gw[s].epoch
       /\ charged[s][cursor[s].epoch] = cursor[s].value
       /\ \A e \in Epochs : e > cursor[s].epoch => charged[s][e] = 0

\* How long after a cursor was written its process can still be seen.
Seen == ScrapeGap + SweepGap + RoundGap

\* Replicas know a running process, or it is so young that its cursor is too.
Fresh(s) ==
  /\ \A p \in Proms : Runs(s) /\ prom[p][s].epoch = gw[s].epoch =>
       prom[p][s].up = 1 /\ clock <= prom[p][s].at + ScrapeGap
  /\ cursor[s] # None =>
       /\ cursor[s].updated <= clock
       /\ Runs(s) /\ cursor[s].epoch = gw[s].epoch =>
            /\ mark.through <= cursor[s].updated + ScrapeGap
            /\ \A p \in Proms : prom[p][s].epoch < gw[s].epoch =>
                 /\ prom[p][s].at <= cursor[s].updated
                 /\ clock <= cursor[s].updated + ScrapeGap
            /\ \A i \in Portals : Busy(i) /\ portal[i].answer[s] = None =>
                 portal[i].now <= cursor[s].updated + ScrapeGap
       /\ \A p \in Proms : prom[p][s].epoch <= cursor[s].epoch =>
            prom[p][s].at <= cursor[s].updated + Seen
       /\ \A i \in Portals : 
            Busy(i) /\ portal[i].answer[s] # None
              /\ portal[i].answer[s].epoch <= cursor[s].epoch =>
            portal[i].now <= cursor[s].updated + Seen + Stale

\* Once a cursor is pruned, nobody hears of its process again.
Forgotten(s) ==
  cursor[s] = None =>
    \A e \in Epochs : charged[s][e] > 0 =>
      /\ Runs(s) => gw[s].epoch > e
      /\ \A p \in Proms : prom[p][s].epoch <= e => prom[p][s].at + Stale < clock
      /\ \A i \in Portals : Busy(i) /\ portal[i].answer[s] # None => portal[i].answer[s].epoch > e

\* The retention is thirty days; scrapes, staleness, sweeps and rounds are minutes.
\* Every process exposes its start, and the tenant did not come from the old biller.
Timing == /\ Exposing = Epochs /\ ~Legacy
          /\ Stale >= ScrapeGap /\ Retention >= Seen + Stale + RoundGap

BInv == Settled /\ \A s \in Series : Ledger(s) /\ Fresh(s) /\ Forgotten(s)

-----------------------------------------------------------------------------
(* Readings and outcomes. *)

LEMMA ReadingType ==
  ASSUME NEW cur \in Rows \cup {None}, NEW sample \in Reports, NEW since, NEW grace
  PROVE  Reading(cur, sample, since, grace) \in Charges
<1> USE BillingAssumption
<1>1. /\ sample.value \in Amounts /\ sample.epoch \in Epochs
      /\ StartOf(sample) \in Starts /\ 0 \in Amounts
  BY DEF Reports, StartOf, Starts, Epochs, Amounts
<1>2. CASE cur = None
  BY <1>1, <1>2 DEF Reading, Outcome, Charges
<1>3. CASE cur # None
  <2>1. cur.value \in Amounts /\ cur.started \in Starts
    BY <1>3 DEF Rows
  <2>2. \A v \in Amounts : v >= cur.value => v - cur.value \in Amounts
    BY <2>1 DEF Amounts
  <2>3. \A v \in Amounts, st \in Starts : ByStart(cur, v, st) \in Charges
    BY <1>1, <2>1, <2>2 DEF ByStart, Outcome, Charges, Amounts
  <2>4. \A v \in Amounts, st \in Starts : \A resets : ByResets(cur, v, st, resets) \in Charges
    BY <1>1, <2>1, <2>2 DEF ByResets, Outcome, Charges, Amounts
  <2> QED
    BY <1>1, <1>3, <2>3, <2>4 DEF Reading
<1> QED
  BY <1>2, <1>3

Rounds == [pc : {"idle", "basis", "settle"}, now : Times, answer : Answers, basis : Bases]

LEMMA OutcomesType ==
  ASSUME NEW i \in Portals, portal[i] \in Rounds, NEW s \in Series
  PROVE  /\ portal[i].answer[s] = None => Outcomes(i)[s] = None
         /\ portal[i].answer[s] # None => Outcomes(i)[s] \in Charges /\ Outcomes(i)[s] # None
<1> DEFINE a == portal[i].answer[s]
           b == portal[i].basis
           since == IF b.mark = None THEN portal[i].now ELSE b.mark.through
<1>1. a \in Reports \cup {None} /\ b.cursor[s] \in Rows \cup {None}
  BY DEF Rounds, Answers, Bases
<1>2. Outcomes(i)[s] = IF a = None THEN None
                       ELSE IF NeedsSeeding(b) THEN Outcome(0, a.value, StartOf(a))
                       ELSE Reading(b.cursor[s], a, since, InGrace(b, portal[i].now))
  BY DEF Outcomes
<1>3. ASSUME a # None PROVE Outcome(0, a.value, StartOf(a)) \in Charges
  BY <1>1, <1>3, BillingAssumption DEF Outcome, Charges, Reports, StartOf, Starts, Epochs, Amounts
<1>4. ASSUME a # None
      PROVE  Reading(b.cursor[s], a, since, InGrace(b, portal[i].now)) \in Charges
  <2> HIDE DEF a, b, since
  <2> QED
    BY <1>1, <1>4, ReadingType
<1> QED
  BY <1>2, <1>3, <1>4, NoneAssumption

LEMMA BasisType ==
  ASSUME mark \in Marks \cup {None}, cursor \in [Series -> Cursors \cup {None}]
  PROVE  Basis \in Bases /\ NoBasis \in Bases
<1>1. \A s \in Series : cursor[s] # None =>
        [value |-> cursor[s].value, started |-> cursor[s].started] \in Rows
  BY DEF Cursors, Rows
<1>2. [s \in Series |-> IF cursor[s] = None THEN None
                        ELSE [value |-> cursor[s].value, started |-> cursor[s].started]]
        \in [Series -> Rows \cup {None}]
  BY <1>1
<1> QED
  BY <1>2 DEF Basis, NoBasis, Bases

-----------------------------------------------------------------------------
(* Types, and that what is known has happened. *)

Known == TypeOK /\ \A s \in Series : Counters(s)

LEMMA KnownInit == Init => Known
<1> USE BillingAssumption, NoneAssumption
<1> SUFFICES ASSUME Init PROVE Known
  OBVIOUS
<1>1. PICK v \in [Series -> IF Legacy THEN Amounts ELSE {0}] :
        /\ gw = [s \in Series |-> [epoch |-> 1, value |-> v[s], state |-> "runs"]]
        /\ spent = [s \in Series |-> [e \in Epochs |-> IF e = 1 THEN v[s] ELSE 0]]
        /\ charged = spent
  BY DEF Init
<1>2. \A s \in Series : v[s] \in Amounts
  BY DEF Amounts
<1>3. 1 \in Epochs /\ 1 \in Times /\ 0 \in Amounts /\ Amounts \subseteq Nat
  BY DEF Epochs, Times, Amounts
<1>4. Idle \in Rounds /\ \A s \in Series : Idle.answer[s] = None
  <2>1. NoBasis \in Bases
    BY DEF NoBasis, Bases
  <2> QED
    BY <1>3, <2>1 DEF Idle, Rounds, Answers
<1>5. TypeOK
  <2>1. gw \in [Series -> [epoch : Epochs, value : Amounts, state : {"runs", "gone"}]]
    BY <1>1, <1>2, <1>3
  <2>2. spent \in [Series -> [Epochs -> Amounts]] /\ charged \in [Series -> [Epochs -> Nat]]
    BY <1>1, <1>2, <1>3
  <2>3. prom \in [Proms -> [Series -> Samples]]
    BY <1>3 DEF Init, Samples
  <2>4. mark \in Marks \cup {None}
    BY <1>3 DEF Init, Marks
  <2>5. portal \in [Portals -> Rounds]
    BY <1>4 DEF Init
  <2> QED
    BY <1>3, <2>1, <2>2, <2>3, <2>4, <2>5 DEF TypeOK, Init, Rounds
<1>6. ASSUME NEW s \in Series PROVE Counters(s)
  <2>1. gw[s].epoch = 1 /\ gw[s].value = v[s] /\ \A e \in Epochs : e > 1 => spent[s][e] = 0
    BY <1>1 DEF Epochs
  <2>2. spent[s][1] = v[s]
    BY <1>1, <1>3
  <2>3. \A p \in Proms : prom[p][s].epoch = 0 /\ prom[p][s].at = 0 /\ prom[p][s].up = 0
    BY DEF Init
  <2>4. \A i \in Portals : portal[i].answer[s] = None
    BY <1>4 DEF Init
  <2> QED
    BY <2>1, <2>2, <2>3, <2>4 DEF Counters, Init
<1> QED
  BY <1>5, <1>6 DEF Known

\* Arithmetic the steps need.
LEMMA Figures ==
  ASSUME TypeOK
  PROVE  /\ clock \in Nat /\ clock \in Times /\ clock \in 0..MaxTime
         /\ \A s \in Series : /\ gw[s].epoch \in Epochs /\ gw[s].epoch \in Nat
                               /\ gw[s].value \in Amounts /\ gw[s].value \in Nat
                               /\ gw[s].epoch \in 0..MaxEpoch
         /\ \A s \in Series, e \in Epochs : spent[s][e] \in Nat /\ charged[s][e] \in Nat
         /\ \A p \in Proms, s \in Series :
              /\ prom[p][s] \in Samples /\ prom[p][s].epoch \in Nat /\ prom[p][s].at \in Nat
              /\ prom[p][s].value \in Nat /\ prom[p][s].epoch \in 0..MaxEpoch
<1> USE BillingAssumption
<1>1. \A p \in Proms, s \in Series : prom[p][s] \in Samples
  BY DEF TypeOK
<1> QED
  BY <1>1 DEF TypeOK, Times, Epochs, Amounts, Samples

\* A step in which only answers may change, and tell what is known.
LEMMA CountersKept ==
  ASSUME NEW s \in Series, Counters(s), UNCHANGED <<gw, spent, prom>>,
         clock \in Nat, clock' \in Nat, clock <= clock',
         \A p \in Proms : prom[p][s].at \in Nat,
         \A i \in Portals :
           \/ portal'[i].answer[s] \in {None, portal[i].answer[s]}
           \/ /\ portal'[i].answer[s].epoch <= gw[s].epoch
              /\ portal'[i].answer[s].value <= spent[s][portal'[i].answer[s].epoch]
  PROVE  Counters(s)'
BY DEF Counters

LEMMA SpendKnown ==
  ASSUME Known, NEW s \in Series, Spend(s)
  PROVE  Known'
<1> USE BillingAssumption
<1> DEFINE e == gw[s].epoch
<1>1. TypeOK /\ Counters(s) /\ UNCHANGED <<clock, prom, mark, cursor, portal, charged>>
  BY DEF Known, Spend
<1>2. e \in Epochs /\ gw[s].value \in Nat /\ gw[s].value < MaxSpend /\ spent[s][e] = gw[s].value
  BY <1>1, Figures DEF Counters, Spend
<1>3. gw' = [gw EXCEPT ![s] = [gw[s] EXCEPT !.value = gw[s].value + 1]]
  BY DEF Spend
<1>4. spent' = [spent EXCEPT ![s] = [spent[s] EXCEPT ![e] = spent[s][e] + 1]]
  BY DEF Spend
<1>5. gw[s].value + 1 \in Amounts
  BY <1>2 DEF Amounts
<1>6. gw' \in [Series -> [epoch : Epochs, value : Amounts, state : {"runs", "gone"}]]
  <2>1. [gw[s] EXCEPT !.value = gw[s].value + 1]
          \in [epoch : Epochs, value : Amounts, state : {"runs", "gone"}]
    BY <1>1, <1>5 DEF TypeOK
  <2> QED
    BY <1>1, <1>3, <2>1 DEF TypeOK
<1>7. spent' \in [Series -> [Epochs -> Amounts]]
  BY <1>1, <1>2, <1>4, <1>5 DEF TypeOK
<1>8. TypeOK'
  BY <1>1, <1>6, <1>7 DEF TypeOK
<1>9. ASSUME NEW q \in Series PROVE Counters(q)'
  <2>1. /\ gw'[q].epoch = gw[q].epoch
        /\ gw'[q].value = IF q = s THEN gw[s].value + 1 ELSE gw[q].value
    BY <1>1, <1>3 DEF TypeOK
  <2>2. \A f \in Epochs : spent'[q][f] = IF q = s /\ f = e THEN spent[s][e] + 1 ELSE spent[q][f]
    BY <1>1, <1>2, <1>4 DEF TypeOK
  <2>3. Counters(q) /\ gw[q].epoch \in Epochs
    BY <1>1, Figures DEF Known
  <2>4. \A f \in Epochs : spent'[q][f] \in Nat /\ spent[q][f] \in Nat /\ spent[q][f] <= spent'[q][f]
    BY <1>1, <1>2, <2>2, Figures
  <2>5. \A p \in Proms : /\ prom[p][q].value \in Nat
                         /\ prom[p][q].epoch >= 1 => prom[p][q].epoch \in Epochs
    BY <1>1, Figures DEF Epochs
  <2>6. \A i \in Portals : portal[i].answer[q] # None =>
          portal[i].answer[q].value \in Nat /\ portal[i].answer[q].epoch \in Epochs
    BY <1>1 DEF TypeOK, Answers, Reports, Amounts
  <2>7. gw'[q].value = spent'[q][gw'[q].epoch] /\ \A f \in Epochs : f > gw'[q].epoch => spent'[q][f] = 0
    <3>1. gw[q].value = spent[q][gw[q].epoch] /\ \A f \in Epochs : f > gw[q].epoch => spent[q][f] = 0
      BY <2>3 DEF Counters
    <3>2. \A f \in Epochs : f > e => f # e
      BY <1>2 DEF Epochs
    <3> QED
      BY <1>2, <2>1, <2>2, <2>3, <3>1, <3>2
  <2> QED
    BY <1>1, <2>1, <2>3, <2>4, <2>5, <2>6, <2>7 DEF Counters
<1> QED
  BY <1>8, <1>9 DEF Known

LEMMA ExitStartKnown ==
  ASSUME Known, NEW s \in Series, Exit(s) \/ Start(s)
  PROVE  Known'
<1> USE BillingAssumption
<1>1. TypeOK /\ UNCHANGED <<clock, spent, prom, mark, cursor, portal, charged>>
  BY DEF Known, Exit, Start
<1>2. \/ gw' = [gw EXCEPT ![s] = [gw[s] EXCEPT !.state = "gone"]]
      \/ /\ gw' = [gw EXCEPT ![s] = [epoch |-> gw[s].epoch + 1, value |-> 0, state |-> "runs"]]
         /\ gw[s].epoch + 1 \in Epochs
  BY <1>1, Figures DEF Exit, Start, Epochs
<1>3. gw' \in [Series -> [epoch : Epochs, value : Amounts, state : {"runs", "gone"}]]
  <2>1. 0 \in Amounts
    BY DEF Amounts
  <2>2. gw \in [Series -> [epoch : Epochs, value : Amounts, state : {"runs", "gone"}]]
    BY <1>1 DEF TypeOK
  <2>3. [gw[s] EXCEPT !.state = "gone"] \in
          [epoch : Epochs, value : Amounts, state : {"runs", "gone"}]
    BY <2>2
  <2> QED
    BY <1>2, <2>1, <2>2, <2>3
<1>4. TypeOK'
  BY <1>1, <1>3 DEF TypeOK
<1>5. ASSUME NEW q \in Series PROVE Counters(q)'
  <2>0. gw \in [Series -> [epoch : Epochs, value : Amounts, state : {"runs", "gone"}]]
    BY <1>1 DEF TypeOK
  <2>1. \/ gw'[q].epoch = gw[q].epoch /\ gw'[q].value = gw[q].value
        \/ /\ gw'[q].epoch = gw[q].epoch + 1 /\ gw'[q].value = 0
           /\ gw[q].epoch + 1 \in Epochs
    BY <1>2, <2>0
  <2>2. Counters(q) /\ gw[q].epoch \in Nat
    BY <1>1, Figures DEF Known
  <2>3. \A p \in Proms : prom[p][q].epoch \in Nat
    BY <1>1, Figures
  <2>4. \A i \in Portals : portal[i].answer[q] # None => portal[i].answer[q].epoch \in Nat
    BY <1>1 DEF TypeOK, Answers, Reports, Epochs
  <2>5. \A e \in Epochs : e \in Nat
    BY DEF Epochs
  <2> QED
    BY <1>1, <2>1, <2>2, <2>3, <2>4, <2>5 DEF Counters
<1> QED
  BY <1>4, <1>5 DEF Known

LEMMA ScrapeKnown ==
  ASSUME Known, NEW p \in Proms, NEW s \in Series, Scrape(p, s)
  PROVE  Known'
<1> USE BillingAssumption
<1> DEFINE old == prom[p][s]
           new == IF Runs(s)
                    THEN [epoch |-> gw[s].epoch, value |-> gw[s].value, at |-> clock, up |-> 1,
                          reset |-> IF gw[s].value < old.value THEN clock ELSE old.reset]
                    ELSE [old EXCEPT !.up = 0]
<1>1. TypeOK /\ UNCHANGED <<clock, gw, spent, mark, cursor, portal, charged>>
  BY DEF Known, Scrape
<1>2. prom' = [prom EXCEPT ![p] = [prom[p] EXCEPT ![s] = new]]
  BY DEF Scrape
<1>3. new \in Samples
  BY <1>1, Figures DEF Samples
<1>4. /\ Runs(s) => new.epoch = gw[s].epoch /\ new.value = gw[s].value /\ new.at = clock
      /\ ~Runs(s) => /\ new.epoch = old.epoch /\ new.value = old.value /\ new.at = old.at
                     /\ new.up = 0
  BY <1>1, Figures DEF Samples
<1> HIDE DEF new
<1>5. prom' \in [Proms -> [Series -> Samples]]
  BY <1>1, <1>2, <1>3 DEF TypeOK
<1>6. TypeOK'
  BY <1>1, <1>5 DEF TypeOK
<1>7. \A r \in Proms, q \in Series : prom'[r][q] = IF r = p /\ q = s THEN new ELSE prom[r][q]
  BY <1>1, <1>2 DEF TypeOK
<1>8. ASSUME NEW q \in Series PROVE Counters(q)'
  <2>1. Counters(q) /\ gw[q].epoch \in Epochs /\ gw[q].epoch \in Nat /\ gw[q].epoch >= 1
    BY <1>1, Figures DEF Known, Epochs
  <2>2. clock \in Nat /\ gw[q].value \in Nat
    BY <1>1, Figures
  <2>3. ASSUME NEW r \in Proms
        PROVE  /\ prom'[r][q].epoch <= gw[q].epoch /\ prom'[r][q].at <= clock
               /\ prom'[r][q].up = 1 => prom'[r][q].epoch >= 1
               /\ prom'[r][q].epoch >= 1 => prom'[r][q].value <= spent[q][prom'[r][q].epoch]
    <3>1. CASE r = p /\ q = s /\ Runs(s)
      BY <1>4, <1>7, <2>1, <2>2, <3>1 DEF Counters
    <3>2. CASE r = p /\ q = s /\ ~Runs(s)
      BY <1>4, <1>7, <2>1, <3>2 DEF Counters
    <3>3. CASE ~(r = p /\ q = s)
      BY <1>7, <2>1, <3>3 DEF Counters
    <3> QED
      BY <3>1, <3>2, <3>3
  <2> QED
    BY <1>1, <2>1, <2>3 DEF Counters
<1> QED
  BY <1>6, <1>8 DEF Known

\* A step of a portal: its round is replaced by one that knows no more.
LEMMA RoundKnown ==
  ASSUME Known, NEW i \in Portals, NEW r \in Rounds, portal' = [portal EXCEPT ![i] = r],
         UNCHANGED <<clock, gw, spent, prom>>,
         mark' \in Marks \cup {None}, cursor' \in [Series -> Cursors \cup {None}],
         charged' \in [Series -> [Epochs -> Nat]],
         \A s \in Series :
           \/ r.answer[s] \in {None, portal[i].answer[s]}
           \/ r.answer[s].epoch <= gw[s].epoch /\ r.answer[s].value <= spent[s][r.answer[s].epoch]
  PROVE  Known'
<1>1. TypeOK /\ portal \in [Portals -> Rounds]
  BY DEF Known, TypeOK, Rounds
<1>2. portal' \in [Portals -> Rounds]
  BY <1>1
<1>3. TypeOK'
  BY <1>1, <1>2 DEF TypeOK, Rounds
<1>4. \A s \in Series : Counters(s)'
  <2> SUFFICES ASSUME NEW s \in Series PROVE Counters(s)'
    OBVIOUS
  <2>1. \A j \in Portals : portal'[j] = IF j = i THEN r ELSE portal[j]
    BY <1>1
  <2>2. /\ Counters(s) /\ clock \in Nat /\ clock' = clock
        /\ \A p \in Proms : prom[p][s].at \in Nat
    BY <1>1, Figures DEF Known
  <2>3. \A j \in Portals :
          \/ portal'[j].answer[s] \in {None, portal[j].answer[s]}
          \/ /\ portal'[j].answer[s].epoch <= gw[s].epoch
             /\ portal'[j].answer[s].value <= spent[s][portal'[j].answer[s].epoch]
    BY <2>1
  <2> QED
    BY <2>2, <2>3, CountersKept
<1> QED
  BY <1>3, <1>4 DEF Known

LEMMA IdleType == Idle \in Rounds /\ \A s \in Series : Idle.answer[s] = None
<1>1. NoBasis \in Bases
  BY DEF NoBasis, Bases
<1>2. 1 \in Times
  BY BillingAssumption DEF Times
<1> QED
  BY <1>1, <1>2 DEF Idle, Rounds, Answers

LEMMA BeginTickKnown ==
  ASSUME Known, NEW i \in Portals, BeginTick(i)
  PROVE  Known'
<1> USE BillingAssumption
<1>1. TypeOK /\ UNCHANGED <<clock, gw, spent, prom, mark, cursor, charged>>
  BY DEF Known, BeginTick
<1>2. PICK p \in Proms :
        portal' = [portal EXCEPT ![i] =
          [Idle EXCEPT !.pc = "basis", !.now = clock,
                       !.answer = [s \in Series |->
                          IF Visible(p, s) THEN Reported(prom[p][s]) ELSE None]]]
  BY Zenon DEF BeginTick
<1> DEFINE ans == [s \in Series |-> IF Visible(p, s) THEN Reported(prom[p][s]) ELSE None]
           r == [Idle EXCEPT !.pc = "basis", !.now = clock, !.answer = ans]
<1>3. ASSUME NEW s \in Series, Visible(p, s)
      PROVE  /\ Reported(prom[p][s]) \in Reports
             /\ Reported(prom[p][s]).epoch <= gw[s].epoch
             /\ Reported(prom[p][s]).value <= spent[s][Reported(prom[p][s]).epoch]
  <2>1. Counters(s) /\ prom[p][s] \in Samples /\ prom[p][s].up = 1
    BY <1>1, <1>3, Figures DEF Known, Visible
  <2>2. prom[p][s].epoch \in Epochs
    BY <2>1 DEF Counters, Samples, Epochs
  <2> QED
    BY <2>1, <2>2 DEF Counters, Samples, Reported, Reports, Epochs
<1>4. ans \in Answers
  BY <1>3 DEF Answers
<1> HIDE DEF ans
<1>5. r \in Rounds /\ r.answer = ans
  BY <1>1, <1>4, IdleType, Figures DEF Rounds
<1>6. \A s \in Series :
        \/ ans[s] = None
        \/ ans[s].epoch <= gw[s].epoch /\ ans[s].value <= spent[s][ans[s].epoch]
  BY <1>3 DEF ans
<1>7. portal' = [portal EXCEPT ![i] = r]
  BY <1>2 DEF ans
<1> HIDE DEF r
<1> QED
  BY <1>1, <1>5, <1>6, <1>7, RoundKnown DEF TypeOK

LEMMA ReadBasisKnown ==
  ASSUME Known, NEW i \in Portals, ReadBasis(i)
  PROVE  Known'
<1>1. TypeOK /\ UNCHANGED <<clock, gw, spent, prom, mark, cursor, charged>>
  BY DEF Known, ReadBasis
<1>2. portal \in [Portals -> Rounds] /\ portal[i] \in Rounds /\ Basis \in Bases
  BY <1>1, BasisType DEF TypeOK, Rounds
<1> DEFINE r == [[portal[i] EXCEPT !.pc = "settle"] EXCEPT !.basis = Basis]
<1>3. portal' = [portal EXCEPT ![i] = r]
  BY <1>2 DEF ReadBasis
<1>4. r \in Rounds /\ r.answer = portal[i].answer
  BY <1>2 DEF Rounds
<1> HIDE DEF r
<1> QED
  BY <1>1, <1>3, <1>4, RoundKnown DEF TypeOK

LEMMA EndRoundKnown ==
  ASSUME Known, NEW i \in Portals, GiveUp(i) \/ SkipIdle(i) \/ YieldRound(i)
  PROVE  Known'
<1>1. /\ TypeOK /\ UNCHANGED <<clock, gw, spent, prom, mark, cursor, charged>>
      /\ portal' = [portal EXCEPT ![i] = Idle]
  BY DEF Known, GiveUp, SkipIdle, YieldRound
<1>2. \A s \in Series : Idle.answer[s] \in {None, portal[i].answer[s]}
  BY IdleType
<1>3. /\ mark' \in Marks \cup {None} /\ cursor' \in [Series -> Cursors \cup {None}]
      /\ charged' \in [Series -> [Epochs -> Nat]]
  BY <1>1 DEF TypeOK
<1> QED
  BY <1>1, <1>2, <1>3, IdleType, RoundKnown

\* The cursors a transaction leaves, and what it debits.
LEMMA SettleKnown ==
  ASSUME Known, NEW i \in Portals, Settle(i)
  PROVE  Known'
<1> USE BillingAssumption, NoneAssumption
<1> DEFINE out == Outcomes(i)
           a == portal[i].answer
           now == portal[i].now
<1>1. TypeOK /\ UNCHANGED <<clock, gw, spent, prom>> /\ portal' = [portal EXCEPT ![i] = Idle]
  BY DEF Known, Settle
<1>2. portal[i] \in Rounds /\ a \in Answers /\ now \in Times /\ clock \in Times
  BY <1>1 DEF TypeOK, Rounds
<1>3. \A s \in Series : out[s] # None => /\ out[s] \in Charges /\ a[s] # None
                                          /\ a[s].epoch \in Epochs
  <2>1. \A s \in Series : out[s] # None => out[s] \in Charges /\ a[s] # None
    BY <1>2, OutcomesType
  <2> QED
    BY <1>2, <2>1 DEF Answers, Reports
<1>4. mark' \in Marks \cup {None}
  <2>1. mark' = [through |-> now, seeded |-> 1,
                 seededAt |-> IF mark = None THEN None
                              ELSE IF mark.seeded = 0 THEN now ELSE mark.seededAt]
    BY DEF Settle
  <2>2. mark # None => mark.seededAt \in Times \cup {None}
    BY <1>1 DEF TypeOK, Marks
  <2> QED
    BY <1>2, <2>1, <2>2 DEF Marks
<1>5. cursor' \in [Series -> Cursors \cup {None}]
  <2> SUFFICES ASSUME NEW s \in Series PROVE NewCursors(i)[s] \in Cursors \cup {None}
    BY DEF Settle, NewCursors
  <2>1. cursor[s] \in Cursors \cup {None}
    BY <1>1 DEF TypeOK
  <2>2. CASE out[s] # None
    <3>1. \E e \in Epochs :
            NewCursors(i)[s] = [value |-> out[s].value, started |-> out[s].started,
                                updated |-> clock, epoch |-> e]
      <4>1. cursor[s] # None => cursor[s].epoch \in Epochs
        BY <2>1 DEF Cursors
      <4> QED
        BY <1>3, <2>2, <4>1 DEF NewCursors
    <3> QED
      BY <1>2, <1>3, <2>2, <3>1 DEF Charges, Cursors
  <2>3. CASE out[s] = None
    BY <2>1, <2>3 DEF NewCursors
  <2> QED
    BY <2>2, <2>3
<1>6. charged' \in [Series -> [Epochs -> Nat]]
  <2>1. charged' = [s \in Series |->
          IF out[s] = None THEN charged[s]
          ELSE [charged[s] EXCEPT ![a[s].epoch] = charged[s][a[s].epoch] + out[s].charge]]
    BY DEF Settle
  <2>2. ASSUME NEW s \in Series, out[s] # None
        PROVE  [charged[s] EXCEPT ![a[s].epoch] = charged[s][a[s].epoch] + out[s].charge]
                 \in [Epochs -> Nat]
    <3>1. out[s].charge \in Nat /\ a[s].epoch \in Epochs
      BY <1>3, <2>2 DEF Charges, Amounts
    <3>2. charged[s] \in [Epochs -> Nat]
      BY <1>1 DEF TypeOK
    <3> QED
      BY <3>1, <3>2
  <2> HIDE DEF out
  <2> QED
    BY <1>1, <2>1, <2>2 DEF TypeOK
<1>7. \A s \in Series : Idle.answer[s] \in {None, portal[i].answer[s]}
  BY IdleType
<1> QED
  BY <1>1, <1>4, <1>5, <1>6, <1>7, IdleType, RoundKnown

LEMMA TickKnown ==
  ASSUME Known, Tick
  PROVE  Known'
<1> USE BillingAssumption
<1>1. TypeOK /\ UNCHANGED <<gw, spent, prom, mark, cursor, portal, charged>>
  BY DEF Known, Tick
<1>2. clock' \in Times /\ clock \in Nat /\ clock' \in Nat /\ clock <= clock'
  BY <1>1 DEF TypeOK, Tick, Running, Times
<1>3. TypeOK'
  BY <1>1, <1>2 DEF TypeOK
<1>4. ASSUME NEW s \in Series PROVE Counters(s)'
  BY <1>1, <1>2, Figures, CountersKept DEF Known
<1> QED
  BY <1>3, <1>4 DEF Known

LEMMA AlwaysKnown == Spec => []Known
<1>1. Known /\ [Next]_vars => Known'
  <2> SUFFICES ASSUME Known, [Next]_vars PROVE Known'
    OBVIOUS
  <2>1. CASE UNCHANGED vars
    BY <2>1 DEF vars, Known, TypeOK, Counters
  <2> QED
    BY <2>1, SpendKnown, ExitStartKnown, ScrapeKnown, TickKnown, BeginTickKnown, ReadBasisKnown,
       EndRoundKnown, SettleKnown DEF Next, World, Sweep
<1> QED
  BY <1>1, KnownInit, PTL DEF Spec

(* Every variable of the billing keeps its type: a counter, a cursor and a *)
(* reading stay within what the processes spent, a debit is never negative *)
(* and a reading names a process that exposed it; for any series, portals, *)
(* replicas and times, upgraded tenants and silent processes included.     *)
THEOREM TypeCorrect == Spec => []TypeOK
BY AlwaysKnown, PTL DEF Known

-----------------------------------------------------------------------------
(* One transaction, seen from a series.  Every process exposes its start,  *)
(* so a reading is compared by process.                                    *)

\* Before the cursors are seeded there are none, and each names a process.
Seeds ==
  /\ mark # None /\ mark.seeded = 0 => \A s \in Series : cursor[s] = None
  /\ \A s \in Series : cursor[s] # None => cursor[s].started >= 1

\* The row of a cursor, with its history, after a reading.
Row(v, st, e) == [value |-> v, started |-> st, updated |-> clock, epoch |-> e]

\* What a reading of the process e, with the counter at v, does to the series.
TakesNew(s, v, e) ==
  cursor'[s] = Row(v, e, e) /\ charged'[s] = [charged[s] EXCEPT ![e] = charged[s][e] + v]

KeepsCursor(s) ==
  cursor'[s] = Row(cursor[s].value, cursor[s].started, cursor[s].epoch) /\ charged'[s] = charged[s]

MovesOn(s, v, e) ==
  /\ cursor'[s] = Row(v, e, IF v = cursor[s].value THEN cursor[s].epoch ELSE e)
  /\ charged'[s] = [charged[s] EXCEPT ![e] = charged[s][e] + (v - cursor[s].value)]

\* The transaction for one series, in terms of its outcome.
LEMMA SettleRow ==
  ASSUME Known, NEW i \in Portals, Settle(i), NEW s \in Series
  PROVE  LET a == portal[i].answer[s]
             out == Outcomes(i)[s]
         IN  /\ a = None =>
                  /\ charged'[s] = charged[s]
                  /\ \/ cursor'[s] = cursor[s]
                     \/ cursor'[s] = None /\ cursor[s] # None /\ Expired(s)
             /\ a # None =>
                  /\ out \in Charges /\ out # None /\ a \in Reports
                  /\ cursor'[s] = Row(out.value, out.started,
                                      IF /\ cursor[s] # None /\ cursor[s].value = out.value
                                         /\ out.charge = 0 /\ cursor[s].started = out.started
                                        THEN cursor[s].epoch ELSE a.epoch)
                  /\ charged'[s] = [charged[s] EXCEPT ![a.epoch] = charged[s][a.epoch] + out.charge]
<1> DEFINE a == portal[i].answer[s]
           out == Outcomes(i)[s]
<1>1. portal[i] \in Rounds
  BY DEF Known, TypeOK, Rounds
<1>2. /\ a = None => out = None
      /\ a # None => out \in Charges /\ out # None /\ a \in Reports
  <2>1. a \in Reports \cup {None}
    BY <1>1 DEF Rounds, Answers
  <2> QED
    BY <1>1, <2>1, OutcomesType
<1>3. cursor'[s] = IF out # None
                   THEN Row(out.value, out.started,
                            IF /\ cursor[s] # None /\ cursor[s].value = out.value
                               /\ out.charge = 0 /\ cursor[s].started = out.started
                              THEN cursor[s].epoch ELSE a.epoch)
                   ELSE IF /\ cursor[s] # None /\ MayPrune({q \in Series : Outcomes(i)[q] # None})
                           /\ Expired(s)
                          THEN None ELSE cursor[s]
  BY DEF Settle, NewCursors, Row
<1>4. charged'[s] = IF out = None THEN charged[s]
                    ELSE [charged[s] EXCEPT ![a.epoch] = charged[s][a.epoch] + out.charge]
  BY DEF Settle
<1> QED
  BY <1>2, <1>3, <1>4

\* The basis a round settles on is the one in the tables.
LEMMA OutcomeOnBasis ==
  ASSUME Known, Seeds, Exposing = Epochs, NEW i \in Portals, Settle(i), NEW s \in Series,
         portal[i].answer[s] # None
  PROVE  LET a == portal[i].answer[s]
             out == Outcomes(i)[s]
         IN  /\ cursor[s] # None =>
                  LET st == cursor[s].started
                  IN  out = IF a.epoch > st THEN Outcome(a.value, a.value, a.epoch)
                            ELSE IF a.epoch < st \/ a.value < cursor[s].value
                              THEN Outcome(0, cursor[s].value, st)
                            ELSE Outcome(a.value - cursor[s].value, a.value, st)
             /\ cursor[s] = None =>
                  /\ out.value = a.value /\ out.started = a.epoch
                  /\ mark = None \/ (mark.seeded = 1 /\ mark.seededAt = None) => out.charge = a.value
<1> USE BillingAssumption, NoneAssumption
<1> DEFINE a == portal[i].answer[s]
           b == portal[i].basis
           since == IF b.mark = None THEN portal[i].now ELSE b.mark.through
           out == Outcomes(i)[s]
<1>1. a \in Reports /\ StartOf(a) = a.epoch /\ a.epoch # 0
  <2>1. a \in Reports
    BY DEF Known, TypeOK, Answers
  <2> QED
    BY <2>1 DEF Reports, StartOf, Epochs
<1>2. /\ b.mark = mark
      /\ b.cursor[s] = IF cursor[s] = None THEN None
                       ELSE [value |-> cursor[s].value, started |-> cursor[s].started]
  BY DEF Settle, BasisHolds, Basis
<1>3. out = IF NeedsSeeding(b) THEN Outcome(0, a.value, StartOf(a))
            ELSE Reading(b.cursor[s], a, since, InGrace(b, portal[i].now))
  BY DEF Outcomes
<1>4. CASE cursor[s] # None
  <2>1. cursor[s].started >= 1 /\ cursor[s] \in Cursors
    BY <1>4 DEF Known, TypeOK, Seeds
  <2>2. /\ b.cursor[s] \in Rows /\ b.cursor[s] # None
        /\ b.cursor[s].value = cursor[s].value /\ b.cursor[s].started = cursor[s].started
        /\ b.cursor[s].started # 0
    BY <1>2, <1>4, <2>1 DEF Cursors, Rows
  <2>3. ~NeedsSeeding(b)
    BY <1>2, <1>4 DEF NeedsSeeding, Seeds
  <2>4. out = ByStart(b.cursor[s], a.value, a.epoch)
    BY <1>1, <1>3, <2>2, <2>3 DEF Reading
  <2> QED
    BY <1>4, <2>2, <2>4 DEF ByStart
<1>5. CASE cursor[s] = None
  <2>1. b.cursor[s] = None
    BY <1>2, <1>5
  <2>2. /\ NeedsSeeding(b) => out = Outcome(0, a.value, a.epoch)
        /\ ~NeedsSeeding(b) =>
             out = Outcome(IF InGrace(b, portal[i].now) THEN 0 ELSE a.value, a.value, a.epoch)
    BY <1>1, <1>3, <2>1 DEF Reading
  <2>3. ASSUME mark = None \/ (mark.seeded = 1 /\ mark.seededAt = None)
        PROVE  ~NeedsSeeding(b) /\ ~InGrace(b, portal[i].now)
    BY <1>2, <2>3 DEF NeedsSeeding, InGrace
  <2> QED
    BY <1>5, <2>2, <2>3 DEF Outcome
<1> QED
  BY <1>4, <1>5

\* What a transaction does to a series whose cursor is there.
LEMMA SettleMoves ==
  ASSUME Known, Seeds, Exposing = Epochs, NEW i \in Portals, Settle(i), NEW s \in Series,
         portal[i].answer[s] # None, cursor[s] # None
  PROVE  LET v == portal[i].answer[s].value
             e == portal[i].answer[s].epoch
         IN  \/ e > cursor[s].started /\ TakesNew(s, v, e)
             \/ KeepsCursor(s)
             \/ e = cursor[s].started /\ v >= cursor[s].value /\ MovesOn(s, v, e)
<1> USE BillingAssumption, NoneAssumption
<1> DEFINE a == portal[i].answer[s]
           st == cursor[s].started
           out == Outcomes(i)[s]
           ep == IF /\ cursor[s] # None /\ cursor[s].value = out.value
                    /\ out.charge = 0 /\ cursor[s].started = out.started
                   THEN cursor[s].epoch ELSE a.epoch
<1>1. /\ a \in Reports /\ cursor'[s] = Row(out.value, out.started, ep)
      /\ charged'[s] = [charged[s] EXCEPT ![a.epoch] = charged[s][a.epoch] + out.charge]
  BY SettleRow
<1>2. out = IF a.epoch > st THEN Outcome(a.value, a.value, a.epoch)
            ELSE IF a.epoch < st \/ a.value < cursor[s].value
              THEN Outcome(0, cursor[s].value, st)
            ELSE Outcome(a.value - cursor[s].value, a.value, st)
  BY OutcomeOnBasis
<1>3. /\ a.value \in Nat /\ a.epoch \in Epochs /\ a.epoch \in Nat
      /\ st \in Nat /\ cursor[s].value \in Nat /\ charged[s] \in [Epochs -> Nat]
  <2>1. cursor[s] \in Cursors /\ charged[s] \in [Epochs -> Nat]
    BY DEF Known, TypeOK
  <2>2. st \in Starts /\ cursor[s].value \in Amounts
    BY <2>1 DEF Cursors
  <2>3. a.value \in Amounts /\ a.epoch \in Epochs
    BY <1>1 DEF Reports
  <2> QED
    BY <2>1, <2>2, <2>3 DEF Amounts, Starts, Epochs
<1> HIDE DEF a, st, out
<1>4. CASE a.epoch > st
  <2>1. out.charge = a.value /\ out.value = a.value /\ out.started = a.epoch /\ a.epoch # st
    BY <1>2, <1>3, <1>4 DEF Outcome
  <2>2. ep = a.epoch
    BY <2>1 DEF st
  <2> QED
    BY <1>1, <1>4, <2>1, <2>2 DEF TakesNew, a, st
<1>5. CASE ~(a.epoch > st) /\ (a.epoch < st \/ a.value < cursor[s].value)
  <2>1. out.charge = 0 /\ out.value = cursor[s].value /\ out.started = st
    BY <1>2, <1>5 DEF Outcome
  <2>2. ep = cursor[s].epoch
    BY <2>1 DEF st
  <2>3. charged'[s] = charged[s]
    BY <1>1, <1>3, <2>1
  <2> QED
    BY <1>1, <2>1, <2>2, <2>3 DEF KeepsCursor, st
<1>6. CASE a.epoch = st /\ a.value >= cursor[s].value
  <2>1. /\ out.charge = a.value - cursor[s].value /\ out.value = a.value /\ out.started = st
        /\ out.charge = 0 <=> a.value = cursor[s].value
    BY <1>2, <1>3, <1>6 DEF Outcome
  <2>2. ep = IF a.value = cursor[s].value THEN cursor[s].epoch ELSE a.epoch
    BY <2>1 DEF st
  <2> QED
    BY <1>1, <1>6, <2>1, <2>2 DEF MovesOn, a, st
<1>7. \/ a.epoch > st
      \/ ~(a.epoch > st) /\ (a.epoch < st \/ a.value < cursor[s].value)
      \/ a.epoch = st /\ a.value >= cursor[s].value
  BY <1>3
<1> QED
  BY <1>4, <1>5, <1>6, <1>7, Zenon

\* The first cursor of a series is the reading.
LEMMA SettleFirst ==
  ASSUME Known, Seeds, Exposing = Epochs, NEW i \in Portals, Settle(i), NEW s \in Series,
         portal[i].answer[s] # None, cursor[s] = None
  PROVE  LET v == portal[i].answer[s].value
             e == portal[i].answer[s].epoch
         IN  /\ cursor'[s] = Row(v, e, e)
             /\ mark = None \/ (mark.seeded = 1 /\ mark.seededAt = None) => TakesNew(s, v, e)
<1> DEFINE a == portal[i].answer[s]
           out == Outcomes(i)[s]
<1>1. /\ out.value = a.value /\ out.started = a.epoch
      /\ mark = None \/ (mark.seeded = 1 /\ mark.seededAt = None) => out.charge = a.value
  BY OutcomeOnBasis
<1>2. /\ cursor'[s] = Row(out.value, out.started, a.epoch)
      /\ charged'[s] = [charged[s] EXCEPT ![a.epoch] = charged[s][a.epoch] + out.charge]
  BY SettleRow
<1> QED
  BY <1>1, <1>2 DEF TakesNew

LEMMA OnlySettle ==
  ASSUME [Next]_vars
  PROVE  UNCHANGED <<mark, cursor, charged>> \/ \E i \in Portals : Settle(i)
<1>1. CASE UNCHANGED vars
  BY <1>1 DEF vars
<1>2. ASSUME NEW s \in Series, Spend(s) \/ Exit(s) \/ Start(s) PROVE UNCHANGED <<mark, cursor, charged>>
  BY <1>2 DEF Spend, Exit, Start
<1>3. ASSUME NEW p \in Proms, NEW s \in Series, Scrape(p, s) PROVE UNCHANGED <<mark, cursor, charged>>
  BY <1>3 DEF Scrape
<1>4. CASE Tick
  BY <1>4 DEF Tick
<1>5. ASSUME NEW i \in Portals, BeginTick(i) \/ ReadBasis(i)
      PROVE  UNCHANGED <<mark, cursor, charged>>
  BY <1>5, Zenon DEF BeginTick, ReadBasis
<1>6. ASSUME NEW i \in Portals, GiveUp(i) \/ SkipIdle(i) \/ YieldRound(i)
      PROVE  UNCHANGED <<mark, cursor, charged>>
  BY <1>6 DEF GiveUp, SkipIdle, YieldRound
<1> QED
  BY <1>1, <1>2, <1>3, <1>4, <1>5, <1>6 DEF Next, World, Sweep

LEMMA SeedsKept ==
  ASSUME Exposing = Epochs, Known, Seeds, [Next]_vars
  PROVE  Seeds'
<1> USE BillingAssumption, NoneAssumption
<1>1. CASE UNCHANGED <<mark, cursor>>
  BY <1>1 DEF Seeds
<1>2. ASSUME NEW i \in Portals, Settle(i) PROVE Seeds'
  <2>1. mark'.seeded = 1
    BY <1>2 DEF Settle
  <2>2. ASSUME NEW s \in Series, cursor'[s] # None PROVE cursor'[s].started >= 1
    <3> DEFINE a == portal[i].answer[s]
    <3>1. CASE a = None
      BY <1>2, <2>2, <3>1, SettleRow DEF Seeds
    <3>2. CASE a # None
      <4>1. a \in Reports
        BY <1>2, <3>2, SettleRow
      <4>2. a.epoch >= 1
        BY <4>1 DEF Reports, Epochs
      <4>3. CASE cursor[s] = None
        <5>1. cursor'[s] = Row(a.value, a.epoch, a.epoch)
          BY <1>2, <3>2, <4>3, SettleFirst
        <5> QED
          BY <4>2, <5>1 DEF Row
      <4>4. CASE cursor[s] # None
        <5>1. TakesNew(s, a.value, a.epoch) \/ KeepsCursor(s) \/ MovesOn(s, a.value, a.epoch)
          BY <1>2, <3>2, <4>4, SettleMoves
        <5> HIDE DEF a
        <5> QED
          BY <4>2, <4>4, <5>1 DEF Row, TakesNew, KeepsCursor, MovesOn, Seeds
      <4> QED
        BY <4>3, <4>4
    <3> QED
      BY <3>1, <3>2
  <2> QED
    BY <2>1, <2>2 DEF Seeds
<1> QED
  BY <1>1, <1>2, OnlySettle

(* A cursor never goes back to an earlier process or to a smaller value of *)
(* its process, whichever replica answers and whichever round comes late,  *)
(* when every process exposes its start (the gateway of this repository    *)
(* does), for new and upgraded tenants and without a bound on any delay.   *)
THEOREM NeverRetreats ==
  ASSUME Exposing = Epochs
  PROVE  Spec => CursorNeverRetreats
<1>1. Init => Seeds
  BY DEF Init, Seeds
<1>2. Known /\ Seeds /\ [Next]_vars => Seeds'
  BY SeedsKept
<1>3. Known /\ Seeds /\ [Next]_vars =>
        [\A s \in Series : cursor[s] # None /\ cursor'[s] # None =>
           \/ cursor'[s].started > cursor[s].started
           \/ cursor'[s].started = cursor[s].started /\ cursor'[s].value >= cursor[s].value]_vars
  <2> SUFFICES ASSUME Known, Seeds, Next, NEW s \in Series, cursor[s] # None, cursor'[s] # None
               PROVE  \/ cursor'[s].started > cursor[s].started
                      \/ cursor'[s].started = cursor[s].started /\ cursor'[s].value >= cursor[s].value
    OBVIOUS
  <2>1. cursor[s].value \in Nat /\ cursor[s].started \in Nat
    <3>1. cursor[s] \in Cursors
      BY DEF Known, TypeOK
    <3> QED
      BY <3>1 DEF Cursors, Amounts, Starts
  <2>2. CASE cursor'[s] = cursor[s]
    BY <2>1, <2>2
  <2>3. ASSUME NEW i \in Portals, Settle(i), cursor'[s] # cursor[s]
        PROVE  \/ cursor'[s].started > cursor[s].started
               \/ cursor'[s].started = cursor[s].started /\ cursor'[s].value >= cursor[s].value
    <3> DEFINE a == portal[i].answer[s]
    <3>1. a # None
      BY <2>3, SettleRow
    <3>2. \/ a.epoch > cursor[s].started /\ TakesNew(s, a.value, a.epoch)
          \/ KeepsCursor(s)
          \/ /\ a.epoch = cursor[s].started /\ a.value >= cursor[s].value
             /\ MovesOn(s, a.value, a.epoch)
      BY <2>3, <3>1, SettleMoves
    <3> HIDE DEF a
    <3> QED
      BY <2>1, <3>2 DEF Row, TakesNew, KeepsCursor, MovesOn
  <2> QED
    BY <2>2, <2>3, OnlySettle
<1> QED
  BY <1>1, <1>2, <1>3, AlwaysKnown, PTL DEF Spec, CursorNeverRetreats

-----------------------------------------------------------------------------
(* The ledger.  Numbers is what the steps' arithmetic needs of the types.  *)

Numbers ==
  /\ clock \in Nat /\ (mark # None => mark.through \in Nat)
  /\ \A s \in Series :
       /\ gw[s].epoch \in Epochs /\ gw[s].epoch \in Nat
       /\ \A e \in Epochs : spent[s][e] \in Nat /\ charged[s][e] \in Nat
       /\ cursor[s] # None =>
            /\ cursor[s].value \in Nat /\ cursor[s].updated \in Nat
            /\ cursor[s].epoch \in Epochs /\ cursor[s].epoch \in Nat
  /\ \A p \in Proms, s \in Series : prom[p][s].epoch \in Nat /\ prom[p][s].at \in Nat
  /\ \A i \in Portals :
       /\ portal[i].now \in Nat
       /\ \A s \in Series : portal[i].answer[s] # None =>
            /\ portal[i].answer[s].epoch \in Epochs /\ portal[i].answer[s].epoch \in Nat
            /\ portal[i].answer[s].value \in Nat

LEMMA KnownNumbers == Known => Numbers
<1> USE BillingAssumption
<1> SUFFICES ASSUME TypeOK PROVE Numbers
  BY DEF Known
<1>1. mark # None => mark.through \in Nat
  <2>1. mark # None => mark.through \in Times
    BY DEF TypeOK, Marks
  <2> QED
    BY <2>1 DEF Times
<1>2. ASSUME NEW s \in Series, cursor[s] # None
      PROVE  /\ cursor[s].value \in Nat /\ cursor[s].updated \in Nat
             /\ cursor[s].epoch \in Epochs /\ cursor[s].epoch \in Nat
  <2>1. cursor[s] \in Cursors
    BY <1>2 DEF TypeOK
  <2> QED
    BY <2>1 DEF Cursors, Amounts, Times, Epochs
<1>3. ASSUME NEW i \in Portals
      PROVE  /\ portal[i].now \in Nat
             /\ \A s \in Series : portal[i].answer[s] # None =>
                  /\ portal[i].answer[s].epoch \in Epochs /\ portal[i].answer[s].epoch \in Nat
                  /\ portal[i].answer[s].value \in Nat
  <2>1. portal[i].now \in Times /\ portal[i].answer \in Answers
    BY DEF TypeOK
  <2>2. \A s \in Series : portal[i].answer[s] # None => portal[i].answer[s] \in Reports
    BY <2>1 DEF Answers
  <2> QED
    BY <2>1, <2>2 DEF Reports, Times, Epochs, Amounts
<1> QED
  BY <1>1, <1>2, <1>3, Figures DEF Numbers

LEMMA Gaps ==
  /\ ScrapeGap \in Nat /\ SweepGap \in Nat /\ RoundGap \in Nat /\ Stale \in Nat /\ Retention \in Nat
  /\ Epochs \subseteq Nat
BY BillingAssumption DEF Epochs

\* The cursor of a running process was written a short while ago.
LEMMA CursorIsYoung ==
  ASSUME Numbers, BInv, NEW s \in Series, cursor[s] # None, Runs(s),
         gw[s].epoch <= cursor[s].epoch
  PROVE  clock <= cursor[s].updated + Seen
<1>1. /\ cursor[s].epoch = gw[s].epoch /\ mark # None /\ mark.through \in Nat
      /\ cursor[s].updated \in Nat /\ clock \in Nat
  BY DEF BInv, Ledger, Numbers
<1>2. mark.through <= cursor[s].updated + ScrapeGap
  BY <1>1 DEF BInv, Fresh
<1>3. clock <= mark.through + SweepGap + RoundGap
  BY <1>1 DEF BInv, Settled
<1> QED
  BY <1>1, <1>2, <1>3, Gaps DEF Seen

\* Processes come and go.
LEMMA GatewaysKeep ==
  ASSUME Known, Known', Numbers, Numbers', BInv, NEW s \in Series,
         Spend(s) \/ Exit(s) \/ Start(s)
  PROVE  BInv'
<1> USE Gaps
<1>1. UNCHANGED <<clock, prom, mark, cursor, portal, charged>>
  BY DEF Spend, Exit, Start
<1>2. Settled'
  BY <1>1 DEF BInv, Settled, Busy
<1>3. ASSUME NEW q \in Series PROVE (Ledger(q) /\ Fresh(q) /\ Forgotten(q))'
  <2>0. gw \in [Series -> [epoch : Epochs, value : Amounts, state : {"runs", "gone"}]]
        /\ spent \in [Series -> [Epochs -> Amounts]]
    BY DEF Known, TypeOK
  <2>1. \/ gw'[q].epoch = gw[q].epoch /\ (Runs(q)' => Runs(q))
        \/ gw'[q].epoch = gw[q].epoch + 1
    BY <2>0 DEF Spend, Exit, Start, Runs
  <2>2. \A e \in Epochs : spent[q][e] <= spent'[q][e]
    <3>1. CASE Spend(s)
      <4>1. spent' = [spent EXCEPT ![s] = [spent[s] EXCEPT ![gw[s].epoch] = spent[s][gw[s].epoch] + 1]]
        BY <3>1 DEF Spend
      <4> QED
        BY <2>0, <4>1 DEF Numbers
    <3>2. CASE Exit(s) \/ Start(s)
      BY <3>2 DEF Exit, Start, Numbers
    <3> QED
      BY <3>1, <3>2
  <2>3. Ledger(q) /\ Fresh(q) /\ Forgotten(q) /\ Counters(q)
    BY DEF BInv, Known
  <2>4. Ledger(q)'
    BY <1>1, <2>1, <2>2, <2>3 DEF Ledger, Numbers
  <2>5. Fresh(q)'
    BY <1>1, <2>1, <2>3 DEF Fresh, Ledger, Counters, Numbers, Busy
  <2>6. Forgotten(q)'
    <3>1. \A e \in Epochs : charged[q][e] > 0 => e <= gw[q].epoch
      BY <2>3 DEF Ledger, Counters, Numbers
    <3> QED
      BY <1>1, <2>1, <2>3, <3>1 DEF Forgotten, Numbers, Busy
  <2> QED
    BY <2>4, <2>5, <2>6
<1> QED
  BY <1>2, <1>3 DEF BInv

LEMMA ScrapeKeeps ==
  ASSUME Known, Known', Numbers, Numbers', BInv, NEW p \in Proms, NEW s \in Series, Scrape(p, s)
  PROVE  BInv'
<1> USE Gaps
<1>1. UNCHANGED <<clock, gw, spent, mark, cursor, portal, charged>>
  BY DEF Scrape
<1>2. Settled'
  BY <1>1 DEF BInv, Settled, Busy
<1>3. ASSUME NEW q \in Series PROVE (Ledger(q) /\ Fresh(q) /\ Forgotten(q))'
  <2>1. ASSUME NEW r \in Proms
        PROVE  \/ prom'[r][q] = prom[r][q]
               \/ /\ Runs(q) /\ prom'[r][q].epoch = gw[q].epoch
                  /\ prom'[r][q].at = clock /\ prom'[r][q].up = 1
               \/ /\ ~Runs(q) /\ prom'[r][q].epoch = prom[r][q].epoch
                  /\ prom'[r][q].at = prom[r][q].at
    <3> DEFINE new == IF Runs(s)
                        THEN [epoch |-> gw[s].epoch, value |-> gw[s].value, at |-> clock, up |-> 1,
                              reset |-> IF gw[s].value < prom[p][s].value THEN clock
                                        ELSE prom[p][s].reset]
                        ELSE [prom[p][s] EXCEPT !.up = 0]
    <3>1. prom \in [Proms -> [Series -> Samples]] /\ prom[p][s] \in Samples
      BY DEF Known, TypeOK
    <3>2. prom' = [prom EXCEPT ![p] = [prom[p] EXCEPT ![s] = new]]
      BY DEF Scrape
    <3>3. \/ Runs(s) /\ new.epoch = gw[s].epoch /\ new.at = clock /\ new.up = 1
          \/ ~Runs(s) /\ new.epoch = prom[p][s].epoch /\ new.at = prom[p][s].at
      BY <3>1 DEF Samples
    <3> HIDE DEF new
    <3>4. prom'[r][q] = IF r = p /\ q = s THEN new ELSE prom[r][q]
      BY <3>1, <3>2
    <3> QED
      BY <3>3, <3>4
  <2>2. Ledger(q) /\ Fresh(q) /\ Forgotten(q) /\ Counters(q)
    BY DEF BInv, Known
  <2>3. Ledger(q)'
    BY <1>1, <2>2 DEF Ledger
  <2>4. Runs(q)' <=> Runs(q)
    BY <1>1 DEF Runs
  <2>5. cursor[q] # None /\ Runs(q) /\ gw[q].epoch <= cursor[q].epoch =>
          clock <= cursor[q].updated + Seen
    BY CursorIsYoung
  <2>6. Fresh(q)'
    BY <1>1, <2>1, <2>2, <2>4, <2>5 DEF Fresh, Numbers, Busy, Seen
  <2>7. Forgotten(q)'
    <3> SUFFICES ASSUME cursor[q] = None, NEW e \in Epochs, charged[q][e] > 0
                 PROVE  /\ Runs(q) => gw[q].epoch > e
                        /\ \A r \in Proms : prom'[r][q].epoch <= e => prom'[r][q].at + Stale < clock
                        /\ \A i \in Portals : Busy(i) /\ portal[i].answer[q] # None =>
                             portal[i].answer[q].epoch > e
      BY <1>1, <2>4 DEF Forgotten, Busy
    <3>1. /\ Runs(q) => gw[q].epoch > e
          /\ \A r \in Proms : prom[r][q].epoch <= e => prom[r][q].at + Stale < clock
          /\ \A i \in Portals : Busy(i) /\ portal[i].answer[q] # None =>
               portal[i].answer[q].epoch > e
      BY <2>2 DEF Forgotten
    <3>2. e \in Nat /\ gw[q].epoch \in Nat
      BY DEF Numbers
    <3> QED
      BY <2>1, <3>1, <3>2
  <2> QED
    BY <2>3, <2>6, <2>7
<1> QED
  BY <1>2, <1>3 DEF BInv

LEMMA TickKeeps ==
  ASSUME Known, Known', Numbers, Numbers', BInv, Tick
  PROVE  BInv'
<1> USE Gaps
<1>1. UNCHANGED <<gw, spent, prom, mark, cursor, portal, charged>> /\ clock' = clock + 1
  BY DEF Tick
<1>2. Settled'
  BY <1>1 DEF BInv, Settled, Busy, Tick, Numbers
<1>3. ASSUME NEW q \in Series PROVE (Ledger(q) /\ Fresh(q) /\ Forgotten(q))'
  <2>1. Ledger(q) /\ Fresh(q) /\ Forgotten(q)
    BY DEF BInv
  <2>2. Runs(q) => \A p \in Proms : clock + 1 <= prom[p][q].at + ScrapeGap
    BY DEF Tick, Numbers
  <2>3. Runs(q)' <=> Runs(q)
    BY <1>1 DEF Runs
  <2>4. Ledger(q)'
    BY <1>1, <2>1 DEF Ledger
  <2>5. Fresh(q)'
    BY <1>1, <2>1, <2>2, <2>3 DEF Fresh, Numbers, Busy
  <2>6. Forgotten(q)'
    BY <1>1, <2>1, <2>3 DEF Forgotten, Numbers, Busy
  <2> QED
    BY <2>4, <2>5, <2>6
<1> QED
  BY <1>2, <1>3 DEF BInv

\* A round ends, or goes on with the answer it has.
LEMMA RoundKeeps ==
  ASSUME BInv, UNCHANGED <<clock, gw, spent, prom, mark, cursor, charged>>,
         \A j \in Portals : Busy(j)' => /\ Busy(j) /\ portal'[j].now = portal[j].now
                                        /\ portal'[j].answer = portal[j].answer
  PROVE  BInv'
<1>1. Settled'
  BY DEF BInv, Settled
<1>2. ASSUME NEW q \in Series PROVE (Ledger(q) /\ Fresh(q) /\ Forgotten(q))'
  <2>1. Ledger(q) /\ Fresh(q) /\ Forgotten(q)
    BY DEF BInv
  <2>2. Runs(q)' <=> Runs(q)
    BY DEF Runs
  <2>3. Ledger(q)' /\ Fresh(q)' /\ Forgotten(q)'
    BY <2>1, <2>2 DEF Ledger, Fresh, Forgotten
  <2> QED
    BY <2>3
<1> QED
  BY <1>1, <1>2 DEF BInv

LEMMA QuietRoundKeeps ==
  ASSUME Known, BInv, NEW i \in Portals,
         ReadBasis(i) \/ GiveUp(i) \/ SkipIdle(i) \/ YieldRound(i)
  PROVE  BInv'
<1>0. portal \in [Portals -> Rounds] /\ portal[i] \in Rounds
  BY DEF Known, TypeOK, Rounds
<1>1. CASE ReadBasis(i)
  <2> DEFINE r == [[portal[i] EXCEPT !.pc = "settle"] EXCEPT !.basis = Basis]
  <2>1. /\ portal' = [portal EXCEPT ![i] = r] /\ portal[i].pc = "basis"
        /\ UNCHANGED <<clock, gw, spent, prom, mark, cursor, charged>>
    BY <1>0, <1>1 DEF ReadBasis
  <2>2. r.now = portal[i].now /\ r.answer = portal[i].answer
    BY <1>0 DEF Rounds
  <2> HIDE DEF r
  <2>3. \A j \in Portals : Busy(j)' => /\ Busy(j) /\ portal'[j].now = portal[j].now
                                       /\ portal'[j].answer = portal[j].answer
    BY <1>0, <2>1, <2>2 DEF Busy
  <2> QED
    BY <2>1, <2>3, RoundKeeps
<1>2. CASE GiveUp(i) \/ SkipIdle(i) \/ YieldRound(i)
  <2>1. /\ portal' = [portal EXCEPT ![i] = Idle]
        /\ UNCHANGED <<clock, gw, spent, prom, mark, cursor, charged>>
    BY <1>2 DEF GiveUp, SkipIdle, YieldRound
  <2>2. \A j \in Portals : Busy(j)' => /\ Busy(j) /\ portal'[j].now = portal[j].now
                                       /\ portal'[j].answer = portal[j].answer
    BY <1>0, <2>1 DEF Busy, Idle
  <2> QED
    BY <2>1, <2>2, RoundKeeps
<1> QED
  BY <1>1, <1>2

LEMMA BeginTickKeeps ==
  ASSUME Timing, Known, Numbers, BInv, NEW i \in Portals, BeginTick(i)
  PROVE  BInv'
<1> USE Gaps
<1>1. portal \in [Portals -> Rounds] /\ UNCHANGED <<clock, gw, spent, prom, mark, cursor, charged>>
  BY Zenon DEF Known, TypeOK, Rounds, BeginTick
<1>2. PICK p \in Proms :
        portal' = [portal EXCEPT ![i] =
          [Idle EXCEPT !.pc = "basis", !.now = clock,
                       !.answer = [s \in Series |->
                          IF Visible(p, s) THEN Reported(prom[p][s]) ELSE None]]]
  BY Zenon DEF BeginTick
<1> DEFINE ans == [s \in Series |-> IF Visible(p, s) THEN Reported(prom[p][s]) ELSE None]
           r == [Idle EXCEPT !.pc = "basis", !.now = clock, !.answer = ans]
<1>3. /\ r.now = clock /\ r.answer = ans /\ portal' = [portal EXCEPT ![i] = r]
  BY <1>2 DEF Idle
<1>4. ASSUME NEW s \in Series
      PROVE  /\ ans[s] = None => ~Visible(p, s)
             /\ ans[s] # None => Visible(p, s) /\ ans[s].epoch = prom[p][s].epoch
  <2>1. Visible(p, s) => Reported(prom[p][s]) \in Reports /\ Reported(prom[p][s]).epoch = prom[p][s].epoch
    <3>1. Counters(s) /\ prom[p][s] \in Samples
      BY DEF Known, TypeOK
    <3>2. Visible(p, s) => prom[p][s].epoch \in Epochs
      BY <3>1 DEF Counters, Samples, Epochs, Visible
    <3> QED
      BY <3>1, <3>2 DEF Samples, Reported, Reports
  <2> QED
    BY <2>1, NoneAssumption
<1> HIDE DEF ans, r
<1>5. \A j \in Portals :
        \/ j = i /\ portal'[j].now = clock /\ portal'[j].answer = ans
        \/ portal'[j] = portal[j]
  BY <1>1, <1>3
<1>6. Settled'
  BY <1>1, <1>5 DEF BInv, Settled, Busy, Numbers
<1>7. ASSUME NEW q \in Series PROVE (Ledger(q) /\ Fresh(q) /\ Forgotten(q))'
  <2>1. Ledger(q) /\ Fresh(q) /\ Forgotten(q) /\ Counters(q)
    BY DEF BInv, Known
  <2>2. Runs(q)' <=> Runs(q)
    BY <1>1 DEF Runs
  <2>3. /\ prom[p][q].epoch \in Nat /\ prom[p][q].at \in Nat /\ clock \in Nat
        /\ gw[q].epoch \in Nat /\ Stale >= ScrapeGap
        /\ cursor[q] # None => cursor[q].updated \in Nat /\ cursor[q].epoch \in Nat
    BY DEF Numbers, Timing
  <2>4. ASSUME cursor[q] # None, Runs(q), cursor[q].epoch = gw[q].epoch, ans[q] = None
        PROVE  clock <= cursor[q].updated + ScrapeGap
    <3>1. ~Visible(p, q)
      BY <1>4, <2>4
    <3>2. prom[p][q].epoch # gw[q].epoch
      <4> SUFFICES ASSUME prom[p][q].epoch = gw[q].epoch PROVE FALSE
        OBVIOUS
      <4>1. prom[p][q].up = 1 /\ clock <= prom[p][q].at + ScrapeGap
        BY <2>1, <2>4 DEF Fresh
      <4> QED
        BY <2>3, <3>1, <4>1 DEF Visible
    <3>3. prom[p][q].epoch < gw[q].epoch
      BY <2>1, <2>3, <3>2 DEF Counters
    <3> QED
      BY <2>1, <2>4, <3>3 DEF Fresh
  <2>5. ASSUME cursor[q] # None, ans[q] # None, ans[q].epoch <= cursor[q].epoch
        PROVE  clock <= cursor[q].updated + Seen + Stale
    <3>1. clock - prom[p][q].at <= Stale /\ prom[p][q].epoch <= cursor[q].epoch
      BY <1>4, <2>5 DEF Visible
    <3>2. prom[p][q].at <= cursor[q].updated + Seen
      BY <2>1, <2>5, <3>1 DEF Fresh
    <3> QED
      BY <2>3, <2>5, <3>1, <3>2 DEF Seen
  <2>6. ASSUME cursor[q] = None, ans[q] # None, NEW e \in Epochs, charged[q][e] > 0
        PROVE  ans[q].epoch > e
    <3>1. clock - prom[p][q].at <= Stale /\ prom[p][q].epoch = ans[q].epoch
      BY <1>4, <2>6 DEF Visible
    <3>2. prom[p][q].epoch <= e => prom[p][q].at + Stale < clock
      BY <2>1, <2>6 DEF Forgotten
    <3> QED
      BY <2>3, <3>1, <3>2
  <2>7. Ledger(q)'
    BY <1>1, <2>1 DEF Ledger
  <2>8. Fresh(q)'
    BY <1>1, <1>5, <2>1, <2>2, <2>4, <2>5 DEF Fresh, Busy
  <2>9. Forgotten(q)'
    BY <1>1, <1>5, <2>1, <2>2, <2>6 DEF Forgotten, Busy
  <2> QED
    BY <2>7, <2>8, <2>9
<1> QED
  BY <1>6, <1>7 DEF BInv

LEMMA BInvSeeds ==
  ASSUME Numbers, BInv
  PROVE  Seeds
<1>1. ASSUME NEW s \in Series, cursor[s] # None PROVE cursor[s].started >= 1
  <2>1. cursor[s].started = cursor[s].epoch /\ cursor[s].epoch \in Epochs
    BY <1>1 DEF BInv, Ledger, Numbers
  <2> QED
    BY <2>1 DEF Epochs
<1> QED
  BY <1>1 DEF Seeds, BInv, Settled

\* A transaction leaves a mark, and a cursor for what it read.
LEMMA SettleLeaves ==
  ASSUME Known, NEW i \in Portals, Settle(i)
  PROVE  /\ mark' # None /\ mark'.through = portal[i].now /\ mark'.seeded = 1
         /\ \A s \in Series : portal[i].answer[s] # None => cursor'[s] # None
<1> USE NoneAssumption
<1>1. mark' = [through |-> portal[i].now, seeded |-> 1,
               seededAt |-> IF mark = None THEN None
                            ELSE IF mark.seeded = 0 THEN portal[i].now ELSE mark.seededAt]
  BY DEF Settle
<1>2. portal[i].now \in Times /\ clock \in Times /\ (mark # None => mark.seededAt \in Times \cup {None})
  BY DEF Known, TypeOK, Marks
<1>3. mark' \in Marks
  BY <1>1, <1>2 DEF Marks
<1>4. ASSUME NEW s \in Series, portal[i].answer[s] # None PROVE cursor'[s] # None
  <2> DEFINE a == portal[i].answer[s]
             out == Outcomes(i)[s]
             ep == IF /\ cursor[s] # None /\ cursor[s].value = out.value
                      /\ out.charge = 0 /\ cursor[s].started = out.started
                     THEN cursor[s].epoch ELSE a.epoch
  <2>1. out \in Charges /\ a \in Reports /\ cursor'[s] = Row(out.value, out.started, ep)
    BY <1>4, SettleRow
  <2>2. cursor[s] # None => cursor[s].epoch \in Epochs
    <3>1. cursor[s] # None => cursor[s] \in Cursors
      BY DEF Known, TypeOK
    <3> QED
      BY <3>1 DEF Cursors
  <2>3. ep \in Epochs
    BY <2>1, <2>2 DEF Reports
  <2> HIDE DEF out, ep, a
  <2>4. cursor'[s] \in Cursors
    BY <1>2, <2>1, <2>3 DEF Row, Cursors, Charges
  <2> QED
    BY <2>4
<1> QED
  BY <1>1, <1>3, <1>4

\* A reading is debited in full and only once.
LEMMA ReadingInLedger ==
  ASSUME Known, Numbers, BInv, Timing, NEW i \in Portals, Settle(i), NEW s \in Series,
         portal[i].answer[s] # None
  PROVE  /\ Ledger(s)' /\ cursor'[s] # None /\ cursor'[s].updated = clock
<1> USE Gaps
<1> DEFINE v == portal[i].answer[s].value
           e == portal[i].answer[s].epoch
<1>1. /\ Seeds /\ Exposing = Epochs /\ Ledger(s) /\ Counters(s) /\ Forgotten(s)
      /\ UNCHANGED <<gw, spent>> /\ Busy(i)
  BY BInvSeeds DEF Timing, BInv, Known, Settle, Busy
<1>2. mark' # None /\ cursor'[s] # None
  BY SettleLeaves
<1>3. /\ e \in Epochs /\ e \in Nat /\ v \in Nat /\ v <= spent[s][e] /\ e <= gw[s].epoch
      /\ charged[s] \in [Epochs -> Nat]
      /\ \A f \in Epochs : spent[s][f] \in Nat /\ charged[s][f] \in Nat
      /\ cursor[s] # None => cursor[s].epoch \in Epochs /\ cursor[s].value \in Nat
  BY <1>1 DEF Numbers, Counters, Known, TypeOK
<1>4. \/ cursor[s] = None /\ TakesNew(s, v, e)
      \/ cursor[s] # None /\ e > cursor[s].started /\ TakesNew(s, v, e)
      \/ cursor[s] # None /\ KeepsCursor(s)
      \/ cursor[s] # None /\ e = cursor[s].started /\ v >= cursor[s].value /\ MovesOn(s, v, e)
  <2>1. mark = None \/ (mark.seeded = 1 /\ mark.seededAt = None)
    BY DEF BInv, Settled
  <2>2. CASE cursor[s] = None
    BY <1>1, <2>1, <2>2, SettleFirst
  <2>3. CASE cursor[s] # None
    BY <1>1, <2>3, SettleMoves
  <2> QED
    BY <2>2, <2>3
<1>5. cursor[s] = None => \A f \in Epochs : f >= e => charged[s][f] = 0
  BY <1>1, <1>3 DEF Forgotten, Busy
<1>6. cursor[s] # None =>
        /\ cursor[s].started = cursor[s].epoch /\ cursor[s].epoch <= gw[s].epoch
        /\ charged[s][cursor[s].epoch] = cursor[s].value
        /\ \A f \in Epochs : f > cursor[s].epoch => charged[s][f] = 0
  BY <1>1 DEF Ledger
<1>7. \A f \in Epochs : charged[s][f] <= spent[s][f]
  BY <1>1 DEF Ledger
<1> HIDE DEF v, e
\* The series in the new state: the process of its cursor, the debit so far.
<1>8. SUFFICES /\ cursor'[s].started = cursor'[s].epoch /\ cursor'[s].epoch <= gw[s].epoch
               /\ cursor'[s].updated = clock
               /\ charged'[s][cursor'[s].epoch] = cursor'[s].value
               /\ \A f \in Epochs : /\ f > cursor'[s].epoch => charged'[s][f] = 0
                                    /\ charged'[s][f] <= spent[s][f]
  BY <1>1, <1>2 DEF Ledger
<1>9. CASE TakesNew(s, v, e) /\ \A f \in Epochs : f >= e => charged[s][f] = 0
  <2>1. /\ cursor'[s].epoch = e /\ cursor'[s].started = e /\ cursor'[s].value = v
        /\ cursor'[s].updated = clock
    BY <1>9 DEF TakesNew, Row
  <2>2. \A f \in Epochs : charged'[s][f] = IF f = e THEN v ELSE charged[s][f]
    BY <1>3, <1>9 DEF TakesNew
  <2>3. ASSUME NEW f \in Epochs
        PROVE  (f > e => charged'[s][f] = 0) /\ charged'[s][f] <= spent[s][f]
    <3>1. f \in Nat /\ charged[s][f] <= spent[s][f]
      BY <1>7
    <3>2. f > e => f >= e /\ f # e
      BY <1>3, <3>1
    <3> QED
      BY <1>3, <1>9, <2>2, <3>1, <3>2
  <2>4. charged'[s][e] = v
    BY <1>3, <2>2
  <2> QED
    BY <1>3, <2>1, <2>3, <2>4
<1>10. CASE cursor[s] # None /\ KeepsCursor(s)
  <2>1. /\ cursor'[s].epoch = cursor[s].epoch /\ cursor'[s].started = cursor[s].started
        /\ cursor'[s].value = cursor[s].value /\ cursor'[s].updated = clock /\ charged'[s] = charged[s]
    BY <1>10 DEF KeepsCursor, Row
  <2> QED
    BY <1>6, <1>7, <1>10, <2>1
<1>11. CASE cursor[s] # None /\ e = cursor[s].started /\ v >= cursor[s].value /\ MovesOn(s, v, e)
  <2>1. /\ cursor'[s].epoch = e /\ cursor'[s].started = e
        /\ cursor'[s].value = v /\ cursor'[s].updated = clock
    BY <1>6, <1>11 DEF MovesOn, Row
  <2>2. \A f \in Epochs : charged'[s][f] = IF f = e THEN v ELSE charged[s][f]
    BY <1>3, <1>6, <1>11 DEF MovesOn
  <2> QED
    BY <1>3, <1>6, <1>7, <1>11, <2>1, <2>2
<1>12. cursor[s] # None /\ e > cursor[s].started => \A f \in Epochs : f >= e => charged[s][f] = 0
  <2> SUFFICES ASSUME cursor[s] # None, e > cursor[s].started, NEW f \in Epochs, f >= e
               PROVE  charged[s][f] = 0
    OBVIOUS
  <2>1. cursor[s].epoch \in Nat /\ f \in Nat /\ cursor[s].started = cursor[s].epoch
    BY <1>3, <1>6
  <2>2. f > cursor[s].epoch
    BY <1>3, <2>1
  <2> QED
    BY <1>6, <2>2
<1> QED
  BY <1>4, <1>5, <1>9, <1>10, <1>11, <1>12, Zenon

\* A cursor that was not read is kept, or its process is long out of sight.
LEMMA UnreadInLedger ==
  ASSUME Known, Numbers, BInv, Timing, NEW i \in Portals, Settle(i), NEW s \in Series,
         portal[i].answer[s] = None
  PROVE  /\ Ledger(s)' /\ charged'[s] = charged[s]
         /\ \/ cursor'[s] = cursor[s]
            \/ /\ cursor'[s] = None
               /\ \A e \in Epochs : charged[s][e] > 0 =>
                    /\ Runs(s) => gw[s].epoch > e
                    /\ \A p \in Proms : prom[p][s].epoch <= e => prom[p][s].at + Stale < clock
                    /\ \A j \in Portals : Busy(j) /\ portal[j].answer[s] # None =>
                         portal[j].answer[s].epoch > e
<1> USE Gaps
<1>1. /\ charged'[s] = charged[s]
      /\ \/ cursor'[s] = cursor[s]
         \/ cursor'[s] = None /\ cursor[s] # None /\ Expired(s)
  BY SettleRow
<1>2. UNCHANGED <<gw, spent>> /\ mark' # None
  BY SettleLeaves DEF Settle
<1>3. Ledger(s) /\ Fresh(s) /\ Settled
  BY DEF BInv
<1>4. Ledger(s)'
  BY <1>1, <1>2, <1>3 DEF Ledger
<1>5. ASSUME cursor[s] # None, Expired(s), NEW e \in Epochs, charged[s][e] > 0
      PROVE  /\ Runs(s) => gw[s].epoch > e
             /\ \A p \in Proms : prom[p][s].epoch <= e => prom[p][s].at + Stale < clock
             /\ \A j \in Portals : Busy(j) /\ portal[j].answer[s] # None =>
                  portal[j].answer[s].epoch > e
  <2>1. /\ clock \in Nat /\ cursor[s].updated \in Nat /\ cursor[s].epoch \in Nat /\ e \in Nat
        /\ gw[s].epoch \in Nat
    BY <1>5 DEF Numbers
  <2>2. e <= cursor[s].epoch
    BY <1>3, <1>5, <2>1 DEF Ledger
  <2>3. cursor[s].updated + Seen + Stale + RoundGap < clock
    BY <1>5, <2>1 DEF Expired, Timing, Seen
  <2>4. Runs(s) => gw[s].epoch > e
    <3>1. ASSUME Runs(s), gw[s].epoch <= e PROVE FALSE
      <4>1. gw[s].epoch <= cursor[s].epoch
        BY <2>1, <2>2, <3>1
      <4>2. clock <= cursor[s].updated + Seen
        BY <1>5, <3>1, <4>1, CursorIsYoung
      <4> QED
        BY <2>1, <2>3, <4>2 DEF Seen
    <3> QED
      BY <2>1, <3>1
  <2>5. ASSUME NEW p \in Proms, prom[p][s].epoch <= e PROVE prom[p][s].at + Stale < clock
    <3>1. prom[p][s].epoch \in Nat /\ prom[p][s].at \in Nat
      BY DEF Numbers
    <3>2. prom[p][s].epoch <= cursor[s].epoch
      BY <2>1, <2>2, <2>5, <3>1
    <3>3. prom[p][s].at <= cursor[s].updated + Seen
      BY <1>3, <1>5, <3>2 DEF Fresh
    <3> QED
      BY <2>1, <2>3, <3>1, <3>3 DEF Seen
  <2>6. ASSUME NEW j \in Portals, Busy(j), portal[j].answer[s] # None
        PROVE  portal[j].answer[s].epoch > e
    <3> SUFFICES ASSUME portal[j].answer[s].epoch <= e PROVE FALSE
      BY <2>1, <2>6 DEF Numbers
    <3>1. portal[j].answer[s].epoch \in Nat /\ portal[j].now \in Nat
      BY <2>6 DEF Numbers
    <3>2. portal[j].answer[s].epoch <= cursor[s].epoch
      BY <2>1, <2>2, <3>1
    <3>3. portal[j].now <= cursor[s].updated + Seen + Stale
      BY <1>3, <1>5, <2>6, <3>2 DEF Fresh
    <3>4. clock <= portal[j].now + RoundGap
      BY <1>3, <2>6 DEF Settled
    <3> QED
      BY <2>1, <2>3, <3>1, <3>3, <3>4 DEF Seen
  <2> QED
    BY <2>4, <2>5, <2>6
<1> QED
  BY <1>1, <1>4, <1>5

LEMMA SettleKeeps ==
  ASSUME Timing, Known, Numbers, BInv, NEW i \in Portals, Settle(i)
  PROVE  BInv'
<1> USE Gaps
<1>1. /\ UNCHANGED <<clock, gw, spent, prom>> /\ portal[i].pc = "settle"
      /\ portal' = [portal EXCEPT ![i] = Idle]
  BY DEF Settle
<1>2. mark' # None /\ mark'.through = portal[i].now /\ mark'.seeded = 1
  BY SettleLeaves
<1>3. Busy(i) /\ portal[i].now <= clock /\ clock <= portal[i].now + RoundGap
  BY <1>1 DEF Busy, BInv, Settled
<1>4. \A j \in Portals : Busy(j)' => Busy(j) /\ portal'[j] = portal[j]
  <2>1. portal \in [Portals -> Rounds]
    BY DEF Known, TypeOK, Rounds
  <2> QED
    BY <1>1, <2>1 DEF Busy, Idle
<1>5. portal[i].now \in Nat /\ clock \in Nat /\ \A j \in Portals : portal[j].now \in Nat
  BY DEF Numbers
<1>6. Settled'
  <2>1. mark'.seededAt = None
    BY DEF Settle, BInv, Settled
  <2> QED
    BY <1>1, <1>2, <1>3, <1>4, <1>5, <2>1 DEF BInv, Settled
<1>7. ASSUME NEW s \in Series PROVE (Ledger(s) /\ Fresh(s) /\ Forgotten(s))'
  <2>1. Fresh(s) /\ Forgotten(s) /\ Counters(s) /\ Settled
    BY DEF BInv, Known
  <2>2. Runs(s)' <=> Runs(s)
    BY <1>1 DEF Runs
  <2>3. CASE portal[i].answer[s] # None
    <3>1. Ledger(s)' /\ cursor'[s] # None /\ cursor'[s].updated = clock
      BY <2>3, ReadingInLedger
    <3>2. \A p \in Proms : prom[p][s].at \in Nat /\ prom[p][s].at <= clock
      BY <2>1 DEF Counters, Numbers
    <3>3. \A j \in Portals : Busy(j) => portal[j].now <= clock
      BY <2>1 DEF Settled
    <3>4. Fresh(s)'
      BY <1>1, <1>2, <1>3, <1>4, <1>5, <2>1, <2>2, <3>1, <3>2, <3>3 DEF Fresh, Seen
    <3> QED
      BY <3>1, <3>4 DEF Forgotten
  <2>4. CASE portal[i].answer[s] = None
    <3>1. /\ Ledger(s)' /\ charged'[s] = charged[s]
          /\ \/ cursor'[s] = cursor[s]
             \/ /\ cursor'[s] = None
                /\ \A e \in Epochs : charged[s][e] > 0 =>
                     /\ Runs(s) => gw[s].epoch > e
                     /\ \A p \in Proms : prom[p][s].epoch <= e => prom[p][s].at + Stale < clock
                     /\ \A j \in Portals : Busy(j) /\ portal[j].answer[s] # None =>
                          portal[j].answer[s].epoch > e
      BY <2>4, UnreadInLedger
    <3>2. cursor[s] # None /\ Runs(s) /\ cursor[s].epoch = gw[s].epoch =>
            portal[i].now <= cursor[s].updated + ScrapeGap
      BY <1>3, <2>1, <2>4 DEF Fresh
    <3>3. Fresh(s)'
      <4>1. CASE cursor'[s] = None
        BY <1>1, <2>1, <2>2, <4>1 DEF Fresh
      <4>2. CASE cursor'[s] = cursor[s] /\ cursor[s] # None
        BY <1>1, <1>2, <1>4, <2>1, <2>2, <3>2, <4>2 DEF Fresh
      <4> QED
        BY <3>1, <4>1, <4>2
    <3>4. Forgotten(s)'
      BY <1>1, <1>4, <2>1, <2>2, <3>1 DEF Forgotten
    <3> QED
      BY <3>1, <3>3, <3>4
  <2> QED
    BY <2>3, <2>4
<1> QED
  BY <1>6, <1>7 DEF BInv

LEMMA BInvInit ==
  ASSUME Timing, Init
  PROVE  BInv
<1> USE Gaps, BillingAssumption
<1>1. /\ mark = None /\ \A s \in Series : cursor[s] = None /\ gw[s].epoch = 1
      /\ \A p \in Proms, s \in Series : prom[p][s].epoch = 0
      /\ \A i \in Portals : portal[i].pc = "idle"
      /\ \A s \in Series, e \in Epochs : charged[s][e] = 0 /\ spent[s][e] = 0
  BY DEF Init, Timing, Idle
<1>2. Settled
  BY <1>1 DEF Settled, Busy
<1>3. ASSUME NEW s \in Series PROVE Ledger(s) /\ Fresh(s) /\ Forgotten(s)
  BY <1>1 DEF Ledger, Fresh, Forgotten
<1> QED
  BY <1>2, <1>3 DEF BInv

LEMMA Billing ==
  ASSUME Timing
  PROVE  Spec => []BInv
<1>1. Init => BInv
  BY BInvInit
<1>2. Known /\ Numbers /\ Known' /\ Numbers' /\ BInv /\ [Next]_vars => BInv'
  <2> SUFFICES ASSUME Known, Numbers, Known', Numbers', BInv, [Next]_vars PROVE BInv'
    OBVIOUS
  <2>1. CASE UNCHANGED vars
    BY <2>1 DEF vars, BInv, Settled, Ledger, Fresh, Forgotten, Busy, Runs
  <2> QED
    BY <2>1, GatewaysKeep, ScrapeKeeps, TickKeeps, BeginTickKeeps, QuietRoundKeeps, SettleKeeps
       DEF Next, World, Sweep
<1>3. Known => Numbers
  BY KnownNumbers
<1> QED
  BY <1>1, <1>2, <1>3, AlwaysKnown, PTL DEF Spec

(* The tenant never pays more than each process spent, for any number of   *)
(* series, portals, replicas, processes and any clock: a series is pruned  *)
(* only when no replica, no query and no round can still report what was   *)
(* debited under its cursor (Timing: CURSOR_RETENTION outlives them all).  *)
THEOREM NeverOvercharged ==
  ASSUME Timing
  PROVE  Spec => []NoOvercharge
<1>1. BInv => NoOvercharge
  BY DEF BInv, Ledger, NoOvercharge
<1> QED
  BY <1>1, Billing, PTL

(* The cursor of a series is what its process has been debited, in every   *)
(* state and for every value of the constants that Timing allows.          *)
THEOREM LedgerFollowsCursor ==
  ASSUME Timing
  PROVE  Spec => []CursorIsLedger
<1>1. BInv => CursorIsLedger
  BY DEF BInv, Ledger, CursorIsLedger
<1> QED
  BY <1>1, Billing, PTL
=============================================================================
