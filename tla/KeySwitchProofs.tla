-------------------------- MODULE KeySwitchProofs --------------------------
(***************************************************************************)
(* TLAPS proofs about module KeySwitch: type correctness for any number of *)
(* portal instances, and, for one instance, that the portal keeps track of *)
(* the keys it switched off and leaves the operator's alone.               *)
(***************************************************************************)
EXTENDS KeySwitch, TLAPS

-----------------------------------------------------------------------------
(* Types.                                                                  *)

LEMMA NoRoundType == NoRound \in Sweeps
BY DEF NoRound, Sweeps, Steps, Rows

LEMMA TypeInit == Init => TypeOK
<1> SUFFICES ASSUME Init PROVE TypeOK
  OBVIOUS
<1>1. PICK existing \in SUBSET Keys, off \in SUBSET Keys :
        /\ off \subseteq existing
        /\ conf = [k \in Keys |-> IF k \in off THEN "off"
                                  ELSE IF k \in existing THEN "on" ELSE "absent"]
        /\ mint = [k \in Keys |-> IF k \in existing THEN "handed" ELSE "none"]
        /\ held = off /\ heldFree = off
  BY DEF Init
<1>2. conf \in [Keys -> {"absent", "on", "off"}] /\ mint \in [Keys -> Mints]
  BY <1>1 DEF Mints
<1>3. sweep \in [Portals -> Sweeps]
  BY NoRoundType DEF Init
<1>4. /\ table \subseteq Rows /\ broke \subseteq Users
      /\ suspended \subseteq Users /\ overspent \subseteq Keys
  BY DEF Init, Rows
<1> QED
  BY <1>1, <1>2, <1>3, <1>4 DEF TypeOK

\* A step of a round that only replaces the instance's own state.
LEMMA AdvanceType ==
  ASSUME TypeOK, NEW i \in Portals, NEW from, NEW rec \in Sweeps,
         Advance(i, from, rec)
  PROVE TypeOK'
<1>1. sweep' \in [Portals -> Sweeps]
  BY DEF TypeOK, Advance
<1> QED
  BY <1>1 DEF TypeOK, Advance, money

\* The states the reading steps of a round move to.
LEMMA ReadTypes ==
  ASSUME TypeOK, NEW i \in Portals
  PROVE /\ sweep[i] \in Sweeps
        /\ \A unread \in SUBSET Users :
             [sweep[i] EXCEPT !.pc = "exhausted", !.disabled = suspended,
                              !.unread = unread] \in Sweeps
        /\ [sweep[i] EXCEPT !.pc = "balances", !.exhausted = overspent] \in Sweeps
        /\ [sweep[i] EXCEPT !.pc = "table",
                            !.wanted = sweep[i].disabled \cup broke] \in Sweeps
        /\ [sweep[i] EXCEPT !.pc = "edit",
              !.off = (table \cup sweep[i].add) \ sweep[i].remove] \in Sweeps
        /\ [NoRound EXCEPT !.add = sweep[i].add, !.remove = sweep[i].remove] \in Sweeps
<1>1. sweep[i] \in Sweeps
  BY DEF TypeOK
<1>2. /\ suspended \in SUBSET Users /\ broke \in SUBSET Users
      /\ overspent \in SUBSET Keys /\ table \in SUBSET Rows
  BY DEF TypeOK
<1>3. /\ sweep[i].disabled \cup broke \in SUBSET Users
      /\ (table \cup sweep[i].add) \ sweep[i].remove \in SUBSET Rows
  BY <1>1, <1>2 DEF Sweeps
<1>4. {"exhausted", "balances", "table", "edit"} \subseteq Steps
  BY DEF Steps
<1>5. [NoRound EXCEPT !.add = sweep[i].add, !.remove = sweep[i].remove] \in Sweeps
  BY <1>1 DEF NoRound, Sweeps, Steps
<1>6. ASSUME NEW unread \in SUBSET Users
      PROVE [sweep[i] EXCEPT !.pc = "exhausted", !.disabled = suspended,
                             !.unread = unread] \in Sweeps
  BY <1>1, <1>2, <1>4 DEF Sweeps
<1>7. [sweep[i] EXCEPT !.pc = "balances", !.exhausted = overspent] \in Sweeps
  BY <1>1, <1>2, <1>4 DEF Sweeps
<1>8. [sweep[i] EXCEPT !.pc = "table",
                       !.wanted = sweep[i].disabled \cup broke] \in Sweeps
  BY <1>1, <1>3, <1>4 DEF Sweeps
<1>9. [sweep[i] EXCEPT !.pc = "edit",
         !.off = (table \cup sweep[i].add) \ sweep[i].remove] \in Sweeps
  BY <1>1, <1>3, <1>4 DEF Sweeps
<1> QED
  BY <1>1, <1>5, <1>6, <1>7, <1>8, <1>9, Zenon

LEMMA RoundFailsType ==
  ASSUME TypeOK, NEW i \in Portals, RoundFails(i) PROVE TypeOK'
BY AdvanceType, ReadTypes DEF RoundFails

\* What EditKeys leaves pending.
NewAdd(i) == (sweep[i].add \cup Added(i)) \ Removed(i)
NewRemove(i) == (sweep[i].remove \ Added(i)) \cup Removed(i)
AfterEdit(i) == [NoRound EXCEPT !.pc = "record", !.add = NewAdd(i), !.remove = NewRemove(i)]

LEMMA EditKeysSteps ==
  ASSUME NEW i \in Portals, EditKeys(i)
  PROVE /\ sweep[i].pc = "edit"
        /\ conf' = NewConf(i)
        /\ held' = held \ Flips(i) /\ heldFree' = heldFree \ Flips(i)
        /\ sweep' = [sweep EXCEPT ![i] = AfterEdit(i)]
        /\ UNCHANGED <<table, money, mint>>
BY Zenon DEF EditKeys, NewAdd, NewRemove, AfterEdit

LEMMA EditKeysType ==
  ASSUME TypeOK, NEW i \in Portals, EditKeys(i) PROVE TypeOK'
<1>1. Flips(i) \subseteq Keys
  BY DEF Flips
<1>2. conf' \in [Keys -> {"absent", "on", "off"}]
  BY EditKeysSteps DEF TypeOK, NewConf
<1>3. sweep[i] \in Sweeps
  BY DEF TypeOK
<1>4. NewAdd(i) \in SUBSET Rows /\ NewRemove(i) \in SUBSET Rows
  BY <1>1, <1>3 DEF NewAdd, NewRemove, Added, Removed, Rows, Sweeps
<1>5. AfterEdit(i) \in Sweeps
  BY <1>4 DEF AfterEdit, NoRound, Sweeps, Steps
<1>6. sweep' \in [Portals -> Sweeps]
  BY <1>5, EditKeysSteps DEF TypeOK
<1> QED
  BY <1>2, <1>6, EditKeysSteps DEF TypeOK, money

LEMMA RecordOursType ==
  ASSUME TypeOK, NEW i \in Portals, RecordOurs(i) PROVE TypeOK'
<1>1. sweep[i] \in Sweeps
  BY DEF TypeOK
<1>2. table' \subseteq Rows
  BY <1>1 DEF TypeOK, RecordOurs, Sweeps
<1>3. sweep' \in [Portals -> Sweeps]
  BY NoRoundType DEF TypeOK, RecordOurs
<1> QED
  BY <1>2, <1>3 DEF TypeOK, RecordOurs, money

LEMMA RoundType ==
  ASSUME TypeOK, NEW i \in Portals, Round(i) PROVE TypeOK'
<1>1. CASE ReadExhausted(i)
  BY <1>1, AdvanceType, ReadTypes DEF ReadExhausted
<1>2. CASE ReadBalances(i)
  BY <1>2, AdvanceType, ReadTypes DEF ReadBalances
<1>3. CASE ReadTable(i)
  BY <1>3, AdvanceType, ReadTypes DEF ReadTable
<1>4. CASE RoundFails(i)
  BY <1>4, RoundFailsType
<1>5. CASE EditKeys(i)
  BY <1>5, EditKeysType
<1>6. CASE EditFails(i)
  BY <1>6, AdvanceType, ReadTypes DEF EditFails
<1>7. CASE RecordOurs(i)
  BY <1>7, RecordOursType
<1>8. CASE RecordFails(i)
  BY <1>8, AdvanceType, ReadTypes DEF RecordFails
<1>9. CASE \E unread \in SUBSET Users : BeginRound(i, unread)
  BY <1>9, AdvanceType, ReadTypes DEF BeginRound
<1> QED
  BY <1>1, <1>2, <1>3, <1>4, <1>5, <1>6, <1>7, <1>8, <1>9 DEF Round, Proceed

LEMMA AccountsType == TypeOK /\ Accounts => TypeOK'
BY DEF TypeOK, Accounts, SetBroke, Grant, Suspend, SetOverspent

LEMMA KeyCallsType ==
  ASSUME TypeOK, KeyCalls PROVE TypeOK'
<1> PICK k \in Keys : \/ BeginMint(k) \/ WriteMint(k) \/ RecordMint(k)
                      \/ UndoMint(k) \/ Revoke(k)
  BY DEF KeyCalls
<1>1. CASE BeginMint(k)
  BY <1>1 DEF TypeOK, BeginMint, Mints, money
<1>2. CASE WriteMint(k)
  BY <1>2 DEF TypeOK, WriteMint, Mints, money
<1>3. CASE RecordMint(k)
  BY <1>3 DEF TypeOK, RecordMint, Mints, Rows, money
<1>4. CASE UndoMint(k)
  BY <1>4 DEF TypeOK, UndoMint, Mints, money
<1>5. CASE Revoke(k)
  BY <1>5 DEF TypeOK, Revoke
<1> QED
  BY <1>1, <1>2, <1>3, <1>4, <1>5

LEMMA OperatorType == TypeOK /\ Operator => TypeOK'
BY DEF TypeOK, Operator, OperatorOff, OperatorOn, money

LEMMA TypeStep == TypeOK /\ [Next]_vars => TypeOK'
<1>1. ASSUME TypeOK, UNCHANGED vars PROVE TypeOK'
  BY <1>1 DEF TypeOK, vars
<1> QED
  BY <1>1, AccountsType, KeyCallsType, OperatorType, RoundType DEF Next

(* The reconcile rounds, key calls, accounts and the operator keep the     *)
(* state well typed, for any keys, users and portal instances.             *)
THEOREM TypeCorrect == Spec => []TypeOK
BY TypeInit, TypeStep, PTL DEF Spec

-----------------------------------------------------------------------------
(* One portal instance.  With a single p, Ours and the invariant speak of  *)
(* sweep[p] alone; these are their parts in that form.                     *)

Listed(p) == (table \cup sweep[p].add) \ sweep[p].remove

POwned(p) ==
  \A k \in Keys : mint[k] = "handed" /\ conf[k] = "off" /\ k \notin held => k \in Listed(p)

PRemoved(p) ==
  \A k \in Keys : k \in sweep[p].remove => conf[k] # "off" \/ k \in held

PFresh(p) ==
  \A k \in Keys : mint[k] \in {"none", "writeOn", "writeOff"} =>
    /\ conf[k] = "absent" /\ k \notin table
    /\ k \notin sweep[p].off /\ k \notin sweep[p].add /\ k \notin sweep[p].remove

PSnapshot(p) == sweep[p].off \subseteq Listed(p)

PHeldFree(p) ==
  \A k \in heldFree : conf[k] = "off" /\ mint[k] # "record" /\ k \notin Listed(p)

Parts(p) == POwned(p) /\ PRemoved(p) /\ PFresh(p) /\ PSnapshot(p) /\ PHeldFree(p)

LEMMA OursOfOne ==
  ASSUME NEW p, Portals = {p}
  PROVE Ours = Listed(p) \cup {k \in Keys : mint[k] = "record"}
<1>1. /\ UNION {sweep[i].add : i \in Portals} = sweep[p].add
      /\ UNION {sweep[i].remove : i \in Portals} = sweep[p].remove
  OBVIOUS
<1> QED
  BY <1>1 DEF Ours, Listed

LEMMA InvOfOne ==
  ASSUME NEW p, Portals = {p}, TypeOK
  PROVE SwitchInv <=> Parts(p)
<1>1. OwnershipKept <=> POwned(p)
  BY OursOfOne DEF OwnershipKept, POwned, TypeOK
<1>2. RemovedNotOff <=> PRemoved(p)
  BY DEF RemovedNotOff, PRemoved
<1>3. FreshUnlisted <=> PFresh(p)
  BY DEF FreshUnlisted, PFresh, Fresh
<1>4. SnapshotHolds <=> PSnapshot(p)
  BY DEF SnapshotHolds, PSnapshot, Listed
<1>5. HeldFreeStays <=> PHeldFree(p)
  BY OursOfOne DEF HeldFreeStays, PHeldFree, TypeOK
<1> QED
  BY <1>1, <1>2, <1>3, <1>4, <1>5 DEF SwitchInv, Parts

LEMMA PartsInit ==
  ASSUME NEW p, Portals = {p}, Init PROVE Parts(p)
<1>1. PICK existing \in SUBSET Keys, off \in SUBSET Keys :
        /\ off \subseteq existing
        /\ conf = [k \in Keys |-> IF k \in off THEN "off"
                                  ELSE IF k \in existing THEN "on" ELSE "absent"]
        /\ mint = [k \in Keys |-> IF k \in existing THEN "handed" ELSE "none"]
        /\ held = off /\ heldFree = off
  BY DEF Init
<1>2. /\ table = {Unseeded} /\ Unseeded \notin Keys
      /\ sweep[p].off = {} /\ sweep[p].add = {} /\ sweep[p].remove = {}
  BY KeySwitchAssumption DEF Init, NoRound
<1>3. Listed(p) = {Unseeded}
  BY <1>2 DEF Listed
<1>4. POwned(p)
  BY <1>1 DEF POwned
<1>5. PRemoved(p) /\ PSnapshot(p)
  BY <1>2 DEF PRemoved, PSnapshot
<1>6. PFresh(p)
  BY <1>1, <1>2 DEF PFresh
<1>7. PHeldFree(p)
  BY <1>1, <1>2, <1>3 DEF PHeldFree
<1> QED
  BY <1>4, <1>5, <1>6, <1>7 DEF Parts

\* Steps that leave the switch alone and at most read the table.
LEMMA QuietParts ==
  ASSUME NEW p, Parts(p),
         UNCHANGED <<conf, table, mint, held, heldFree>>,
         sweep'[p].add = sweep[p].add, sweep'[p].remove = sweep[p].remove,
         \/ sweep'[p].off = sweep[p].off
         \/ sweep'[p].off = {}
         \/ sweep'[p].off = Listed(p)
  PROVE Parts(p)'
<1>1. Listed(p)' = Listed(p)
  BY DEF Listed
<1>2. POwned(p)' /\ PRemoved(p)' /\ PHeldFree(p)'
  BY <1>1 DEF Parts, POwned, PRemoved, PHeldFree
<1>3. PSnapshot(p)'
  BY <1>1 DEF Parts, PSnapshot
<1>4. PFresh(p)'
  BY DEF Parts, PFresh, Listed
<1> QED
  BY <1>2, <1>3, <1>4 DEF Parts

LEMMA AccountsParts ==
  ASSUME NEW p, Parts(p), Accounts PROVE Parts(p)'
<1>1. UNCHANGED <<conf, table, mint, sweep, held, heldFree>>
  BY DEF Accounts, SetBroke, Grant, Suspend, SetOverspent
<1> QED
  BY <1>1, QuietParts

\* The steps of a round that only read, and the ones that fail.
LEMMA ReadParts ==
  ASSUME NEW p, Portals = {p}, TypeOK, Parts(p),
         \/ ReadExhausted(p) \/ ReadBalances(p) \/ ReadTable(p) \/ RoundFails(p)
         \/ EditFails(p) \/ RecordFails(p)
         \/ \E unread \in SUBSET Users : BeginRound(p, unread)
  PROVE Parts(p)'
<1>1. sweep[p] \in Sweeps /\ sweep \in [Portals -> Sweeps]
  BY DEF TypeOK
<1>2. ASSUME NEW from, NEW rec, Advance(p, from, rec)
      PROVE sweep'[p] = rec /\ UNCHANGED <<conf, table, mint, held, heldFree>>
  BY <1>1, <1>2 DEF Advance
<1>3. CASE ReadExhausted(p)
  <2>1. sweep'[p] = [sweep[p] EXCEPT !.pc = "balances", !.exhausted = overspent]
    BY <1>2, <1>3, Zenon DEF ReadExhausted
  <2>2. UNCHANGED <<conf, table, mint, held, heldFree>>
    BY <1>2, <1>3, Zenon DEF ReadExhausted
  <2>3. /\ sweep'[p].add = sweep[p].add /\ sweep'[p].remove = sweep[p].remove
        /\ sweep'[p].off = sweep[p].off
    BY <1>1, <2>1 DEF Sweeps
  <2> QED
    BY <2>2, <2>3, QuietParts
<1>4. CASE ReadBalances(p)
  <2>1. sweep'[p] = [sweep[p] EXCEPT !.pc = "table",
                                     !.wanted = sweep[p].disabled \cup broke]
    BY <1>2, <1>4, Zenon DEF ReadBalances
  <2>2. UNCHANGED <<conf, table, mint, held, heldFree>>
    BY <1>2, <1>4, Zenon DEF ReadBalances
  <2>3. /\ sweep'[p].add = sweep[p].add /\ sweep'[p].remove = sweep[p].remove
        /\ sweep'[p].off = sweep[p].off
    BY <1>1, <2>1 DEF Sweeps
  <2> QED
    BY <2>2, <2>3, QuietParts
<1>5. CASE ReadTable(p)
  <2>1. sweep'[p] = [sweep[p] EXCEPT !.pc = "edit", !.off = Listed(p)]
    BY <1>2, <1>5, Zenon DEF ReadTable, Listed
  <2>2. UNCHANGED <<conf, table, mint, held, heldFree>>
    BY <1>2, <1>5, Zenon DEF ReadTable
  <2>3. /\ sweep'[p].add = sweep[p].add /\ sweep'[p].remove = sweep[p].remove
        /\ sweep'[p].off = Listed(p)
    BY <1>1, <2>1 DEF Sweeps
  <2> QED
    BY <2>2, <2>3, QuietParts
<1>6. ASSUME NEW unread \in SUBSET Users, BeginRound(p, unread) PROVE Parts(p)'
  <2>1. sweep'[p] = [sweep[p] EXCEPT !.pc = "exhausted", !.disabled = suspended,
                                     !.unread = unread]
    BY <1>2, <1>6, Zenon DEF BeginRound
  <2>2. UNCHANGED <<conf, table, mint, held, heldFree>>
    BY <1>2, <1>6, Zenon DEF BeginRound
  <2>3. /\ sweep'[p].add = sweep[p].add /\ sweep'[p].remove = sweep[p].remove
        /\ sweep'[p].off = sweep[p].off
    BY <1>1, <2>1 DEF Sweeps
  <2> QED
    BY <2>2, <2>3, QuietParts
<1>7. CASE RoundFails(p) \/ EditFails(p) \/ RecordFails(p)
  <2>1. /\ sweep'[p] = [NoRound EXCEPT !.add = sweep[p].add, !.remove = sweep[p].remove]
        /\ UNCHANGED <<conf, table, mint, held, heldFree>>
    BY <1>2, <1>7, Zenon DEF RoundFails, EditFails, RecordFails
  <2>2. /\ sweep'[p].add = sweep[p].add /\ sweep'[p].remove = sweep[p].remove
        /\ sweep'[p].off = {}
    BY <2>1 DEF NoRound
  <2> QED
    BY <2>1, <2>2, QuietParts
<1> QED
  BY <1>3, <1>4, <1>5, <1>6, <1>7

\* The edit: what it switches off becomes listed, what it sees on is dropped.
LEMMA EditKeysParts ==
  ASSUME NEW p, Portals = {p}, TypeOK, Parts(p), EditKeys(p)
  PROVE Parts(p)'
<1>1. /\ sweep'[p].add = NewAdd(p) /\ sweep'[p].remove = NewRemove(p)
      /\ sweep'[p].off = {}
  <2>1. sweep'[p] = AfterEdit(p)
    BY EditKeysSteps DEF TypeOK
  <2> QED
    BY <2>1 DEF AfterEdit, NoRound
<1>2. /\ table' = table /\ mint' = mint /\ conf' = NewConf(p)
      /\ held' = held \ Flips(p) /\ heldFree' = heldFree \ Flips(p)
  BY EditKeysSteps
<1>3. ASSUME NEW k \in Keys, k \notin Flips(p)
      PROVE conf'[k] = conf[k] /\ k \notin Added(p)
  BY <1>2, <1>3 DEF NewConf, Added
<1>4. ASSUME NEW k \in Flips(p)
      PROVE /\ k \in Keys /\ conf[k] \in {"on", "off"}
            /\ conf[k] = "off" => conf'[k] = "on" /\ k \in sweep[p].off
            /\ conf'[k] = "off" => k \in Added(p)
            /\ k \in Added(p) => conf'[k] = "off"
  <2>1. k \in Keys /\ conf[k] \in {"on", "off"}
    BY <1>4 DEF Flips
  <2>2. conf[k] = "off" => k \in sweep[p].off
    BY <1>4 DEF Flips, MayFlip
  <2> QED
    BY <1>2, <2>1, <2>2 DEF NewConf, Added
<1>5. \A k \in Removed(p) : k \in sweep[p].off /\ (k \in Keys => conf'[k] # "off")
  BY <1>2, KeySwitchAssumption DEF Removed
<1>6. Listed(p)' = (table \cup NewAdd(p)) \ NewRemove(p)
  BY <1>1, <1>2 DEF Listed
<1>7. POwned(p)'
  <2> SUFFICES ASSUME NEW k \in Keys, mint[k] = "handed", conf'[k] = "off",
                      k \notin held'
               PROVE k \in Listed(p)'
    BY <1>2 DEF POwned
  <2>1. k \notin Removed(p)
    BY <1>5
  <2>2. CASE k \in Flips(p)
    BY <1>4, <1>6, <2>1, <2>2 DEF NewAdd, NewRemove
  <2>3. CASE k \notin Flips(p)
    <3>1. k \in Listed(p)
      BY <1>2, <1>3, <2>3 DEF Parts, POwned
    <3> QED
      BY <3>1, <1>6, <2>1 DEF NewAdd, NewRemove, Listed
  <2> QED
    BY <2>2, <2>3
<1>8. PRemoved(p)'
  <2> SUFFICES ASSUME NEW k \in Keys, k \in NewRemove(p), conf'[k] = "off"
               PROVE k \in held'
    BY <1>1 DEF PRemoved
  <2>1. k \in sweep[p].remove /\ k \notin Added(p)
    BY <1>5 DEF NewRemove
  <2>2. k \notin Flips(p) /\ conf[k] = "off"
    BY <1>3, <1>4, <2>1
  <2> QED
    BY <1>2, <2>1, <2>2 DEF Parts, PRemoved
<1>9. PFresh(p)'
  <2> SUFFICES ASSUME NEW k \in Keys, mint[k] \in {"none", "writeOn", "writeOff"}
               PROVE /\ conf'[k] = "absent" /\ k \notin table
                     /\ k \notin NewAdd(p) /\ k \notin NewRemove(p)
    BY <1>1, <1>2 DEF PFresh
  <2>1. /\ conf[k] = "absent" /\ k \notin table /\ k \notin sweep[p].off
        /\ k \notin sweep[p].add /\ k \notin sweep[p].remove
    BY DEF Parts, PFresh
  <2>2. k \notin Flips(p)
    BY <1>4, <2>1
  <2> QED
    BY <1>3, <1>5, <2>1, <2>2 DEF NewAdd, NewRemove
<1>10. PSnapshot(p)'
  BY <1>1 DEF PSnapshot
<1>11. PHeldFree(p)'
  <2> SUFFICES ASSUME NEW k \in heldFree, k \notin Flips(p)
               PROVE conf'[k] = "off" /\ mint[k] # "record" /\ k \notin Listed(p)'
    BY <1>2 DEF PHeldFree
  <2>1. k \in Keys
    BY DEF TypeOK
  <2>2. conf[k] = "off" /\ mint[k] # "record" /\ k \notin Listed(p)
    BY DEF Parts, PHeldFree
  <2>3. conf'[k] = "off" /\ k \notin Added(p)
    BY <1>3, <2>1, <2>2
  <2> QED
    BY <1>6, <2>2, <2>3 DEF NewAdd, NewRemove, Listed
<1> QED
  BY <1>7, <1>8, <1>9, <1>10, <1>11 DEF Parts

\* The record: what was pending is now in the table, Listed stays.
LEMMA RecordOursParts ==
  ASSUME NEW p, Portals = {p}, TypeOK, Parts(p), RecordOurs(p)
  PROVE Parts(p)'
<1>1. /\ sweep'[p].add = {} /\ sweep'[p].remove = {} /\ sweep'[p].off = {}
      /\ table' = Listed(p)
      /\ UNCHANGED <<conf, mint, held, heldFree>>
  BY DEF TypeOK, RecordOurs, NoRound, Listed
<1>2. Listed(p)' = Listed(p)
  BY <1>1 DEF Listed
<1>3. POwned(p)' /\ PRemoved(p)' /\ PHeldFree(p)' /\ PSnapshot(p)'
  BY <1>1, <1>2 DEF Parts, POwned, PRemoved, PHeldFree, PSnapshot
<1>4. PFresh(p)'
  BY <1>1 DEF Parts, PFresh, Listed
<1> QED
  BY <1>3, <1>4 DEF Parts

LEMMA KeyCallsParts ==
  ASSUME NEW p, Portals = {p}, TypeOK, Parts(p), KeyCalls
  PROVE Parts(p)'
<1> PICK c \in Keys : \/ BeginMint(c) \/ WriteMint(c) \/ RecordMint(c)
                      \/ UndoMint(c) \/ Revoke(c)
  BY DEF KeyCalls
<1>0. sweep' = sweep /\ heldFree \subseteq Keys
  BY DEF BeginMint, WriteMint, RecordMint, UndoMint, Revoke, TypeOK
<1>1. CASE BeginMint(c)
  <2>1. /\ UNCHANGED <<conf, table, held, heldFree>> /\ mint[c] = "none"
        /\ \/ mint' = [mint EXCEPT ![c] = "writeOff"]
           \/ mint' = [mint EXCEPT ![c] = "writeOn"]
    BY <1>1 DEF BeginMint
  <2>2. Listed(p)' = Listed(p)
    BY <1>0, <2>1 DEF Listed
  <2>3. /\ mint'[c] \in {"writeOn", "writeOff"}
        /\ \A k \in Keys : k # c => mint'[k] = mint[k]
    BY <2>1 DEF TypeOK
  <2>4. POwned(p)' /\ PSnapshot(p)' /\ PRemoved(p)'
    BY <1>0, <2>1, <2>2, <2>3 DEF Parts, POwned, PRemoved, PSnapshot
  <2>5. PFresh(p)'
    BY <1>0, <2>1, <2>3 DEF Parts, PFresh
  <2>6. PHeldFree(p)'
    BY <1>0, <2>1, <2>2, <2>3 DEF Parts, PHeldFree
  <2> QED
    BY <2>4, <2>5, <2>6 DEF Parts
<1>2. CASE WriteMint(c)
  <2>1. UNCHANGED <<table, held, heldFree>> /\ mint[c] \in {"writeOn", "writeOff"}
    BY <1>2 DEF WriteMint
  <2>2. \A k \in Keys : k # c => mint'[k] = mint[k] /\ conf'[k] = conf[k]
    BY <1>2 DEF WriteMint, TypeOK
  <2>3. \/ mint'[c] = "handed" /\ conf'[c] = "on"
        \/ mint'[c] = "record"
        \/ mint'[c] = "failed" /\ conf'[c] = conf[c]
    BY <1>2 DEF WriteMint, TypeOK
  <2>4. Listed(p)' = Listed(p)
    BY <1>0, <2>1 DEF Listed
  <2>5. conf[c] = "absent" /\ c \notin sweep[p].remove
    BY <2>1 DEF Parts, PFresh
  <2>6. c \notin heldFree
    BY <2>5 DEF Parts, PHeldFree
  <2>7. POwned(p)'
    BY <2>1, <2>2, <2>3, <2>4 DEF Parts, POwned
  <2>8. PRemoved(p)'
    BY <1>0, <2>1, <2>2, <2>5 DEF Parts, PRemoved
  <2>9. PFresh(p)'
    BY <1>0, <2>1, <2>2, <2>3 DEF Parts, PFresh
  <2>10. PSnapshot(p)'
    BY <1>0, <2>4 DEF Parts, PSnapshot
  <2>11. PHeldFree(p)'
    BY <1>0, <2>1, <2>2, <2>4, <2>6 DEF Parts, PHeldFree
  <2> QED
    BY <2>7, <2>8, <2>9, <2>10, <2>11 DEF Parts
<1>3. CASE RecordMint(c)
  <2>1. UNCHANGED <<conf, held, heldFree>> /\ mint[c] = "record"
    BY <1>3 DEF RecordMint
  <2>2. \A k \in Keys : k # c => mint'[k] = mint[k]
    BY <1>3 DEF RecordMint, TypeOK
  <2>3. \/ mint'[c] = "handed" /\ table' = table \cup {c}
        \/ mint'[c] = "undo" /\ table' = table
    BY <1>3 DEF RecordMint, TypeOK
  <2>4. c \notin heldFree
    BY <2>1 DEF Parts, PHeldFree
  <2>5. /\ Listed(p) \subseteq Listed(p)'
        /\ \A k : k # c /\ k \in Listed(p)' => k \in Listed(p)
        /\ mint'[c] = "handed" /\ c \notin sweep[p].remove => c \in Listed(p)'
    BY <1>0, <2>3 DEF Listed
  <2>6. POwned(p)'
    <3> SUFFICES ASSUME NEW k \in Keys, mint'[k] = "handed", conf[k] = "off", k \notin held
                 PROVE k \in Listed(p)'
      BY <2>1 DEF POwned
    <3>1. CASE k = c
      BY <2>5, <3>1 DEF Parts, PRemoved
    <3>2. CASE k # c
      BY <2>2, <2>5, <3>2 DEF Parts, POwned
    <3> QED
      BY <3>1, <3>2
  <2>7. PRemoved(p)'
    BY <1>0, <2>1 DEF Parts, PRemoved
  <2>8. PFresh(p)'
    BY <1>0, <2>1, <2>2, <2>3 DEF Parts, PFresh
  <2>9. PSnapshot(p)'
    BY <1>0, <2>5 DEF Parts, PSnapshot
  <2>10. PHeldFree(p)'
    BY <1>0, <2>1, <2>2, <2>4, <2>5 DEF Parts, PHeldFree
  <2> QED
    BY <2>6, <2>7, <2>8, <2>9, <2>10 DEF Parts
<1>4. CASE UndoMint(c)
  <2>1. /\ table' = table /\ mint[c] = "undo" /\ mint'[c] = "failed"
        /\ \A k \in Keys : k # c => mint'[k] = mint[k]
    BY <1>4 DEF UndoMint, TypeOK
  <2>2. \/ /\ conf'[c] = "absent"
           /\ \A k \in Keys : k # c => conf'[k] = conf[k]
           /\ held' = held \ {c} /\ heldFree' = heldFree \ {c}
        \/ conf' = conf /\ held' = held /\ heldFree' = heldFree
    BY <1>4 DEF UndoMint, TypeOK
  <2>3. Listed(p)' = Listed(p)
    BY <1>0, <2>1 DEF Listed
  <2>4. POwned(p)' /\ PSnapshot(p)'
    BY <1>0, <2>1, <2>2, <2>3 DEF Parts, POwned, PSnapshot
  <2>5. PRemoved(p)'
    BY <1>0, <2>2 DEF Parts, PRemoved
  <2>6. PFresh(p)'
    BY <1>0, <2>1, <2>2 DEF Parts, PFresh
  <2>7. PHeldFree(p)'
    BY <1>0, <2>1, <2>2, <2>3 DEF Parts, PHeldFree
  <2> QED
    BY <2>4, <2>5, <2>6, <2>7 DEF Parts
<1>5. CASE Revoke(c)
  <2>1. /\ conf[c] # "absent" /\ conf'[c] = "absent"
        /\ \A k \in Keys : k # c => conf'[k] = conf[k]
        /\ held' = held \ {c} /\ heldFree' = heldFree \ {c}
        /\ UNCHANGED <<table, mint>>
    BY <1>5 DEF Revoke, TypeOK
  <2>2. Listed(p)' = Listed(p)
    BY <1>0, <2>1 DEF Listed
  <2>3. POwned(p)' /\ PSnapshot(p)'
    BY <1>0, <2>1, <2>2 DEF Parts, POwned, PSnapshot
  <2>4. PRemoved(p)'
    BY <1>0, <2>1 DEF Parts, PRemoved
  <2>5. PFresh(p)'
    BY <1>0, <2>1 DEF Parts, PFresh
  <2>6. PHeldFree(p)'
    BY <1>0, <2>1, <2>2 DEF Parts, PHeldFree
  <2> QED
    BY <2>3, <2>4, <2>5, <2>6 DEF Parts
<1> QED
  BY <1>1, <1>2, <1>3, <1>4, <1>5

LEMMA OperatorParts ==
  ASSUME NEW p, Portals = {p}, TypeOK, Parts(p), Operator
  PROVE Parts(p)'
<1>0. /\ UNCHANGED <<table, mint, sweep>> /\ heldFree \subseteq Keys
      /\ Listed(p)' = Listed(p)
  BY DEF Operator, OperatorOff, OperatorOn, TypeOK, Listed
<1>1. ASSUME NEW c \in Keys, OperatorOff(c) PROVE Parts(p)'
  <2>1. /\ conf[c] = "on" /\ conf'[c] = "off"
        /\ \A k \in Keys : k # c => conf'[k] = conf[k]
        /\ held' = held \cup {c}
        /\ heldFree' = IF c \in Ours THEN heldFree ELSE heldFree \cup {c}
    BY <1>1 DEF OperatorOff, TypeOK
  <2>2. POwned(p)' /\ PSnapshot(p)'
    BY <1>0, <2>1 DEF Parts, POwned, PSnapshot
  <2>3. PRemoved(p)'
    BY <1>0, <2>1 DEF Parts, PRemoved
  <2>4. PFresh(p)'
    BY <1>0, <2>1 DEF Parts, PFresh
  <2>5. c \notin Ours => mint[c] # "record" /\ c \notin Listed(p)
    BY OursOfOne
  <2>6. PHeldFree(p)'
    BY <1>0, <2>1, <2>5 DEF Parts, PHeldFree
  <2> QED
    BY <2>2, <2>3, <2>4, <2>6 DEF Parts
<1>2. ASSUME NEW c \in Keys, OperatorOn(c) PROVE Parts(p)'
  <2>1. /\ conf[c] = "off" /\ conf'[c] = "on"
        /\ \A k \in Keys : k # c => conf'[k] = conf[k]
        /\ held' = held \ {c} /\ heldFree' = heldFree \ {c}
    BY <1>2 DEF OperatorOn, TypeOK
  <2>2. POwned(p)' /\ PSnapshot(p)'
    BY <1>0, <2>1 DEF Parts, POwned, PSnapshot
  <2>3. PRemoved(p)'
    BY <1>0, <2>1 DEF Parts, PRemoved
  <2>4. PFresh(p)'
    BY <1>0, <2>1 DEF Parts, PFresh
  <2>5. PHeldFree(p)'
    BY <1>0, <2>1 DEF Parts, PHeldFree
  <2> QED
    BY <2>2, <2>3, <2>4, <2>5 DEF Parts
<1> QED
  BY <1>1, <1>2 DEF Operator

LEMMA PartsStep ==
  ASSUME NEW p, Portals = {p}, TypeOK, Parts(p), [Next]_vars
  PROVE Parts(p)'
<1>1. CASE UNCHANGED vars
  BY <1>1, QuietParts DEF vars
<1>2. ASSUME NEW i \in Portals, Round(i) PROVE Parts(p)'
  <2>1. Round(p)
    BY <1>2
  <2> QED
    BY <2>1, ReadParts, EditKeysParts, RecordOursParts DEF Round, Proceed
<1> QED
  BY <1>1, <1>2, AccountsParts, KeyCallsParts, OperatorParts DEF Next

\* SwitchInv is inductive with one portal instance.
LEMMA SwitchInvariant ==
  ASSUME NEW p, Portals = {p}
  PROVE Spec => []SwitchInv
<1>1. Init => TypeOK /\ Parts(p)
  BY TypeInit, PartsInit
<1>2. TypeOK /\ Parts(p) /\ [Next]_vars => TypeOK' /\ Parts(p)'
  BY TypeStep, PartsStep
<1>3. TypeOK /\ Parts(p) => SwitchInv
  BY InvOfOne
<1> QED
  BY <1>1, <1>2, <1>3, PTL DEF Spec

(* With one portal instance, any number of keys and users, and every read, *)
(* edit and table write free to fail: a handed-out key that is off, and    *)
(* not by the operator, is in portal_disabled_keys or in pending_ours.     *)
THEOREM PortalRemembers ==
  ASSUME NEW p, Portals = {p}
  PROVE Spec => []OwnershipKept
<1>1. SwitchInv => OwnershipKept
  BY DEF SwitchInv
<1> QED
  BY <1>1, SwitchInvariant, PTL

(* With one portal instance, no step but the operator's own switches on a  *)
(* key that he switched off when it was not on the portal's list.          *)
THEOREM OperatorKeepsFreeKeys ==
  ASSUME NEW p, Portals = {p}
  PROVE Spec => FreeHoldRespected
<1> DEFINE Respected == \A k \in heldFree : conf'[k] = "on" => OperatorOn(k)
<1>1. ASSUME SwitchInv, [Next]_vars PROVE [Respected]_vars
  <2> SUFFICES ASSUME Next, NEW k \in heldFree, conf'[k] = "on"
               PROVE OperatorOn(k)
    BY <1>1
  <2>1. TypeOK /\ Parts(p)
    BY <1>1, InvOfOne DEF SwitchInv
  <2>2. k \in Keys /\ conf[k] = "off" /\ k \notin Listed(p)
    BY <2>1 DEF TypeOK, Parts, PHeldFree
  <2>3. ~Accounts
    BY <2>2 DEF Accounts, SetBroke, Grant, Suspend, SetOverspent
  <2>4. ~KeyCalls
    <3> SUFFICES ASSUME KeyCalls PROVE FALSE
      OBVIOUS
    <3> PICK c \in Keys : \/ BeginMint(c) \/ WriteMint(c) \/ RecordMint(c)
                          \/ UndoMint(c) \/ Revoke(c)
      BY DEF KeyCalls
    <3>1. WriteMint(c) => conf[c] = "absent"
      BY <2>1 DEF WriteMint, Parts, PFresh
    <3> QED
      BY <2>1, <2>2, <3>1 DEF BeginMint, WriteMint, RecordMint, UndoMint, Revoke, TypeOK
  <2>5. ASSUME NEW i \in Portals, Round(i) PROVE FALSE
    <3>1. i = p
      OBVIOUS
    <3>2. CASE EditKeys(p)
      <4>1. k \in Flips(p)
        BY <2>2, <3>2, EditKeysSteps DEF NewConf
      <4>2. k \in sweep[p].off
        BY <2>2, <4>1 DEF Flips, MayFlip
      <4> QED
        BY <2>1, <2>2, <4>2 DEF Parts, PSnapshot
    <3>3. CASE ~EditKeys(p)
      <4>0. \A from, rec : Advance(p, from, rec) => conf' = conf
        BY DEF Advance
      <4>1. conf' = conf
        BY <2>5, <3>1, <3>3, <4>0, Zenon
           DEF Round, Proceed, ReadExhausted, ReadBalances, ReadTable, RoundFails,
               EditFails, RecordOurs, RecordFails, BeginRound
      <4> QED
        BY <2>2, <4>1
    <3> QED
      BY <3>2, <3>3
  <2>6. PICK c \in Keys : OperatorOff(c) \/ OperatorOn(c)
    BY <2>3, <2>4, <2>5 DEF Next, Operator
  <2>7. c = k /\ OperatorOn(c)
    BY <2>1, <2>2, <2>6 DEF OperatorOff, OperatorOn, TypeOK
  <2> QED
    BY <2>7
<1> QED
  BY <1>1, SwitchInvariant, PTL DEF Spec, FreeHoldRespected

=============================================================================
