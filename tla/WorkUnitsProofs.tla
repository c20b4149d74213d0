-------------------------- MODULE WorkUnitsProofs --------------------------
(***************************************************************************)
(* The work-unit lifecycle is safe: the three invariants of WorkUnits      *)
(* together are inductive.                                                 *)
(***************************************************************************)
EXTENDS WorkUnits, TLAPS

\* Every unit has an attempt: start_run turns a max_attempts of zero into the default.
BudgetOK == Budget \in Nat \ {0}

\* Shapes, as far as the proof needs them.
Shape ==
    /\ phase \in {"idle", "open", "closed", "cancelled"}
    /\ flight = [u \in DOMAIN flight |-> flight[u]]
    /\ tried = [u \in DOMAIN tried |-> tried[u]]
    /\ log \in Seq(finished)

UnitInv == Shape /\ Apart /\ LoggedOnce /\ WithinBudget

LEMMA UnitInvInit == Init => UnitInv
BY DEF Init, UnitInv, Shape, Apart, LoggedOnce, WithinBudget

\* A unit that may be handed out has attempts left.
LEMMA MayBeTried ==
    ASSUME BudgetOK, UnitInv, phase = "open", NEW gone, NEW fin, Settles(gone, fin), NEW u,
           u \notin finished \cup fin \cup (DOMAIN flight \ gone)
    PROVE  Tried(u) + 1 \in 1..Budget
<1>1. CASE u \notin DOMAIN tried
  BY <1>1 DEF BudgetOK, Tried
<1>2. CASE u \in DOMAIN tried
  <2>1. tried[u] \in 1..Budget
    BY <1>2 DEF UnitInv, WithinBudget
  <2>2. tried[u] # Budget
    <3>1. CASE u \in DOMAIN flight
      BY <3>1 DEF BudgetOK, UnitInv, WithinBudget, Settles
    <3>2. CASE u \notin DOMAIN flight
      BY <1>2, <3>2 DEF UnitInv, WithinBudget
    <3> QED BY <3>1, <3>2
  <2> QED BY <1>2, <2>1, <2>2 DEF BudgetOK, Tried
<1> QED BY <1>1, <1>2

LEMMA SettleKeeps ==
    ASSUME BudgetOK, UnitInv, NEW gone, NEW fin, Settle(gone, fin)
    PROVE  UnitInv'
<1> USE DEF Settle, Settles
<1>1. Shape'
  <2>1. log' \in Seq(finished')
    BY DEF UnitInv, Shape
  <2> QED BY <2>1 DEF UnitInv, Shape
<1>2. Apart'
  BY DEF UnitInv, Apart
<1>3. LoggedOnce'
  BY DEF UnitInv, LoggedOnce
<1>4. WithinBudget'
  BY DEF BudgetOK, UnitInv, WithinBudget
<1> QED BY <1>1, <1>2, <1>3, <1>4 DEF UnitInv

LEMMA CommitKeeps ==
    ASSUME BudgetOK, UnitInv, NEW gone, NEW fin, NEW u \in fin, CommitUnit(gone, fin, u)
    PROVE  UnitInv'
<1> USE DEF CommitUnit, Settles
<1>1. Shape'
  <2>1. log \in Seq(finished') /\ u \in finished'
    BY DEF UnitInv, Shape
  <2>2. log' \in Seq(finished')
    BY <2>1
  <2> QED BY <2>2 DEF UnitInv, Shape
<1>2. Apart'
  BY DEF UnitInv, Apart
<1>3. LoggedOnce'
  <2>1. u \notin finished
    BY DEF UnitInv, Apart
  <2>2. log \in Seq(finished) /\ log' = Append(log, u)
    BY DEF UnitInv, Shape
  <2>3. \A j \in DOMAIN log : log[j] \in finished
    BY DEF UnitInv, LoggedOnce
  <2>4. /\ DOMAIN log' = DOMAIN log \cup {Len(log) + 1}
        /\ \A j \in DOMAIN log : log'[j] = log[j]
        /\ log'[Len(log) + 1] = u
        /\ Len(log) + 1 \notin DOMAIN log
    BY <2>2
  <2> QED BY <2>1, <2>3, <2>4 DEF UnitInv, LoggedOnce
<1>4. WithinBudget'
  BY DEF BudgetOK, UnitInv, WithinBudget
<1> QED BY <1>1, <1>2, <1>3, <1>4 DEF UnitInv

LEMMA HandOutKeeps ==
    ASSUME BudgetOK, UnitInv, NEW gone, NEW fin, NEW take, HandOut(gone, fin, take)
    PROVE  UnitInv'
<1> USE DEF HandOut, Settles
<1>1. Shape'
  <2>1. log' \in Seq(finished')
    BY DEF UnitInv, Shape
  <2> QED BY <2>1 DEF UnitInv, Shape
<1>2. Apart'
  BY DEF UnitInv, Apart
<1>3. LoggedOnce'
  BY DEF UnitInv, LoggedOnce
<1>4. WithinBudget'
  <2>1. \A u \in take : Tried(u) + 1 \in 1..Budget
    BY MayBeTried
  <2>2. DOMAIN flight' \subseteq DOMAIN tried'
    BY DEF UnitInv, WithinBudget
  <2>3. \A u \in DOMAIN flight' : flight'[u] = tried'[u]
    BY DEF UnitInv, WithinBudget
  <2>4. \A u \in DOMAIN tried' : tried'[u] \in 1..Budget
    BY <2>1 DEF UnitInv, WithinBudget
  <2>5. phase' # "cancelled" =>
          \A u \in DOMAIN tried' : tried'[u] = Budget => u \in DOMAIN flight' \cup finished'
    BY DEF BudgetOK, UnitInv, WithinBudget
  <2> QED BY <2>2, <2>3, <2>4, <2>5 DEF WithinBudget
<1> QED BY <1>1, <1>2, <1>3, <1>4 DEF UnitInv

LEMMA UnitInvNext == BudgetOK /\ UnitInv /\ [Next]_wvars => UnitInv'
<1> SUFFICES ASSUME BudgetOK, UnitInv, [Next]_wvars PROVE UnitInv'
  OBVIOUS
<1>1. CASE Start
  BY <1>1 DEF Start, UnitInv, Shape, Apart, LoggedOnce, WithinBudget
<1>2. CASE Cancel
  BY <1>2 DEF Cancel, UnitInv, Shape, Apart, LoggedOnce, WithinBudget
<1>3. CASE UNCHANGED wvars
  BY <1>3 DEF wvars, UnitInv, Shape, Apart, LoggedOnce, WithinBudget
<1> QED BY <1>1, <1>2, <1>3, SettleKeeps, CommitKeeps, HandOutKeeps DEF Next

\* The lifecycle keeps its units apart, commits each at most once and within its
\* budget, for every budget and every set of units.
THEOREM UnitSafety ==
    ASSUME BudgetOK
    PROVE  Spec => [](Apart /\ LoggedOnce /\ WithinBudget)
<1>1. UnitInv => Apart /\ LoggedOnce /\ WithinBudget
  BY DEF UnitInv
<1>2. UnitInv /\ [Next]_wvars => UnitInv'
  BY UnitInvNext
<1> QED BY <1>1, <1>2, UnitInvInit, PTL DEF Spec
=============================================================================
