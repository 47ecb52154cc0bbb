-------------------------- MODULE ContributionLedger --------------------------
(***************************************************************************)
(* What the property runtime promises for an additive property, without    *)
(* slots: every modifier has a list of contributions, the effective value  *)
(* of an additive cell moves by exactly what is contributed, revised or    *)
(* withdrawn, and a base amount can be replaced underneath.                *)
(***************************************************************************)
EXTENDS Integers, Sequences, FiniteSets, Functions

CONSTANTS Cell,     \* what is contributed to
          Additive, \* the cells whose contributions add up
          Owner,    \* who contributes
          Values,   \* contributed amounts
          Lists,    \* the cells one task contributes to, in order
          Start     \* effective value of each additive cell at the start

VARIABLES ledger,    \* the contributions of each owner, oldest first
          base,      \* the base amount of each additive cell
          effective  \* the value readers of an additive cell see

ledgerVars == <<ledger, base, effective>>

Init ==
  /\ ledger = [m \in Owner |-> <<>>]
  /\ base = [c \in Additive |-> 0]
  /\ effective = Start

AmountTo(c, contributions) ==
  SumFunctionOnSet([i \in DOMAIN contributions |-> contributions[i].value],
                   {i \in DOMAIN contributions : contributions[i].cell = c})

Contribute(m, v, cells) ==
  LET new == [i \in DOMAIN cells |-> [cell |-> cells[i], value |-> v]]
  IN /\ ledger' = [ledger EXCEPT ![m] = @ \o new]
     /\ effective' = [c \in Additive |-> effective[c] + AmountTo(c, new)]
     /\ UNCHANGED base

(* The oldest contribution of m to c becomes v.                            *)
Revise(m, c, v) ==
  \E i \in DOMAIN ledger[m] :
    /\ ledger[m][i].cell = c
    /\ \A j \in 1 .. i - 1 : ledger[m][j].cell # c
    /\ ledger' = [ledger EXCEPT ![m][i].value = v]
    /\ effective' = [d \in Additive |-> IF d = c THEN effective[d] - ledger[m][i].value + v
                                               ELSE effective[d]]
    /\ UNCHANGED base

Withdraw(m) ==
  /\ ledger' = [ledger EXCEPT ![m] = <<>>]
  /\ effective' = [c \in Additive |-> effective[c] - AmountTo(c, ledger[m])]
  /\ UNCHANGED base

SetBase(c) ==
  /\ base'[c] \in Int
  /\ base' = [base EXCEPT ![c] = base'[c]]
  /\ effective' = [effective EXCEPT ![c] = @ - base[c] + base'[c]]
  /\ UNCHANGED ledger

Next ==
  \/ \E m \in Owner, v \in Values :
       \/ \E cells \in Lists : Contribute(m, v, cells)
       \/ \E c \in Cell : Revise(m, c, v)
  \/ \E m \in Owner : Withdraw(m)
  \/ \E c \in Additive : SetBase(c)

LedgerSpec == Init /\ [][Next]_ledgerVars
=============================================================================
