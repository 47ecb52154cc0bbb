---------------------------- MODULE PropertyLedger ----------------------------
(***************************************************************************)
(* The property entries of the additive kind implement the ledger of       *)
(* contributions, next to entries of every other kind: slot search, index  *)
(* reuse, stale slot values and the rebuild from scratch are invisible to  *)
(* a reader.                                                               *)
(***************************************************************************)
EXTENDS PropertyContributions

Additive == {c \in Cell : KindOf[c] = 3}

LedgerView ==
  [m \in Owner |-> [i \in DOMAIN records[m] |->
     [cell |-> records[m][i][1],
      value |-> value[records[m][i][1]][records[m][i][2]]]]]

(* The base is slot 0 and what callers of the component primitives hold.   *)
BaseView ==
  [c \in Additive |->
     SumFunctionOnSet(value[c], {s \in active[c] : s = 0 \/ <<c, s>> \in held})]

EffectiveView == [c \in Additive |-> shown[c]]

(* The cells a target list reaches before a bad target stops it.           *)
ReachedLists ==
  UNION {{SubSeq(targets, 1, n) : n \in {k \in 1 .. Len(targets) : Reaches(targets, k)}}
         : targets \in TargetLists}

Ledger == INSTANCE ContributionLedger
  WITH ledger <- LedgerView, base <- BaseView, effective <- EffectiveView,
       Lists <- ReachedLists \cup {<<c>> : c \in Cell},
       Start <- [c \in Additive |-> BaseOf[c]]

(* Whatever slots the contributions land in, and however often indices are *)
(* freed and reused in between, readers see each modifier's contributions  *)
(* come, change and go by exactly their amounts.                           *)
ImplementsLedger == Ledger!LedgerSpec
=============================================================================
