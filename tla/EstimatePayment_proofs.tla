----------------------- MODULE EstimatePayment_proofs -----------------------
(***************************************************************************)
(* Proofs about EstimatePayment for every set of calls and charges, every  *)
(* price and all amounts: how sums over finite sets are computed, when     *)
(* amounts may move, what an answer settles, that the deposit, the balance *)
(* and the limit of the extra charges are kept, and that the estimate's    *)
(* row lives as EstimateLife says.                                         *)
(***************************************************************************)
EXTENDS EstimatePayment, FiniteSetTheorems, WellFoundedInduction, TLAPS

-----------------------------------------------------------------------------
(* Sums over finite sets.  SumFunctionOnSet is a CHOOSE of a recursive      *)
(* function on the subsets; a smallest subset without a property (the      *)
(* strict subsets of a finite set are well founded) stands for induction.  *)

\* The fold adds the value of one element to the sum over the others.
Pick(s) == CHOOSE x \in s : TRUE

Adds(g, f, S) ==
  g = [s \in SUBSET S |-> IF s = {} THEN 0 ELSE f[Pick(s)] + g[s \ {Pick(s)}]]

LEMMA SumIsFold ==
  ASSUME NEW f, NEW S
  PROVE  SumFunctionOnSet(f, S) = (CHOOSE g : Adds(g, f, S))[S]
BY DEF SumFunctionOnSet, FoldFunctionOnSet, MapThenFoldSet, Adds, Pick

LEMMA PickIsElement == ASSUME NEW s, s # {} PROVE Pick(s) \in s
BY DEF Pick

LEMMA LeastSubset ==
  ASSUME NEW S, IsFiniteSet(S), NEW B \in SUBSET SUBSET S, B # {}
  PROVE  \E T \in B : \A U \in SUBSET T : U # T => U \notin B
<1>1. IsWellFoundedOn(StrictSubsetOrdering(S), FiniteSubsetsOf(S))
  BY FS_StrictSubsetOrderingWellFounded
<1>2. \A T \in SUBSET S : IsFiniteSet(T)
  BY FS_Subset
<1>3. B \subseteq FiniteSubsetsOf(S)
  BY <1>2 DEF FiniteSubsetsOf
<1>4. PICK T \in B : \A U \in B : ~(<<U, T>> \in StrictSubsetOrdering(S))
  BY <1>1, <1>3, WFMin
<1>5. ASSUME NEW U \in SUBSET T, U # T, U \in B PROVE FALSE
  BY <1>4, <1>5 DEF StrictSubsetOrdering
<1> QED BY <1>5

LEMMA AddsUnique ==
  ASSUME NEW S, IsFiniteSet(S), NEW f, NEW g, NEW h, Adds(g, f, S), Adds(h, f, S)
  PROVE  \A T \in SUBSET S : g[T] = h[T]
<1> DEFINE B == {T \in SUBSET S : g[T] # h[T]}
<1> SUFFICES ASSUME B # {} PROVE FALSE
  OBVIOUS
<1>1. PICK T \in B : \A U \in SUBSET T : U # T => U \notin B
  <2> HIDE DEF B
  <2> SUFFICES B \in SUBSET SUBSET S BY LeastSubset
  <2> QED BY DEF B
<1>2. T \in SUBSET S /\ T # {}
  BY <1>1 DEF Adds
<1>3. Pick(T) \in T
  BY <1>2, PickIsElement
<1>4. T \ {Pick(T)} \in SUBSET T /\ T \ {Pick(T)} # T
  BY <1>3
<1>5. g[T \ {Pick(T)}] = h[T \ {Pick(T)}]
  BY <1>1, <1>2, <1>4
<1>6. g[T] = f[Pick(T)] + g[T \ {Pick(T)}] /\ h[T] = f[Pick(T)] + h[T \ {Pick(T)}]
  BY <1>2 DEF Adds
<1> QED BY <1>1, <1>5, <1>6

LEMMA AddsRestricted ==
  ASSUME NEW S, NEW T \in SUBSET S, NEW f, NEW g, Adds(g, f, S)
  PROVE  Adds([s \in SUBSET T |-> g[s]], f, T)
<1> DEFINE h == [s \in SUBSET T |-> g[s]]
<1>1. ASSUME NEW s \in SUBSET T
      PROVE  h[s] = IF s = {} THEN 0 ELSE f[Pick(s)] + h[s \ {Pick(s)}]
  <2>1. s \in SUBSET S /\ s \ {Pick(s)} \in SUBSET T
    OBVIOUS
  <2>2. g[s] = IF s = {} THEN 0 ELSE f[Pick(s)] + g[s \ {Pick(s)}]
    BY <2>1 DEF Adds
  <2> QED BY <2>1, <2>2
<1> QED BY <1>1 DEF Adds

LEMMA AddsPart ==
  ASSUME NEW S, IsFiniteSet(S), NEW T \in SUBSET S, NEW f, NEW g, NEW h,
         Adds(g, f, S), Adds(h, f, T)
  PROVE  h[T] = g[T]
<1>1. IsFiniteSet(T)
  BY FS_Subset
<1>2. Adds([s \in SUBSET T |-> g[s]], f, T)
  BY AddsRestricted
<1>3. h[T] = [s \in SUBSET T |-> g[s]][T]
  BY <1>1, <1>2, AddsUnique
<1> QED BY <1>3

LEMMA AddsExists ==
  ASSUME NEW S, IsFiniteSet(S), NEW f
  PROVE  \E g : Adds(g, f, S)
<1> DEFINE B == {T \in SUBSET S : ~ \E g : Adds(g, f, T)}
<1> SUFFICES ASSUME B # {} PROVE FALSE
  OBVIOUS
<1>1. PICK T \in B : \A U \in SUBSET T : U # T => U \notin B
  <2> HIDE DEF B
  <2> SUFFICES B \in SUBSET SUBSET S BY LeastSubset
  <2> QED BY DEF B
<1> DEFINE G(U) == CHOOSE g : Adds(g, f, U)
           h == [s \in SUBSET T |-> IF s = {} THEN 0
                                    ELSE f[Pick(s)] + G(s \ {Pick(s)})[s \ {Pick(s)}]]
<1>2. \A U \in SUBSET T : U # T => Adds(G(U), f, U)
  BY <1>1
<1>3. \A U \in SUBSET T : U # {} => Pick(U) \in U
  BY PickIsElement
<1>4. \A U \in SUBSET T : IsFiniteSet(U)
  BY <1>1, FS_Subset
<1>5. ASSUME NEW U \in SUBSET T, U # T
      PROVE  h[U] = G(U)[U]
  <2>1. Adds(G(U), f, U)
    BY <1>2, <1>5
  <2>2. CASE U = {}
    BY <2>1, <2>2 DEF Adds
  <2>3. CASE U # {}
    <3> DEFINE V == U \ {Pick(U)}
    <3>1. V \in SUBSET U /\ V # U /\ V \in SUBSET T /\ V # T
      BY <2>3, <1>3
    <3>2. Adds(G(V), f, V)
      BY <1>2, <3>1
    <3>3. IsFiniteSet(U)
      BY <1>4
    <3>4. G(V)[V] = G(U)[V]
      <4> HIDE DEF V, G, h
      <4> QED BY <2>1, <3>1, <3>2, <3>3, AddsPart
    <3>5. G(U)[U] = f[Pick(U)] + G(U)[V]
      BY <2>1, <2>3 DEF Adds
    <3> QED BY <2>3, <3>4, <3>5
  <2> QED BY <2>2, <2>3
<1>6. Adds(h, f, T)
  <2>1. ASSUME NEW s \in SUBSET T, s # {}
        PROVE  h[s] = f[Pick(s)] + h[s \ {Pick(s)}]
    <3>1. s \ {Pick(s)} \in SUBSET T /\ s \ {Pick(s)} # T
      BY <1>3, <2>1
    <3>2. h[s \ {Pick(s)}] = G(s \ {Pick(s)})[s \ {Pick(s)}]
      BY <1>5, <3>1
    <3>3. h[s] = f[Pick(s)] + G(s \ {Pick(s)})[s \ {Pick(s)}]
      BY <2>1
    <3> QED BY <3>2, <3>3
  <2>2. h[{}] = 0 /\ h = [s \in SUBSET T |-> h[s]]
    OBVIOUS
  <2> HIDE DEF h
  <2> QED BY <2>1, <2>2 DEF Adds
<1> QED BY <1>1, <1>6


LEMMA SumDef ==
  ASSUME NEW f, NEW S, IsFiniteSet(S)
  PROVE  /\ SumFunctionOnSet(f, {}) = 0
         /\ S # {} => /\ Pick(S) \in S
                      /\ SumFunctionOnSet(f, S)
                           = f[Pick(S)] + SumFunctionOnSet(f, S \ {Pick(S)})
<1> DEFINE C(T) == CHOOSE g : Adds(g, f, T)
<1>1. \A T : IsFiniteSet(T) => Adds(C(T), f, T)
  BY AddsExists
<1>2. \A T : SumFunctionOnSet(f, T) = C(T)[T]
  BY SumIsFold
<1> HIDE DEF C
<1>3. SumFunctionOnSet(f, {}) = 0
  <2>1. Adds(C({}), f, {})
    BY <1>1, FS_EmptySet
  <2> QED BY <2>1, <1>2 DEF Adds
<1>4. ASSUME S # {}
      PROVE  SumFunctionOnSet(f, S) = f[Pick(S)] + SumFunctionOnSet(f, S \ {Pick(S)})
  <2> DEFINE V == S \ {Pick(S)}
  <2>1. V \in SUBSET S /\ IsFiniteSet(V)
    BY FS_Subset
  <2>2. Adds(C(S), f, S) /\ Adds(C(V), f, V)
    BY <1>1, <2>1
  <2>4. C(V)[V] = C(S)[V]
    <3> HIDE DEF V
    <3> QED BY <2>1, <2>2, AddsPart
  <2>5. C(S)[S] = f[Pick(S)] + C(S)[V]
    BY <2>2, <1>4 DEF Adds
  <2> QED BY <1>2, <2>4, <2>5
<1> QED BY <1>3, <1>4, PickIsElement

\* A sum of natural numbers is one.
LEMMA SumNat ==
  ASSUME NEW f, NEW S, IsFiniteSet(S), \A x \in S : f[x] \in Nat
  PROVE  SumFunctionOnSet(f, S) \in Nat
<1> DEFINE B == {T \in SUBSET S : SumFunctionOnSet(f, T) \notin Nat}
<1> SUFFICES ASSUME B # {} PROVE FALSE
  OBVIOUS
<1>1. PICK T \in B : \A U \in SUBSET T : U # T => U \notin B
  <2> HIDE DEF B
  <2> SUFFICES B \in SUBSET SUBSET S BY LeastSubset
  <2> QED BY DEF B
<1>2. IsFiniteSet(T) /\ T \in SUBSET S
  BY <1>1, FS_Subset
<1>3. /\ SumFunctionOnSet(f, {}) = 0
      /\ T # {} => /\ Pick(T) \in T
                   /\ SumFunctionOnSet(f, T)
                        = f[Pick(T)] + SumFunctionOnSet(f, T \ {Pick(T)})
  BY <1>2, SumDef
<1>4. T # {}
  <2>1. SumFunctionOnSet(f, T) # 0
    BY <1>1
  <2> QED BY <2>1, <1>3, Zenon
<1>5. SumFunctionOnSet(f, T \ {Pick(T)}) \in Nat
  BY <1>1, <1>2, <1>3, <1>4
<1>6. f[Pick(T)] \in Nat
  BY <1>2, <1>3, <1>4
<1> QED BY <1>1, <1>3, <1>4, <1>5, <1>6

\* Any element can be taken out first.
LEMMA SumTakesOut ==
  ASSUME NEW f, NEW S, IsFiniteSet(S), \A x \in S : f[x] \in Nat, NEW x \in S
  PROVE  SumFunctionOnSet(f, S) = f[x] + SumFunctionOnSet(f, S \ {x})
<1> DEFINE Sum(T) == SumFunctionOnSet(f, T)
           B == {T \in SUBSET S : \E y \in T : Sum(T) # f[y] + Sum(T \ {y})}
<1> SUFFICES ASSUME B # {} PROVE FALSE
  OBVIOUS
<1>1. PICK T \in B : \A U \in SUBSET T : U # T => U \notin B
  <2> HIDE DEF B
  <2> SUFFICES B \in SUBSET SUBSET S BY LeastSubset
  <2> QED BY DEF B
<1>2. PICK y \in T : Sum(T) # f[y] + Sum(T \ {y})
  BY <1>1
<1>3. T \in SUBSET S /\ \A U \in SUBSET T : IsFiniteSet(U) /\ \A z \in U : f[z] \in Nat
  BY <1>1, FS_Subset
<1>4. Pick(T) \in T /\ Sum(T) = f[Pick(T)] + Sum(T \ {Pick(T)})
  BY <1>2, <1>3, SumDef
<1> DEFINE p == Pick(T)
           V == T \ {p, y}
<1>5. p # y /\ p \in T
  BY <1>2, <1>4
<1>6. Sum(T \ {p}) = f[y] + Sum(V)
  <2>1. (T \ {p}) \in SUBSET T /\ T \ {p} # T /\ y \in T \ {p} /\ V = (T \ {p}) \ {y}
    BY <1>5, <1>2
  <2>2. (T \ {p}) \in SUBSET S
    BY <1>3
  <2> HIDE DEF p, V, Sum
  <2> QED BY <1>1, <2>1, <2>2
<1>7. Sum(T \ {y}) = f[p] + Sum(V)
  <2>1. (T \ {y}) \in SUBSET T /\ T \ {y} # T /\ p \in T \ {y} /\ V = (T \ {y}) \ {p}
    BY <1>5, <1>2
  <2>2. (T \ {y}) \in SUBSET S
    BY <1>3
  <2> HIDE DEF p, V, Sum
  <2> QED BY <1>1, <2>1, <2>2
<1>8. f[p] \in Nat /\ f[y] \in Nat /\ Sum(V) \in Nat
  <2>1. V \in SUBSET T
    OBVIOUS
  <2>2. Sum(V) \in Nat
    <3> HIDE DEF V
    <3> QED BY <1>3, <2>1, SumNat
  <2> QED BY <1>2, <1>3, <1>5, <2>2
<1>9. Sum(T) = f[p] + Sum(T \ {p})
  BY <1>4
<1> HIDE DEF p, V, Sum, B
<1> QED BY <1>2, <1>6, <1>7, <1>8, <1>9

\* Only the values on the set count.
LEMMA SumSame ==
  ASSUME NEW f, NEW g, NEW S, IsFiniteSet(S), \A x \in S : f[x] = g[x]
  PROVE  SumFunctionOnSet(f, S) = SumFunctionOnSet(g, S)
<1> DEFINE B == {T \in SUBSET S : SumFunctionOnSet(f, T) # SumFunctionOnSet(g, T)}
<1> SUFFICES ASSUME B # {} PROVE FALSE
  OBVIOUS
<1>1. PICK T \in B : \A U \in SUBSET T : U # T => U \notin B
  <2> HIDE DEF B
  <2> SUFFICES B \in SUBSET SUBSET S BY LeastSubset
  <2> QED BY DEF B
<1>2. IsFiniteSet(T) /\ T \in SUBSET S
  BY <1>1, FS_Subset
<1>3. T # {}
  BY <1>1, SumDef, FS_EmptySet
<1> DEFINE V == T \ {Pick(T)}
<1>4. Pick(T) \in T /\ SumFunctionOnSet(f, T) = f[Pick(T)] + SumFunctionOnSet(f, V)
      /\ SumFunctionOnSet(g, T) = g[Pick(T)] + SumFunctionOnSet(g, V)
  BY <1>2, <1>3, SumDef
<1>5. SumFunctionOnSet(f, V) = SumFunctionOnSet(g, V)
  BY <1>1, <1>2, <1>4
<1>6. f[Pick(T)] = g[Pick(T)]
  BY <1>2, <1>4
<1> QED BY <1>1, <1>4, <1>5, <1>6

\* A sum of natural numbers is at least the sum over a part.
LEMMA SumGrows ==
  ASSUME NEW f, NEW S, IsFiniteSet(S), \A x \in S : f[x] \in Nat, NEW R \in SUBSET S
  PROVE  SumFunctionOnSet(f, R) <= SumFunctionOnSet(f, S)
<1> DEFINE Sum(T) == SumFunctionOnSet(f, T)
           B == {T \in SUBSET S : R \subseteq T /\ ~(Sum(R) <= Sum(T))}
<1> SUFFICES ASSUME B # {} PROVE FALSE
  OBVIOUS
<1>1. PICK T \in B : \A U \in SUBSET T : U # T => U \notin B
  <2> HIDE DEF B
  <2> SUFFICES B \in SUBSET SUBSET S BY LeastSubset
  <2> QED BY DEF B
<1>2. T \in SUBSET S /\ R \subseteq T /\ ~(Sum(R) <= Sum(T))
  BY <1>1
<1>3. \A U \in SUBSET T : IsFiniteSet(U) /\ Sum(U) \in Nat
  BY <1>2, FS_Subset, SumNat
<1>4. T # R
  BY <1>2, <1>3
<1>5. PICK x \in T : x \notin R
  BY <1>2, <1>4
<1>6. Sum(T) = f[x] + Sum(T \ {x})
  BY <1>2, <1>3, SumTakesOut
<1>7. Sum(R) <= Sum(T \ {x})
  <2>1. T \ {x} \in SUBSET T /\ T \ {x} # T /\ R \subseteq T \ {x} /\ T \ {x} \in SUBSET S
    BY <1>2, <1>5
  <2> HIDE DEF Sum
  <2> QED BY <1>1, <2>1
<1>8. f[x] \in Nat /\ Sum(T \ {x}) \in Nat /\ Sum(R) \in Nat
  BY <1>2, <1>3, <1>5
<1> HIDE DEF Sum, B
<1> QED BY <1>2, <1>6, <1>7, <1>8

-----------------------------------------------------------------------------
(* The inductive invariant.                                                *)

\* The columns, without the sums that calls carry.
ColumnsOK ==
  /\ status \in Statuses
  /\ deposit \in {"NONE", "DUE", "PAID"}
  /\ payment \in {"UNPAID", "PAID"}
  /\ requested \in BOOLEAN
  /\ asked \in [Stages -> Nat]
  /\ charge \in [Charges -> [status : {"NONE", "PROPOSED", "APPROVED", "REJECTED"},
                             amount : Amounts \cup {0}]]
  /\ charged = [t \in Types |-> charged[t]]
  /\ review \in BOOLEAN

\* What the operation of a call says of the rest of it.
CallShape(c) ==
  \/ c = Idle
  \/ \E t \in Types, a \in BOOLEAN :
       c = [op |-> "PAY", type |-> t, amount |-> c.amount, approved |-> a]
  \/ \E t \in Types, x \in {"PAID", "ALREADY_PAID", "PAYMENT_FAILED"} :
       c = [op |-> "ANSWERED", type |-> t, answer |-> x]
  \/ \E a \in Amounts : c = [op |-> "PROPOSE", amount |-> a, total |-> c.total]
  \/ \E x \in Charges, a \in Amounts :
       c = [op |-> "UPDATE", charge |-> x, amount |-> a, total |-> c.total]
  \/ \E cs \in SUBSET Charges, d \in {"APPROVED", "REJECTED"} :
       c = [op |-> "RESPOND", charges |-> cs, decision |-> d]

ShapesOK ==
  /\ call = [k \in Calls |-> call[k]]
  /\ \A k \in Calls : CallShape(call[k])

\* While a charge is being written the balance is not paid: the estimate's row
\* is locked from the condition to the commit.
WritersBeforePayment ==
  \A k \in Calls : call[k].op \in {"PROPOSE", "UPDATE"} => payment = "UNPAID"

\* An answer under way holds charges that wait for one, and no two hold the same.
AnswersHoldProposed ==
  /\ \A k \in Calls : call[k].op = "RESPOND" =>
       \A c \in call[k].charges : charge[c].status = "PROPOSED"
  /\ \A j, k \in Calls : call[j].op = "RESPOND" /\ call[k].op = "RESPOND" /\ j # k =>
       call[j].charges \cap call[k].charges = {}

\* The deposit's order number is charged with the deposit or not at all.
DepositCharged ==
  /\ charged["DEPOSIT"] \in {0, DepositAmount}
  /\ \A k \in Calls : call[k].op = "PAY" /\ call[k].type = "DEPOSIT" =>
       /\ call[k].amount = DepositAmount
       /\ call[k].approved => charged["DEPOSIT"] = DepositAmount
  /\ deposit = "PAID" => charged["DEPOSIT"] = DepositAmount

\* The request's mark belongs to the stage: none outside the two stages.
StageInv ==
  /\ status = "PENDING" => deposit = "NONE"
  /\ status = "PENDING" \/ (status = "CONFIRMED" /\ deposit # "DUE") => ~requested
  /\ status \in {"PENDING", "CONFIRMED"} => asked["BALANCE_DUE"] = 0
  /\ payment = "PAID" => status \notin {"PENDING", "CONFIRMED"}
  /\ OneRequestPerStage

ReviewInv == review <=> payment = "PAID"

IInv ==
  /\ ColumnsOK /\ ShapesOK
  /\ WritersBeforePayment /\ AnswersHoldProposed
  /\ DepositCharged /\ StageInv /\ ReviewInv

-----------------------------------------------------------------------------
(* Calls.                                                                  *)

LEMMA Fields ==
  ASSUME NEW c, CallShape(c)
  PROVE  /\ c.op \in {"IDLE", "PAY", "ANSWERED", "PROPOSE", "UPDATE", "RESPOND"}
         /\ c.op = "PAY" => c.type \in Types
         /\ c.op = "ANSWERED" => c.type \in Types
         /\ c.op = "PROPOSE" => c.amount \in Amounts
         /\ c.op = "UPDATE" => c.charge \in Charges /\ c.amount \in Amounts
         /\ c.op = "RESPOND" => /\ c.charges \in SUBSET Charges
                                /\ c.decision \in {"APPROVED", "REJECTED"}
<1>1. CASE c = Idle
  BY <1>1 DEF Idle
<1>2. ASSUME NEW t \in Types, NEW a \in BOOLEAN,
             c = [op |-> "PAY", type |-> t, amount |-> c.amount, approved |-> a]
      PROVE  c.op = "PAY" /\ c.type \in Types
  BY <1>2
<1>3. ASSUME NEW t \in Types, NEW x, c = [op |-> "ANSWERED", type |-> t, answer |-> x]
      PROVE  c.op = "ANSWERED" /\ c.type \in Types
  BY <1>3
<1>4. ASSUME NEW a \in Amounts, c = [op |-> "PROPOSE", amount |-> a, total |-> c.total]
      PROVE  c.op = "PROPOSE" /\ c.amount \in Amounts
  BY <1>4
<1>5. ASSUME NEW x \in Charges, NEW a \in Amounts,
             c = [op |-> "UPDATE", charge |-> x, amount |-> a, total |-> c.total]
      PROVE  c.op = "UPDATE" /\ c.charge \in Charges /\ c.amount \in Amounts
  BY <1>5
<1>6. ASSUME NEW cs \in SUBSET Charges, NEW d \in {"APPROVED", "REJECTED"},
             c = [op |-> "RESPOND", charges |-> cs, decision |-> d]
      PROVE  c.op = "RESPOND" /\ c.charges \in SUBSET Charges
             /\ c.decision \in {"APPROVED", "REJECTED"}
  BY <1>6
<1> QED BY <1>1, <1>2, <1>3, <1>4, <1>5, <1>6 DEF CallShape

LEMMA BecomeAt ==
  ASSUME ShapesOK, NEW k \in Calls, NEW c, call' = Become(k, c)
  PROVE  /\ call' = [j \in Calls |-> call'[j]]
         /\ call'[k] = c
         /\ \A j \in Calls : j # k => call'[j] = call[j]
BY DEF ShapesOK, Become

LEMMA BecomeShape ==
  ASSUME ShapesOK, NEW k \in Calls, NEW c, call' = Become(k, c), CallShape(c)
  PROVE  ShapesOK'
BY BecomeAt DEF ShapesOK

LEMMA PayShape ==
  ASSUME NEW c, CallShape(c), c.op = "PAY"
  PROVE  \E t \in Types, a \in BOOLEAN :
           c = [op |-> "PAY", type |-> t, amount |-> c.amount, approved |-> a]
<1>1. c # Idle
  BY DEF Idle
<1>2. \A t, x : c # [op |-> "ANSWERED", type |-> t, answer |-> x]
  OBVIOUS
<1>3. \A a \in Amounts : c # [op |-> "PROPOSE", amount |-> a, total |-> c.total]
  OBVIOUS
<1>4. \A x \in Charges, a \in Amounts :
        c # [op |-> "UPDATE", charge |-> x, amount |-> a, total |-> c.total]
  OBVIOUS
<1>5. \A cs \in SUBSET Charges, d \in {"APPROVED", "REJECTED"} :
        c # [op |-> "RESPOND", charges |-> cs, decision |-> d]
  OBVIOUS
<1> QED BY <1>1, <1>2, <1>3, <1>4, <1>5, Zenon DEF CallShape

LEMMA Approve ==
  ASSUME NEW t, NEW n, NEW a, NEW c,
         c = [op |-> "PAY", type |-> t, amount |-> n, approved |-> a]
  PROVE  [c EXCEPT !.approved = TRUE]
           = [op |-> "PAY", type |-> t, amount |-> n, approved |-> TRUE]
<1> DEFINE e == [c EXCEPT !.approved = TRUE]
<1>1. c \in [op : {"PAY"}, type : {t}, amount : {n}, approved : {a}]
  OBVIOUS
<1>2. e \in [op : {"PAY"}, type : {t}, amount : {n}, approved : {TRUE}]
  BY <1>1
<1> HIDE DEF e
<1>3. e = [op |-> "PAY", type |-> t, amount |-> n, approved |-> TRUE]
  BY <1>2
<1> QED BY <1>3 DEF e

\* The approval changes nothing else of a payment.
LEMMA ApprovedShape ==
  ASSUME NEW c, CallShape(c), c.op = "PAY"
  PROVE  /\ CallShape([c EXCEPT !.approved = TRUE])
         /\ [c EXCEPT !.approved = TRUE].op = "PAY"
         /\ [c EXCEPT !.approved = TRUE].type = c.type
         /\ [c EXCEPT !.approved = TRUE].amount = c.amount
<1>1. PICK t \in Types, a \in BOOLEAN :
        c = [op |-> "PAY", type |-> t, amount |-> c.amount, approved |-> a]
  BY PayShape
<1> DEFINE n == c.amount
           e == [op |-> "PAY", type |-> t, amount |-> n, approved |-> TRUE]
<1>2. c = [op |-> "PAY", type |-> t, amount |-> n, approved |-> a]
  BY <1>1
<1> HIDE DEF n
<1>3. [c EXCEPT !.approved = TRUE] = e
  BY <1>2, Approve
<1>4. e.op = "PAY" /\ e.type = t /\ e.amount = n /\ e = [op |-> "PAY", type |-> t,
        amount |-> e.amount, approved |-> TRUE]
  OBVIOUS
<1>5. CallShape(e)
  <2> HIDE DEF e
  <2> QED BY <1>4 DEF CallShape
<1>6. c.type = t /\ c.amount = n
  BY <1>2
<1> QED BY <1>3, <1>4, <1>5, <1>6

LEMMA AnswerShape ==
  ASSUME NEW k \in Calls, call[k].op = "PAY", CallShape(call[k]),
         NEW a \in {"PAID", "ALREADY_PAID", "PAYMENT_FAILED"}
  PROVE  CallShape([op |-> "ANSWERED", type |-> call[k].type, answer |-> a])
<1>1. call[k].type \in Types
  BY Fields
<1> QED BY <1>1 DEF CallShape

-----------------------------------------------------------------------------
(* Columns.                                                                *)

LEMMA TakenColumns ==
  ASSUME IInv, NEW k \in Calls, call[k].op = "PAY"
  PROVE  /\ Taken(k) = [t \in Types |-> Taken(k)[t]]
         /\ \A t \in Types : Taken(k)[t] =
              IF t = call[k].type /\ charged[t] = 0 THEN call[k].amount ELSE charged[t]
<1>1. call[k].type \in Types
  BY Fields DEF IInv, ShapesOK
<1> QED BY <1>1 DEF IInv, ColumnsOK, Taken

LEMMA NextColumns == IInv /\ [Next]_vars => ColumnsOK'
<1> SUFFICES ASSUME IInv, [Next]_vars PROVE ColumnsOK'
  OBVIOUS
<1>1. CASE UNCHANGED <<status, deposit, payment, requested, asked, charge, charged, review>>
  BY <1>1 DEF IInv, ColumnsOK
<1>2. ASSUME NEW k \in Calls, PayApproved(k) \/ PayNotApproved(k) PROVE ColumnsOK'
  <2>1. charged' \in {charged, Taken(k)} /\ call[k].op = "PAY"
    BY <1>2 DEF PayApproved, PayNotApproved
  <2>2. charged' = [t \in Types |-> charged'[t]]
    BY <2>1, TakenColumns DEF IInv, ColumnsOK
  <2>3. UNCHANGED <<status, deposit, payment, requested, asked, charge, review>>
    BY <1>2 DEF PayApproved, PayNotApproved
  <2> QED BY <2>2, <2>3 DEF IInv, ColumnsOK
<1>3. ASSUME NEW k \in Calls, PayDeposit(k) \/ Pay(k) PROVE ColumnsOK'
  BY <1>3 DEF PayDeposit, Pay, RequestedAfterDeposit, IInv, ColumnsOK
<1>4. ASSUME NEW k \in Calls, RequestPayment(k) PROVE ColumnsOK'
  BY <1>4 DEF RequestPayment, Stages, IInv, ColumnsOK
<1>5. ASSUME NEW k \in Calls, NEW c \in Charges, ProposeExtraCharge(k, c) PROVE ColumnsOK'
  <2>1. call[k].amount \in Amounts
    BY <1>5, Fields DEF ProposeExtraCharge, IInv, ShapesOK
  <2> QED BY <1>5, <2>1 DEF ProposeExtraCharge, IInv, ColumnsOK
<1>6. ASSUME NEW k \in Calls, UpdateExtraCharge(k) PROVE ColumnsOK'
  <2>1. call[k].amount \in Amounts /\ call[k].charge \in Charges
    BY <1>6, Fields DEF UpdateExtraCharge, IInv, ShapesOK
  <2> QED BY <1>6, <2>1 DEF UpdateExtraCharge, IInv, ColumnsOK
<1>7. ASSUME NEW k \in Calls, RespondCommit(k) PROVE ColumnsOK'
  <2>1. call[k].decision \in {"APPROVED", "REJECTED"}
    BY <1>7, Fields DEF RespondCommit, IInv, ShapesOK
  <2> QED BY <1>7, <2>1 DEF RespondCommit, IInv, ColumnsOK
<1>8. CASE Confirm \/ ExpireDeposits \/ Complete \/ RejectLate
  <2>1. /\ status' \in Statuses /\ deposit' \in {"NONE", "DUE", "PAID"}
        /\ requested' \in BOOLEAN /\ UNCHANGED <<payment, charge, charged, review>>
    BY <1>8 DEF Confirm, ExpireDeposits, Complete, RejectLate, Statuses, IInv, ColumnsOK
  <2>2. asked' \in [Stages -> Nat]
    BY <1>8 DEF Confirm, ExpireDeposits, Complete, RejectLate, Stages, IInv, ColumnsOK
  <2> QED BY <2>1, <2>2 DEF IInv, ColumnsOK
<1> QED BY <1>1, <1>2, <1>3, <1>4, <1>5, <1>6, <1>7, <1>8
        DEF Next, Arrive, Proceed, vars, PayCheck, PayConflict, ProposeExtraChargeLock,
            UpdateExtraChargeLock, ExtraChargeRefused, RespondExtraCharges, DepositHoursPass,
            CallFails, Restart

-----------------------------------------------------------------------------
(* Calls and the rows they hold.                                           *)

CallsInv == ShapesOK /\ WritersBeforePayment /\ AnswersHoldProposed

\* One call moves to c; the rows that c and the other calls hold are as they
\* have to be after the step.
LEMMA CallStep ==
  ASSUME IInv, NEW k \in Calls, NEW c, call' = Become(k, c), CallShape(c),
         c.op \in {"PROPOSE", "UPDATE"} => payment' = "UNPAID",
         \A j \in Calls : j # k /\ call[j].op \in {"PROPOSE", "UPDATE"} => payment' = "UNPAID",
         c.op = "RESPOND" =>
           \A x \in c.charges : /\ charge'[x].status = "PROPOSED"
                                /\ \A j \in Calls : call[j].op = "RESPOND" => x \notin call[j].charges,
         \A j \in Calls : j # k /\ call[j].op = "RESPOND" =>
           \A x \in call[j].charges : charge'[x].status = "PROPOSED"
  PROVE  CallsInv'
<1>1. ShapesOK'
  BY BecomeShape DEF IInv
<1>2. call'[k] = c /\ \A j \in Calls : j # k => call'[j] = call[j]
  BY BecomeAt DEF IInv
<1>3. WritersBeforePayment'
  BY <1>2 DEF WritersBeforePayment
<1>4. AnswersHoldProposed'
  <2>1. ASSUME NEW j \in Calls, call'[j].op = "RESPOND", NEW x \in call'[j].charges
        PROVE  charge'[x].status = "PROPOSED"
    BY <1>2, <2>1
  <2>2. ASSUME NEW i \in Calls, NEW j \in Calls, i # j,
               call'[i].op = "RESPOND", call'[j].op = "RESPOND"
        PROVE  call'[i].charges \cap call'[j].charges = {}
    BY <1>2, <2>2 DEF IInv, AnswersHoldProposed
  <2> QED BY <2>1, <2>2 DEF AnswersHoldProposed
<1> QED BY <1>1, <1>3, <1>4 DEF CallsInv

\* The common case: a call ends or answers, payment and held charges stay.
LEMMA CallEnds ==
  ASSUME IInv, NEW k \in Calls, NEW c, call' = Become(k, c), CallShape(c),
         c.op \in {"IDLE", "PAY", "ANSWERED"},
         UNCHANGED payment,
         \A x \in Charges : charge[x].status = "PROPOSED" /\ ~ChargeRowFree(x) =>
            charge'[x].status = "PROPOSED"
  PROVE  CallsInv'
<1>1. ASSUME NEW j \in Calls, call[j].op = "RESPOND", NEW x \in call[j].charges
      PROVE  charge'[x].status = "PROPOSED"
  <2>1. x \in Charges
    BY <1>1, Fields DEF IInv, ShapesOK
  <2> QED BY <1>1, <2>1 DEF IInv, AnswersHoldProposed, ChargeRowFree
<1>2. \A j \in Calls : call[j].op \in {"PROPOSE", "UPDATE"} => payment' = "UNPAID"
  BY DEF IInv, WritersBeforePayment
<1> QED BY <1>1, <1>2, CallStep

LEMMA IdleShape == CallShape(Idle) /\ Idle.op = "IDLE"
BY DEF CallShape, Idle

LEMMA NextCalls == IInv /\ [Next]_vars => CallsInv'
<1> SUFFICES ASSUME IInv, [Next]_vars PROVE CallsInv'
  OBVIOUS
<1>1. CASE UNCHANGED <<payment, charge, call>>
  BY <1>1 DEF IInv, CallsInv, ShapesOK, WritersBeforePayment, AnswersHoldProposed
<1>2. ASSUME NEW k \in Calls, NEW t \in Types, PayCheck(k, t) PROVE CallsInv'
  <2> DEFINE c == [op |-> "PAY", type |-> t, amount |-> ExpectedAmount(t), approved |-> FALSE]
  <2>1. CallShape(c) /\ c.op = "PAY"
    BY DEF CallShape
  <2>2. call' = Become(k, c) /\ UNCHANGED <<payment, charge>>
    BY <1>2 DEF PayCheck
  <2> HIDE DEF c
  <2> QED BY <2>1, <2>2, CallEnds
<1>3. ASSUME NEW k \in Calls, PayApproved(k) PROVE CallsInv'
  <2> DEFINE c == [call[k] EXCEPT !.approved = TRUE]
  <2>1. CallShape(call[k]) /\ call[k].op = "PAY"
    BY <1>3 DEF PayApproved, IInv, ShapesOK
  <2>4. CallShape(c) /\ c.op = "PAY"
    BY <2>1, ApprovedShape
  <2>5. call' = Become(k, c) /\ UNCHANGED <<payment, charge>>
    BY <1>3 DEF PayApproved
  <2> HIDE DEF c
  <2> QED BY <2>4, <2>5, CallEnds
<1>4. ASSUME NEW k \in Calls, NEW a \in {"PAID", "ALREADY_PAID", "PAYMENT_FAILED"},
             call[k].op = "PAY", call' = Answer(k, a), UNCHANGED charge,
             \A j \in Calls : j # k /\ call[j].op \in {"PROPOSE", "UPDATE"} => payment' = "UNPAID"
      PROVE  CallsInv'
  <2> DEFINE c == [op |-> "ANSWERED", type |-> call[k].type, answer |-> a]
  <2>1. CallShape(c) /\ c.op = "ANSWERED"
    BY <1>4, AnswerShape DEF IInv, ShapesOK
  <2>2. call' = Become(k, c)
    BY <1>4 DEF Answer
  <2>3. \A j \in Calls : call[j].op = "RESPOND" =>
          \A x \in call[j].charges : charge'[x].status = "PROPOSED"
    BY <1>4 DEF IInv, AnswersHoldProposed
  <2> HIDE DEF c
  <2> QED BY <1>4, <2>1, <2>2, <2>3, CallStep
<1>5. ASSUME NEW k \in Calls, PayNotApproved(k) \/ PayDeposit(k) \/ PayConflict(k)
      PROVE  CallsInv'
  BY <1>4, <1>5 DEF PayNotApproved, PayDeposit, PayConflict, MayRecord, IInv, WritersBeforePayment
<1>6. ASSUME NEW k \in Calls, Pay(k) PROVE CallsInv'
  BY <1>4, <1>6 DEF Pay, MayRecord, EstimateRowFree
<1>7. ASSUME NEW k \in Calls, NEW a \in Amounts, ProposeExtraChargeLock(k, a) PROVE CallsInv'
  <2> DEFINE c == [op |-> "PROPOSE", amount |-> a,
                   total |-> SumOf(WithStatus({"PROPOSED", "APPROVED"}))]
  <2>1. CallShape(c) /\ c.op = "PROPOSE"
    BY DEF CallShape
  <2>2. call' = Become(k, c) /\ payment' = "UNPAID" /\ charge' = charge
    BY <1>7 DEF ProposeExtraChargeLock, BalanceDue
  <2>3. \A j \in Calls : call[j].op = "RESPOND" =>
          \A x \in call[j].charges : charge'[x].status = "PROPOSED"
    BY <2>2 DEF IInv, AnswersHoldProposed
  <2> HIDE DEF c
  <2> QED BY <2>1, <2>2, <2>3, CallStep
<1>8. ASSUME NEW k \in Calls, NEW x \in Charges, NEW a \in Amounts, UpdateExtraChargeLock(k, x, a)
      PROVE  CallsInv'
  <2> DEFINE c == [op |-> "UPDATE", charge |-> x, amount |-> a,
                   total |-> SumOf(WithStatus({"PROPOSED", "APPROVED"}) \ {x})]
  <2>1. CallShape(c) /\ c.op = "UPDATE"
    BY DEF CallShape
  <2>2. call' = Become(k, c) /\ payment' = "UNPAID" /\ charge' = charge
    BY <1>8 DEF UpdateExtraChargeLock, BalanceDue
  <2>3. \A j \in Calls : call[j].op = "RESPOND" =>
          \A y \in call[j].charges : charge'[y].status = "PROPOSED"
    BY <2>2 DEF IInv, AnswersHoldProposed
  <2> HIDE DEF c
  <2> QED BY <2>1, <2>2, <2>3, CallStep
<1>9. ASSUME NEW k \in Calls, NEW x \in Charges, ProposeExtraCharge(k, x) PROVE CallsInv'
  <2>1. charge[x].status = "NONE"
    BY <1>9 DEF ProposeExtraCharge, NoCharge
  <2>2. \A y \in Charges : charge'[y].status = charge[y].status \/ y = x
    BY <1>9 DEF ProposeExtraCharge, IInv, ColumnsOK
  <2>3. call' = Become(k, Idle) /\ UNCHANGED payment
    BY <1>9 DEF ProposeExtraCharge
  <2> QED BY <2>1, <2>2, <2>3, IdleShape, CallEnds
<1>10. ASSUME NEW k \in Calls, UpdateExtraCharge(k) PROVE CallsInv'
  <2>1. \A y \in Charges : charge'[y].status = charge[y].status
    BY <1>10 DEF UpdateExtraCharge, IInv, ColumnsOK
  <2>2. call' = Become(k, Idle) /\ UNCHANGED payment
    BY <1>10 DEF UpdateExtraCharge
  <2> QED BY <2>1, <2>2, IdleShape, CallEnds
<1>11. ASSUME NEW k \in Calls, ExtraChargeRefused(k) \/ CallFails(k) \/ RequestPayment(k)
       PROVE  CallsInv'
  <2>1. call' = Become(k, Idle) /\ UNCHANGED <<payment, charge>>
    BY <1>11 DEF ExtraChargeRefused, Rollback, CallFails, RequestPayment
  <2> QED BY <2>1, IdleShape, CallEnds
<1>12. ASSUME NEW k \in Calls, NEW cs \in SUBSET Charges, NEW d \in {"APPROVED", "REJECTED"},
              RespondExtraCharges(k, cs, d)
       PROVE  CallsInv'
  <2> DEFINE c == [op |-> "RESPOND", charges |-> cs, decision |-> d]
  <2>1. CallShape(c) /\ c.op = "RESPOND" /\ c.charges = cs
    BY DEF CallShape
  <2>2. call' = Become(k, c) /\ payment' = "UNPAID" /\ charge' = charge
    BY <1>12 DEF RespondExtraCharges, BalanceDue
  <2>3. \A x \in cs : /\ charge'[x].status = "PROPOSED"
                      /\ \A j \in Calls : call[j].op = "RESPOND" => x \notin call[j].charges
    BY <1>12 DEF RespondExtraCharges, MayRespond, WithStatus, ChargeRowFree
  <2>4. \A j \in Calls : call[j].op = "RESPOND" =>
          \A y \in call[j].charges : charge'[y].status = "PROPOSED"
    BY <2>2 DEF IInv, AnswersHoldProposed
  <2> HIDE DEF c
  <2> QED BY <2>1, <2>2, <2>3, <2>4, CallStep
<1>13. ASSUME NEW k \in Calls, RespondCommit(k) PROVE CallsInv'
  <2>1. \A x \in Charges : x \notin call[k].charges => charge'[x] = charge[x]
    BY <1>13 DEF RespondCommit
  <2>2. ASSUME NEW j \in Calls, j # k, call[j].op = "RESPOND", NEW x \in call[j].charges
        PROVE  charge'[x].status = "PROPOSED"
    <3>1. x \in Charges /\ charge[x].status = "PROPOSED"
      BY <2>2, Fields DEF IInv, ShapesOK, AnswersHoldProposed
    <3>2. x \notin call[k].charges
      BY <1>13, <2>2 DEF RespondCommit, IInv, AnswersHoldProposed
    <3> QED BY <2>1, <3>1, <3>2
  <2>3. call' = Become(k, Idle) /\ payment' = payment
    BY <1>13 DEF RespondCommit
  <2>4. \A j \in Calls : call[j].op \in {"PROPOSE", "UPDATE"} => payment' = "UNPAID"
    BY <2>3 DEF IInv, WritersBeforePayment
  <2> QED BY <2>2, <2>3, <2>4, IdleShape, CallStep
<1>14. CASE Restart
  <2>1. \A k \in Calls : call'[k] = Idle
    BY <1>14 DEF Restart
  <2>2. call' = [k \in Calls |-> call'[k]]
    BY <1>14 DEF Restart
  <2> QED BY <2>1, <2>2, IdleShape DEF CallsInv, ShapesOK, WritersBeforePayment, AnswersHoldProposed
<1> QED BY <1>1, <1>2, <1>3, <1>5, <1>6, <1>7, <1>8, <1>9, <1>10, <1>11, <1>12, <1>13, <1>14
        DEF Next, Arrive, Proceed, vars, Confirm, ExpireDeposits, Complete, RejectLate,
            DepositHoursPass

-----------------------------------------------------------------------------
(* The deposit.                                                            *)

LEMMA DepositIsPositive == DepositAmount \in Nat /\ DepositAmount > 0
BY PaymentConstantsOK DEF DepositAmount

\* A call that becomes c, which is no payment of the deposit, or leaves as it is
\* what the others rely on.
LEMMA DepositFrame ==
  ASSUME IInv, NEW k \in Calls, NEW c, call' = Become(k, c), c.op # "PAY",
         charged' = charged, deposit' = "PAID" => deposit = "PAID"
  PROVE  DepositCharged'
<1>1. call'[k] = c /\ \A j \in Calls : j # k => call'[j] = call[j]
  BY BecomeAt DEF IInv
<1> QED BY <1>1 DEF IInv, DepositCharged, DepositAmount

LEMMA NextDeposit == IInv /\ [Next]_vars => DepositCharged'
<1> SUFFICES ASSUME IInv, [Next]_vars PROVE DepositCharged'
  OBVIOUS
<1>1. CASE UNCHANGED <<charged, call>> /\ (deposit' = "PAID" => deposit = "PAID")
  BY <1>1 DEF IInv, DepositCharged, DepositAmount
<1>2. ASSUME NEW k \in Calls, NEW t \in Types, PayCheck(k, t) PROVE DepositCharged'
  <2> DEFINE c == [op |-> "PAY", type |-> t, amount |-> ExpectedAmount(t), approved |-> FALSE]
  <2>1. c.type = "DEPOSIT" => c.amount = DepositAmount
    BY DEF ExpectedAmount
  <2>2. ~c.approved
    OBVIOUS
  <2>3. call' = Become(k, c) /\ UNCHANGED <<charged, deposit>>
    BY <1>2 DEF PayCheck
  <2> HIDE DEF c
  <2>4. call'[k] = c /\ \A j \in Calls : j # k => call'[j] = call[j]
    BY <2>3, BecomeAt DEF IInv
  <2> QED BY <2>1, <2>2, <2>3, <2>4 DEF IInv, DepositCharged, DepositAmount
<1>3. ASSUME NEW k \in Calls, PayApproved(k) \/ PayNotApproved(k) PROVE DepositCharged'
  <2>1. call[k].op = "PAY" /\ charged' \in {charged, Taken(k)} /\ deposit' = deposit
    BY <1>3 DEF PayApproved, PayNotApproved
  <2>2. Taken(k)["DEPOSIT"] = IF call[k].type = "DEPOSIT" /\ charged["DEPOSIT"] = 0
                             THEN call[k].amount ELSE charged["DEPOSIT"]
    BY <2>1, TakenColumns DEF Types
  <2>3. /\ charged'["DEPOSIT"] \in {0, DepositAmount}
        /\ charged["DEPOSIT"] = DepositAmount => charged'["DEPOSIT"] = DepositAmount
    BY <2>1, <2>2, DepositIsPositive DEF IInv, DepositCharged
  <2>4. CASE PayApproved(k)
    <3> DEFINE c == [call[k] EXCEPT !.approved = TRUE]
    <3>1. c.type = call[k].type /\ c.amount = call[k].amount
      BY <2>1, ApprovedShape DEF IInv, ShapesOK
    <3>2. call'[k] = c /\ \A j \in Calls : j # k => call'[j] = call[j]
      BY <2>4, BecomeAt DEF PayApproved, IInv
    <3>3. call[k].type = "DEPOSIT" => charged'["DEPOSIT"] = DepositAmount
      BY <2>1, <2>2, <2>4 DEF PayApproved, IInv, DepositCharged
    <3> HIDE DEF c
    <3> QED BY <2>1, <2>3, <3>1, <3>2, <3>3 DEF IInv, DepositCharged, DepositAmount
  <2>5. CASE PayNotApproved(k)
    <3> DEFINE c == [op |-> "ANSWERED", type |-> call[k].type, answer |-> "PAYMENT_FAILED"]
    <3>1. c.op # "PAY"
      OBVIOUS
    <3>2. call'[k] = c /\ \A j \in Calls : j # k => call'[j] = call[j]
      BY <2>5, BecomeAt DEF PayNotApproved, Answer, IInv
    <3> HIDE DEF c
    <3> QED BY <2>1, <2>3, <3>1, <3>2 DEF IInv, DepositCharged, DepositAmount
  <2> QED BY <1>3, <2>4, <2>5
<1>4. ASSUME NEW k \in Calls, PayDeposit(k) PROVE DepositCharged'
  <2> DEFINE c == [op |-> "ANSWERED", type |-> call[k].type, answer |-> "PAID"]
  <2>1. c.op # "PAY"
    OBVIOUS
  <2>2. call'[k] = c /\ \A j \in Calls : j # k => call'[j] = call[j]
    BY <1>4, BecomeAt DEF PayDeposit, Answer, IInv
  <2>3. charged["DEPOSIT"] = DepositAmount /\ charged' = charged
    BY <1>4 DEF PayDeposit, MayRecord, IInv, DepositCharged
  <2> HIDE DEF c
  <2> QED BY <2>1, <2>2, <2>3 DEF IInv, DepositCharged, DepositAmount
<1>5. ASSUME NEW k \in Calls, Pay(k) \/ PayConflict(k) PROVE DepositCharged'
  <2>1. PICK a : call' = Become(k, [op |-> "ANSWERED", type |-> call[k].type, answer |-> a])
    BY <1>5 DEF Pay, PayConflict, Answer
  <2>2. UNCHANGED <<charged, deposit>>
    BY <1>5 DEF Pay, PayConflict
  <2> QED BY <2>1, <2>2, DepositFrame
<1>6. ASSUME NEW k \in Calls, NEW a \in Amounts, ProposeExtraChargeLock(k, a) PROVE DepositCharged'
  BY <1>6, DepositFrame DEF ProposeExtraChargeLock
<1>7. ASSUME NEW k \in Calls, NEW x \in Charges, NEW a \in Amounts, UpdateExtraChargeLock(k, x, a)
      PROVE  DepositCharged'
  BY <1>7, DepositFrame DEF UpdateExtraChargeLock
<1>8. ASSUME NEW k \in Calls, NEW cs \in SUBSET Charges, NEW d \in {"APPROVED", "REJECTED"},
             RespondExtraCharges(k, cs, d)
      PROVE  DepositCharged'
  BY <1>8, DepositFrame DEF RespondExtraCharges
<1>9. ASSUME NEW k \in Calls, call' = Become(k, Idle), UNCHANGED <<charged, deposit>>
      PROVE  DepositCharged'
  BY <1>9, DepositFrame, IdleShape
<1>10. CASE Restart
  <2>1. \A k \in Calls : call'[k] = Idle
    BY <1>10 DEF Restart
  <2>2. UNCHANGED <<charged, deposit>>
    BY <1>10 DEF Restart
  <2> QED BY <2>1, <2>2, IdleShape DEF IInv, DepositCharged, DepositAmount
<1> QED BY <1>1, <1>2, <1>3, <1>4, <1>5, <1>6, <1>7, <1>8, <1>9, <1>10
        DEF Next, Arrive, Proceed, vars, ProposeExtraCharge, UpdateExtraCharge,
            ExtraChargeRefused, Rollback, RespondCommit, RequestPayment, CallFails,
            Confirm, ExpireDeposits, Complete, RejectLate, DepositHoursPass

-----------------------------------------------------------------------------
(* Stages.                                                                 *)

StageVars == <<status, deposit, payment, requested, asked, review>>

LEMMA NextStage == IInv /\ [Next]_vars => StageInv' /\ ReviewInv'
<1> SUFFICES ASSUME IInv, [Next]_vars PROVE StageInv' /\ ReviewInv'
  OBVIOUS
<1> USE DEF IInv, StageInv, ReviewInv, OneRequestPerStage, DepositDue, BalanceDue
<1>1. CASE UNCHANGED StageVars
  BY <1>1 DEF StageVars
<1>2. ASSUME NEW k \in Calls, PayDeposit(k) PROVE StageInv' /\ ReviewInv'
  BY <1>2 DEF PayDeposit, RequestedAfterDeposit
<1>3. ASSUME NEW k \in Calls, Pay(k) PROVE StageInv' /\ ReviewInv'
  BY <1>3 DEF Pay
<1>4. ASSUME NEW k \in Calls, RequestPayment(k) PROVE StageInv' /\ ReviewInv'
  <2> DEFINE s == IF DepositDue THEN "DEPOSIT_DUE" ELSE "BALANCE_DUE"
  <2>1. \A t \in Stages : asked'[t] = IF t = s THEN asked[t] + 1 ELSE asked[t]
    BY <1>4 DEF RequestPayment, ColumnsOK, Stages
  <2>2. asked[s] = 0
    BY <1>4 DEF RequestPayment, MayRequest, ColumnsOK, Stages
  <2>3. /\ ~requested /\ requested' = TRUE /\ (DepositDue \/ BalanceDue)
        /\ UNCHANGED <<status, deposit, payment, review>>
    BY <1>4 DEF RequestPayment, MayRequest
  <2>4. \A t \in Stages : asked[t] <= 1 /\ asked[t] \in Nat
    BY DEF ColumnsOK
  <2>5. CASE DepositDue
    <3>1. asked'["DEPOSIT_DUE"] = 1 /\ asked'["BALANCE_DUE"] = asked["BALANCE_DUE"]
      BY <2>1, <2>2, <2>5 DEF Stages
    <3> HIDE DEF s
    <3> QED BY <2>3, <2>4, <2>5, <3>1 DEF Stages
  <2>6. CASE ~DepositDue
    <3>1. asked'["BALANCE_DUE"] = 1 /\ asked'["DEPOSIT_DUE"] = asked["DEPOSIT_DUE"]
      BY <2>1, <2>2, <2>6 DEF Stages
    <3>2. status = "COMPLETED" /\ payment = "UNPAID" /\ ~DepositDue'
      BY <2>3, <2>6
    <3>3. asked'["DEPOSIT_DUE"] <= 1
      BY <2>4, <3>1 DEF Stages
    <3>4. OneRequestPerStage'
      <4>1. \A t \in Stages : asked'[t] <= 1
        BY <3>1, <3>3 DEF Stages
      <4>2. requested' <=> asked'["BALANCE_DUE"] = 1
        BY <2>3, <3>1, Zenon
      <4> QED BY <3>2, <4>1, <4>2, Zenon
    <3>5. StageInv' /\ ReviewInv'
      <4> HIDE DEF s, OneRequestPerStage
      <4> QED BY <2>3, <3>1, <3>2, <3>4
    <3> QED BY <3>5
  <2> QED BY <2>5, <2>6
<1>5. CASE Confirm
  BY <1>5 DEF Confirm, ColumnsOK, Stages
<1>6. CASE ExpireDeposits \/ Complete \/ RejectLate
  BY <1>6 DEF ExpireDeposits, Complete, RejectLate, ColumnsOK, Statuses, Stages
<1> QED
  <2> USE DEF StageVars
  <2> QED BY <1>1, <1>2, <1>3, <1>4, <1>5, <1>6
        DEF Next, Arrive, Proceed, vars, PayCheck, PayApproved, PayNotApproved, PayConflict,
            ProposeExtraChargeLock, ProposeExtraCharge, UpdateExtraChargeLock,
            UpdateExtraCharge, ExtraChargeRefused, RespondExtraCharges, RespondCommit,
            CallFails, DepositHoursPass, Restart

-----------------------------------------------------------------------------
(* The theorems.                                                           *)

LEMMA InitInv == Init => IInv
<1> SUFFICES ASSUME Init PROVE IInv
  OBVIOUS
<1>1. ColumnsOK
  BY DEF Init, ColumnsOK, Statuses, Stages, NoCharge
<1>2. ShapesOK /\ WritersBeforePayment /\ AnswersHoldProposed
  BY IdleShape DEF Init, ShapesOK, WritersBeforePayment, AnswersHoldProposed
<1>3. DepositCharged
  BY IdleShape DEF Init, DepositCharged, Types
<1>4. StageInv /\ ReviewInv
  BY DEF Init, StageInv, ReviewInv, OneRequestPerStage, DepositDue, BalanceDue, Stages
<1> QED BY <1>1, <1>2, <1>3, <1>4 DEF IInv

LEMMA NextInv == IInv /\ [Next]_vars => IInv'
BY NextColumns, NextCalls, NextDeposit, NextStage DEF IInv, CallsInv

\* What calls hold, charge and remember while they are under way stays in step
\* with the rows, whatever order the calls and the jobs take.
THEOREM PaymentCorrect == Spec => []IInv
BY InitInv, NextInv, PTL DEF Spec

\* The deposit is taken once and for its amount, however often a payment is
\* repeated after a lost answer, and is recorded only when it was taken.
THEOREM DepositTakenOnce ==
  Spec => [](charged["DEPOSIT"] <= DepositAmount
             /\ (deposit = "PAID" => charged["DEPOSIT"] = DepositAmount))
<1>1. IInv => charged["DEPOSIT"] <= DepositAmount
              /\ (deposit = "PAID" => charged["DEPOSIT"] = DepositAmount)
  BY DepositIsPositive DEF IInv, DepositCharged
<1> QED BY <1>1, PaymentCorrect, PTL

\* The mover asks once in each stage, and payment_requested_at never speaks of
\* another stage than the one that runs.
THEOREM AskedOncePerStage == Spec => []OneRequestPerStage
<1>1. IInv => OneRequestPerStage
  BY DEF IInv, StageInv
<1> QED BY <1>1, PaymentCorrect, PTL

LEMMA ChargeSteps ==
  ASSUME IInv, [Next]_vars
  PROVE  \/ charge' = charge
         \/ \E k \in Calls, c \in Charges : ProposeExtraCharge(k, c)
         \/ \E k \in Calls : UpdateExtraCharge(k) \/ RespondCommit(k)
BY DEF Next, Arrive, Proceed, vars, PayCheck, PayApproved, PayNotApproved, PayDeposit, Pay,
       PayConflict, ProposeExtraChargeLock, UpdateExtraChargeLock, ExtraChargeRefused,
       RespondExtraCharges, RequestPayment, CallFails, Restart, Confirm, ExpireDeposits,
       Complete, RejectLate, DepositHoursPass

\* What the customer has answered stays as it was answered: no other answer
\* holds it, and a change of the amount finds only charges that wait.
LEMMA AnsweredStays ==
  ASSUME IInv, [Next]_vars, NEW c \in Charges, charge[c].status \in {"APPROVED", "REJECTED"}
  PROVE  charge'[c] = charge[c]
<1>1. ASSUME NEW k \in Calls, NEW x \in Charges, ProposeExtraCharge(k, x)
      PROVE  charge'[c] = charge[c]
  BY <1>1 DEF ProposeExtraCharge, NoCharge, IInv, ColumnsOK
<1>2. ASSUME NEW k \in Calls, UpdateExtraCharge(k) PROVE charge'[c] = charge[c]
  BY <1>2 DEF UpdateExtraCharge, MayUpdate, IInv, ColumnsOK
<1>3. ASSUME NEW k \in Calls, RespondCommit(k) PROVE charge'[c] = charge[c]
  BY <1>3 DEF RespondCommit, IInv, AnswersHoldProposed
<1> QED BY <1>1, <1>2, <1>3, ChargeSteps

\* An answered charge never changes again: no other answer holds it, and a change
\* of the amount finds only charges that wait.
THEOREM AnswersAreFinal == Spec => AnsweredIsFinal
<1> DEFINE P == \A c \in Charges :
                  charge[c].status \in {"APPROVED", "REJECTED"} => charge'[c] = charge[c]
<1>1. IInv /\ [Next]_vars => [P]_vars
  BY AnsweredStays
<1> HIDE DEF P
<1>2. Spec => [][P]_vars
  BY <1>1, PaymentCorrect, PTL DEF Spec
<1> QED BY <1>2 DEF P, AnsweredIsFinal

\* After the balance is recorded no amount moves: a charge that is being written
\* keeps the payment waiting for the estimate's row.
THEOREM PaidFreezes == Spec => PaidFreezesAmounts
<1> DEFINE P == payment = "PAID" => \A c \in Charges : charge'[c].amount = charge[c].amount
<1>1. IInv /\ [Next]_vars => [P]_vars
  <2> SUFFICES ASSUME IInv, [Next]_vars, payment = "PAID", NEW c \in Charges
               PROVE  charge'[c].amount = charge[c].amount
    OBVIOUS
  <2>1. ~\E k \in Calls : call[k].op \in {"PROPOSE", "UPDATE"}
    BY DEF IInv, WritersBeforePayment
  <2>2. ASSUME NEW k \in Calls, RespondCommit(k) PROVE charge'[c].amount = charge[c].amount
    BY <2>2 DEF RespondCommit, IInv, ColumnsOK
  <2> QED BY <2>1, <2>2, ChargeSteps DEF ProposeExtraCharge, UpdateExtraCharge
<1> HIDE DEF P
<1>2. Spec => [][P]_vars
  BY <1>1, PaymentCorrect, PTL DEF Spec
<1> QED BY <1>2 DEF P, PaidFreezesAmounts

-----------------------------------------------------------------------------
(* Amounts.  The balance only grows once it can be paid, so that a payment *)
(* started for an older balance never takes too much; and a charge is only *)
(* written over a sum that is still at least the true one.                 *)

Counting == WithStatus({"PROPOSED", "APPROVED"})

PaysBalance(c) == c.op = "PAY" /\ c.type = "BALANCE"
Writes(c) == c.op \in {"PROPOSE", "UPDATE"}

\* The balance's order number is charged with no more than the balance, and
\* only for an estimate that can get no other deposit; and not with less than is
\* left after the deposit.
BalanceInv ==
  /\ charged \in [Types -> Nat]
  /\ charged["BALANCE"] <= BalanceAmount
  /\ charged["BALANCE"] > 0 => status \in {"COMPLETED", "REJECTED"}
  /\ charged["BALANCE"] > 0 => charged["BALANCE"] >= Price - DepositAmount
  /\ payment = "PAID" => charged["BALANCE"] > 0
  /\ \A k \in Calls : PaysBalance(call[k]) =>
       /\ status \in {"COMPLETED", "REJECTED"}
       /\ call[k].amount \in Price - DepositAmount..BalanceAmount
       /\ call[k].approved => charged["BALANCE"] > 0

\* One transaction writes charges at a time, and the sum it has read is at
\* least that of the other charges.
LimitInv ==
  /\ \A j, k \in Calls : Writes(call[j]) /\ Writes(call[k]) => j = k
  /\ \A k \in Calls : call[k].op = "PROPOSE" =>
       call[k].total \in Nat /\ SumOf(Counting) <= call[k].total
  /\ \A k \in Calls : call[k].op = "UPDATE" =>
       call[k].total \in Nat /\ SumOf(Counting \ {call[k].charge}) <= call[k].total
  /\ ChargesWithinLimit

MoneyInv == overdue \in BOOLEAN /\ BalanceInv /\ LimitInv

-----------------------------------------------------------------------------
(* What a step does to calls and to what is charged.                       *)

\* One call moves, or a restart ends them all.
LEMMA OneMoves ==
  ASSUME IInv, [Next]_vars
  PROVE  \/ call' = call
         \/ \A j \in Calls : call'[j] = Idle
         \/ \E k \in Calls : \A j \in Calls : j # k => call'[j] = call[j]
<1>1. ASSUME NEW k \in Calls, NEW c, call' = Become(k, c)
      PROVE  \A j \in Calls : j # k => call'[j] = call[j]
  BY <1>1, BecomeAt DEF IInv
<1>2. CASE Restart
  BY <1>2 DEF Restart
<1>3. ASSUME NEW k \in Calls, Arrive(k) \/ Proceed(k) \/ CallFails(k)
      PROVE  \A j \in Calls : j # k => call'[j] = call[j]
  <2>1. \E c : call' = Become(k, c)
    BY <1>3 DEF Arrive, Proceed, PayCheck, PayApproved, PayNotApproved, PayDeposit, Pay,
           PayConflict, Answer, ProposeExtraChargeLock, ProposeExtraCharge,
           UpdateExtraChargeLock, UpdateExtraCharge, ExtraChargeRefused, Rollback,
           RespondExtraCharges, RespondCommit, RequestPayment, CallFails
  <2> QED BY <1>1, <2>1
<1> QED BY <1>2, <1>3 DEF Next, vars, Confirm, ExpireDeposits, Complete, RejectLate,
                          DepositHoursPass

\* Where a call that pays the balance, and one that writes a charge, comes from.
LEMMA NewCalls ==
  ASSUME IInv, [Next]_vars, NEW j \in Calls
  PROVE  /\ PaysBalance(call'[j]) =>
              \/ call'[j] = call[j]
              \/ PayCheck(j, "BALANCE") /\ call'[j].amount = BalanceAmount /\ ~call'[j].approved
              \/ /\ PayApproved(j) /\ PaysBalance(call[j])
                 /\ call'[j].amount = call[j].amount
         /\ Writes(call'[j]) =>
              \/ call'[j] = call[j]
              \/ \E a \in Amounts : /\ ProposeExtraChargeLock(j, a)
                                    /\ call'[j].op = "PROPOSE"
                                    /\ call'[j].total = SumOf(Counting)
              \/ \E x \in Charges, a \in Amounts :
                   /\ UpdateExtraChargeLock(j, x, a)
                   /\ call'[j].op = "UPDATE" /\ call'[j].charge = x
                   /\ call'[j].total = SumOf(Counting \ {x})
<1> DEFINE Goal ==
         /\ PaysBalance(call'[j]) =>
              \/ call'[j] = call[j]
              \/ PayCheck(j, "BALANCE") /\ call'[j].amount = BalanceAmount /\ ~call'[j].approved
              \/ /\ PayApproved(j) /\ PaysBalance(call[j])
                 /\ call'[j].amount = call[j].amount
         /\ Writes(call'[j]) =>
              \/ call'[j] = call[j]
              \/ \E a \in Amounts : /\ ProposeExtraChargeLock(j, a)
                                    /\ call'[j].op = "PROPOSE"
                                    /\ call'[j].total = SumOf(Counting)
              \/ \E x \in Charges, a \in Amounts :
                   /\ UpdateExtraChargeLock(j, x, a)
                   /\ call'[j].op = "UPDATE" /\ call'[j].charge = x
                   /\ call'[j].total = SumOf(Counting \ {x})
<1>0. ASSUME NEW k \in Calls, NEW c, call' = Become(k, c)
      PROVE  call'[k] = c /\ (j # k => call'[j] = call[j])
  BY <1>0, BecomeAt DEF IInv
<1>1. ASSUME call'[j] = call[j] PROVE Goal
  BY <1>1
<1>2. ASSUME call'[j].op \notin {"PAY", "PROPOSE", "UPDATE"} PROVE Goal
  BY <1>2 DEF PaysBalance, Writes
<1>3. ASSUME NEW t \in Types, PayCheck(j, t) PROVE Goal
  <2> DEFINE c == [op |-> "PAY", type |-> t, amount |-> ExpectedAmount(t), approved |-> FALSE]
  <2>1. call'[j] = c
    BY <1>0, <1>3 DEF PayCheck
  <2>2. c.op = "PAY" /\ c.type = t /\ c.amount = ExpectedAmount(t) /\ ~c.approved
    OBVIOUS
  <2>3. t = "BALANCE" => c.amount = BalanceAmount
    BY <2>2 DEF ExpectedAmount
  <2> HIDE DEF c
  <2> QED BY <1>3, <2>1, <2>2, <2>3 DEF PaysBalance, Writes
<1>4. ASSUME PayApproved(j) PROVE Goal
  <2>1. call'[j] = [call[j] EXCEPT !.approved = TRUE] /\ call[j].op = "PAY"
    BY <1>0, <1>4 DEF PayApproved
  <2>2. call'[j].op = "PAY" /\ call'[j].type = call[j].type /\ call'[j].amount = call[j].amount
    BY <2>1, ApprovedShape DEF IInv, ShapesOK
  <2> QED BY <1>4, <2>1, <2>2 DEF PaysBalance, Writes
<1>5. ASSUME NEW a \in Amounts, ProposeExtraChargeLock(j, a) PROVE Goal
  <2> DEFINE c == [op |-> "PROPOSE", amount |-> a, total |-> SumOf(Counting)]
  <2>1. call'[j] = c
    BY <1>0, <1>5 DEF ProposeExtraChargeLock, Counting
  <2>2. c.op = "PROPOSE" /\ c.total = SumOf(Counting)
    OBVIOUS
  <2> HIDE DEF c
  <2> QED BY <1>5, <2>1, <2>2 DEF PaysBalance
<1>6. ASSUME NEW x \in Charges, NEW a \in Amounts, UpdateExtraChargeLock(j, x, a) PROVE Goal
  <2> DEFINE c == [op |-> "UPDATE", charge |-> x, amount |-> a, total |-> SumOf(Counting \ {x})]
  <2>1. call'[j] = c
    BY <1>0, <1>6 DEF UpdateExtraChargeLock, Counting
  <2>2. c.op = "UPDATE" /\ c.charge = x /\ c.total = SumOf(Counting \ {x})
    OBVIOUS
  <2> HIDE DEF c
  <2> QED BY <1>6, <2>1, <2>2 DEF PaysBalance
<1>7. ASSUME NEW k \in Calls, Arrive(k) \/ Proceed(k) \/ CallFails(k) PROVE Goal
  <2>1. ASSUME k # j PROVE Goal
    <3>1. \E c : call' = Become(k, c)
      BY <1>7 DEF Arrive, Proceed, PayCheck, PayApproved, PayNotApproved, PayDeposit, Pay,
             PayConflict, Answer, ProposeExtraChargeLock, ProposeExtraCharge,
             UpdateExtraChargeLock, UpdateExtraCharge, ExtraChargeRefused, Rollback,
             RespondExtraCharges, RespondCommit, RequestPayment, CallFails
    <3> QED BY <1>0, <1>1, <2>1, <3>1
  <2>2. ASSUME call' = Become(j, Idle) PROVE Goal
    BY <1>0, <1>2, <2>2, IdleShape
  <2>3. ASSUME NEW a, call' = Answer(j, a) PROVE Goal
    <3> DEFINE c == [op |-> "ANSWERED", type |-> call[j].type, answer |-> a]
    <3>1. call'[j] = c /\ c.op = "ANSWERED"
      BY <1>0, <2>3 DEF Answer
    <3> HIDE DEF c
    <3> QED BY <1>2, <3>1
  <2>4. ASSUME NEW cs, NEW d, RespondExtraCharges(j, cs, d) PROVE Goal
    <3> DEFINE c == [op |-> "RESPOND", charges |-> cs, decision |-> d]
    <3>1. call'[j] = c /\ c.op = "RESPOND"
      BY <1>0, <2>4 DEF RespondExtraCharges
    <3> HIDE DEF c
    <3> QED BY <1>2, <3>1
  <2> HIDE DEF Goal
  <2>5. ASSUME Arrive(j) PROVE Goal
    BY <1>3, <1>5, <1>6, <2>2, <2>4, <2>5 DEF Arrive, RequestPayment
  <2>6. ASSUME Proceed(j) PROVE Goal
    BY <1>4, <2>2, <2>3, <2>6
       DEF Proceed, PayNotApproved, PayDeposit, Pay, PayConflict, ProposeExtraCharge,
           UpdateExtraCharge, ExtraChargeRefused, Rollback, RespondCommit
  <2>7. ASSUME CallFails(j) PROVE Goal
    BY <2>2, <2>7 DEF CallFails
  <2>8. ASSUME k = j PROVE Goal
    BY <1>7, <2>5, <2>6, <2>7, <2>8
  <2> QED BY <2>1, <2>8
<1>8. ASSUME Restart PROVE Goal
  BY <1>2, <1>8, IdleShape DEF Restart
<1> HIDE DEF Goal
<1>9. Goal
  BY <1>1, <1>7, <1>8 DEF Next, vars, Confirm, ExpireDeposits, Complete, RejectLate,
                          DepositHoursPass
<1> QED BY <1>9 DEF Goal

\* An order number that was charged stays charged as it was.
LEMMA ChargedSteps ==
  ASSUME IInv, [Next]_vars
  PROVE  \/ charged' = charged
         \/ \E k \in Calls :
              /\ call[k].op = "PAY"
              /\ \A t \in Types : charged'[t] =
                   IF t = call[k].type /\ charged[t] = 0 THEN call[k].amount ELSE charged[t]
<1>1. CASE charged' = charged
  BY <1>1
<1>2. ASSUME NEW k \in Calls, call[k].op = "PAY", charged' = Taken(k)
      PROVE  \A t \in Types : charged'[t] =
               IF t = call[k].type /\ charged[t] = 0 THEN call[k].amount ELSE charged[t]
  BY <1>2, TakenColumns
<1> QED BY <1>1, <1>2
        DEF Next, Arrive, Proceed, vars, PayCheck, PayApproved, PayNotApproved, PayDeposit, Pay,
            PayConflict, ProposeExtraChargeLock, ProposeExtraCharge, UpdateExtraChargeLock,
            UpdateExtraCharge, ExtraChargeRefused, RespondExtraCharges, RespondCommit,
            RequestPayment, CallFails, Restart, Confirm, ExpireDeposits, Complete, RejectLate,
            DepositHoursPass

LEMMA LaterStatus ==
  ASSUME IInv, [Next]_vars, status \in {"COMPLETED", "REJECTED"}
  PROVE  status' \in {"COMPLETED", "REJECTED"} /\ deposit' = deposit
BY DEF Next, Arrive, Proceed, vars, PayCheck, PayApproved, PayNotApproved, PayDeposit, Pay,
       PayConflict, ProposeExtraChargeLock, ProposeExtraCharge, UpdateExtraChargeLock,
       UpdateExtraCharge, ExtraChargeRefused, RespondExtraCharges, RespondCommit,
       RequestPayment, CallFails, Restart, Confirm, ExpireDeposits, Complete, RejectLate,
       DepositHoursPass, DepositDue

-----------------------------------------------------------------------------
(* Sums of charges.                                                        *)

\* The sums after a step.
SumOfNext(cs) == SumFunctionOnSet(AmountOf', cs)

LEMMA ChargeAmounts ==
  ASSUME ColumnsOK
  PROVE  \A c \in Charges : AmountOf[c] = charge[c].amount /\ AmountOf[c] \in Nat
BY PaymentConstantsOK DEF ColumnsOK, AmountOf

LEMMA ChargeAmountsNext ==
  ASSUME ColumnsOK'
  PROVE  \A c \in Charges : AmountOf'[c] = charge'[c].amount /\ AmountOf'[c] \in Nat
BY PaymentConstantsOK DEF ColumnsOK, AmountOf

LEMMA ChargesFinite == \A cs \in SUBSET Charges : IsFiniteSet(cs)
BY PaymentConstantsOK, FS_Subset

LEMMA SumOfNat == ASSUME ColumnsOK PROVE \A cs \in SUBSET Charges : SumOf(cs) \in Nat
BY ChargeAmounts, ChargesFinite, SumNat DEF SumOf

LEMMA SumOfNatNext ==
  ASSUME ColumnsOK'
  PROVE  \A cs \in SUBSET Charges : SumOfNext(cs) \in Nat
BY ChargeAmountsNext, ChargesFinite, SumNat DEF SumOfNext

\* The sum of what stays as it was is at most the sum of a larger set later.
LEMMA SumOfKept ==
  ASSUME ColumnsOK, ColumnsOK', NEW cs \in SUBSET Charges, NEW ds \in SUBSET Charges,
         cs \subseteq ds, \A c \in cs : charge'[c].amount = charge[c].amount
  PROVE  SumOf(cs) <= SumOfNext(ds)
<1>1. IsFiniteSet(cs) /\ IsFiniteSet(ds)
  BY ChargesFinite
<1>2. SumOf(cs) = SumOfNext(cs)
  BY <1>1, ChargeAmounts, ChargeAmountsNext, SumSame DEF SumOf, SumOfNext
<1>3. \A c \in ds : AmountOf'[c] \in Nat
  BY ChargeAmountsNext
<1> QED BY <1>1, <1>2, <1>3, SumGrows DEF SumOfNext

\* ... and at least the sum of a smaller one.
LEMMA SumOfLeft ==
  ASSUME ColumnsOK, ColumnsOK', NEW cs \in SUBSET Charges, NEW ds \in SUBSET Charges,
         ds \subseteq cs, \A c \in ds : charge'[c].amount = charge[c].amount
  PROVE  SumOfNext(ds) <= SumOf(cs)
<1>1. IsFiniteSet(cs) /\ IsFiniteSet(ds)
  BY ChargesFinite
<1>2. SumOf(ds) = SumOfNext(ds)
  BY <1>1, ChargeAmounts, ChargeAmountsNext, SumSame DEF SumOf, SumOfNext
<1>3. \A c \in cs : AmountOf[c] \in Nat
  BY ChargeAmounts
<1> QED BY <1>1, <1>2, <1>3, SumGrows DEF SumOf

LEMMA BalanceIsPositive ==
  ASSUME ColumnsOK
  PROVE  /\ BalanceAmount \in Nat /\ 0 < BalanceAmount
         /\ Price - DepositAmount \in Nat /\ 0 < Price - DepositAmount
         /\ Price - DepositAmount <= BalanceAmount
<1>1. SumOf(WithStatus({"APPROVED"})) \in Nat
  BY SumOfNat DEF WithStatus
<1>2. Price \in Nat /\ DepositAmount \in Nat /\ DepositAmount < Price
  BY PaymentConstantsOK DEF DepositAmount
<1> QED BY <1>1, <1>2 DEF BalanceAmount

LEMMA BalanceIsPositiveNext ==
  ASSUME ColumnsOK' PROVE BalanceAmount' \in Nat /\ 0 < BalanceAmount'
<1>1. SumOfNext(WithStatus({"APPROVED"})') \in Nat
  BY SumOfNatNext DEF WithStatus
<1>2. Price \in Nat /\ DepositAmount \in Nat /\ DepositAmount < Price
  BY PaymentConstantsOK DEF DepositAmount
<1> QED BY <1>1, <1>2 DEF BalanceAmount, DepositAmount, SumOf, SumOfNext

\* Once the estimate is completed the balance only grows.
LEMMA BalanceGrows ==
  ASSUME IInv, IInv', [Next]_vars, status \in {"COMPLETED", "REJECTED"}
  PROVE  BalanceAmount <= BalanceAmount'
<1> DEFINE cs == WithStatus({"APPROVED"})
           ds == WithStatus({"APPROVED"})'
<1>1. \A c \in cs : c \in Charges /\ charge'[c] = charge[c]
  BY AnsweredStays DEF WithStatus
<1>2. cs \in SUBSET Charges /\ ds \in SUBSET Charges /\ cs \subseteq ds
  BY <1>1 DEF WithStatus
<1>3. SumOf(cs) <= SumOfNext(ds)
  <2> HIDE DEF cs, ds
  <2> QED BY <1>1, <1>2, SumOfKept DEF IInv
<1>4. SumOf(cs) \in Nat /\ SumOfNext(ds) \in Nat
  <2> HIDE DEF cs, ds
  <2> QED BY <1>2, SumOfNat, SumOfNatNext DEF IInv
<1>5. deposit' = deposit
  BY LaterStatus
<1>6. Price \in Nat /\ DepositAmount \in Nat
  BY PaymentConstantsOK DEF DepositAmount
<1> QED BY <1>3, <1>4, <1>5, <1>6 DEF BalanceAmount, DepositAmount, SumOf, SumOfNext

-----------------------------------------------------------------------------
(* The balance.                                                            *)

\* The amount of any payment is positive, so that what is charged is seen.
LEMMA PayAmounts ==
  ASSUME IInv, BalanceInv, NEW k \in Calls, call[k].op = "PAY"
  PROVE  call[k].amount \in Nat /\ 0 < call[k].amount
<1>1. call[k].type \in Types
  BY Fields DEF IInv, ShapesOK
<1>2. CASE call[k].type = "DEPOSIT"
  BY <1>2, DepositIsPositive DEF IInv, DepositCharged
<1>3. CASE call[k].type = "BALANCE"
  BY <1>3, BalanceIsPositive DEF IInv, BalanceInv, PaysBalance
<1> QED BY <1>1, <1>2, <1>3 DEF Types

\* What a step leaves of the charge of the balance, and what it may become.
LEMMA NextCharged ==
  ASSUME IInv, IInv', BalanceInv, [Next]_vars
  PROVE  /\ charged' \in [Types -> Nat]
         /\ charged["BALANCE"] > 0 => charged'["BALANCE"] = charged["BALANCE"]
         /\ charged'["BALANCE"] > 0 =>
              /\ status' \in {"COMPLETED", "REJECTED"}
              /\ charged'["BALANCE"] \in Price - DepositAmount..BalanceAmount'
<1>1. BalanceAmount \in Nat /\ BalanceAmount' \in Nat /\ Price - DepositAmount \in Nat
  BY BalanceIsPositive, BalanceIsPositiveNext DEF IInv
<1>2. charged \in [Types -> Nat] /\ charged["BALANCE"] \in Nat
  BY DEF BalanceInv, Types
<1>3. CASE charged' = charged
  BY <1>1, <1>2, <1>3, LaterStatus, BalanceGrows DEF BalanceInv
<1>4. ASSUME NEW k \in Calls, call[k].op = "PAY",
             \A t \in Types : charged'[t] =
               IF t = call[k].type /\ charged[t] = 0 THEN call[k].amount ELSE charged[t]
      PROVE  /\ charged' \in [Types -> Nat]
             /\ charged["BALANCE"] > 0 => charged'["BALANCE"] = charged["BALANCE"]
             /\ charged'["BALANCE"] > 0 =>
                  /\ status' \in {"COMPLETED", "REJECTED"}
                  /\ charged'["BALANCE"] \in Price - DepositAmount..BalanceAmount'
  <2>1. call[k].amount \in Nat
    BY <1>4, PayAmounts
  <2>2. charged' \in [Types -> Nat]
    <3>1. charged' = [t \in Types |-> charged'[t]]
      BY DEF IInv, ColumnsOK
    <3>2. \A t \in Types : charged'[t] \in Nat
      BY <1>2, <1>4, <2>1
    <3> QED BY <3>1, <3>2
  <2>3. charged'["BALANCE"] =
          IF "BALANCE" = call[k].type /\ charged["BALANCE"] = 0
          THEN call[k].amount ELSE charged["BALANCE"]
    BY <1>4 DEF Types
  <2>4. CASE charged["BALANCE"] > 0
    BY <1>1, <1>2, <2>2, <2>3, <2>4, LaterStatus, BalanceGrows DEF BalanceInv
  <2>5. CASE charged["BALANCE"] = 0 /\ call[k].type = "BALANCE"
    <3>1. /\ status \in {"COMPLETED", "REJECTED"}
          /\ call[k].amount \in Price - DepositAmount..BalanceAmount
      BY <1>4, <2>5 DEF BalanceInv, PaysBalance
    <3> QED BY <1>1, <2>1, <2>2, <2>3, <2>5, <3>1, LaterStatus, BalanceGrows
  <2>6. CASE charged["BALANCE"] = 0 /\ call[k].type # "BALANCE"
    BY <2>2, <2>3, <2>6
  <2> QED BY <1>2, <2>4, <2>5, <2>6
<1> QED BY <1>3, <1>4, ChargedSteps

LEMMA NextBalance == IInv /\ IInv' /\ BalanceInv /\ [Next]_vars => BalanceInv'
<1> SUFFICES ASSUME IInv, IInv', BalanceInv, [Next]_vars PROVE BalanceInv'
  OBVIOUS
<1>1. /\ BalanceAmount \in Nat /\ BalanceAmount' \in Nat
      /\ Price - DepositAmount \in Nat /\ 0 < Price - DepositAmount
      /\ Price - DepositAmount <= BalanceAmount
  BY BalanceIsPositive, BalanceIsPositiveNext DEF IInv
<1>2. charged' \in [Types -> Nat] /\ charged'["BALANCE"] \in Nat /\ charged["BALANCE"] \in Nat
  BY NextCharged DEF BalanceInv, Types
<1>3. /\ charged'["BALANCE"] <= BalanceAmount'
      /\ charged'["BALANCE"] > 0 => charged'["BALANCE"] >= Price - DepositAmount
  BY <1>1, <1>2, NextCharged
<1>4. payment' = "PAID" => charged'["BALANCE"] > 0
  <2>1. CASE payment = "PAID"
    BY <2>1, NextCharged DEF BalanceInv
  <2>2. ASSUME NEW k \in Calls, Pay(k) PROVE charged'["BALANCE"] > 0
    <3>1. PaysBalance(call[k]) /\ call[k].approved
      BY <2>2 DEF Pay, MayRecord, PaysBalance
    <3> QED BY <3>1, NextCharged DEF BalanceInv
  <2>3. payment' # "PAID" \/ payment = "PAID" \/ \E k \in Calls : Pay(k)
    BY DEF Next, Arrive, Proceed, vars, PayCheck, PayApproved, PayNotApproved, PayDeposit,
           PayConflict, ProposeExtraChargeLock, ProposeExtraCharge, UpdateExtraChargeLock,
           UpdateExtraCharge, ExtraChargeRefused, RespondExtraCharges, RespondCommit,
           RequestPayment, CallFails, Restart, Confirm, ExpireDeposits, Complete,
           RejectLate, DepositHoursPass
  <2> QED BY <2>1, <2>2, <2>3
<1>5. ASSUME NEW k \in Calls, PaysBalance(call'[k])
      PROVE  /\ status' \in {"COMPLETED", "REJECTED"}
             /\ call'[k].amount \in Price - DepositAmount..BalanceAmount'
             /\ call'[k].approved => charged'["BALANCE"] > 0
  <2>1. CASE call'[k] = call[k]
    <3>1. /\ status \in {"COMPLETED", "REJECTED"}
          /\ call[k].amount \in Price - DepositAmount..BalanceAmount
          /\ (call[k].approved => charged["BALANCE"] > 0)
      BY <1>5, <2>1 DEF BalanceInv
    <3> QED BY <1>1, <2>1, <3>1, LaterStatus, BalanceGrows, NextCharged
  <2>2. CASE PayCheck(k, "BALANCE") /\ call'[k].amount = BalanceAmount /\ ~call'[k].approved
    <3>1. status \in {"COMPLETED", "REJECTED"}
      BY <2>2 DEF PayCheck, Payable, PaymentStage
    <3> QED BY <1>1, <2>2, <3>1, LaterStatus, BalanceGrows
  <2>3. CASE PayApproved(k) /\ PaysBalance(call[k]) /\ call'[k].amount = call[k].amount
    <3>1. /\ status \in {"COMPLETED", "REJECTED"}
          /\ call[k].amount \in Price - DepositAmount..BalanceAmount
      BY <2>3 DEF BalanceInv
    <3>2. charged'["BALANCE"] = IF charged["BALANCE"] = 0 THEN call[k].amount
                                ELSE charged["BALANCE"]
      BY <2>3, TakenColumns DEF PayApproved, PaysBalance, Types
    <3>3. charged'["BALANCE"] > 0
      BY <1>1, <1>2, <3>1, <3>2
    <3> QED BY <1>1, <2>3, <3>1, <3>3, LaterStatus, BalanceGrows
  <2> QED BY <1>5, <2>1, <2>2, <2>3, NewCalls
<1> QED BY <1>2, <1>3, <1>4, <1>5, NextCharged DEF BalanceInv

-----------------------------------------------------------------------------
(* The limit of the extra charges.                                         *)

\* Where nobody writes a charge the sums that count only shrink.
LEMMA CountingShrinks ==
  ASSUME IInv, IInv', [Next]_vars, NEW X,
         charge' = charge \/ \E k \in Calls : RespondCommit(k)
  PROVE  SumOfNext(Counting' \ X) <= SumOf(Counting \ X)
<1> DEFINE cs == Counting \ X
           ds == Counting' \ X
<1>1. ASSUME NEW c \in Charges, charge'[c].status \in {"PROPOSED", "APPROVED"}
      PROVE  /\ charge[c].status \in {"PROPOSED", "APPROVED"}
             /\ charge'[c].amount = charge[c].amount
  <2>1. CASE charge' = charge
    BY <1>1, <2>1
  <2>2. ASSUME NEW k \in Calls, RespondCommit(k)
        PROVE  /\ charge[c].status \in {"PROPOSED", "APPROVED"}
               /\ charge'[c].amount = charge[c].amount
    BY <1>1, <2>2 DEF RespondCommit, IInv, ColumnsOK, AnswersHoldProposed
  <2> QED BY <2>1, <2>2
<1>2. cs \in SUBSET Charges /\ ds \in SUBSET Charges /\ ds \subseteq cs
      /\ \A c \in ds : charge'[c].amount = charge[c].amount
  BY <1>1 DEF Counting, WithStatus
<1>3. SumOfNext(ds) <= SumOf(cs)
  <2> HIDE DEF cs, ds
  <2> QED BY <1>2, SumOfLeft DEF IInv
<1> QED BY <1>3

\* A charge that is written counts with its amount, the others as before.
LEMMA CountingWith ==
  ASSUME IInv, IInv', NEW x \in Charges, charge'[x].status = "PROPOSED",
         \A c \in Charges : c # x => charge'[c] = charge[c]
  PROVE  SumOfNext(Counting') = charge'[x].amount + SumOf(Counting \ {x})
<1> DEFINE cs == Counting'
<1>1. x \in cs /\ cs \in SUBSET Charges /\ cs \ {x} = Counting \ {x}
  BY DEF Counting, WithStatus
<1>2. IsFiniteSet(cs) /\ IsFiniteSet(cs \ {x})
  BY <1>1, ChargesFinite
<1>3. \A c \in cs : AmountOf'[c] = charge'[c].amount /\ AmountOf'[c] \in Nat
  BY <1>1, ChargeAmountsNext DEF IInv
<1>4. SumOfNext(cs) = AmountOf'[x] + SumOfNext(cs \ {x})
  <2> HIDE DEF cs
  <2> QED BY <1>1, <1>2, <1>3, SumTakesOut DEF SumOfNext
<1>5. SumOfNext(cs \ {x}) = SumOf(cs \ {x})
  <2>1. \A c \in cs \ {x} : AmountOf'[c] = AmountOf[c]
    <3>1. \A c \in cs \ {x} : c \in Charges /\ c # x
      BY <1>1
    <3> QED BY <3>1, ChargeAmounts, ChargeAmountsNext DEF IInv
  <2> HIDE DEF cs
  <2> QED BY <1>2, <2>1, SumSame DEF SumOf, SumOfNext
<1> QED BY <1>1, <1>3, <1>4, <1>5

LEMMA MaxIsNat == ExtraChargeMax \in Nat
BY PaymentConstantsOK DEF ExtraChargeMax

LEMMA NextLimit == IInv /\ IInv' /\ LimitInv /\ [Next]_vars => LimitInv'
<1> SUFFICES ASSUME IInv, IInv', LimitInv, [Next]_vars PROVE LimitInv'
  OBVIOUS
<1>1. \A X : SumOf(Counting \ X) \in Nat /\ SumOfNext(Counting' \ X) \in Nat
  BY SumOfNat, SumOfNatNext DEF IInv, Counting, WithStatus
<1>2. Counting \ {} = Counting /\ Counting' \ {} = Counting'
  BY DEF Counting, WithStatus
<1>3. SumOf(Counting) \in Nat /\ SumOfNext(Counting') \in Nat
  BY <1>1, <1>2
<1>4. ASSUME NEW i \in Calls, NEW j \in Calls, Writes(call'[i]), Writes(call'[j]) PROVE i = j
  <2> SUFFICES ASSUME i # j PROVE FALSE
    OBVIOUS
  <2>1. call'[i] = call[i] \/ call'[j] = call[j]
    BY <1>4, OneMoves, IdleShape DEF Writes
  <2>2. ASSUME NEW a \in Calls, NEW b \in Calls, a # b, call'[a] = call[a],
               Writes(call[a]), Writes(call'[b]), call'[b] # call[b]
        PROVE  FALSE
    BY <2>2, NewCalls DEF Writes, ProposeExtraChargeLock, UpdateExtraChargeLock, EstimateRowFree
  <2> QED BY <1>4, <2>1, <2>2 DEF LimitInv
<1>5. ASSUME SumOfNext(Counting') <= ExtraChargeMax,
             \A k \in Calls : call'[k].op = "PROPOSE" =>
               call'[k].total \in Nat /\ SumOfNext(Counting') <= call'[k].total,
             \A k \in Calls : call'[k].op = "UPDATE" =>
               /\ call'[k].total \in Nat
               /\ SumOfNext(Counting' \ {call'[k].charge}) <= call'[k].total
      PROVE  LimitInv'
  BY <1>4, <1>5 DEF LimitInv, ChargesWithinLimit, Counting, SumOf, SumOfNext, ExtraChargeMax
<1>6. CASE charge' = charge \/ \E k \in Calls : RespondCommit(k)
  <2>1. \A X : SumOfNext(Counting' \ X) <= SumOf(Counting \ X)
    BY <1>6, CountingShrinks
  <2>2. SumOfNext(Counting') <= SumOf(Counting)
    BY <1>2, <2>1
  <2>3. SumOfNext(Counting') <= ExtraChargeMax
    BY <1>3, <2>2, MaxIsNat DEF LimitInv, ChargesWithinLimit, Counting
  <2>4. ASSUME NEW k \in Calls, call'[k].op = "PROPOSE"
        PROVE  call'[k].total \in Nat /\ SumOfNext(Counting') <= call'[k].total
    <3>1. CASE call'[k] = call[k]
      BY <1>3, <2>2, <2>4, <3>1 DEF LimitInv
    <3>2. CASE call'[k].total = SumOf(Counting)
      BY <1>3, <2>2, <3>2
    <3> QED BY <2>4, <3>1, <3>2, NewCalls DEF Writes
  <2>5. ASSUME NEW k \in Calls, call'[k].op = "UPDATE"
        PROVE  /\ call'[k].total \in Nat
               /\ SumOfNext(Counting' \ {call'[k].charge}) <= call'[k].total
    <3>1. CASE call'[k] = call[k]
      <4> DEFINE x == call[k].charge
      <4>1. call[k].op = "UPDATE" /\ call'[k].charge = x /\ call'[k].total = call[k].total
        BY <2>5, <3>1
      <4>2. call[k].total \in Nat /\ SumOf(Counting \ {x}) <= call[k].total
        BY <4>1 DEF LimitInv
      <4>3. /\ SumOf(Counting \ {x}) \in Nat /\ SumOfNext(Counting' \ {x}) \in Nat
            /\ SumOfNext(Counting' \ {x}) <= SumOf(Counting \ {x})
        BY <1>1, <2>1
      <4> HIDE DEF x
      <4> QED BY <4>1, <4>2, <4>3
    <3>2. ASSUME NEW x \in Charges, call'[k].charge = x,
                 call'[k].total = SumOf(Counting \ {x})
          PROVE  /\ call'[k].total \in Nat
                 /\ SumOfNext(Counting' \ {call'[k].charge}) <= call'[k].total
      BY <1>1, <2>1, <3>2
    <3> QED BY <2>5, <3>1, <3>2, NewCalls DEF Writes
  <2> QED BY <1>5, <2>3, <2>4, <2>5
<1>7. ASSUME NEW k \in Calls, NEW x \in Charges, Writes(call[k]), call' = Become(k, Idle),
             charge'[x].status = "PROPOSED", charge'[x].amount = call[k].amount,
             \A c \in Charges : c # x => charge'[c] = charge[c],
             SumOf(Counting \ {x}) <= call[k].total, call[k].total \in Nat, WithinLimit(k)
      PROVE  LimitInv'
  <2>1. \A j \in Calls : ~Writes(call'[j])
    <3>1. call'[k] = Idle /\ \A j \in Calls : j # k => call'[j] = call[j]
      BY <1>7, BecomeAt DEF IInv
    <3> QED BY <1>7, <3>1, IdleShape DEF LimitInv, Writes
  <2>2. SumOfNext(Counting') = charge'[x].amount + SumOf(Counting \ {x})
    BY <1>7, CountingWith
  <2>3. charge'[x].amount \in Nat
    BY PaymentConstantsOK DEF IInv, ColumnsOK
  <2>4. SumOfNext(Counting') <= ExtraChargeMax
    <3>1. SumOf(Counting \ {x}) \in Nat
      BY <1>1
    <3> QED BY <1>7, <2>2, <2>3, <3>1, MaxIsNat DEF WithinLimit
  <2> QED BY <1>5, <2>1, <2>4 DEF Writes
<1>8. ASSUME NEW k \in Calls, NEW x \in Charges, ProposeExtraCharge(k, x) PROVE LimitInv'
  <2>1. /\ Writes(call[k]) /\ call' = Become(k, Idle) /\ WithinLimit(k)
        /\ charge'[x].status = "PROPOSED" /\ charge'[x].amount = call[k].amount
        /\ \A c \in Charges : c # x => charge'[c] = charge[c]
    BY <1>8 DEF ProposeExtraCharge, Writes, IInv, ColumnsOK
  <2>2. Counting \ {x} = Counting
    BY <1>8 DEF ProposeExtraCharge, NoCharge, Counting, WithStatus
  <2>3. SumOf(Counting \ {x}) <= call[k].total /\ call[k].total \in Nat
    BY <1>8, <2>2 DEF LimitInv, ProposeExtraCharge
  <2> QED BY <1>7, <2>1, <2>3
<1>9. ASSUME NEW k \in Calls, UpdateExtraCharge(k) PROVE LimitInv'
  <2> DEFINE x == call[k].charge
  <2>1. x \in Charges
    BY <1>9, Fields DEF UpdateExtraCharge, IInv, ShapesOK
  <2>2. /\ Writes(call[k]) /\ call' = Become(k, Idle) /\ WithinLimit(k)
        /\ charge'[x].status = "PROPOSED" /\ charge'[x].amount = call[k].amount
        /\ \A c \in Charges : c # x => charge'[c] = charge[c]
    BY <1>9, <2>1 DEF UpdateExtraCharge, MayUpdate, Writes, IInv, ColumnsOK
  <2>3. SumOf(Counting \ {x}) <= call[k].total /\ call[k].total \in Nat
    BY <1>9 DEF LimitInv, UpdateExtraCharge
  <2> HIDE DEF x
  <2> QED BY <1>7, <2>1, <2>2, <2>3
<1> QED BY <1>6, <1>8, <1>9, ChargeSteps

-----------------------------------------------------------------------------
(* The theorems about money.                                               *)

LEMMA InitMoney == Init => MoneyInv
<1> SUFFICES ASSUME Init PROVE MoneyInv
  OBVIOUS
<1>1. IInv
  BY InitInv
<1>2. \A k \in Calls : call[k].op = "IDLE"
  BY IdleShape DEF Init
<1>3. charged \in [Types -> Nat] /\ charged["BALANCE"] = 0
  BY DEF Init, Types
<1>4. BalanceInv
  BY <1>1, <1>2, <1>3, BalanceIsPositive DEF BalanceInv, PaysBalance, IInv, Init
<1>5. Counting = {}
  BY DEF Init, NoCharge, Counting, WithStatus
<1>6. SumOf(Counting) = 0
  BY <1>5, FS_EmptySet, SumDef DEF SumOf
<1>7. LimitInv
  BY <1>2, <1>6, MaxIsNat DEF LimitInv, Writes, ChargesWithinLimit, Counting
<1> QED BY <1>4, <1>7 DEF MoneyInv, Init

LEMMA NextOverdue == overdue \in BOOLEAN /\ [Next]_vars => overdue' \in BOOLEAN
BY DEF Next, Arrive, Proceed, vars, PayCheck, PayApproved, PayNotApproved, PayDeposit, Pay,
       PayConflict, ProposeExtraChargeLock, ProposeExtraCharge, UpdateExtraChargeLock,
       UpdateExtraCharge, ExtraChargeRefused, RespondExtraCharges, RespondCommit,
       RequestPayment, CallFails, Restart, Confirm, ExpireDeposits, Complete, RejectLate,
       DepositHoursPass

LEMMA MoneyCorrect == Spec => [](IInv /\ MoneyInv)
<1>1. IInv /\ MoneyInv /\ [Next]_vars => IInv' /\ MoneyInv'
  BY NextInv, NextBalance, NextLimit, NextOverdue DEF MoneyInv
<1> QED BY <1>1, InitInv, InitMoney, PTL DEF Spec

LEMMA CallTyped ==
  ASSUME NEW c, CallShape(c),
         c.op = "PAY" => c.amount \in Int,
         c.op \in {"PROPOSE", "UPDATE"} => c.total \in Int
  PROVE  c \in CallStates
<1>1. CASE c = Idle
  BY <1>1 DEF CallStates
<1>2. ASSUME NEW t \in Types, NEW a \in BOOLEAN,
             c = [op |-> "PAY", type |-> t, amount |-> c.amount, approved |-> a]
      PROVE  c \in CallStates
  <2>1. c.op = "PAY"
    BY <1>2
  <2> DEFINE n == c.amount
  <2>2. n \in Int /\ c = [op |-> "PAY", type |-> t, amount |-> n, approved |-> a]
    BY <1>2, <2>1
  <2> HIDE DEF n
  <2> QED BY <2>2 DEF CallStates
<1>3. ASSUME NEW t \in Types, NEW x \in {"PAID", "ALREADY_PAID", "PAYMENT_FAILED"},
             c = [op |-> "ANSWERED", type |-> t, answer |-> x]
      PROVE  c \in CallStates
  BY <1>3 DEF CallStates
<1>4. ASSUME NEW a \in Amounts, c = [op |-> "PROPOSE", amount |-> a, total |-> c.total]
      PROVE  c \in CallStates
  <2>1. c.op = "PROPOSE"
    BY <1>4
  <2> DEFINE n == c.total
  <2>2. n \in Int /\ c = [op |-> "PROPOSE", amount |-> a, total |-> n]
    BY <1>4, <2>1
  <2> HIDE DEF n
  <2> QED BY <2>2 DEF CallStates
<1>5. ASSUME NEW x \in Charges, NEW a \in Amounts,
             c = [op |-> "UPDATE", charge |-> x, amount |-> a, total |-> c.total]
      PROVE  c \in CallStates
  <2>1. c.op = "UPDATE"
    BY <1>5
  <2> DEFINE n == c.total
  <2>2. n \in Int /\ c = [op |-> "UPDATE", charge |-> x, amount |-> a, total |-> n]
    BY <1>5, <2>1
  <2> HIDE DEF n
  <2> QED BY <2>2 DEF CallStates
<1>6. ASSUME NEW cs \in SUBSET Charges, NEW d \in {"APPROVED", "REJECTED"},
             c = [op |-> "RESPOND", charges |-> cs, decision |-> d]
      PROVE  c \in CallStates
  BY <1>6 DEF CallStates
<1> QED BY <1>1, <1>2, <1>3, <1>4, <1>5, <1>6 DEF CallShape

\* Every column and every call under way has its type, whatever the price and
\* however many calls and charges there are.
THEOREM PaymentTypeCorrect == Spec => []TypeOK
<1>1. ASSUME IInv, MoneyInv PROVE TypeOK
  <2>1. ASSUME NEW k \in Calls PROVE call[k] \in CallStates
    <3>1. CallShape(call[k])
      BY <1>1 DEF IInv, ShapesOK
    <3>2. call[k].op = "PAY" => call[k].amount \in Int
      BY <1>1, PayAmounts DEF MoneyInv
    <3>3. call[k].op \in {"PROPOSE", "UPDATE"} => call[k].total \in Int
      <4>1. call[k].op \in {"PROPOSE", "UPDATE"} => call[k].total \in Nat
        BY <1>1, Zenon DEF MoneyInv, LimitInv
      <4> QED BY <4>1
    <3> QED BY <3>1, <3>2, <3>3, CallTyped
  <2>2. call \in [Calls -> CallStates]
    BY <1>1, <2>1 DEF IInv, ShapesOK
  <2>3. charged \in [Types -> Int]
    BY <1>1 DEF MoneyInv, BalanceInv
  <2> QED BY <1>1, <2>2, <2>3 DEF TypeOK, IInv, ColumnsOK, MoneyInv
<1> QED BY <1>1, MoneyCorrect, PTL

\* Nothing is recorded as paid, and no review opened, that Toss has not taken: the
\* deposit, and for the balance at least what the deposit left of the price.
THEOREM RecordedWasCharged == Spec => []RecordedIsCharged
<1>1. IInv /\ MoneyInv => RecordedIsCharged
  BY DEF IInv, DepositCharged, ReviewInv, MoneyInv, BalanceInv, RecordedIsCharged
<1> QED BY <1>1, MoneyCorrect, PTL

\* However payments are repeated and whatever answers are lost, the customer
\* never pays more than price and approved charges: the balance a payment was
\* started for is never more than the balance of today.
THEOREM NobodyOvercharged == Spec => []NeverOvercharged
<1>1. IInv /\ MoneyInv => NeverOvercharged
  BY DepositIsPositive DEF IInv, DepositCharged, MoneyInv, BalanceInv, NeverOvercharged
<1> QED BY <1>1, MoneyCorrect, PTL

\* The charges that were not turned down stay within a fifth of the price: the
\* lock of the estimate's row makes the sum a writer has read one that the other
\* writers cannot raise, and an answer only lowers it.
THEOREM LimitIsKept == Spec => []ChargesWithinLimit
<1>1. MoneyInv => ChargesWithinLimit
  BY DEF MoneyInv, LimitInv
<1> QED BY <1>1, MoneyCorrect, PTL

\* The stage the service computes and the conditions of the updates and lists
\* never disagree, for a balance is only recorded after the confirmation.
THEOREM StagesAlwaysAgree == Spec => []StagesAgree
<1>1. IInv => StagesAgree
  BY DEF IInv, ColumnsOK, Statuses, StageInv, StagesAgree, PaymentStage, DepositDue, BalanceDue
<1> QED BY <1>1, PaymentCorrect, PTL

-----------------------------------------------------------------------------
(* The life of the estimate's row.                                         *)

\* The payments and jobs of this module write status and deposit as
\* EstimateLife says: each step maps to one of its actions or changes neither.
THEOREM PaymentImplementsLife == Spec => ImplementsLife
<1>1. Init => Life!Init
  BY DEF Init, Life!Init
<1>2. [Next]_vars => [Life!Next]_(Life!vars)
  <2> SUFFICES ASSUME [Next]_vars PROVE Life!Next \/ UNCHANGED <<status, deposit>>
    BY DEF Life!vars
  <2> USE DEF Life!Next, Life!Move
  <2>1. ASSUME NEW k \in Calls, PayDeposit(k) PROVE Life!PayDeposit
    BY <2>1 DEF PayDeposit, DepositDue, Life!PayDeposit
  <2>2. Confirm => Life!Confirm
    BY DEF Confirm, Life!Confirm
  <2>3. ExpireDeposits => Life!Release
    BY DEF ExpireDeposits, DepositDue, Life!Release
  <2>4. Complete => Life!Complete
    BY DEF Complete, Life!Complete, Life!Settled
  <2>5. RejectLate => Life!Reject
    BY DEF RejectLate, Life!Reject
  <2> QED BY <2>1, <2>2, <2>3, <2>4, <2>5
          DEF Next, Arrive, Proceed, vars, PayCheck, PayApproved, PayNotApproved, Pay,
              PayConflict, ProposeExtraChargeLock, ProposeExtraCharge, UpdateExtraChargeLock,
              UpdateExtraCharge, ExtraChargeRefused, RespondExtraCharges, RespondCommit,
              RequestPayment, CallFails, Restart, DepositHoursPass
<1> QED BY <1>1, <1>2, PTL DEF Spec, ImplementsLife, Life!Spec
=============================================================================
