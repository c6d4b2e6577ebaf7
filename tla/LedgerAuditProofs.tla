-------------------------- MODULE LedgerAuditProofs -------------------------
(***************************************************************************)
(* Proofs about what the ledger adds up to: reconciliation finds nothing,  *)
(* what is reserved is what open jobs hold, the month's counter is what    *)
(* the month's reserves still cost, and the monthly cap is never passed.   *)
(***************************************************************************)
EXTENDS CreditLedgerProofs, FiniteSetTheorems, WellFoundedInduction

-----------------------------------------------------------------------------
(* Sums over finite sets *)

(* A nonempty set of numbers has a least one. *)
LEMMA LeastNat ==
    ASSUME NEW T \in SUBSET Nat, T # {}
    PROVE  \E n \in T : \A m \in T : n <= m
<1>1. IsWellFoundedOn(OpToRel(<, Nat), Nat)
  BY NatLessThanWellFounded
<1>2. PICK n \in T : \A m \in T : <<m, n>> \notin OpToRel(<, Nat)
  BY <1>1, WFMin
<1>3. \A m \in T : ~(m < n)
  BY <1>2 DEF OpToRel
<1> QED BY <1>3

(* What passes from every set less one element to the set holds of all    *)
(* finite sets, hence of a sum over them.                                  *)
LEMMA FiniteInduct ==
    ASSUME NEW S, IsFiniteSet(S), NEW T,
           \A s \in SUBSET S : (\A x \in s : s \ {x} \in T) => s \in T
    PROVE  S \in T
<1> DEFINE B == {s \in SUBSET S : s \notin T}
           C == {Cardinality(s) : s \in B}
<1> SUFFICES ASSUME S \notin T PROVE FALSE
  OBVIOUS
<1>1. \A s \in SUBSET S : IsFiniteSet(s) /\ Cardinality(s) \in Nat
  BY FS_Subset, FS_CardinalityType
<1>2. C \in SUBSET Nat /\ C # {}
  BY <1>1
<1>3. PICK n \in C : \A m \in C : n <= m
  <2> HIDE DEF C
  <2> QED BY <1>2, LeastNat
<1>4. PICK b \in B : n = Cardinality(b)
  BY <1>3
<1>5. PICK x \in b : b \ {x} \notin T
  BY <1>4
<1>6. Cardinality(b \ {x}) = Cardinality(b) - 1
  BY <1>1, <1>4, FS_RemoveElement
<1>7. b \ {x} \in B
  BY <1>5
<1>8. Cardinality(b \ {x}) \in C
  BY <1>7
<1>9. Cardinality(b) <= Cardinality(b \ {x})
  BY <1>3, <1>4, <1>8
<1> QED BY <1>1, <1>4, <1>6, <1>9

(* G sums f over every subset of S, whatever element is taken out first.   *)
IsSum(G, f, S) ==
    /\ G \in [SUBSET S -> Int]
    /\ G[{}] = 0
    /\ \A s \in SUBSET S : \A x \in s : G[s] = f[x] + G[s \ {x}]


IterOf(g, f, S) ==
    [s \in SUBSET S |-> IF s = {} THEN 0
                        ELSE f[CHOOSE x \in s : TRUE] + g[s \ {CHOOSE x \in s : TRUE}]]

(* The fold of the community modules, as the recursive function it is.     *)
LEMMA SumUnfold ==
    ASSUME NEW f, NEW S
    PROVE  SumFunctionOnSet(f, S) = (CHOOSE g : g = IterOf(g, f, S))[S]
BY DEF SumFunctionOnSet, FoldFunctionOnSet, MapThenFoldSet, IterOf

LEMMA SumValue ==
    ASSUME NEW S, IsFiniteSet(S), NEW f, NEW G, IsSum(G, f, S)
    PROVE  SumFunctionOnSet(f, S) = G[S]
<1> DEFINE H == CHOOSE g : g = IterOf(g, f, S)
<1>1. G = IterOf(G, f, S)
  <2>1. ASSUME NEW s \in SUBSET S
        PROVE  G[s] = IterOf(G, f, S)[s]
    <3>1. CASE s = {}
      BY <3>1 DEF IsSum, IterOf
    <3>2. CASE s # {}
      <4>1. (CHOOSE x \in s : TRUE) \in s
        BY <3>2
      <4> QED BY <3>2, <4>1 DEF IsSum, IterOf
    <3> QED BY <3>1, <3>2
  <2>2. G \in [SUBSET S -> Int]
    BY DEF IsSum
  <2>3. DOMAIN IterOf(G, f, S) = SUBSET S /\ IterOf(G, f, S) = [s \in SUBSET S |-> IterOf(G, f, S)[s]]
    BY DEF IterOf
  <2> HIDE DEF IterOf
  <2> QED BY <2>1, <2>2, <2>3
<1>2. H = IterOf(H, f, S)
  BY <1>1
<1> DEFINE T == {s \in SUBSET S : H[s] = G[s]}
<1>3. ASSUME NEW s \in SUBSET S, \A x \in s : s \ {x} \in T
      PROVE  s \in T
  <2> HIDE DEF H
  <2>1. CASE s = {}
    BY <1>2, <2>1 DEF IsSum, IterOf
  <2>2. CASE s # {}
    <3> DEFINE y == CHOOSE x \in s : TRUE
    <3>1. y \in s
      BY <2>2
    <3>2. H[s] = f[y] + H[s \ {y}]
      BY <1>2, <2>2 DEF IterOf
    <3>3. G[s] = f[y] + G[s \ {y}]
      BY <3>1 DEF IsSum
    <3> HIDE DEF y
    <3> QED BY <1>3, <3>1, <3>2, <3>3
  <2> QED BY <2>1, <2>2
<1>4. S \in T
  <2> HIDE DEF T
  <2> QED BY <1>3, FiniteInduct
<1> QED BY <1>4, SumUnfold

LEMMA SumExtends ==
    ASSUME NEW S, NEW f, \A x \in S : f[x] \in Int, NEW s \in SUBSET S, NEW x \in S \ s,
           NEW G, IsSum(G, f, s)
    PROVE  \E K : IsSum(K, f, s \cup {x})
<1> DEFINE U == s \cup {x}
           K == [r \in SUBSET U |-> IF x \in r THEN f[x] + G[r \ {x}] ELSE G[r]]
<1>1. \A r \in SUBSET U : r \ {x} \in SUBSET s /\ (x \notin r => r \in SUBSET s)
  OBVIOUS
<1>2. K \in [SUBSET U -> Int]
  BY <1>1 DEF IsSum
<1>3. K[{}] = 0
  BY DEF IsSum
<1>4. ASSUME NEW r \in SUBSET U, NEW y \in r
      PROVE  K[r] = f[y] + K[r \ {y}]
  <2>1. CASE y = x
    <3>1. K[r] = f[x] + G[r \ {x}] /\ K[r \ {x}] = G[r \ {x}]
      BY <1>1, <2>1
    <3> QED BY <2>1, <3>1
  <2>2. CASE y # x /\ x \in r
    <3>1. K[r] = f[x] + G[r \ {x}]
      BY <2>2
    <3>2. K[r \ {y}] = f[x] + G[(r \ {y}) \ {x}]
      BY <2>2
    <3>3. (r \ {y}) \ {x} = (r \ {x}) \ {y}
      OBVIOUS
    <3>4. G[r \ {x}] = f[y] + G[(r \ {x}) \ {y}]
      BY <1>1, <2>2 DEF IsSum
    <3>5. f[x] \in Int /\ f[y] \in Int /\ G[(r \ {x}) \ {y}] \in Int
      BY <1>1 DEF IsSum
    <3>6. \A a, b, c \in Int : a + (b + c) = b + (a + c)
      OBVIOUS
    <3>7. f[x] + (f[y] + G[(r \ {x}) \ {y}]) = f[y] + (f[x] + G[(r \ {x}) \ {y}])
      BY <3>5, <3>6
    <3> HIDE DEF K
    <3> QED BY <3>1, <3>2, <3>3, <3>4, <3>7
  <2>3. CASE x \notin r
    <3>1. K[r] = G[r] /\ K[r \ {y}] = G[r \ {y}]
      BY <2>3
    <3>2. G[r] = f[y] + G[r \ {y}]
      BY <1>1, <2>3 DEF IsSum
    <3> QED BY <3>1, <3>2
  <2> QED BY <2>1, <2>2, <2>3
<1> HIDE DEF K
<1>5. IsSum(K, f, U)
  BY <1>2, <1>3, <1>4 DEF IsSum
<1> QED BY <1>5

LEMMA SumExists ==
    ASSUME NEW S, IsFiniteSet(S), NEW f, \A x \in S : f[x] \in Int
    PROVE  \E G : IsSum(G, f, S)
<1> DEFINE T == {s \in SUBSET S : \E G : IsSum(G, f, s)}
<1>1. ASSUME NEW s \in SUBSET S, \A x \in s : s \ {x} \in T
      PROVE  s \in T
  <2>1. CASE s = {}
    <3> DEFINE Z == [r \in SUBSET s |-> 0]
    <3>1. Z \in [SUBSET s -> Int] /\ Z[{}] = 0
      OBVIOUS
    <3>2. \A r \in SUBSET s : r = {}
      BY <2>1
    <3> HIDE DEF Z
    <3>3. IsSum(Z, f, s)
      BY <3>1, <3>2 DEF IsSum
    <3> QED BY <3>3
  <2>2. CASE s # {}
    <3>1. PICK x \in s : s \ {x} \in T
      BY <1>1, <2>2
    <3>2. PICK G : IsSum(G, f, s \ {x})
      BY <3>1
    <3>3. x \in S \ (s \ {x}) /\ (s \ {x}) \cup {x} = s /\ s \ {x} \in SUBSET S
      BY <3>1
    <3>4. \E K : IsSum(K, f, (s \ {x}) \cup {x})
      BY <3>2, <3>3, SumExtends
    <3> QED BY <3>3, <3>4
  <2> QED BY <2>1, <2>2
<1>2. S \in T
  <2> HIDE DEF T
  <2> QED BY <1>1, FiniteInduct
<1> QED BY <1>2


(* The sum is an integer, 0 over nothing, and loses what is taken out.     *)
LEMMA SumFacts ==
    ASSUME NEW S, IsFiniteSet(S), NEW f, \A x \in S : f[x] \in Int
    PROVE  /\ SumFunctionOnSet(f, S) \in Int
           /\ S = {} => SumFunctionOnSet(f, S) = 0
           /\ \A x \in S : SumFunctionOnSet(f, S) = f[x] + SumFunctionOnSet(f, S \ {x})
<1>1. PICK G : IsSum(G, f, S)
  BY SumExists
<1>2. SumFunctionOnSet(f, S) = G[S]
  BY <1>1, SumValue
<1>3. G[S] \in Int /\ (S = {} => G[S] = 0)
  BY <1>1 DEF IsSum
<1>4. ASSUME NEW x \in S
      PROVE  SumFunctionOnSet(f, S) = f[x] + SumFunctionOnSet(f, S \ {x})
  <2> DEFINE R == S \ {x}
             K == [r \in SUBSET R |-> G[r]]
  <2>1. \A r \in SUBSET R : r \in SUBSET S /\ K[r] = G[r]
    OBVIOUS
  <2>2. K \in [SUBSET R -> Int]
    BY <1>1, <2>1 DEF IsSum
  <2>3. K[{}] = 0
    BY <1>1 DEF IsSum
  <2>4. ASSUME NEW r \in SUBSET R, NEW y \in r
        PROVE  K[r] = f[y] + K[r \ {y}]
    BY <1>1, <2>1 DEF IsSum
  <2>5. IsFiniteSet(R)
    BY FS_Subset
  <2>6. K[R] = G[R]
    OBVIOUS
  <2> HIDE DEF K
  <2>7. IsSum(K, f, R)
    BY <2>2, <2>3, <2>4 DEF IsSum
  <2>8. SumFunctionOnSet(f, R) = K[R]
    BY <2>5, <2>7, SumValue
  <2>9. G[S] = f[x] + G[R]
    BY <1>1 DEF IsSum
  <2> QED BY <1>2, <2>6, <2>8, <2>9
<1> QED BY <1>2, <1>3, <1>4

(* Only the values at the indices count.                                   *)
LEMMA SumSame ==
    ASSUME NEW S, IsFiniteSet(S), NEW f, NEW g,
           \A x \in S : f[x] \in Int /\ g[x] = f[x]
    PROVE  SumFunctionOnSet(g, S) = SumFunctionOnSet(f, S)
<1>1. PICK G : IsSum(G, f, S)
  BY SumExists
<1>2. IsSum(G, g, S)
  BY <1>1 DEF IsSum
<1> QED BY <1>1, <1>2, SumValue

(* The parts of a sum of natural numbers are at most the sum.              *)
LEMMA SumBounds ==
    ASSUME NEW S, IsFiniteSet(S), NEW f, \A x \in S : f[x] \in Nat
    PROVE  /\ SumFunctionOnSet(f, S) \in Nat
           /\ \A x \in S : f[x] <= SumFunctionOnSet(f, S)
<1>1. PICK G : IsSum(G, f, S)
  BY SumExists
<1> DEFINE T == {s \in SUBSET S : G[s] \in Nat}
<1>2. ASSUME NEW s \in SUBSET S, \A x \in s : s \ {x} \in T
      PROVE  s \in T
  <2>1. CASE s = {}
    BY <1>1, <2>1 DEF IsSum
  <2>2. CASE s # {}
    <3>1. PICK x \in s : s \ {x} \in T
      BY <1>2, <2>2
    <3>2. G[s] = f[x] + G[s \ {x}] /\ f[x] \in Nat /\ G[s \ {x}] \in Nat
      BY <1>1, <3>1 DEF IsSum
    <3> QED BY <3>2
  <2> QED BY <2>1, <2>2
<1>3. \A s \in SUBSET S : (\A x \in s : s \ {x} \in T) => s \in T
  BY <1>2
<1>4. ASSUME NEW s \in SUBSET S PROVE s \in T
  <2>1. IsFiniteSet(s)
    BY FS_Subset
  <2>2. \A r \in SUBSET s : (\A x \in r : r \ {x} \in T) => r \in T
    BY <1>3
  <2> HIDE DEF T
  <2> QED BY <2>1, <2>2, FiniteInduct
<1>5. ASSUME NEW x \in S PROVE f[x] <= G[S]
  <2>1. G[S] = f[x] + G[S \ {x}] /\ G[S \ {x}] \in Nat
    BY <1>1, <1>4 DEF IsSum
  <2> QED BY <2>1
<1>6. G[S] \in Nat
  BY <1>4
<1> QED BY <1>1, <1>5, <1>6, SumValue

-----------------------------------------------------------------------------
(* Sums over an account's rows *)

SumAt(u, S) == SumFunctionOnSet(AmountsOf(u), S)

LEMMA RowSums ==
    ASSUME NEW u \in Users, ledger[u] \in Seq(Entry), NEW S \in SUBSET Idx(u)
    PROVE  /\ IsFiniteSet(S) /\ SumAt(u, S) \in Int
           /\ S = {} => SumAt(u, S) = 0
           /\ \A i \in S : SumAt(u, S) = ledger[u][i].amount + SumAt(u, S \ {i})
<1>0. Len(ledger[u]) \in Nat /\ \A i \in Idx(u) : ledger[u][i] \in Entry
  BY DEF Idx
<1>1. \A i \in Idx(u) : ledger[u][i].amount \in Int
  BY <1>0 DEF Entry
<1>2. IsFiniteSet(Idx(u))
  BY <1>0, FS_Interval DEF Idx
<1>3. IsFiniteSet(S)
  BY <1>2, FS_Subset
<1>4. \A i \in S : AmountsOf(u)[i] = ledger[u][i].amount
  BY DEF AmountsOf
<1>5. \A i \in S : AmountsOf(u)[i] \in Int
  BY <1>1, <1>4
<1>6. /\ SumAt(u, S) \in Int /\ (S = {} => SumAt(u, S) = 0)
      /\ \A i \in S : SumAt(u, S) = AmountsOf(u)[i] + SumAt(u, S \ {i})
  BY <1>3, <1>5, SumFacts DEF SumAt
<1> QED BY <1>3, <1>4, <1>6

(* A new row changes no sum of old rows and adds its own amount to the     *)
(* sums it enters.                                                         *)
LEMMA AmountsNext ==
    ASSUME NEW u \in Users, ledger[u] \in Seq(Entry), NEW m, NEW e, Books(u, m, e),
           NEW S \in SUBSET Idx(u)
    PROVE  /\ SumFunctionOnSet(AmountsOf(u)', S) = SumAt(u, S)
           /\ SumFunctionOnSet(AmountsOf(u)', S \cup {Len(ledger[u]) + 1})
                = SumAt(u, S) + m.amount
<1>1. PICK n \in Nat : n = Len(ledger[u])
  BY BooksGrows
<1>2. /\ Idx(u)' = Idx(u) \cup {n + 1} /\ ledger'[u][n + 1] = e
      /\ \A i \in Idx(u) : ledger'[u][i] = ledger[u][i] /\ ledger[u][i] \in Entry
  BY <1>1, BooksGrows
<1>3. e.amount = m.amount /\ m.amount \in Int
  BY DEF Books, Movement
<1> DEFINE f == AmountsOf(u)'
<1>4. f[n + 1] = m.amount /\ \A i \in Idx(u) : f[i] = AmountsOf(u)[i] /\ f[i] \in Int
  BY <1>2, <1>3 DEF AmountsOf, Entry
<1> HIDE DEF f
<1>5. IsFiniteSet(S)
  BY RowSums
<1>6. SumFunctionOnSet(f, S) = SumAt(u, S)
  BY <1>4, <1>5, SumSame DEF SumAt
<1>7. n + 1 \notin S
  BY <1>1 DEF Idx
<1> DEFINE T == S \cup {n + 1}
<1>8. IsFiniteSet(T)
  BY <1>5, FS_AddElement
<1>9. \A i \in T : f[i] \in Int
  BY <1>3, <1>4
<1>10. n + 1 \in T /\ T \ {n + 1} = S
  BY <1>7
<1>11. SumFunctionOnSet(f, T) = f[n + 1] + SumFunctionOnSet(f, T \ {n + 1})
  <2> HIDE DEF T
  <2> QED BY <1>8, <1>9, <1>10, SumFacts
<1>12. SumFunctionOnSet(f, T) = SumAt(u, S) + m.amount
  <2>1. SumAt(u, S) \in Int
    BY RowSums
  <2>2. SumFunctionOnSet(f, T) = m.amount + SumAt(u, S)
    <3> HIDE DEF T
    <3> QED BY <1>4, <1>6, <1>10, <1>11
  <2> HIDE DEF T
  <2> QED BY <1>3, <2>1, <2>2
<1> QED BY <1>1, <1>6, <1>12 DEF f

(* What the rows of some types add up to, when a row is booked.            *)
LEMMA TotalNext ==
    ASSUME NEW u \in Users, ledger[u] \in Seq(Entry), NEW m, NEW e, Books(u, m, e), NEW types
    PROVE  /\ TotalOf(u, types) \in Int
           /\ TotalOf(u, types)' = TotalOf(u, types) + (IF m.type \in types THEN m.amount ELSE 0)
<1> DEFINE S == {i \in Idx(u) : ledger[u][i].type \in types}
<1>1. TotalOf(u, types) = SumAt(u, S) /\ SumAt(u, S) \in Int
  BY RowSums DEF TotalOf, SumAt
<1>2. TotalOf(u, types)' = SumFunctionOnSet(AmountsOf(u)', S')
  BY DEF TotalOf
<1>3. S' = S \cup (IF m.type \in types THEN {Len(ledger[u]) + 1} ELSE {})
  <2>1. PICK n \in Nat : n = Len(ledger[u])
    BY BooksGrows
  <2>2. /\ Idx(u)' = Idx(u) \cup {n + 1} /\ ledger'[u][n + 1] = e
        /\ \A i \in Idx(u) : ledger'[u][i] = ledger[u][i]
    BY <2>1, BooksGrows
  <2>3. e.type = m.type
    BY DEF Books
  <2>4. S' = {i \in Idx(u)' : ledger'[u][i].type \in types}
    OBVIOUS
  <2> QED BY <2>1, <2>2, <2>3, <2>4
<1>4. SumFunctionOnSet(AmountsOf(u)', S') = SumAt(u, S) + (IF m.type \in types THEN m.amount ELSE 0)
  <2>1. S \in SUBSET Idx(u)
    OBVIOUS
  <2> HIDE DEF S
  <2>2. CASE m.type \in types
    BY <1>3, <2>1, <2>2, AmountsNext
  <2>3. CASE m.type \notin types
    <3>1. S' = S
      BY <1>3, <2>3
    <3>2. SumFunctionOnSet(AmountsOf(u)', S) = SumAt(u, S)
      BY <2>1, AmountsNext
    <3> QED BY <1>1, <2>3, <3>1, <3>2
  <2> QED BY <2>2, <2>3
<1> HIDE DEF S
<1> QED BY <1>1, <1>2, <1>4

-----------------------------------------------------------------------------
(* Reconciliation *)

Reconciled(u) == DerivedTotal(u) = account[u].available + account[u].reserved

LEMMA CommitReconciles ==
    ASSUME BooksInv, Reconciles, NEW s \in Sessions,
           NEW done \in SUBSET DOMAIN tx[s].legs, WriteLegs(s, done)
    PROVE  Reconciles'
<1> SUFFICES ASSUME NEW u \in Users PROVE Reconciled(u)'
  BY DEF Reconciles, Reconciled
<1>1. Reconciled(u) /\ ledger[u] \in Seq(Entry)
  BY DEF Reconciles, Reconciled, BooksInv, SettlementInv, TypeOK
<1>2. CASE account'[u] = account[u] /\ ledger'[u] = ledger[u]
  BY <1>1, <1>2 DEF Reconciled, DerivedTotal, Inflow, Captured, TotalOf, AmountsOf, Idx
<1>3. CASE u \in done
  <2>1. PICK e \in Entry : Books(u, MoveOf(s, u), e)
    BY <1>3, CommitCases DEF BooksInv
  <2>2. PICK m : m = MoveOf(s, u)
    OBVIOUS
  <2>3. m.available + m.reserved = Booking(m)
    BY <1>3, <2>2, NewRowAddsUp DEF BooksInv, MoveAddsUp
  <2>4. Books(u, m, e)
    BY <2>1, <2>2
  <2>5. /\ m.available \in Int /\ m.reserved \in Int /\ m.amount \in Int /\ m.type \in EntryTypes
        /\ account[u].available \in Int /\ account[u].reserved \in Int
        /\ account'[u].available = account[u].available + m.available
        /\ account'[u].reserved = account[u].reserved + m.reserved
    BY <2>4 DEF Books, Movement, Account
  <2>6. /\ Inflow(u) \in Int /\ Captured(u) \in Int
        /\ Inflow(u)' = Inflow(u) + (IF m.type \in External THEN m.amount ELSE 0)
        /\ Captured(u)' = Captured(u) + (IF m.type \in {"CAPTURE"} THEN m.amount ELSE 0)
    BY <1>1, <2>4, TotalNext DEF Inflow, Captured
  <2>7. Booking(m) = (IF m.type \in External THEN m.amount ELSE 0)
                        + (IF m.type \in {"CAPTURE"} THEN m.amount ELSE 0)
    BY <2>5 DEF Booking, EntryTypes, External, Settlements
  <2>8. DerivedTotal(u)' = DerivedTotal(u) + Booking(m)
    BY <2>5, <2>6, <2>7 DEF DerivedTotal
  <2>9. DerivedTotal(u) = account[u].available + account[u].reserved
    BY <1>1 DEF Reconciled
  <2>10. DerivedTotal(u)' = account'[u].available + account'[u].reserved
    BY <2>3, <2>5, <2>8, <2>9
  <2> QED BY <2>10 DEF Reconciled
<1> QED BY <1>2, <1>3, CommitCases DEF BooksInv

(* find_mismatches finds nothing: in every reachable state, everything     *)
(* that came in less everything captured is what the account holds.        *)
THEOREM NoMismatch == Spec => []Reconciles
<1>1. Init => Reconciles
  <2> SUFFICES ASSUME Init, NEW u \in Users PROVE DerivedTotal(u) = account[u].available + account[u].reserved
    BY DEF Reconciles
  <2>1. ledger[u] = <<>> /\ account[u].available = 0 /\ account[u].reserved = 0
    BY DEF Init, NewAccount
  <2>2. Idx(u) = {} /\ ledger[u] \in Seq(Entry)
    BY <2>1 DEF Idx
  <2>3. \A types : TotalOf(u, types) = 0
    <3>1. \A types : {i \in Idx(u) : ledger[u][i].type \in types} = {}
      BY <2>2
    <3>2. SumAt(u, {}) = 0
      BY <2>2, RowSums
    <3> QED BY <3>1, <3>2 DEF TotalOf, SumAt
  <2> QED BY <2>1, <2>3 DEF DerivedTotal, Inflow, Captured
<1>2. BooksInv /\ Reconciles /\ [Next]_vars => Reconciles'
  <2> SUFFICES ASSUME BooksInv, Reconciles, [Next]_vars PROVE Reconciles'
    OBVIOUS
  <2>1. ASSUME \A s \in Sessions : ~Writes(s) PROVE Reconciles'
    <3>1. /\ UNCHANGED ledger
          /\ \A u \in Users : /\ account'[u].available = account[u].available
                              /\ account'[u].reserved = account[u].reserved
      BY <2>1, OtherSteps DEF BooksInv, SettlementInv, Base
    <3> QED BY <3>1 DEF Reconciles, DerivedTotal, Inflow, Captured, TotalOf, AmountsOf, Idx
  <2> QED BY <2>1, CommitReconciles DEF Writes
<1> QED BY <1>1, <1>2, BooksInvariant, PTL DEF Spec

-----------------------------------------------------------------------------
(* What is reserved is what open jobs hold *)

LEMMA SettlementsNext ==
    ASSUME NEW u \in Users, ledger[u] \in Seq(Entry), NEW m, NEW e, Books(u, m, e), NEW j
    PROVE  /\ SettlementsOf(u, j)' = SettlementsOf(u, j) \cup
                 (IF m.job = j /\ m.type \in Settlements THEN {Len(ledger[u]) + 1} ELSE {})
           /\ CapturesOf(u, j)' = CapturesOf(u, j) \cup
                 (IF m.job = j /\ m.type = "CAPTURE" THEN {Len(ledger[u]) + 1} ELSE {})
<1>1. PICK n \in Nat : n = Len(ledger[u])
  BY BooksGrows
<1>2. /\ Idx(u)' = Idx(u) \cup {n + 1} /\ ledger'[u][n + 1] = e
      /\ \A i \in Idx(u) : ledger'[u][i] = ledger[u][i]
  BY <1>1, BooksGrows
<1>3. e.type = m.type /\ e.job = m.job
  BY DEF Books
<1>4. SettlementsOf(u, j)' = SettlementsOf(u, j) \cup
         (IF m.job = j /\ m.type \in Settlements THEN {n + 1} ELSE {})
  BY <1>2, <1>3 DEF SettlementsOf
<1>5. CapturesOf(u, j)' = CapturesOf(u, j) \cup
         (IF m.job = j /\ m.type = "CAPTURE" THEN {n + 1} ELSE {})
  <2>1. \A i \in SettlementsOf(u, j) : i \in Idx(u)
    BY DEF SettlementsOf
  <2>2. m.type = "CAPTURE" => m.type \in Settlements
    BY DEF Settlements
  <2>3. CapturesOf(u, j)' = {i \in SettlementsOf(u, j)' : ledger'[u][i].type = "CAPTURE"}
    BY DEF CapturesOf
  <2> QED BY <1>2, <1>3, <1>4, <2>1, <2>2, <2>3 DEF CapturesOf
<1> QED BY <1>1, <1>4, <1>5

(* No row of a job that nothing has settled is a settlement.               *)
LEMMA NothingSettled ==
    ASSUME BooksInv, NEW j \in Jobs, Unsettled(j)
    PROVE  SettlementsOf(Owner[j], j) = {}
BY DEF SettlementsOf, Settlements, Unsettled, Booked, Find, Rows, Idx

(* What each kind of row does to the reserves that are still open: those   *)
(* of other jobs stay as they are, a reserve opens its own, a settlement   *)
(* closes the one it rests on.                                             *)
OpensHold(u, m) ==
    /\ m.amount = -m.reserved
    /\ OpenHolds(u)' = OpenHolds(u) \cup {Len(ledger[u]) + 1}
    /\ SettlementsOf(u, m.job) = {}

ClosesHold(u, m) ==
    \E k \in OpenHolds(u) :
       /\ Settles(u, k, m)
       /\ m.reserved = ledger[u][k].amount
       /\ OpenHolds(u)' = OpenHolds(u) \ {k}

LEMMA OpenHoldsNext ==
    ASSUME BooksInv, NEW s \in Sessions,
           NEW done \in SUBSET DOMAIN tx[s].legs, WriteLegs(s, done), NEW u \in done,
           NEW m, m = MoveOf(s, u)
    PROVE  \/ m.type \in External /\ m.job = NoJob /\ m.reserved = 0
              /\ OpenHolds(u)' = OpenHolds(u)
           \/ m.type = "RESERVE" /\ m.job # NoJob /\ OpensHold(u, m)
           \/ m.type \in Settlements /\ m.job # NoJob /\ ClosesHold(u, m)
<1>1. PICK e \in Entry : u \in Users /\ Books(u, m, e)
  BY CommitBooks DEF BooksInv, Books
<1>2. ledger[u] \in Seq(Entry) /\ MoveAddsUp(u, m)
  BY <1>1, NewRowAddsUp DEF BooksInv, SettlementInv, TypeOK
<1>3. PICK n \in Nat : n = Len(ledger[u])
  BY <1>1, <1>2, BooksGrows
<1>4. /\ Idx(u)' = Idx(u) \cup {n + 1} /\ ledger'[u][n + 1] = e /\ n + 1 \notin Idx(u)
      /\ \A i \in Idx(u) : ledger'[u][i] = ledger[u][i] /\ ledger[u][i] \in Entry
  BY <1>1, <1>2, <1>3, BooksGrows DEF Idx
<1>5. e.type = m.type /\ e.job = m.job /\ m.type \in EntryTypes
  BY <1>1 DEF Books
<1>6. \A j : SettlementsOf(u, j)' = SettlementsOf(u, j) \cup
                (IF m.job = j /\ m.type \in Settlements THEN {n + 1} ELSE {})
  BY <1>1, <1>2, <1>3, SettlementsNext
<1>7. \A i : i \in OpenHolds(u)' <=>
                /\ i \in Idx(u)' /\ ledger'[u][i].type = "RESERVE"
                /\ \A j : j = ledger'[u][i].job => SettlementsOf(u, j)' = {}
  BY DEF OpenHolds, SettlementsOf
<1>8. CASE m.type \in External
  <2>1. m.job = NoJob /\ m.reserved = 0
    BY <1>2, <1>8 DEF MoveAddsUp
  <2>2. m.type \notin Settlements /\ m.type # "RESERVE"
    BY <1>8 DEF External, Settlements
  <2>3. OpenHolds(u)' = OpenHolds(u)
    BY <1>4, <1>5, <1>6, <1>7, <2>2 DEF OpenHolds
  <2> QED BY <1>8, <2>1, <2>3
<1>9. CASE m.type = "RESERVE"
  <2>1. m.job # NoJob /\ m.amount < 0 /\ m.reserved = -m.amount
    BY <1>2, <1>9 DEF MoveAddsUp
  <2>2. m.type \notin Settlements /\ m.amount \in Int
    BY <1>1, <1>9 DEF Books, Movement, Settlements
  <2>3. m.job \in Jobs /\ u = Owner[m.job] /\ NoDuplicate(m)
    BY <2>1, JobCommit
  <2>4. Unsettled(m.job)
    <3>1. Booked(m.job, "RESERVE") = {}
      BY <1>1, <1>9, <2>1, <2>3 DEF NoDuplicate, Booked, Find
    <3> QED BY <2>3, <3>1, SettledWasReserved
  <2>5. SettlementsOf(u, m.job) = {}
    BY <2>3, <2>4, NothingSettled
  <2>6. OpenHolds(u)' = OpenHolds(u) \cup {n + 1}
    BY <1>4, <1>5, <1>6, <1>7, <1>9, <2>2, <2>5 DEF OpenHolds
  <2>7. m.amount = -m.reserved
    BY <2>1, <2>2
  <2> QED BY <1>3, <1>9, <2>1, <2>5, <2>6, <2>7 DEF OpensHold
<1>10. CASE m.type \in Settlements
  <2>1. PICK k \in Idx(u) : Settles(u, k, m) /\ m.reserved = ledger[u][k].amount
    BY <1>2, <1>10 DEF MoveAddsUp
  <2>2. ledger[u][k].type = "RESERVE" /\ ledger[u][k].job = m.job
    BY <2>1 DEF Settles
  <2>3. m.job # NoJob
    BY <1>1, <2>1, <2>2 DEF BooksInv, RowsAddUp
  <2>4. m.job \in Jobs /\ u = Owner[m.job] /\ Unsettled(m.job)
    BY <1>10, <2>3, JobCommit
  <2>5. SettlementsOf(u, m.job) = {}
    BY <2>4, NothingSettled
  <2>6. k \in OpenHolds(u)
    BY <2>2, <2>5 DEF OpenHolds
  <2>7. m.type # "RESERVE"
    BY <1>10 DEF Settlements
  <2>8. \A i \in Idx(u) : ledger[u][i].type = "RESERVE" /\ ledger[u][i].job = m.job => i = k
    BY <1>1, <2>2 DEF BooksInv, ReservedOnce
  <2>9. OpenHolds(u)' = OpenHolds(u) \ {k}
    <3>1. SettlementsOf(u, m.job)' # {}
      BY <1>6, <1>10
    <3>2. \A j : j # m.job => SettlementsOf(u, j)' = SettlementsOf(u, j)
      BY <1>6
    <3>3. ASSUME NEW i \in OpenHolds(u)' PROVE i \in OpenHolds(u) \ {k}
      <4>1. i \in Idx(u) /\ ledger[u][i].type = "RESERVE" /\ ledger[u][i].job # m.job
        BY <1>4, <1>5, <1>7, <2>7, <3>1
      <4> QED BY <1>4, <1>7, <2>2, <3>2, <4>1 DEF OpenHolds
    <3>4. ASSUME NEW i \in OpenHolds(u) \ {k} PROVE i \in OpenHolds(u)'
      <4>1. i \in Idx(u) /\ ledger[u][i].type = "RESERVE" /\ SettlementsOf(u, ledger[u][i].job) = {}
        BY DEF OpenHolds
      <4>2. ledger[u][i].job # m.job
        BY <2>8, <4>1
      <4> QED BY <1>4, <1>7, <3>2, <4>1, <4>2
    <3> QED BY <3>3, <3>4
  <2> QED BY <1>10, <2>1, <2>3, <2>6, <2>9 DEF ClosesHold
<1> QED BY <1>5, <1>8, <1>9, <1>10 DEF EntryTypes

HeldOpen(u) == account[u].reserved = -SumAt(u, OpenHolds(u))

LEMMA CommitHoldsOpen ==
    ASSUME BooksInv, ReservedIsOpenHolds, NEW s \in Sessions,
           NEW done \in SUBSET DOMAIN tx[s].legs, WriteLegs(s, done)
    PROVE  ReservedIsOpenHolds'
<1> SUFFICES ASSUME NEW u \in Users PROVE HeldOpen(u)'
  BY DEF ReservedIsOpenHolds, HeldOpen, SumAt
<1>1. HeldOpen(u) /\ ledger[u] \in Seq(Entry)
  BY DEF ReservedIsOpenHolds, HeldOpen, SumAt, BooksInv, SettlementInv, TypeOK
<1>2. CASE account'[u] = account[u] /\ ledger'[u] = ledger[u]
  BY <1>1, <1>2 DEF HeldOpen, SumAt, AmountsOf, OpenHolds, SettlementsOf, Idx
<1>3. CASE u \in done
  <2>1. PICK m : m = MoveOf(s, u)
    OBVIOUS
  <2>2. PICK e \in Entry : Books(u, m, e)
    BY <1>3, <2>1, CommitCases DEF BooksInv
  <2>3. /\ m.reserved \in Int /\ m.amount \in Int /\ account[u].reserved \in Int
        /\ account'[u].reserved = account[u].reserved + m.reserved
    BY <2>2 DEF Books, Movement, Account
  <2>4. PICK S : S = OpenHolds(u)
    OBVIOUS
  <2>5. S \in SUBSET Idx(u)
    BY <2>4 DEF OpenHolds
  <2>6. SumAt(u, S) \in Int /\ account[u].reserved = -SumAt(u, S)
    BY <1>1, <2>4, <2>5, RowSums DEF HeldOpen
  <2>7. \A T \in SUBSET Idx(u) : SumFunctionOnSet(AmountsOf(u)', T) = SumAt(u, T)
    BY <1>1, <2>2, AmountsNext
  <2>8. SumFunctionOnSet(AmountsOf(u)', OpenHolds(u)') = SumAt(u, S) - m.reserved
    <3>1. CASE m.reserved = 0 /\ OpenHolds(u)' = S
      BY <2>5, <2>6, <2>7, <3>1
    <3>2. CASE OpensHold(u, m)
      <4>1. OpenHolds(u)' = S \cup {Len(ledger[u]) + 1} /\ m.amount = -m.reserved
        BY <2>4, <3>2 DEF OpensHold
      <4>2. SumFunctionOnSet(AmountsOf(u)', S \cup {Len(ledger[u]) + 1}) = SumAt(u, S) + m.amount
        BY <1>1, <2>2, <2>5, AmountsNext
      <4> QED BY <2>3, <2>6, <4>1, <4>2
    <3>3. CASE ClosesHold(u, m)
      <4>1. PICK k \in S : m.reserved = ledger[u][k].amount /\ OpenHolds(u)' = S \ {k}
        BY <2>4, <3>3 DEF ClosesHold
      <4>2. SumAt(u, S) = ledger[u][k].amount + SumAt(u, S \ {k})
        BY <1>1, <2>5, RowSums
      <4>3. S \ {k} \in SUBSET Idx(u)
        BY <2>5
      <4>4. SumFunctionOnSet(AmountsOf(u)', S \ {k}) = SumAt(u, S \ {k}) /\ SumAt(u, S \ {k}) \in Int
        BY <1>1, <2>7, <4>3, RowSums
      <4> QED BY <2>3, <2>6, <4>1, <4>2, <4>4
    <3> QED BY <1>3, <2>1, <2>4, <3>1, <3>2, <3>3, OpenHoldsNext
  <2>9. account'[u].reserved = -SumFunctionOnSet(AmountsOf(u)', OpenHolds(u)')
    BY <2>3, <2>6, <2>8
  <2> QED BY <2>9 DEF HeldOpen, SumAt
<1> QED BY <1>2, <1>3, CommitCases DEF BooksInv

(* reserved_balance is the sum of the reserves nothing has settled: an     *)
(* account without an open job has nothing locked.                         *)
THEOREM OnlyOpenJobsHold == Spec => []ReservedIsOpenHolds
<1>1. Init => ReservedIsOpenHolds
  <2> SUFFICES ASSUME Init, NEW u \in Users PROVE HeldOpen(u)
    BY DEF ReservedIsOpenHolds, HeldOpen, SumAt
  <2>1. ledger[u] = <<>> /\ account[u].reserved = 0
    BY DEF Init, NewAccount
  <2>2. Idx(u) = {} /\ ledger[u] \in Seq(Entry)
    BY <2>1 DEF Idx
  <2>3. OpenHolds(u) = {}
    BY <2>2 DEF OpenHolds
  <2>4. SumAt(u, {}) = 0
    BY <2>2, RowSums
  <2> QED BY <2>1, <2>3, <2>4 DEF HeldOpen
<1>2. BooksInv /\ ReservedIsOpenHolds /\ [Next]_vars => ReservedIsOpenHolds'
  <2> SUFFICES ASSUME BooksInv, ReservedIsOpenHolds, [Next]_vars PROVE ReservedIsOpenHolds'
    OBVIOUS
  <2>1. ASSUME \A s \in Sessions : ~Writes(s) PROVE ReservedIsOpenHolds'
    <3>1. /\ UNCHANGED ledger
          /\ \A u \in Users : account'[u].reserved = account[u].reserved
      BY <2>1, OtherSteps DEF BooksInv, SettlementInv, Base
    <3>2. ASSUME NEW u \in Users
          PROVE  AmountsOf(u)' = AmountsOf(u) /\ OpenHolds(u)' = OpenHolds(u)
      BY <3>1 DEF AmountsOf, OpenHolds, SettlementsOf, Idx
    <3> QED BY <3>1, <3>2 DEF ReservedIsOpenHolds
  <2> QED BY <2>1, CommitHoldsOpen DEF Writes
<1> QED BY <1>1, <1>2, BooksInvariant, PTL DEF Spec

-----------------------------------------------------------------------------
(* What a month's reserves still cost *)

LEMMA SumBump ==
    ASSUME NEW S, IsFiniteSet(S), NEW f, NEW g, NEW k \in S, NEW d \in Int,
           \A x \in S : f[x] \in Int, g[k] = f[k] + d,
           \A x \in S \ {k} : g[x] = f[x]
    PROVE  SumFunctionOnSet(g, S) = SumFunctionOnSet(f, S) + d
<1> DEFINE R == S \ {k}
<1>1. IsFiniteSet(R) /\ \A x \in R : f[x] \in Int /\ g[x] = f[x]
  BY FS_Subset
<1>2. \A x \in S : g[x] \in Int
  OBVIOUS
<1>3. SumFunctionOnSet(g, R) = SumFunctionOnSet(f, R)
  <2> HIDE DEF R
  <2> QED BY <1>1, SumSame
<1>4. SumFunctionOnSet(g, S) = g[k] + SumFunctionOnSet(g, R)
  BY <1>2, SumFacts
<1>5. SumFunctionOnSet(f, S) = f[k] + SumFunctionOnSet(f, R)
  BY SumFacts
<1>6. SumFunctionOnSet(f, R) \in Int /\ f[k] \in Int
  <2> HIDE DEF R
  <2> QED BY <1>1, SumFacts
<1> HIDE DEF R
<1> QED BY <1>3, <1>4, <1>5, <1>6

LEMMA SumAdd ==
    ASSUME NEW S, NEW T, NEW f, NEW g, NEW x,
           IsFiniteSet(S), x \notin S, T = S \cup {x},
           \A y \in S : f[y] \in Int /\ g[y] = f[y],
           g[x] \in Int
    PROVE  SumFunctionOnSet(g, T) = SumFunctionOnSet(f, S) + g[x]
<1>1. IsFiniteSet(T) /\ x \in T /\ T \ {x} = S /\ \A y \in T : g[y] \in Int
  BY FS_AddElement
<1>2. SumFunctionOnSet(g, S) = SumFunctionOnSet(f, S) /\ SumFunctionOnSet(f, S) \in Int
  BY SumSame, SumFacts
<1>3. SumFunctionOnSet(g, T) = g[x] + SumFunctionOnSet(g, T \ {x})
  BY <1>1, SumFacts
<1>4. SumFunctionOnSet(g, T) = g[x] + SumFunctionOnSet(f, S)
  BY <1>1, <1>2, <1>3
<1> QED BY <1>2, <1>4

(* A job is captured at most once, for no less than nothing.               *)
LEMMA CapturedSum ==
    ASSUME BooksInv, NEW u \in Users, NEW j
    PROVE  /\ CapturesOf(u, j) \in SUBSET Idx(u)
           /\ SumAt(u, CapturesOf(u, j)) \in Int
           /\ SumAt(u, CapturesOf(u, j)) <= 0
<1>1. CapturesOf(u, j) \in SUBSET Idx(u)
  BY DEF CapturesOf, SettlementsOf
<1>2. ledger[u] \in Seq(Entry)
  BY DEF BooksInv, SettlementInv, TypeOK
<1>3. PICK C : C = CapturesOf(u, j)
  OBVIOUS
<1>4. \A c \in C : c \in Idx(u) /\ ledger[u][c].job = j /\ ledger[u][c].type = "CAPTURE"
  BY <1>3 DEF CapturesOf, SettlementsOf
<1>5. \A c, d \in C : c = d
  BY <1>4 DEF BooksInv, SettlementInv, SettledOnce, Settlements
<1>6. C \in SUBSET Idx(u) /\ SumAt(u, C) \in Int
  BY <1>1, <1>2, <1>3, RowSums
<1>7. SumAt(u, C) <= 0
  <2>1. CASE C = {}
    BY <1>2, <1>6, <2>1, RowSums
  <2>2. CASE C # {}
    <3>1. PICK c \in C : C \ {c} = {}
      BY <1>5, <2>2
    <3>2. SumAt(u, C) = ledger[u][c].amount + SumAt(u, C \ {c})
      BY <1>2, <1>6, RowSums
    <3>3. SumAt(u, C \ {c}) = 0
      <4>1. {} \in SUBSET Idx(u)
        OBVIOUS
      <4>2. SumAt(u, {}) = 0
        BY <1>2, <4>1, RowSums
      <4> QED BY <3>1, <4>2
    <3>4. \E x \in Int : ledger[u][c].amount \in x..0
      <4>1. "CAPTURE" \in Settlements /\ "CAPTURE" # "RELEASE"
        BY DEF Settlements
      <4>2. PICK k \in 1..(c - 1) : ledger[u][c].amount \in ledger[u][k].amount..0
        BY <1>4, <4>1 DEF BooksInv, SettlementFollowsReserve
      <4>3. k \in Idx(u)
        BY <1>2, <1>4 DEF Idx
      <4>4. ledger[u][k] \in Entry
        BY <1>2, <4>3 DEF Idx
      <4> QED BY <4>2, <4>4 DEF Entry
    <3> QED BY <3>2, <3>3, <3>4
  <2> QED BY <2>1, <2>2
<1> QED BY <1>1, <1>3, <1>6, <1>7

IsReserve(u, i) == i \in Idx(u) /\ ledger[u][i].type = "RESERVE"

LEMMA NetSpendNat ==
    BooksInv => \A u \in Users : \A i : IsReserve(u, i) => NetSpend(u, i) \in Nat
<1> SUFFICES ASSUME BooksInv, NEW u \in Users, NEW i, IsReserve(u, i)
             PROVE  NetSpend(u, i) \in Nat
  OBVIOUS
<1>1. ledger[u][i] \in Entry /\ ledger[u][i].amount < 0
  BY DEF BooksInv, SettlementInv, TypeOK, RowsAddUp, IsReserve, Idx
<1>2. -ledger[u][i].amount \in Nat
  BY <1>1 DEF Entry
<1>3. PICK j : j = ledger[u][i].job
  OBVIOUS
<1>4. SumAt(u, CapturesOf(u, j)) \in Int /\ SumAt(u, CapturesOf(u, j)) <= 0
  BY CapturedSum
<1>5. -SumAt(u, CapturesOf(u, j)) \in Nat
  BY <1>4
<1> QED BY <1>2, <1>3, <1>5 DEF NetSpend, SumAt

LEMMA NetSpendNatNext ==
    BooksInv' => \A u \in Users : \A i : IsReserve(u, i)' => NetSpend(u, i)' \in Nat
<1>1. (BooksInv => \A u \in Users : \A i : IsReserve(u, i) => NetSpend(u, i) \in Nat)'
  BY NetSpendNat, PTL
<1> QED BY <1>1

Spends(u, p) == [i \in ReservesIn(u, p) |-> NetSpend(u, i)]

LEMMA MonthFacts ==
    BooksInv => \A u \in Users, p \in Nat :
        /\ IsFiniteSet(ReservesIn(u, p))
        /\ \A i \in ReservesIn(u, p) : Spends(u, p)[i] = NetSpend(u, i) /\ Spends(u, p)[i] \in Nat
        /\ MonthSpend(u, p) = SumFunctionOnSet(Spends(u, p), ReservesIn(u, p))
        /\ MonthSpend(u, p) \in Nat
<1> SUFFICES ASSUME BooksInv, NEW u \in Users, NEW p \in Nat
             PROVE  /\ IsFiniteSet(ReservesIn(u, p))
                    /\ \A i \in ReservesIn(u, p) : Spends(u, p)[i] = NetSpend(u, i) /\ Spends(u, p)[i] \in Nat
                    /\ MonthSpend(u, p) = SumFunctionOnSet(Spends(u, p), ReservesIn(u, p))
                    /\ MonthSpend(u, p) \in Nat
  OBVIOUS
<1>1. IsFiniteSet(ReservesIn(u, p))
  <2>1. ledger[u] \in Seq(Entry) /\ ReservesIn(u, p) \in SUBSET Idx(u)
    BY DEF BooksInv, SettlementInv, TypeOK, ReservesIn
  <2> QED BY <2>1, RowSums
<1>2. \A i \in ReservesIn(u, p) : IsReserve(u, i)
  BY DEF ReservesIn, IsReserve
<1>3. \A i \in ReservesIn(u, p) : Spends(u, p)[i] = NetSpend(u, i)
  BY DEF Spends
<1>4. \A i \in ReservesIn(u, p) : Spends(u, p)[i] \in Nat
  BY <1>2, <1>3, NetSpendNat
<1>5. MonthSpend(u, p) = SumFunctionOnSet(Spends(u, p), ReservesIn(u, p))
  BY DEF MonthSpend, Spends
<1>6. SumFunctionOnSet(Spends(u, p), ReservesIn(u, p)) \in Nat
  BY <1>1, <1>4, SumBounds
<1> QED BY <1>1, <1>3, <1>4, <1>5, <1>6

LEMMA MonthFactsNext ==
    BooksInv' => \A u \in Users, p \in Nat :
        /\ \A i \in ReservesIn(u, p)' : Spends(u, p)'[i] = NetSpend(u, i)' /\ Spends(u, p)'[i] \in Nat
        /\ MonthSpend(u, p)' = SumFunctionOnSet(Spends(u, p)', ReservesIn(u, p)')
        /\ MonthSpend(u, p)' \in Nat
<1>1. (BooksInv => \A u \in Users, p \in Nat :
         /\ IsFiniteSet(ReservesIn(u, p))
         /\ \A i \in ReservesIn(u, p) : Spends(u, p)[i] = NetSpend(u, i) /\ Spends(u, p)[i] \in Nat
         /\ MonthSpend(u, p) = SumFunctionOnSet(Spends(u, p), ReservesIn(u, p))
         /\ MonthSpend(u, p) \in Nat)'
  BY MonthFacts, PTL
<1> QED BY <1>1

(* A reserve that a commit does not settle costs what it did.              *)
LEMMA SpendKept ==
    ASSUME BooksInv, NEW s \in Sessions,
           NEW done \in SUBSET DOMAIN tx[s].legs, WriteLegs(s, done), NEW u \in done,
           NEW m, m = MoveOf(s, u), NEW i, IsReserve(u, i),
           m.type \in Settlements => ledger[u][i].job # m.job
    PROVE  NetSpend(u, i)' = NetSpend(u, i)
<1>1. PICK e \in Entry : u \in Users /\ Books(u, m, e)
  BY CommitBooks DEF BooksInv, Books
<1>2. ledger[u] \in Seq(Entry)
  BY <1>1 DEF BooksInv, SettlementInv, TypeOK
<1>3. PICK n \in Nat : n = Len(ledger[u])
  BY <1>1, <1>2, BooksGrows
<1>4. ledger'[u][i] = ledger[u][i] /\ i # n + 1 /\ i \in Idx(u)
  BY <1>1, <1>2, <1>3, BooksGrows DEF IsReserve, Idx
<1>5. i \in OpenHolds(u)' <=> i \in OpenHolds(u)
  <2>1. CASE OpenHolds(u)' = OpenHolds(u)
    BY <2>1
  <2>2. CASE OpensHold(u, m)
    BY <1>3, <1>4, <2>2 DEF OpensHold
  <2>3. CASE m.type \in Settlements /\ ClosesHold(u, m)
    BY <2>3 DEF ClosesHold, Settles
  <2> QED BY <2>1, <2>2, <2>3, OpenHoldsNext
<1>6. PICK j : j = ledger[u][i].job
  OBVIOUS
<1>7. CapturesOf(u, j)' = CapturesOf(u, j)
  <2>1. "CAPTURE" \in Settlements
    BY DEF Settlements
  <2>2. ~(m.job = j /\ m.type = "CAPTURE")
    BY <1>6, <2>1
  <2>3. PICK v \in Users : v = u /\ ledger[v] \in Seq(Entry) /\ Books(v, m, e)
    BY <1>1, <1>2
  <2>4. CapturesOf(v, j)' = CapturesOf(v, j) \cup
           (IF m.job = j /\ m.type = "CAPTURE" THEN {Len(ledger[v]) + 1} ELSE {})
    BY <2>3, SettlementsNext
  <2> QED BY <2>2, <2>3, <2>4
<1>8. SumFunctionOnSet(AmountsOf(u)', CapturesOf(u, j)') = SumFunctionOnSet(AmountsOf(u), CapturesOf(u, j))
  <2>1. CapturesOf(u, j) \in SUBSET Idx(u)
    BY <1>1, CapturedSum
  <2> QED BY <1>1, <1>2, <1>7, <2>1, AmountsNext DEF SumAt
<1>9. NetSpend(u, i) = IF i \in OpenHolds(u) THEN -ledger[u][i].amount
                       ELSE -SumFunctionOnSet(AmountsOf(u), CapturesOf(u, j))
  BY <1>6 DEF NetSpend
<1>10. NetSpend(u, i)' = IF i \in OpenHolds(u)' THEN -ledger'[u][i].amount
                         ELSE -SumFunctionOnSet(AmountsOf(u)', CapturesOf(u, j)')
  <2>1. j = ledger'[u][i].job
    BY <1>4, <1>6
  <2> QED BY <2>1 DEF NetSpend, CapturesOf, SettlementsOf
<1> QED BY <1>4, <1>5, <1>8, <1>9, <1>10

(* A reserve costs all it locked.                                          *)
LEMMA SpendOfReserve ==
    ASSUME BooksInv, MovesSpend, NEW s \in Sessions,
           NEW done \in SUBSET DOMAIN tx[s].legs, WriteLegs(s, done), NEW u \in done,
           NEW m, m = MoveOf(s, u), m.type = "RESERVE",
           NEW n \in Nat, n = Len(ledger[u])
    PROVE  NetSpend(u, n + 1)' = m.spend
<1>1. PICK e \in Entry : u \in Users /\ Books(u, m, e)
  BY CommitBooks DEF BooksInv, Books
<1>2. ledger[u] \in Seq(Entry)
  BY <1>1 DEF BooksInv, SettlementInv, TypeOK
<1>3. n + 1 \in OpenHolds(u)'
  <2>1. m.type \notin External /\ m.type \notin Settlements
    BY DEF External, Settlements
  <2> QED BY <2>1, OpenHoldsNext DEF OpensHold
<1>4. ledger'[u][n + 1].amount = m.amount
  BY <1>1, <1>2, BooksGrows DEF Books
<1>5. m.spend = -m.amount
  BY DEF MovesSpend, MoveOf, WriteLegs
<1>6. NetSpend(u, n + 1)' = -ledger'[u][n + 1].amount
  <2>1. \A i : i \in OpenHolds(u)' => NetSpend(u, i)' = -ledger'[u][i].amount
    BY DEF NetSpend
  <2>2. PICK i : i = n + 1
    OBVIOUS
  <2>3. NetSpend(u, i)' = -ledger'[u][i].amount
    BY <1>3, <2>1, <2>2
  <2> QED BY <2>2, <2>3
<1> QED BY <1>4, <1>5, <1>6

(* A settlement's refund is what its reserve no longer costs.              *)
LEMMA SpendOfSettled ==
    ASSUME BooksInv, MovesSpend, NEW s \in Sessions,
           NEW done \in SUBSET DOMAIN tx[s].legs, WriteLegs(s, done), NEW u \in done,
           NEW m, m = MoveOf(s, u), m.type \in Settlements
    PROVE  /\ m.spend <= 0 /\ m.spend \in Int
           /\ \E k : /\ IsReserve(u, k) /\ m.period = ledger[u][k].period
                     /\ NetSpend(u, k)' = NetSpend(u, k) + m.spend
                     /\ NetSpend(u, k) \in Int
                     /\ \A i : IsReserve(u, i) /\ i # k => ledger[u][i].job # m.job
<1>1. PICK e \in Entry : u \in Users /\ Books(u, m, e)
  BY CommitBooks DEF BooksInv, Books
<1>2. ledger[u] \in Seq(Entry) /\ MoveAddsUp(u, m)
  BY <1>1, NewRowAddsUp DEF BooksInv, SettlementInv, TypeOK
<1>3. PICK n \in Nat : n = Len(ledger[u])
  BY <1>1, <1>2, BooksGrows
<1>4. ClosesHold(u, m) /\ m.job # NoJob
  <2>1. m.type \notin External /\ m.type # "RESERVE"
    BY DEF External, Settlements
  <2> QED BY <2>1, OpenHoldsNext
<1>5. PICK k \in OpenHolds(u) :
         Settles(u, k, m) /\ m.reserved = ledger[u][k].amount /\ OpenHolds(u)' = OpenHolds(u) \ {k}
  BY <1>4 DEF ClosesHold
<1>6. IsReserve(u, k) /\ ledger[u][k].job = m.job
  BY <1>5 DEF OpenHolds, IsReserve, Settles
<1>7. \A i : IsReserve(u, i) /\ ledger[u][i].job = m.job => i = k
  BY <1>1, <1>6 DEF IsReserve, BooksInv, ReservedOnce
<1>8. m.period = ledger[u][k].period /\ m.spend = -m.available
  <2>1. PICK i \in Idx(u) : Settles(u, i, m) /\ m.period = ledger[u][i].period
    BY DEF MovesSpend, MoveOf, WriteLegs
  <2>2. i = k
    BY <1>7, <2>1 DEF IsReserve, Settles
  <2>3. m.spend = -m.available
    BY DEF MovesSpend, MoveOf, WriteLegs
  <2> QED BY <2>1, <2>2, <2>3
<1>9. /\ ledger'[u][k] = ledger[u][k] /\ ledger[u][k] \in Entry /\ ledger[u][k].amount < 0
      /\ m.available \in Int /\ m.amount \in Int
      /\ m.available + m.reserved = Booking(m)
  BY <1>1, <1>2, <1>6, BooksGrows DEF IsReserve, Books, Movement, MoveAddsUp, BooksInv, RowsAddUp
<1>10. PICK a \in Int : a = ledger[u][k].amount
  BY <1>9 DEF Entry
<1>11. SumFunctionOnSet(AmountsOf(u)', CapturesOf(u, m.job)')
          = IF m.type = "CAPTURE" THEN m.amount ELSE 0
  <2>1. SettlementsOf(u, m.job) = {}
    BY <1>4, JobCommit, NothingSettled
  <2>2. CapturesOf(u, m.job) = {}
    BY <2>1 DEF CapturesOf
  <2>3. CapturesOf(u, m.job)' = IF m.type = "CAPTURE" THEN {} \cup {n + 1} ELSE {}
    <3>1. PICK j : j = m.job
      OBVIOUS
    <3>2. CapturesOf(u, j)' = CapturesOf(u, j) \cup
              (IF m.job = j /\ m.type = "CAPTURE" THEN {n + 1} ELSE {})
      BY <1>1, <1>2, <1>3, SettlementsNext
    <3>3. CapturesOf(u, j) = {}
      BY <2>2, <3>1
    <3>4. CapturesOf(u, j)' = IF m.type = "CAPTURE" THEN {} \cup {n + 1} ELSE {}
      BY <3>1, <3>2, <3>3
    <3> QED BY <3>1, <3>4
  <2>4. SumAt(u, {}) = 0
    <3>1. {} \in SUBSET Idx(u)
      OBVIOUS
    <3> QED BY <1>1, <1>2, <3>1, RowSums
  <2>5. /\ SumFunctionOnSet(AmountsOf(u)', {}) = 0
        /\ SumFunctionOnSet(AmountsOf(u)', {} \cup {n + 1}) = 0 + m.amount
    <3>1. {} \in SUBSET Idx(u)
      OBVIOUS
    <3> QED BY <1>1, <1>2, <1>3, <2>4, <3>1, AmountsNext
  <2> QED BY <1>9, <2>3, <2>5
<1>12. NetSpend(u, k) = -a
  BY <1>5, <1>10 DEF NetSpend
<1>13. NetSpend(u, k)' = -(IF m.type = "CAPTURE" THEN m.amount ELSE 0)
  <2>1. k \notin OpenHolds(u)'
    BY <1>5
  <2>2. PICK j : j = m.job
    OBVIOUS
  <2>3. j = ledger'[u][k].job
    BY <1>6, <1>9, <2>2
  <2>4. NetSpend(u, k)' = -SumFunctionOnSet(AmountsOf(u)', CapturesOf(u, j)')
    BY <2>1, <2>3 DEF NetSpend, CapturesOf, SettlementsOf
  <2>5. CapturesOf(u, j)' = CapturesOf(u, m.job)'
    BY <2>2
  <2> QED BY <1>11, <2>4, <2>5
<1>14. m.spend <= 0 /\ m.spend \in Int /\ NetSpend(u, k)' = NetSpend(u, k) + m.spend
  <2>1. CASE m.type = "CAPTURE"
    <3>1. m.amount \in a..0
      BY <1>5, <1>10, <2>1 DEF Settles
    <3>2. m.available + a = m.amount
      BY <1>5, <1>9, <1>10, <2>1 DEF Booking
    <3> QED BY <1>8, <1>9, <1>12, <1>13, <2>1, <3>1, <3>2
  <2>2. CASE m.type = "RELEASE"
    <3>1. m.available + a = 0
      BY <1>5, <1>9, <1>10, <2>2 DEF Booking
    <3>2. a < 0
      BY <1>9, <1>10
    <3> QED BY <1>8, <1>9, <1>12, <1>13, <2>2, <3>1, <3>2
  <2> QED BY <2>1, <2>2 DEF Settlements
<1>15. NetSpend(u, k) \in Int
  BY <1>12
<1> QED BY <1>6, <1>7, <1>8, <1>14, <1>15

-----------------------------------------------------------------------------
(* A commit changes the spend of its own month only, by what it spends.    *)
LEMMA MonthSpendNext ==
    ASSUME BooksInv, BooksInv', MovesSpend, NEW s \in Sessions,
           NEW done \in SUBSET DOMAIN tx[s].legs, WriteLegs(s, done),
           NEW u \in done, NEW m, m = MoveOf(s, u), NEW p \in Nat
    PROVE  MonthSpend(u, p)' = MonthSpend(u, p) + (IF m.period = p THEN m.spend ELSE 0)
<1>1. PICK e \in Entry : u \in Users /\ Books(u, m, e)
  BY CommitBooks DEF BooksInv, Books
<1>2. ledger[u] \in Seq(Entry)
  BY <1>1 DEF BooksInv, SettlementInv, TypeOK
<1>3. PICK n \in Nat : n = Len(ledger[u])
  BY <1>1, <1>2, BooksGrows
<1>4. /\ Idx(u)' = Idx(u) \cup {n + 1} /\ ledger'[u][n + 1] = e /\ n + 1 \notin Idx(u)
      /\ \A i \in Idx(u) : ledger'[u][i] = ledger[u][i]
  BY <1>1, <1>2, <1>3, BooksGrows DEF Idx
<1>5. /\ e.type = m.type /\ e.period = IF m.type = "RESERVE" THEN m.period ELSE 0
      /\ m.type \in EntryTypes /\ m.spend \in Int /\ m.period \in Nat
  BY <1>1 DEF Books, Movement
<1> DEFINE R == ReservesIn(u, p)
           f == Spends(u, p)
           g == Spends(u, p)'
<1>6. /\ IsFiniteSet(R)
      /\ \A i \in R : f[i] = NetSpend(u, i) /\ f[i] \in Int
      /\ MonthSpend(u, p) = SumFunctionOnSet(f, R) /\ MonthSpend(u, p) \in Int
  BY <1>1, MonthFacts
<1>7. /\ \A i \in R' : g[i] = NetSpend(u, i)' /\ g[i] \in Int
      /\ MonthSpend(u, p)' = SumFunctionOnSet(g, R')
  BY <1>1, MonthFactsNext
<1>8. \A i \in R : IsReserve(u, i) /\ ledger[u][i].period = p
  BY DEF ReservesIn, IsReserve
<1>9. R' = R \cup (IF m.type = "RESERVE" /\ m.period = p THEN {n + 1} ELSE {})
  BY <1>4, <1>5 DEF ReservesIn
<1>10. n + 1 \notin R /\ \A i \in R : i \in R'
  BY <1>4, <1>8, <1>9 DEF IsReserve
<1> HIDE DEF R, f, g
<1>11. CASE m.type \in External
  <2>1. m.spend = 0 /\ m.type \notin Settlements /\ m.type # "RESERVE"
    BY <1>11 DEF MovesSpend, MoveOf, WriteLegs, External, Settlements
  <2>2. \A i \in R : g[i] = f[i]
    BY <1>6, <1>7, <1>8, <1>10, <2>1, SpendKept
  <2>3. SumFunctionOnSet(g, R) = SumFunctionOnSet(f, R)
    BY <1>6, <2>2, SumSame
  <2> QED BY <1>6, <1>7, <1>9, <2>1, <2>3
<1>12. CASE m.type = "RESERVE"
  <2>1. m.type \notin Settlements
    BY <1>12 DEF Settlements
  <2>2. \A i \in R : g[i] = f[i]
    BY <1>6, <1>7, <1>8, <1>10, <2>1, SpendKept
  <2>3. CASE m.period = p
    <3>1. R' = R \cup {n + 1} /\ n + 1 \in R'
      BY <1>9, <1>12, <2>3
    <3>2. g[n + 1] = m.spend
      <4>1. NetSpend(u, n + 1)' = m.spend
        BY <1>3, <1>12, SpendOfReserve
      <4>2. PICK i : i = n + 1
        OBVIOUS
      <4>3. g[i] = NetSpend(u, i)'
        BY <1>7, <3>1, <4>2
      <4> QED BY <4>1, <4>2, <4>3
    <3>3. SumFunctionOnSet(g, R \cup {n + 1}) = SumFunctionOnSet(f, R) + g[n + 1]
      <4>1. PICK x : x = n + 1
        OBVIOUS
      <4>2. g[x] \in Int /\ x \notin R
        BY <1>5, <1>10, <3>2, <4>1
      <4>3. PICK S, T, old, new : S = R /\ T = R \cup {x} /\ old = f /\ new = g
        OBVIOUS
      <4>4. /\ IsFiniteSet(S) /\ x \notin S /\ new[x] \in Int
            /\ \A y \in S : old[y] \in Int
            /\ \A y \in S : new[y] = old[y]
            /\ T = S \cup {x}
        BY <1>6, <2>2, <4>2, <4>3
      <4>5. SumFunctionOnSet(new, T) = SumFunctionOnSet(old, S) + new[x]
        BY <4>4, SumAdd
      <4> QED BY <4>1, <4>3, <4>5
    <3> QED BY <1>6, <1>7, <2>3, <3>1, <3>2, <3>3
  <2>4. CASE m.period # p
    <3>1. SumFunctionOnSet(g, R) = SumFunctionOnSet(f, R)
      BY <1>6, <2>2, SumSame
    <3>2. R' = R
      BY <1>9, <2>4
    <3> QED BY <1>6, <1>7, <2>4, <3>1, <3>2
  <2> QED BY <2>3, <2>4
<1>13. CASE m.type \in Settlements
  <2>1. R' = R
    <3>1. m.type # "RESERVE"
      BY <1>13 DEF Settlements
    <3> QED BY <1>9, <3>1
  <2>2. PICK k : /\ IsReserve(u, k) /\ m.period = ledger[u][k].period
                 /\ NetSpend(u, k)' = NetSpend(u, k) + m.spend
                 /\ NetSpend(u, k) \in Int
                 /\ \A i : IsReserve(u, i) /\ i # k => ledger[u][i].job # m.job
    BY <1>13, SpendOfSettled
  <2>3. \A i \in R \ {k} : g[i] = f[i]
    BY <1>6, <1>7, <1>8, <1>10, <2>2, SpendKept
  <2>4. CASE m.period = p
    <3>1. k \in R
      BY <2>2, <2>4 DEF R, ReservesIn, IsReserve
    <3>2. g[k] = f[k] + m.spend
      BY <1>6, <1>7, <1>10, <2>2, <3>1
    <3>3. SumFunctionOnSet(g, R) = SumFunctionOnSet(f, R) + m.spend
      BY <1>5, <1>6, <2>3, <3>1, <3>2, SumBump
    <3> QED BY <1>6, <1>7, <2>1, <2>4, <3>3
  <2>5. CASE m.period # p
    <3>1. k \notin R
      BY <1>8, <2>2, <2>5
    <3>2. SumFunctionOnSet(g, R) = SumFunctionOnSet(f, R)
      BY <1>6, <2>3, <3>1, SumSame
    <3> QED BY <1>6, <1>7, <2>1, <2>5, <3>2
  <2> QED BY <2>4, <2>5
<1> QED BY <1>5, <1>11, <1>12, <1>13 DEF EntryTypes

-----------------------------------------------------------------------------
(* What sessions are ready to spend *)

SessionSpends(r) ==
    \A u \in DOMAIN tx[r].legs :
        LET leg == tx[r].legs[u]
            m   == MoveOf(r, u)
        IN  tx[r].pc = "ready" =>
              /\ m.type \in External => m.spend = 0
              /\ m.type = "RESERVE" => /\ m.spend = -m.amount
                                       /\ leg.acc.spend_period <= m.period
                                       /\ m.period <= month
              /\ m.type \in Settlements =>
                    /\ m.spend = -m.available
                    /\ \E i \in Idx(u) : Settles(u, i, m) /\ m.period = ledger[u][i].period

LEMMA SessionsSpend == MovesSpend <=> \A r \in Sessions : SessionSpends(r)
BY DEF MovesSpend, SessionSpends, MoveOf

LEMMA SessionsSpendNext == MovesSpend' <=> \A r \in Sessions : SessionSpends(r)'
BY DEF MovesSpend, SessionSpends, MoveOf

LEMMA KeepsSpending ==
    ASSUME Base, LedgerGrows, month' \in Nat, month' >= month,
           NEW r \in Sessions, SessionSpends(r), tx'[r] = tx[r]
    PROVE  SessionSpends(r)'
<1> SUFFICES ASSUME NEW u \in DOMAIN tx[r].legs, tx[r].pc = "ready",
                    NEW m, m = MoveOf(r, u)
             PROVE  /\ m.type \in External => m.spend = 0
                    /\ m.type = "RESERVE" => /\ m.spend = -m.amount
                                             /\ tx[r].legs[u].acc.spend_period <= m.period
                                             /\ m.period <= month'
                    /\ m.type \in Settlements =>
                          /\ m.spend = -m.available
                          /\ \E i \in Idx(u)' : Settles(u, i, m)' /\ m.period = ledger'[u][i].period
  BY DEF SessionSpends, MoveOf, Settles
<1>1. u \in Users /\ tx[r].legs[u] \in Leg /\ month \in Nat
  BY LegFacts DEF Base, TypeOK
<1>2. m.period \in Nat
  BY <1>1 DEF Leg, Movement, MoveOf
<1>3. /\ m.type \in External => m.spend = 0
      /\ m.type = "RESERVE" => /\ m.spend = -m.amount
                               /\ tx[r].legs[u].acc.spend_period <= m.period
                               /\ m.period <= month
      /\ m.type \in Settlements =>
            /\ m.spend = -m.available
            /\ \E i \in Idx(u) : Settles(u, i, m) /\ m.period = ledger[u][i].period
  BY DEF SessionSpends
<1>4. m.type = "RESERVE" => m.period <= month'
  BY <1>1, <1>2, <1>3
<1>5. m.type \in Settlements => \E i \in Idx(u)' : Settles(u, i, m)' /\ m.period = ledger'[u][i].period
  <2> SUFFICES ASSUME m.type \in Settlements
               PROVE  \E i \in Idx(u)' : Settles(u, i, m)' /\ m.period = ledger'[u][i].period
    OBVIOUS
  <2>1. PICK i \in Idx(u) : Settles(u, i, m) /\ m.period = ledger[u][i].period
    BY <1>3
  <2>2. i \in Idx(u)' /\ ledger'[u][i] = ledger[u][i]
    BY <1>1 DEF LedgerGrows
  <2>3. Settles(u, i, m)'
    BY <2>1, <2>2 DEF Settles
  <2> QED BY <2>1, <2>2, <2>3
<1> QED BY <1>3, <1>4, <1>5

LEMMA OpensSpends ==
    ASSUME Base, MonthsInOrder, NEW s \in Sessions, Opens(s)
    PROVE  SessionSpends(s)' /\ \A r \in Sessions \ {s} : tx'[r] = tx[r]
<1>1. PICK pc \in PCs, S \in SUBSET Users : \E moves \in [S -> Movement] :
          OpensWith(pc, S, moves) /\ Begin(s, pc, moves)
  BY DEF Opens
<1>2. PICK moves \in [S -> Movement] : OpensWith(pc, S, moves) /\ Begin(s, pc, moves)
  BY <1>1
<1>3. /\ \A r \in Sessions \ {s} : tx'[r] = tx[r]
      /\ tx'[s] = [pc |-> pc, legs |-> [u \in S |-> [acc |-> account[u], move |-> moves[u]]]]
      /\ month' = month
  BY <1>2 DEF Begin, Base, TypeOK
<1>4. /\ DOMAIN tx'[s].legs = S /\ tx'[s].pc = pc
      /\ \A u \in S : tx'[s].legs[u].move = moves[u] /\ tx'[s].legs[u].acc = account[u]
  BY <1>3
<1>5. ASSUME NEW u \in S, pc = "ready"
      PROVE  /\ moves[u].type \in External => moves[u].spend = 0
             /\ moves[u].type = "RESERVE" => /\ moves[u].spend = -moves[u].amount
                                             /\ account[u].spend_period <= moves[u].period
                                             /\ moves[u].period <= month
             /\ moves[u].type \notin Settlements
  <2>1. OpensMove("ready", u, moves[u])
    BY <1>2, <1>5 DEF OpensWith
  <2>2. account[u].spend_period <= month /\ month \in Nat
    BY DEF MonthsInOrder, Base, TypeOK
  <2>3. month <= month
    BY <2>2
  <2> QED BY <2>1, <2>2, <2>3 DEF OpensMove
<1>6. SessionSpends(s)'
  <2> SUFFICES ASSUME NEW u \in S, pc = "ready", NEW m, m = MoveOf(s, u)'
               PROVE  /\ m.type \in External => m.spend = 0
                      /\ m.type = "RESERVE" => /\ m.spend = -m.amount
                                               /\ tx'[s].legs[u].acc.spend_period <= m.period
                                               /\ m.period <= month'
                      /\ m.type \notin Settlements
    BY <1>4 DEF SessionSpends
  <2>1. m = moves[u]
    BY <1>4 DEF MoveOf
  <2> QED BY <1>3, <1>4, <1>5, <2>1
<1> QED BY <1>3, <1>6

LEMMA CheckSpends ==
    ASSUME BooksInv, NEW s \in Sessions, NEW u \in Users, CheckLedger(s, u)
    PROVE  SessionSpends(s)' /\ \A r \in Sessions \ {s} : tx'[r] = tx[r]
<1> DEFINE draft == MoveOf(s, u)
<1>0. Base /\ RowsAddUp /\ SessionAddsUp(s)
  BY SessionsAddUp DEF BooksInv, SettlementInv, Base
<1>1. /\ u \in DOMAIN tx[s].legs /\ tx[s].pc = "settling"
      /\ draft \in Movement /\ draft.type \in Settlements /\ draft.job # NoJob
  BY <1>0, CheckFinds
<1>2. PICK i \in Idx(u) :
         /\ ledger[u][i] \in Entry
         /\ ledger[u][i].type = "RESERVE" /\ ledger[u][i].job = draft.job
         /\ tx' = [tx EXCEPT ![s] =
              [pc |-> "ready",
               legs |-> [v \in {u} |->
                  [acc |-> tx[s].legs[u].acc,
                   move |-> SettlementOf(draft.type, ledger[u][i], draft.amount)]]]]
  BY <1>0, CheckFinds
<1>3. draft.amount >= 0 /\ draft.amount \in Int
  BY <1>0, <1>1 DEF SessionAddsUp, Movement
<1>4. ledger[u][i].amount < 0
  BY <1>0, <1>2 DEF RowsAddUp
<1> DEFINE m == SettlementOf(draft.type, ledger[u][i], draft.amount)
<1>5. /\ m.type = draft.type /\ m.job = ledger[u][i].job
      /\ IF m.type = "RELEASE" THEN m.amount = -ledger[u][i].amount
                               ELSE m.amount \in ledger[u][i].amount..0
      /\ m.spend = -m.available /\ m.period = ledger[u][i].period
  BY <1>1, <1>2, <1>3, <1>4, SettlementFacts
<1>n. PICK n : n = m
  OBVIOUS
<1> HIDE DEF m
<1>6. /\ \A r \in Sessions \ {s} : tx'[r] = tx[r]
      /\ DOMAIN tx'[s].legs = {u} /\ tx'[s].pc = "ready" /\ MoveOf(s, u)' = n
  <2>1. tx' = [tx EXCEPT ![s] = [pc |-> "ready",
               legs |-> [v \in {u} |-> [acc |-> tx[s].legs[u].acc, move |-> n]]]]
    BY <1>2, <1>n DEF m
  <2>2. tx'[s] = [pc |-> "ready",
               legs |-> [v \in {u} |-> [acc |-> tx[s].legs[u].acc, move |-> n]]]
    BY <1>0, <2>1 DEF Base, TypeOK
  <2> QED BY <1>0, <2>1, <2>2 DEF Base, TypeOK, MoveOf
<1> HIDE DEF draft
<1>7. UNCHANGED ledger
  BY DEF CheckLedger
<1>8. n.type \notin External /\ n.type # "RESERVE"
  BY <1>1, <1>5, <1>n DEF External, Settlements
<1>9. i \in Idx(u)' /\ Settles(u, i, n)' /\ n.period = ledger'[u][i].period /\ n.spend = -n.available
  BY <1>2, <1>5, <1>7, <1>n DEF Settles, Idx
<1> QED BY <1>6, <1>8, <1>9 DEF SessionSpends

-----------------------------------------------------------------------------
(* The counter follows the ledger *)

SpentIsNet(u) == account[u].period_spent = MonthSpend(u, account[u].spend_period)

(* The counter a movement is checked against is what its month's reserves  *)
(* cost: a new month has none yet, and an old one is not counted down.     *)
LEMMA SpentNowIsNet ==
    ASSUME SpendInv, NEW s \in Sessions,
           NEW done \in SUBSET DOMAIN tx[s].legs, WriteLegs(s, done), NEW u \in done,
           NEW m, m = MoveOf(s, u),
           m.type = "RESERVE" \/ account[u].spend_period = m.period
    PROVE  SpentNow(account[u], m) = MonthSpend(u, m.period)
<1>1. /\ u \in Users /\ account[u] \in Account /\ m \in Movement
      /\ tx[s].legs[u].acc = account[u] /\ BooksInv
  BY CommitBooks DEF SpendInv, BooksInv, Books
<1>2. account[u].spend_period \in Nat /\ m.period \in Nat
  BY <1>1 DEF Account, Movement
<1>3. CASE account[u].spend_period = m.period
  BY <1>1, <1>3 DEF SpendInv, PeriodSpentIsNetSpend, SpentNow
<1>4. CASE m.type = "RESERVE" /\ account[u].spend_period # m.period
  <2>1. account[u].spend_period <= m.period
    BY <1>1, <1>4 DEF SpendInv, MovesSpend, MoveOf, WriteLegs
  <2>2. PICK q \in Nat : q = m.period
    BY <1>2
  <2>3. account[u].spend_period < q
    BY <1>2, <1>4, <2>1, <2>2
  <2>4. ReservesIn(u, q) = {}
    <3>1. ASSUME NEW i \in ReservesIn(u, q) PROVE FALSE
      <4>1. i \in Idx(u) /\ ledger[u][i].type = "RESERVE" /\ ledger[u][i].period = q
        BY DEF ReservesIn
      <4>2. ledger[u][i].period <= account[u].spend_period
        BY <1>1, <4>1 DEF SpendInv, MonthsInOrder
      <4> QED BY <1>2, <2>3, <4>1, <4>2
    <3> QED BY <3>1
  <2>5. MonthSpend(u, q) = 0
    <3>1. SumFunctionOnSet(Spends(u, q), {}) = 0
      BY SumFacts, FS_EmptySet
    <3> QED BY <1>1, <2>4, <3>1, MonthFacts
  <2> QED BY <1>4, <2>2, <2>5 DEF SpentNow
<1> QED BY <1>3, <1>4

LEMMA CommitSpends ==
    ASSUME SpendInv, BooksInv', NEW s \in Sessions,
           NEW done \in SUBSET DOMAIN tx[s].legs, WriteLegs(s, done), NEW u \in done
    PROVE  /\ SpentIsNet(u)'
           /\ account[u].spend_period <= account'[u].spend_period
           /\ account'[u].spend_period <= month
           /\ MoveOf(s, u).type = "RESERVE" => account'[u].spend_period = MoveOf(s, u).period
<1>1. PICK m : m = MoveOf(s, u)
  OBVIOUS
<1>2. /\ u \in Users /\ account[u] \in Account /\ m \in Movement
      /\ tx[s].legs[u].acc = account[u] /\ BooksInv /\ m.type \in EntryTypes
      /\ account'[u] = Written(account[u], account[u], m)
  BY <1>1, CommitBooks DEF SpendInv, BooksInv, Books
<1>3. /\ account[u].spend_period \in Nat /\ m.period \in Nat /\ m.spend \in Int
      /\ account[u].period_spent \in Nat /\ month \in Nat
  BY <1>2 DEF Account, Movement, BooksInv, SettlementInv, TypeOK
<1>4. PICK d \in Int : d = SpendDelta(account[u], m)
  BY <1>3 DEF SpendDelta
<1>5. /\ account'[u].spend_period = IF d # 0 THEN m.period ELSE account[u].spend_period
      /\ account'[u].period_spent = IF d # 0 THEN Greater(SpentNow(account[u], m) + d, 0)
                                             ELSE account[u].period_spent
  BY <1>2, <1>4 DEF Written, Account
<1>6. d = IF m.spend < 0 /\ account[u].spend_period # m.period THEN 0 ELSE m.spend
  BY <1>4 DEF SpendDelta
<1>7. \A p \in Nat :
         MonthSpend(u, p)' = MonthSpend(u, p) + (IF m.period = p THEN m.spend ELSE 0)
  BY <1>1, MonthSpendNext DEF SpendInv
<1>8. \A p \in Nat : MonthSpend(u, p) \in Nat /\ MonthSpend(u, p)' \in Nat
  BY <1>2, MonthFacts, MonthFactsNext
<1>9. account[u].spend_period <= month /\ account[u].period_spent = MonthSpend(u, account[u].spend_period)
  BY <1>2 DEF SpendInv, MonthsInOrder, PeriodSpentIsNetSpend
<1>10. /\ m.type = "RESERVE" => /\ m.spend = -m.amount /\ m.amount < 0
                                /\ account[u].spend_period <= m.period
                                /\ m.period <= month
       /\ m.type \in External => m.spend = 0
       /\ m.type \in Settlements => m.spend <= 0
  <2>1. m.type = "RESERVE" => m.amount < 0
    BY <1>1, <1>2, NewRowAddsUp DEF BooksInv, MoveAddsUp
  <2>2. m.type \in Settlements => m.spend <= 0
    BY <1>1, <1>2, SpendOfSettled DEF SpendInv
  <2>3. tx[s].pc = "ready" /\ m = tx[s].legs[u].move
    BY <1>1 DEF WriteLegs, MoveOf
  <2>4. m.type \in External => m.spend = 0
    BY <2>3 DEF SpendInv, MovesSpend
  <2>5. m.type = "RESERVE" => /\ m.spend = -m.amount
                              /\ account[u].spend_period <= m.period
                              /\ m.period <= month
    BY <1>2, <2>3 DEF SpendInv, MovesSpend
  <2> QED BY <2>1, <2>2, <2>4, <2>5
<1>11. m.type = "RESERVE" => m.spend > 0 /\ d = m.spend
  <2>1. m.amount \in Int
    BY <1>2 DEF Movement
  <2> QED BY <1>3, <1>6, <1>10, <2>1
<1>12. m.spend > 0 => m.type = "RESERVE"
  BY <1>2, <1>3, <1>10 DEF EntryTypes
<1>13. PICK p \in Nat : p = account'[u].spend_period
  BY <1>3, <1>5
<1>14. account'[u].period_spent = MonthSpend(u, p)'
  <2>1. CASE d = 0
    <3>1. p = account[u].spend_period /\ account'[u].period_spent = MonthSpend(u, p)
      BY <1>5, <1>9, <1>13, <2>1
    <3>2. ~(m.period = p /\ m.spend # 0)
      BY <1>6, <2>1, <3>1
    <3>3. MonthSpend(u, p)' = MonthSpend(u, p) + 0
      BY <1>7, <3>2
    <3> QED BY <1>8, <3>1, <3>3
  <2>2. CASE d # 0
    <3>1. p = m.period /\ d = m.spend
      BY <1>5, <1>6, <1>13, <2>2
    <3>2. m.type = "RESERVE" \/ account[u].spend_period = m.period
      BY <1>3, <1>6, <1>12, <2>2
    <3>3. SpentNow(account[u], m) = MonthSpend(u, p)
      BY <1>1, <3>1, <3>2, SpentNowIsNet
    <3>4. MonthSpend(u, p)' = SpentNow(account[u], m) + d
      BY <1>7, <3>1, <3>3
    <3>5. MonthSpend(u, p)' \in Nat
      BY <1>8
    <3>6. account'[u].period_spent = Greater(MonthSpend(u, p)', 0)
      BY <1>5, <2>2, <3>4
    <3> QED BY <3>5, <3>6 DEF Greater
  <2> QED BY <2>1, <2>2
<1>15. SpentIsNet(u)'
  <2>1. SpentIsNet(u)' <=> account'[u].period_spent = MonthSpend(u, account[u].spend_period)'
    BY DEF SpentIsNet
  <2>2. MonthSpend(u, account[u].spend_period)' = MonthSpend(u, p)'
    BY <1>13 DEF MonthSpend, ReservesIn
  <2> QED BY <1>14, <2>1, <2>2
<1>16. /\ account[u].spend_period <= account'[u].spend_period
       /\ account'[u].spend_period <= month
  <2>1. CASE d = 0
    BY <1>3, <1>5, <1>9, <2>1
  <2>2. CASE d # 0
    <3>1. CASE m.type = "RESERVE"
      BY <1>5, <1>10, <2>2, <3>1
    <3>2. CASE m.type # "RESERVE"
      <4>1. account[u].spend_period = m.period
        BY <1>3, <1>6, <1>12, <2>2, <3>2
      <4> QED BY <1>3, <1>5, <1>9, <2>2, <4>1
    <3> QED BY <3>1, <3>2
  <2> QED BY <2>1, <2>2
<1>17. m.type = "RESERVE" => account'[u].spend_period = m.period
  BY <1>3, <1>5, <1>11
<1> QED BY <1>1, <1>15, <1>16, <1>17

(* A step that is not a commit leaves every account's spend alone.         *)
LEMMA OtherSpends ==
    ASSUME Base, [Next]_vars, \A s \in Sessions : ~Writes(s)
    PROVE  /\ UNCHANGED ledger
           /\ month' \in Nat /\ month' >= month
           /\ \A u \in Users : /\ account'[u].spend_period = account[u].spend_period
                               /\ account'[u].period_spent = account[u].period_spent
<1>0. month \in Nat /\ account \in [Users -> Account]
  BY DEF Base, TypeOK
<1>1. UNCHANGED ledger
  BY OtherSteps
<1>2. CASE NextMonth \/ UNCHANGED vars
  BY <1>0, <1>2 DEF NextMonth, vars
<1>3. ASSUME NEW s \in Sessions, Step(s)
      PROVE  /\ UNCHANGED month
             /\ \A u \in Users : /\ account'[u].spend_period = account[u].spend_period
                                 /\ account'[u].period_spent = account[u].period_spent
  <2>1. CASE Opens(s)
    BY <2>1 DEF Opens, Begin
  <2>2. CASE \E u \in Users : CheckLedger(s, u)
    BY <2>2 DEF CheckLedger
  <2>3. CASE Rollback(s)
    BY <2>3 DEF Rollback
  <2>4. CASE \E u \in Users : CommitLimit(s, u)
    <3>1. PICK v \in Users : CommitLimit(s, v)
      BY <2>4
    <3> QED BY <1>0, <3>1 DEF CommitLimit, Account
  <2> QED BY <1>3, <2>1, <2>2, <2>3, <2>4, StepCases DEF Base
<1>4. ASSUME NEW s \in Sessions, Step(s)
      PROVE  /\ month' \in Nat /\ month' >= month
             /\ \A u \in Users : /\ account'[u].spend_period = account[u].spend_period
                                 /\ account'[u].period_spent = account[u].period_spent
  <2>1. month' = month
    BY <1>3, <1>4
  <2>2. month' \in Nat /\ month' >= month
    BY <1>0, <2>1
  <2> QED BY <1>3, <1>4, <2>2
<1> QED BY <1>1, <1>2, <1>4 DEF Next

LEMMA NextMovesSpend ==
    ASSUME BooksInv, MovesSpend, MonthsInOrder, [Next]_vars, month' \in Nat, month' >= month
    PROVE  MovesSpend'
<1>1. /\ Base /\ LedgerGrows /\ SettlementInv
      /\ \A r \in Sessions : SessionSpends(r)
  BY StepGrows, SessionsSpend DEF BooksInv, SettlementInv, Base
<1>2. CASE NextMonth \/ UNCHANGED vars
  BY <1>1, <1>2, KeepsSpending, SessionsSpendNext DEF NextMonth, vars
<1>3. ASSUME NEW s \in Sessions, Step(s)
      PROVE  SessionSpends(s)' /\ \A r \in Sessions \ {s} : tx'[r] = tx[r]
  <2>1. ASSUME tx' = [tx EXCEPT ![s] = Idle]
        PROVE  SessionSpends(s)' /\ \A r \in Sessions \ {s} : tx'[r] = tx[r]
    <3>1. DOMAIN tx'[s].legs = {}
      BY <1>1, <2>1 DEF Idle, Base, TypeOK
    <3> QED BY <1>1, <2>1, <3>1 DEF SessionSpends, Base, TypeOK
  <2> QED BY <1>1, <1>3, <2>1, StepCases, OpensSpends, CheckSpends
          DEF Base, Writes, WriteLegs, Rollback, CommitLimit
<1>4. ASSUME NEW s \in Sessions, Step(s) PROVE MovesSpend'
  BY <1>1, <1>3, <1>4, KeepsSpending, SessionsSpendNext
<1> QED BY <1>2, <1>4 DEF Next

LEMMA InitSpend == Init => SpendInv
<1> SUFFICES ASSUME Init PROVE SpendInv
  OBVIOUS
<1>1. BooksInv
  BY InitBooks
<1>2. MovesSpend
  BY DEF Init, MovesSpend, Idle
<1>3. ASSUME NEW u \in Users
      PROVE  /\ Idx(u) = {} /\ account[u].spend_period = 0 /\ account[u].period_spent = 0
             /\ ledger[u] = <<>>
  <2>1. ledger[u] = <<>>
    BY DEF Init
  <2> QED BY <2>1 DEF Init, NewAccount, Idx
<1>4. MonthsInOrder
  <2>1. month = 1
    BY DEF Init
  <2>2. ASSUME NEW u \in Users PROVE account[u].spend_period <= month
    <3>1. account[u].spend_period = 0
      BY <1>3
    <3> QED BY <2>1, <3>1
  <2>3. \A u \in Users : Idx(u) = {}
    BY <1>3
  <2> QED BY <2>2, <2>3 DEF MonthsInOrder
<1>5. ASSUME NEW u \in Users PROVE MonthSpend(u, 0) = 0
  <2>1. ReservesIn(u, 0) = {}
    BY <1>3 DEF ReservesIn
  <2>2. SumFunctionOnSet(Spends(u, 0), {}) = 0
    BY SumFacts, FS_EmptySet
  <2> QED BY <1>1, <2>1, <2>2, MonthFacts
<1>6. PeriodSpentIsNetSpend
  BY <1>3, <1>5 DEF PeriodSpentIsNetSpend
<1> QED BY <1>1, <1>2, <1>4, <1>6 DEF SpendInv

LEMMA NextSpend == SpendInv /\ [Next]_vars => SpendInv'
<1> SUFFICES ASSUME SpendInv, [Next]_vars PROVE SpendInv'
  OBVIOUS
<1>1. BooksInv /\ MovesSpend /\ MonthsInOrder /\ SettlementInv /\ Base
  BY DEF SpendInv, BooksInv, SettlementInv, Base
<1>2. BooksInv'
  BY <1>1, NextBooks
<1>3. ASSUME \A s \in Sessions : ~Writes(s)
      PROVE  MovesSpend' /\ MonthsInOrder' /\ PeriodSpentIsNetSpend'
  <2>1. /\ UNCHANGED ledger
        /\ month' \in Nat /\ month' >= month
        /\ \A u \in Users : /\ account'[u].spend_period = account[u].spend_period
                            /\ account'[u].period_spent = account[u].period_spent
    BY <1>1, <1>3, OtherSpends
  <2>2. MovesSpend'
    BY <1>1, <2>1, NextMovesSpend
  <2>3. MonthsInOrder'
    <3>1. ASSUME NEW u \in Users PROVE account'[u].spend_period <= month'
      <4>1. account[u].spend_period <= month /\ account[u].spend_period \in Nat /\ month \in Nat
        BY <1>1 DEF MonthsInOrder, Base, TypeOK, Account
      <4> QED BY <2>1, <4>1
    <3> QED BY <1>1, <2>1, <3>1 DEF MonthsInOrder, Idx
  <2>4. PeriodSpentIsNetSpend'
    <3>1. ASSUME NEW u \in Users PROVE SpentIsNet(u)'
      <4>1. \A p : MonthSpend(u, p)' = MonthSpend(u, p)
        <5>1. /\ AmountsOf(u)' = AmountsOf(u) /\ OpenHolds(u)' = OpenHolds(u)
              /\ \A p : ReservesIn(u, p)' = ReservesIn(u, p)
              /\ \A j : CapturesOf(u, j)' = CapturesOf(u, j)
          BY <2>1 DEF AmountsOf, OpenHolds, SettlementsOf, CapturesOf, ReservesIn, Idx
        <5>2. \A i : NetSpend(u, i)' = NetSpend(u, i)
          BY <2>1 DEF NetSpend, AmountsOf, OpenHolds, SettlementsOf, CapturesOf, Idx
        <5> QED BY <5>1, <5>2 DEF MonthSpend
      <4>2. PICK p : p = account[u].spend_period
        OBVIOUS
      <4>3. account[u].period_spent = MonthSpend(u, p)
        BY <4>2 DEF SpendInv, PeriodSpentIsNetSpend
      <4>4. p = account'[u].spend_period /\ account'[u].period_spent = account[u].period_spent
        BY <2>1, <4>2
      <4>5. account'[u].period_spent = MonthSpend(u, p)'
        BY <4>1, <4>3, <4>4
      <4>6. MonthSpend(u, account[u].spend_period)' = MonthSpend(u, p)'
        BY <4>4 DEF MonthSpend, ReservesIn
      <4> QED BY <4>5, <4>6 DEF SpentIsNet
    <3> QED BY <3>1 DEF PeriodSpentIsNetSpend, SpentIsNet
  <2> QED BY <2>2, <2>3, <2>4
<1>4. ASSUME NEW s \in Sessions,
           NEW done \in SUBSET DOMAIN tx[s].legs, WriteLegs(s, done)
      PROVE  MovesSpend' /\ MonthsInOrder' /\ PeriodSpentIsNetSpend'
  <2>1. month' = month /\ month \in Nat
    BY <1>1, <1>4 DEF WriteLegs, Base, TypeOK
  <2>2. MovesSpend'
    <3>1. month' \in Nat /\ month' >= month
      BY <2>1
    <3> QED BY <1>1, <3>1, NextMovesSpend
  <2>3. ASSUME NEW u \in Users
        PROVE  /\ SpentIsNet(u)' /\ account'[u].spend_period <= month
               /\ \A i \in Idx(u)' : ledger'[u][i].type = "RESERVE" =>
                                        ledger'[u][i].period <= account'[u].spend_period
    <3>1. CASE u \in done
      <4>1. /\ SpentIsNet(u)'
            /\ account[u].spend_period <= account'[u].spend_period
            /\ account'[u].spend_period <= month
            /\ MoveOf(s, u).type = "RESERVE" => account'[u].spend_period = MoveOf(s, u).period
        BY <1>2, <1>4, <3>1, CommitSpends
      <4>2. account[u].spend_period \in Nat /\ account'[u].spend_period \in Nat
        BY <1>1, <1>2 DEF BooksInv, SettlementInv, TypeOK, Account
      <4>3. ASSUME NEW i \in Idx(u)', ledger'[u][i].type = "RESERVE"
            PROVE  ledger'[u][i].period <= account'[u].spend_period
        <5>1. CASE i \in Idx(u) /\ ledger'[u][i] = ledger[u][i]
          <6>1. ledger[u][i].period <= account[u].spend_period
            BY <1>1, <4>3, <5>1 DEF MonthsInOrder
          <6>2. ledger[u][i] \in Entry
            BY <1>1, <5>1 DEF Base, TypeOK, Idx
          <6>3. ledger[u][i].period \in Nat
            BY <6>2 DEF Entry
          <6> QED BY <4>1, <4>2, <5>1, <6>1, <6>3
        <5>2. CASE Books(u, MoveOf(s, u), ledger'[u][i])
          <6>1. MoveOf(s, u).type = "RESERVE" /\ ledger'[u][i].period = MoveOf(s, u).period
            BY <4>3, <5>2 DEF Books
          <6> QED BY <4>1, <4>2, <6>1
        <5> QED BY <1>1, <1>4, <5>1, <5>2, RowCases
      <4> QED BY <4>1, <4>3
    <3>2. CASE u \notin done
      <4>1. account'[u] = account[u] /\ ledger'[u] = ledger[u]
        BY <1>1, <1>4, <3>2, CommitCases
      <4>2. SpentIsNet(u)'
        <5>1. SpentIsNet(u)
          BY DEF SpendInv, PeriodSpentIsNetSpend, SpentIsNet
        <5> QED BY <4>1, <5>1 DEF SpentIsNet, MonthSpend, NetSpend, ReservesIn, AmountsOf,
                                  OpenHolds, SettlementsOf, CapturesOf, Idx
      <4>3. account'[u].spend_period <= month
        BY <1>1, <4>1 DEF MonthsInOrder
      <4> QED BY <1>1, <4>1, <4>2, <4>3 DEF MonthsInOrder, Idx
    <3> QED BY <3>1, <3>2
  <2> QED BY <2>1, <2>2, <2>3 DEF MonthsInOrder, PeriodSpentIsNetSpend, SpentIsNet
<1> QED BY <1>2, <1>3, <1>4 DEF SpendInv, Writes

(* In every reachable state what sessions are ready to spend is stamped    *)
(* with a month the account may enter, no reserve is stamped with a later  *)
(* month than the account is in, and the counter is the month's net spend. *)
THEOREM SpendInvariant == Spec => []SpendInv
BY InitSpend, NextSpend, PTL DEF Spec

(* period_spent is the net spend of the reserves stamped with the month    *)
(* the account is in, whatever refunds, rollovers and races came before.   *)
THEOREM CounterFollowsLedger == Spec => []PeriodSpentIsNetSpend
<1>1. SpendInv => PeriodSpentIsNetSpend
  BY DEF SpendInv
<1> QED BY <1>1, SpendInvariant, PTL

LEMMA CommitWithinCap ==
    ASSUME SpendInv, NEW s \in Sessions,
           NEW done \in SUBSET DOMAIN tx[s].legs, WriteLegs(s, done), NEW u \in Users
    PROVE  BooksWithinCap(u)
<1> SUFFICES ASSUME Len(ledger'[u]) > Len(ledger[u]),
                    ledger'[u][Len(ledger'[u])].type = "RESERVE", account[u].limit # 0
             PROVE  MonthSpend(u, ledger'[u][Len(ledger'[u])].period)
                      - ledger'[u][Len(ledger'[u])].amount <= account[u].limit
  BY DEF BooksWithinCap
<1>1. BooksInv /\ ledger[u] \in Seq(Entry) /\ account[u] \in Account
  BY DEF SpendInv, BooksInv, SettlementInv, TypeOK
<1>2. u \in done
  <2>1. CASE ledger'[u] = ledger[u]
    BY <1>1, <2>1
  <2> QED BY <1>1, <2>1, CommitCases DEF BooksInv
<1>3. PICK m : m = MoveOf(s, u)
  OBVIOUS
<1>4. PICK e \in Entry : Books(u, m, e)
  BY <1>1, <1>2, <1>3, CommitCases DEF BooksInv
<1>5. ledger'[u][Len(ledger'[u])] = e
  BY <1>1, <1>4, BooksGrows
<1>6. m.type = "RESERVE" /\ e.period = m.period /\ e.amount = m.amount /\ m \in Movement
  BY <1>4, <1>5 DEF Books
<1>7. m.spend = -m.amount /\ m.amount < 0 /\ m.amount \in Int
  <2>1. tx[s].pc = "ready" /\ m = tx[s].legs[u].move
    BY <1>3 DEF WriteLegs, MoveOf
  <2>2. m.spend = -m.amount
    BY <1>2, <1>6, <2>1 DEF SpendInv, MovesSpend
  <2>3. m.amount < 0
    BY <1>1, <1>2, <1>3, <1>6, NewRowAddsUp DEF BooksInv, MoveAddsUp
  <2> QED BY <1>6, <2>2, <2>3 DEF Movement
<1>8. m.spend > 0
  BY <1>7
<1>9. SpentNow(account[u], m) + m.spend <= account[u].limit
  <2>1. Matches(account[u], account[u], m)
    BY <1>1, <1>2, <1>3, CommitBooks DEF BooksInv
  <2> QED BY <1>8, <2>1 DEF Matches, WithinCap
<1>10. SpentNow(account[u], m) = MonthSpend(u, m.period)
  BY <1>2, <1>3, <1>6, SpentNowIsNet
<1>11. MonthSpend(u, m.period) \in Nat
  BY <1>1, <1>6, MonthFacts DEF Movement
<1>12. MonthSpend(u, m.period) - m.amount <= account[u].limit
  BY <1>7, <1>9, <1>10, <1>11
<1> QED BY <1>5, <1>6, <1>12

(* The monthly cap: no step of any session books a reserve that takes the  *)
(* month's net spend above the cap its owner has set, although the spend   *)
(* it was checked against was read before other sessions wrote.            *)
THEOREM CapIsHonoured == Spec => CapHonoured
<1>1. SpendInv /\ [Next]_vars => [\A u \in Users : BooksWithinCap(u)]_vars
  <2> SUFFICES ASSUME SpendInv, [Next]_vars PROVE \A u \in Users : BooksWithinCap(u)
    OBVIOUS
  <2>1. ASSUME \A s \in Sessions : ~Writes(s) PROVE \A u \in Users : BooksWithinCap(u)
    <3>1. UNCHANGED ledger /\ Base
      BY <2>1, OtherSteps DEF SpendInv, BooksInv, SettlementInv, Base
    <3>2. \A u \in Users : Len(ledger[u]) \in Nat
      BY <3>1 DEF Base, TypeOK
    <3>3. \A u \in Users : ~(Len(ledger'[u]) > Len(ledger[u]))
      BY <3>1, <3>2
    <3> QED BY <3>3 DEF BooksWithinCap
  <2> QED BY <2>1, CommitWithinCap DEF Writes
<1> QED BY <1>1, SpendInvariant, PTL DEF Spec, CapHonoured
=============================================================================
