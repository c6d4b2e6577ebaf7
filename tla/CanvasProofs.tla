---------------------------- MODULE CanvasProofs ----------------------------
(***************************************************************************)
(* Proofs about an open canvas, for any bounds on what happens: the feed   *)
(* replays to the rows, the save loop deletes its person's cards only and  *)
(* strands nothing, and a tab that was given every change has what the     *)
(* server has.                                                             *)
(***************************************************************************)
EXTENDS CanvasSync, FiniteSetTheorems, WellFoundedInduction, TLAPS

-----------------------------------------------------------------------------
(* Folds over sequences.  FoldLeft is a recursive function on the sets of  *)
(* positions, which takes out the last position first.                     *)

LEMMA SmallestOf ==
    ASSUME NEW T \in SUBSET Nat, T # {}
    PROVE  \E n \in T : \A m \in T : n <= m
<1>1. IsWellFoundedOn(OpToRel(<, Nat), Nat)
  BY NatLessThanWellFounded
<1>2. PICK n \in T : \A m \in T : <<m, n>> \notin OpToRel(<, Nat)
  BY <1>1, WFMin
<1>3. \A m \in T : ~(m < n)
  BY <1>2 DEF OpToRel
<1> QED BY <1>3

(* What holds at 0 and passes on to the next holds up to n. *)
LEMMA CountUp ==
    ASSUME NEW n \in Nat, NEW T, 0 \in T, \A k \in 0 .. n - 1 : k \in T => k + 1 \in T
    PROVE  n \in T
<1> DEFINE B == {k \in 0 .. n : k \notin T}
<1> SUFFICES ASSUME n \notin T PROVE FALSE
  OBVIOUS
<1>1. B \in SUBSET Nat /\ B # {}
  OBVIOUS
<1>2. PICK k \in B : \A m \in B : k <= m
  <2> HIDE DEF B
  <2> QED BY <1>1, SmallestOf
<1>3. k \in 0 .. n /\ k \notin T /\ k # 0
  BY <1>2
<1>4. k - 1 \in 0 .. n - 1 /\ (k - 1) + 1 = k
  BY <1>3
<1>5. k - 1 \in B
  BY <1>3, <1>4
<1> QED BY <1>2, <1>3, <1>5

LEMMA LastOf ==
    ASSUME NEW n \in Nat, NEW s \in SUBSET (1 .. n), s # {}
    PROVE  Max(s) \in s /\ \A y \in s : y <= Max(s)
<1> DEFINE T == {n - x : x \in s}
<1>1. T \in SUBSET Nat /\ T # {}
  <2>1. \A x \in s : x \in Int /\ n - x \in Nat
    OBVIOUS
  <2> QED BY <2>1
<1>2. PICK m \in T : \A k \in T : m <= k
  <2> HIDE DEF T
  <2> QED BY <1>1, SmallestOf
<1>3. PICK x \in s : m = n - x
  BY <1>2
<1>4. ASSUME NEW y \in s PROVE x >= y
  <2>1. n - y \in T
    OBVIOUS
  <2>2. m <= n - y /\ x \in Int /\ y \in Int
    BY <1>2, <2>1
  <2> HIDE DEF T
  <2> QED BY <1>3, <2>2
<1>5. \E z \in s : \A y \in s : z >= y
  BY <1>4
<1> HIDE DEF T
<1>6. Max(s) \in s /\ \A y \in s : Max(s) >= y
  BY <1>5 DEF Max
<1> QED BY <1>6

(* G folds F over the first n elements of seq, at every set of positions.  *)
FoldsOn(G, F, b, n, seq) ==
    /\ G[{}] = b
    /\ \A s \in SUBSET (1 .. n) :
          s # {} => G[s] = F[<<G[s \ {Max(s)}], seq[Max(s)]>>]

LEMMA FoldGoesOn ==
    ASSUME NEW X, NEW Y, NEW F \in [X \X Y -> X], NEW b \in X, NEW k \in Nat,
           NEW n \in Nat, k < n, NEW seq \in [1 .. n -> Y],
           NEW G \in [SUBSET (1 .. k) -> X], FoldsOn(G, F, b, k, seq)
    PROVE  \E H \in [SUBSET (1 .. k + 1) -> X] : FoldsOn(H, F, b, k + 1, seq)
<1> DEFINE H == [s \in SUBSET (1 .. k + 1) |->
                    IF k + 1 \in s THEN F[<<G[s \ {k + 1}], seq[k + 1]>>] ELSE G[s]]
<1>1. ASSUME NEW s \in SUBSET (1 .. k + 1)
      PROVE  /\ s \ {k + 1} \in SUBSET (1 .. k)
             /\ k + 1 \notin s => s \in SUBSET (1 .. k)
  OBVIOUS
<1>2. seq[k + 1] \in Y /\ k + 1 \in Nat
  OBVIOUS
<1>3. ASSUME NEW s \in SUBSET (1 .. k + 1) PROVE H[s] \in X
  <2>1. CASE k + 1 \in s
    <3>1. G[s \ {k + 1}] \in X
      BY <1>1
    <3> QED BY <1>2, <2>1, <3>1
  <2>2. CASE k + 1 \notin s
    BY <1>1, <2>2
  <2> QED BY <2>1, <2>2
<1>4. H \in [SUBSET (1 .. k + 1) -> X]
  BY <1>3
<1>5. H[{}] = b
  BY DEF FoldsOn
<1>6. ASSUME NEW s \in SUBSET (1 .. k + 1), s # {}
      PROVE  H[s] = F[<<H[s \ {Max(s)}], seq[Max(s)]>>]
  <2>1. Max(s) \in s /\ \A y \in s : y <= Max(s)
    BY <1>2, <1>6, LastOf
  <2>2. CASE k + 1 \in s
    <3>1. Max(s) = k + 1
      <4>1. Max(s) \in 1 .. k + 1 /\ k + 1 <= Max(s)
        BY <2>1, <2>2
      <4> HIDE DEF H
      <4> QED BY <4>1
    <3>2. H[s \ {k + 1}] = G[s \ {k + 1}]
      BY <1>1
    <3>3. H[s] = F[<<G[s \ {k + 1}], seq[k + 1]>>]
      BY <2>2
    <3> HIDE DEF H
    <3> QED BY <3>1, <3>2, <3>3
  <2>3. CASE k + 1 \notin s
    <3>1. s \in SUBSET (1 .. k)
      BY <1>1, <2>3
    <3>2. G[s] = F[<<G[s \ {Max(s)}], seq[Max(s)]>>]
      BY <1>6, <3>1 DEF FoldsOn
    <3>3. s \ {Max(s)} \in SUBSET (1 .. k + 1) /\ k + 1 \notin s \ {Max(s)}
      BY <2>3, <3>1
    <3>4. H[s] = G[s] /\ H[s \ {Max(s)}] = G[s \ {Max(s)}]
      BY <2>3, <3>3
    <3> HIDE DEF H
    <3> QED BY <3>2, <3>4
  <2> QED BY <2>2, <2>3
<1> HIDE DEF H
<1> QED BY <1>4, <1>5, <1>6 DEF FoldsOn

LEMMA FoldExists ==
    ASSUME NEW X, NEW Y, NEW F \in [X \X Y -> X], NEW b \in X,
           NEW n \in Nat, NEW seq \in [1 .. n -> Y]
    PROVE  \E G \in [SUBSET (1 .. n) -> X] : FoldsOn(G, F, b, n, seq)
<1> DEFINE T == {k \in 0 .. n :
                    \E G \in [SUBSET (1 .. k) -> X] : FoldsOn(G, F, b, k, seq)}
<1>1. 0 \in T
  <2> DEFINE G == [s \in SUBSET (1 .. 0) |-> b]
  <2>1. \A s \in SUBSET (1 .. 0) : s = {}
    OBVIOUS
  <2>2. G \in [SUBSET (1 .. 0) -> X] /\ G[{}] = b
    OBVIOUS
  <2> HIDE DEF G
  <2>3. FoldsOn(G, F, b, 0, seq)
    BY <2>1, <2>2 DEF FoldsOn
  <2>4. \E K \in [SUBSET (1 .. 0) -> X] : FoldsOn(K, F, b, 0, seq)
    BY <2>2, <2>3
  <2>5. 0 \in 0 .. n
    OBVIOUS
  <2> QED BY <2>4, <2>5
<1>2. ASSUME NEW k \in 0 .. n - 1, k \in T PROVE k + 1 \in T
  <2>1. k \in Nat /\ k < n /\ k + 1 \in 0 .. n
    OBVIOUS
  <2>2. PICK G \in [SUBSET (1 .. k) -> X] : FoldsOn(G, F, b, k, seq)
    BY <1>2
  <2>3. \E H \in [SUBSET (1 .. k + 1) -> X] : FoldsOn(H, F, b, k + 1, seq)
    BY <2>1, <2>2, FoldGoesOn
  <2> QED BY <2>1, <2>3
<1>3. n \in T
  <2> HIDE DEF T
  <2> QED BY <1>1, <1>2, CountUp
<1> QED BY <1>3

(* Two functions that start alike and go on alike are one.                 *)
Alike(G, H, n) ==
    /\ G[{}] = H[{}]
    /\ \A s \in SUBSET (1 .. n) : s # {} =>
          (G[s \ {Max(s)}] = H[s \ {Max(s)}] => G[s] = H[s])

LEMMA FoldsAgree ==
    ASSUME NEW n \in Nat, NEW G, NEW H, Alike(G, H, n)
    PROVE  \A s \in SUBSET (1 .. n) : G[s] = H[s]
<1> DEFINE T == {k \in 0 .. n : \A s \in SUBSET (1 .. k) : G[s] = H[s]}
<1>1. 0 \in T
  <2>1. \A s \in SUBSET (1 .. 0) : s = {}
    OBVIOUS
  <2>2. \A s \in SUBSET (1 .. 0) : G[s] = H[s]
    BY <2>1 DEF Alike
  <2>3. 0 \in 0 .. n
    OBVIOUS
  <2> QED BY <2>2, <2>3
<1>2. ASSUME NEW k \in 0 .. n - 1, k \in T PROVE k + 1 \in T
  <2>1. k \in Nat /\ k + 1 \in Nat /\ k + 1 \in 0 .. n
    OBVIOUS
  <2>2. \A s \in SUBSET (1 .. k) : G[s] = H[s]
    BY <1>2
  <2> HIDE DEF T
  <2>3. ASSUME NEW s \in SUBSET (1 .. k + 1), s # {} PROVE G[s] = H[s]
    <3>1. Max(s) \in s /\ \A y \in s : y <= Max(s)
      BY <2>1, <2>3, LastOf
    <3>2. s \in SUBSET (1 .. n)
      BY <2>1
    <3>3. ASSUME NEW y \in s \ {Max(s)} PROVE y \in 1 .. k
      <4>1. y \in 1 .. k + 1 /\ Max(s) \in 1 .. k + 1 /\ y <= Max(s) /\ y # Max(s)
        BY <3>1
      <4> QED BY <2>1, <4>1
    <3>4. G[s \ {Max(s)}] = H[s \ {Max(s)}]
      <4>1. s \ {Max(s)} \in SUBSET (1 .. k)
        BY <3>3
      <4> QED BY <2>2, <4>1
    <3> QED BY <2>3, <3>2, <3>4 DEF Alike
  <2>4. \A s \in SUBSET (1 .. k + 1) : G[s] = H[s]
    BY <2>3 DEF Alike
  <2> QED BY <2>1, <2>4 DEF T
<1>3. n \in T
  <2> HIDE DEF T
  <2> QED BY <1>1, <1>2, CountUp
<1> QED BY <1>3

(* The fold of F over a sequence, and how it grows with the sequence.      *)
Folded(X, F, b, seq) ==
    (CHOOSE G \in [SUBSET (1 .. Len(seq)) -> X] : FoldsOn(G, F, b, Len(seq), seq))
        [1 .. Len(seq)]

FoldsAll(G, X, F, b, seq) ==
    G \in [SUBSET (1 .. Len(seq)) -> X] /\ FoldsOn(G, F, b, Len(seq), seq)

LEMMA FoldedIs ==
    ASSUME NEW X, NEW Y, NEW F, NEW b, NEW seq \in Seq(Y),
           NEW G, FoldsAll(G, X, F, b, seq)
    PROVE  Folded(X, F, b, seq) = G[1 .. Len(seq)]
<1> DEFINE n == Len(seq)
           H == CHOOSE K \in [SUBSET (1 .. n) -> X] : FoldsOn(K, F, b, n, seq)
<1>1. n \in Nat /\ (1 .. n) \in SUBSET (1 .. n)
  OBVIOUS
<1>2. /\ H \in [SUBSET (1 .. n) -> X] /\ FoldsOn(H, F, b, n, seq)
      /\ G \in [SUBSET (1 .. n) -> X] /\ FoldsOn(G, F, b, n, seq)
  BY DEF FoldsAll
<1>3. Folded(X, F, b, seq) = H[1 .. n]
  BY DEF Folded
<1> HIDE DEF H, n
<1>4. G[{}] = H[{}]
  BY <1>2 DEF FoldsOn, n
<1>5. ASSUME NEW s \in SUBSET (1 .. n), s # {}, G[s \ {Max(s)}] = H[s \ {Max(s)}]
      PROVE  G[s] = H[s]
  BY <1>2, <1>5 DEF FoldsOn, n
<1>6. \A s \in SUBSET (1 .. n) : G[s] = H[s]
  <2>1. Alike(G, H, n)
    BY <1>4, <1>5 DEF Alike
  <2> QED BY <1>1, <2>1, FoldsAgree
<1> QED BY <1>3, <1>6 DEF n

Foldable(X, Y, F, b, seq) == F \in [X \X Y -> X] /\ b \in X /\ seq \in Seq(Y)

LEMMA FoldedFacts ==
    ASSUME NEW X, NEW Y, NEW F, NEW b, NEW seq, Foldable(X, Y, F, b, seq)
    PROVE  /\ Folded(X, F, b, seq) \in X
           /\ \A y \in Y : Folded(X, F, b, Append(seq, y)) = F[<<Folded(X, F, b, seq), y>>]
<1> DEFINE n == Len(seq)
<1>0. F \in [X \X Y -> X] /\ b \in X /\ seq \in Seq(Y)
  BY DEF Foldable
<1>1. n \in Nat /\ seq \in [1 .. n -> Y]
  BY <1>0
<1>2. PICK G \in [SUBSET (1 .. n) -> X] : FoldsOn(G, F, b, n, seq)
  BY <1>0, <1>1, FoldExists
<1>3. Folded(X, F, b, seq) = G[1 .. n] /\ G[1 .. n] \in X
  <2>1. Folded(X, F, b, seq) = G[1 .. Len(seq)]
    <3>1. FoldsAll(G, X, F, b, seq)
      BY <1>2 DEF FoldsAll
    <3> HIDE DEF n
    <3> QED BY <1>0, <3>1, FoldedIs
  <2>2. (1 .. n) \in SUBSET (1 .. n)
    OBVIOUS
  <2> HIDE DEF n
  <2> QED BY <2>1, <2>2 DEF n
<1>4. ASSUME NEW y \in Y
      PROVE  Folded(X, F, b, Append(seq, y)) = F[<<Folded(X, F, b, seq), y>>]
  <2> DEFINE all == Append(seq, y)
  <2>1. /\ all \in Seq(Y) /\ Len(all) = n + 1 /\ all[n + 1] = y
        /\ \A i \in 1 .. n : all[i] = seq[i]
    BY <1>0
  <2>2. all \in [1 .. n + 1 -> Y] /\ n + 1 \in Nat
    <3> HIDE DEF all, n
    <3>1. all \in [1 .. Len(all) -> Y]
      BY <2>1
    <3> QED BY <1>1, <2>1, <3>1
  <2> HIDE DEF all, n
  <2>3. PICK H \in [SUBSET (1 .. n + 1) -> X] : FoldsOn(H, F, b, n + 1, all)
    BY <1>0, <2>2, FoldExists
  <2>4. Folded(X, F, b, all) = H[1 .. n + 1]
    <3>1. FoldsAll(H, X, F, b, all)
      BY <2>1, <2>3 DEF FoldsAll
    <3>2. Folded(X, F, b, all) = H[1 .. Len(all)]
      BY <2>1, <3>1, FoldedIs
    <3> QED BY <2>1, <3>2
  <2>5. ASSUME NEW s \in SUBSET (1 .. n), s # {}
        PROVE  /\ G[s] = F[<<G[s \ {Max(s)}], seq[Max(s)]>>]
               /\ H[s] = F[<<H[s \ {Max(s)}], seq[Max(s)]>>]
    <3>1. Max(s) \in 1 .. n
      BY <1>1, <2>5, LastOf
    <3>2. s \in SUBSET (1 .. n + 1)
      BY <1>1
    <3> QED BY <1>2, <2>1, <2>3, <2>5, <3>1, <3>2 DEF FoldsOn
  <2>6. G[{}] = H[{}]
    BY <1>2, <2>3 DEF FoldsOn
  <2>7. \A s \in SUBSET (1 .. n) : G[s] = H[s]
    <3>1. Alike(G, H, n)
      BY <2>5, <2>6 DEF Alike
    <3>2. n \in Nat
      BY <1>1
    <3> QED BY <3>1, <3>2, FoldsAgree
  <2>8. Max(1 .. n + 1) = n + 1
    <3> DEFINE s == 1 .. n + 1
    <3>1. s \in SUBSET (1 .. n + 1) /\ s # {} /\ n + 1 \in s
      <4>1. n + 1 \in 1 .. n + 1
        BY <1>1
      <4> QED BY <4>1
    <3>2. Max(s) \in s /\ \A y2 \in s : y2 <= Max(s)
      <4> HIDE DEF s
      <4> QED BY <2>2, <3>1, LastOf
    <3>3. Max(s) \in 1 .. n + 1 /\ n + 1 <= Max(s)
      BY <3>1, <3>2
    <3> QED BY <1>1, <3>3
  <2>9. (1 .. n + 1) \ {n + 1} = 1 .. n /\ (1 .. n + 1) # {}
        /\ (1 .. n + 1) \in SUBSET (1 .. n + 1)
    <3>1. \A i : (i \in (1 .. n + 1) \ {n + 1}) <=> i \in 1 .. n
      BY <1>1
    <3>2. n + 1 \in 1 .. n + 1
      BY <1>1
    <3> QED BY <3>1, <3>2
  <2>10. H[1 .. n + 1] = F[<<H[1 .. n], y>>]
    <3> DEFINE t == 1 .. n + 1
    <3>1. t \in SUBSET (1 .. n + 1) /\ t # {} /\ t \ {n + 1} = 1 .. n /\ Max(t) = n + 1
      BY <2>8, <2>9
    <3>2. \A s \in SUBSET (1 .. n + 1) :
             s # {} => H[s] = F[<<H[s \ {Max(s)}], all[Max(s)]>>]
      BY <2>3 DEF FoldsOn
    <3> HIDE DEF t
    <3>3. H[t] = F[<<H[t \ {Max(t)}], all[Max(t)]>>]
      BY <3>1, <3>2
    <3>4. H[t] = F[<<H[1 .. n], y>>]
      BY <2>1, <3>1, <3>3
    <3> QED BY <3>4 DEF t
  <2> QED BY <1>3, <2>4, <2>7, <2>10 DEF all
<1> QED BY <1>3, <1>4

LEMMA FoldedNone ==
    ASSUME NEW X, NEW Y, NEW F, NEW b, NEW seq, Foldable(X, Y, F, b, seq)
    PROVE  Len(seq) = 0 => Folded(X, F, b, seq) = b
<1> DEFINE n == Len(seq)
<1>1. F \in [X \X Y -> X] /\ b \in X /\ seq \in Seq(Y)
  BY DEF Foldable
<1>2. n \in Nat /\ seq \in [1 .. n -> Y]
  BY <1>1
<1>3. PICK G \in [SUBSET (1 .. n) -> X] : FoldsOn(G, F, b, n, seq)
  <2> HIDE DEF n
  <2> QED BY <1>1, <1>2, FoldExists
<1>4. FoldsAll(G, X, F, b, seq)
  BY <1>3 DEF FoldsAll
<1>5. Folded(X, F, b, seq) = G[1 .. n]
  <2> HIDE DEF n
  <2> QED BY <1>1, <1>4, FoldedIs DEF n
<1>6. G[{}] = b
  BY <1>3 DEF FoldsOn
<1> HIDE DEF n
<1>7. n = 0 => 1 .. n = {}
  OBVIOUS
<1> QED BY <1>5, <1>6, <1>7 DEF n

(* One turn of the recursion that FoldLeft is, and a function that such    *)
(* turns leave as it is.                                                   *)
FoldTurn(op(_, _), h, b, seq) ==
    [s \in SUBSET DOMAIN seq |->
        IF s = {} THEN b ELSE op(h[s \ {Max(s)}], seq[Max(s)])]

FoldTurns(H, X, Y, F, b, seq) ==
    /\ H = [s \in SUBSET DOMAIN seq |-> H[s]] /\ H[{}] = b
    /\ \A s \in SUBSET DOMAIN seq :
          s # {} => /\ H[s \ {Max(s)}] \in X /\ seq[Max(s)] \in Y
                    /\ H[s] = F[<<H[s \ {Max(s)}], seq[Max(s)]>>]

LEMMA TurnsExist ==
    ASSUME NEW X, NEW Y, NEW F \in [X \X Y -> X], NEW b \in X, NEW seq \in Seq(Y)
    PROVE  \E G : FoldTurns(G, X, Y, F, b, seq)
<1> DEFINE n == Len(seq)
<1>1. n \in Nat /\ seq \in [1 .. n -> Y] /\ DOMAIN seq = 1 .. n
  OBVIOUS
<1> HIDE DEF n
<1>2. PICK G \in [SUBSET (1 .. n) -> X] : FoldsOn(G, F, b, n, seq)
  BY <1>1, FoldExists
<1>3. ASSUME NEW s \in SUBSET (1 .. n), s # {}
      PROVE  /\ G[s \ {Max(s)}] \in X /\ seq[Max(s)] \in Y
             /\ G[s] = F[<<G[s \ {Max(s)}], seq[Max(s)]>>]
  <2>1. Max(s) \in 1 .. n
    BY <1>1, <1>3, LastOf
  <2>2. G[s \ {Max(s)}] \in X /\ seq[Max(s)] \in Y
    BY <1>1, <2>1
  <2> QED BY <1>2, <1>3, <2>2 DEF FoldsOn
<1>4. FoldTurns(G, X, Y, F, b, seq)
  BY <1>1, <1>2, <1>3 DEF FoldTurns, FoldsOn
<1> QED BY <1>4

Follows(H, X, Y, F, b, seq) ==
    /\ F \in [X \X Y -> X] /\ b \in X /\ seq \in Seq(Y)
    /\ H[{}] = b
    /\ \A s \in SUBSET DOMAIN seq : s # {} =>
          (H[s \ {Max(s)}] \in X => H[s] = F[<<H[s \ {Max(s)}], seq[Max(s)]>>])

LEMMA TurnsFold ==
    ASSUME NEW X, NEW Y, NEW F, NEW b, NEW seq, NEW H, Follows(H, X, Y, F, b, seq)
    PROVE  H[DOMAIN seq] = Folded(X, F, b, seq)
<1> DEFINE n == Len(seq)
<1>0. F \in [X \X Y -> X] /\ b \in X /\ seq \in Seq(Y)
  BY DEF Follows
<1>1. n \in Nat /\ seq \in [1 .. n -> Y] /\ DOMAIN seq = 1 .. n
  BY <1>0
<1>2. PICK G \in [SUBSET (1 .. n) -> X] : FoldsOn(G, F, b, n, seq)
  <2> HIDE DEF n
  <2> QED BY <1>0, <1>1, FoldExists
<1>3. FoldsAll(G, X, F, b, seq)
  BY <1>2 DEF FoldsAll
<1> HIDE DEF n
<1>4. Alike(G, H, n)
  <2>1. ASSUME NEW s \in SUBSET (1 .. n), s # {}, G[s \ {Max(s)}] = H[s \ {Max(s)}]
        PROVE  G[s] = H[s]
    <3>1. H[s \ {Max(s)}] \in X
      BY <1>2, <2>1
    <3>2. H[s] = F[<<H[s \ {Max(s)}], seq[Max(s)]>>]
      BY <1>1, <2>1, <3>1 DEF Follows
    <3> QED BY <1>2, <2>1, <3>2 DEF FoldsOn
  <2>2. G[{}] = H[{}]
    BY <1>2 DEF FoldsOn, Follows
  <2> QED BY <2>1, <2>2 DEF Alike
<1>5. n \in Nat
  BY <1>1
<1>6. G[1 .. n] = H[1 .. n]
  BY <1>4, <1>5, FoldsAgree
<1>7. Folded(X, F, b, seq) = G[1 .. n]
  BY <1>0, <1>3, FoldedIs DEF n
<1> QED BY <1>1, <1>6, <1>7

LEMMA ApplyChangeFolds ==
    ASSUME NEW X, NEW Y, NEW F \in [X \X Y -> X],
           \A x \in X, y \in Y : F[<<x, y>>] = ApplyChange(x, y),
           NEW b \in X, NEW seq \in Seq(Y)
    PROVE  FoldLeft(ApplyChange, b, seq) = Folded(X, F, b, seq)
<1> DEFINE H == CHOOSE h : h = FoldTurn(ApplyChange, h, b, seq)
<1>1. FoldLeft(ApplyChange, b, seq) = H[DOMAIN seq]
  BY DEF FoldLeft, MapThenFoldSet, FoldTurn
<1>2. PICK G : FoldTurns(G, X, Y, F, b, seq)
  BY TurnsExist
<1>3. G = FoldTurn(ApplyChange, G, b, seq)
  BY <1>2 DEF FoldTurns, FoldTurn
<1>4. H = FoldTurn(ApplyChange, H, b, seq)
  BY <1>3
<1> HIDE DEF H
<1>5. H[{}] = b
  BY <1>4 DEF FoldTurn
<1>6. ASSUME NEW s \in SUBSET DOMAIN seq, s # {}, H[s \ {Max(s)}] \in X
      PROVE  H[s] = F[<<H[s \ {Max(s)}], seq[Max(s)]>>]
  <2>1. H[s] = ApplyChange(H[s \ {Max(s)}], seq[Max(s)])
    BY <1>4, <1>6 DEF FoldTurn
  <2>2. seq[Max(s)] \in Y
    BY <1>2, <1>6 DEF FoldTurns
  <2> QED BY <1>6, <2>1, <2>2
<1>7. Follows(H, X, Y, F, b, seq)
  BY <1>5, <1>6 DEF Follows
<1>8. H[DOMAIN seq] = Folded(X, F, b, seq)
  BY <1>7, TurnsFold
<1> QED BY <1>1, <1>8

LEMMA HigherFolds ==
    ASSUME NEW X, NEW Y, NEW F \in [X \X Y -> X],
           \A x \in X, y \in Y : F[<<x, y>>] = Higher(x, y),
           NEW b \in X, NEW seq \in Seq(Y)
    PROVE  FoldLeft(Higher, b, seq) = Folded(X, F, b, seq)
<1> DEFINE H == CHOOSE h : h = FoldTurn(Higher, h, b, seq)
<1>1. FoldLeft(Higher, b, seq) = H[DOMAIN seq]
  BY DEF FoldLeft, MapThenFoldSet, FoldTurn
<1>2. PICK G : FoldTurns(G, X, Y, F, b, seq)
  BY TurnsExist
<1>3. G = FoldTurn(Higher, G, b, seq)
  BY <1>2 DEF FoldTurns, FoldTurn
<1>4. H = FoldTurn(Higher, H, b, seq)
  BY <1>3
<1> HIDE DEF H
<1>5. H[{}] = b
  BY <1>4 DEF FoldTurn
<1>6. ASSUME NEW s \in SUBSET DOMAIN seq, s # {}, H[s \ {Max(s)}] \in X
      PROVE  H[s] = F[<<H[s \ {Max(s)}], seq[Max(s)]>>]
  <2>1. H[s] = Higher(H[s \ {Max(s)}], seq[Max(s)])
    BY <1>4, <1>6 DEF FoldTurn
  <2>2. seq[Max(s)] \in Y
    BY <1>2, <1>6 DEF FoldTurns
  <2> QED BY <1>6, <2>1, <2>2
<1>7. Follows(H, X, Y, F, b, seq)
  BY <1>5, <1>6 DEF Follows
<1>8. H[DOMAIN seq] = Folded(X, F, b, seq)
  BY <1>7, TurnsFold
<1> QED BY <1>1, <1>8

LEMMA ApplyOpFolds ==
    ASSUME NEW X, NEW Y, NEW F \in [X \X Y -> X],
           \A x \in X, y \in Y : F[<<x, y>>] = ApplyOp(x, y),
           NEW b \in X, NEW seq \in Seq(Y)
    PROVE  FoldLeft(ApplyOp, b, seq) = Folded(X, F, b, seq)
<1> DEFINE H == CHOOSE h : h = FoldTurn(ApplyOp, h, b, seq)
<1>1. FoldLeft(ApplyOp, b, seq) = H[DOMAIN seq]
  BY DEF FoldLeft, MapThenFoldSet, FoldTurn
<1>2. PICK G : FoldTurns(G, X, Y, F, b, seq)
  BY TurnsExist
<1>3. G = FoldTurn(ApplyOp, G, b, seq)
  BY <1>2 DEF FoldTurns, FoldTurn
<1>4. H = FoldTurn(ApplyOp, H, b, seq)
  BY <1>3
<1> HIDE DEF H
<1>5. H[{}] = b
  BY <1>4 DEF FoldTurn
<1>6. ASSUME NEW s \in SUBSET DOMAIN seq, s # {}, H[s \ {Max(s)}] \in X
      PROVE  H[s] = F[<<H[s \ {Max(s)}], seq[Max(s)]>>]
  <2>1. H[s] = ApplyOp(H[s \ {Max(s)}], seq[Max(s)])
    BY <1>4, <1>6 DEF FoldTurn
  <2>2. seq[Max(s)] \in Y
    BY <1>2, <1>6 DEF FoldTurns
  <2> QED BY <1>6, <2>1, <2>2
<1>7. Follows(H, X, Y, F, b, seq)
  BY <1>5, <1>6 DEF Follows
<1>8. H[DOMAIN seq] = Folded(X, F, b, seq)
  BY <1>7, TurnsFold
<1> QED BY <1>1, <1>8

LEMMA LogCutFolds ==
    ASSUME NEW X, NEW Y, NEW F \in [X \X Y -> X],
           \A x \in X, y \in Y : F[<<x, y>>] = LogCut(x, y),
           NEW b \in X, NEW seq \in Seq(Y)
    PROVE  FoldLeft(LogCut, b, seq) = Folded(X, F, b, seq)
<1> DEFINE H == CHOOSE h : h = FoldTurn(LogCut, h, b, seq)
<1>1. FoldLeft(LogCut, b, seq) = H[DOMAIN seq]
  BY DEF FoldLeft, MapThenFoldSet, FoldTurn
<1>2. PICK G : FoldTurns(G, X, Y, F, b, seq)
  BY TurnsExist
<1>3. G = FoldTurn(LogCut, G, b, seq)
  BY <1>2 DEF FoldTurns, FoldTurn
<1>4. H = FoldTurn(LogCut, H, b, seq)
  BY <1>3
<1> HIDE DEF H
<1>5. H[{}] = b
  BY <1>4 DEF FoldTurn
<1>6. ASSUME NEW s \in SUBSET DOMAIN seq, s # {}, H[s \ {Max(s)}] \in X
      PROVE  H[s] = F[<<H[s \ {Max(s)}], seq[Max(s)]>>]
  <2>1. H[s] = LogCut(H[s \ {Max(s)}], seq[Max(s)])
    BY <1>4, <1>6 DEF FoldTurn
  <2>2. seq[Max(s)] \in Y
    BY <1>2, <1>6 DEF FoldTurns
  <2> QED BY <1>6, <2>1, <2>2
<1>7. Follows(H, X, Y, F, b, seq)
  BY <1>5, <1>6 DEF Follows
<1>8. H[DOMAIN seq] = Folded(X, F, b, seq)
  BY <1>7, TurnsFold
<1> QED BY <1>1, <1>8

LEMMA InsertFolds ==
    ASSUME NEW X, NEW Y, NEW F \in [X \X Y -> X],
           \A x \in X, y \in Y : F[<<x, y>>] = InsertBySeq(x, y),
           NEW b \in X, NEW seq \in Seq(Y)
    PROVE  FoldLeft(InsertBySeq, b, seq) = Folded(X, F, b, seq)
<1> DEFINE H == CHOOSE h : h = FoldTurn(InsertBySeq, h, b, seq)
<1>1. FoldLeft(InsertBySeq, b, seq) = H[DOMAIN seq]
  BY DEF FoldLeft, MapThenFoldSet, FoldTurn
<1>2. PICK G : FoldTurns(G, X, Y, F, b, seq)
  BY TurnsExist
<1>3. G = FoldTurn(InsertBySeq, G, b, seq)
  BY <1>2 DEF FoldTurns, FoldTurn
<1>4. H = FoldTurn(InsertBySeq, H, b, seq)
  BY <1>3
<1> HIDE DEF H
<1>5. H[{}] = b
  BY <1>4 DEF FoldTurn
<1>6. ASSUME NEW s \in SUBSET DOMAIN seq, s # {}, H[s \ {Max(s)}] \in X
      PROVE  H[s] = F[<<H[s \ {Max(s)}], seq[Max(s)]>>]
  <2>1. H[s] = InsertBySeq(H[s \ {Max(s)}], seq[Max(s)])
    BY <1>4, <1>6 DEF FoldTurn
  <2>2. seq[Max(s)] \in Y
    BY <1>2, <1>6 DEF FoldTurns
  <2> QED BY <1>6, <2>1, <2>2
<1>7. Follows(H, X, Y, F, b, seq)
  BY <1>5, <1>6 DEF Follows
<1>8. H[DOMAIN seq] = Folded(X, F, b, seq)
  BY <1>7, TurnsFold
<1> QED BY <1>1, <1>8

-----------------------------------------------------------------------------
(* Graphs, and the changes folded into them *)

NodeRecs == [rev : Nat, pos : {0, 1}, text : {0, 1}]
NodeMaps == UNION {[S -> NodeRecs] : S \in SUBSET Cards}
Links    == Cards \X Cards
Graphs   == [nodes : NodeMaps, edges : SUBSET Links]

NodeChanges == [seq : Nat, kind : {"node"}, id : Cards,
                node : {<<>>} \cup {<<n>> : n \in NodeRecs}]
EdgeChanges == [seq : Nat, kind : {"edge"}, id : Links, set : BOOLEAN]
Changes     == NodeChanges \cup EdgeChanges

ChangesTo(top) == {ch \in Changes : ch.seq \in 1 .. top}

LEMMA NodeMapIs ==
    ASSUME NEW m \in NodeMaps
    PROVE  /\ DOMAIN m \in SUBSET Cards /\ m \in [DOMAIN m -> NodeRecs]
           /\ \A c \in DOMAIN m : m[c] \in NodeRecs
BY DEF NodeMaps

LEMMA IsNodeMap ==
    ASSUME NEW S \in SUBSET Cards, NEW m \in [S -> NodeRecs]
    PROVE  m \in NodeMaps
BY DEF NodeMaps

LEMMA PutWell ==
    ASSUME NEW g \in Graphs, NEW c \in Cards, NEW n \in NodeRecs
    PROVE  /\ Put(g, c, n) \in Graphs
           /\ DOMAIN Put(g, c, n).nodes = DOMAIN g.nodes \cup {c}
           /\ Put(g, c, n).edges = g.edges
<1> DEFINE m == [x \in DOMAIN g.nodes \cup {c} |-> IF x = c THEN n ELSE g.nodes[x]]
<1>1. g.nodes \in NodeMaps /\ g.edges \in SUBSET Links
  BY DEF Graphs
<1>2. DOMAIN g.nodes \in SUBSET Cards /\ \A x \in DOMAIN g.nodes : g.nodes[x] \in NodeRecs
  BY <1>1, NodeMapIs
<1>3. m \in [DOMAIN g.nodes \cup {c} -> NodeRecs] /\ DOMAIN g.nodes \cup {c} \in SUBSET Cards
  BY <1>2
<1>4. m \in NodeMaps /\ DOMAIN m = DOMAIN g.nodes \cup {c}
  BY <1>3, IsNodeMap
<1>5. Put(g, c, n) = [nodes |-> m, edges |-> g.edges]
  BY DEF Put, Graphs
<1> HIDE DEF m
<1> QED BY <1>1, <1>4, <1>5 DEF Graphs

LEMMA CutWell ==
    ASSUME NEW g \in Graphs, NEW c
    PROVE  /\ Cut(g, c) \in Graphs
           /\ DOMAIN Cut(g, c).nodes = DOMAIN g.nodes \ {c}
<1> DEFINE m == Restrict(g.nodes, DOMAIN g.nodes \ {c})
<1>1. g.nodes \in NodeMaps /\ g.edges \in SUBSET Links
  BY DEF Graphs
<1>2. DOMAIN g.nodes \in SUBSET Cards /\ \A x \in DOMAIN g.nodes : g.nodes[x] \in NodeRecs
  BY <1>1, NodeMapIs
<1>3. m \in [DOMAIN g.nodes \ {c} -> NodeRecs] /\ DOMAIN g.nodes \ {c} \in SUBSET Cards
  BY <1>2 DEF Restrict
<1>4. m \in NodeMaps /\ DOMAIN m = DOMAIN g.nodes \ {c}
  BY <1>3, IsNodeMap
<1>5. Cut(g, c) = [nodes |-> m, edges |-> {e \in g.edges : c \notin {e[1], e[2]}}]
  BY DEF Cut
<1> HIDE DEF m
<1> QED BY <1>1, <1>4, <1>5 DEF Graphs

LEMMA ApplyChangeWell ==
    ASSUME NEW g \in Graphs, NEW ch \in Changes
    PROVE  ApplyChange(g, ch) \in Graphs
<1>1. CASE ch \in NodeChanges /\ ch.node = <<>>
  <2>1. ApplyChange(g, ch) = Cut(g, ch.id)
    BY <1>1 DEF ApplyChange, NodeChanges
  <2> QED BY <2>1, CutWell
<1>2. CASE ch \in NodeChanges /\ ch.node # <<>>
  <2>1. PICK n \in NodeRecs : ch.node = <<n>>
    BY <1>2 DEF NodeChanges
  <2>2. ApplyChange(g, ch) = Put(g, ch.id, n) /\ ch.id \in Cards
    BY <1>2, <2>1 DEF ApplyChange, NodeChanges
  <2> QED BY <2>2, PutWell
<1>3. CASE ch \in EdgeChanges
  <2>1. ch.kind = "edge" /\ ch.id \in Links /\ ch.set \in BOOLEAN
    BY <1>3 DEF EdgeChanges
  <2>2. ApplyChange(g, ch) =
          [nodes |-> g.nodes, edges |-> IF ch.set THEN g.edges \cup {ch.id}
                                                  ELSE g.edges \ {ch.id}]
    BY <2>1 DEF ApplyChange, Graphs
  <2> QED BY <2>1, <2>2 DEF Graphs
<1> QED BY <1>1, <1>2, <1>3 DEF Changes

LEMMA ApplyNone == \A g \in Graphs : ApplyChanges(g, <<>>) = g
<1> SUFFICES ASSUME NEW g \in Graphs PROVE ApplyChanges(g, <<>>) = g
  OBVIOUS
<1> DEFINE F == [p \in Graphs \X Changes |-> ApplyChange(p[1], p[2])]
           e == <<>>
<1>1. F \in [Graphs \X Changes -> Graphs]
  BY ApplyChangeWell
<1>2. \A x \in Graphs, y \in Changes : F[<<x, y>>] = ApplyChange(x, y)
  OBVIOUS
<1>3. e \in Seq(Changes) /\ Len(e) = 0
  OBVIOUS
<1> HIDE DEF F, e
<1>4. ApplyChanges(g, e) = Folded(Graphs, F, g, e)
  BY <1>1, <1>2, <1>3, ApplyChangeFolds DEF ApplyChanges
<1>5. Folded(Graphs, F, g, e) = g
  <2>1. Foldable(Graphs, Changes, F, g, e)
    BY <1>1, <1>3 DEF Foldable
  <2> QED BY <1>3, <2>1, FoldedNone
<1> QED BY <1>4, <1>5 DEF e

(* Folding one more change is folding it last. *)
LEMMA ApplyChangesFacts ==
    ASSUME NEW g \in Graphs, NEW chs \in Seq(Changes)
    PROVE  /\ ApplyChanges(g, chs) \in Graphs
           /\ \A ch \in Changes :
                 ApplyChanges(g, Append(chs, ch)) = ApplyChange(ApplyChanges(g, chs), ch)
<1> DEFINE F == [p \in Graphs \X Changes |-> ApplyChange(p[1], p[2])]
<1>1. F \in [Graphs \X Changes -> Graphs]
  BY ApplyChangeWell
<1>2. \A x \in Graphs, y \in Changes : F[<<x, y>>] = ApplyChange(x, y)
  OBVIOUS
<1> HIDE DEF F
<1>3. /\ Folded(Graphs, F, g, chs) \in Graphs
      /\ \A y \in Changes : Folded(Graphs, F, g, Append(chs, y))
                               = F[<<Folded(Graphs, F, g, chs), y>>]
  <2>1. Foldable(Graphs, Changes, F, g, chs)
    BY <1>1 DEF Foldable
  <2> QED BY <2>1, FoldedFacts
<1>4. \A seq \in Seq(Changes) : ApplyChanges(g, seq) = Folded(Graphs, F, g, seq)
  BY <1>1, <1>2, ApplyChangeFolds DEF ApplyChanges
<1>5. \A y \in Changes : Append(chs, y) \in Seq(Changes)
  OBVIOUS
<1> QED BY <1>2, <1>3, <1>4, <1>5

-----------------------------------------------------------------------------
(* The server: a batch under way, and what each operation adds to it *)

Works == [rows : Graphs, seq : Nat, log : Seq(Changes), made : Seq(Changes), ok : BOOLEAN]
Blank == [nodes |-> <<>>, edges |-> {}]

(* The log of a batch replays to its rows, and numbers go up.              *)
WorkWell(s, low) ==
    /\ s \in Works /\ s.seq >= low
    /\ s.log \in Seq(ChangesTo(s.seq)) /\ s.made \in Seq(ChangesTo(s.seq))
    /\ ApplyChanges(Blank, s.log) = s.rows

CreateNodes == [kind : {"node.create"}, id : Cards, node : NodeRecs]
UpdateNodes == [kind : {"node.update"}, id : Cards, rev : Nat, node : NodeRecs,
                fields : SUBSET {"pos", "text"}]
DeleteNodes == [kind : {"node.delete"}, id : Cards, rev : Nat]
CreateEdges == [kind : {"edge.create"}, id : Links]
DeleteEdges == [kind : {"edge.delete"}, id : Links]
Ops == CreateNodes \cup UpdateNodes \cup DeleteNodes \cup CreateEdges \cup DeleteEdges

LEMMA SeqGrows ==
    ASSUME NEW S, NEW T, S \subseteq T, NEW q \in Seq(S)
    PROVE  q \in Seq(T)
OBVIOUS

LEMMA BlankWell == Blank \in Graphs
<1>1. <<>> \in [{} -> NodeRecs]
  OBVIOUS
<1>2. <<>> \in NodeMaps
  BY <1>1, IsNodeMap
<1> QED BY <1>2 DEF Graphs, Blank

LEMMA HigherWell ==
    ASSUME NEW top \in Nat, NEW more \in Nat, top <= more, NEW q \in Seq(ChangesTo(top))
    PROVE  q \in Seq(ChangesTo(more)) /\ q \in Seq(Changes)
<1>1. ChangesTo(top) \subseteq ChangesTo(more) /\ ChangesTo(top) \subseteq Changes
  BY DEF ChangesTo
<1> QED BY <1>1, SeqGrows

LEMMA LoggedWell ==
    ASSUME NEW s, NEW low \in Nat, WorkWell(s, low), NEW ch \in Changes
    PROVE  /\ WorkWell(Logged(s, ch), low)
           /\ Logged(s, ch).rows = ApplyChange(s.rows, [ch EXCEPT !.seq = s.seq + 1])
<1> DEFINE c == [ch EXCEPT !.seq = s.seq + 1]
           r == Logged(s, ch)
<1>1. s \in Works /\ s.seq \in Nat /\ s.rows \in Graphs
  BY DEF WorkWell, Works
<1>2. c \in ChangesTo(s.seq + 1) /\ c \in Changes
  <2>1. c \in Changes /\ c.seq = s.seq + 1
    <3>1. CASE ch \in NodeChanges
      BY <1>1, <3>1 DEF NodeChanges, Changes
    <3>2. CASE ch \in EdgeChanges
      BY <1>1, <3>2 DEF EdgeChanges, Changes
    <3> QED BY <3>1, <3>2 DEF Changes
  <2> HIDE DEF c
  <2>2. c.seq \in 1 .. s.seq + 1
    BY <1>1, <2>1
  <2> QED BY <2>1, <2>2 DEF ChangesTo
<1> HIDE DEF c
<1>3. r = [rows |-> ApplyChange(s.rows, c), seq |-> s.seq + 1, log |-> Append(s.log, c),
           made |-> Append(s.made, c), ok |-> s.ok]
  <2>1. s = [rows |-> s.rows, seq |-> s.seq, log |-> s.log, made |-> s.made, ok |-> s.ok]
    BY <1>1 DEF Works
  <2>2. Logged(s, ch) = [s EXCEPT !.seq = s.seq + 1, !.log = Append(s.log, c),
                                  !.made = Append(s.made, c),
                                  !.rows = ApplyChange(s.rows, c)]
    BY DEF Logged, c
  <2> QED BY <2>1, <2>2
<1> HIDE DEF r
<1>4. s.seq + 1 \in Nat /\ s.seq <= s.seq + 1 /\ s.seq >= low
  BY <1>1 DEF WorkWell
<1>5. s.log \in Seq(ChangesTo(s.seq)) /\ s.made \in Seq(ChangesTo(s.seq))
  BY DEF WorkWell
<1>6. /\ s.log \in Seq(ChangesTo(s.seq + 1)) /\ s.log \in Seq(Changes)
      /\ s.made \in Seq(ChangesTo(s.seq + 1)) /\ s.made \in Seq(Changes)
  BY <1>1, <1>4, <1>5, HigherWell
<1>7. /\ r.log \in Seq(ChangesTo(s.seq + 1)) /\ r.log \in Seq(Changes)
      /\ r.made \in Seq(ChangesTo(s.seq + 1)) /\ r.made \in Seq(Changes)
  BY <1>2, <1>3, <1>6
<1>8. r.rows \in Graphs
  BY <1>1, <1>2, <1>3, ApplyChangeWell
<1>9. ApplyChanges(Blank, r.log) = r.rows
  <2>1. ApplyChanges(Blank, s.log) = s.rows
    BY DEF WorkWell
  <2>2. ApplyChanges(Blank, Append(s.log, c)) = ApplyChange(ApplyChanges(Blank, s.log), c)
    BY <1>2, <1>6, BlankWell, ApplyChangesFacts
  <2> QED BY <1>3, <2>1, <2>2
<1>10. r \in Works /\ r.seq = s.seq + 1
  <2>1. s.ok \in BOOLEAN
    BY <1>1 DEF Works
  <2> QED BY <1>3, <1>4, <1>7, <1>8, <2>1 DEF Works
<1>11. r.rows = ApplyChange(s.rows, c)
  BY <1>3
<1>12. WorkWell(r, low)
  <2>1. r.seq >= low
    BY <1>1, <1>4, <1>10
  <2> QED BY <1>7, <1>9, <1>10, <2>1 DEF WorkWell
<1> QED BY <1>11, <1>12 DEF r, c

LEMMA SpendsWell ==
    ASSUME NEW s, NEW low \in Nat, WorkWell(s, low)
    PROVE  WorkWell(Spends(s), low)
<1>1. s \in Works /\ s.seq \in Nat /\ s.seq >= low
  BY DEF WorkWell, Works
<1>2. Spends(s) = [rows |-> s.rows, seq |-> s.seq + 1, log |-> s.log, made |-> s.made,
                   ok |-> s.ok]
  BY <1>1 DEF Spends, Works
<1>3. /\ s.log \in Seq(ChangesTo(s.seq + 1)) /\ s.made \in Seq(ChangesTo(s.seq + 1))
  <2>1. s.log \in Seq(ChangesTo(s.seq)) /\ s.made \in Seq(ChangesTo(s.seq))
    BY DEF WorkWell
  <2>2. s.seq + 1 \in Nat /\ s.seq <= s.seq + 1
    BY <1>1
  <2> QED BY <1>1, <2>1, <2>2, HigherWell
<1>4. Spends(s) \in Works
  BY <1>1, <1>2 DEF Works
<1>5. s.seq + 1 >= low
  BY <1>1
<1>6. ApplyChanges(Blank, s.log) = s.rows
  BY DEF WorkWell
<1> QED BY <1>2, <1>3, <1>4, <1>5, <1>6 DEF WorkWell

LEMMA RefusedWell ==
    ASSUME NEW s, NEW low \in Nat, WorkWell(s, low)
    PROVE  WorkWell(Refused(s), low)
<1>1. s \in Works
  BY DEF WorkWell
<1>2. /\ Refused(s).rows = s.rows /\ Refused(s).seq = s.seq
      /\ Refused(s).log = s.log /\ Refused(s).made = s.made
  BY <1>1 DEF Refused, Works
<1>3. Refused(s) \in Works
  BY <1>1 DEF Refused, Works
<1> QED BY <1>2, <1>3 DEF WorkWell

LEMMA SetToSeqWell ==
    ASSUME NEW S, IsFiniteSet(S)
    PROVE  SetToSeq(S) \in Seq(S)
<1>1. Cardinality(S) \in Nat /\ ExistsBijection(1 .. Cardinality(S), S)
  BY FS_CardinalityType
<1>2. \E f \in [1 .. Cardinality(S) -> S] : IsInjective(f)
  BY <1>1 DEF ExistsBijection, Bijection, Injection
<1>3. SetToSeq(S) \in [1 .. Cardinality(S) -> S]
  BY <1>2 DEF SetToSeq
<1> QED BY <1>1, <1>3

LEMMA CardsFinite == \A S \in SUBSET Cards : IsFiniteSet(S)
<1>1. IsFiniteSet({First}) /\ IsFiniteSet({First} \cup {Mine})
  BY FS_Singleton, FS_AddElement
<1>2. IsFiniteSet(({First} \cup {Mine}) \cup {Landed})
  BY <1>1, FS_AddElement
<1>3. ({First} \cup {Mine}) \cup {Landed} = Cards
  BY DEF Cards
<1> QED BY <1>2, <1>3, FS_Subset

LEMMA LinksFinite == \A S \in SUBSET Links : IsFiniteSet(S)
<1>1. IsFiniteSet(Cards)
  BY CardsFinite
<1>2. IsFiniteSet(Links)
  BY <1>1, FS_Product DEF Links
<1> QED BY <1>2, FS_Subset

LEMMA SetNodeWell ==
    ASSUME NEW c \in Cards, NEW n \in NodeRecs
    PROVE  SetNode(0, c, n) \in Changes /\ CutNode(0, c) \in Changes
BY DEF SetNode, CutNode, Changes, NodeChanges

LEMMA SetEdgeWell ==
    ASSUME NEW e \in Links
    PROVE  SetEdge(0, e) \in Changes /\ CutEdge(0, e) \in Changes
BY DEF SetEdge, CutEdge, Changes, EdgeChanges

(* The cascade of a card's connections. *)
LEMMA CascadeWell ==
    ASSUME NEW s, NEW low \in Nat, WorkWell(s, low), NEW S \in SUBSET Links
    PROVE  WorkWell(FoldLeft(LogCut, s, SetToSeq(S)), low)
<1> DEFINE X == {t \in Works : WorkWell(t, low)}
           F == [p \in X \X Links |-> LogCut(p[1], p[2])]
           q == SetToSeq(S)
<1>1. ASSUME NEW t \in X, NEW e \in Links PROVE LogCut(t, e) \in X
  <2>1. WorkWell(Logged(t, CutEdge(0, e)), low)
    BY SetEdgeWell, LoggedWell
  <2> QED BY <2>1 DEF WorkWell, LogCut
<1>2. F \in [X \X Links -> X] /\ \A t \in X, e \in Links : F[<<t, e>>] = LogCut(t, e)
  BY <1>1
<1>3. q \in Seq(Links)
  <2>1. q \in Seq(S)
    BY LinksFinite, SetToSeqWell
  <2> HIDE DEF q
  <2> QED BY <2>1, SeqGrows
<1>4. s \in X
  BY DEF WorkWell
<1> HIDE DEF X, F, q
<1>5. Foldable(X, Links, F, s, q)
  BY <1>2, <1>3, <1>4 DEF Foldable
<1>6. Folded(X, F, s, q) \in X
  BY <1>5, FoldedFacts
<1>7. FoldLeft(LogCut, s, q) = Folded(X, F, s, q)
  BY <1>2, <1>3, <1>4, LogCutFolds
<1> QED BY <1>6, <1>7 DEF X, q

LEMMA OpCases ==
    ASSUME NEW op \in Ops
    PROVE  \/ op.kind = "node.create" /\ op \in CreateNodes
           \/ op.kind = "node.update" /\ op \in UpdateNodes
           \/ op.kind = "node.delete" /\ op \in DeleteNodes
           \/ op.kind = "edge.create" /\ op \in CreateEdges
           \/ op.kind = "edge.delete" /\ op \in DeleteEdges
BY DEF Ops, CreateNodes, UpdateNodes, DeleteNodes, CreateEdges, DeleteEdges

LEMMA HeldRow ==
    ASSUME NEW s \in Works, NEW c \in DOMAIN s.rows.nodes
    PROVE  s.rows.nodes[c] \in NodeRecs
<1>1. s.rows.nodes \in NodeMaps
  BY DEF Works, Graphs
<1> QED BY <1>1, NodeMapIs

(* A row as a patch leaves it. *)
LEMMA PatchedWell ==
    ASSUME NEW row \in NodeRecs, NEW node \in NodeRecs, NEW fields \in SUBSET {"pos", "text"}
    PROVE  [f \in DOMAIN row |-> IF f = "rev" THEN row.rev + 1
                                 ELSE IF f \in fields THEN node[f] ELSE row[f]] \in NodeRecs
<1>1. DOMAIN row = {"rev", "pos", "text"} /\ row.rev + 1 \in Nat
  BY DEF NodeRecs
<1>2. /\ row["pos"] \in {0, 1} /\ row["text"] \in {0, 1}
      /\ node["pos"] \in {0, 1} /\ node["text"] \in {0, 1}
  BY DEF NodeRecs
<1> QED BY <1>1, <1>2 DEF NodeRecs

LEMMA ApplyOpWell ==
    ASSUME NEW s, NEW low \in Nat, WorkWell(s, low), NEW op \in Ops
    PROVE  WorkWell(ApplyOp(s, op), low)
<1>1. s \in Works /\ WorkWell(Spends(s), low) /\ WorkWell(Refused(s), low)
  BY SpendsWell, RefusedWell DEF WorkWell
<1>2. CASE ~s.ok
  BY <1>2 DEF ApplyOp
<1>3. CASE s.ok /\ op.kind = "node.create" /\ op \in CreateNodes
  <2>1. ApplyOp(s, op) = CreateNode(s, op)
    BY <1>3 DEF ApplyOp
  <2>2. op.id \in Cards /\ [op.node EXCEPT !.rev = 1] \in NodeRecs
    BY <1>3 DEF CreateNodes, NodeRecs
  <2>3. WorkWell(Logged(s, SetNode(0, op.id, [op.node EXCEPT !.rev = 1])), low)
    BY <2>2, SetNodeWell, LoggedWell
  <2> QED BY <1>1, <2>1, <2>3 DEF CreateNode
<1>4. CASE s.ok /\ op.kind = "node.update" /\ op \in UpdateNodes
  <2>1. ApplyOp(s, op) = UpdateNode(s, op)
    BY <1>4 DEF ApplyOp
  <2>2. CASE ~Holds(s, op)
    BY <1>1, <2>1, <2>2 DEF UpdateNode
  <2>3. CASE Holds(s, op)
    <3> DEFINE row == s.rows.nodes[op.id]
               n == [f \in DOMAIN row |-> IF f = "rev" THEN row.rev + 1
                                          ELSE IF f \in op.fields THEN op.node[f] ELSE row[f]]
    <3>1. UpdateNode(s, op) = Logged(s, SetNode(0, op.id, n))
      BY <2>3 DEF UpdateNode
    <3>2. row \in NodeRecs
      BY <1>1, <2>3, HeldRow DEF Holds
    <3>3. op.id \in Cards /\ op.node \in NodeRecs /\ op.fields \in SUBSET {"pos", "text"}
      BY <1>4 DEF UpdateNodes
    <3>4. n \in NodeRecs
      <4> HIDE DEF row
      <4> QED BY <3>2, <3>3, PatchedWell
    <3> HIDE DEF n
    <3> QED BY <2>1, <3>1, <3>3, <3>4, SetNodeWell, LoggedWell
  <2> QED BY <2>2, <2>3
<1>5. CASE s.ok /\ op.kind = "node.delete" /\ op \in DeleteNodes
  <2>1. ApplyOp(s, op) = DeleteNode(s, op)
    BY <1>5 DEF ApplyOp
  <2>2. CASE ~Holds(s, op)
    BY <2>1, <2>2 DEF DeleteNode
  <2>3. CASE Holds(s, op)
    <3> DEFINE S == {e \in s.rows.edges : op.id \in {e[1], e[2]}}
               t == FoldLeft(LogCut, s, SetToSeq(S))
    <3>1. DeleteNode(s, op) = Logged(t, CutNode(0, op.id))
      BY <2>3 DEF DeleteNode
    <3>2. S \in SUBSET Links
      BY <1>1 DEF Works, Graphs
    <3>3. WorkWell(t, low)
      <4> HIDE DEF S
      <4> QED BY <3>2, CascadeWell
    <3>4. CutNode(0, op.id) \in Changes
      BY <1>5 DEF DeleteNodes, CutNode, Changes, NodeChanges
    <3> HIDE DEF t
    <3> QED BY <2>1, <3>1, <3>3, <3>4, LoggedWell
  <2> QED BY <2>2, <2>3
<1>6. CASE s.ok /\ op.kind = "edge.create" /\ op \in CreateEdges
  <2>1. ApplyOp(s, op) = CreateEdge(s, op)
    BY <1>6 DEF ApplyOp
  <2>2. WorkWell(Logged(s, SetEdge(0, op.id)), low)
    BY <1>6, SetEdgeWell, LoggedWell DEF CreateEdges
  <2> QED BY <1>1, <2>1, <2>2 DEF CreateEdge
<1>7. CASE s.ok /\ op.kind = "edge.delete" /\ op \in DeleteEdges
  <2>1. ApplyOp(s, op) = DeleteEdge(s, op)
    BY <1>7 DEF ApplyOp
  <2>2. WorkWell(Logged(s, CutEdge(0, op.id)), low)
    BY <1>7, SetEdgeWell, LoggedWell DEF DeleteEdges
  <2> QED BY <2>1, <2>2 DEF DeleteEdge
<1> QED BY <1>2, <1>3, <1>4, <1>5, <1>6, <1>7, OpCases

(* A batch leaves rows and log as they belong together, refused or not.    *)
LEMMA ApplyOpsWell ==
    ASSUME NEW s, NEW low \in Nat, WorkWell(Begun(s), low), NEW ops \in Seq(Ops)
    PROVE  WorkWell(ApplyOps(s, ops), low)
<1> DEFINE X == {t \in Works : WorkWell(t, low)}
           F == [p \in X \X Ops |-> ApplyOp(p[1], p[2])]
           b == Begun(s)
<1>1. ASSUME NEW t \in X, NEW op \in Ops PROVE ApplyOp(t, op) \in X
  <2>1. WorkWell(ApplyOp(t, op), low)
    BY ApplyOpWell
  <2> QED BY <2>1 DEF WorkWell
<1>2. F \in [X \X Ops -> X] /\ \A t \in X, op \in Ops : F[<<t, op>>] = ApplyOp(t, op)
  BY <1>1
<1>3. b \in X
  BY DEF WorkWell
<1>4. ApplyOps(s, ops) = FoldLeft(ApplyOp, b, ops)
  BY DEF ApplyOps
<1> HIDE DEF X, F, b
<1>5. Foldable(X, Ops, F, b, ops)
  BY <1>2, <1>3 DEF Foldable
<1>6. Folded(X, F, b, ops) \in X
  BY <1>5, FoldedFacts
<1>7. FoldLeft(ApplyOp, b, ops) = Folded(X, F, b, ops)
  BY <1>2, <1>3, ApplyOpFolds
<1> QED BY <1>4, <1>6, <1>7 DEF X

-----------------------------------------------------------------------------
(* What is read from the feed *)

LEMMA HighestWell ==
    ASSUME NEW top \in Nat, NEW low \in 0 .. top, NEW chs \in Seq(ChangesTo(top))
    PROVE  HighestSeq(chs, low) \in 0 .. top
<1> DEFINE X == 0 .. top
           Y == ChangesTo(top)
           F == [p \in X \X Y |-> Higher(p[1], p[2])]
<1>1. ASSUME NEW x \in X, NEW y \in Y PROVE Higher(x, y) \in X
  BY DEF Higher, ChangesTo
<1>2. F \in [X \X Y -> X] /\ \A x \in X, y \in Y : F[<<x, y>>] = Higher(x, y)
  BY <1>1
<1>3. chs \in Seq(Y) /\ low \in X
  OBVIOUS
<1> HIDE DEF X, Y, F
<1>4. Foldable(X, Y, F, low, chs)
  BY <1>2, <1>3 DEF Foldable
<1>5. Folded(X, F, low, chs) \in X
  BY <1>4, FoldedFacts
<1>6. FoldLeft(Higher, low, chs) = Folded(X, F, low, chs)
  BY <1>2, <1>3, HigherFolds
<1> QED BY <1>5, <1>6 DEF HighestSeq, X

LEMMA AfterWell ==
    ASSUME NEW S, NEW since, NEW chs \in Seq(S)
    PROVE  After(chs, since) \in Seq(S)
<1> DEFINE Keep(kept, ch) == IF ch.seq > since THEN Append(kept, ch) ELSE kept
           X == Seq(S)
           F == [p \in X \X S |-> Keep(p[1], p[2])]
           H == CHOOSE h : h = FoldTurn(Keep, h, <<>>, chs)
<1>1. F \in [X \X S -> X] /\ <<>> \in X
  OBVIOUS
<1>2. \A x \in X, y \in S : F[<<x, y>>] = Keep(x, y)
  OBVIOUS
<1>3. After(chs, since) = H[DOMAIN chs]
  BY DEF After, FoldLeft, MapThenFoldSet, FoldTurn
<1> HIDE DEF X, F
<1>4. PICK G : FoldTurns(G, X, S, F, <<>>, chs)
  BY <1>1, TurnsExist
<1>5. G = FoldTurn(Keep, G, <<>>, chs)
  <2> HIDE DEF Keep, H
  <2> QED BY <1>2, <1>4 DEF FoldTurns, FoldTurn
<1>6. H = FoldTurn(Keep, H, <<>>, chs)
  BY <1>5
<1> HIDE DEF Keep, H
<1>7. H[{}] = <<>>
  BY <1>6 DEF FoldTurn
<1>8. ASSUME NEW s \in SUBSET DOMAIN chs, s # {}, H[s \ {Max(s)}] \in X
      PROVE  H[s] = F[<<H[s \ {Max(s)}], chs[Max(s)]>>]
  <2>1. H[s] = Keep(H[s \ {Max(s)}], chs[Max(s)])
    BY <1>6, <1>8 DEF FoldTurn
  <2>2. chs[Max(s)] \in S
    BY <1>4, <1>8 DEF FoldTurns
  <2> QED BY <1>2, <1>8, <2>1, <2>2
<1>9. Follows(H, X, S, F, <<>>, chs)
  BY <1>1, <1>7, <1>8 DEF Follows
<1>10. H[DOMAIN chs] = Folded(X, F, <<>>, chs)
  BY <1>9, TurnsFold
<1>11. Folded(X, F, <<>>, chs) \in X
  <2>1. Foldable(X, S, F, <<>>, chs)
    BY <1>1 DEF Foldable
  <2> QED BY <2>1, FoldedFacts
<1> QED BY <1>3, <1>10, <1>11 DEF X

LEMMA InsertWell ==
    ASSUME NEW S, NEW sorted \in Seq(S), NEW ch \in S
    PROVE  InsertBySeq(sorted, ch) \in Seq(S)
<1> DEFINE T == {i \in DOMAIN sorted : sorted[i].seq <= ch.seq}
           k == Cardinality(T)
<1>1. Len(sorted) \in Nat /\ DOMAIN sorted = 1 .. Len(sorted)
  OBVIOUS
<1>2. IsFiniteSet(1 .. Len(sorted)) /\ Cardinality(1 .. Len(sorted)) = Len(sorted)
  BY <1>1, FS_Interval
<1>3. T \in SUBSET (1 .. Len(sorted))
  BY <1>1
<1>4. k \in Nat /\ k <= Len(sorted)
  <2> HIDE DEF T
  <2> QED BY <1>2, <1>3, FS_Subset, FS_CardinalityType
<1>5. InsertBySeq(sorted, ch) =
        (SubSeq(sorted, 1, (1 + k) - 1) \o <<ch>>) \o SubSeq(sorted, 1 + k, Len(sorted))
  BY DEF InsertBySeq, InsertAt
<1> HIDE DEF k
<1>6. (1 + k) - 1 = k /\ 1 + k \in Nat
  BY <1>4
<1>7. SubSeq(sorted, 1, k) \in Seq(S) /\ SubSeq(sorted, 1 + k, Len(sorted)) \in Seq(S)
  BY <1>1, <1>4
<1> QED BY <1>5, <1>6, <1>7

LEMMA BySeqWell ==
    ASSUME NEW S, NEW chs \in Seq(S)
    PROVE  BySeq(chs) \in Seq(S)
<1> DEFINE X == Seq(S)
           F == [p \in X \X S |-> InsertBySeq(p[1], p[2])]
<1>1. F \in [X \X S -> X] /\ \A x \in X, y \in S : F[<<x, y>>] = InsertBySeq(x, y)
  BY InsertWell
<1>2. <<>> \in X
  OBVIOUS
<1> HIDE DEF X, F
<1>3. Foldable(X, S, F, <<>>, chs)
  BY <1>1, <1>2 DEF Foldable
<1>4. Folded(X, F, <<>>, chs) \in X
  BY <1>3, FoldedFacts
<1>5. FoldLeft(InsertBySeq, <<>>, chs) = Folded(X, F, <<>>, chs)
  BY <1>1, <1>2, InsertFolds
<1> QED BY <1>4, <1>5 DEF BySeq, X

LEMMA MissedWell ==
    ASSUME NEW s, NEW since, s.log \in Seq(ChangesTo(s.seq))
    PROVE  ChangesSince(s, since).missed \in Seq(ChangesTo(s.seq))
<1>1. ChangesSince(s, since).missed = After(s.log, since)
  BY DEF ChangesSince
<1> QED BY <1>1, AfterWell

-----------------------------------------------------------------------------
(* The operations that carry one graph to another: cards are deleted only  *)
(* that the first has and the second has not.                              *)

OpsFor(base, next) ==
    {op \in Ops : op.kind = "node.delete" =>
                     op.id \in DOMAIN base.nodes \ DOMAIN next.nodes}

LEMMA ImageFinite ==
    ASSUME NEW C, IsFiniteSet(C), NEW T, NEW f \in Surjection(C, T)
    PROVE  IsFiniteSet(T)
BY FS_Surjection

LEMMA PartWell ==
    ASSUME NEW C, IsFiniteSet(C), NEW T, NEW f \in Surjection(C, T), NEW D, T \subseteq D
    PROVE  SetToSeq(T) \in Seq(D)
<1>1. SetToSeq(T) \in Seq(T)
  BY ImageFinite, SetToSeqWell
<1> QED BY <1>1, SeqGrows

LEMMA DiffWell ==
    ASSUME NEW base \in Graphs, NEW next \in Graphs
    PROVE  DiffGraph(base, next) \in Seq(OpsFor(base, next))
<1> DEFINE old   == DOMAIN base.nodes
           new   == DOMAIN next.nodes
           moved == {c \in old \cap new :
                        Fields(base.nodes[c], next.nodes[c]) # {}}
           create(c) == [kind |-> "node.create", id |-> c, node |-> next.nodes[c]]
           link(e)   == [kind |-> "edge.create", id |-> e]
           update(c) == [kind |-> "node.update", id |-> c,
                         rev |-> base.nodes[c].rev, node |-> next.nodes[c],
                         fields |-> Fields(base.nodes[c], next.nodes[c])]
           unlink(e) == [kind |-> "edge.delete", id |-> e]
           remove(c) == [kind |-> "node.delete", id |-> c, rev |-> base.nodes[c].rev]
           D == OpsFor(base, next)
<1>1. /\ old \in SUBSET Cards /\ new \in SUBSET Cards
      /\ \A c \in old : base.nodes[c] \in NodeRecs
      /\ \A c \in new : next.nodes[c] \in NodeRecs
  <2>1. base.nodes \in NodeMaps /\ next.nodes \in NodeMaps
    BY DEF Graphs
  <2> QED BY <2>1, NodeMapIs
<1>2. base.edges \in SUBSET Links /\ next.edges \in SUBSET Links
  BY DEF Graphs
<1>3. \A c \in old : base.nodes[c].rev \in Nat
  BY <1>1 DEF NodeRecs
<1>4. SetToSeq({create(c) : c \in new \ old}) \in Seq(D)
  <2> DEFINE C == new \ old
             T == {create(c) : c \in C}
             f == [c \in C |-> create(c)]
  <2>1. IsFiniteSet(C)
    BY <1>1, CardsFinite
  <2>2. f \in Surjection(C, T)
    BY DEF Surjection
  <2>3. ASSUME NEW c \in C PROVE create(c) \in D
    BY <1>1 DEF OpsFor, Ops, CreateNodes
  <2>4. T \subseteq D
    BY <2>3
  <2> HIDE DEF C, T, f
  <2> QED BY <2>1, <2>2, <2>4, PartWell DEF T, C
<1>5. SetToSeq({link(e) : e \in next.edges \ base.edges}) \in Seq(D)
  <2> DEFINE C == next.edges \ base.edges
             T == {link(c) : c \in C}
             f == [c \in C |-> link(c)]
  <2>1. IsFiniteSet(C)
    BY <1>2, LinksFinite
  <2>2. f \in Surjection(C, T)
    BY DEF Surjection
  <2>3. ASSUME NEW c \in C PROVE link(c) \in D
    BY <1>2 DEF OpsFor, Ops, CreateEdges
  <2>4. T \subseteq D
    BY <2>3
  <2> HIDE DEF C, T, f
  <2> QED BY <2>1, <2>2, <2>4, PartWell DEF T, C
<1>6. SetToSeq({update(c) : c \in moved}) \in Seq(D)
  <2> DEFINE C == moved
             T == {update(c) : c \in C}
             f == [c \in C |-> update(c)]
  <2>1. IsFiniteSet(C)
    BY <1>1, CardsFinite
  <2>2. f \in Surjection(C, T)
    BY DEF Surjection
  <2>3. ASSUME NEW c \in C PROVE update(c) \in D
    BY <1>1, <1>3 DEF OpsFor, Ops, UpdateNodes, Fields
  <2>4. T \subseteq D
    BY <2>3
  <2> HIDE DEF C, T, f
  <2> QED BY <2>1, <2>2, <2>4, PartWell DEF T, C
<1>7. SetToSeq({unlink(e) : e \in base.edges \ next.edges}) \in Seq(D)
  <2> DEFINE C == base.edges \ next.edges
             T == {unlink(c) : c \in C}
             f == [c \in C |-> unlink(c)]
  <2>1. IsFiniteSet(C)
    BY <1>2, LinksFinite
  <2>2. f \in Surjection(C, T)
    BY DEF Surjection
  <2>3. ASSUME NEW c \in C PROVE unlink(c) \in D
    BY <1>2 DEF OpsFor, Ops, DeleteEdges
  <2>4. T \subseteq D
    BY <2>3
  <2> HIDE DEF C, T, f
  <2> QED BY <2>1, <2>2, <2>4, PartWell DEF T, C
<1>8. SetToSeq({remove(c) : c \in old \ new}) \in Seq(D)
  <2> DEFINE C == old \ new
             T == {remove(c) : c \in C}
             f == [c \in C |-> remove(c)]
  <2>1. IsFiniteSet(C)
    BY <1>1, CardsFinite
  <2>2. f \in Surjection(C, T)
    BY DEF Surjection
  <2>3. ASSUME NEW c \in C PROVE remove(c) \in D
    BY <1>1, <1>3 DEF OpsFor, Ops, DeleteNodes
  <2>4. T \subseteq D
    BY <2>3
  <2> HIDE DEF C, T, f
  <2> QED BY <2>1, <2>2, <2>4, PartWell DEF T, C
<1> DEFINE a == SetToSeq({create(c) : c \in new \ old})
           b == SetToSeq({link(e) : e \in next.edges \ base.edges})
           m == SetToSeq({update(c) : c \in moved})
           d == SetToSeq({unlink(e) : e \in base.edges \ next.edges})
           r == SetToSeq({remove(c) : c \in old \ new})
<1>9. DiffGraph(base, next) = (((a \o b) \o m) \o d) \o r
  BY DEF DiffGraph
<1> HIDE DEF a, b, m, d, r, D
<1>10. (((a \o b) \o m) \o d) \o r \in Seq(D)
  BY <1>4, <1>5, <1>6, <1>7, <1>8 DEF a, b, m, d, r
<1> QED BY <1>9, <1>10 DEF D

-----------------------------------------------------------------------------
(* The tab *)

TabFields == {"base", "seq", "queue", "deferred", "view", "drawn", "typing",
              "minted", "aged", "gapped"}
Queues == {NoGraph} \cup {<<g>> : g \in Graphs}

(* What the tab holds is of the canvas, and cards it drew are in view, or  *)
(* safe: removed by the person, learned of behind the person's back, or    *)
(* shown when an arrangement drawn before was put back.                    *)
Drawable(t, top, safe) ==
    /\ DOMAIN t = TabFields
    /\ t.base \in Graphs /\ t.view \in Graphs /\ t.seq \in 0 .. top
    /\ t.queue \in Queues /\ t.deferred \in Seq(ChangesTo(top))
    /\ DOMAIN t.drawn \subseteq DOMAIN t.view.nodes \cup safe

(* A card acknowledged is in view and in the arrangement that waits, or    *)
(* safe: this is why a diff deletes nobody else's card.                    *)
Covered(t, safe) ==
    /\ DOMAIN t.base.nodes \subseteq DOMAIN t.view.nodes \cup safe
    /\ t.queue # NoGraph => DOMAIN t.base.nodes \subseteq DOMAIN t.queue[1].nodes \cup safe

(* What waits has a flush under way that will take it up. *)
Kept(t, fl) ==
    /\ t.queue # NoGraph => fl.st # "none"
    /\ t.deferred # <<>> => fl.st # "none" \/ t.gapped

SafeOps(safe) == {op \in Ops : op.kind = "node.delete" => op.id \in safe}

FlightWell(fl, top, safe) ==
    /\ fl.st \in {"none", "sent", "answered", "refused"}
    /\ fl.st \in {"sent", "answered"} => fl.desired \in Graphs
    /\ fl.st = "sent" => fl.ops \in Seq(SafeOps(safe)) /\ fl.since \in Nat
    /\ fl.st = "answered" => fl.seq \in 0 .. top /\ fl.changes \in Seq(ChangesTo(top))

LEMMA SetGraphWell ==
    ASSUME NEW t, NEW top \in Nat, NEW safe, Drawable(t, top, safe), NEW g \in Graphs
    PROVE  LET r == SetGraph(t, g) IN
           /\ Drawable(r, top, safe)
           /\ r.base = t.base /\ r.seq = t.seq /\ r.queue = t.queue
           /\ r.deferred = t.deferred /\ r.gapped = t.gapped
           /\ DOMAIN g.nodes \subseteq DOMAIN r.view.nodes \cup safe
<1> DEFINE r == SetGraph(t, g)
           m == [c \in DOMAIN g.nodes |->
                    IF c \in DOMAIN t.view.nodes
                    THEN [g.nodes[c] EXCEPT !.text = t.view.nodes[c].text]
                    ELSE g.nodes[c]]
           v == [nodes |-> m, edges |-> g.edges]
<1>1. /\ DOMAIN g.nodes \in SUBSET Cards /\ g.edges \in SUBSET Links
      /\ \A c \in DOMAIN g.nodes : g.nodes[c] \in NodeRecs
      /\ \A c \in DOMAIN t.view.nodes : t.view.nodes[c] \in NodeRecs
  <2>1. g.nodes \in NodeMaps /\ t.view.nodes \in NodeMaps /\ g.edges \in SUBSET Links
    BY DEF Graphs, Drawable
  <2> QED BY <2>1, NodeMapIs
<1>2. v \in Graphs /\ DOMAIN v.nodes = DOMAIN g.nodes
  <2>1. ASSUME NEW c \in DOMAIN g.nodes PROVE m[c] \in NodeRecs
    <3>1. CASE c \in DOMAIN t.view.nodes
      <4>1. g.nodes[c] \in NodeRecs /\ t.view.nodes[c].text \in {0, 1}
        BY <1>1, <3>1 DEF NodeRecs
      <4>2. [g.nodes[c] EXCEPT !.text = t.view.nodes[c].text] \in NodeRecs
        BY <4>1 DEF NodeRecs
      <4> QED BY <3>1, <4>2
    <3>2. CASE c \notin DOMAIN t.view.nodes
      BY <1>1, <3>2
    <3> QED BY <3>1, <3>2
  <2>2. m \in [DOMAIN g.nodes -> NodeRecs]
    BY <2>1
  <2>3. m \in NodeMaps
    <3> HIDE DEF m
    <3> QED BY <1>1, <2>2, IsNodeMap
  <2> QED BY <1>1, <2>3 DEF Graphs
<1>3. DOMAIN Positions(g) = DOMAIN g.nodes
  BY DEF Positions
<1>4. CASE Positions(g) = t.drawn
  <2>1. r = t
    BY <1>4 DEF SetGraph
  <2> HIDE DEF r
  <2> QED BY <1>3, <1>4, <2>1 DEF Drawable, r
<1>5. CASE Positions(g) # t.drawn
  <2>1. [g EXCEPT !.nodes = m] = v
    BY DEF Graphs
  <2>2. r = [t EXCEPT !.drawn = Positions(g), !.view = [g EXCEPT !.nodes = m]]
    BY <1>5 DEF SetGraph
  <2> HIDE DEF r, m, v
  <2>3. r = [t EXCEPT !.drawn = Positions(g), !.view = v]
    BY <2>1, <2>2
  <2>4. /\ DOMAIN r = TabFields /\ r.base = t.base /\ r.seq = t.seq /\ r.queue = t.queue
        /\ r.deferred = t.deferred /\ r.gapped = t.gapped
        /\ r.view = v /\ r.drawn = Positions(g)
    BY <2>3 DEF Drawable, TabFields
  <2> QED BY <1>2, <1>3, <2>4 DEF Drawable, r
<1> QED BY <1>4, <1>5

LEMMA HoldWell ==
    ASSUME NEW t, NEW top \in Nat, NEW safe, Drawable(t, top, safe),
           NEW g \in Graphs, NEW seq \in 0 .. top
    PROVE  LET r == Hold(t, g, seq) IN
           /\ Drawable(r, top, safe)
           /\ r.base = g /\ r.view = t.view /\ r.queue = t.queue
           /\ r.deferred = t.deferred /\ r.gapped = t.gapped
<1> DEFINE r == Hold(t, g, seq)
           aged == t.aged \/ Older(g, t.base)
<1>1. r = [t EXCEPT !.base = g, !.seq = seq, !.aged = aged]
  BY DEF Hold
<1> HIDE DEF r, aged
<1>2. PICK a : a = aged
  OBVIOUS
<1>3. r = [t EXCEPT !.base = g, !.seq = seq, !.aged = a]
  BY <1>1, <1>2
<1>4. /\ DOMAIN r = TabFields /\ r.base = g /\ r.seq = seq /\ r.queue = t.queue
      /\ r.deferred = t.deferred /\ r.gapped = t.gapped
      /\ r.view = t.view /\ r.drawn = t.drawn
  BY <1>3 DEF Drawable, TabFields
<1> QED BY <1>4 DEF Drawable, r

LEMMA AdoptWell ==
    ASSUME NEW t, NEW top \in Nat, NEW safe, Drawable(t, top, safe),
           NEW g \in Graphs, NEW seq \in 0 .. top
    PROVE  LET r == Adopt(t, g, seq) IN
           /\ Drawable(r, top, safe)
           /\ r.base = g /\ r.queue = t.queue
           /\ r.deferred = t.deferred /\ r.gapped = t.gapped
           /\ DOMAIN r.base.nodes \subseteq DOMAIN r.view.nodes \cup safe
<1> DEFINE u == [t EXCEPT !.base = g, !.seq = seq]
<1>1. /\ DOMAIN u = TabFields /\ u.base = g /\ u.seq = seq /\ u.queue = t.queue
      /\ u.deferred = t.deferred /\ u.gapped = t.gapped
      /\ u.view = t.view /\ u.drawn = t.drawn
  BY DEF Drawable, TabFields
<1>2. Adopt(t, g, seq) = SetGraph(u, g)
  BY DEF Adopt
<1> HIDE DEF u
<1>3. Drawable(u, top, safe)
  BY <1>1 DEF Drawable
<1> DEFINE r == SetGraph(u, g)
<1>4. /\ Drawable(r, top, safe)
      /\ r.base = u.base /\ r.queue = u.queue
      /\ r.deferred = u.deferred /\ r.gapped = u.gapped
      /\ DOMAIN g.nodes \subseteq DOMAIN r.view.nodes \cup safe
  BY <1>3, SetGraphWell
<1> HIDE DEF r
<1> QED BY <1>1, <1>2, <1>4 DEF r

(* Changes folded in while no arrangement waits. *)
LEMMA FoldInWell ==
    ASSUME NEW t, NEW top \in Nat, NEW safe, Drawable(t, top, safe), t.queue = NoGraph,
           NEW chs \in Seq(ChangesTo(top)), NEW seq \in 0 .. top
    PROVE  LET r == FoldIn(t, chs, seq) IN
           /\ Drawable(r, top, safe) /\ Covered(r, safe)
           /\ r.queue = NoGraph /\ r.deferred = t.deferred /\ r.gapped = t.gapped
<1> DEFINE g == ApplyChanges(t.base, chs)
           n == IF seq > t.seq THEN seq ELSE t.seq
           r == Adopt(t, g, n)
<1>1. FoldIn(t, chs, seq) = r
  BY DEF FoldIn
<1>2. t.base \in Graphs /\ n \in 0 .. top
  BY DEF Drawable
<1>3. g \in Graphs
  <2>1. chs \in Seq(Changes)
    BY HigherWell
  <2> QED BY <1>2, <2>1, ApplyChangesFacts
<1> HIDE DEF g, n
<1>4. /\ Drawable(r, top, safe)
      /\ r.base = g /\ r.queue = t.queue
      /\ r.deferred = t.deferred /\ r.gapped = t.gapped
      /\ DOMAIN r.base.nodes \subseteq DOMAIN r.view.nodes \cup safe
  BY <1>2, <1>3, AdoptWell
<1> HIDE DEF r
<1> QED BY <1>1, <1>4 DEF Covered

TabWell(t, fl, top, safe) ==
    /\ Drawable(t, top, safe) /\ Covered(t, safe) /\ Kept(t, fl)
    /\ FlightWell(fl, top, safe)

LEMMA QueueHolds ==
    ASSUME NEW t, NEW top, NEW safe, Drawable(t, top, safe), t.queue # NoGraph
    PROVE  t.queue[1] \in Graphs /\ t.queue = <<t.queue[1]>>
BY DEF Drawable, Queues

LEMMA PumpWell ==
    ASSUME NEW t, NEW top \in Nat, NEW safe, Drawable(t, top, safe), Covered(t, safe),
           t.queue # NoGraph, t.deferred = <<>> \/ t.gapped, Pump(t)
    PROVE  TabWell(tab', flight', top, safe)
<1> DEFINE desired == t.queue[1]
           ops == DiffGraph(t.base, desired)
           idle == [t EXCEPT !.queue = NoGraph]
<1>1. desired \in Graphs /\ t.base \in Graphs
  BY QueueHolds DEF Drawable
<1>2. DOMAIN t.base.nodes \subseteq DOMAIN t.view.nodes \cup safe
      /\ DOMAIN t.base.nodes \subseteq DOMAIN desired.nodes \cup safe
  BY DEF Covered
<1>3. /\ DOMAIN idle = TabFields /\ idle.base = t.base /\ idle.seq = t.seq
      /\ idle.queue = NoGraph /\ idle.deferred = t.deferred /\ idle.gapped = t.gapped
      /\ idle.view = t.view /\ idle.drawn = t.drawn
  BY DEF Drawable, TabFields
<1>4. IF ops = <<>>
      THEN /\ tab' = SetGraph(Hold(idle, desired, t.seq), desired)
           /\ flight' = [st |-> "none"]
      ELSE /\ tab' = idle
           /\ flight' = [st |-> "sent", desired |-> desired, ops |-> ops, since |-> t.seq]
  BY DEF Pump
<1>5. ops \in Seq(OpsFor(t.base, desired))
  <2> HIDE DEF desired
  <2> QED BY <1>1, DiffWell
<1> HIDE DEF ops, idle, desired
<1>6. Drawable(idle, top, safe) /\ Covered(idle, safe)
  BY <1>2, <1>3 DEF Drawable, Covered, Queues
<1>7. CASE ops = <<>>
  <2> DEFINE h == Hold(idle, desired, t.seq)
             r == SetGraph(h, desired)
  <2>1. t.seq \in 0 .. top
    BY DEF Drawable
  <2>2. /\ Drawable(h, top, safe) /\ h.base = desired /\ h.queue = NoGraph
        /\ h.deferred = t.deferred /\ h.gapped = t.gapped
    BY <1>1, <1>3, <1>6, <2>1, HoldWell
  <2>3. tab' = r /\ flight' = [st |-> "none"]
    BY <1>4, <1>7
  <2> HIDE DEF h
  <2>4. /\ Drawable(r, top, safe) /\ r.base = h.base /\ r.queue = h.queue
        /\ r.deferred = h.deferred /\ r.gapped = h.gapped
        /\ DOMAIN desired.nodes \subseteq DOMAIN r.view.nodes \cup safe
    BY <1>1, <2>2, SetGraphWell
  <2> HIDE DEF r
  <2>5. Covered(r, safe)
    BY <2>2, <2>4 DEF Covered
  <2>6. flight'.st = "none"
    BY <2>3
  <2>7. FlightWell(flight', top, safe)
    BY <2>6 DEF FlightWell
  <2> QED BY <2>2, <2>3, <2>4, <2>5, <2>7 DEF TabWell, Kept
<1>8. CASE ops # <<>>
  <2>1. /\ tab' = idle
        /\ flight' = [st |-> "sent", desired |-> desired, ops |-> ops, since |-> t.seq]
    BY <1>4, <1>8
  <2>2. OpsFor(t.base, desired) \subseteq SafeOps(safe)
    BY <1>2 DEF OpsFor, SafeOps
  <2>3. ops \in Seq(SafeOps(safe))
    BY <1>5, <2>2, SeqGrows
  <2>4. /\ flight'.st = "sent" /\ flight'.desired = desired /\ flight'.ops = ops
        /\ flight'.since \in Nat
    BY <2>1 DEF Drawable
  <2>5. FlightWell(flight', top, safe)
    BY <1>1, <2>3, <2>4 DEF FlightWell
  <2>6. Kept(tab', flight')
    BY <2>4 DEF Kept
  <2> QED BY <1>6, <2>1, <2>5, <2>6 DEF TabWell
<1> QED BY <1>7, <1>8

LEMMA SettleWell ==
    ASSUME NEW t, NEW top \in Nat, NEW safe, Drawable(t, top, safe), Covered(t, safe),
           t.queue = NoGraph \/ t.deferred = <<>> \/ t.gapped, Settle(t)
    PROVE  TabWell(tab', flight', top, safe)
<1>1. CASE t.queue # NoGraph
  BY <1>1, PumpWell DEF Settle
<1>2. CASE t.queue = NoGraph
  <2> DEFINE u == [t EXCEPT !.deferred = <<>>]
  <2>1. /\ flight' = [st |-> "none"]
        /\ tab' = IF t.deferred = <<>> THEN t
                  ELSE FoldIn(u, t.deferred, HighestSeq(t.deferred, 0))
    BY <1>2 DEF Settle
  <2>2. flight'.st = "none"
    BY <2>1
  <2>3. FlightWell(flight', top, safe)
    BY <2>2 DEF FlightWell
  <2>4. CASE t.deferred = <<>>
    <3>1. tab' = t
      BY <2>1, <2>4
    <3>2. Kept(tab', flight')
      BY <1>2, <2>4, <3>1 DEF Kept
    <3> QED BY <2>3, <3>1, <3>2 DEF TabWell
  <2>5. CASE t.deferred # <<>>
    <3>1. /\ DOMAIN u = TabFields /\ u.base = t.base /\ u.seq = t.seq
          /\ u.queue = NoGraph /\ u.deferred = <<>> /\ u.gapped = t.gapped
          /\ u.view = t.view /\ u.drawn = t.drawn
      BY <1>2 DEF Drawable, TabFields
    <3>2. tab' = FoldIn(u, t.deferred, HighestSeq(t.deferred, 0))
      BY <2>1, <2>5
    <3> HIDE DEF u
    <3>3. Drawable(u, top, safe)
      BY <3>1 DEF Drawable, Queues
    <3>4. t.deferred \in Seq(ChangesTo(top)) /\ 0 \in 0 .. top
      BY DEF Drawable
    <3>5. HighestSeq(t.deferred, 0) \in 0 .. top
      BY <3>4, HighestWell
    <3> DEFINE r == FoldIn(u, t.deferred, HighestSeq(t.deferred, 0))
    <3>6. /\ Drawable(r, top, safe) /\ Covered(r, safe)
          /\ r.queue = NoGraph /\ r.deferred = u.deferred
      BY <3>1, <3>3, <3>4, <3>5, FoldInWell
    <3> HIDE DEF r
    <3>7. tab' = r
      BY <3>2 DEF r
    <3>8. Kept(tab', flight')
      BY <3>1, <3>6, <3>7 DEF Kept
    <3> QED BY <2>3, <3>6, <3>7, <3>8 DEF TabWell
  <2> QED BY <2>4, <2>5
<1> QED BY <1>1, <1>2

(* An edit of the view, and its commit to the save loop. *)
LEMMA SaveWell ==
    ASSUME NEW top \in Nat, NEW safe, FlightWell(flight, top, safe), Kept(tab, flight),
           NEW t, Drawable(t, top, safe),
           DOMAIN t.base.nodes \subseteq DOMAIN t.view.nodes \cup safe,
           t.deferred = tab.deferred, t.gapped = tab.gapped, Save(t)
    PROVE  TabWell(tab', flight', top, safe)
<1> DEFINE q == [t EXCEPT !.queue = <<t.view>>]
<1>1. /\ DOMAIN q = TabFields /\ q.base = t.base /\ q.seq = t.seq
      /\ q.queue = <<t.view>> /\ q.deferred = t.deferred /\ q.gapped = t.gapped
      /\ q.view = t.view /\ q.drawn = t.drawn
  BY DEF Drawable, TabFields
<1>2. IF Busy THEN tab' = q /\ UNCHANGED flight ELSE Pump(q)
  BY DEF Save
<1> HIDE DEF q
<1>3. q.queue # NoGraph /\ q.queue[1] = t.view
  BY <1>1 DEF NoGraph
<1>4. Drawable(q, top, safe)
  BY <1>1 DEF Drawable, Queues
<1>5. Covered(q, safe)
  BY <1>1, <1>3 DEF Covered
<1>6. CASE Busy
  <2>1. tab' = q /\ flight' = flight /\ flight.st # "none"
    BY <1>2, <1>6 DEF Busy
  <2>2. Kept(q, flight)
    BY <2>1 DEF Kept
  <2> QED BY <1>4, <1>5, <2>1, <2>2 DEF TabWell
<1>7. CASE ~Busy
  <2>1. Pump(q) /\ flight.st = "none"
    BY <1>2, <1>7 DEF Busy
  <2>2. q.deferred = <<>> \/ q.gapped
    BY <1>1, <2>1 DEF Kept
  <2> QED BY <1>3, <1>4, <1>5, <2>1, <2>2, PumpWell
<1> QED BY <1>6, <1>7

-----------------------------------------------------------------------------
(* The invariant *)

FreshWell(fr, top) ==
    /\ fr.st \in {"none", "asked", "read"}
    /\ fr.st = "read" => fr.graph \in Graphs /\ fr.seq \in 0 .. top

StreamFields == {"st", "cursor", "subscribed", "pipe", "last"}

StreamWell(str, top) ==
    /\ str.st \in {"down", "gap", "open"} /\ str.cursor \in 0 .. top
    /\ str.st = "open" => /\ DOMAIN str = StreamFields
                          /\ str.pipe \in Seq(ChangesTo(top)) /\ str.last \in 0 .. top

ServerWell == /\ WorkWell(Begun(srv), 0)
              /\ unsent \in Seq(Seq(ChangesTo(srv.seq)))

Safe(p) == p.removed \cup p.blind \cup p.recalled

(* The log replays to the rows; every number anyone holds was given out;   *)
(* and a card the tab acknowledged is one it shows, or safe.               *)
CanvasInv ==
    /\ ServerWell
    /\ TabWell(tab, flight, srv.seq, Safe(past))
    /\ FreshWell(fresh, srv.seq)
    /\ StreamWell(stream, srv.seq)
    /\ DOMAIN past = {"seen", "removed", "blind", "recalled"}

(* Every arrangement that may be put back is of the canvas.                *)
ShelfInv ==
    /\ DOMAIN shelf = {"undos", "redos", "held"}
    /\ shelf.undos \in Seq(Graphs) /\ shelf.redos \in Seq(Graphs)
    /\ shelf.held \in Queues

LEMMA ServerFacts ==
    ASSUME ServerWell
    PROVE  /\ srv.rows \in Graphs /\ srv.seq \in Nat
           /\ srv.log \in Seq(ChangesTo(srv.seq))
           /\ ApplyChanges(Blank, srv.log) = srv.rows
           /\ WorkWell(Begun(srv), srv.seq)
<1>1. /\ Begun(srv).rows = srv.rows /\ Begun(srv).seq = srv.seq /\ Begun(srv).log = srv.log
  BY DEF Begun
<1>2. WorkWell(Begun(srv), 0)
  BY DEF ServerWell
<1>3. Begun(srv) \in Works
  BY <1>2 DEF WorkWell
<1>4. srv.rows \in Graphs /\ srv.seq \in Nat
  BY <1>1, <1>3 DEF Works
<1> QED BY <1>1, <1>2, <1>4 DEF WorkWell

LEMMA TabGrows ==
    ASSUME NEW t, NEW fl, NEW top \in Nat, NEW safe, TabWell(t, fl, top, safe),
           NEW more \in Nat, top <= more, NEW wide, safe \subseteq wide
    PROVE  TabWell(t, fl, more, wide)
<1>1. Drawable(t, top, safe) /\ Covered(t, safe) /\ Kept(t, fl) /\ FlightWell(fl, top, safe)
  BY DEF TabWell
<1>2. t.deferred \in Seq(ChangesTo(more))
  BY <1>1, HigherWell DEF Drawable
<1>3. Drawable(t, more, wide)
  BY <1>1, <1>2 DEF Drawable
<1>4. Covered(t, wide)
  BY <1>1 DEF Covered
<1>5. fl.st = "answered" => fl.changes \in Seq(ChangesTo(more)) /\ fl.seq \in 0 .. more
  BY <1>1, HigherWell DEF FlightWell
<1>6. fl.st = "sent" => fl.ops \in Seq(SafeOps(wide)) /\ fl.since \in Nat
  <2>1. SafeOps(safe) \subseteq SafeOps(wide)
    BY DEF SafeOps
  <2> QED BY <1>1, <2>1, SeqGrows DEF FlightWell
<1>7. FlightWell(fl, more, wide)
  BY <1>1, <1>5, <1>6 DEF FlightWell
<1> QED BY <1>1, <1>3, <1>4, <1>7 DEF TabWell

LEMMA ReadsGrow ==
    ASSUME NEW top \in Nat, NEW more \in Nat, top <= more
    PROVE  /\ FreshWell(fresh, top) => FreshWell(fresh, more)
           /\ StreamWell(stream, top) => StreamWell(stream, more)
           /\ unsent \in Seq(Seq(ChangesTo(top))) => unsent \in Seq(Seq(ChangesTo(more)))
<1>1. FreshWell(fresh, top) => FreshWell(fresh, more)
  BY DEF FreshWell
<1>2. ASSUME StreamWell(stream, top) PROVE StreamWell(stream, more)
  <2>1. stream.st = "open" => stream.pipe \in Seq(ChangesTo(more))
    BY <1>2, HigherWell DEF StreamWell
  <2> QED BY <1>2, <2>1 DEF StreamWell
<1>3. ASSUME unsent \in Seq(Seq(ChangesTo(top)))
      PROVE  unsent \in Seq(Seq(ChangesTo(more)))
  <2>1. Seq(ChangesTo(top)) \subseteq Seq(ChangesTo(more))
    BY HigherWell
  <2> QED BY <1>3, <2>1, SeqGrows
<1> QED BY <1>1, <1>2, <1>3

(* A transaction that committed: its rows and log, and its batch.          *)
LEMMA CommitWell ==
    ASSUME CanvasInv, NEW s, WorkWell(s, srv.seq), srv' = Rows(s),
           unsent' = unsent \/ unsent' = Append(unsent, s.made)
    PROVE  /\ ServerWell' /\ srv'.seq = s.seq /\ srv'.log = s.log
           /\ srv.seq \in Nat /\ s.seq \in Nat /\ srv.seq <= s.seq
<1>1. srv.seq \in Nat /\ unsent \in Seq(Seq(ChangesTo(srv.seq)))
  BY ServerFacts DEF CanvasInv, ServerWell
<1>2. /\ s \in Works /\ s.seq >= srv.seq /\ s.log \in Seq(ChangesTo(s.seq))
      /\ s.made \in Seq(ChangesTo(s.seq)) /\ ApplyChanges(Blank, s.log) = s.rows
  BY DEF WorkWell
<1>3. s.seq \in Nat /\ s.rows \in Graphs /\ s.log \in Seq(Changes)
  BY <1>2 DEF Works
<1>4. srv'.rows = s.rows /\ srv'.seq = s.seq /\ srv'.log = s.log
  BY DEF Rows
<1>5. Begun(srv') = [rows |-> s.rows, seq |-> s.seq, log |-> s.log, made |-> <<>>, ok |-> TRUE]
  BY <1>4 DEF Begun
<1>6. WorkWell(Begun(srv'), 0)
  <2> DEFINE b == Begun(srv')
  <2>1. /\ b.rows = s.rows /\ b.seq = s.seq /\ b.log = s.log /\ b.made = <<>> /\ b.ok = TRUE
    BY <1>5
  <2>2. b \in Works
    BY <1>3, <1>5 DEF Works
  <2> HIDE DEF b
  <2>3. b.made \in Seq(ChangesTo(b.seq))
    BY <2>1
  <2>4. b.seq >= 0
    BY <1>3, <2>1
  <2>5. WorkWell(b, 0)
    BY <1>2, <2>1, <2>2, <2>3, <2>4 DEF WorkWell
  <2> QED BY <2>5 DEF b
<1>7. unsent' \in Seq(Seq(ChangesTo(s.seq)))
  <2>1. unsent \in Seq(Seq(ChangesTo(s.seq)))
    BY <1>1, <1>2, <1>3, ReadsGrow
  <2> QED BY <1>2, <2>1
<1> QED BY <1>1, <1>2, <1>3, <1>4, <1>6, <1>7 DEF ServerWell

LEMMA CanvasInitInv == CanvasInit => CanvasInv /\ ShelfInv
<1> SUFFICES ASSUME CanvasInit PROVE CanvasInv
  BY DEF CanvasInit, ShelfInv, Queues
<1> DEFINE n == [rev |-> 1, pos |-> 0, text |-> 0]
           m == [c \in {First} |-> n]
           one == [nodes |-> m, edges |-> {}]
<1>1. /\ srv = [rows |-> one, seq |-> 1, log |-> <<SetNode(1, First, m[First])>>]
      /\ unsent = <<>>
      /\ tab = [base |-> one, seq |-> 1, queue |-> NoGraph, deferred |-> <<>>,
                view |-> one, drawn |-> Positions(one), typing |-> FALSE,
                minted |-> FALSE, aged |-> FALSE, gapped |-> FALSE]
      /\ flight = [st |-> "none"] /\ fresh = [st |-> "none"]
      /\ stream = [st |-> "down", cursor |-> 0]
      /\ past = [seen |-> {}, removed |-> {}, blind |-> {}, recalled |-> {}]
  BY DEF CanvasInit
<1>2. First \in Cards /\ n \in NodeRecs /\ m[First] = n
  BY DEF Cards, NodeRecs
<1>3. m \in NodeMaps
  <2>1. {First} \in SUBSET Cards /\ m \in [{First} -> NodeRecs]
    BY <1>2
  <2> HIDE DEF m
  <2> QED BY <2>1, IsNodeMap
<1>4. one \in Graphs
  <2> HIDE DEF m
  <2> QED BY <1>3 DEF Graphs
<1> DEFINE ch == SetNode(1, First, n)
<1>5. ch \in Changes /\ ch \in ChangesTo(1)
  BY <1>2 DEF SetNode, Changes, NodeChanges, ChangesTo
<1>6. ApplyChange(Blank, ch) = one
  <2>1. ApplyChange(Blank, ch) = Put(Blank, First, n)
    BY DEF ApplyChange, SetNode
  <2>2. Blank.nodes = <<>> /\ Blank.edges = {} /\ DOMAIN <<>> \cup {First} = {First}
    BY DEF Blank
  <2>3. Put(Blank, First, n) = [nodes |-> [x \in {First} |-> IF x = First THEN n ELSE <<>>[x]],
                                edges |-> {}]
    <3> HIDE DEF n
    <3>1. Put(Blank, First, n) =
             [Blank EXCEPT !.nodes = [x \in {First} |-> IF x = First THEN n ELSE <<>>[x]]]
      BY <2>2 DEF Put
    <3> QED BY <3>1 DEF Blank
  <2>4. [x \in {First} |-> IF x = First THEN n ELSE <<>>[x]] = m
    OBVIOUS
  <2> HIDE DEF n, m
  <2> QED BY <2>1, <2>3, <2>4
<1> HIDE DEF n, m, one, ch
<1>7. ApplyChanges(Blank, <<ch>>) = one
  <2>1. <<>> \in Seq(Changes) /\ Append(<<>>, ch) = <<ch>>
    OBVIOUS
  <2>2. ApplyChanges(Blank, <<>>) = Blank
    BY BlankWell, ApplyNone
  <2>3. ApplyChanges(Blank, Append(<<>>, ch)) = ApplyChange(ApplyChanges(Blank, <<>>), ch)
    BY <1>5, <2>1, BlankWell, ApplyChangesFacts
  <2> QED BY <1>6, <2>1, <2>2, <2>3
<1>8. ServerWell
  <2> DEFINE b == Begun(srv)
  <2>1. b = [rows |-> one, seq |-> 1, log |-> <<ch>>, made |-> <<>>, ok |-> TRUE]
    BY <1>1, <1>2 DEF Begun, ch
  <2>2. <<ch>> \in Seq(Changes) /\ <<ch>> \in Seq(ChangesTo(1))
    BY <1>5
  <2> HIDE DEF b
  <2>3. /\ b.rows = one /\ b.seq = 1 /\ b.log = <<ch>> /\ b.made = <<>>
        /\ b \in Works
    BY <1>4, <2>1, <2>2 DEF Works
  <2>4. WorkWell(b, 0)
    BY <1>7, <2>2, <2>3 DEF WorkWell
  <2>5. unsent \in Seq(Seq(ChangesTo(srv.seq)))
    BY <1>1
  <2> QED BY <2>4, <2>5 DEF ServerWell, b
<1>9. TabWell(tab, flight, srv.seq, Safe(past))
  <2>1. srv.seq = 1 /\ flight.st = "none" /\ NoGraph = <<>>
    BY <1>1 DEF NoGraph
  <2>2. /\ tab.base = one /\ tab.view = one /\ tab.seq = 1 /\ tab.queue = NoGraph
        /\ tab.deferred = <<>> /\ DOMAIN tab.drawn = DOMAIN one.nodes
        /\ DOMAIN tab = TabFields
    BY <1>1 DEF Positions, TabFields
  <2>3. Drawable(tab, srv.seq, Safe(past))
    BY <1>4, <2>1, <2>2 DEF Drawable, Queues
  <2>4. Covered(tab, Safe(past)) /\ Kept(tab, flight)
    BY <2>2 DEF Covered, Kept
  <2>5. FlightWell(flight, srv.seq, Safe(past))
    BY <2>1 DEF FlightWell
  <2> QED BY <2>3, <2>4, <2>5 DEF TabWell
<1>10. FreshWell(fresh, srv.seq)
  BY <1>1 DEF FreshWell
<1>11. StreamWell(stream, srv.seq)
  BY <1>1 DEF StreamWell
<1>12. DOMAIN past = {"seen", "removed", "blind", "recalled"}
  BY <1>1
<1> QED BY <1>8, <1>9, <1>10, <1>11, <1>12 DEF CanvasInv

(* A transaction of somebody else. *)
LEMMA CommitsKeep ==
    ASSUME CanvasInv, NEW s, WorkWell(s, srv.seq), Commits(s)
    PROVE  CanvasInv'
<1>1. /\ srv' = Rows(s) /\ unsent' = Append(unsent, s.made)
      /\ UNCHANGED <<tab, flight, fresh, stream, past>>
  BY DEF Commits
<1>2. /\ ServerWell' /\ srv'.seq = s.seq
      /\ srv.seq \in Nat /\ s.seq \in Nat /\ srv.seq <= s.seq
  BY <1>1, CommitWell
<1>3. TabWell(tab, flight, s.seq, Safe(past))
  BY <1>2, TabGrows DEF CanvasInv
<1>4. FreshWell(fresh, s.seq) /\ StreamWell(stream, s.seq)
  BY <1>2, ReadsGrow DEF CanvasInv
<1> QED BY <1>1, <1>2, <1>3, <1>4 DEF CanvasInv

LEMMA OtherOpsAre ==
    ASSUME CanvasInv, NEW op \in OtherOps
    PROVE  op \in Ops
<1>1. srv.rows \in Graphs
  BY ServerFacts DEF CanvasInv
<1>2. /\ DOMAIN srv.rows.nodes \in SUBSET Cards
      /\ \A c \in DOMAIN srv.rows.nodes : srv.rows.nodes[c] \in NodeRecs
  BY <1>1, NodeMapIs DEF Graphs
<1>3. CASE \E c \in DOMAIN srv.rows.nodes, f \in {"pos", "text"} :
             op = [kind |-> "node.update", id |-> c, rev |-> srv.rows.nodes[c].rev,
                   fields |-> {f}, node |-> [srv.rows.nodes[c] EXCEPT ![f] = 1 - @]]
  <2>1. PICK c \in DOMAIN srv.rows.nodes, f \in {"pos", "text"} :
             op = [kind |-> "node.update", id |-> c, rev |-> srv.rows.nodes[c].rev,
                   fields |-> {f}, node |-> [srv.rows.nodes[c] EXCEPT ![f] = 1 - @]]
    BY <1>3
  <2>2. c \in Cards /\ srv.rows.nodes[c] \in NodeRecs
    BY <1>2
  <2>3. [srv.rows.nodes[c] EXCEPT ![f] = 1 - @] \in NodeRecs
    <3>1. CASE f = "pos"
      BY <2>2, <3>1 DEF NodeRecs
    <3>2. CASE f = "text"
      BY <2>2, <3>2 DEF NodeRecs
    <3> QED BY <3>1, <3>2
  <2>4. srv.rows.nodes[c].rev \in Nat
    BY <2>2 DEF NodeRecs
  <2> QED BY <2>1, <2>2, <2>3, <2>4 DEF Ops, UpdateNodes
<1>4. CASE \E c \in DOMAIN srv.rows.nodes :
             op = [kind |-> "node.delete", id |-> c, rev |-> srv.rows.nodes[c].rev]
  <2>1. PICK c \in DOMAIN srv.rows.nodes :
             op = [kind |-> "node.delete", id |-> c, rev |-> srv.rows.nodes[c].rev]
    BY <1>4
  <2>2. c \in Cards /\ srv.rows.nodes[c].rev \in Nat
    BY <1>2 DEF NodeRecs
  <2> QED BY <2>1, <2>2 DEF Ops, DeleteNodes
<1> QED BY <1>3, <1>4 DEF OtherOps

LEMMA OtherWritesKeeps ==
    ASSUME CanvasInv, OtherWrites
    PROVE  CanvasInv'
<1>1. PICK op \in OtherOps : Commits(ApplyOps(srv, <<op>>))
  BY DEF OtherWrites
<1>2. srv.seq \in Nat /\ WorkWell(Begun(srv), srv.seq)
  BY ServerFacts DEF CanvasInv
<1>3. <<op>> \in Seq(Ops)
  BY OtherOpsAre
<1>4. WorkWell(ApplyOps(srv, <<op>>), srv.seq)
  BY <1>2, <1>3, ApplyOpsWell
<1> QED BY <1>1, <1>4, CommitsKeep

LEMMA AgentLandsKeeps ==
    ASSUME CanvasInv, AgentLands
    PROVE  CanvasInv'
<1> DEFINE one == SetNode(0, Landed, [rev |-> 1, pos |-> 0, text |-> 0])
           two == SetEdge(0, <<First, Landed>>)
           s == Logged(Begun(srv), one)
<1>1. Commits(Logged(s, two))
  BY DEF AgentLands
<1>2. srv.seq \in Nat /\ WorkWell(Begun(srv), srv.seq)
  BY ServerFacts DEF CanvasInv
<1>3. one \in Changes
  BY DEF SetNode, Changes, NodeChanges, NodeRecs, Cards
<1>4. two \in Changes
  BY DEF SetEdge, Changes, EdgeChanges, Links, Cards
<1> HIDE DEF one, two
<1>5. WorkWell(s, srv.seq)
  BY <1>2, <1>3, LoggedWell
<1> HIDE DEF s
<1>6. WorkWell(Logged(s, two), srv.seq)
  BY <1>2, <1>4, <1>5, LoggedWell
<1> QED BY <1>1, <1>6, CommitsKeep

(* The transaction of the tab's own batch. *)
LEMMA CommitOpsKeeps ==
    ASSUME CanvasInv, CommitOps
    PROVE  CanvasInv'
<1> DEFINE s == ApplyOps(srv, flight.ops)
           after == ChangesSince(s, flight.since)
<1>1. /\ flight.st = "sent"
      /\ IF s.ok
         THEN /\ srv' = Rows(s)
              /\ unsent' = IF s.made = <<>> THEN unsent ELSE Append(unsent, s.made)
              /\ flight' = [st |-> "answered", desired |-> flight.desired,
                            seq |-> s.seq, gap |-> after.gap, changes |-> after.missed]
         ELSE flight' = [st |-> "refused"] /\ UNCHANGED <<srv, unsent>>
      /\ UNCHANGED <<tab, fresh, stream, past>>
  BY DEF CommitOps
<1>2. TabWell(tab, flight, srv.seq, Safe(past)) /\ FlightWell(flight, srv.seq, Safe(past))
  BY DEF CanvasInv, TabWell
<1>3. flight.desired \in Graphs /\ flight.ops \in Seq(SafeOps(Safe(past)))
  BY <1>1, <1>2 DEF FlightWell
<1>4. flight.ops \in Seq(Ops)
  <2>1. SafeOps(Safe(past)) \subseteq Ops
    BY DEF SafeOps
  <2> QED BY <1>3, <2>1, SeqGrows
<1>5. srv.seq \in Nat /\ WorkWell(Begun(srv), srv.seq)
  BY ServerFacts DEF CanvasInv
<1>6. WorkWell(s, srv.seq)
  BY <1>4, <1>5, ApplyOpsWell
<1>7. after.missed \in Seq(ChangesTo(s.seq))
  <2> HIDE DEF s
  <2>1. s.log \in Seq(ChangesTo(s.seq))
    BY <1>6 DEF WorkWell
  <2> QED BY <2>1, MissedWell
<1> HIDE DEF s, after
<1>8. CASE s.ok
  <2>1. /\ srv' = Rows(s) /\ (unsent' = unsent \/ unsent' = Append(unsent, s.made))
    BY <1>1, <1>8
  <2>2. /\ ServerWell' /\ srv'.seq = s.seq
        /\ srv.seq \in Nat /\ s.seq \in Nat /\ srv.seq <= s.seq
    BY <1>6, <2>1, CommitWell
  <2>3. /\ flight'.st = "answered" /\ flight'.desired = flight.desired
        /\ flight'.seq = s.seq /\ flight'.changes = after.missed
    BY <1>1, <1>8
  <2>4. FlightWell(flight', s.seq, Safe(past))
    BY <1>3, <1>7, <2>2, <2>3 DEF FlightWell
  <2>5. TabWell(tab, flight, s.seq, Safe(past))
    BY <1>2, <2>2, TabGrows
  <2>6. Kept(tab, flight')
    BY <2>3 DEF Kept
  <2>7. TabWell(tab, flight', s.seq, Safe(past))
    BY <2>4, <2>5, <2>6 DEF TabWell
  <2>8. FreshWell(fresh, s.seq) /\ StreamWell(stream, s.seq)
    BY <2>2, ReadsGrow DEF CanvasInv
  <2> QED BY <1>1, <2>2, <2>7, <2>8 DEF CanvasInv
<1>9. CASE ~s.ok
  <2>1. flight' = [st |-> "refused"] /\ UNCHANGED <<srv, unsent, tab, fresh, stream, past>>
    BY <1>1, <1>9
  <2>2. FlightWell(flight', srv.seq, Safe(past)) /\ Kept(tab, flight')
    BY <2>1 DEF FlightWell, Kept
  <2>3. TabWell(tab, flight', srv.seq, Safe(past))
    BY <1>2, <2>2 DEF TabWell
  <2> QED BY <2>1, <2>3 DEF CanvasInv, ServerWell
<1> QED BY <1>8, <1>9

-----------------------------------------------------------------------------
(* The person at the canvas *)

TabFacts ==
    /\ srv.seq \in Nat /\ TabWell(tab, flight, srv.seq, Safe(past))
    /\ Drawable(tab, srv.seq, Safe(past)) /\ Covered(tab, Safe(past))
    /\ Kept(tab, flight) /\ FlightWell(flight, srv.seq, Safe(past))
    /\ tab.view \in Graphs /\ tab.base \in Graphs
    /\ DOMAIN tab = TabFields
    /\ DOMAIN tab.view.nodes \in SUBSET Cards

LEMMA TabHolds == CanvasInv => TabFacts
<1> SUFFICES ASSUME CanvasInv PROVE TabFacts
  OBVIOUS
<1>1. srv.seq \in Nat /\ TabWell(tab, flight, srv.seq, Safe(past))
  BY ServerFacts DEF CanvasInv
<1>2. /\ Drawable(tab, srv.seq, Safe(past)) /\ Covered(tab, Safe(past))
      /\ Kept(tab, flight) /\ FlightWell(flight, srv.seq, Safe(past))
  BY <1>1 DEF TabWell
<1>3. tab.view \in Graphs /\ tab.base \in Graphs /\ DOMAIN tab = TabFields
  BY <1>2 DEF Drawable
<1>4. DOMAIN tab.view.nodes \in SUBSET Cards
  BY <1>3, NodeMapIs DEF Graphs
<1> QED BY <1>1, <1>2, <1>3, <1>4 DEF TabFacts

(* A view as an edit leaves it, and nothing else changed. *)
Edited(t, v) ==
    /\ DOMAIN t = TabFields /\ t.view = v /\ v \in Graphs
    /\ t.base = tab.base /\ t.seq = tab.seq /\ t.queue = tab.queue
    /\ t.deferred = tab.deferred /\ t.drawn = tab.drawn /\ t.gapped = tab.gapped

LEMMA EditWell ==
    ASSUME CanvasInv, NEW t, NEW v, Edited(t, v), NEW wide, Safe(past) \subseteq wide,
           DOMAIN tab.view.nodes \subseteq DOMAIN v.nodes \cup wide
    PROVE  /\ Drawable(t, srv.seq, wide)
           /\ DOMAIN t.base.nodes \subseteq DOMAIN t.view.nodes \cup wide
           /\ TabWell(tab, flight, srv.seq, wide)
<1>1. TabFacts
  BY TabHolds
<1>2. DOMAIN tab.drawn \subseteq DOMAIN tab.view.nodes \cup Safe(past)
      /\ DOMAIN tab.base.nodes \subseteq DOMAIN tab.view.nodes \cup Safe(past)
  BY <1>1 DEF TabFacts, Drawable, Covered
<1>3. Drawable(t, srv.seq, wide)
  BY <1>1, <1>2 DEF TabFacts, Drawable, Edited
<1>4. DOMAIN t.base.nodes \subseteq DOMAIN t.view.nodes \cup wide
  BY <1>2 DEF Edited
<1>5. TabWell(tab, flight, srv.seq, wide)
  BY <1>1, TabGrows DEF TabFacts
<1> QED BY <1>3, <1>4, <1>5

LEMMA EditKeeps ==
    ASSUME CanvasInv, NEW t, NEW v, Edited(t, v), Save(t), Outside,
           Safe(past) \subseteq Safe(past'), DOMAIN past' = {"seen", "removed", "blind", "recalled"},
           DOMAIN tab.view.nodes \subseteq DOMAIN v.nodes \cup Safe(past')
    PROVE  CanvasInv'
<1> DEFINE wide == Safe(past')
<1>1. srv.seq \in Nat
  BY TabHolds DEF TabFacts
<1>2. /\ Drawable(t, srv.seq, wide)
      /\ DOMAIN t.base.nodes \subseteq DOMAIN t.view.nodes \cup wide
      /\ TabWell(tab, flight, srv.seq, wide)
  <2>1. Safe(past) \subseteq wide /\ DOMAIN tab.view.nodes \subseteq DOMAIN v.nodes \cup wide
    OBVIOUS
  <2> HIDE DEF wide
  <2> QED BY <2>1, EditWell
<1>3. FlightWell(flight, srv.seq, wide) /\ Kept(tab, flight)
  BY <1>2 DEF TabWell
<1>4. t.deferred = tab.deferred /\ t.gapped = tab.gapped
  BY DEF Edited
<1>5. TabWell(tab', flight', srv.seq, wide)
  <2> HIDE DEF wide
  <2> QED BY <1>1, <1>2, <1>3, <1>4, SaveWell
<1>6. srv' = srv /\ unsent' = unsent /\ fresh' = fresh /\ stream' = stream
  BY DEF Outside
<1> QED BY <1>5, <1>6 DEF CanvasInv, ServerWell

(* A card of the view with one field changed. *)
LEMMA TouchWell ==
    ASSUME NEW g \in Graphs, NEW c \in DOMAIN g.nodes, NEW n \in NodeRecs
    PROVE  /\ [g EXCEPT !.nodes = [g.nodes EXCEPT ![c] = n]] \in Graphs
           /\ DOMAIN [g EXCEPT !.nodes = [g.nodes EXCEPT ![c] = n]].nodes = DOMAIN g.nodes
<1> DEFINE m == [g.nodes EXCEPT ![c] = n]
<1>1. g.nodes \in NodeMaps /\ g.edges \in SUBSET Links
  BY DEF Graphs
<1>2. DOMAIN g.nodes \in SUBSET Cards /\ g.nodes \in [DOMAIN g.nodes -> NodeRecs]
  BY <1>1, NodeMapIs
<1>3. m \in [DOMAIN g.nodes -> NodeRecs]
  BY <1>2
<1>4. m \in NodeMaps /\ DOMAIN m = DOMAIN g.nodes
  <2> HIDE DEF m
  <2> QED BY <1>2, <1>3, IsNodeMap
<1>5. [g EXCEPT !.nodes = m] = [nodes |-> m, edges |-> g.edges]
  BY DEF Graphs
<1> HIDE DEF m
<1>6. [g EXCEPT !.nodes = m] \in Graphs /\ DOMAIN [g EXCEPT !.nodes = m].nodes = DOMAIN m
  BY <1>1, <1>4, <1>5 DEF Graphs
<1> QED BY <1>4, <1>6 DEF m

LEMMA MoveKeeps ==
    ASSUME CanvasInv, NEW c \in Cards, Move(c)
    PROVE  CanvasInv'
<1>1. TabFacts
  BY TabHolds
<1> DEFINE t == [tab EXCEPT !.view.nodes[c].pos = 1 - @]
           row == tab.view.nodes[c]
           n == [row EXCEPT !.pos = 1 - row.pos]
           v == [tab.view EXCEPT !.nodes = [tab.view.nodes EXCEPT ![c] = n]]
<1>2. c \in DOMAIN tab.view.nodes /\ Save(t) /\ Outside /\ past' = past
  BY DEF Move, Shown
<1>3. row \in NodeRecs
  BY <1>1, <1>2, NodeMapIs DEF TabFacts, Graphs
<1>4. n \in NodeRecs
  <2> HIDE DEF row
  <2> QED BY <1>3 DEF NodeRecs
<1>5. v \in Graphs /\ DOMAIN v.nodes = DOMAIN tab.view.nodes
  <2> HIDE DEF n
  <2> QED BY <1>1, <1>2, <1>4, TouchWell DEF TabFacts
<1>6. t = [tab EXCEPT !.view = v]
  BY <1>1 DEF TabFacts, TabFields
<1> HIDE DEF t, v
<1>7. Edited(t, v)
  BY <1>1, <1>5, <1>6 DEF Edited, TabFacts, TabFields
<1>8. DOMAIN past' = {"seen", "removed", "blind", "recalled"} /\ Safe(past) \subseteq Safe(past')
  BY <1>2 DEF CanvasInv
<1>9. DOMAIN tab.view.nodes \subseteq DOMAIN v.nodes \cup Safe(past')
  BY <1>5
<1> QED BY <1>2, <1>7, <1>8, <1>9, EditKeeps

LEMMA TypeKeeps ==
    ASSUME CanvasInv, NEW c \in Cards, Type(c)
    PROVE  CanvasInv'
<1>1. TabFacts
  BY TabHolds
<1> DEFINE row == tab.view.nodes[c]
           n == [row EXCEPT !.text = 1 - row.text]
           v == [tab.view EXCEPT !.nodes = [tab.view.nodes EXCEPT ![c] = n]]
<1>2. /\ c \in DOMAIN tab.view.nodes /\ Outside /\ past' = past /\ flight' = flight
      /\ tab' = [tab EXCEPT !.view.nodes[c].text = 1 - @, !.typing = TRUE]
  BY DEF Type, Shown
<1>3. row \in NodeRecs
  BY <1>1, <1>2, NodeMapIs DEF TabFacts, Graphs
<1>4. n \in NodeRecs
  <2> HIDE DEF row
  <2> QED BY <1>3 DEF NodeRecs
<1>5. v \in Graphs /\ DOMAIN v.nodes = DOMAIN tab.view.nodes
  <2> HIDE DEF n
  <2> QED BY <1>1, <1>2, <1>4, TouchWell DEF TabFacts
<1>6. /\ tab'.view = v /\ DOMAIN tab' = TabFields
      /\ tab'.base = tab.base /\ tab'.seq = tab.seq /\ tab'.queue = tab.queue
      /\ tab'.deferred = tab.deferred /\ tab'.drawn = tab.drawn /\ tab'.gapped = tab.gapped
  BY <1>1, <1>2 DEF TabFacts, TabFields
<1> HIDE DEF v
<1>7. Edited(tab', v)
  BY <1>5, <1>6 DEF Edited
<1>8. /\ Drawable(tab', srv.seq, Safe(past))
      /\ DOMAIN tab'.base.nodes \subseteq DOMAIN tab'.view.nodes \cup Safe(past)
  BY <1>5, <1>7, EditWell
<1>9. TabWell(tab', flight', srv.seq, Safe(past))
  <2>1. Covered(tab', Safe(past))
    BY <1>1, <1>6, <1>8 DEF TabFacts, Covered
  <2>2. Kept(tab', flight')
    BY <1>1, <1>2, <1>6 DEF TabFacts, Kept
  <2> QED BY <1>1, <1>2, <1>8, <2>1, <2>2 DEF TabWell, TabFacts
<1> QED BY <1>2, <1>9 DEF CanvasInv, ServerWell, Outside

LEMMA TypingTimerKeeps ==
    ASSUME CanvasInv, TypingTimer
    PROVE  CanvasInv'
<1>1. TabFacts
  BY TabHolds
<1> DEFINE t == [tab EXCEPT !.typing = FALSE]
<1>2. Save(t) /\ Outside /\ past' = past
  BY DEF TypingTimer
<1>3. Edited(t, tab.view)
  BY <1>1 DEF Edited, TabFacts, TabFields
<1> HIDE DEF t
<1>4. DOMAIN past' = {"seen", "removed", "blind", "recalled"} /\ Safe(past) \subseteq Safe(past')
  BY <1>2 DEF CanvasInv
<1> QED BY <1>2, <1>3, <1>4, EditKeeps

LEMMA AddCardKeeps ==
    ASSUME CanvasInv, AddCard
    PROVE  CanvasInv'
<1>1. TabFacts
  BY TabHolds
<1> DEFINE n == [rev |-> 0, pos |-> 0, text |-> 0]
           v == Put(tab.view, Mine, n)
           t == [tab EXCEPT !.minted = TRUE, !.view = v]
<1>2. Save(t) /\ Outside /\ past' = past
  BY DEF AddCard
<1>3. v \in Graphs /\ DOMAIN tab.view.nodes \subseteq DOMAIN v.nodes
  <2>1. n \in NodeRecs /\ Mine \in Cards
    BY DEF NodeRecs, Cards
  <2> HIDE DEF n
  <2> QED BY <1>1, <2>1, PutWell DEF TabFacts
<1> HIDE DEF v
<1>4. Edited(t, v)
  BY <1>1, <1>3 DEF Edited, TabFacts, TabFields
<1> HIDE DEF t
<1>5. DOMAIN past' = {"seen", "removed", "blind", "recalled"} /\ Safe(past) \subseteq Safe(past')
  BY <1>2 DEF CanvasInv
<1> QED BY <1>2, <1>3, <1>4, <1>5, EditKeeps

LEMMA RemoveSelectedKeeps ==
    ASSUME CanvasInv, NEW c \in Cards, RemoveSelected(c)
    PROVE  CanvasInv'
<1>1. TabFacts
  BY TabHolds
<1> DEFINE v == Cut(tab.view, c)
           t == [tab EXCEPT !.view = v]
<1>2. Save(t) /\ Outside /\ past' = [past EXCEPT !.removed = @ \cup {c}]
  BY DEF RemoveSelected, ApplyEdit
<1>3. v \in Graphs /\ DOMAIN v.nodes = DOMAIN tab.view.nodes \ {c}
  BY <1>1, CutWell DEF TabFacts
<1> HIDE DEF v
<1>4. Edited(t, v)
  BY <1>1, <1>3 DEF Edited, TabFacts, TabFields
<1> HIDE DEF t
<1>5. /\ DOMAIN past' = {"seen", "removed", "blind", "recalled"}
      /\ past'.removed = past.removed \cup {c} /\ past'.blind = past.blind
      /\ past'.recalled = past.recalled
  BY <1>2 DEF CanvasInv
<1>6. Safe(past) \subseteq Safe(past') /\ c \in Safe(past')
  BY <1>5 DEF Safe
<1> QED BY <1>2, <1>3, <1>4, <1>5, <1>6, EditKeeps

LEMMA ConnectKeeps ==
    ASSUME CanvasInv, Connect
    PROVE  CanvasInv'
<1>1. TabFacts
  BY TabHolds
<1> DEFINE v == [nodes |-> tab.view.nodes, edges |-> tab.view.edges \cup {Link}]
           t == [tab EXCEPT !.view.edges = @ \cup {Link}]
<1>2. Save(t) /\ Outside /\ past' = past
  BY DEF Connect
<1>3. v \in Graphs /\ DOMAIN v.nodes = DOMAIN tab.view.nodes
  <2>1. Link \in Links
    BY DEF Link, Links, Cards
  <2> QED BY <1>1, <2>1 DEF TabFacts, Graphs
<1>4. t = [tab EXCEPT !.view = v]
  BY <1>1 DEF TabFacts, TabFields, Graphs
<1> HIDE DEF t, v
<1>5. Edited(t, v)
  BY <1>1, <1>3, <1>4 DEF Edited, TabFacts, TabFields
<1>6. DOMAIN past' = {"seen", "removed", "blind", "recalled"} /\ Safe(past) \subseteq Safe(past')
  BY <1>2 DEF CanvasInv
<1> QED BY <1>2, <1>3, <1>5, <1>6, EditKeeps

(* An arrangement drawn before is put back: what was shown and is not in   *)
(* it is recalled.                                                         *)
LEMMA RecallKeeps ==
    ASSUME CanvasInv, NEW g \in Graphs, NEW v \in Graphs, NEW t,
           DOMAIN g.nodes \subseteq DOMAIN v.nodes,
           Edited(t, v), Save(t), Recalls(g), Outside
    PROVE  CanvasInv'
<1>1. /\ DOMAIN past' = {"seen", "removed", "blind", "recalled"}
      /\ past'.removed = past.removed /\ past'.blind = past.blind
      /\ past'.recalled = past.recalled \cup (DOMAIN tab.view.nodes \ DOMAIN g.nodes)
  BY DEF Recalls, Shown, CanvasInv
<1>2. Safe(past) \subseteq Safe(past')
      /\ DOMAIN tab.view.nodes \subseteq DOMAIN v.nodes \cup Safe(past')
  BY <1>1 DEF Safe
<1> QED BY <1>1, <1>2, EditKeeps

(* The view of a tab set to v.                                             *)
LEMMA ViewSet ==
    ASSUME CanvasInv, NEW v \in Graphs
    PROVE  Edited([tab EXCEPT !.view = v], v)
BY TabHolds DEF TabFacts, TabFields, Edited

LEMMA NewestIs ==
    ASSUME NEW s \in Seq(Graphs), s # <<>>
    PROVE  Last(s) \in Graphs /\ Front(s) \in Seq(Graphs)
BY DEF Last, Front

LEMMA UndoKeeps ==
    ASSUME CanvasInv, ShelfInv, Undo
    PROVE  CanvasInv'
<1>1. Last(shelf.undos) \in Graphs
  BY NewestIs DEF ShelfInv, Undo
<1> QED BY <1>1, ViewSet, RecallKeeps DEF Undo

LEMMA RedoKeeps ==
    ASSUME CanvasInv, ShelfInv, Redo
    PROVE  CanvasInv'
<1>1. Last(shelf.redos) \in Graphs
  BY NewestIs DEF ShelfInv, Redo
<1> QED BY <1>1, ViewSet, RecallKeeps DEF Redo

(* What a handler resumes with.                                            *)
LEMMA HeldIs ==
    ASSUME ShelfInv, shelf.held # NoGraph
    PROVE  shelf.held[1] \in Graphs
BY DEF ShelfInv, Queues

ImportedView == Put(shelf.held[1], Mine, [rev |-> 0, pos |-> 0, text |-> 0])

LEMMA ImportedWell ==
    ASSUME ShelfInv, Imported
    PROVE  /\ ImportedView \in Graphs
           /\ DOMAIN shelf.held[1].nodes \subseteq DOMAIN ImportedView.nodes
<1> DEFINE n == [rev |-> 0, pos |-> 0, text |-> 0]
<1>1. shelf.held[1] \in Graphs
  BY HeldIs DEF Imported
<1>2. n \in NodeRecs /\ Mine \in Cards
  BY DEF NodeRecs, Cards
<1>3. ImportedView = Put(shelf.held[1], Mine, n)
  BY DEF ImportedView
<1> HIDE DEF n
<1> QED BY <1>1, <1>2, <1>3, PutWell

LEMMA ImportedKeeps ==
    ASSUME CanvasInv, ShelfInv, Imported
    PROVE  CanvasInv'
<1> DEFINE v == ImportedView
           t == [tab EXCEPT !.minted = TRUE, !.view = v]
<1>1. /\ Save(t) /\ Recalls(shelf.held[1]) /\ Outside /\ shelf.held # NoGraph
  BY DEF Imported, ApplyEdit, ImportedView
<1>2. v \in Graphs /\ DOMAIN shelf.held[1].nodes \subseteq DOMAIN v.nodes
  BY ImportedWell
<1> HIDE DEF v
<1>3. Edited(t, v)
  BY <1>2, TabHolds DEF Edited, TabFacts, TabFields
<1> HIDE DEF t
<1> QED BY <1>1, <1>2, <1>3, HeldIs, RecallKeeps

UploadedView(c) == [shelf.held[1] EXCEPT !.nodes[c].text = 1 - @]

LEMMA UploadedWell ==
    ASSUME ShelfInv, NEW c \in Cards, Uploaded(c)
    PROVE  /\ UploadedView(c) \in Graphs
           /\ DOMAIN UploadedView(c).nodes = DOMAIN shelf.held[1].nodes
<1> DEFINE g == shelf.held[1]
           row == g.nodes[c]
           n == [row EXCEPT !.text = 1 - row.text]
           v == [g EXCEPT !.nodes = [g.nodes EXCEPT ![c] = n]]
<1>1. g \in Graphs /\ c \in DOMAIN g.nodes
  BY HeldIs DEF Uploaded
<1>2. UploadedView(c) = v
  BY DEF UploadedView
<1> HIDE DEF g
<1>3. row \in NodeRecs
  BY <1>1, NodeMapIs DEF Graphs
<1>4. n \in NodeRecs
  <2> HIDE DEF row
  <2> QED BY <1>3 DEF NodeRecs
<1>5. v \in Graphs /\ DOMAIN v.nodes = DOMAIN g.nodes
  <2> HIDE DEF n
  <2> QED BY <1>1, <1>4, TouchWell
<1> QED BY <1>2, <1>5 DEF g

LEMMA UploadedKeeps ==
    ASSUME CanvasInv, ShelfInv, NEW c \in Cards, Uploaded(c)
    PROVE  CanvasInv'
<1> DEFINE v == UploadedView(c)
           t == [tab EXCEPT !.view = v]
<1>1. /\ Save(t) /\ Recalls(shelf.held[1]) /\ Outside /\ shelf.held # NoGraph
  BY DEF Uploaded, ApplyEdit, UploadedView
<1>2. v \in Graphs /\ DOMAIN shelf.held[1].nodes \subseteq DOMAIN v.nodes
  BY UploadedWell
<1> HIDE DEF v
<1>3. Edited(t, v)
  BY <1>2, ViewSet
<1> HIDE DEF t
<1> QED BY <1>1, <1>2, <1>3, HeldIs, RecallKeeps

(* A file picked, or given up: only what the handler keeps changes.        *)
LEMMA PickKeeps ==
    ASSUME CanvasInv, PickFile \/ PickFails
    PROVE  CanvasInv'
BY DEF CanvasInv, ServerWell, PickFile, PickFails, Outside

(* What goes on a shelf was shown.                                         *)
LEMMA ShelfKeeps ==
    ASSUME CanvasInv, ShelfInv, [CanvasNext]_canvasVars
    PROVE  ShelfInv'
<1>1. tab.view \in Graphs
  BY TabHolds DEF TabFacts
<1>2. CASE shelf' = shelf
  BY <1>2 DEF ShelfInv
<1>3. ASSUME NEW t, NEW g, NEW held \in Queues, ApplyEdit(t, g, held)
      PROVE  ShelfInv'
  BY <1>1, <1>3 DEF ApplyEdit, ShelfInv
<1>4. NoGraph \in Queues /\ <<tab.view>> \in Queues
  BY <1>1 DEF Queues
<1>5. ASSUME NEW c \in Cards, RemoveSelected(c) PROVE ShelfInv'
  BY <1>3, <1>5 DEF RemoveSelected, ShelfInv
<1>6. ASSUME NEW c \in Cards, Uploaded(c) PROVE ShelfInv'
  BY <1>3, <1>4, <1>6 DEF Uploaded
<1>7. CASE Imported
  BY <1>3, <1>4, <1>7 DEF Imported
<1>8. CASE Undo
  BY <1>1, <1>8, NewestIs DEF Undo, ShelfInv
<1>9. CASE Redo
  BY <1>1, <1>9, NewestIs DEF Redo, ShelfInv
<1>10. CASE PickFile
  BY <1>4, <1>10 DEF PickFile, ShelfInv
<1>11. CASE PickFails
  BY <1>4, <1>11 DEF PickFails, ShelfInv
<1>12. ASSUME NEW c \in Cards, Move(c) \/ Type(c) PROVE shelf' = shelf
  BY <1>12 DEF Move, Type
<1>13. TypingTimer \/ AddCard \/ Connect => shelf' = shelf
  BY DEF TypingTimer, AddCard, Connect
<1>14. CommitOps \/ LoseRequest \/ FlushAnswered \/ FlushFailed => shelf' = shelf
  BY DEF CommitOps, LoseRequest, FlushAnswered, FlushFailed
<1>15. ReadCanvas \/ LoseRead \/ Reloaded => shelf' = shelf
  BY DEF ReadCanvas, LoseRead, Reloaded
<1>16. OtherWrites \/ AgentLands => shelf' = shelf
  BY DEF OtherWrites, AgentLands, Commits
<1>17. OpenStream \/ Subscribe \/ ReadGap \/ DropStream => shelf' = shelf
  BY DEF OpenStream, Subscribe, ReadGap, DropStream
<1>18. ASSUME NEW i \in 1 .. Len(unsent), Publish(i) \/ PublishFails(i)
       PROVE  shelf' = shelf
  BY <1>18 DEF Publish, PublishFails
<1>19. ASSUME NEW n \in 1 .. (IF stream.st = "open" THEN Len(stream.pipe) ELSE 0),
              ReadStream(n)
       PROVE  shelf' = shelf
  BY <1>19 DEF ReadStream
<1>20. CASE UNCHANGED canvasVars
  BY <1>2, <1>20 DEF canvasVars
<1> QED BY <1>2, <1>5, <1>6, <1>7, <1>8, <1>9, <1>10, <1>11, <1>12, <1>13, <1>14, <1>15,
           <1>16, <1>17, <1>18, <1>19, <1>20
        DEF CanvasNext

-----------------------------------------------------------------------------
(* The flush, and a canvas read whole *)

LEMMA LoseRequestKeeps ==
    ASSUME CanvasInv, LoseRequest
    PROVE  CanvasInv'
<1>1. TabFacts
  BY TabHolds
<1>2. flight' = [st |-> "refused"] /\ UNCHANGED <<srv, unsent, tab, fresh, stream, past>>
  BY DEF LoseRequest
<1>3. FlightWell(flight', srv.seq, Safe(past)) /\ Kept(tab, flight')
  BY <1>2 DEF FlightWell, Kept
<1> QED BY <1>1, <1>2, <1>3 DEF CanvasInv, ServerWell, TabWell, TabFacts

LEMMA FlushFailedKeeps ==
    ASSUME CanvasInv, FlushFailed
    PROVE  CanvasInv'
<1>1. TabFacts
  BY TabHolds
<1> DEFINE t == [tab EXCEPT !.queue = NoGraph]
<1>2. Settle(t) /\ UNCHANGED <<srv, unsent, fresh, stream, past>>
  BY DEF FlushFailed
<1>3. /\ DOMAIN t = TabFields /\ t.view = tab.view /\ t.base = tab.base /\ t.seq = tab.seq
      /\ t.queue = NoGraph /\ t.deferred = tab.deferred /\ t.drawn = tab.drawn
  BY <1>1 DEF TabFacts, TabFields
<1> HIDE DEF t
<1>4. Drawable(t, srv.seq, Safe(past)) /\ Covered(t, Safe(past))
  BY <1>1, <1>3 DEF TabFacts, Drawable, Covered, Queues
<1>5. TabWell(tab', flight', srv.seq, Safe(past))
  BY <1>1, <1>2, <1>3, <1>4, SettleWell DEF TabFacts
<1> QED BY <1>2, <1>5 DEF CanvasInv, ServerWell

LEMMA ReloadWell ==
    ASSUME NEW top, FreshWell(fresh, top), Reload
    PROVE  FreshWell(fresh', top)
<1>1. CASE fresh.st = "none"
  <2>1. fresh' = [st |-> "asked"]
    BY <1>1 DEF Reload
  <2> QED BY <2>1 DEF FreshWell
<1>2. CASE fresh.st # "none"
  BY <1>2 DEF Reload
<1> QED BY <1>1, <1>2

(* What a tab that adopts base while an arrangement waits is blind to.     *)
LEMMA LearnsWell ==
    ASSUME CanvasInv, NEW base, NEW seqs, Learns(base, seqs)
    PROVE  /\ DOMAIN past' = {"seen", "removed", "blind", "recalled"}
           /\ Safe(past) \subseteq Safe(past')
           /\ tab.queue # NoGraph =>
                 DOMAIN base.nodes \subseteq DOMAIN tab.base.nodes \cup Safe(past')
           /\ tab.queue = NoGraph => Safe(past') = Safe(past)
<1>1. DOMAIN past = {"seen", "removed", "blind", "recalled"}
  BY DEF CanvasInv
<1> DEFINE b == IF tab.queue = NoGraph THEN past.blind
                ELSE past.blind \cup (DOMAIN base.nodes \ DOMAIN tab.base.nodes)
<1>2. past' = [past EXCEPT !.seen = seqs, !.blind = b]
  BY <1>1 DEF Learns
<1> HIDE DEF b
<1>3. DOMAIN past' = {"seen", "removed", "blind", "recalled"} /\ past'.removed = past.removed
      /\ past'.blind = b /\ past'.recalled = past.recalled
  BY <1>1, <1>2
<1> QED BY <1>3 DEF Safe, b

LEMMA FlushAnsweredKeeps ==
    ASSUME CanvasInv, FlushAnswered
    PROVE  CanvasInv'
<1>1. TabFacts
  BY TabHolds
<1>2. /\ flight.st = "answered" /\ srv' = srv /\ unsent' = unsent /\ stream' = stream
      /\ FreshWell(fresh, srv.seq) /\ StreamWell(stream, srv.seq)
      /\ ServerWell /\ DOMAIN past = {"seen", "removed", "blind", "recalled"}
  BY DEF FlushAnswered, CanvasInv
<1>3. /\ flight.desired \in Graphs /\ flight.seq \in 0 .. srv.seq
      /\ flight.changes \in Seq(ChangesTo(srv.seq))
  BY <1>1, <1>2 DEF TabFacts, FlightWell
<1>4. CASE flight.gap
  <2> DEFINE t == [tab EXCEPT !.gapped = TRUE]
  <2>1. Reload /\ Settle(t) /\ past' = past
    BY <1>4 DEF FlushAnswered
  <2>2. FreshWell(fresh', srv.seq)
    BY <1>2, <2>1, ReloadWell
  <2>3. /\ DOMAIN t = TabFields /\ t.view = tab.view /\ t.base = tab.base /\ t.seq = tab.seq
        /\ t.queue = tab.queue /\ t.deferred = tab.deferred /\ t.drawn = tab.drawn
        /\ t.gapped = TRUE
    BY <1>1 DEF TabFacts, TabFields
  <2> HIDE DEF t
  <2>4. Drawable(t, srv.seq, Safe(past)) /\ Covered(t, Safe(past))
    BY <1>1, <2>3 DEF TabFacts, Drawable, Covered
  <2>5. TabWell(tab', flight', srv.seq, Safe(past))
    BY <1>1, <2>1, <2>3, <2>4, SettleWell DEF TabFacts
  <2> QED BY <1>2, <2>1, <2>2, <2>5 DEF CanvasInv, ServerWell
<1>5. CASE ~flight.gap
  <2> DEFINE news == IF tab.deferred = <<>> THEN flight.changes
                     ELSE BySeq(flight.changes \o tab.deferred)
             settled == ApplyChanges(flight.desired, news)
             told == [tab EXCEPT !.deferred = <<>>]
             held == Hold(told, settled, flight.seq)
             wide == Safe(past')
             top == srv.seq
  <2>1. /\ Settle(IF tab.queue = NoGraph THEN SetGraph(held, settled) ELSE held)
        /\ Learns(settled, past.seen) /\ fresh' = fresh
    BY <1>5 DEF FlushAnswered
  <2>2. news \in Seq(ChangesTo(top))
    <3>1. tab.deferred \in Seq(ChangesTo(top))
      BY <1>1 DEF TabFacts, Drawable
    <3>2. flight.changes \o tab.deferred \in Seq(ChangesTo(top))
      BY <1>3, <3>1
    <3>3. BySeq(flight.changes \o tab.deferred) \in Seq(ChangesTo(top))
      BY <3>2, BySeqWell
    <3> QED BY <1>3, <3>3
  <2>3. settled \in Graphs
    <3> HIDE DEF news
    <3>1. news \in Seq(Changes)
      BY <1>1, <2>2, HigherWell DEF TabFacts
    <3> QED BY <1>3, <3>1, ApplyChangesFacts
  <2> HIDE DEF news, settled
  <2>4. /\ DOMAIN past' = {"seen", "removed", "blind", "recalled"}
        /\ Safe(past) \subseteq wide
        /\ tab.queue # NoGraph =>
              DOMAIN settled.nodes \subseteq DOMAIN tab.base.nodes \cup wide
    BY <2>1, LearnsWell
  <2> HIDE DEF wide
  <2>5. Drawable(tab, top, wide) /\ Covered(tab, wide) /\ top \in Nat
    <3>1. TabWell(tab, flight, top, wide)
      BY <1>1, <2>4, TabGrows DEF TabFacts
    <3> QED BY <1>1, <3>1 DEF TabWell, TabFacts
  <2>6. /\ DOMAIN told = TabFields /\ told.view = tab.view /\ told.base = tab.base
        /\ told.seq = tab.seq /\ told.queue = tab.queue /\ told.deferred = <<>>
        /\ told.drawn = tab.drawn
    BY <1>1 DEF TabFacts, TabFields
  <2> HIDE DEF told
  <2>7. Drawable(told, top, wide)
    BY <2>5, <2>6 DEF Drawable
  <2>8. /\ Drawable(held, top, wide)
        /\ held.base = settled /\ held.view = told.view /\ held.queue = told.queue
        /\ held.deferred = told.deferred
    <3>1. flight.seq \in 0 .. top /\ top \in Nat
      BY <1>3, <2>5
    <3> HIDE DEF top
    <3> QED BY <2>3, <2>7, <3>1, HoldWell
  <2> HIDE DEF held
  <2>9. CASE tab.queue = NoGraph
    <3> DEFINE r == SetGraph(held, settled)
    <3>1. Settle(r)
      BY <2>1, <2>9
    <3>2. /\ Drawable(r, top, wide) /\ r.base = held.base /\ r.queue = held.queue
          /\ r.deferred = held.deferred
          /\ DOMAIN settled.nodes \subseteq DOMAIN r.view.nodes \cup wide
      BY <2>3, <2>5, <2>8, SetGraphWell
    <3> HIDE DEF r
    <3>3. Covered(r, wide)
      BY <2>6, <2>8, <2>9, <3>2 DEF Covered
    <3>4. r.deferred = <<>>
      BY <2>6, <2>8, <3>2
    <3>5. TabWell(tab', flight', top, wide)
      BY <2>5, <3>1, <3>2, <3>3, <3>4, SettleWell
    <3> QED BY <1>2, <2>1, <2>4, <3>5 DEF CanvasInv, ServerWell, wide
  <2>10. CASE tab.queue # NoGraph
    <3>1. Settle(held)
      BY <2>1, <2>10
    <3>2. Covered(held, wide)
      BY <2>4, <2>5, <2>6, <2>8, <2>10 DEF Covered
    <3>3. held.deferred = <<>>
      BY <2>6, <2>8
    <3>4. TabWell(tab', flight', top, wide)
      BY <2>5, <2>8, <3>1, <3>2, <3>3, SettleWell
    <3> QED BY <1>2, <2>1, <2>4, <3>4 DEF CanvasInv, ServerWell, wide
  <2> QED BY <2>9, <2>10
<1> QED BY <1>4, <1>5

LEMMA ReadCanvasKeeps ==
    ASSUME CanvasInv, ReadCanvas
    PROVE  CanvasInv'
<1>1. /\ fresh' = [st |-> "read", graph |-> srv.rows, seq |-> srv.seq]
      /\ UNCHANGED <<srv, unsent, tab, flight, stream, past>>
  BY DEF ReadCanvas
<1>2. srv.rows \in Graphs /\ srv.seq \in Nat
  BY ServerFacts DEF CanvasInv
<1>3. FreshWell(fresh', srv.seq)
  BY <1>1, <1>2 DEF FreshWell
<1> QED BY <1>1, <1>3 DEF CanvasInv, ServerWell

LEMMA LoseReadKeeps ==
    ASSUME CanvasInv, LoseRead
    PROVE  CanvasInv'
<1>1. fresh' = [st |-> "none"] /\ UNCHANGED <<srv, unsent, tab, flight, stream, past>>
  BY DEF LoseRead
<1>2. FreshWell(fresh', srv.seq)
  BY <1>1 DEF FreshWell
<1> QED BY <1>1, <1>2 DEF CanvasInv, ServerWell

LEMMA ReloadedKeeps ==
    ASSUME CanvasInv, Reloaded
    PROVE  CanvasInv'
<1>1. TabFacts
  BY TabHolds
<1> DEFINE g == fresh.graph
           r == Adopt(tab, g, fresh.seq)
           wide == Safe(past')
           top == srv.seq
<1>2. /\ fresh.st = "read" /\ tab' = r /\ fresh' = [st |-> "none"]
      /\ Learns(g, past.seen \cap 1 .. fresh.seq)
      /\ UNCHANGED <<srv, unsent, flight, stream>>
  BY DEF Reloaded
<1>3. g \in Graphs /\ fresh.seq \in 0 .. top
  BY <1>2 DEF CanvasInv, FreshWell
<1>4. /\ DOMAIN past' = {"seen", "removed", "blind", "recalled"}
      /\ Safe(past) \subseteq wide
      /\ tab.queue # NoGraph => DOMAIN g.nodes \subseteq DOMAIN tab.base.nodes \cup wide
  BY <1>2, LearnsWell
<1> HIDE DEF g, wide
<1>5. /\ Drawable(tab, top, wide) /\ Covered(tab, wide) /\ top \in Nat
      /\ FlightWell(flight, top, wide)
  <2>1. TabWell(tab, flight, top, wide)
    BY <1>1, <1>4, TabGrows DEF TabFacts
  <2> QED BY <1>1, <2>1 DEF TabWell, TabFacts
<1>6. /\ Drawable(r, top, wide) /\ r.base = g /\ r.queue = tab.queue
      /\ r.deferred = tab.deferred /\ r.gapped = tab.gapped
      /\ DOMAIN r.base.nodes \subseteq DOMAIN r.view.nodes \cup wide
  BY <1>3, <1>5, AdoptWell
<1> HIDE DEF r
<1>7. Covered(r, wide)
  BY <1>4, <1>5, <1>6 DEF Covered
<1>8. Kept(r, flight)
  BY <1>1, <1>6 DEF Kept, TabFacts
<1>9. FreshWell(fresh', top)
  BY <1>2 DEF FreshWell
<1> QED BY <1>2, <1>4, <1>5, <1>6, <1>7, <1>8, <1>9 DEF CanvasInv, ServerWell, TabWell, wide

-----------------------------------------------------------------------------
(* The change stream *)

(* A step of the connection alone. *)
LEMMA StreamKeeps ==
    ASSUME CanvasInv, UNCHANGED <<srv, tab, flight, fresh, past>>,
           unsent' \in Seq(Seq(ChangesTo(srv.seq))), StreamWell(stream', srv.seq)
    PROVE  CanvasInv'
BY DEF CanvasInv, ServerWell

LEMMA CloseWell ==
    ASSUME NEW top, NEW cursor \in 0 .. top
    PROVE  StreamWell(Close(cursor), top)
BY DEF Close, StreamWell

LEMMA OpenStreamKeeps ==
    ASSUME CanvasInv, OpenStream
    PROVE  CanvasInv'
<1> DEFINE feed == ChangesSince(srv, stream.cursor)
           top == srv.seq
           highest == HighestSeq(feed.missed, stream.cursor)
<1>1. /\ stream' = IF feed.gap THEN [st |-> "gap", cursor |-> stream.cursor]
                   ELSE [st |-> "open", cursor |-> stream.cursor, subscribed |-> FALSE,
                         pipe |-> feed.missed, last |-> highest]
      /\ UNCHANGED <<srv, unsent, tab, flight, fresh, past>>
  BY DEF OpenStream
<1>2. /\ srv.seq \in Nat /\ srv.log \in Seq(ChangesTo(srv.seq))
      /\ stream.cursor \in 0 .. srv.seq /\ unsent \in Seq(Seq(ChangesTo(srv.seq)))
  BY ServerFacts DEF CanvasInv, ServerWell, StreamWell
<1>3. feed.missed \in Seq(ChangesTo(top))
  BY <1>2, MissedWell
<1> HIDE DEF feed
<1>4. highest \in 0 .. top
  BY <1>2, <1>3, HighestWell
<1> HIDE DEF highest
<1>5. CASE feed.gap
  <2>1. stream' = [st |-> "gap", cursor |-> stream.cursor]
    BY <1>1, <1>5
  <2>2. StreamWell(stream', top)
    BY <1>2, <2>1 DEF StreamWell
  <2> QED BY <1>1, <1>2, <2>2, StreamKeeps
<1>6. CASE ~feed.gap
  <2>1. stream' = [st |-> "open", cursor |-> stream.cursor, subscribed |-> FALSE,
                   pipe |-> feed.missed, last |-> highest]
    BY <1>1, <1>6
  <2>2. StreamWell(stream', top)
    BY <1>2, <1>3, <1>4, <2>1 DEF StreamWell, StreamFields
  <2> QED BY <1>1, <1>2, <2>2, StreamKeeps
<1> QED BY <1>5, <1>6

LEMMA SubscribeKeeps ==
    ASSUME CanvasInv, Subscribe
    PROVE  CanvasInv'
<1>1. /\ stream.st = "open" /\ stream' = [stream EXCEPT !.subscribed = TRUE]
      /\ UNCHANGED <<srv, unsent, tab, flight, fresh, past>>
  BY DEF Subscribe
<1>2. /\ StreamWell(stream, srv.seq) /\ DOMAIN stream = StreamFields
      /\ unsent \in Seq(Seq(ChangesTo(srv.seq)))
  BY <1>1 DEF CanvasInv, ServerWell, StreamWell
<1>3. /\ stream'.st = stream.st /\ stream'.cursor = stream.cursor
      /\ stream'.pipe = stream.pipe /\ stream'.last = stream.last
      /\ DOMAIN stream' = StreamFields
  BY <1>1, <1>2 DEF StreamFields
<1>4. StreamWell(stream', srv.seq)
  BY <1>2, <1>3 DEF StreamWell
<1> QED BY <1>1, <1>2, <1>4, StreamKeeps

LEMMA RemoveWell ==
    ASSUME NEW S, NEW q \in Seq(S), NEW i \in DOMAIN q
    PROVE  RemoveAt(q, i) \in Seq(S)
<1>1. i \in 1 .. Len(q) /\ Len(q) \in Nat
  OBVIOUS
<1>2. RemoveAt(q, i) = SubSeq(q, 1, i - 1) \o SubSeq(q, i + 1, Len(q))
  BY DEF RemoveAt
<1>3. SubSeq(q, 1, i - 1) \in Seq(S) /\ SubSeq(q, i + 1, Len(q)) \in Seq(S)
  BY <1>1
<1> QED BY <1>2, <1>3

LEMMA PublishKeeps ==
    ASSUME CanvasInv, NEW i, Publish(i)
    PROVE  CanvasInv'
<1> DEFINE top == srv.seq
           passed == Passed(unsent[i])
           highest == HighestSeq(unsent[i], stream.last)
<1>1. /\ i \in DOMAIN unsent /\ unsent' = RemoveAt(unsent, i)
      /\ IF Listening
         THEN stream' = [stream EXCEPT !.pipe = @ \o passed, !.last = HighestSeq(unsent[i], @)]
         ELSE UNCHANGED stream
      /\ UNCHANGED <<srv, tab, flight, fresh, past>>
  BY DEF Publish
<1>2. /\ srv.seq \in Nat /\ StreamWell(stream, srv.seq)
      /\ unsent \in Seq(Seq(ChangesTo(srv.seq)))
  BY ServerFacts DEF CanvasInv, ServerWell
<1>3. unsent' \in Seq(Seq(ChangesTo(top))) /\ unsent[i] \in Seq(ChangesTo(top))
  BY <1>1, <1>2, RemoveWell
<1>4. CASE ~Listening
  <2>1. stream' = stream
    BY <1>1, <1>4
  <2> QED BY <1>1, <1>2, <1>3, <2>1, StreamKeeps
<1>5. CASE Listening
  <2>1. /\ stream.st = "open" /\ DOMAIN stream = StreamFields /\ stream.cursor \in 0 .. top
        /\ stream.pipe \in Seq(ChangesTo(top)) /\ stream.last \in 0 .. top
    BY <1>2, <1>5 DEF Listening, StreamWell
  <2>2. passed \in Seq(ChangesTo(top))
    BY <1>3, AfterWell DEF Passed
  <2>3. highest \in 0 .. top
    BY <1>2, <1>3, <2>1, HighestWell
  <2>4. stream' = [stream EXCEPT !.pipe = stream.pipe \o passed, !.last = highest]
    BY <1>1, <1>5, <2>1
  <2> HIDE DEF passed, highest
  <2>5. /\ stream'.st = "open" /\ stream'.cursor = stream.cursor
        /\ stream'.pipe = stream.pipe \o passed /\ stream'.last = highest
        /\ DOMAIN stream' = StreamFields
    BY <2>1, <2>4 DEF StreamFields
  <2>6. stream.pipe \o passed \in Seq(ChangesTo(top))
    BY <2>1, <2>2
  <2>7. StreamWell(stream', top)
    BY <2>1, <2>3, <2>5, <2>6 DEF StreamWell
  <2> QED BY <1>1, <1>3, <2>7, StreamKeeps
<1> QED BY <1>4, <1>5

LEMMA PublishFailsKeeps ==
    ASSUME CanvasInv, NEW i, PublishFails(i)
    PROVE  CanvasInv'
<1>1. /\ i \in DOMAIN unsent /\ unsent' = RemoveAt(unsent, i)
      /\ UNCHANGED <<srv, tab, flight, fresh, stream, past>>
  BY DEF PublishFails
<1>2. StreamWell(stream, srv.seq) /\ unsent \in Seq(Seq(ChangesTo(srv.seq)))
  BY DEF CanvasInv, ServerWell
<1>3. unsent' \in Seq(Seq(ChangesTo(srv.seq)))
  BY <1>1, <1>2, RemoveWell
<1> QED BY <1>1, <1>2, <1>3, StreamKeeps

LEMMA ReadGapKeeps ==
    ASSUME CanvasInv, ReadGap
    PROVE  CanvasInv'
<1>1. Reload /\ stream' = Close(0) /\ UNCHANGED <<srv, unsent, tab, flight, past>>
  BY DEF ReadGap
<1>2. srv.seq \in Nat
  BY ServerFacts DEF CanvasInv
<1>3. FreshWell(fresh', srv.seq)
  BY <1>1, ReloadWell DEF CanvasInv
<1>4. StreamWell(stream', srv.seq)
  <2>1. 0 \in 0 .. srv.seq
    BY <1>2
  <2> QED BY <1>1, <2>1, CloseWell
<1> QED BY <1>1, <1>3, <1>4 DEF CanvasInv, ServerWell

LEMMA DropStreamKeeps ==
    ASSUME CanvasInv, DropStream
    PROVE  CanvasInv'
<1>1. stream' = Close(stream.cursor) /\ UNCHANGED <<srv, unsent, tab, flight, fresh, past>>
  BY DEF DropStream
<1>2. stream.cursor \in 0 .. srv.seq /\ unsent \in Seq(Seq(ChangesTo(srv.seq)))
  BY DEF CanvasInv, ServerWell, StreamWell
<1>3. StreamWell(stream', srv.seq)
  BY <1>1, <1>2, CloseWell
<1> QED BY <1>1, <1>2, <1>3, StreamKeeps

LEMMA ReadStreamKeeps ==
    ASSUME CanvasInv, NEW n, ReadStream(n)
    PROVE  CanvasInv'
<1>1. TabFacts
  BY TabHolds
<1> DEFINE batch == SubSeq(stream.pipe, 1, n)
           rest == SubSeq(stream.pipe, n + 1, Len(stream.pipe))
           at == batch[n].seq
           top == srv.seq
           wide == Safe(past')
           now == [tab EXCEPT !.aged = @ \/ tab.deferred # <<>>]
<1>2. /\ stream.st = "open" /\ n \in DOMAIN stream.pipe
      /\ stream' = [stream EXCEPT !.pipe = SubSeq(@, n + 1, Len(@)), !.cursor = at]
      /\ IF Busy \/ tab.queue # NoGraph
         THEN tab' = [tab EXCEPT !.deferred = @ \o batch]
         ELSE tab' = FoldIn(now, batch, at)
      /\ Learns(tab'.base, past.seen \cup Seqs(batch))
      /\ UNCHANGED <<srv, unsent, flight, fresh>>
  BY DEF ReadStream
<1>3. /\ DOMAIN stream = StreamFields /\ stream.last \in 0 .. top
      /\ stream.pipe \in Seq(ChangesTo(top)) /\ top \in Nat
  BY <1>1, <1>2 DEF CanvasInv, StreamWell, TabFacts
<1>4. /\ batch \in Seq(ChangesTo(top)) /\ rest \in Seq(ChangesTo(top))
      /\ at \in 0 .. top
  <2>1. n \in 1 .. Len(stream.pipe) /\ Len(stream.pipe) \in Nat
    BY <1>2, <1>3
  <2>2. batch \in Seq(ChangesTo(top)) /\ rest \in Seq(ChangesTo(top))
    BY <1>3, <2>1
  <2>3. batch[n] = stream.pipe[n]
    BY <1>3, <2>1
  <2>4. stream.pipe[n] \in ChangesTo(top)
    BY <1>3, <2>1
  <2>5. stream.pipe[n].seq \in 1 .. top
    BY <2>4 DEF ChangesTo
  <2> HIDE DEF batch, rest
  <2>6. at \in 0 .. top
    BY <1>3, <2>3, <2>5
  <2> QED BY <2>2, <2>6
<1>5. /\ stream'.st = "open" /\ stream'.pipe = rest /\ stream'.cursor = at
      /\ stream'.last = stream.last /\ DOMAIN stream' = StreamFields
  BY <1>2, <1>3 DEF StreamFields
<1> HIDE DEF batch, rest, at
<1>6. StreamWell(stream', top)
  BY <1>3, <1>4, <1>5 DEF StreamWell
<1>7. DOMAIN past' = {"seen", "removed", "blind", "recalled"} /\ Safe(past) \subseteq wide
  BY <1>2, LearnsWell
<1> HIDE DEF wide
<1>8. TabWell(tab, flight, top, wide)
  BY <1>1, <1>7, TabGrows DEF TabFacts
<1>9. CASE Busy \/ tab.queue # NoGraph
  <2> DEFINE later == tab.deferred \o batch
  <2>1. tab' = [tab EXCEPT !.deferred = later]
    BY <1>2, <1>9
  <2>2. later \in Seq(ChangesTo(top))
    BY <1>1, <1>4 DEF TabFacts, Drawable
  <2> HIDE DEF later
  <2>3. /\ DOMAIN tab' = TabFields /\ tab'.view = tab.view /\ tab'.base = tab.base
        /\ tab'.seq = tab.seq /\ tab'.queue = tab.queue /\ tab'.deferred = later
        /\ tab'.drawn = tab.drawn /\ tab'.gapped = tab.gapped
    BY <1>1, <2>1 DEF TabFacts, TabFields
  <2>4. Drawable(tab', top, wide) /\ Covered(tab', wide)
    BY <1>8, <2>2, <2>3 DEF TabWell, Drawable, Covered
  <2>5. flight.st # "none"
    BY <1>1, <1>9 DEF TabFacts, Kept, Busy
  <2>6. Kept(tab', flight)
    BY <2>5 DEF Kept
  <2>7. TabWell(tab', flight, top, wide)
    BY <1>8, <2>4, <2>6 DEF TabWell
  <2> QED BY <1>2, <1>6, <1>7, <2>7 DEF CanvasInv, ServerWell, wide
<1>10. CASE ~Busy /\ tab.queue = NoGraph
  <2> DEFINE r == FoldIn(now, batch, at)
  <2>1. tab' = r
    BY <1>2, <1>10
  <2>2. /\ DOMAIN now = TabFields /\ now.view = tab.view /\ now.base = tab.base
        /\ now.seq = tab.seq /\ now.queue = tab.queue /\ now.deferred = tab.deferred
        /\ now.drawn = tab.drawn /\ now.gapped = tab.gapped
    BY <1>1 DEF TabFacts, TabFields
  <2> HIDE DEF now
  <2>3. Drawable(now, top, wide)
    BY <1>8, <2>2 DEF TabWell, Drawable
  <2>4. /\ Drawable(r, top, wide) /\ Covered(r, wide)
        /\ r.queue = NoGraph /\ r.deferred = tab.deferred /\ r.gapped = tab.gapped
    <3> HIDE DEF top
    <3> QED BY <1>3, <1>4, <1>10, <2>2, <2>3, FoldInWell
  <2> HIDE DEF r
  <2>5. Kept(r, flight)
    BY <1>1, <2>4 DEF Kept, TabFacts
  <2>6. TabWell(tab', flight, top, wide)
    BY <1>8, <2>1, <2>4, <2>5 DEF TabWell
  <2> QED BY <1>2, <1>6, <1>7, <2>6 DEF CanvasInv, ServerWell, wide
<1> QED BY <1>9, <1>10

-----------------------------------------------------------------------------
(* The theorems *)

LEMMA CanvasNextInv ==
    CanvasInv /\ ShelfInv /\ [CanvasNext]_canvasVars => CanvasInv' /\ ShelfInv'
<1> SUFFICES ASSUME CanvasInv, ShelfInv, [CanvasNext]_canvasVars
             PROVE  CanvasInv'
  BY ShelfKeeps
<1>1. ASSUME NEW c \in Cards, Move(c) PROVE CanvasInv'
  BY <1>1, MoveKeeps
<1>2. ASSUME NEW c \in Cards, Type(c) PROVE CanvasInv'
  BY <1>2, TypeKeeps
<1>3. ASSUME NEW c \in Cards, RemoveSelected(c) PROVE CanvasInv'
  BY <1>3, RemoveSelectedKeeps
<1>4. CASE TypingTimer
  BY <1>4, TypingTimerKeeps
<1>5. CASE AddCard
  BY <1>5, AddCardKeeps
<1>6. CASE Connect
  BY <1>6, ConnectKeeps
<1>7. CASE CommitOps
  BY <1>7, CommitOpsKeeps
<1>8. CASE LoseRequest
  BY <1>8, LoseRequestKeeps
<1>9. CASE FlushAnswered
  BY <1>9, FlushAnsweredKeeps
<1>10. CASE FlushFailed
  BY <1>10, FlushFailedKeeps
<1>11. CASE ReadCanvas
  BY <1>11, ReadCanvasKeeps
<1>12. CASE LoseRead
  BY <1>12, LoseReadKeeps
<1>13. CASE Reloaded
  BY <1>13, ReloadedKeeps
<1>14. CASE OtherWrites
  BY <1>14, OtherWritesKeeps
<1>15. CASE AgentLands
  BY <1>15, AgentLandsKeeps
<1>16. CASE OpenStream
  BY <1>16, OpenStreamKeeps
<1>17. CASE Subscribe
  BY <1>17, SubscribeKeeps
<1>18. CASE ReadGap
  BY <1>18, ReadGapKeeps
<1>19. CASE DropStream
  BY <1>19, DropStreamKeeps
<1>20. ASSUME NEW i \in 1 .. Len(unsent), Publish(i) PROVE CanvasInv'
  BY <1>20, PublishKeeps
<1>21. ASSUME NEW i \in 1 .. Len(unsent), PublishFails(i) PROVE CanvasInv'
  BY <1>21, PublishFailsKeeps
<1>22. ASSUME NEW n \in 1 .. (IF stream.st = "open" THEN Len(stream.pipe) ELSE 0),
              ReadStream(n)
       PROVE  CanvasInv'
  BY <1>22, ReadStreamKeeps
<1>23. CASE UNCHANGED canvasVars
  BY <1>23 DEF CanvasInv, ServerWell, canvasVars
<1>24. CASE Undo
  BY <1>24, UndoKeeps
<1>25. CASE Redo
  BY <1>25, RedoKeeps
<1>26. CASE Imported
  BY <1>26, ImportedKeeps
<1>27. ASSUME NEW c \in Cards, Uploaded(c) PROVE CanvasInv'
  BY <1>27, UploadedKeeps
<1>28. CASE PickFile \/ PickFails
  BY <1>28, PickKeeps
<1> QED BY <1>1, <1>2, <1>3, <1>4, <1>5, <1>6, <1>7, <1>8, <1>9, <1>10, <1>11, <1>12,
           <1>13, <1>14, <1>15, <1>16, <1>17, <1>18, <1>19, <1>20, <1>21, <1>22, <1>23,
           <1>24, <1>25, <1>26, <1>27, <1>28
        DEF CanvasNext

LEMMA CanvasInvHolds == CanvasSpec => [](CanvasInv /\ ShelfInv)
BY CanvasInitInv, CanvasNextInv, PTL DEF CanvasSpec

(* The type invariant of an open canvas: every reference is to a card of   *)
(* the canvas, and every number the tab or the stream holds was given out. *)
THEOREM CanvasTypeCorrect == CanvasSpec => []CanvasTypeOK
<1>1. CanvasInv => CanvasTypeOK
  <2> SUFFICES ASSUME CanvasInv PROVE CanvasTypeOK
    OBVIOUS
  <2>1. /\ srv.rows \in Graphs /\ srv.seq \in Nat
        /\ srv.log \in Seq(ChangesTo(srv.seq)) /\ TabFacts
    BY ServerFacts, TabHolds DEF CanvasInv
  <2>2. ASSUME NEW g \in {srv.rows, tab.base, tab.view}
        PROVE  DOMAIN g.nodes \subseteq Cards /\ g.edges \subseteq Cards \X Cards
    <3>1. g \in Graphs
      BY <2>1 DEF TabFacts
    <3> QED BY <3>1, NodeMapIs DEF Graphs, Links
  <2>3. ASSUME NEW i \in DOMAIN srv.log PROVE srv.log[i].seq \in 1 .. srv.seq
    <3>1. srv.log[i] \in ChangesTo(srv.seq)
      BY <2>1
    <3> QED BY <3>1 DEF ChangesTo
  <2>4. tab.seq \in 0 .. srv.seq /\ stream.cursor \in 0 .. srv.seq
    BY <2>1 DEF TabFacts, Drawable, CanvasInv, StreamWell
  <2>5. Len(tab.queue) <= 1
    <3>1. tab.queue \in Queues
      BY <2>1 DEF TabFacts, Drawable
    <3>2. CASE tab.queue = NoGraph
      BY <3>2 DEF NoGraph
    <3>3. CASE \E g \in Graphs : tab.queue = <<g>>
      BY <3>3
    <3> QED BY <3>1, <3>2, <3>3 DEF Queues
  <2>6. /\ flight.st \in {"none", "sent", "answered", "refused"}
        /\ fresh.st \in {"none", "asked", "read"}
        /\ stream.st \in {"down", "gap", "open"}
    BY <2>1 DEF TabFacts, FlightWell, CanvasInv, FreshWell, StreamWell
  <2> QED BY <2>2, <2>3, <2>4, <2>5, <2>6 DEF CanvasTypeOK
<1> QED BY <1>1, CanvasInvHolds, PTL

(* The log replays to the rows of the canvas, whatever mix of saved        *)
(* batches, stale revisions and landed results wrote it: app/domain/canvas *)
(* logs every row it changes, the cascade of a deletion included.          *)
THEOREM FeedReplays == CanvasSpec => []FeedIsTheCanvas
<1>1. CanvasInv => FeedIsTheCanvas
  BY ServerFacts DEF CanvasInv, FeedIsTheCanvas, Blank
<1> QED BY <1>1, CanvasInvHolds, PTL

(* The save loop asks for the deletion only of cards that its person       *)
(* removed, that the tab learned of while an arrangement drawn without     *)
(* them waited to be sent, or that it showed when undo, redo or a handler  *)
(* resumed after its await put back an arrangement drawn without them.     *)
THEOREM DeletesOnlyTheirOwn == CanvasSpec => []OnlyTheirOwn
<1>1. CanvasInv => OnlyTheirOwn
  <2> SUFFICES ASSUME CanvasInv, flight.st = "sent", NEW i \in DOMAIN flight.ops,
                      flight.ops[i].kind = "node.delete"
               PROVE  flight.ops[i].id \in past.removed \cup past.blind \cup past.recalled
    BY DEF OnlyTheirOwn, Doomed
  <2>1. flight.ops \in Seq(SafeOps(Safe(past)))
    BY TabHolds DEF TabFacts, FlightWell
  <2>2. flight.ops[i] \in SafeOps(Safe(past))
    BY <2>1
  <2> QED BY <2>2 DEF SafeOps, Safe
<1> QED BY <1>1, CanvasInvHolds, PTL

(* No end of a flush leaves a save, or a change of others, waiting for a   *)
(* flush that will not come; frames, unless an answer had a gap.           *)
THEOREM StrandsNothing == CanvasSpec => []NothingIsStranded
<1>1. CanvasInv => NothingIsStranded
  BY TabHolds DEF TabFacts, Kept, NothingIsStranded, Busy
<1> QED BY <1>1, CanvasInvHolds, PTL
-----------------------------------------------------------------------------
(* What a graph has of one card or connection, and what a change does to it *)

Things == {[kind |-> "node", id |-> c] : c \in Cards}
          \cup {[kind |-> "edge", id |-> e] : e \in Links}

(* A change of it, or the end of one of its cards. *)
Touches(ch, x) ==
    \/ ch.kind = x.kind /\ ch.id = x.id
    \/ /\ ch.kind = "node" /\ x.kind = "edge" /\ ch.node = <<>>
       /\ ch.id \in {x.id[1], x.id[2]}

Untouched(chs, x) == \A ch \in Range(chs) : ~Touches(ch, x)

Has(g, x) == IF x.kind = "node"
             THEN IF x.id \in DOMAIN g.nodes THEN <<g.nodes[x.id]>> ELSE <<>>
             ELSE IF x.id \in g.edges THEN <<TRUE>> ELSE <<>>

Leaves(ch, x) == IF x.kind = "node" THEN ch.node
                 ELSE IF ch.kind = "edge" /\ ch.set THEN <<TRUE>> ELSE <<>>

LEMMA ThingIs ==
    ASSUME NEW x \in Things
    PROVE  \/ x.kind = "node" /\ x.id \in Cards
           \/ x.kind = "edge" /\ x.id \in Links
BY DEF Things

LEMMA PutHas ==
    ASSUME NEW g \in Graphs, NEW c \in Cards, NEW n \in NodeRecs, NEW x \in Things
    PROVE  Has(Put(g, c, n), x) =
             IF x.kind = "node" /\ x.id = c THEN <<n>> ELSE Has(g, x)
<1> DEFINE r == Put(g, c, n)
<1>1. DOMAIN r.nodes = DOMAIN g.nodes \cup {c} /\ r.edges = g.edges
  BY PutWell
<1>2. \A y \in DOMAIN g.nodes \cup {c} : r.nodes[y] = IF y = c THEN n ELSE g.nodes[y]
  BY DEF Put, Graphs
<1> HIDE DEF r
<1>3. CASE x.kind = "node"
  BY <1>1, <1>2, <1>3 DEF Has, r
<1>4. CASE x.kind = "edge"
  BY <1>1, <1>4 DEF Has, r
<1> QED BY <1>3, <1>4, ThingIs

LEMMA CutHas ==
    ASSUME NEW g \in Graphs, NEW c \in Cards, NEW x \in Things
    PROVE  Has(Cut(g, c), x) =
             IF (x.kind = "node" /\ x.id = c) \/ (x.kind = "edge" /\ c \in {x.id[1], x.id[2]})
             THEN <<>> ELSE Has(g, x)
<1> DEFINE r == Cut(g, c)
<1>1. DOMAIN r.nodes = DOMAIN g.nodes \ {c}
  BY CutWell
<1>2. /\ \A y \in DOMAIN g.nodes \ {c} : r.nodes[y] = g.nodes[y]
      /\ r.edges = {e \in g.edges : c \notin {e[1], e[2]}}
  BY DEF Cut, Restrict
<1> HIDE DEF r
<1>3. CASE x.kind = "node"
  BY <1>1, <1>2, <1>3 DEF Has, r
<1>4. CASE x.kind = "edge"
  BY <1>2, <1>4 DEF Has, r
<1> QED BY <1>3, <1>4, ThingIs

LEMMA HasStep ==
    ASSUME NEW g \in Graphs, NEW ch \in Changes, NEW x \in Things
    PROVE  Has(ApplyChange(g, ch), x) =
             IF Touches(ch, x) THEN Leaves(ch, x) ELSE Has(g, x)
<1>1. CASE ch \in NodeChanges /\ ch.node = <<>>
  <2>1. ApplyChange(g, ch) = Cut(g, ch.id) /\ ch.kind = "node" /\ ch.id \in Cards
    BY <1>1 DEF ApplyChange, NodeChanges
  <2> QED BY <1>1, <2>1, CutHas, ThingIs DEF Touches, Leaves
<1>2. CASE ch \in NodeChanges /\ ch.node # <<>>
  <2>1. PICK n \in NodeRecs : ch.node = <<n>>
    BY <1>2 DEF NodeChanges
  <2>2. ApplyChange(g, ch) = Put(g, ch.id, n) /\ ch.id \in Cards /\ ch.kind = "node"
    BY <1>2, <2>1 DEF ApplyChange, NodeChanges
  <2> QED BY <1>2, <2>1, <2>2, PutHas, ThingIs DEF Touches, Leaves
<1>3. CASE ch \in EdgeChanges
  <2>1. ch.kind = "edge" /\ ch.id \in Links /\ ch.set \in BOOLEAN
    BY <1>3 DEF EdgeChanges
  <2>2. /\ ApplyChange(g, ch).nodes = g.nodes
        /\ ApplyChange(g, ch).edges = IF ch.set THEN g.edges \cup {ch.id}
                                                ELSE g.edges \ {ch.id}
    BY <2>1 DEF ApplyChange, Graphs
  <2>3. CASE x.kind = "node"
    BY <2>1, <2>2, <2>3 DEF Has, Touches
  <2>4. CASE x.kind = "edge"
    BY <2>1, <2>2, <2>4 DEF Has, Touches, Leaves
  <2> QED BY <2>3, <2>4, ThingIs
<1> QED BY <1>1, <1>2, <1>3 DEF Changes

LEMMA OneOf == \A a, b : <<a>> # <<>> /\ (<<a>> = <<b>> => a = b)
OBVIOUS

(* Two graphs that have the same of everything are the same.               *)
LEMMA HasAll ==
    ASSUME NEW g \in Graphs, NEW h \in Graphs, \A x \in Things : Has(g, x) = Has(h, x)
    PROVE  g = h
<1>1. /\ g.nodes \in NodeMaps /\ h.nodes \in NodeMaps
      /\ g.edges \in SUBSET Links /\ h.edges \in SUBSET Links
      /\ g = [nodes |-> g.nodes, edges |-> g.edges]
      /\ h = [nodes |-> h.nodes, edges |-> h.edges]
  BY DEF Graphs
<1>2. DOMAIN g.nodes \in SUBSET Cards /\ DOMAIN h.nodes \in SUBSET Cards
      /\ g.nodes \in [DOMAIN g.nodes -> NodeRecs] /\ h.nodes \in [DOMAIN h.nodes -> NodeRecs]
  BY <1>1, NodeMapIs
<1>3. ASSUME NEW c \in Cards
      PROVE  /\ c \in DOMAIN g.nodes <=> c \in DOMAIN h.nodes
             /\ c \in DOMAIN g.nodes => g.nodes[c] = h.nodes[c]
  <2> DEFINE x == [kind |-> "node", id |-> c]
  <2>1. x \in Things /\ x.kind = "node" /\ x.id = c
    BY DEF Things
  <2> HIDE DEF x
  <2>2. Has(g, x) = Has(h, x)
    BY <2>1
  <2>3. /\ Has(g, x) = IF c \in DOMAIN g.nodes THEN <<g.nodes[c]>> ELSE <<>>
        /\ Has(h, x) = IF c \in DOMAIN h.nodes THEN <<h.nodes[c]>> ELSE <<>>
    BY <2>1 DEF Has
  <2> QED BY <2>2, <2>3, OneOf
<1>4. DOMAIN g.nodes = DOMAIN h.nodes
  BY <1>2, <1>3
<1>5. g.nodes = h.nodes
  BY <1>2, <1>3, <1>4
<1>6. ASSUME NEW e \in Links PROVE e \in g.edges <=> e \in h.edges
  <2> DEFINE x == [kind |-> "edge", id |-> e]
  <2>1. x \in Things /\ x.kind = "edge" /\ x.id = e
    BY DEF Things
  <2> HIDE DEF x
  <2>2. Has(g, x) = Has(h, x)
    BY <2>1
  <2>3. /\ Has(g, x) = IF e \in g.edges THEN <<TRUE>> ELSE <<>>
        /\ Has(h, x) = IF e \in h.edges THEN <<TRUE>> ELSE <<>>
    BY <2>1 DEF Has
  <2> QED BY <2>2, <2>3, OneOf
<1>7. g.edges = h.edges
  BY <1>1, <1>6
<1> QED BY <1>1, <1>5, <1>7

-----------------------------------------------------------------------------
(* Sequences of changes, from the first on *)

Upto(chs, k) == SubSeq(chs, 1, k)

LEMMA PrefixIs ==
    ASSUME NEW S, NEW chs \in Seq(S)
    PROVE  /\ Len(chs) \in Nat /\ Upto(chs, 0) = <<>>
           /\ Upto(chs, Len(chs)) = chs
           /\ \A k \in 0 .. Len(chs) - 1 :
                 /\ Upto(chs, k + 1) = Append(Upto(chs, k), chs[k + 1])
                 /\ chs[k + 1] \in S
           /\ \A k \in 0 .. Len(chs) : Upto(chs, k) \in Seq(S) /\ Len(Upto(chs, k)) = k
<1>1. Len(chs) \in Nat /\ chs \in [1 .. Len(chs) -> S]
  OBVIOUS
<1>2. Upto(chs, 0) = <<>>
  BY DEF Upto
<1>3. Upto(chs, Len(chs)) = chs
  BY DEF Upto
<1>4. ASSUME NEW k \in 0 .. Len(chs) - 1
      PROVE  Upto(chs, k + 1) = Append(Upto(chs, k), chs[k + 1]) /\ chs[k + 1] \in S
  <2>1. k \in Nat /\ k + 1 \in 1 .. Len(chs)
    BY <1>1
  <2>2. /\ SubSeq(chs, 1, k) \in Seq(S) /\ Len(SubSeq(chs, 1, k)) = k
        /\ SubSeq(chs, 1, k + 1) \in Seq(S) /\ Len(SubSeq(chs, 1, k + 1)) = k + 1
        /\ \A i \in 1 .. k : SubSeq(chs, 1, k)[i] = chs[i]
        /\ \A i \in 1 .. k + 1 : SubSeq(chs, 1, k + 1)[i] = chs[i]
    BY <1>1, <2>1
  <2> QED BY <1>1, <2>1, <2>2 DEF Upto
<1>5. ASSUME NEW k \in 0 .. Len(chs)
      PROVE  Upto(chs, k) \in Seq(S) /\ Len(Upto(chs, k)) = k
  BY <1>1 DEF Upto
<1> QED BY <1>1, <1>2, <1>3, <1>4, <1>5

LEMMA RangeIs ==
    ASSUME NEW S, NEW q \in Seq(S)
    PROVE  /\ Range(q) \subseteq S /\ DOMAIN q = 1 .. Len(q) /\ Len(q) \in Nat
           /\ \A y : y \in Range(q) <=> \E i \in 1 .. Len(q) : y = q[i]
           /\ \A i \in 1 .. Len(q) : q[i] \in Range(q)
BY DEF Range

(* Of a thing, a fold leaves what its last change of it leaves.            *)
LEMMA HasFold ==
    ASSUME NEW g \in Graphs, NEW chs \in Seq(Changes), NEW x \in Things
    PROVE  /\ Untouched(chs, x) => Has(ApplyChanges(g, chs), x) = Has(g, x)
           /\ \A m \in 1 .. Len(chs) :
                 /\ Touches(chs[m], x)
                 /\ \A i \in m + 1 .. Len(chs) : ~Touches(chs[i], x)
                 => Has(ApplyChanges(g, chs), x) = Leaves(chs[m], x)
<1> DEFINE n == Len(chs)
           r(k) == Has(ApplyChanges(g, Upto(chs, k)), x)
           P(k) == /\ (\A i \in 1 .. k : ~Touches(chs[i], x)) => r(k) = Has(g, x)
                   /\ \A m \in 1 .. k :
                         Touches(chs[m], x) /\ (\A i \in m + 1 .. k : ~Touches(chs[i], x))
                         => r(k) = Leaves(chs[m], x)
           T == {k \in 0 .. n : P(k)}
<1>1. n \in Nat /\ Upto(chs, 0) = <<>> /\ Upto(chs, n) = chs
  BY PrefixIs
<1>2. r(0) = Has(g, x)
  BY <1>1, ApplyNone
<1>3. ASSUME NEW k \in 0 .. n - 1
      PROVE  r(k + 1) = IF Touches(chs[k + 1], x) THEN Leaves(chs[k + 1], x) ELSE r(k)
  <2>1. /\ Upto(chs, k + 1) = Append(Upto(chs, k), chs[k + 1]) /\ chs[k + 1] \in Changes
        /\ Upto(chs, k) \in Seq(Changes)
    BY <1>1, PrefixIs
  <2>2. /\ ApplyChanges(g, Upto(chs, k)) \in Graphs
        /\ ApplyChanges(g, Upto(chs, k + 1)) = ApplyChange(ApplyChanges(g, Upto(chs, k)), chs[k + 1])
    BY <2>1, ApplyChangesFacts
  <2> QED BY <2>1, <2>2, HasStep
<1> HIDE DEF r, n
<1>4. 0 \in T
  BY <1>1, <1>2
<1>5. ASSUME NEW k \in 0 .. n - 1, k \in T PROVE k + 1 \in T
  <2>1. P(k)
    BY <1>5
  <2>2. k \in Nat /\ k + 1 \in 0 .. n
    BY <1>1
  <2>3. ASSUME \A i \in 1 .. k + 1 : ~Touches(chs[i], x) PROVE r(k + 1) = Has(g, x)
    <3>1. k + 1 \in 1 .. k + 1 /\ \A i \in 1 .. k : i \in 1 .. k + 1
      BY <2>2
    <3> QED BY <1>3, <2>1, <2>3, <3>1
  <2>4. ASSUME NEW m \in 1 .. k + 1, Touches(chs[m], x),
               \A i \in m + 1 .. k + 1 : ~Touches(chs[i], x)
        PROVE  r(k + 1) = Leaves(chs[m], x)
    <3>1. CASE m = k + 1
      BY <1>3, <2>4, <3>1
    <3>2. CASE m # k + 1
      <4>1. m \in 1 .. k /\ k + 1 \in m + 1 .. k + 1 /\ \A i \in m + 1 .. k : i \in m + 1 .. k + 1
        BY <2>2, <3>2
      <4> QED BY <1>3, <2>1, <2>4, <4>1
    <3> QED BY <3>1, <3>2
  <2> QED BY <2>2, <2>3, <2>4
<1>6. n \in T
  <2> HIDE DEF T
  <2> QED BY <1>1, <1>4, <1>5, CountUp
<1>7. P(n) /\ r(n) = Has(ApplyChanges(g, chs), x)
  BY <1>1, <1>6 DEF r
<1>8. \A i \in 1 .. n : chs[i] \in Range(chs)
  BY RangeIs DEF n
<1> QED BY <1>7, <1>8 DEF n, Untouched

-----------------------------------------------------------------------------
(* Changes in the order of their numbers, each number given to one *)

Sorted(chs) == \A i, j \in 1 .. Len(chs) : i < j => chs[i].seq <= chs[j].seq
Rising(chs) == \A i, j \in 1 .. Len(chs) : i < j => chs[i].seq < chs[j].seq
Single(S)   == \A a, b \in S : a.seq = b.seq => a = b

(* The last change of a thing that there is in S.                          *)
Latest(S, ch, x) == /\ ch \in S /\ Touches(ch, x)
                    /\ \A o \in S : Touches(o, x) => o.seq <= ch.seq

LEMMA ChangeSeq == \A ch \in Changes : ch.seq \in Nat
BY DEF Changes, NodeChanges, EdgeChanges

LEMMA LargestOf ==
    ASSUME NEW n \in Nat, NEW T \in SUBSET (0 .. n), T # {}
    PROVE  \E m \in T : \A k \in T : k <= m
<1> DEFINE B == {n - k : k \in T}
<1>1. B \in SUBSET Nat /\ B # {}
  <2>1. \A k \in T : k \in 0 .. n /\ n - k \in Nat
    OBVIOUS
  <2> QED BY <2>1
<1>2. PICK b \in B : \A a \in B : b <= a
  <2> HIDE DEF B
  <2> QED BY <1>1, SmallestOf
<1>3. PICK m \in T : b = n - m
  BY <1>2
<1>4. ASSUME NEW k \in T PROVE k <= m
  <2>1. n - k \in B /\ k \in 0 .. n /\ m \in 0 .. n
    OBVIOUS
  <2>2. b <= n - k
    BY <1>2, <2>1
  <2> HIDE DEF B
  <2> QED BY <1>3, <2>1, <2>2
<1> QED BY <1>4

(* A thing that some change of S touches has a last one.                   *)
LEMMA LatestIs ==
    ASSUME NEW chs \in Seq(Changes), Sorted(chs), NEW x
    PROVE  \/ Untouched(chs, x)
           \/ \E m \in 1 .. Len(chs) :
                 /\ Latest(Range(chs), chs[m], x)
                 /\ \A i \in m + 1 .. Len(chs) : ~Touches(chs[i], x)
<1> DEFINE n == Len(chs)
           T == {i \in 1 .. n : Touches(chs[i], x)}
<1>1. /\ n \in Nat /\ \A i \in 1 .. n : chs[i] \in Range(chs)
      /\ \A y \in Range(chs) : \E i \in 1 .. n : y = chs[i]
  BY RangeIs
<1>2. CASE T = {}
  BY <1>1, <1>2 DEF Untouched
<1>3. CASE T # {}
  <2>1. T \in SUBSET (0 .. n)
    OBVIOUS
  <2>2. PICK m \in T : \A k \in T : k <= m
    <3> HIDE DEF T, n
    <3> QED BY <1>1, <1>3, <2>1, LargestOf
  <2>3. m \in 1 .. n /\ Touches(chs[m], x)
    BY <2>2
  <2>4. ASSUME NEW o \in Range(chs), Touches(o, x) PROVE o.seq <= chs[m].seq
    <3>1. PICK i \in 1 .. n : o = chs[i]
      BY <1>1
    <3>2. i \in T /\ i <= m
      BY <2>2, <2>4, <3>1
    <3>3. chs[i] \in Changes /\ chs[i].seq \in Nat
      BY <3>1, ChangeSeq
    <3> QED BY <2>3, <3>1, <3>2, <3>3 DEF Sorted
  <2>5. ASSUME NEW i \in m + 1 .. n PROVE ~Touches(chs[i], x)
    <3>1. i \in 1 .. n /\ ~(i <= m)
      BY <1>1, <2>3
    <3>2. i \notin T
      BY <2>2, <3>1
    <3> QED BY <3>1, <3>2
  <2> QED BY <1>1, <2>3, <2>4, <2>5 DEF Latest
<1> QED BY <1>2, <1>3

(* Folding changes in order leaves what the last one leaves.               *)
LEMMA FoldLatest ==
    ASSUME NEW g \in Graphs, NEW chs \in Seq(Changes), Sorted(chs), Single(Range(chs)),
           NEW x \in Things, NEW ch, Latest(Range(chs), ch, x)
    PROVE  Has(ApplyChanges(g, chs), x) = Leaves(ch, x)
<1>1. ch \in Range(chs) /\ Touches(ch, x) /\ \A o \in Range(chs) : Touches(o, x) => o.seq <= ch.seq
  BY DEF Latest
<1>2. PICK m \in 1 .. Len(chs) : /\ Latest(Range(chs), chs[m], x)
                                 /\ \A i \in m + 1 .. Len(chs) : ~Touches(chs[i], x)
  BY <1>1, LatestIs DEF Untouched
<1>3. chs[m] \in Range(chs) /\ Touches(chs[m], x) /\ ch.seq <= chs[m].seq /\ chs[m].seq <= ch.seq
  BY <1>1, <1>2 DEF Latest
<1>4. Range(chs) \subseteq Changes
  BY RangeIs
<1>5. ch.seq \in Nat /\ chs[m].seq \in Nat
  BY <1>1, <1>3, <1>4, ChangeSeq
<1>6. ch.seq = chs[m].seq
  BY <1>3, <1>5
<1>7. ch = chs[m]
  BY <1>1, <1>3, <1>6 DEF Single
<1> QED BY <1>2, <1>3, <1>7, HasFold

(* A feed that replays to the rows shows of each card and connection what  *)
(* the last change of it left.                                             *)
Replays(chs, rows) ==
    /\ chs \in Seq(Changes) /\ rows \in Graphs
    /\ Sorted(chs) /\ Single(Range(chs)) /\ ApplyChanges(Blank, chs) = rows

LEMMA RowsShow ==
    ASSUME NEW chs, NEW rows, Replays(chs, rows), NEW x \in Things
    PROVE  /\ Untouched(chs, x) => Has(rows, x) = <<>>
           /\ \A ch : Latest(Range(chs), ch, x) => Has(rows, x) = Leaves(ch, x)
           /\ Untouched(chs, x) \/ \E ch : Latest(Range(chs), ch, x)
<1>1. /\ chs \in Seq(Changes) /\ Sorted(chs) /\ Single(Range(chs))
      /\ ApplyChanges(Blank, chs) = rows /\ Blank \in Graphs
  BY BlankWell DEF Replays
<1>2. Has(Blank, x) = <<>>
  BY DEF Has, Blank
<1>3. Untouched(chs, x) => Has(rows, x) = <<>>
  BY <1>1, <1>2, HasFold
<1>4. ASSUME NEW ch, Latest(Range(chs), ch, x) PROVE Has(rows, x) = Leaves(ch, x)
  <2> DEFINE b == Blank
  <2>1. b \in Graphs /\ ApplyChanges(b, chs) = rows
    BY <1>1
  <2> HIDE DEF b
  <2> QED BY <1>1, <1>4, <2>1, FoldLatest
<1>5. Untouched(chs, x) \/ \E ch : Latest(Range(chs), ch, x)
  BY <1>1, LatestIs
<1> QED BY <1>3, <1>4, <1>5

LEMMA AppendIs ==
    ASSUME NEW S, NEW q \in Seq(S), NEW y \in S
    PROVE  /\ Append(q, y) \in Seq(S) /\ Range(Append(q, y)) = Range(q) \cup {y}
           /\ Len(Append(q, y)) = Len(q) + 1
           /\ \A i \in 1 .. Len(q) : Append(q, y)[i] = q[i]
           /\ Append(q, y)[Len(q) + 1] = y
<1> DEFINE r == Append(q, y)
<1>1. /\ r \in Seq(S) /\ Len(q) \in Nat /\ Len(r) = Len(q) + 1
      /\ \A i \in 1 .. Len(q) : r[i] = q[i]
      /\ r[Len(q) + 1] = y
  OBVIOUS
<1> HIDE DEF r
<1>2. /\ \A z : z \in Range(q) <=> \E i \in 1 .. Len(q) : z = q[i]
      /\ \A z : z \in Range(r) <=> \E i \in 1 .. Len(r) : z = r[i]
  BY <1>1, RangeIs
<1>3. ASSUME NEW z PROVE z \in Range(r) <=> z \in Range(q) \cup {y}
  <2>1. \A i \in 1 .. Len(r) : i \in 1 .. Len(q) \/ i = Len(q) + 1
    BY <1>1
  <2>2. \A i \in 1 .. Len(q) : i \in 1 .. Len(r)
    BY <1>1
  <2>3. Len(q) + 1 \in 1 .. Len(r)
    BY <1>1
  <2> QED BY <1>1, <1>2, <2>1, <2>2, <2>3
<1>4. Range(r) = Range(q) \cup {y}
  BY <1>3
<1> QED BY <1>1, <1>4 DEF r

LEMMA SortedAppend ==
    ASSUME NEW q \in Seq(Changes), Sorted(q), NEW y \in Changes,
           \A ch \in Range(q) : ch.seq <= y.seq
    PROVE  Sorted(Append(q, y))
<1> DEFINE r == Append(q, y)
<1>1. /\ Len(q) \in Nat /\ Len(r) = Len(q) + 1
      /\ \A i \in 1 .. Len(q) : r[i] = q[i] /\ q[i] \in Range(q)
      /\ r[Len(q) + 1] = y
  BY AppendIs, RangeIs
<1> HIDE DEF r
<1>2. ASSUME NEW i \in 1 .. Len(r), NEW j \in 1 .. Len(r), i < j
      PROVE  r[i].seq <= r[j].seq
  <2>1. i \in 1 .. Len(q) /\ (j \in 1 .. Len(q) \/ j = Len(q) + 1)
    BY <1>1, <1>2
  <2> QED BY <1>1, <1>2, <2>1 DEF Sorted
<1> QED BY <1>2 DEF Sorted, r

LEMMA RisingAppend ==
    ASSUME NEW q \in Seq(Changes), Rising(q), NEW y \in Changes,
           \A ch \in Range(q) : ch.seq < y.seq
    PROVE  Rising(Append(q, y))
<1> DEFINE r == Append(q, y)
<1>1. /\ Len(q) \in Nat /\ Len(r) = Len(q) + 1
      /\ \A i \in 1 .. Len(q) : r[i] = q[i] /\ q[i] \in Range(q)
      /\ r[Len(q) + 1] = y
  BY AppendIs, RangeIs
<1> HIDE DEF r
<1>2. ASSUME NEW i \in 1 .. Len(r), NEW j \in 1 .. Len(r), i < j
      PROVE  r[i].seq < r[j].seq
  <2>1. i \in 1 .. Len(q) /\ (j \in 1 .. Len(q) \/ j = Len(q) + 1)
    BY <1>1, <1>2
  <2> QED BY <1>1, <1>2, <2>1 DEF Rising
<1> QED BY <1>2 DEF Rising, r

LEMMA RisingSorted ==
    ASSUME NEW q \in Seq(Changes), Rising(q)
    PROVE  Sorted(q)
<1>1. \A i \in 1 .. Len(q) : q[i].seq \in Nat
  BY RangeIs, ChangeSeq
<1> QED BY <1>1 DEF Rising, Sorted

LEMMA ConcatIs ==
    ASSUME NEW S, NEW p \in Seq(S), NEW q \in Seq(S)
    PROVE  /\ p \o q \in Seq(S) /\ Range(p \o q) = Range(p) \cup Range(q)
           /\ Len(p \o q) = Len(p) + Len(q)
           /\ \A i \in 1 .. Len(p) : (p \o q)[i] = p[i]
           /\ \A i \in 1 .. Len(q) : (p \o q)[Len(p) + i] = q[i]
<1> DEFINE r == p \o q
<1>1. /\ r \in Seq(S) /\ Len(p) \in Nat /\ Len(q) \in Nat /\ Len(r) = Len(p) + Len(q)
      /\ \A i \in 1 .. Len(p) : r[i] = p[i]
      /\ \A i \in 1 .. Len(q) : r[Len(p) + i] = q[i]
  OBVIOUS
<1> HIDE DEF r
<1>2. /\ \A z : z \in Range(p) <=> \E i \in 1 .. Len(p) : z = p[i]
      /\ \A z : z \in Range(q) <=> \E i \in 1 .. Len(q) : z = q[i]
      /\ \A z : z \in Range(r) <=> \E i \in 1 .. Len(r) : z = r[i]
  BY <1>1, RangeIs
<1>3. ASSUME NEW z \in Range(r) PROVE z \in Range(p) \cup Range(q)
  <2>1. PICK i \in 1 .. Len(r) : z = r[i]
    BY <1>2
  <2>2. i \in 1 .. Len(p) \/ (i - Len(p) \in 1 .. Len(q) /\ i = Len(p) + (i - Len(p)))
    BY <1>1
  <2> QED BY <1>1, <1>2, <2>1, <2>2
<1>4. Range(p) \subseteq Range(r)
  <2>1. \A i \in 1 .. Len(p) : i \in 1 .. Len(r)
    BY <1>1
  <2> QED BY <1>1, <1>2, <2>1
<1>5. ASSUME NEW z \in Range(q) PROVE z \in Range(r)
  <2>1. PICK i \in 1 .. Len(q) : z = q[i]
    BY <1>2
  <2>2. Len(p) + i \in 1 .. Len(r) /\ r[Len(p) + i] = z
    BY <1>1, <2>1
  <2> QED BY <1>2, <2>2
<1>6. Range(r) = Range(p) \cup Range(q)
  BY <1>3, <1>4, <1>5
<1> QED BY <1>1, <1>6 DEF r

LEMMA SortedConcat ==
    ASSUME NEW p \in Seq(Changes), Sorted(p), NEW q \in Seq(Changes), Sorted(q),
           \A a \in Range(p), b \in Range(q) : a.seq <= b.seq
    PROVE  Sorted(p \o q)
<1> DEFINE r == p \o q
<1>1. /\ Len(p) \in Nat /\ Len(q) \in Nat /\ Len(r) = Len(p) + Len(q)
      /\ \A i \in 1 .. Len(p) : r[i] = p[i] /\ p[i] \in Range(p)
      /\ \A i \in 1 .. Len(q) : r[Len(p) + i] = q[i] /\ q[i] \in Range(q)
  BY ConcatIs, RangeIs
<1> HIDE DEF r
<1>2. ASSUME NEW i \in 1 .. Len(r), NEW j \in 1 .. Len(r), i < j
      PROVE  r[i].seq <= r[j].seq
  <2>1. CASE i \in 1 .. Len(p) /\ j \in 1 .. Len(p)
    BY <1>1, <1>2, <2>1 DEF Sorted
  <2>2. CASE i \in 1 .. Len(p) /\ j \notin 1 .. Len(p)
    <3>1. PICK k \in 1 .. Len(q) : j = Len(p) + k
      <4>1. j - Len(p) \in 1 .. Len(q) /\ j = Len(p) + (j - Len(p))
        BY <1>1, <2>2
      <4> QED BY <4>1
    <3> QED BY <1>1, <2>2, <3>1
  <2>3. CASE i \notin 1 .. Len(p)
    <3>1. PICK k \in 1 .. Len(q), l \in 1 .. Len(q) : i = Len(p) + k /\ j = Len(p) + l /\ k < l
      <4>1. /\ i - Len(p) \in 1 .. Len(q) /\ i = Len(p) + (i - Len(p))
            /\ j - Len(p) \in 1 .. Len(q) /\ j = Len(p) + (j - Len(p))
            /\ i - Len(p) < j - Len(p)
        BY <1>1, <1>2, <2>3
      <4> QED BY <4>1
    <3> QED BY <1>1, <3>1 DEF Sorted
  <2> QED BY <2>1, <2>2, <2>3
<1> QED BY <1>2 DEF Sorted, r

LEMMA RisingConcat ==
    ASSUME NEW p \in Seq(Changes), Rising(p), NEW q \in Seq(Changes), Rising(q),
           \A a \in Range(p), b \in Range(q) : a.seq < b.seq
    PROVE  Rising(p \o q)
<1> DEFINE r == p \o q
<1>1. /\ Len(p) \in Nat /\ Len(q) \in Nat /\ Len(r) = Len(p) + Len(q)
      /\ \A i \in 1 .. Len(p) : r[i] = p[i] /\ p[i] \in Range(p)
      /\ \A i \in 1 .. Len(q) : r[Len(p) + i] = q[i] /\ q[i] \in Range(q)
  BY ConcatIs, RangeIs
<1> HIDE DEF r
<1>2. ASSUME NEW i \in 1 .. Len(r), NEW j \in 1 .. Len(r), i < j
      PROVE  r[i].seq < r[j].seq
  <2>1. CASE i \in 1 .. Len(p) /\ j \in 1 .. Len(p)
    BY <1>1, <1>2, <2>1 DEF Rising
  <2>2. CASE i \in 1 .. Len(p) /\ j \notin 1 .. Len(p)
    <3>1. PICK k \in 1 .. Len(q) : j = Len(p) + k
      <4>1. j - Len(p) \in 1 .. Len(q) /\ j = Len(p) + (j - Len(p))
        BY <1>1, <2>2
      <4> QED BY <4>1
    <3> QED BY <1>1, <2>2, <3>1
  <2>3. CASE i \notin 1 .. Len(p)
    <3>1. PICK k \in 1 .. Len(q), l \in 1 .. Len(q) : i = Len(p) + k /\ j = Len(p) + l /\ k < l
      <4>1. /\ i - Len(p) \in 1 .. Len(q) /\ i = Len(p) + (i - Len(p))
            /\ j - Len(p) \in 1 .. Len(q) /\ j = Len(p) + (j - Len(p))
            /\ i - Len(p) < j - Len(p)
        BY <1>1, <1>2, <2>3
      <4> QED BY <4>1
    <3> QED BY <1>1, <3>1 DEF Rising
  <2> QED BY <2>1, <2>2, <2>3
<1> QED BY <1>2 DEF Rising, r

LEMMA SortedPart ==
    ASSUME NEW S, NEW q \in Seq(S), NEW m \in 1 .. Len(q) + 1, NEW n \in 0 .. Len(q)
    PROVE  /\ SubSeq(q, m, n) \in Seq(S) /\ Range(SubSeq(q, m, n)) \subseteq Range(q)
           /\ \A i \in m .. n : q[i] \in Range(SubSeq(q, m, n))
           /\ \A z \in Range(SubSeq(q, m, n)) : \E i \in m .. n : z = q[i]
           /\ Sorted(q) => Sorted(SubSeq(q, m, n))
           /\ Rising(q) => Rising(SubSeq(q, m, n))
<1> DEFINE r == SubSeq(q, m, n)
           k == IF m <= n THEN n - m + 1 ELSE 0
<1>1. Len(q) \in Nat /\ m \in Nat /\ n \in Nat
  OBVIOUS
<1>2. /\ r \in Seq(S) /\ Len(r) = k /\ k \in Nat
      /\ \A i \in 1 .. k : r[i] = q[m + i - 1]
  BY <1>1
<1>3. /\ \A i \in 1 .. k : m + i - 1 \in m .. n /\ m + i - 1 \in 1 .. Len(q)
      /\ \A i \in m .. n : i - m + 1 \in 1 .. k /\ m + (i - m + 1) - 1 = i
      /\ \A i, j \in 1 .. k : i < j => m + i - 1 < m + j - 1
  BY <1>1
<1> HIDE DEF r, k
<1>4. /\ \A z : z \in Range(q) <=> \E i \in 1 .. Len(q) : z = q[i]
      /\ \A z : z \in Range(r) <=> \E i \in 1 .. Len(r) : z = r[i]
  BY <1>2, RangeIs
<1>5. ASSUME NEW i \in m .. n PROVE q[i] \in Range(r)
  <2>1. i - m + 1 \in 1 .. Len(r) /\ r[i - m + 1] = q[i]
    BY <1>2, <1>3
  <2> QED BY <1>4, <2>1
<1>6. ASSUME NEW z \in Range(r) PROVE \E i \in m .. n : z = q[i] /\ z \in Range(q)
  <2>1. PICK i \in 1 .. k : z = r[i]
    BY <1>2, <1>4
  <2>2. PICK j \in m .. n : j \in 1 .. Len(q) /\ z = q[j]
    BY <1>2, <1>3, <2>1
  <2> QED BY <1>4, <2>2
<1>7. ASSUME Sorted(q) PROVE Sorted(r)
  <2>1. ASSUME NEW i \in 1 .. Len(r), NEW j \in 1 .. Len(r), i < j
        PROVE  r[i].seq <= r[j].seq
    <3>1. /\ r[i] = q[m + i - 1] /\ r[j] = q[m + j - 1]
          /\ m + i - 1 \in 1 .. Len(q) /\ m + j - 1 \in 1 .. Len(q) /\ m + i - 1 < m + j - 1
      BY <1>2, <1>3, <2>1
    <3> QED BY <1>7, <3>1 DEF Sorted
  <2> QED BY <2>1 DEF Sorted
<1>8. ASSUME Rising(q) PROVE Rising(r)
  <2>1. ASSUME NEW i \in 1 .. Len(r), NEW j \in 1 .. Len(r), i < j
        PROVE  r[i].seq < r[j].seq
    <3>1. /\ r[i] = q[m + i - 1] /\ r[j] = q[m + j - 1]
          /\ m + i - 1 \in 1 .. Len(q) /\ m + j - 1 \in 1 .. Len(q) /\ m + i - 1 < m + j - 1
      BY <1>2, <1>3, <2>1
    <3> QED BY <1>8, <3>1 DEF Rising
  <2> QED BY <2>1 DEF Rising
<1> QED BY <1>2, <1>5, <1>6, <1>7, <1>8 DEF r

-----------------------------------------------------------------------------
(* What is read from the feed, and the order frames are put in *)

LEMMA AfterStep ==
    ASSUME NEW S, NEW since
    PROVE  /\ After(<<>>, since) = <<>>
           /\ \A chs \in Seq(S) : \A ch \in S :
                 After(Append(chs, ch), since) =
                    IF ch.seq > since THEN Append(After(chs, since), ch)
                    ELSE After(chs, since)
<1> DEFINE Keep(kept, ch) == IF ch.seq > since THEN Append(kept, ch) ELSE kept
           X == Seq(S)
           F == [p \in X \X S |-> Keep(p[1], p[2])]
           e == <<>>
<1>1. F \in [X \X S -> X] /\ e \in X /\ Len(e) = 0
  OBVIOUS
<1>2. \A x \in X, y \in S : F[<<x, y>>] = Keep(x, y)
  OBVIOUS
<1> HIDE DEF F, e
<1>3. ASSUME NEW chs \in X PROVE After(chs, since) = Folded(X, F, e, chs)
  <2> DEFINE H == CHOOSE h : h = FoldTurn(Keep, h, e, chs)
  <2>1. After(chs, since) = H[DOMAIN chs]
    BY DEF After, FoldLeft, MapThenFoldSet, FoldTurn, e
  <2> HIDE DEF X
  <2>2. PICK G : FoldTurns(G, X, S, F, e, chs)
    BY <1>1, TurnsExist DEF X
  <2>3. G = FoldTurn(Keep, G, e, chs)
    <3> HIDE DEF Keep, H
    <3> QED BY <1>2, <2>2 DEF FoldTurns, FoldTurn
  <2>4. H = FoldTurn(Keep, H, e, chs)
    BY <2>3
  <2> HIDE DEF Keep, H
  <2>5. H[{}] = e
    BY <2>4 DEF FoldTurn
  <2>6. ASSUME NEW s \in SUBSET DOMAIN chs, s # {}, H[s \ {Max(s)}] \in X
        PROVE  H[s] = F[<<H[s \ {Max(s)}], chs[Max(s)]>>]
    <3>1. H[s] = Keep(H[s \ {Max(s)}], chs[Max(s)])
      BY <2>4, <2>6 DEF FoldTurn
    <3>2. chs[Max(s)] \in S
      BY <2>2, <2>6 DEF FoldTurns
    <3> QED BY <1>2, <2>6, <3>1, <3>2
  <2>7. Follows(H, X, S, F, e, chs)
    BY <1>1, <1>3, <2>5, <2>6 DEF Follows, X
  <2>8. H[DOMAIN chs] = Folded(X, F, e, chs)
    BY <2>7, TurnsFold
  <2> QED BY <2>1, <2>8
<1>4. ASSUME NEW chs \in X PROVE Foldable(X, S, F, e, chs)
  BY <1>1 DEF Foldable
<1> HIDE DEF Keep
<1>5. After(e, since) = e
  <2>1. Foldable(X, S, F, e, e)
    BY <1>1, <1>4
  <2>2. Folded(X, F, e, e) = e
    <3> HIDE DEF X
    <3> QED BY <1>1, <2>1, FoldedNone
  <2> QED BY <1>1, <1>3, <2>2
<1>6. ASSUME NEW chs \in X, NEW ch \in S
      PROVE  After(Append(chs, ch), since) = Keep(After(chs, since), ch)
  <2>1. Append(chs, ch) \in X
    OBVIOUS
  <2>2. /\ Folded(X, F, e, chs) \in X
        /\ Folded(X, F, e, Append(chs, ch)) = F[<<Folded(X, F, e, chs), ch>>]
    <3>1. Foldable(X, S, F, e, chs)
      BY <1>4
    <3> QED BY <3>1, FoldedFacts
  <2>3. F[<<Folded(X, F, e, chs), ch>>] = Keep(Folded(X, F, e, chs), ch)
    BY <1>2, <2>2
  <2>4. /\ After(chs, since) = Folded(X, F, e, chs)
        /\ After(Append(chs, ch), since) = Folded(X, F, e, Append(chs, ch))
    BY <1>3, <2>1
  <2> QED BY <2>2, <2>3, <2>4
<1> QED BY <1>5, <1>6 DEF Keep, e

(* All the changes above the number and no other, in their order.          *)
AfterIs(r, chs, since) ==
    /\ r \in Seq(Changes) /\ Len(r) <= Len(chs)
    /\ Range(r) = {ch \in Range(chs) : ch.seq > since}
    /\ Sorted(chs) => Sorted(r)
    /\ Rising(chs) => Rising(r)
    /\ (\A ch \in Range(chs) : ch.seq > since) => r = chs

LEMMA SortedLess ==
    ASSUME NEW q \in Seq(Changes), NEW y \in Changes, Sorted(Append(q, y))
    PROVE  Sorted(q) /\ \A ch \in Range(q) : ch.seq <= y.seq
<1> DEFINE r == Append(q, y)
<1>1. /\ Len(q) \in Nat /\ Len(r) = Len(q) + 1
      /\ \A i \in 1 .. Len(q) : r[i] = q[i]
      /\ r[Len(q) + 1] = y
      /\ \A ch \in Range(q) : \E i \in 1 .. Len(q) : ch = q[i]
  BY AppendIs, RangeIs
<1>2. \A i, j \in 1 .. Len(r) : i < j => r[i].seq <= r[j].seq
  BY DEF Sorted
<1> HIDE DEF r
<1>3. \A i \in 1 .. Len(q) : i \in 1 .. Len(r) /\ i < Len(q) + 1
  BY <1>1
<1>4. Len(q) + 1 \in 1 .. Len(r)
  BY <1>1
<1>5. Sorted(q)
  BY <1>1, <1>2, <1>3 DEF Sorted
<1>6. ASSUME NEW ch \in Range(q) PROVE ch.seq <= y.seq
  <2>1. PICK i \in 1 .. Len(q) : ch = q[i]
    BY <1>1
  <2> QED BY <1>1, <1>2, <1>3, <1>4, <2>1
<1> QED BY <1>5, <1>6

LEMMA RisingLess ==
    ASSUME NEW q \in Seq(Changes), NEW y \in Changes, Rising(Append(q, y))
    PROVE  Rising(q) /\ \A ch \in Range(q) : ch.seq < y.seq
<1> DEFINE r == Append(q, y)
<1>1. /\ Len(q) \in Nat /\ Len(r) = Len(q) + 1
      /\ \A i \in 1 .. Len(q) : r[i] = q[i]
      /\ r[Len(q) + 1] = y
      /\ \A ch \in Range(q) : \E i \in 1 .. Len(q) : ch = q[i]
  BY AppendIs, RangeIs
<1>2. \A i, j \in 1 .. Len(r) : i < j => r[i].seq < r[j].seq
  BY DEF Rising
<1> HIDE DEF r
<1>3. \A i \in 1 .. Len(q) : i \in 1 .. Len(r) /\ i < Len(q) + 1
  BY <1>1
<1>4. Len(q) + 1 \in 1 .. Len(r)
  BY <1>1
<1>5. Rising(q)
  BY <1>1, <1>2, <1>3 DEF Rising
<1>6. ASSUME NEW ch \in Range(q) PROVE ch.seq < y.seq
  <2>1. PICK i \in 1 .. Len(q) : ch = q[i]
    BY <1>1
  <2> QED BY <1>1, <1>2, <1>3, <1>4, <2>1
<1> QED BY <1>5, <1>6

LEMMA NoneIs == /\ <<>> \in Seq(Changes) /\ Range(<<>>) = {} /\ Len(<<>>) = 0
                /\ Sorted(<<>>) /\ Rising(<<>>)
BY DEF Range, Sorted, Rising

LEMMA AfterFacts ==
    ASSUME NEW chs \in Seq(Changes), NEW since
    PROVE  AfterIs(After(chs, since), chs, since)
<1> DEFINE n == Len(chs)
           P(k) == AfterIs(After(Upto(chs, k), since), Upto(chs, k), since)
           T == {k \in 0 .. n : P(k)}
<1>1. n \in Nat /\ Upto(chs, 0) = <<>> /\ Upto(chs, n) = chs
  BY PrefixIs
<1>2. AfterIs(<<>>, <<>>, since)
  BY NoneIs DEF AfterIs
<1>3. 0 \in T
  BY <1>1, <1>2, AfterStep
<1> HIDE DEF n
<1>4. ASSUME NEW k \in 0 .. n - 1, k \in T PROVE k + 1 \in T
  <2> DEFINE q == Upto(chs, k)
             y == chs[k + 1]
             a == After(q, since)
             r == After(Append(q, y), since)
  <2>1. k + 1 \in 0 .. n /\ Upto(chs, k + 1) = Append(q, y) /\ y \in Changes /\ q \in Seq(Changes)
    BY <1>1, PrefixIs DEF n
  <2>2. AfterIs(a, q, since)
    BY <1>4
  <2>3. r = IF y.seq > since THEN Append(a, y) ELSE a
    BY <2>1, AfterStep
  <2> HIDE DEF a, r
  <2> HIDE DEF q, y
  <2>4. /\ a \in Seq(Changes) /\ Len(a) <= Len(q)
        /\ Range(a) = {ch \in Range(q) : ch.seq > since}
        /\ Sorted(q) => Sorted(a)
        /\ Rising(q) => Rising(a)
        /\ (\A ch \in Range(q) : ch.seq > since) => a = q
    BY <2>2 DEF AfterIs
  <2>5. /\ Range(Append(q, y)) = Range(q) \cup {y} /\ Len(Append(q, y)) = Len(q) + 1
        /\ Append(a, y) \in Seq(Changes)
        /\ Range(Append(a, y)) = Range(a) \cup {y} /\ Len(Append(a, y)) = Len(a) + 1
        /\ Len(a) \in Nat /\ Len(q) \in Nat
    <3>1. Len(a) \in Nat /\ Len(q) \in Nat
      BY <2>1, <2>4
    <3> QED BY <2>1, <2>4, <3>1, AppendIs
  <2>6. Sorted(Append(q, y)) => Sorted(q) /\ \A ch \in Range(q) : ch.seq <= y.seq
    BY <2>1, SortedLess
  <2>7. Rising(Append(q, y)) => Rising(q) /\ \A ch \in Range(q) : ch.seq < y.seq
    BY <2>1, RisingLess
  <2>8. CASE y.seq > since
    <3>1. r = Append(a, y)
      BY <2>3, <2>8
    <3>2. Range(r) = {ch \in Range(Append(q, y)) : ch.seq > since}
      BY <2>4, <2>5, <2>8, <3>1
    <3>3. Sorted(Append(q, y)) => Sorted(r)
      BY <2>1, <2>4, <2>6, <3>1, SortedAppend
    <3>4. (\A ch \in Range(Append(q, y)) : ch.seq > since) => r = Append(q, y)
      BY <2>4, <2>5, <3>1
    <3>5. r \in Seq(Changes) /\ Len(r) <= Len(Append(q, y))
      BY <2>4, <2>5, <3>1
    <3>6. Rising(Append(q, y)) => Rising(r)
      BY <2>1, <2>4, <2>7, <3>1, RisingAppend
    <3>7. AfterIs(r, Append(q, y), since)
      BY <3>2, <3>3, <3>4, <3>5, <3>6 DEF AfterIs
    <3> QED BY <2>1, <3>7 DEF r, q
  <2>9. CASE ~(y.seq > since)
    <3>1. r = a
      BY <2>3, <2>9
    <3>2. Range(r) = {ch \in Range(Append(q, y)) : ch.seq > since}
      BY <2>4, <2>5, <2>9, <3>1
    <3>3. Sorted(Append(q, y)) => Sorted(r)
      BY <2>4, <2>6, <3>1
    <3>4. (\A ch \in Range(Append(q, y)) : ch.seq > since) => r = Append(q, y)
      BY <2>5, <2>9
    <3>5. r \in Seq(Changes) /\ Len(r) <= Len(Append(q, y))
      BY <2>4, <2>5, <3>1
    <3>6. Rising(Append(q, y)) => Rising(r)
      BY <2>1, <2>4, <2>7, <3>1
    <3>7. AfterIs(r, Append(q, y), since)
      BY <3>2, <3>3, <3>4, <3>5, <3>6 DEF AfterIs
    <3> QED BY <2>1, <3>7 DEF r, q
  <2> QED BY <2>8, <2>9
<1>5. n \in T
  <2> HIDE DEF T
  <2> QED BY <1>1, <1>3, <1>4, CountUp
<1>6. P(n)
  BY <1>5
<1> QED BY <1>1, <1>6

(* The highest number there is, or the one it started from.                *)
LEMMA HighestAbove ==
    ASSUME NEW low \in Nat, NEW chs \in Seq(Changes)
    PROVE  /\ HighestSeq(chs, low) \in Nat /\ low <= HighestSeq(chs, low)
           /\ \A ch \in Range(chs) : ch.seq <= HighestSeq(chs, low)
<1> DEFINE F == [p \in Nat \X Changes |-> Higher(p[1], p[2])]
           h(q) == Folded(Nat, F, low, q)
           n == Len(chs)
           P(k) == /\ h(Upto(chs, k)) \in Nat /\ low <= h(Upto(chs, k))
                   /\ \A i \in 1 .. k : chs[i].seq <= h(Upto(chs, k))
           T == {k \in 0 .. n : P(k)}
<1>1. F \in [Nat \X Changes -> Nat] /\ \A x \in Nat, y \in Changes : F[<<x, y>>] = Higher(x, y)
  BY ChangeSeq DEF Higher
<1> HIDE DEF F
<1>2. ASSUME NEW q \in Seq(Changes) PROVE Foldable(Nat, Changes, F, low, q)
  BY <1>1 DEF Foldable
<1>3. HighestSeq(chs, low) = h(chs)
  BY <1>1, HigherFolds DEF HighestSeq
<1>4. n \in Nat /\ Upto(chs, 0) = <<>> /\ Upto(chs, n) = chs
  BY PrefixIs
<1>5. h(Upto(chs, 0)) = low
  <2> DEFINE e == Upto(chs, 0)
  <2>1. e \in Seq(Changes) /\ Len(e) = 0
    <3>1. 0 \in 0 .. Len(chs)
      BY <1>4
    <3> QED BY <3>1, PrefixIs
  <2> HIDE DEF e
  <2>2. Foldable(Nat, Changes, F, low, e)
    BY <1>2, <2>1
  <2>3. Folded(Nat, F, low, e) = low
    BY <2>1, <2>2, FoldedNone
  <2> QED BY <2>3 DEF e
<1>6. 0 \in T
  BY <1>4, <1>5
<1> HIDE DEF n
<1>7. ASSUME NEW k \in 0 .. n - 1, k \in T PROVE k + 1 \in T
  <2>1. /\ k + 1 \in 0 .. n /\ Upto(chs, k + 1) = Append(Upto(chs, k), chs[k + 1])
        /\ chs[k + 1] \in Changes /\ Upto(chs, k) \in Seq(Changes)
    BY <1>4, PrefixIs DEF n
  <2>2. Foldable(Nat, Changes, F, low, Upto(chs, k))
    BY <1>2, <2>1
  <2>3. h(Upto(chs, k + 1)) = F[<<h(Upto(chs, k)), chs[k + 1]>>]
    <3> DEFINE q == Upto(chs, k)
    <3>1. Foldable(Nat, Changes, F, low, q)
      BY <2>2
    <3>2. Upto(chs, k + 1) = Append(q, chs[k + 1]) /\ chs[k + 1] \in Changes
      BY <2>1
    <3> HIDE DEF q
    <3>3. Folded(Nat, F, low, Append(q, chs[k + 1])) = F[<<Folded(Nat, F, low, q), chs[k + 1]>>]
      BY <3>1, <3>2, FoldedFacts
    <3> QED BY <3>2, <3>3 DEF q
  <2>4. P(k)
    BY <1>7
  <2> HIDE DEF h
  <2>5. h(Upto(chs, k + 1)) = IF chs[k + 1].seq > h(Upto(chs, k)) THEN chs[k + 1].seq
                              ELSE h(Upto(chs, k))
    BY <1>1, <2>1, <2>3, <2>4 DEF Higher
  <2>6. chs[k + 1].seq \in Nat
    BY <2>1, ChangeSeq
  <2>7. \A i \in 1 .. k + 1 : i \in 1 .. k \/ i = k + 1
    BY <2>1
  <2>8. \A i \in 1 .. k : chs[i] \in Changes /\ chs[i].seq \in Nat
    <3>1. \A i \in 1 .. k : i \in 1 .. Len(chs)
      BY <2>1, <1>4 DEF n
    <3> QED BY <3>1, ChangeSeq
  <2>9. h(Upto(chs, k + 1)) \in Nat /\ low <= h(Upto(chs, k + 1))
        /\ h(Upto(chs, k)) <= h(Upto(chs, k + 1)) /\ chs[k + 1].seq <= h(Upto(chs, k + 1))
    BY <2>4, <2>5, <2>6
  <2>10. ASSUME NEW i \in 1 .. k + 1 PROVE chs[i].seq <= h(Upto(chs, k + 1))
    <3>1. CASE i = k + 1
      BY <2>9, <3>1
    <3>2. CASE i \in 1 .. k
      BY <2>4, <2>8, <2>9, <3>2
    <3> QED BY <2>7, <3>1, <3>2
  <2> QED BY <2>1, <2>9, <2>10
<1>8. n \in T
  <2> HIDE DEF T
  <2> QED BY <1>4, <1>6, <1>7, CountUp
<1>9. P(n)
  BY <1>8
<1> QED BY <1>3, <1>4, <1>9, RangeIs DEF n

LEMMA InsertIs ==
    ASSUME NEW q \in Seq(Changes), Sorted(q), NEW ch \in Changes
    PROVE  /\ InsertBySeq(q, ch) \in Seq(Changes) /\ Sorted(InsertBySeq(q, ch))
           /\ Range(InsertBySeq(q, ch)) = Range(q) \cup {ch}
<1> DEFINE n == Len(q)
           T == {i \in DOMAIN q : q[i].seq <= ch.seq}
<1>1. n \in Nat /\ DOMAIN q = 1 .. n /\ \A i \in 1 .. n : q[i] \in Changes /\ q[i].seq \in Nat
  BY ChangeSeq
<1>2. ch.seq \in Nat
  BY ChangeSeq
<1>3. \E m \in 0 .. n : T = 1 .. m
  <2>1. CASE T = {}
    <3>1. 0 \in 0 .. n /\ 1 .. 0 = {}
      BY <1>1
    <3> QED BY <2>1, <3>1
  <2>2. CASE T # {}
    <3>1. T \in SUBSET (0 .. n)
      BY <1>1
    <3>2. PICK m \in T : \A i \in T : i <= m
      <4> HIDE DEF T, n
      <4> QED BY <1>1, <2>2, <3>1, LargestOf
    <3>3. m \in 1 .. n /\ q[m].seq <= ch.seq
      BY <1>1, <3>2
    <3>4. ASSUME NEW i \in 1 .. m PROVE i \in T
      <4>1. i \in 1 .. n /\ (i = m \/ i < m)
        BY <1>1, <3>3
      <4>2. q[i].seq <= q[m].seq
        BY <1>1, <3>3, <4>1 DEF Sorted
      <4>3. q[i].seq <= ch.seq
        BY <1>1, <1>2, <3>3, <4>1, <4>2
      <4> QED BY <1>1, <4>1, <4>3
    <3>5. \A i \in T : i \in 1 .. m
      BY <1>1, <3>2
    <3> HIDE DEF T
    <3>6. T = 1 .. m
      BY <3>4, <3>5
    <3> QED BY <1>1, <3>3, <3>6
  <2> QED BY <2>1, <2>2
<1> DEFINE k == Cardinality(T)
<1>4. k \in 0 .. n /\ T = 1 .. k
  <2>1. PICK m \in 0 .. n : T = 1 .. m
    BY <1>3
  <2>2. Cardinality(1 .. m) = m
    BY <1>1, <2>1, FS_Interval
  <2> HIDE DEF T
  <2> QED BY <2>1, <2>2
<1>5. InsertBySeq(q, ch) = (SubSeq(q, 1, (1 + k) - 1) \o <<ch>>) \o SubSeq(q, 1 + k, Len(q))
  BY DEF InsertBySeq, InsertAt
<1>6. /\ \A i \in 1 .. k : q[i].seq <= ch.seq
      /\ \A i \in 1 + k .. n : ch.seq <= q[i].seq
  <2>1. \A i \in 1 .. k : i \in T
    BY <1>4
  <2>2. \A i \in 1 + k .. n : i \in DOMAIN q /\ i \notin T
    <3> HIDE DEF T, k
    <3> QED BY <1>1, <1>4
  <2>3. \A i \in 1 + k .. n : ~(q[i].seq <= ch.seq) /\ q[i].seq \in Nat
    BY <1>1, <2>2
  <2> QED BY <1>2, <2>1, <2>3
<1> HIDE DEF T, k
<1> DEFINE a == SubSeq(q, 1, k)
           b == <<ch>>
           c == SubSeq(q, 1 + k, Len(q))
<1>7. InsertBySeq(q, ch) = (a \o b) \o c
  <2>1. (1 + k) - 1 = k
    BY <1>4
  <2> QED BY <1>5, <2>1
<1>8. /\ 1 \in 1 .. Len(q) + 1 /\ k \in 0 .. Len(q)
      /\ 1 + k \in 1 .. Len(q) + 1 /\ Len(q) \in 0 .. Len(q)
  BY <1>1, <1>4
<1>9. /\ a \in Seq(Changes) /\ Sorted(a) /\ Range(a) \subseteq Range(q)
      /\ \A i \in 1 .. k : q[i] \in Range(a)
      /\ \A z \in Range(a) : \E i \in 1 .. k : z = q[i]
  BY <1>8, SortedPart
<1>10. /\ c \in Seq(Changes) /\ Sorted(c) /\ Range(c) \subseteq Range(q)
       /\ \A i \in 1 + k .. Len(q) : q[i] \in Range(c)
       /\ \A z \in Range(c) : \E i \in 1 + k .. Len(q) : z = q[i]
  BY <1>8, SortedPart
<1>11. b \in Seq(Changes) /\ Sorted(b) /\ Range(b) = {ch}
  BY DEF Sorted, Range
<1> HIDE DEF a, b, c
<1>12. /\ \A u \in Range(a), v \in Range(b) : u.seq <= v.seq
  BY <1>6, <1>9, <1>11
<1>13. /\ a \o b \in Seq(Changes) /\ Sorted(a \o b) /\ Range(a \o b) = Range(a) \cup {ch}
  BY <1>9, <1>11, <1>12, ConcatIs, SortedConcat
<1>14. \A u \in Range(a \o b), v \in Range(c) : u.seq <= v.seq
  <2>1. ASSUME NEW u \in Range(a), NEW v \in Range(c) PROVE u.seq <= v.seq
    <3>1. u \in Changes /\ v \in Changes
      BY <1>9, <1>10, RangeIs
    <3>2. u.seq \in Nat /\ v.seq \in Nat /\ u.seq <= ch.seq /\ ch.seq <= v.seq
      BY <1>6, <1>9, <1>10, <3>1, ChangeSeq
    <3> QED BY <1>2, <3>2
  <2>2. \A v \in Range(c) : ch.seq <= v.seq
    BY <1>6, <1>10
  <2> QED BY <1>13, <2>1, <2>2
<1>15. /\ (a \o b) \o c \in Seq(Changes) /\ Sorted((a \o b) \o c)
       /\ Range((a \o b) \o c) = Range(a \o b) \cup Range(c)
  <2> DEFINE d == a \o b
  <2>1. d \in Seq(Changes) /\ Sorted(d) /\ \A u \in Range(d), v \in Range(c) : u.seq <= v.seq
    BY <1>13, <1>14
  <2> HIDE DEF d
  <2>2. d \o c \in Seq(Changes) /\ Sorted(d \o c) /\ Range(d \o c) = Range(d) \cup Range(c)
    BY <1>10, <2>1, ConcatIs, SortedConcat
  <2> QED BY <2>2 DEF d
<1>16. Range(q) \subseteq Range(a) \cup Range(c)
  <2>1. ASSUME NEW z \in Range(q) PROVE z \in Range(a) \cup Range(c)
    <3>1. PICK i \in 1 .. Len(q) : z = q[i]
      BY RangeIs
    <3>2. i \in 1 .. k \/ i \in 1 + k .. Len(q)
      BY <1>1, <1>4, <3>1
    <3> QED BY <1>9, <1>10, <3>1, <3>2
  <2> QED BY <2>1
<1> QED BY <1>7, <1>9, <1>10, <1>13, <1>15, <1>16

(* Sorting keeps every change and adds none. *)
LEMMA BySeqIs ==
    ASSUME NEW chs \in Seq(Changes)
    PROVE  /\ BySeq(chs) \in Seq(Changes) /\ Sorted(BySeq(chs))
           /\ Range(BySeq(chs)) = Range(chs)
<1> DEFINE X == {q \in Seq(Changes) : Sorted(q)}
           F == [p \in X \X Changes |-> InsertBySeq(p[1], p[2])]
           e == <<>>
           h(q) == Folded(X, F, e, q)
           n == Len(chs)
           T == {k \in 0 .. n : h(Upto(chs, k)) \in X /\ Range(h(Upto(chs, k))) = Range(Upto(chs, k))}
<1>1. F \in [X \X Changes -> X] /\ \A x \in X, y \in Changes : F[<<x, y>>] = InsertBySeq(x, y)
  BY InsertIs
<1>2. e \in X /\ Range(e) = {}
  BY NoneIs
<1> HIDE DEF F, X, e
<1>3. ASSUME NEW q \in Seq(Changes) PROVE Foldable(X, Changes, F, e, q)
  BY <1>1, <1>2 DEF Foldable
<1>4. BySeq(chs) = h(chs)
  <2>1. FoldLeft(InsertBySeq, e, chs) = Folded(X, F, e, chs)
    BY <1>1, <1>2, InsertFolds
  <2> QED BY <2>1 DEF BySeq, e
<1>5. n \in Nat /\ Upto(chs, n) = chs
  BY PrefixIs
<1>6. 0 \in T
  <2> DEFINE u == Upto(chs, 0)
  <2>1. u \in Seq(Changes) /\ Len(u) = 0 /\ u = <<>>
    <3>1. 0 \in 0 .. Len(chs)
      BY <1>5
    <3>2. u \in Seq(Changes) /\ Len(u) = 0
      BY <3>1, PrefixIs
    <3>3. u = <<>>
      BY PrefixIs
    <3> QED BY <3>2, <3>3
  <2>2. Range(u) = {}
    BY <2>1, NoneIs
  <2>3. u \in Seq(Changes) /\ Len(u) = 0
    BY <2>1
  <2> HIDE DEF u
  <2>4. Foldable(X, Changes, F, e, u)
    BY <1>3, <2>3
  <2>5. Folded(X, F, e, u) = e
    BY <2>3, <2>4, FoldedNone
  <2>6. h(Upto(chs, 0)) = e /\ Range(Upto(chs, 0)) = {}
    BY <2>2, <2>5 DEF u
  <2> HIDE DEF h
  <2>7. h(Upto(chs, 0)) \in X /\ Range(h(Upto(chs, 0))) = Range(Upto(chs, 0))
    BY <1>2, <2>6
  <2>8. 0 \in 0 .. n
    BY <1>5
  <2> QED BY <2>7, <2>8
<1> HIDE DEF n
<1>7. ASSUME NEW k \in 0 .. n - 1, k \in T PROVE k + 1 \in T
  <2> DEFINE q == Upto(chs, k)
             y == chs[k + 1]
  <2>1. k + 1 \in 0 .. n /\ Upto(chs, k + 1) = Append(q, y) /\ y \in Changes /\ q \in Seq(Changes)
    BY <1>5, PrefixIs DEF n
  <2>2. h(q) \in X /\ Range(h(q)) = Range(q)
    BY <1>7
  <2> HIDE DEF q, y
  <2>3. Foldable(X, Changes, F, e, q)
    BY <1>3, <2>1
  <2>4. h(Append(q, y)) = F[<<h(q), y>>]
    BY <2>1, <2>3, FoldedFacts
  <2> HIDE DEF h
  <2>5. h(Append(q, y)) = InsertBySeq(h(q), y)
    BY <1>1, <2>1, <2>2, <2>4
  <2>6. h(q) \in Seq(Changes) /\ Sorted(h(q))
    BY <2>2 DEF X
  <2>7. /\ h(Append(q, y)) \in Seq(Changes) /\ Sorted(h(Append(q, y)))
        /\ Range(h(Append(q, y))) = Range(h(q)) \cup {y}
    BY <2>1, <2>5, <2>6, InsertIs
  <2>8. Range(Append(q, y)) = Range(q) \cup {y}
    BY <2>1, AppendIs
  <2>9. h(Append(q, y)) \in X /\ Range(h(Append(q, y))) = Range(Append(q, y))
    BY <2>2, <2>7, <2>8 DEF X
  <2> QED BY <2>1, <2>9
<1>8. n \in T
  <2> HIDE DEF T
  <2> QED BY <1>5, <1>6, <1>7, CountUp
<1>9. h(chs) \in X /\ Range(h(chs)) = Range(chs)
  BY <1>5, <1>8
<1> QED BY <1>4, <1>9 DEF X

-----------------------------------------------------------------------------
(* What a batch adds to the feed: changes numbered above all there were    *)

Started(sv) == /\ sv.seq \in Nat /\ sv.log \in Seq(ChangesTo(sv.seq)) /\ sv.log # <<>>
               /\ Replays(sv.log, sv.rows) /\ Rising(sv.log)

Grown(sv, s) ==
    /\ Sorted(s.log) /\ Single(Range(s.log)) /\ Sorted(s.made)
    /\ Rising(s.log) /\ Rising(s.made)
    /\ Range(s.log) = Range(sv.log) \cup Range(s.made)
    /\ \A ch \in Range(s.made) : sv.seq < ch.seq
    /\ Len(sv.log) <= Len(s.log) /\ s.log[1] = sv.log[1]

Batch(sv, s) == WorkWell(s, sv.seq) /\ Grown(sv, s)
Adds(s, t) == Range(s.made) \subseteq Range(t.made) /\ (t.ok => s.ok)

LEMMA FirstIs == \A S : \A q \in Seq(S) : q # <<>> => Len(q) \in Nat /\ 1 \in 1 .. Len(q)
<1> SUFFICES ASSUME NEW S, NEW q \in Seq(S), q # <<>> PROVE Len(q) \in Nat /\ 1 \in 1 .. Len(q)
  OBVIOUS
<1>1. Len(q) \in Nat /\ (Len(q) = 0 => q = <<>>)
  OBVIOUS
<1> QED BY <1>1

LEMMA ToIs ==
    ASSUME NEW top \in Nat, NEW q \in Seq(ChangesTo(top))
    PROVE  /\ q \in Seq(Changes)
           /\ \A ch \in Range(q) : ch \in Changes /\ ch.seq \in Nat /\ ch.seq <= top
<1>1. \A ch \in ChangesTo(top) : ch \in Changes /\ ch.seq \in Nat /\ ch.seq <= top
  BY DEF ChangesTo
<1>2. Range(q) \subseteq ChangesTo(top)
  BY RangeIs
<1>3. ChangesTo(top) \subseteq Changes
  BY <1>1
<1>4. q \in Seq(Changes)
  BY <1>3, SeqGrows
<1> QED BY <1>1, <1>2, <1>4

LEMMA BatchBegins ==
    ASSUME NEW sv, Started(sv)
    PROVE  Batch(sv, Begun(sv))
<1>1. /\ sv.seq \in Nat /\ sv.log \in Seq(ChangesTo(sv.seq)) /\ sv.log # <<>>
      /\ sv.log \in Seq(Changes) /\ sv.rows \in Graphs
      /\ Sorted(sv.log) /\ Rising(sv.log) /\ Single(Range(sv.log))
      /\ ApplyChanges(Blank, sv.log) = sv.rows
  BY DEF Started, Replays
<1> DEFINE s == Begun(sv)
           e == s.made
<1>2. /\ s.rows = sv.rows /\ s.seq = sv.seq /\ s.log = sv.log /\ s.made = <<>> /\ s.ok = TRUE
      /\ s = [rows |-> s.rows, seq |-> s.seq, log |-> s.log, made |-> s.made, ok |-> s.ok]
  BY DEF Begun
<1>3. e \in Seq(Changes) /\ e \in Seq(ChangesTo(sv.seq)) /\ Range(e) = {}
      /\ Sorted(e) /\ Rising(e)
  <2>1. <<>> \in Seq(ChangesTo(sv.seq))
    OBVIOUS
  <2> QED BY <1>2, <2>1, NoneIs
<1>4. Len(sv.log) \in Nat
  BY <1>1
<1> HIDE DEF s
<1>5. s \in Works
  BY <1>1, <1>2, <1>3 DEF Works
<1>6. WorkWell(s, sv.seq)
  BY <1>1, <1>2, <1>3, <1>5 DEF WorkWell
<1>7. Grown(sv, s)
  BY <1>1, <1>2, <1>3, <1>4 DEF Grown
<1> QED BY <1>6, <1>7 DEF Batch, s

LEMMA LoggedGrows ==
    ASSUME NEW sv, Started(sv), NEW s, Batch(sv, s), NEW ch \in Changes
    PROVE  /\ Batch(sv, Logged(s, ch)) /\ Adds(s, Logged(s, ch))
           /\ [ch EXCEPT !.seq = s.seq + 1] \in Range(Logged(s, ch).made)
<1> DEFINE c == [ch EXCEPT !.seq = s.seq + 1]
           r == Logged(s, ch)
<1>1. /\ WorkWell(s, sv.seq) /\ s \in Works /\ s.seq \in Nat /\ s.seq >= sv.seq /\ sv.seq \in Nat
      /\ s.log \in Seq(ChangesTo(s.seq)) /\ s.made \in Seq(ChangesTo(s.seq))
  BY DEF Batch, WorkWell, Works, Started
<1>2. c \in Changes /\ c.seq = s.seq + 1
  <2>1. CASE ch \in NodeChanges
    BY <1>1, <2>1 DEF NodeChanges, Changes
  <2>2. CASE ch \in EdgeChanges
    BY <1>1, <2>2 DEF EdgeChanges, Changes
  <2> QED BY <2>1, <2>2 DEF Changes
<1>3. /\ r.log = Append(s.log, c) /\ r.made = Append(s.made, c) /\ r.ok = s.ok
  <2>1. s = [rows |-> s.rows, seq |-> s.seq, log |-> s.log, made |-> s.made, ok |-> s.ok]
    BY <1>1 DEF Works
  <2>2. r = [s EXCEPT !.seq = s.seq + 1, !.log = Append(s.log, c),
                      !.made = Append(s.made, c), !.rows = ApplyChange(s.rows, c)]
    BY DEF Logged
  <2> HIDE DEF r, c
  <2> QED BY <2>1, <2>2
<1>4. WorkWell(r, sv.seq)
  BY <1>1, LoggedWell
<1> HIDE DEF r, c
<1>5. /\ Sorted(s.log) /\ Single(Range(s.log)) /\ Sorted(s.made)
      /\ Rising(s.log) /\ Rising(s.made)
      /\ Range(s.log) = Range(sv.log) \cup Range(s.made)
      /\ \A o \in Range(s.made) : sv.seq < o.seq
      /\ Len(sv.log) <= Len(s.log) /\ s.log[1] = sv.log[1]
  BY DEF Batch, Grown
<1>6. /\ s.log \in Seq(Changes) /\ s.made \in Seq(Changes)
      /\ \A o \in Range(s.log) : o.seq \in Nat /\ o.seq <= s.seq
      /\ \A o \in Range(s.made) : o.seq \in Nat /\ o.seq <= s.seq
  BY <1>1, ToIs
<1>7. /\ Range(r.log) = Range(s.log) \cup {c} /\ Len(r.log) = Len(s.log) + 1
      /\ Range(r.made) = Range(s.made) \cup {c}
      /\ \A i \in 1 .. Len(s.log) : r.log[i] = s.log[i]
  BY <1>2, <1>3, <1>6, AppendIs
<1>8. /\ \A o \in Range(s.log) : o.seq <= c.seq /\ o.seq # c.seq /\ o.seq < c.seq
      /\ \A o \in Range(s.made) : o.seq <= c.seq /\ o.seq < c.seq
  BY <1>1, <1>2, <1>6
<1>9. Sorted(r.log) /\ Sorted(r.made) /\ Rising(r.log) /\ Rising(r.made)
  BY <1>2, <1>3, <1>5, <1>6, <1>8, SortedAppend, RisingAppend
<1>10. Single(Range(r.log))
  <2>1. ASSUME NEW a \in Range(r.log), NEW b \in Range(r.log), a.seq = b.seq PROVE a = b
    BY <1>5, <1>7, <1>8, <2>1 DEF Single
  <2> QED BY <2>1 DEF Single
<1>11. Len(sv.log) <= Len(r.log) /\ r.log[1] = sv.log[1]
  <2>1. sv.log \in Seq(ChangesTo(sv.seq)) /\ sv.log # <<>>
    BY DEF Started
  <2>2. Len(sv.log) \in Nat /\ 1 \in 1 .. Len(sv.log) /\ Len(s.log) \in Nat
    BY <1>6, <2>1, FirstIs
  <2>3. 1 \in 1 .. Len(s.log)
    BY <1>5, <2>2
  <2> QED BY <1>5, <1>7, <2>2, <2>3
<1>12. sv.seq < c.seq
  BY <1>1, <1>2
<1>13. Grown(sv, r)
  BY <1>5, <1>7, <1>9, <1>10, <1>11, <1>12 DEF Grown
<1> QED BY <1>3, <1>4, <1>7, <1>13 DEF Batch, Adds, r, c

LEMMA SpendsGrows ==
    ASSUME NEW sv, Started(sv), NEW s, Batch(sv, s)
    PROVE  Batch(sv, Spends(s)) /\ Adds(s, Spends(s))
<1>1. WorkWell(s, sv.seq) /\ s \in Works /\ sv.seq \in Nat
  BY DEF Batch, WorkWell, Started
<1>2. Spends(s).log = s.log /\ Spends(s).made = s.made /\ Spends(s).ok = s.ok
  BY <1>1 DEF Spends, Works
<1>3. WorkWell(Spends(s), sv.seq)
  BY <1>1, SpendsWell
<1> QED BY <1>2, <1>3 DEF Batch, Grown, Adds

LEMMA RefusedGrows ==
    ASSUME NEW sv, Started(sv), NEW s, Batch(sv, s)
    PROVE  Batch(sv, Refused(s)) /\ Adds(s, Refused(s)) /\ ~Refused(s).ok
<1>1. WorkWell(s, sv.seq) /\ s \in Works /\ sv.seq \in Nat
  BY DEF Batch, WorkWell, Started
<1>2. Refused(s).log = s.log /\ Refused(s).made = s.made /\ Refused(s).ok = FALSE
  BY <1>1 DEF Refused, Works
<1>3. WorkWell(Refused(s), sv.seq)
  BY <1>1, RefusedWell
<1> QED BY <1>2, <1>3 DEF Batch, Grown, Adds

LEMMA CascadeGrows ==
    ASSUME NEW sv, Started(sv), NEW s, Batch(sv, s), NEW S \in SUBSET Links
    PROVE  /\ Batch(sv, FoldLeft(LogCut, s, SetToSeq(S)))
           /\ Adds(s, FoldLeft(LogCut, s, SetToSeq(S)))
<1> DEFINE X == {t \in Works : Batch(sv, t) /\ Adds(s, t)}
           F == [p \in X \X Links |-> LogCut(p[1], p[2])]
           q == SetToSeq(S)
<1>1. ASSUME NEW t \in X, NEW e \in Links PROVE LogCut(t, e) \in X
  <2>1. Batch(sv, t) /\ Adds(s, t) /\ CutEdge(0, e) \in Changes
    BY SetEdgeWell
  <2>2. Batch(sv, LogCut(t, e)) /\ Adds(t, LogCut(t, e))
    BY <2>1, LoggedGrows DEF LogCut
  <2> QED BY <2>1, <2>2 DEF Batch, WorkWell, Adds
<1>2. F \in [X \X Links -> X] /\ \A t \in X, e \in Links : F[<<t, e>>] = LogCut(t, e)
  BY <1>1
<1>3. q \in Seq(Links)
  <2>1. q \in Seq(S)
    BY LinksFinite, SetToSeqWell
  <2> HIDE DEF q
  <2> QED BY <2>1, SeqGrows
<1>4. s \in X
  BY DEF Batch, WorkWell, Adds
<1> HIDE DEF X, F, q
<1>5. Foldable(X, Links, F, s, q)
  BY <1>2, <1>3, <1>4 DEF Foldable
<1>6. Folded(X, F, s, q) \in X
  BY <1>5, FoldedFacts
<1>7. FoldLeft(LogCut, s, q) = Folded(X, F, s, q)
  BY <1>2, <1>3, <1>4, LogCutFolds
<1> QED BY <1>6, <1>7 DEF X, q

(* What no change of the batch touches is as it was.                       *)
LEMMA UntouchedStays ==
    ASSUME NEW sv, Started(sv), NEW s, Batch(sv, s), NEW x \in Things, Untouched(s.made, x)
    PROVE  /\ Has(s.rows, x) = Has(sv.rows, x)
           /\ \A ch : Latest(Range(s.log), ch, x) <=> Latest(Range(sv.log), ch, x)
<1>1. Replays(sv.log, sv.rows)
  BY DEF Started
<1>2. Replays(s.log, s.rows)
  <2>1. s.log \in Seq(ChangesTo(s.seq)) /\ s.seq \in Nat /\ s.rows \in Graphs
    BY DEF Batch, WorkWell, Works
  <2>2. s.log \in Seq(Changes)
    BY <2>1, ToIs
  <2> QED BY <2>1, <2>2 DEF Batch, WorkWell, Grown, Replays
<1>3. /\ Range(s.log) = Range(sv.log) \cup Range(s.made)
      /\ \A ch \in Range(s.made) : ~Touches(ch, x)
  BY DEF Batch, Grown, Untouched
<1>4. ASSUME NEW ch PROVE Latest(Range(s.log), ch, x) <=> Latest(Range(sv.log), ch, x)
  BY <1>3 DEF Latest
<1>5. CASE Untouched(sv.log, x)
  <2>1. Untouched(s.log, x)
    BY <1>3, <1>5 DEF Untouched
  <2> QED BY <1>1, <1>2, <1>4, <1>5, <2>1, RowsShow
<1>6. CASE \E ch : Latest(Range(sv.log), ch, x)
  <2>1. PICK ch : Latest(Range(sv.log), ch, x)
    BY <1>6
  <2>2. Latest(Range(s.log), ch, x)
    BY <1>4, <2>1
  <2>3. Has(sv.rows, x) = Leaves(ch, x) /\ Has(s.rows, x) = Leaves(ch, x)
    BY <1>1, <1>2, <2>1, <2>2, RowsShow
  <2> QED BY <1>4, <2>3
<1> QED BY <1>1, <1>5, <1>6, RowsShow

(* An operation meant to create what is not there, or to delete what is    *)
(* there as it is.                                                         *)
Creates(op, x) == /\ op.id = x.id
                  /\ op.kind = IF x.kind = "node" THEN "node.create" ELSE "edge.create"
Deletes(op, x, g) == /\ op.id = x.id
                     /\ op.kind = IF x.kind = "node" THEN "node.delete" ELSE "edge.delete"
                     /\ x.kind = "node" => op.rev = g.nodes[x.id].rev
Wants(op, x, g) == \/ Has(g, x) = <<>> /\ Creates(op, x)
                   \/ Has(g, x) # <<>> /\ Deletes(op, x, g)

LEMMA StampTouches ==
    ASSUME NEW x \in Things, NEW k
    PROVE  /\ \A c, n : x.kind = "node" /\ x.id = c =>
                 Touches([SetNode(0, c, n) EXCEPT !.seq = k], x)
           /\ \A c : x.kind = "node" /\ x.id = c => Touches([CutNode(0, c) EXCEPT !.seq = k], x)
           /\ \A e : x.kind = "edge" /\ x.id = e =>
                 /\ Touches([SetEdge(0, e) EXCEPT !.seq = k], x)
                 /\ Touches([CutEdge(0, e) EXCEPT !.seq = k], x)
BY DEF Touches, SetNode, CutNode, SetEdge, CutEdge

(* An operation of a batch that is not refused either finds its thing      *)
(* touched by the batch before it, or touches it.                          *)
Acts(sv, s, op, t) ==
    /\ Batch(sv, t) /\ Adds(s, t)
    /\ \A x \in Things : Wants(op, x, sv.rows) /\ t.ok => ~Untouched(t.made, x)

LEMMA TouchedStays ==
    ASSUME NEW s, NEW t, Adds(s, t), NEW x, ~Untouched(s.made, x)
    PROVE  ~Untouched(t.made, x)
BY DEF Adds, Untouched

LEMMA TouchedIs ==
    ASSUME NEW chs, NEW ch, ch \in Range(chs), NEW x, Touches(ch, x)
    PROVE  ~Untouched(chs, x)
BY DEF Untouched

LEMMA CreateNodeActs ==
    ASSUME NEW sv, Started(sv), NEW s, Batch(sv, s), NEW op \in CreateNodes
    PROVE  Acts(sv, s, op, CreateNode(s, op))
<1> DEFINE n == [op.node EXCEPT !.rev = 1]
           ch == SetNode(0, op.id, n)
<1>1. op.kind = "node.create" /\ op.id \in Cards /\ n \in NodeRecs
  BY DEF CreateNodes, NodeRecs
<1>2. CASE op.id \in DOMAIN s.rows.nodes
  <2>1. CreateNode(s, op) = Refused(s)
    BY <1>2 DEF CreateNode
  <2>2. Batch(sv, Refused(s)) /\ Adds(s, Refused(s)) /\ ~Refused(s).ok
    BY RefusedGrows
  <2> QED BY <2>1, <2>2 DEF Acts
<1>3. CASE op.id \notin DOMAIN s.rows.nodes
  <2> DEFINE t == Logged(s, ch)
  <2>1. CreateNode(s, op) = t
    BY <1>3 DEF CreateNode
  <2>2. ch \in Changes
    BY <1>1, SetNodeWell
  <2>3. Batch(sv, t) /\ Adds(s, t) /\ [ch EXCEPT !.seq = s.seq + 1] \in Range(t.made)
    <3> HIDE DEF ch
    <3> QED BY <2>2, LoggedGrows
  <2> HIDE DEF t
  <2>4. ASSUME NEW x \in Things, Wants(op, x, sv.rows) PROVE ~Untouched(t.made, x)
    <3>1. x.kind = "node" /\ x.id = op.id
      BY <1>1, <2>4, ThingIs DEF Wants, Creates, Deletes
    <3>2. Touches([ch EXCEPT !.seq = s.seq + 1], x)
      <4> HIDE DEF n
      <4> QED BY <3>1, StampTouches
    <3> HIDE DEF ch
    <3> QED BY <2>3, <3>2, TouchedIs
  <2> HIDE DEF ch, n
  <2> QED BY <2>1, <2>3, <2>4 DEF Acts
<1> QED BY <1>2, <1>3

LEMMA UpdateNodeActs ==
    ASSUME NEW sv, Started(sv), NEW s, Batch(sv, s), NEW op \in UpdateNodes
    PROVE  Acts(sv, s, op, UpdateNode(s, op))
<1>1. op.kind = "node.update" /\ op.id \in Cards
  BY DEF UpdateNodes
<1>2. \A x \in Things : ~Wants(op, x, sv.rows)
  BY <1>1, ThingIs DEF Wants, Creates, Deletes
<1>3. CASE ~Holds(s, op)
  <2>1. UpdateNode(s, op) = Spends(s)
    BY <1>3 DEF UpdateNode
  <2>2. Batch(sv, Spends(s)) /\ Adds(s, Spends(s))
    BY SpendsGrows
  <2> QED BY <1>2, <2>1, <2>2 DEF Acts
<1>4. CASE Holds(s, op)
  <2> DEFINE row == s.rows.nodes[op.id]
             n == [f \in DOMAIN row |-> IF f = "rev" THEN row.rev + 1
                                        ELSE IF f \in op.fields THEN op.node[f] ELSE row[f]]
             t == Logged(s, SetNode(0, op.id, n))
  <2>1. UpdateNode(s, op) = t
    BY <1>4 DEF UpdateNode
  <2>2. row \in NodeRecs
    BY <1>4, HeldRow DEF Holds, Batch, WorkWell
  <2>3. op.node \in NodeRecs /\ op.fields \in SUBSET {"pos", "text"}
    BY DEF UpdateNodes
  <2>4. n \in NodeRecs
    <3> HIDE DEF row
    <3> QED BY <2>2, <2>3, PatchedWell
  <2> HIDE DEF n
  <2>5. SetNode(0, op.id, n) \in Changes
    BY <1>1, <2>4, SetNodeWell
  <2>6. Batch(sv, t) /\ Adds(s, t)
    BY <2>5, LoggedGrows
  <2> HIDE DEF t
  <2> QED BY <1>2, <2>1, <2>6 DEF Acts
<1> QED BY <1>3, <1>4

LEMMA DeleteNodeActs ==
    ASSUME NEW sv, Started(sv), NEW s, Batch(sv, s), NEW op \in DeleteNodes
    PROVE  Acts(sv, s, op, DeleteNode(s, op))
<1>1. op.kind = "node.delete" /\ op.id \in Cards
  BY DEF DeleteNodes
<1>2. ASSUME NEW x \in Things, Wants(op, x, sv.rows)
      PROVE  /\ x.kind = "node" /\ x.id = op.id /\ Has(sv.rows, x) # <<>>
             /\ op.rev = sv.rows.nodes[x.id].rev
  BY <1>1, <1>2, ThingIs DEF Wants, Creates, Deletes
<1>3. CASE ~Holds(s, op)
  <2>1. DeleteNode(s, op) = s
    BY <1>3 DEF DeleteNode
  <2>2. ASSUME NEW x \in Things, Wants(op, x, sv.rows), Untouched(s.made, x) PROVE FALSE
    <3>1. Has(s.rows, x) = Has(sv.rows, x)
      BY <2>2, UntouchedStays
    <3>2. /\ x.kind = "node" /\ x.id = op.id /\ Has(sv.rows, x) # <<>>
          /\ op.rev = sv.rows.nodes[x.id].rev
      BY <1>2, <2>2
    <3>3. /\ Has(sv.rows, x) = <<sv.rows.nodes[op.id]>>
          /\ op.id \in DOMAIN s.rows.nodes /\ Has(s.rows, x) = <<s.rows.nodes[op.id]>>
      BY <3>1, <3>2 DEF Has
    <3>4. s.rows.nodes[op.id] = sv.rows.nodes[op.id]
      BY <3>1, <3>3, OneOf
    <3> QED BY <1>3, <3>2, <3>3, <3>4 DEF Holds
  <2> QED BY <2>1, <2>2 DEF Acts, Adds
<1>4. CASE Holds(s, op)
  <2> DEFINE S == {e \in s.rows.edges : op.id \in {e[1], e[2]}}
             u == FoldLeft(LogCut, s, SetToSeq(S))
             ch == CutNode(0, op.id)
             t == Logged(u, ch)
  <2>1. DeleteNode(s, op) = t
    BY <1>4 DEF DeleteNode
  <2>2. S \in SUBSET Links
    BY DEF Batch, WorkWell, Works, Graphs
  <2>3. Batch(sv, u) /\ Adds(s, u)
    <3> HIDE DEF S
    <3> QED BY <2>2, CascadeGrows
  <2> HIDE DEF u
  <2>4. ch \in Changes
    BY <1>1 DEF CutNode, Changes, NodeChanges
  <2>5. Batch(sv, t) /\ Adds(u, t) /\ [ch EXCEPT !.seq = u.seq + 1] \in Range(t.made)
    <3> HIDE DEF ch
    <3> QED BY <2>3, <2>4, LoggedGrows
  <2> HIDE DEF t
  <2>6. ASSUME NEW x \in Things, Wants(op, x, sv.rows) PROVE ~Untouched(t.made, x)
    <3>1. x.kind = "node" /\ x.id = op.id
      BY <1>2, <2>6
    <3>2. Touches([ch EXCEPT !.seq = u.seq + 1], x)
      BY <3>1, StampTouches
    <3> HIDE DEF ch
    <3> QED BY <2>5, <3>2, TouchedIs
  <2> HIDE DEF ch
  <2> QED BY <2>1, <2>3, <2>5, <2>6 DEF Acts, Adds
<1> QED BY <1>3, <1>4

LEMMA CreateEdgeActs ==
    ASSUME NEW sv, Started(sv), NEW s, Batch(sv, s), NEW op \in CreateEdges
    PROVE  Acts(sv, s, op, CreateEdge(s, op))
<1>1. op.kind = "edge.create" /\ op.id \in Links
  BY DEF CreateEdges
<1>2. ASSUME NEW x \in Things, Wants(op, x, sv.rows)
      PROVE  x.kind = "edge" /\ x.id = op.id /\ Has(sv.rows, x) = <<>>
  BY <1>1, <1>2, ThingIs DEF Wants, Creates, Deletes
<1>3. CASE CreateEdge(s, op) = Refused(s)
  <2>1. Batch(sv, Refused(s)) /\ Adds(s, Refused(s)) /\ ~Refused(s).ok
    BY RefusedGrows
  <2> QED BY <1>3, <2>1 DEF Acts
<1>4. CASE op.id \in s.rows.edges /\ CreateEdge(s, op) = Spends(s)
  <2>1. Batch(sv, Spends(s)) /\ Adds(s, Spends(s))
    BY SpendsGrows
  <2>2. ASSUME NEW x \in Things, Wants(op, x, sv.rows) PROVE ~Untouched(Spends(s).made, x)
    <3>1. x.kind = "edge" /\ x.id = op.id /\ Has(sv.rows, x) = <<>>
      BY <1>2, <2>2
    <3>2. Has(s.rows, x) = <<TRUE>>
      BY <1>4, <3>1 DEF Has
    <3>3. Has(s.rows, x) # Has(sv.rows, x)
      BY <3>1, <3>2, OneOf
    <3>4. ~Untouched(s.made, x)
      BY <3>3, UntouchedStays
    <3> QED BY <2>1, <3>4, TouchedStays
  <2> QED BY <1>4, <2>1, <2>2 DEF Acts
<1>5. CASE CreateEdge(s, op) = Logged(s, SetEdge(0, op.id))
  <2> DEFINE ch == SetEdge(0, op.id)
             t == Logged(s, ch)
  <2>1. ch \in Changes
    BY <1>1, SetEdgeWell
  <2>2. Batch(sv, t) /\ Adds(s, t) /\ [ch EXCEPT !.seq = s.seq + 1] \in Range(t.made)
    <3> HIDE DEF ch
    <3> QED BY <2>1, LoggedGrows
  <2>3. CreateEdge(s, op) = t
    BY <1>5
  <2> HIDE DEF t
  <2>4. ASSUME NEW x \in Things, Wants(op, x, sv.rows) PROVE ~Untouched(t.made, x)
    <3>1. Touches([ch EXCEPT !.seq = s.seq + 1], x)
      BY <1>2, <2>4, StampTouches
    <3> HIDE DEF ch
    <3> QED BY <2>2, <3>1, TouchedIs
  <2> HIDE DEF ch
  <2> QED BY <2>2, <2>3, <2>4 DEF Acts
<1> QED BY <1>3, <1>4, <1>5 DEF CreateEdge

LEMMA DeleteEdgeActs ==
    ASSUME NEW sv, Started(sv), NEW s, Batch(sv, s), NEW op \in DeleteEdges
    PROVE  Acts(sv, s, op, DeleteEdge(s, op))
<1>1. op.kind = "edge.delete" /\ op.id \in Links
  BY DEF DeleteEdges
<1>2. ASSUME NEW x \in Things, Wants(op, x, sv.rows)
      PROVE  x.kind = "edge" /\ x.id = op.id /\ Has(sv.rows, x) # <<>>
  BY <1>1, <1>2, ThingIs DEF Wants, Creates, Deletes
<1>3. CASE op.id \notin s.rows.edges
  <2>1. DeleteEdge(s, op) = s
    BY <1>3 DEF DeleteEdge
  <2>2. ASSUME NEW x \in Things, Wants(op, x, sv.rows) PROVE ~Untouched(s.made, x)
    <3>1. x.kind = "edge" /\ x.id = op.id /\ Has(sv.rows, x) # <<>>
      BY <1>2, <2>2
    <3>2. Has(s.rows, x) = <<>>
      BY <1>3, <3>1 DEF Has
    <3> QED BY <3>1, <3>2, UntouchedStays
  <2> QED BY <2>1, <2>2 DEF Acts, Adds
<1>4. CASE op.id \in s.rows.edges
  <2> DEFINE ch == CutEdge(0, op.id)
             t == Logged(s, ch)
  <2>1. ch \in Changes
    BY <1>1, SetEdgeWell
  <2>2. Batch(sv, t) /\ Adds(s, t) /\ [ch EXCEPT !.seq = s.seq + 1] \in Range(t.made)
    <3> HIDE DEF ch
    <3> QED BY <2>1, LoggedGrows
  <2>3. DeleteEdge(s, op) = t
    BY <1>4 DEF DeleteEdge
  <2> HIDE DEF t
  <2>4. ASSUME NEW x \in Things, Wants(op, x, sv.rows) PROVE ~Untouched(t.made, x)
    <3>1. Touches([ch EXCEPT !.seq = s.seq + 1], x)
      BY <1>2, <2>4, StampTouches
    <3> HIDE DEF ch
    <3> QED BY <2>2, <3>1, TouchedIs
  <2> HIDE DEF ch
  <2> QED BY <2>2, <2>3, <2>4 DEF Acts
<1> QED BY <1>3, <1>4

LEMMA ApplyOpActs ==
    ASSUME NEW sv, Started(sv), NEW s, Batch(sv, s), NEW op \in Ops
    PROVE  Acts(sv, s, op, ApplyOp(s, op))
<1>1. CASE ~s.ok
  <2>1. ApplyOp(s, op) = s
    BY <1>1 DEF ApplyOp
  <2> QED BY <1>1, <2>1 DEF Acts, Adds
<1>2. CASE s.ok
  <2>1. CASE op.kind = "node.create" /\ op \in CreateNodes
    <3>1. ApplyOp(s, op) = CreateNode(s, op)
      BY <1>2, <2>1 DEF ApplyOp
    <3> QED BY <2>1, <3>1, CreateNodeActs
  <2>2. CASE op.kind = "node.update" /\ op \in UpdateNodes
    <3>1. ApplyOp(s, op) = UpdateNode(s, op)
      BY <1>2, <2>2 DEF ApplyOp
    <3> QED BY <2>2, <3>1, UpdateNodeActs
  <2>3. CASE op.kind = "node.delete" /\ op \in DeleteNodes
    <3>1. ApplyOp(s, op) = DeleteNode(s, op)
      BY <1>2, <2>3 DEF ApplyOp
    <3> QED BY <2>3, <3>1, DeleteNodeActs
  <2>4. CASE op.kind = "edge.create" /\ op \in CreateEdges
    <3>1. ApplyOp(s, op) = CreateEdge(s, op)
      BY <1>2, <2>4 DEF ApplyOp
    <3> QED BY <2>4, <3>1, CreateEdgeActs
  <2>5. CASE op.kind = "edge.delete" /\ op \in DeleteEdges
    <3>1. ApplyOp(s, op) = DeleteEdge(s, op)
      BY <1>2, <2>5 DEF ApplyOp
    <3> QED BY <2>5, <3>1, DeleteEdgeActs
  <2> QED BY <2>1, <2>2, <2>3, <2>4, <2>5, OpCases
<1> QED BY <1>1, <1>2

(* A batch that was not refused has touched all it was meant to create or  *)
(* delete.                                                                 *)
LEMMA ApplyOpsAct ==
    ASSUME NEW sv, Started(sv), NEW ops \in Seq(Ops)
    PROVE  /\ Batch(sv, ApplyOps(sv, ops))
           /\ ApplyOps(sv, ops).ok =>
                 \A op \in Range(ops), x \in Things :
                    Wants(op, x, sv.rows) => ~Untouched(ApplyOps(sv, ops).made, x)
<1> DEFINE X == {t \in Works : Batch(sv, t)}
           F == [p \in X \X Ops |-> ApplyOp(p[1], p[2])]
           b == Begun(sv)
           h(q) == Folded(X, F, b, q)
           n == Len(ops)
           P(k) == LET t == h(Upto(ops, k)) IN
                   /\ t \in X
                   /\ t.ok => \A i \in 1 .. k : \A x \in Things :
                                 Wants(ops[i], x, sv.rows) => ~Untouched(t.made, x)
           T == {k \in 0 .. n : P(k)}
<1>1. ASSUME NEW t \in X, NEW op \in Ops PROVE ApplyOp(t, op) \in X
  <2>1. Acts(sv, t, op, ApplyOp(t, op))
    BY ApplyOpActs
  <2> QED BY <2>1 DEF Acts, Batch, WorkWell
<1>2. F \in [X \X Ops -> X] /\ \A t \in X, op \in Ops : F[<<t, op>>] = ApplyOp(t, op)
  BY <1>1
<1>3. b \in X
  BY BatchBegins DEF Batch, WorkWell
<1>4. ApplyOps(sv, ops) = FoldLeft(ApplyOp, b, ops)
  BY DEF ApplyOps
<1> HIDE DEF X, F, b
<1>5. ASSUME NEW q \in Seq(Ops) PROVE Foldable(X, Ops, F, b, q)
  BY <1>2, <1>3 DEF Foldable
<1>6. FoldLeft(ApplyOp, b, ops) = h(ops)
  BY <1>2, <1>3, ApplyOpFolds
<1>7. n \in Nat /\ Upto(ops, n) = ops
  BY PrefixIs
<1>8. 0 \in T
  <2> DEFINE u == Upto(ops, 0)
  <2>1. 0 \in 0 .. Len(ops)
    BY <1>7
  <2>2. u \in Seq(Ops) /\ Len(u) = 0
    BY <2>1, PrefixIs
  <2> HIDE DEF u
  <2>3. Foldable(X, Ops, F, b, u)
    BY <1>5, <2>2
  <2>4. Folded(X, F, b, u) = b
    BY <2>2, <2>3, FoldedNone
  <2>5. h(Upto(ops, 0)) = b
    BY <2>4 DEF u
  <2> HIDE DEF h
  <2> QED BY <1>3, <2>1, <2>5
<1> HIDE DEF n
<1>9. ASSUME NEW k \in 0 .. n - 1, k \in T PROVE k + 1 \in T
  <2> DEFINE q == Upto(ops, k)
             y == ops[k + 1]
  <2>1. k + 1 \in 0 .. n /\ Upto(ops, k + 1) = Append(q, y) /\ y \in Ops /\ q \in Seq(Ops)
    BY <1>7, PrefixIs DEF n
  <2>2. P(k)
    BY <1>9
  <2> HIDE DEF q
  <2>3. Foldable(X, Ops, F, b, q)
    BY <1>5, <2>1
  <2>4. h(Append(q, y)) = F[<<h(q), y>>]
    BY <2>1, <2>3, FoldedFacts
  <2>5. /\ h(q) \in X
        /\ h(q).ok => \A i \in 1 .. k : \A x \in Things :
                         Wants(ops[i], x, sv.rows) => ~Untouched(h(q).made, x)
    BY <2>2 DEF q
  <2> DEFINE t == h(Append(q, y))
             s == h(q)
  <2>6. t = ApplyOp(s, y)
    <3> HIDE DEF h
    <3> QED BY <1>2, <2>1, <2>4, <2>5
  <2>7. Batch(sv, s)
    BY <2>5 DEF X
  <2> HIDE DEF h, s, t
  <2>8. Acts(sv, s, y, t)
    BY <2>1, <2>6, <2>7, ApplyOpActs
  <2>9. t \in X
    BY <2>8 DEF Acts, Batch, WorkWell, X
  <2>10. ASSUME t.ok, NEW i \in 1 .. k + 1, NEW x \in Things, Wants(ops[i], x, sv.rows)
         PROVE  ~Untouched(t.made, x)
    <3>1. CASE i = k + 1
      BY <2>8, <2>10, <3>1 DEF Acts
    <3>2. CASE i \in 1 .. k
      <4>1. s.ok /\ Adds(s, t)
        BY <2>8, <2>10 DEF Acts, Adds
      <4>2. ~Untouched(s.made, x)
        BY <2>5, <2>10, <3>2, <4>1 DEF s
      <4> QED BY <4>1, <4>2, TouchedStays
    <3> QED BY <2>1, <3>1, <3>2
  <2>11. P(k + 1)
    BY <2>1, <2>9, <2>10 DEF t
  <2> QED BY <2>1, <2>11
<1>10. n \in T
  <2> HIDE DEF T
  <2> QED BY <1>7, <1>8, <1>9, CountUp
<1>11. P(n)
  BY <1>10
<1> DEFINE r == ApplyOps(sv, ops)
<1>12. /\ r \in X
       /\ r.ok => \A i \in 1 .. n : \A x \in Things :
                     Wants(ops[i], x, sv.rows) => ~Untouched(r.made, x)
  BY <1>4, <1>6, <1>7, <1>11
<1> HIDE DEF r
<1>13. Batch(sv, r)
  BY <1>12 DEF X
<1>14. ASSUME r.ok, NEW op \in Range(ops), NEW x \in Things, Wants(op, x, sv.rows)
       PROVE  ~Untouched(r.made, x)
  <2>1. PICK i \in 1 .. n : op = ops[i]
    BY RangeIs DEF n
  <2> QED BY <1>12, <1>14, <2>1
<1> QED BY <1>13, <1>14 DEF r

-----------------------------------------------------------------------------
(* What a diff asks for: all that the one graph has and the other has not  *)

LEMMA SetToSeqAll ==
    ASSUME NEW S, IsFiniteSet(S)
    PROVE  Range(SetToSeq(S)) = S
<1> DEFINE n == Cardinality(S)
           f == SetToSeq(S)
<1>1. n \in Nat /\ ExistsBijection(1 .. n, S)
  BY FS_CardinalityType
<1>2. \E g \in [1 .. n -> S] : IsInjective(g)
  BY <1>1 DEF ExistsBijection, Bijection, Injection
<1>3. f \in [1 .. n -> S] /\ IsInjective(f)
  BY <1>2 DEF SetToSeq
<1> HIDE DEF f
<1>4. f \in Injection(1 .. n, S)
  BY <1>3 DEF Injection
<1>5. IsFiniteSet(1 .. n) /\ Cardinality(1 .. n) = n
  BY <1>1, FS_Interval
<1>6. f \in Surjection(1 .. n, S)
  BY <1>4, <1>5, FS_Injection
<1>7. \A y \in S : \E i \in 1 .. n : f[i] = y
  BY <1>6 DEF Surjection
<1>8. Range(f) = S
  BY <1>3, <1>7 DEF Range
<1> QED BY <1>8 DEF f

LEMMA PartAll ==
    ASSUME NEW C, IsFiniteSet(C), NEW T, NEW f \in Surjection(C, T), NEW D, T \subseteq D
    PROVE  SetToSeq(T) \in Seq(D) /\ Range(SetToSeq(T)) = T
BY ImageFinite, PartWell, SetToSeqAll

Planned(ops, g, next, x) ==
    (Has(g, x) = <<>>) # (Has(next, x) = <<>>) => \E op \in Range(ops) : Wants(op, x, g)

LEMMA DiffPlans ==
    ASSUME NEW base \in Graphs, NEW next \in Graphs, NEW x \in Things
    PROVE  Planned(DiffGraph(base, next), base, next, x)
<1> DEFINE old   == DOMAIN base.nodes
           new   == DOMAIN next.nodes
           moved == {c \in old \cap new :
                        Fields(base.nodes[c], next.nodes[c]) # {}}
           create(c) == [kind |-> "node.create", id |-> c, node |-> next.nodes[c]]
           link(e)   == [kind |-> "edge.create", id |-> e]
           update(c) == [kind |-> "node.update", id |-> c,
                         rev |-> base.nodes[c].rev, node |-> next.nodes[c],
                         fields |-> Fields(base.nodes[c], next.nodes[c])]
           unlink(e) == [kind |-> "edge.delete", id |-> e]
           remove(c) == [kind |-> "node.delete", id |-> c, rev |-> base.nodes[c].rev]
           A == {create(c) : c \in new \ old}
           B == {link(e) : e \in next.edges \ base.edges}
           M == {update(c) : c \in moved}
           E == {unlink(e) : e \in base.edges \ next.edges}
           R == {remove(c) : c \in old \ new}
           D == A \cup B \cup M \cup E \cup R
<1>1. old \in SUBSET Cards /\ new \in SUBSET Cards
  <2>1. base.nodes \in NodeMaps /\ next.nodes \in NodeMaps
    BY DEF Graphs
  <2> QED BY <2>1, NodeMapIs
<1>2. base.edges \in SUBSET Links /\ next.edges \in SUBSET Links
  BY DEF Graphs
<1>3. SetToSeq(A) \in Seq(D) /\ Range(SetToSeq(A)) = A
  <2> DEFINE C == new \ old
             f == [c \in C |-> create(c)]
  <2>1. IsFiniteSet(C) /\ A \subseteq D
    BY <1>1, CardsFinite
  <2>2. f \in Surjection(C, A)
    BY DEF Surjection
  <2> HIDE DEF C, A, D, f
  <2> QED BY <2>1, <2>2, PartAll
<1>4. SetToSeq(B) \in Seq(D) /\ Range(SetToSeq(B)) = B
  <2> DEFINE C == next.edges \ base.edges
             f == [c \in C |-> link(c)]
  <2>1. IsFiniteSet(C) /\ B \subseteq D
    BY <1>2, LinksFinite
  <2>2. f \in Surjection(C, B)
    BY DEF Surjection
  <2> HIDE DEF C, B, D, f
  <2> QED BY <2>1, <2>2, PartAll
<1>5. SetToSeq(M) \in Seq(D)
  <2> DEFINE C == moved
             f == [c \in C |-> update(c)]
  <2>1. IsFiniteSet(C) /\ M \subseteq D
    BY <1>1, CardsFinite
  <2>2. f \in Surjection(C, M)
    BY DEF Surjection
  <2> HIDE DEF C, M, D, f
  <2> QED BY <2>1, <2>2, PartAll
<1>6. SetToSeq(E) \in Seq(D) /\ Range(SetToSeq(E)) = E
  <2> DEFINE C == base.edges \ next.edges
             f == [c \in C |-> unlink(c)]
  <2>1. IsFiniteSet(C) /\ E \subseteq D
    BY <1>2, LinksFinite
  <2>2. f \in Surjection(C, E)
    BY DEF Surjection
  <2> HIDE DEF C, E, D, f
  <2> QED BY <2>1, <2>2, PartAll
<1>7. SetToSeq(R) \in Seq(D) /\ Range(SetToSeq(R)) = R
  <2> DEFINE C == old \ new
             f == [c \in C |-> remove(c)]
  <2>1. IsFiniteSet(C) /\ R \subseteq D
    BY <1>1, CardsFinite
  <2>2. f \in Surjection(C, R)
    BY DEF Surjection
  <2> HIDE DEF C, R, D, f
  <2> QED BY <2>1, <2>2, PartAll
<1> DEFINE a == SetToSeq(A)
           b == SetToSeq(B)
           m == SetToSeq(M)
           d == SetToSeq(E)
           r == SetToSeq(R)
           ops == DiffGraph(base, next)
<1>8. ops = (((a \o b) \o m) \o d) \o r
  BY DEF DiffGraph
<1>9. A \cup B \cup E \cup R \subseteq Range(ops)
  <2> HIDE DEF a, b, m, d, r, D, A, B, M, E, R
  <2>1. a \in Seq(D) /\ b \in Seq(D) /\ m \in Seq(D) /\ d \in Seq(D) /\ r \in Seq(D)
    BY <1>3, <1>4, <1>5, <1>6, <1>7 DEF a, b, m, d, r
  <2> DEFINE p == a \o b
             q == p \o m
             s == q \o d
  <2>2. p \in Seq(D) /\ Range(p) = Range(a) \cup Range(b)
    BY <2>1, ConcatIs
  <2> HIDE DEF p
  <2>3. q \in Seq(D) /\ Range(q) = Range(p) \cup Range(m)
    BY <2>1, <2>2, ConcatIs
  <2> HIDE DEF q
  <2>4. s \in Seq(D) /\ Range(s) = Range(q) \cup Range(d)
    BY <2>1, <2>3, ConcatIs
  <2> HIDE DEF s
  <2>5. Range(s \o r) = Range(s) \cup Range(r)
    BY <2>1, <2>4, ConcatIs
  <2>6. ops = s \o r
    BY <1>8 DEF s, q, p
  <2>7. Range(a) = A /\ Range(b) = B /\ Range(d) = E /\ Range(r) = R
    BY <1>3, <1>4, <1>6, <1>7 DEF a, b, d, r
  <2> QED BY <2>2, <2>3, <2>4, <2>5, <2>6, <2>7
<1> HIDE DEF ops, a, b, m, d, r
<1>10. CASE x.kind = "node"
  <2>1. CASE Has(base, x) = <<>> /\ Has(next, x) # <<>>
    <3>1. x.id \in new \ old
      BY <1>10, <2>1, OneOf DEF Has
    <3>2. create(x.id) \in Range(ops)
      BY <1>9, <3>1
    <3>3. Wants(create(x.id), x, base)
      BY <1>10, <2>1 DEF Wants, Creates
    <3> QED BY <3>2, <3>3 DEF Planned, ops
  <2>2. CASE Has(base, x) # <<>> /\ Has(next, x) = <<>>
    <3>1. x.id \in old \ new
      BY <1>10, <2>2, OneOf DEF Has
    <3>2. remove(x.id) \in Range(ops)
      BY <1>9, <3>1
    <3>3. Wants(remove(x.id), x, base)
      BY <1>10, <2>2 DEF Wants, Deletes
    <3> QED BY <3>2, <3>3 DEF Planned, ops
  <2> QED BY <2>1, <2>2 DEF Planned
<1>11. CASE x.kind = "edge"
  <2>0. <<TRUE>> # <<>>
    BY OneOf
  <2>1. CASE Has(base, x) = <<>> /\ Has(next, x) # <<>>
    <3>1. x.id \in next.edges \ base.edges
      BY <1>11, <2>0, <2>1 DEF Has
    <3>2. link(x.id) \in Range(ops)
      BY <1>9, <3>1
    <3>3. Wants(link(x.id), x, base)
      BY <1>11, <2>1 DEF Wants, Creates
    <3> QED BY <3>2, <3>3 DEF Planned, ops
  <2>2. CASE Has(base, x) # <<>> /\ Has(next, x) = <<>>
    <3>1. x.id \in base.edges \ next.edges
      BY <1>11, <2>0, <2>2 DEF Has
    <3>2. unlink(x.id) \in Range(ops)
      BY <1>9, <3>1
    <3>3. Wants(unlink(x.id), x, base)
      BY <1>11, <2>2 DEF Wants, Deletes
    <3> QED BY <3>2, <3>3 DEF Planned, ops
  <2> QED BY <2>1, <2>2 DEF Planned
<1> QED BY <1>10, <1>11, ThingIs

-----------------------------------------------------------------------------
(* What the tab has, thing by thing, against what the server has           *)

(* The tab was given every change of it there is. *)
Handed(sv, cur, x) == \A ch \in Range(sv.log) : Touches(ch, x) => ch.seq <= cur

(* Its last change is among frames kept back. *)
KeptBack(sv, def, x) == \E ch \in Range(def) : Latest(Range(sv.log), ch, x)

BaseAgrees(sv, cur, base, def) ==
    \A x \in Things : Handed(sv, cur, x) =>
        KeptBack(sv, def, x) \/ (Untouched(def, x) /\ Has(base, x) = Has(sv.rows, x))

(* What a flush will leave there, and what it will not, when nothing the   *)
(* tab was given and nothing kept back says otherwise.                     *)
SameLack(g, h, x) == (Has(g, x) = <<>>) = (Has(h, x) = <<>>)

FlightAgrees(sv, cur, fl, def) ==
    /\ fl.st = "sent" => \A x \in Things :
          Handed(sv, cur, x) /\ Untouched(def, x) => Planned(fl.ops, sv.rows, fl.desired, x)
    /\ fl.st = "answered" =>
          /\ \A x \in Things : Handed(sv, cur, x) /\ Untouched(def, x)
                                  => SameLack(fl.desired, sv.rows, x)
          /\ \A ch \in Range(sv.log) : fl.seq < ch.seq /\ ch.seq <= cur => ch \in Range(def)

Agrees(sv, cur, tb, fl) == /\ BaseAgrees(sv, cur, tb.base, tb.deferred)
                           /\ FlightAgrees(sv, cur, fl, tb.deferred)

FeedTrack(sv, un) ==
    /\ Started(sv) /\ sv.log[1].seq = 1
    /\ \A k \in DOMAIN un : Rising(un[k]) /\ Range(un[k]) \subseteq Range(sv.log)

(* A read of the canvas has what its number says. *)
FreshTrack(sv, fr) ==
    fr.st = "read" => \A x \in Things :
        Handed(sv, fr.seq, x) => Has(fr.graph, x) = Has(sv.rows, x)

(* Too far behind ever to be handed all there is. *)
Stuck(sv, str, seen) ==
    /\ str.st # "open" /\ (str.st = "down" => str.cursor = 0)
    /\ Len(sv.log) > MaxRead /\ \E ch \in Range(sv.log) : ch.seq \notin seen

Held(sv, cur, def) ==
    /\ Sorted(def) /\ Range(def) \subseteq Range(sv.log)
    /\ \A ch \in Range(def) : ch.seq <= cur

Piped(sv, str) ==
    str.st = "open" =>
        /\ Rising(str.pipe) /\ Range(str.pipe) \subseteq Range(sv.log)
        /\ str.cursor <= str.last
        /\ \A ch \in Range(str.pipe) : str.cursor < ch.seq /\ ch.seq <= str.last

AnswerHeld(sv, fl) ==
    fl.st = "answered" =>
        /\ Sorted(fl.changes) /\ Range(fl.changes) \subseteq Range(sv.log)
        /\ \A ch \in Range(fl.changes), o \in Range(sv.log) :
              ch.seq <= o.seq /\ o.seq <= fl.seq => o \in Range(fl.changes)

Orderly(sv, tb, fl, str, seen) ==
    /\ seen \subseteq 1 .. str.cursor /\ str.st # "gap"
    /\ Held(sv, str.cursor, tb.deferred) /\ Piped(sv, str) /\ AnswerHeld(sv, fl)

NoneSkipped(sv, cur, seen) == \A ch \in Range(sv.log) : ch.seq <= cur => ch.seq \in seen

Tracked(sv, tb, fl, str, seen) ==
    /\ Orderly(sv, tb, fl, str, seen)
    /\ ~tb.aged /\ NoneSkipped(sv, str.cursor, seen) => Agrees(sv, str.cursor, tb, fl)

CanvasTrack ==
    /\ FeedTrack(srv, unsent) /\ FreshTrack(srv, fresh)
    /\ Stuck(srv, stream, past.seen) \/ Tracked(srv, tab, flight, stream, past.seen)

LEMMA FeedIs ==
    ASSUME NEW sv, Started(sv)
    PROVE  /\ sv.seq \in Nat /\ sv.log \in Seq(Changes) /\ sv.rows \in Graphs
           /\ Sorted(sv.log) /\ Single(Range(sv.log)) /\ Replays(sv.log, sv.rows)
           /\ \A ch \in Range(sv.log) : ch \in Changes /\ ch.seq \in Nat /\ ch.seq <= sv.seq
BY ToIs DEF Started, Replays

(* Changes folded in agree with the server where the last one is among     *)
(* them, and where none is and what they were folded into agreed.          *)
LEMMA FoldAgrees ==
    ASSUME NEW sv, Started(sv), NEW g \in Graphs, NEW chs \in Seq(Changes),
           Sorted(chs), Range(chs) \subseteq Range(sv.log), NEW x \in Things,
           KeptBack(sv, chs, x) \/ (Untouched(chs, x) /\ Has(g, x) = Has(sv.rows, x))
    PROVE  Has(ApplyChanges(g, chs), x) = Has(sv.rows, x)
<1>1. CASE KeptBack(sv, chs, x)
  <2>1. PICK ch \in Range(chs) : Latest(Range(sv.log), ch, x)
    BY <1>1 DEF KeptBack
  <2>2. Has(sv.rows, x) = Leaves(ch, x)
    BY <2>1, FeedIs, RowsShow
  <2>3. Latest(Range(chs), ch, x)
    BY <2>1 DEF Latest
  <2>4. Single(Range(chs))
    BY FeedIs DEF Single
  <2> QED BY <2>2, <2>3, <2>4, FoldLatest
<1>2. CASE Untouched(chs, x) /\ Has(g, x) = Has(sv.rows, x)
  BY <1>2, HasFold
<1> QED BY <1>1, <1>2

(* A card that is there in both and is not older is the same.              *)
LEMMA HoldKeepsRow ==
    ASSUME Started(srv), NEW g \in Graphs, NEW base \in Graphs, ~Older(g, base),
           NEW x \in Things, Has(base, x) = Has(srv.rows, x), SameLack(g, base, x)
    PROVE  Has(g, x) = Has(srv.rows, x)
<1>1. CASE x.kind = "edge"
  <2>1. <<TRUE>> # <<>>
    BY OneOf
  <2>2. /\ Has(g, x) = IF x.id \in g.edges THEN <<TRUE>> ELSE <<>>
        /\ Has(base, x) = IF x.id \in base.edges THEN <<TRUE>> ELSE <<>>
    BY <1>1 DEF Has
  <2> QED BY <2>1, <2>2 DEF SameLack
<1>2. CASE x.kind = "node" /\ Has(g, x) = <<>>
  BY <1>2 DEF SameLack
<1>3. CASE x.kind = "node" /\ Has(g, x) # <<>>
  <2> DEFINE c == x.id
             n == g.nodes[c]
             b == base.nodes[c]
             log == srv.log
  <2>1. Has(base, x) # <<>>
    BY <1>3 DEF SameLack
  <2>2. /\ c \in DOMAIN g.nodes /\ Has(g, x) = <<n>>
        /\ c \in DOMAIN base.nodes /\ Has(base, x) = <<b>>
    BY <1>3, <2>1 DEF Has
  <2>3. log \in Seq(Changes) /\ Sorted(log) /\ Replays(log, srv.rows)
    BY FeedIs
  <2>4. ~Untouched(log, x)
    BY <2>1, <2>3, RowsShow
  <2>5. PICK m \in 1 .. Len(log) : /\ Latest(Range(log), log[m], x)
                                   /\ \A i \in m + 1 .. Len(log) : ~Touches(log[i], x)
    BY <2>3, <2>4, LatestIs
  <2>6. Leaves(log[m], x) = <<b>> /\ Touches(log[m], x)
    BY <2>2, <2>3, <2>5, RowsShow DEF Latest
  <2>7. log[m].kind = "node" /\ log[m].id = c /\ log[m].node = <<b>>
    BY <1>3, <2>6 DEF Touches, Leaves
  <2>8. Len(log) \in Nat /\ DOMAIN log = 1 .. Len(log)
    BY <2>3
  <2>9. m \in Writings(c, b)
    BY <2>7, <2>8 DEF Writings
  <2>10. PICK i \in Writings(c, n) : ~(i < m)
    BY <2>2, <2>9 DEF Older
  <2>11. i \in 1 .. Len(log) /\ log[i].kind = "node" /\ log[i].id = c /\ log[i].node = <<n>>
    BY <2>8, <2>10 DEF Writings
  <2>12. Touches(log[i], x)
    BY <1>3, <2>11 DEF Touches
  <2>13. i = m
    <3>1. i \notin m + 1 .. Len(log)
      BY <2>5, <2>12
    <3> QED BY <2>8, <2>10, <2>11, <3>1
  <2>14. <<n>> = <<b>>
    BY <2>7, <2>11, <2>13
  <2> QED BY <2>2, <2>14
<1> QED BY <1>1, <1>2, <1>3, ThingIs

-----------------------------------------------------------------------------
(* Steps of the tab *)

LEMMA SetGraphFields ==
    ASSUME NEW t, DOMAIN t = TabFields, NEW g
    PROVE  LET r == SetGraph(t, g) IN
           /\ DOMAIN r = TabFields /\ r.base = t.base /\ r.deferred = t.deferred
           /\ r.queue = t.queue /\ r.aged = t.aged
<1>1. CASE Positions(g) = t.drawn
  BY <1>1 DEF SetGraph
<1>2. CASE Positions(g) # t.drawn
  <2> DEFINE v == [g EXCEPT !.nodes =
                       [c \in DOMAIN @ |->
                           IF c \in DOMAIN t.view.nodes
                           THEN [@[c] EXCEPT !.text = t.view.nodes[c].text]
                           ELSE @[c]]]
             p == Positions(g)
  <2>1. SetGraph(t, g) = [t EXCEPT !.drawn = p, !.view = v]
    BY <1>2 DEF SetGraph
  <2> HIDE DEF v, p
  <2> QED BY <2>1 DEF TabFields
<1> QED BY <1>1, <1>2

LEMMA HoldFields ==
    ASSUME NEW t, DOMAIN t = TabFields, NEW g, NEW seq
    PROVE  LET r == Hold(t, g, seq) IN
           /\ DOMAIN r = TabFields /\ r.base = g /\ r.deferred = t.deferred
           /\ r.queue = t.queue /\ (r.aged <=> t.aged \/ Older(g, t.base))
<1> DEFINE o == Older(g, t.base)
<1>1. Hold(t, g, seq) = [t EXCEPT !.base = g, !.seq = seq, !.aged = @ \/ o]
  BY DEF Hold
<1> HIDE DEF o
<1>2. (Hold(t, g, seq)).aged = (t.aged \/ o)
  BY <1>1 DEF TabFields
<1> QED BY <1>1, <1>2 DEF TabFields, o

LEMMA AdoptFields ==
    ASSUME NEW t, DOMAIN t = TabFields, NEW g, NEW seq
    PROVE  LET r == Adopt(t, g, seq) IN
           /\ DOMAIN r = TabFields /\ r.base = g /\ r.deferred = t.deferred
           /\ r.queue = t.queue /\ r.aged = t.aged
<1> DEFINE u == [t EXCEPT !.base = g, !.seq = seq]
<1>1. /\ DOMAIN u = TabFields /\ u.base = g /\ u.deferred = t.deferred
      /\ u.queue = t.queue /\ u.aged = t.aged
  BY DEF TabFields
<1>2. Adopt(t, g, seq) = SetGraph(u, g)
  BY DEF Adopt
<1> HIDE DEF u
<1> QED BY <1>1, <1>2, SetGraphFields

LEMMA PlannedSame ==
    ASSUME NEW g, NEW h, NEW x \in Things, Has(g, x) = Has(h, x), NEW ops, NEW next,
           Planned(ops, g, next, x)
    PROVE  Planned(ops, h, next, x)
<1>1. ASSUME NEW op, Wants(op, x, g) PROVE Wants(op, x, h)
  <2>1. CASE Has(g, x) = <<>> /\ Creates(op, x)
    BY <2>1 DEF Wants
  <2>2. CASE Has(g, x) # <<>> /\ Deletes(op, x, g)
    <3>1. ASSUME x.kind = "node" PROVE g.nodes[x.id] = h.nodes[x.id]
      <4>1. Has(g, x) = <<g.nodes[x.id]>> /\ Has(h, x) = <<h.nodes[x.id]>>
        BY <2>2, <3>1 DEF Has
      <4> QED BY <4>1, OneOf
    <3>2. Deletes(op, x, h)
      BY <2>2, <3>1 DEF Deletes
    <3> QED BY <2>2, <3>2 DEF Wants
  <2> QED BY <1>1, <2>1, <2>2 DEF Wants
<1> QED BY <1>1 DEF Planned

(* A flush begun: the tab keeps what it had, or takes up an arrangement    *)
(* that lacks nothing and makes nothing older; and what the batch asks of  *)
(* the server is what the server needs to be asked.                        *)
Moves(t, cur) ==
    /\ tab'.deferred \in {t.deferred, <<>>} /\ flight'.st \in {"none", "sent"}
    /\ ~tab'.aged => ~t.aged
    /\ ~tab'.aged /\ BaseAgrees(srv, cur, t.base, t.deferred) => Agrees(srv, cur, tab', flight')

Holdable(t) == /\ DOMAIN t = TabFields /\ t.base \in Graphs /\ t.queue \in Queues
               /\ t.deferred \in Seq(Changes)

LEMMA PumpAgrees ==
    ASSUME Started(srv), NEW t, Holdable(t), t.queue # NoGraph, NEW cur, Pump(t)
    PROVE  Moves(t, cur)
<1> DEFINE desired == t.queue[1]
           ops == DiffGraph(t.base, desired)
           idle == [t EXCEPT !.queue = NoGraph]
           held == Hold(idle, desired, t.seq)
<1>1. /\ DOMAIN t = TabFields /\ t.base \in Graphs /\ desired \in Graphs
  BY DEF Holdable, Queues
<1>2. /\ DOMAIN idle = TabFields /\ idle.base = t.base /\ idle.deferred = t.deferred
      /\ idle.aged = t.aged
  BY <1>1 DEF TabFields
<1>3. IF ops = <<>>
      THEN tab' = SetGraph(held, desired) /\ flight' = [st |-> "none"]
      ELSE /\ tab' = idle
           /\ flight' = [st |-> "sent", desired |-> desired, ops |-> ops, since |-> t.seq]
  BY DEF Pump
<1>4. \A x \in Things : Planned(ops, t.base, desired, x)
  BY <1>1, DiffPlans
<1>5. /\ DOMAIN held = TabFields /\ held.base = desired /\ held.deferred = t.deferred
      /\ (held.aged <=> t.aged \/ Older(desired, t.base))
  <2> HIDE DEF idle, desired
  <2> QED BY <1>2, HoldFields
<1> HIDE DEF desired, ops, idle, held
<1>6. CASE ops = <<>>
  <2> DEFINE r == SetGraph(held, desired)
  <2>1. r.base = desired /\ r.deferred = t.deferred /\ r.aged = held.aged
    BY <1>5, SetGraphFields
  <2> HIDE DEF r
  <2>2. /\ tab' = r /\ flight' = [st |-> "none"]
    BY <1>3, <1>6 DEF r
  <2>3. /\ tab'.base = desired /\ tab'.deferred = t.deferred /\ flight'.st = "none"
        /\ (tab'.aged <=> t.aged \/ Older(desired, t.base))
    BY <1>5, <2>1, <2>2
  <2>4. ASSUME ~tab'.aged, BaseAgrees(srv, cur, t.base, t.deferred),
               NEW x \in Things, Handed(srv, cur, x), ~KeptBack(srv, t.deferred, x)
        PROVE  Untouched(t.deferred, x) /\ Has(desired, x) = Has(srv.rows, x)
    <3>1. Untouched(t.deferred, x) /\ Has(t.base, x) = Has(srv.rows, x)
      BY <2>4 DEF BaseAgrees
    <3>2. SameLack(desired, t.base, x)
      <4>1. Range(ops) = {}
        BY <1>6, NoneIs
      <4>2. ~((Has(t.base, x) = <<>>) # (Has(desired, x) = <<>>))
        BY <1>4, <4>1 DEF Planned
      <4> QED BY <4>2 DEF SameLack
    <3>3. ~Older(desired, t.base)
      BY <2>3, <2>4
    <3> QED BY <1>1, <3>1, <3>2, <3>3, HoldKeepsRow
  <2>5. ASSUME ~tab'.aged, BaseAgrees(srv, cur, t.base, t.deferred)
        PROVE  Agrees(srv, cur, tab', flight')
    <3>1. BaseAgrees(srv, cur, desired, t.deferred)
      BY <2>4, <2>5 DEF BaseAgrees
    <3>2. FlightAgrees(srv, cur, flight', tab'.deferred)
      BY <2>3 DEF FlightAgrees
    <3> QED BY <2>3, <3>1, <3>2 DEF Agrees
  <2> QED BY <2>3, <2>5 DEF Moves
<1>7. CASE ops # <<>>
  <2>1. /\ tab'.base = t.base /\ tab'.deferred = t.deferred /\ tab'.aged = t.aged
        /\ flight'.st = "sent" /\ flight'.ops = ops /\ flight'.desired = desired
    BY <1>2, <1>3, <1>7
  <2>2. ASSUME BaseAgrees(srv, cur, t.base, t.deferred)
        PROVE  Agrees(srv, cur, tab', flight')
    <3>1. ASSUME NEW x \in Things, Handed(srv, cur, x), Untouched(t.deferred, x)
          PROVE  Planned(ops, srv.rows, desired, x)
      <4>1. ~KeptBack(srv, t.deferred, x)
        BY <3>1 DEF KeptBack, Untouched, Latest
      <4>2. Has(t.base, x) = Has(srv.rows, x)
        BY <2>2, <3>1, <4>1 DEF BaseAgrees
      <4> QED BY <1>4, <4>2, PlannedSame
    <3>2. FlightAgrees(srv, cur, flight', t.deferred)
      BY <2>1, <3>1 DEF FlightAgrees
    <3> QED BY <2>1, <2>2, <3>2 DEF Agrees
  <2> QED BY <2>1, <2>2 DEF Moves
<1> QED BY <1>6, <1>7

LEMMA SettleAgrees ==
    ASSUME Started(srv), NEW t, Holdable(t), NEW cur,
           Held(srv, cur, t.deferred), Settle(t)
    PROVE  Moves(t, cur)
<1>1. CASE t.queue # NoGraph
  BY <1>1, PumpAgrees DEF Settle
<1>2. CASE t.queue = NoGraph
  <2> DEFINE u == [t EXCEPT !.deferred = <<>>]
             none == <<>>
  <2>1. /\ flight' = [st |-> "none"]
        /\ tab' = IF t.deferred = none THEN t
                  ELSE FoldIn(u, t.deferred, HighestSeq(t.deferred, 0))
    BY <1>2 DEF Settle
  <2>2. FlightAgrees(srv, cur, flight', tab'.deferred)
    BY <2>1 DEF FlightAgrees
  <2>3. CASE t.deferred = none
    <3>1. tab' = t
      BY <2>1, <2>3
    <3> HIDE DEF none
    <3> QED BY <2>1, <2>2, <3>1 DEF Moves, Agrees
  <2>4. CASE t.deferred # none
    <3> DEFINE g == ApplyChanges(t.base, t.deferred)
               h == HighestSeq(t.deferred, 0)
               n == IF h > t.seq THEN h ELSE t.seq
               r == Adopt(u, g, n)
    <3>1. DOMAIN t = TabFields /\ t.base \in Graphs /\ t.deferred \in Seq(Changes)
      BY DEF Holdable
    <3>2. /\ DOMAIN u = TabFields /\ u.base = t.base /\ u.deferred = none
          /\ u.seq = t.seq /\ u.aged = t.aged
      BY <3>1 DEF TabFields
    <3>3. tab' = r
      BY <2>1, <2>4, <3>2 DEF FoldIn
    <3> HIDE DEF u, g, n, none
    <3>4. r.base = g /\ r.deferred = none /\ r.aged = t.aged
      BY <3>2, AdoptFields
    <3> HIDE DEF r
    <3>5. t.deferred \in Seq(Changes) /\ Sorted(t.deferred) /\ Range(t.deferred) \subseteq Range(srv.log)
      BY <3>1 DEF Held
    <3>6. ASSUME BaseAgrees(srv, cur, t.base, t.deferred), NEW x \in Things, Handed(srv, cur, x)
          PROVE  Untouched(none, x) /\ Has(g, x) = Has(srv.rows, x)
      <4>1. KeptBack(srv, t.deferred, x)
            \/ (Untouched(t.deferred, x) /\ Has(t.base, x) = Has(srv.rows, x))
        BY <3>6 DEF BaseAgrees
      <4>2. Has(g, x) = Has(srv.rows, x)
        BY <3>1, <3>5, <4>1, FoldAgrees DEF g
      <4>3. Untouched(none, x)
        BY NoneIs DEF Untouched, none
      <4> QED BY <4>2, <4>3
    <3>7. ASSUME BaseAgrees(srv, cur, t.base, t.deferred)
          PROVE  BaseAgrees(srv, cur, g, none)
      BY <3>6, <3>7 DEF BaseAgrees
    <3>8. /\ tab'.base = g /\ tab'.deferred = none /\ tab'.aged = t.aged /\ flight'.st = "none"
      BY <2>1, <3>3, <3>4
    <3> QED BY <2>2, <3>7, <3>8 DEF Moves, Agrees, none
  <2> QED BY <2>3, <2>4
<1> QED BY <1>1, <1>2

(* What a step of the tab alone may do. *)
TabMoves ==
    /\ UNCHANGED <<srv, unsent, stream>> /\ past'.seen = past.seen
    /\ fresh' = fresh \/ fresh'.st # "read"
    /\ tab'.deferred \in {tab.deferred, <<>>}
    /\ flight' = flight \/ flight'.st \in {"none", "sent", "refused"}
    /\ ~tab'.aged => ~tab.aged
    /\ Orderly(srv, tab, flight, stream, past.seen) /\ ~tab'.aged
       /\ Agrees(srv, stream.cursor, tab, flight) => Agrees(srv, stream.cursor, tab', flight')

LEMMA TabMovesKeep ==
    ASSUME CanvasTrack, TabMoves
    PROVE  CanvasTrack'
<1>1. FeedTrack(srv, unsent) /\ FreshTrack(srv, fresh) /\ srv' = srv /\ unsent' = unsent
      /\ stream' = stream /\ past'.seen = past.seen /\ (fresh' = fresh \/ fresh'.st # "read")
  BY DEF CanvasTrack, TabMoves
<1>2. FeedTrack(srv, unsent)'
  BY <1>1
<1>3. FreshTrack(srv, fresh)'
  <2>1. CASE fresh' = fresh
    BY <1>1, <2>1
  <2>2. CASE fresh'.st # "read"
    BY <2>2 DEF FreshTrack
  <2> QED BY <1>1, <2>1, <2>2
<1>4. CASE Stuck(srv, stream, past.seen)
  <2>1. Stuck(srv, stream, past.seen)'
    BY <1>1, <1>4
  <2> QED BY <1>2, <1>3, <2>1 DEF CanvasTrack
<1>5. CASE Tracked(srv, tab, flight, stream, past.seen)
  <2>1. Orderly(srv, tab, flight, stream, past.seen)
    BY <1>5 DEF Tracked
  <2>2. Held(srv, stream.cursor, tab'.deferred)
    <3>1. Held(srv, stream.cursor, <<>>)
      BY NoneIs DEF Held
    <3> QED BY <2>1, <3>1 DEF Orderly, TabMoves
  <2>3. AnswerHeld(srv, flight')
    BY <2>1 DEF Orderly, TabMoves, AnswerHeld
  <2>4. Orderly(srv, tab', flight', stream, past.seen)
    BY <2>1, <2>2, <2>3 DEF Orderly
  <2>5. ~tab'.aged /\ NoneSkipped(srv, stream.cursor, past.seen)
          => Agrees(srv, stream.cursor, tab', flight')
    BY <1>5, <2>1 DEF TabMoves, Tracked
  <2>6. Tracked(srv, tab, flight, stream, past.seen)'
    BY <1>1, <2>4, <2>5 DEF Tracked
  <2> QED BY <1>2, <1>3, <2>6 DEF CanvasTrack
<1> QED BY <1>4, <1>5 DEF CanvasTrack

-----------------------------------------------------------------------------
(* Steps of the tab alone keep the invariant *)

LEMMA TabHoldable == CanvasInv => Holdable(tab)
<1> SUFFICES ASSUME CanvasInv PROVE Holdable(tab)
  OBVIOUS
<1>1. Drawable(tab, srv.seq, Safe(past)) /\ srv.seq \in Nat
  BY TabHolds DEF TabFacts
<1>2. /\ DOMAIN tab = TabFields /\ tab.base \in Graphs /\ tab.queue \in Queues
      /\ tab.deferred \in Seq(ChangesTo(srv.seq))
  BY <1>1 DEF Drawable
<1> QED BY <1>1, <1>2, ToIs DEF Holdable

(* A commit of the view. *)
LEMMA SaveTracks ==
    ASSUME CanvasInv, CanvasTrack, NEW t, NEW v \in Graphs, t = [t EXCEPT !.view = v],
           DOMAIN t = TabFields, t.base = tab.base, t.deferred = tab.deferred,
           t.aged = tab.aged, Save(t), Outside, past'.seen = past.seen
    PROVE  CanvasTrack'
<1> DEFINE q == <<t.view>>
           queued == [t EXCEPT !.queue = q]
           cur == stream.cursor
<1>1. Started(srv) /\ Holdable(tab)
  BY TabHoldable DEF CanvasTrack, FeedTrack
<1>2. t.view = v
  BY DEF TabFields
<1>3. q \in Queues /\ q # NoGraph
  BY <1>2 DEF Queues, NoGraph
<1>4. IF Busy THEN tab' = queued /\ UNCHANGED flight ELSE Pump(queued)
  BY DEF Save
<1> HIDE DEF q
<1>5. /\ DOMAIN queued = TabFields /\ queued.base = tab.base /\ queued.queue = q
      /\ queued.deferred = tab.deferred /\ queued.aged = tab.aged
  BY DEF TabFields
<1> HIDE DEF queued
<1>6. UNCHANGED <<srv, unsent, stream, fresh>> /\ past'.seen = past.seen
  BY DEF Outside
<1>7. CASE Busy
  <2>1. /\ flight' = flight /\ tab'.base = tab.base /\ tab'.deferred = tab.deferred
        /\ tab'.aged = tab.aged
    BY <1>4, <1>5, <1>7
  <2>2. Agrees(srv, cur, tab, flight) => Agrees(srv, cur, tab', flight')
    BY <2>1 DEF Agrees
  <2>3. TabMoves
    BY <1>6, <2>1, <2>2 DEF TabMoves
  <2> QED BY <2>3, TabMovesKeep
<1>8. CASE ~Busy
  <2>1. Pump(queued) /\ Holdable(queued) /\ queued.queue # NoGraph
    BY <1>1, <1>3, <1>4, <1>5, <1>8 DEF Holdable
  <2>2. Moves(queued, cur)
    <3> HIDE DEF cur
    <3> QED BY <1>1, <2>1, PumpAgrees
  <2>3. Agrees(srv, cur, tab, flight) => BaseAgrees(srv, cur, queued.base, queued.deferred)
    BY <1>5 DEF Agrees
  <2>4. /\ tab'.deferred \in {tab.deferred, <<>>} /\ flight'.st \in {"none", "sent", "refused"}
        /\ ~tab'.aged => ~tab.aged
    BY <1>5, <2>2 DEF Moves
  <2>5. ~tab'.aged /\ Agrees(srv, cur, tab, flight) => Agrees(srv, cur, tab', flight')
    BY <2>2, <2>3 DEF Moves
  <2>6. TabMoves
    BY <1>6, <2>4, <2>5 DEF TabMoves
  <2> QED BY <2>6, TabMovesKeep
<1> QED BY <1>7, <1>8

LEMMA MoveTracks ==
    ASSUME CanvasInv, CanvasTrack, NEW c \in Cards, Move(c)
    PROVE  CanvasTrack'
<1>1. TabFacts
  BY TabHolds
<1> DEFINE t == [tab EXCEPT !.view.nodes[c].pos = 1 - @]
           row == tab.view.nodes[c]
           n == [row EXCEPT !.pos = 1 - row.pos]
           v == [tab.view EXCEPT !.nodes = [tab.view.nodes EXCEPT ![c] = n]]
<1>2. c \in DOMAIN tab.view.nodes /\ Save(t) /\ Outside /\ past' = past
  BY DEF Move, Shown
<1>3. row \in NodeRecs
  BY <1>1, <1>2, NodeMapIs DEF TabFacts, Graphs
<1>4. n \in NodeRecs
  <2> HIDE DEF row
  <2> QED BY <1>3 DEF NodeRecs
<1>5. v \in Graphs
  <2> HIDE DEF n
  <2> QED BY <1>1, <1>2, <1>4, TouchWell DEF TabFacts
<1>6. t = [tab EXCEPT !.view = v]
  BY <1>1 DEF TabFacts, TabFields
<1> HIDE DEF t, v
<1>7. /\ DOMAIN t = TabFields /\ t.base = tab.base /\ t.deferred = tab.deferred
      /\ t.aged = tab.aged /\ t = [t EXCEPT !.view = v]
  BY <1>1, <1>6 DEF TabFacts, TabFields
<1> QED BY <1>2, <1>5, <1>7, SaveTracks

LEMMA TypingTimerTracks ==
    ASSUME CanvasInv, CanvasTrack, TypingTimer
    PROVE  CanvasTrack'
<1>1. TabFacts /\ tab.view \in Graphs
  BY TabHolds DEF TabFacts
<1> DEFINE t == [tab EXCEPT !.typing = FALSE]
<1>2. Save(t) /\ Outside /\ past' = past
  BY DEF TypingTimer
<1>3. /\ DOMAIN t = TabFields /\ t.base = tab.base /\ t.deferred = tab.deferred
      /\ t.aged = tab.aged /\ t = [t EXCEPT !.view = tab.view]
  BY <1>1 DEF TabFacts, TabFields
<1> HIDE DEF t
<1> QED BY <1>1, <1>2, <1>3, SaveTracks

LEMMA AddCardTracks ==
    ASSUME CanvasInv, CanvasTrack, AddCard
    PROVE  CanvasTrack'
<1>1. TabFacts
  BY TabHolds
<1> DEFINE n == [rev |-> 0, pos |-> 0, text |-> 0]
           v == Put(tab.view, Mine, n)
           t == [tab EXCEPT !.minted = TRUE, !.view = v]
<1>2. Save(t) /\ Outside /\ past' = past
  BY DEF AddCard
<1>3. v \in Graphs
  <2>1. n \in NodeRecs /\ Mine \in Cards
    BY DEF NodeRecs, Cards
  <2> HIDE DEF n
  <2> QED BY <1>1, <2>1, PutWell DEF TabFacts
<1> HIDE DEF v
<1>4. /\ DOMAIN t = TabFields /\ t.base = tab.base /\ t.deferred = tab.deferred
      /\ t.aged = tab.aged /\ t = [t EXCEPT !.view = v]
  BY <1>1 DEF TabFacts, TabFields
<1> HIDE DEF t
<1> QED BY <1>2, <1>3, <1>4, SaveTracks

LEMMA RemoveSelectedTracks ==
    ASSUME CanvasInv, CanvasTrack, NEW c \in Cards, RemoveSelected(c)
    PROVE  CanvasTrack'
<1>1. TabFacts
  BY TabHolds
<1> DEFINE v == Cut(tab.view, c)
           t == [tab EXCEPT !.view = v]
<1>2. Save(t) /\ Outside /\ past' = [past EXCEPT !.removed = @ \cup {c}]
  BY DEF RemoveSelected, ApplyEdit
<1>3. v \in Graphs
  BY <1>1, CutWell DEF TabFacts
<1> HIDE DEF v
<1>4. /\ DOMAIN t = TabFields /\ t.base = tab.base /\ t.deferred = tab.deferred
      /\ t.aged = tab.aged /\ t = [t EXCEPT !.view = v]
  BY <1>1 DEF TabFacts, TabFields
<1> HIDE DEF t
<1>5. past'.seen = past.seen
  BY <1>2 DEF CanvasInv
<1> QED BY <1>2, <1>3, <1>4, <1>5, SaveTracks

LEMMA ConnectTracks ==
    ASSUME CanvasInv, CanvasTrack, Connect
    PROVE  CanvasTrack'
<1>1. TabFacts
  BY TabHolds
<1> DEFINE v == [nodes |-> tab.view.nodes, edges |-> tab.view.edges \cup {Link}]
           t == [tab EXCEPT !.view.edges = @ \cup {Link}]
<1>2. Save(t) /\ Outside /\ past' = past
  BY DEF Connect
<1>3. v \in Graphs
  <2>1. Link \in Links
    BY DEF Link, Links, Cards
  <2> QED BY <1>1, <2>1 DEF TabFacts, Graphs
<1>4. t = [tab EXCEPT !.view = v]
  BY <1>1 DEF TabFacts, TabFields, Graphs
<1> HIDE DEF t, v
<1>5. /\ DOMAIN t = TabFields /\ t.base = tab.base /\ t.deferred = tab.deferred
      /\ t.aged = tab.aged /\ t = [t EXCEPT !.view = v]
  BY <1>1, <1>4 DEF TabFacts, TabFields
<1> QED BY <1>2, <1>3, <1>5, SaveTracks

(* An arrangement drawn before is put back.                                *)
LEMMA RecallTracks ==
    ASSUME CanvasInv, CanvasTrack, NEW g, NEW v \in Graphs, NEW t,
           t = [t EXCEPT !.view = v], DOMAIN t = TabFields, t.base = tab.base,
           t.deferred = tab.deferred, t.aged = tab.aged, Save(t), Recalls(g), Outside
    PROVE  CanvasTrack'
<1>1. past'.seen = past.seen
  BY DEF Recalls, CanvasInv
<1> QED BY <1>1, SaveTracks

LEMMA ViewPut ==
    ASSUME CanvasInv, NEW v \in Graphs, NEW t, t = [tab EXCEPT !.view = v]
    PROVE  /\ DOMAIN t = TabFields /\ t.base = tab.base /\ t.deferred = tab.deferred
           /\ t.aged = tab.aged /\ t = [t EXCEPT !.view = v]
BY TabHolds DEF TabFacts, TabFields

LEMMA UndoTracks ==
    ASSUME CanvasInv, ShelfInv, CanvasTrack, Undo
    PROVE  CanvasTrack'
<1> DEFINE v == Last(shelf.undos)
           t == [tab EXCEPT !.view = v]
<1>1. v \in Graphs /\ Save(t) /\ Recalls(v) /\ Outside
  BY NewestIs DEF ShelfInv, Undo
<1> HIDE DEF v
<1>2. /\ DOMAIN t = TabFields /\ t.base = tab.base /\ t.deferred = tab.deferred
      /\ t.aged = tab.aged /\ t = [t EXCEPT !.view = v]
  BY <1>1, ViewPut
<1> HIDE DEF t
<1> QED BY <1>1, <1>2, RecallTracks

LEMMA RedoTracks ==
    ASSUME CanvasInv, ShelfInv, CanvasTrack, Redo
    PROVE  CanvasTrack'
<1> DEFINE v == Last(shelf.redos)
           t == [tab EXCEPT !.view = v]
<1>1. v \in Graphs /\ Save(t) /\ Recalls(v) /\ Outside
  BY NewestIs DEF ShelfInv, Redo
<1> HIDE DEF v
<1>2. /\ DOMAIN t = TabFields /\ t.base = tab.base /\ t.deferred = tab.deferred
      /\ t.aged = tab.aged /\ t = [t EXCEPT !.view = v]
  BY <1>1, ViewPut
<1> HIDE DEF t
<1> QED BY <1>1, <1>2, RecallTracks

LEMMA ImportedTracks ==
    ASSUME CanvasInv, ShelfInv, CanvasTrack, Imported
    PROVE  CanvasTrack'
<1> DEFINE v == ImportedView
           t == [tab EXCEPT !.minted = TRUE, !.view = v]
<1>1. v \in Graphs /\ Save(t) /\ Recalls(shelf.held[1]) /\ Outside
  BY ImportedWell DEF Imported, ApplyEdit, ImportedView
<1> HIDE DEF v
<1>2. /\ DOMAIN t = TabFields /\ t.base = tab.base /\ t.deferred = tab.deferred
      /\ t.aged = tab.aged /\ t = [t EXCEPT !.view = v]
  BY TabHolds DEF TabFacts, TabFields
<1> HIDE DEF t
<1> QED BY <1>1, <1>2, RecallTracks

LEMMA UploadedTracks ==
    ASSUME CanvasInv, ShelfInv, CanvasTrack, NEW c \in Cards, Uploaded(c)
    PROVE  CanvasTrack'
<1> DEFINE v == UploadedView(c)
           t == [tab EXCEPT !.view = v]
<1>1. v \in Graphs /\ Save(t) /\ Recalls(shelf.held[1]) /\ Outside
  BY UploadedWell DEF Uploaded, ApplyEdit, UploadedView
<1> HIDE DEF v
<1>2. /\ DOMAIN t = TabFields /\ t.base = tab.base /\ t.deferred = tab.deferred
      /\ t.aged = tab.aged /\ t = [t EXCEPT !.view = v]
  BY <1>1, ViewPut
<1> HIDE DEF t
<1> QED BY <1>1, <1>2, RecallTracks

LEMMA PickTracks ==
    ASSUME CanvasTrack, PickFile \/ PickFails
    PROVE  CanvasTrack'
BY DEF PickFile, PickFails, Outside, CanvasTrack

(* Nothing of what is acknowledged, kept back or on its way.               *)
LEMMA ApartTracks ==
    ASSUME CanvasTrack, UNCHANGED <<srv, unsent, stream>>, past'.seen = past.seen,
           fresh' = fresh \/ fresh'.st # "read", tab'.base = tab.base,
           tab'.deferred = tab.deferred, tab'.aged = tab.aged,
           flight' = flight \/ flight'.st = "refused"
    PROVE  CanvasTrack'
<1>1. FlightAgrees(srv, stream.cursor, flight, tab.deferred)
         => FlightAgrees(srv, stream.cursor, flight', tab.deferred)
  BY DEF FlightAgrees
<1>2. Agrees(srv, stream.cursor, tab, flight) => Agrees(srv, stream.cursor, tab', flight')
  BY <1>1 DEF Agrees
<1>3. TabMoves
  BY <1>2 DEF TabMoves
<1> QED BY <1>3, TabMovesKeep

LEMMA TypeTracks ==
    ASSUME CanvasInv, CanvasTrack, NEW c \in Cards, Type(c)
    PROVE  CanvasTrack'
<1>1. TabFacts
  BY TabHolds
<1>2. /\ Outside /\ past' = past /\ flight' = flight
      /\ tab' = [tab EXCEPT !.view.nodes[c].text = 1 - @, !.typing = TRUE]
  BY DEF Type
<1>3. tab'.base = tab.base /\ tab'.deferred = tab.deferred /\ tab'.aged = tab.aged
  BY <1>1, <1>2 DEF TabFacts, TabFields
<1> QED BY <1>2, <1>3, ApartTracks DEF Outside

LEMMA LoseRequestTracks ==
    ASSUME CanvasTrack, LoseRequest
    PROVE  CanvasTrack'
<1>1. flight' = [st |-> "refused"] /\ UNCHANGED <<srv, unsent, tab, fresh, stream, past>>
  BY DEF LoseRequest
<1> QED BY <1>1, ApartTracks

LEMMA LoseReadTracks ==
    ASSUME CanvasTrack, LoseRead
    PROVE  CanvasTrack'
<1>1. fresh' = [st |-> "none"] /\ UNCHANGED <<srv, unsent, tab, flight, stream, past>>
  BY DEF LoseRead
<1> QED BY <1>1, ApartTracks

(* The end of a flush of which nothing is taken up. *)
LEMMA SettleTracks ==
    ASSUME CanvasInv, CanvasTrack, NEW t, Holdable(t), t.base = tab.base,
           t.deferred = tab.deferred, t.aged = tab.aged, Settle(t),
           UNCHANGED <<srv, unsent, stream, past>>, fresh' = fresh \/ fresh'.st # "read"
    PROVE  CanvasTrack'
<1> DEFINE cur == stream.cursor
<1>1. Started(srv)
  BY DEF CanvasTrack, FeedTrack
<1>2. ASSUME Orderly(srv, tab, flight, stream, past.seen)
      PROVE  TabMoves
  <2>1. Held(srv, cur, t.deferred)
    BY <1>2 DEF Orderly
  <2>2. Moves(t, cur)
    <3> HIDE DEF cur
    <3> QED BY <1>1, <2>1, SettleAgrees
  <2>3. Agrees(srv, cur, tab, flight) => BaseAgrees(srv, cur, t.base, t.deferred)
    BY DEF Agrees
  <2>4. /\ tab'.deferred \in {tab.deferred, <<>>} /\ flight'.st \in {"none", "sent", "refused"}
        /\ ~tab'.aged => ~tab.aged
    BY <2>2 DEF Moves
  <2>5. ~tab'.aged /\ Agrees(srv, cur, tab, flight) => Agrees(srv, cur, tab', flight')
    BY <2>2, <2>3 DEF Moves
  <2> QED BY <2>4, <2>5 DEF TabMoves
<1>3. CASE Orderly(srv, tab, flight, stream, past.seen)
  BY <1>2, <1>3, TabMovesKeep
<1>4. CASE Stuck(srv, stream, past.seen)
  BY <1>4 DEF CanvasTrack, FeedTrack, FreshTrack
<1> QED BY <1>3, <1>4 DEF CanvasTrack, Tracked

LEMMA FlushFailedTracks ==
    ASSUME CanvasInv, CanvasTrack, FlushFailed
    PROVE  CanvasTrack'
<1> DEFINE t == [tab EXCEPT !.queue = NoGraph]
<1>1. Settle(t) /\ UNCHANGED <<srv, unsent, fresh, stream, past>>
  BY DEF FlushFailed
<1>2. Holdable(tab)
  BY TabHoldable
<1>3. /\ DOMAIN t = TabFields /\ t.base = tab.base /\ t.queue = NoGraph
      /\ t.deferred = tab.deferred /\ t.aged = tab.aged
  BY <1>2 DEF Holdable, TabFields
<1> HIDE DEF t
<1>4. Holdable(t)
  BY <1>2, <1>3 DEF Holdable, Queues
<1> QED BY <1>1, <1>3, <1>4, SettleTracks

LEMMA FlushGapTracks ==
    ASSUME CanvasInv, CanvasTrack, FlushAnswered, flight.gap
    PROVE  CanvasTrack'
<1> DEFINE t == [tab EXCEPT !.gapped = TRUE]
<1>1. Reload /\ Settle(t) /\ UNCHANGED <<srv, unsent, stream, past>>
  BY DEF FlushAnswered
<1>2. fresh' = fresh \/ fresh'.st # "read"
  BY <1>1 DEF Reload
<1>3. Holdable(tab)
  BY TabHoldable
<1>4. /\ DOMAIN t = TabFields /\ t.base = tab.base /\ t.queue = tab.queue
      /\ t.deferred = tab.deferred /\ t.aged = tab.aged
  BY <1>3 DEF Holdable, TabFields
<1> HIDE DEF t
<1>5. Holdable(t)
  BY <1>3, <1>4 DEF Holdable
<1> QED BY <1>1, <1>2, <1>4, <1>5, SettleTracks

-----------------------------------------------------------------------------
(* A flush answered *)

(* The answer's changes and the frames kept back, folded over what was     *)
(* flushed, leave what the server has: where one of them is the last of a  *)
(* card's changes it says so itself; where none is, none is of the card,   *)
(* and the flush has left or removed what the server did.                  *)
LEMMA NewsAgree ==
    ASSUME Started(srv), NEW seen, Orderly(srv, tab, flight, stream, seen),
           Agrees(srv, stream.cursor, tab, flight), flight.st = "answered",
           flight.desired \in Graphs, flight.seq \in Nat, tab.base \in Graphs,
           NEW news \in Seq(Changes), Sorted(news),
           Range(news) = Range(flight.changes) \cup Range(tab.deferred),
           ~Older(ApplyChanges(flight.desired, news), tab.base)
    PROVE  BaseAgrees(srv, stream.cursor, ApplyChanges(flight.desired, news), <<>>)
<1> DEFINE g == ApplyChanges(flight.desired, news)
           cur == stream.cursor
           def == tab.deferred
           chs == flight.changes
           log == srv.log
<1>1. /\ Range(news) = Range(chs) \cup Range(def)
      /\ Range(def) \subseteq Range(log) /\ Range(chs) \subseteq Range(log)
      /\ \A ch \in Range(chs), o \in Range(log) :
            ch.seq <= o.seq /\ o.seq <= flight.seq => o \in Range(chs)
  BY DEF Orderly, Held, AnswerHeld
<1>2. Range(news) \subseteq Range(log)
  BY <1>1
<1>3. /\ BaseAgrees(srv, cur, tab.base, def)
      /\ \A x \in Things : Handed(srv, cur, x) /\ Untouched(def, x)
                              => SameLack(flight.desired, srv.rows, x)
      /\ \A ch \in Range(log) : flight.seq < ch.seq /\ ch.seq <= cur => ch \in Range(def)
  BY DEF Agrees, FlightAgrees
<1>5. ASSUME NEW x \in Things, Handed(srv, cur, x)
      PROVE  Has(g, x) = Has(srv.rows, x)
  <2>1. CASE KeptBack(srv, news, x)
    BY <1>2, <2>1, FoldAgrees
  <2>2. CASE ~KeptBack(srv, news, x)
    <3>1. ASSUME NEW o \in Range(news), Touches(o, x) PROVE FALSE
      <4>1. ~Untouched(log, x)
        BY <1>2, <3>1 DEF Untouched
      <4>2. PICK ch : Latest(Range(log), ch, x)
        BY <4>1, FeedIs, RowsShow
      <4>3. ch \in Range(log) /\ o.seq <= ch.seq /\ ch.seq <= cur /\ ch \notin Range(news)
        BY <1>2, <1>5, <2>2, <3>1, <4>2 DEF Latest, Handed, KeptBack
      <4>4. CASE o \in Range(chs)
        <5>1. ~(ch.seq <= flight.seq) => flight.seq < ch.seq
          BY <4>3, FeedIs
        <5> QED BY <1>1, <1>3, <4>3, <4>4, <5>1
      <4>5. CASE o \in Range(def)
        <5>1. ~KeptBack(srv, def, x)
          BY <1>1, <2>2 DEF KeptBack
        <5> QED BY <1>3, <1>5, <3>1, <4>5, <5>1 DEF BaseAgrees, Untouched
      <4> QED BY <1>1, <4>4, <4>5
    <3>2. Untouched(news, x) /\ Untouched(def, x) /\ ~KeptBack(srv, def, x)
      BY <1>1, <2>2, <3>1 DEF Untouched, KeptBack
    <3>3. SameLack(flight.desired, srv.rows, x) /\ Has(tab.base, x) = Has(srv.rows, x)
      BY <1>3, <1>5, <3>2 DEF BaseAgrees
    <3>4. Has(g, x) = Has(flight.desired, x)
      BY <3>2, HasFold
    <3>5. SameLack(g, tab.base, x)
      BY <3>3, <3>4 DEF SameLack
    <3>6. g \in Graphs
      BY ApplyChangesFacts
    <3> HIDE DEF g
    <3>7. ~Older(g, tab.base)
      BY DEF g
    <3> QED BY <3>3, <3>5, <3>6, <3>7, HoldKeepsRow
  <2> QED BY <2>1, <2>2
<1>7. \A x : Untouched(<<>>, x)
  BY NoneIs DEF Untouched
<1> QED BY <1>5, <1>7 DEF BaseAgrees

LEMMA FlushTracks ==
    ASSUME CanvasInv, CanvasTrack, FlushAnswered, ~flight.gap
    PROVE  CanvasTrack'
<1> DEFINE both == flight.changes \o tab.deferred
           news == IF tab.deferred = <<>> THEN flight.changes ELSE BySeq(both)
           settled == ApplyChanges(flight.desired, news)
           none == <<>>
           told == [tab EXCEPT !.deferred = none]
           held == Hold(told, settled, flight.seq)
           r == IF tab.queue = NoGraph THEN SetGraph(held, settled) ELSE held
           cur == stream.cursor
           seen == past.seen
<1>1. /\ flight.st = "answered" /\ Settle(r) /\ Learns(settled, seen)
      /\ UNCHANGED <<srv, unsent, stream, fresh>>
  BY DEF FlushAnswered
<1>2. Started(srv) /\ Holdable(tab) /\ srv.seq \in Nat
  BY TabHoldable, FeedIs DEF CanvasTrack, FeedTrack
<1>3. flight.desired \in Graphs /\ flight.changes \in Seq(Changes) /\ flight.seq \in Nat
  <2>1. /\ flight.desired \in Graphs /\ flight.seq \in 0 .. srv.seq
        /\ flight.changes \in Seq(ChangesTo(srv.seq))
    BY <1>1, TabHolds DEF TabFacts, FlightWell
  <2> QED BY <1>2, <2>1, ToIs
<1>4. tab.deferred \in Seq(Changes) /\ tab.base \in Graphs /\ tab.queue \in Queues
  BY <1>2 DEF Holdable
<1>5. both \in Seq(Changes) /\ Range(both) = Range(flight.changes) \cup Range(tab.deferred)
  BY <1>3, <1>4, ConcatIs
<1>6. past'.seen = seen
  BY <1>1 DEF Learns, CanvasInv
<1> HIDE DEF both
<1>7. /\ news \in Seq(Changes)
      /\ Range(news) = Range(flight.changes) \cup Range(tab.deferred)
      /\ Sorted(flight.changes) => Sorted(news)
  <2>1. CASE tab.deferred = <<>>
    <3>1. Range(tab.deferred) = {}
      BY <2>1, NoneIs
    <3> QED BY <1>3, <2>1, <3>1
  <2>2. CASE tab.deferred # <<>>
    BY <1>5, <2>2, BySeqIs
  <2> QED BY <2>1, <2>2
<1> HIDE DEF news
<1>8. settled \in Graphs
  BY <1>3, <1>7, ApplyChangesFacts
<1>9. /\ DOMAIN told = TabFields /\ told.base = tab.base /\ told.deferred = none
      /\ told.queue = tab.queue /\ told.aged = tab.aged
  BY <1>2 DEF Holdable, TabFields
<1> HIDE DEF settled, told
<1>10. /\ DOMAIN held = TabFields /\ held.base = settled /\ held.deferred = none
       /\ held.queue = tab.queue /\ (held.aged <=> tab.aged \/ Older(settled, tab.base))
  BY <1>9, HoldFields
<1> HIDE DEF held
<1>11. /\ DOMAIN r = TabFields /\ r.base = settled /\ r.deferred = none
       /\ r.queue = tab.queue /\ (r.aged <=> tab.aged \/ Older(settled, tab.base))
  <2> DEFINE u == SetGraph(held, settled)
  <2>1. /\ DOMAIN u = TabFields /\ u.base = held.base /\ u.deferred = held.deferred
        /\ u.queue = held.queue /\ u.aged = held.aged
    BY <1>10, SetGraphFields
  <2>2. r = u \/ r = held
    OBVIOUS
  <2> HIDE DEF u, r
  <2>3. CASE r = u
    BY <1>10, <2>1, <2>3
  <2>4. CASE r = held
    BY <1>10, <2>4
  <2> QED BY <2>2, <2>3, <2>4
<1> HIDE DEF r
<1>12. Holdable(r)
  BY <1>4, <1>8, <1>11, NoneIs DEF Holdable
<1>13. Held(srv, cur, r.deferred)
  <2>1. Held(srv, cur, none)
    BY NoneIs DEF Held
  <2> QED BY <1>11, <2>1
<1>14. Moves(r, cur)
  <2> HIDE DEF cur
  <2> QED BY <1>1, <1>2, <1>12, <1>13, SettleAgrees
<1>15. ASSUME Orderly(srv, tab, flight, stream, seen)
       PROVE  TabMoves
  <2>1. Sorted(news)
    BY <1>1, <1>7, <1>15 DEF Orderly, AnswerHeld
  <2>2. ASSUME ~Older(settled, tab.base), Agrees(srv, cur, tab, flight)
        PROVE  BaseAgrees(srv, cur, settled, <<>>)
    <3>1. ~Older(ApplyChanges(flight.desired, news), tab.base)
      BY <2>2 DEF settled
    <3>2. BaseAgrees(srv, cur, ApplyChanges(flight.desired, news), <<>>)
      BY <1>1, <1>2, <1>3, <1>4, <1>7, <1>15, <2>1, <2>2, <3>1, NewsAgree
    <3> QED BY <3>2 DEF settled
  <2>3. /\ tab'.deferred \in {tab.deferred, <<>>} /\ flight'.st \in {"none", "sent", "refused"}
        /\ ~tab'.aged => ~tab.aged /\ ~Older(settled, tab.base)
    BY <1>11, <1>14 DEF Moves
  <2>4. ~tab'.aged /\ Agrees(srv, cur, tab, flight) => Agrees(srv, cur, tab', flight')
    BY <1>11, <1>14, <2>2, <2>3 DEF Moves
  <2> QED BY <1>1, <1>6, <2>3, <2>4 DEF TabMoves
<1>16. CASE Orderly(srv, tab, flight, stream, seen)
  BY <1>15, <1>16, TabMovesKeep
<1>17. CASE Stuck(srv, stream, seen)
  BY <1>1, <1>6, <1>17 DEF CanvasTrack, FeedTrack, FreshTrack
<1> QED BY <1>16, <1>17 DEF CanvasTrack, Tracked

-----------------------------------------------------------------------------
(* The canvas read whole *)

LEMMA ReadCanvasTracks ==
    ASSUME CanvasTrack, ReadCanvas
    PROVE  CanvasTrack'
<1>1. /\ fresh' = [st |-> "read", graph |-> srv.rows, seq |-> srv.seq]
      /\ UNCHANGED <<srv, unsent, tab, flight, stream, past>>
  BY DEF ReadCanvas
<1>2. FreshTrack(srv, fresh')
  BY <1>1 DEF FreshTrack
<1>3. FeedTrack(srv, unsent)' /\ FreshTrack(srv, fresh)'
  BY <1>1, <1>2 DEF CanvasTrack
<1>4. (Stuck(srv, stream, past.seen) \/ Tracked(srv, tab, flight, stream, past.seen))'
  BY <1>1 DEF CanvasTrack
<1> QED BY <1>3, <1>4 DEF CanvasTrack

(* What is adopted is what the canvas had at a number, and only what has   *)
(* a higher one counts as never handed from then on.                       *)
LEMMA ReloadedTracks ==
    ASSUME CanvasInv, CanvasTrack, Reloaded
    PROVE  CanvasTrack'
<1> DEFINE g == fresh.graph
           r == Adopt(tab, g, fresh.seq)
           cur == stream.cursor
           seen == past.seen
           less == seen \cap 1 .. fresh.seq
<1>1. /\ fresh.st = "read" /\ tab' = r /\ fresh' = [st |-> "none"] /\ Learns(g, less)
      /\ UNCHANGED <<srv, unsent, flight, stream>>
  BY DEF Reloaded
<1>2. DOMAIN tab = TabFields
  BY TabHoldable DEF Holdable
<1>3. r.base = g /\ r.deferred = tab.deferred /\ r.aged = tab.aged
  BY <1>2, AdoptFields
<1> HIDE DEF r, less
<1>4. past'.seen = less
  BY <1>1 DEF Learns, CanvasInv
<1>5. less \subseteq seen
  BY DEF less
<1>6. FeedTrack(srv, unsent)' /\ FreshTrack(srv, fresh)'
  <2>1. FreshTrack(srv, fresh')
    BY <1>1 DEF FreshTrack
  <2> QED BY <1>1, <2>1 DEF CanvasTrack
<1>7. CASE Stuck(srv, stream, seen)
  <2>1. Stuck(srv, stream, less)
    BY <1>5, <1>7 DEF Stuck
  <2> QED BY <1>1, <1>4, <1>6, <2>1 DEF CanvasTrack
<1>8. CASE Tracked(srv, tab, flight, stream, seen)
  <2>1. tab'.base = g /\ tab'.deferred = tab.deferred /\ tab'.aged = tab.aged
    BY <1>1, <1>3
  <2>2. Orderly(srv, tab', flight, stream, less)
    BY <1>5, <1>8, <2>1 DEF Tracked, Orderly
  <2>3. ASSUME ~tab'.aged, NoneSkipped(srv, cur, less)
        PROVE  Agrees(srv, cur, tab', flight)
    <3>1. NoneSkipped(srv, cur, seen)
      BY <1>5, <2>3 DEF NoneSkipped
    <3>2. BaseAgrees(srv, cur, tab.base, tab.deferred) /\ FlightAgrees(srv, cur, flight, tab.deferred)
      BY <1>8, <2>1, <2>3, <3>1 DEF Tracked, Agrees
    <3>3. ASSUME NEW x \in Things, Handed(srv, cur, x)
          PROVE  Has(g, x) = Has(srv.rows, x)
      <4>1. \A ch \in Range(srv.log) : ch.seq <= cur => ch.seq <= fresh.seq
        BY <2>3 DEF NoneSkipped, less
      <4>2. Handed(srv, fresh.seq, x)
        BY <3>3, <4>1 DEF Handed
      <4> QED BY <1>1, <4>2 DEF CanvasTrack, FreshTrack
    <3>4. BaseAgrees(srv, cur, g, tab.deferred)
      BY <3>2, <3>3 DEF BaseAgrees
    <3> QED BY <2>1, <3>2, <3>4 DEF Agrees
  <2>4. Tracked(srv, tab', flight, stream, less)
    BY <2>2, <2>3 DEF Tracked
  <2> QED BY <1>1, <1>4, <1>6, <2>4 DEF CanvasTrack
<1> QED BY <1>7, <1>8 DEF CanvasTrack

-----------------------------------------------------------------------------
(* The server writes *)

(* The feed after a batch. *)
LEMMA FeedGrows ==
    ASSUME FeedTrack(srv, unsent), NEW un, NEW s, Batch(srv, s),
           un = unsent \/ un = Append(unsent, s.made), unsent \in Seq(Seq(Changes))
    PROVE  FeedTrack(Rows(s), un)
<1>1. Started(srv) /\ srv.log[1].seq = 1
  BY DEF FeedTrack
<1>2. /\ s \in Works /\ s.log \in Seq(ChangesTo(s.seq)) /\ ApplyChanges(Blank, s.log) = s.rows
      /\ s.made \in Seq(Changes)
  BY DEF Batch, WorkWell, Works
<1>3. s.seq \in Nat /\ s.rows \in Graphs /\ s.log \in Seq(Changes)
  BY <1>2 DEF Works
<1>4. /\ Sorted(s.log) /\ Single(Range(s.log)) /\ Rising(s.log) /\ Rising(s.made)
      /\ Range(s.log) = Range(srv.log) \cup Range(s.made)
      /\ Len(srv.log) <= Len(s.log) /\ s.log[1] = srv.log[1]
  BY DEF Batch, Grown
<1>5. s.log # <<>>
  <2>1. srv.log # <<>> /\ srv.log \in Seq(Changes)
    BY <1>1, FeedIs DEF Started
  <2>2. Len(srv.log) \in Nat /\ 1 \in 1 .. Len(srv.log)
    BY <2>1, FirstIs
  <2>3. Len(s.log) # 0
    BY <1>3, <1>4, <2>2
  <2> QED BY <2>3, NoneIs
<1>6. Rows(s).log = s.log /\ Rows(s).seq = s.seq /\ Rows(s).rows = s.rows
  BY DEF Rows
<1>7. Started(Rows(s))
  <2>1. Replays(s.log, s.rows)
    BY <1>2, <1>3, <1>4 DEF Replays
  <2> QED BY <1>2, <1>3, <1>4, <1>5, <1>6, <2>1 DEF Started
<1>8. \A k \in DOMAIN un : Rising(un[k]) /\ Range(un[k]) \subseteq Range(s.log)
  <2>1. \A k \in DOMAIN unsent : Rising(unsent[k]) /\ Range(unsent[k]) \subseteq Range(s.log)
    BY <1>4 DEF FeedTrack
  <2>2. CASE un = unsent
    BY <2>1, <2>2
  <2>3. CASE un = Append(unsent, s.made)
    <3>1. /\ DOMAIN un = 1 .. Len(unsent) + 1 /\ Len(unsent) \in Nat
          /\ DOMAIN unsent = 1 .. Len(unsent)
          /\ \A i \in 1 .. Len(unsent) : un[i] = unsent[i]
          /\ un[Len(unsent) + 1] = s.made
      BY <1>2, <2>3
    <3>2. Rising(s.made) /\ Range(s.made) \subseteq Range(s.log)
      BY <1>4
    <3>3. \A k \in DOMAIN un : k \in DOMAIN unsent \/ k = Len(unsent) + 1
      BY <3>1
    <3> QED BY <2>1, <3>1, <3>2, <3>3
  <2> QED BY <2>2, <2>3
<1> QED BY <1>1, <1>4, <1>6, <1>7, <1>8 DEF FeedTrack

(* What was handed out before a batch and not touched by it.               *)
LEMMA HandedStays ==
    ASSUME NEW sv, Started(sv), NEW s, Batch(sv, s), NEW cur \in Nat, cur <= sv.seq,
           NEW x \in Things, Handed(Rows(s), cur, x)
    PROVE  /\ Handed(sv, cur, x) /\ Untouched(s.made, x)
           /\ Has(s.rows, x) = Has(sv.rows, x)
           /\ \A def : KeptBack(Rows(s), def, x) <=> KeptBack(sv, def, x)
<1>1. /\ Rows(s).log = s.log /\ sv.seq \in Nat
      /\ Range(s.log) = Range(sv.log) \cup Range(s.made)
      /\ \A ch \in Range(s.made) : sv.seq < ch.seq
  BY FeedIs DEF Rows, Batch, Grown
<1>2. \A ch \in Range(s.made) : ch.seq \in Nat
  <2>1. s.made \in Seq(Changes)
    BY DEF Batch, WorkWell, Works
  <2> QED BY <2>1, RangeIs, ChangeSeq
<1>3. Handed(sv, cur, x)
  BY <1>1 DEF Handed
<1>4. Untouched(s.made, x)
  <2>1. ASSUME NEW ch \in Range(s.made), Touches(ch, x) PROVE FALSE
    <3>1. ch.seq <= cur
      BY <1>1, <2>1 DEF Handed
    <3> QED BY <1>1, <1>2, <2>1, <3>1
  <2> QED BY <2>1 DEF Untouched
<1>5. /\ Has(s.rows, x) = Has(sv.rows, x)
      /\ \A ch : Latest(Range(s.log), ch, x) <=> Latest(Range(sv.log), ch, x)
  BY <1>4, UntouchedStays
<1>6. \A def : KeptBack(Rows(s), def, x) <=> KeptBack(sv, def, x)
  BY <1>1, <1>5 DEF KeptBack
<1> QED BY <1>3, <1>4, <1>5, <1>6

(* Everything said of the tab and the stream stays as it was.              *)
LEMMA FreshGrows ==
    ASSUME Started(srv), FreshTrack(srv, fresh), FreshWell(fresh, srv.seq), NEW s, Batch(srv, s)
    PROVE  FreshTrack(Rows(s), fresh)
<1>1. ASSUME fresh.st = "read", NEW x \in Things, Handed(Rows(s), fresh.seq, x)
      PROVE  Has(fresh.graph, x) = Has(Rows(s).rows, x)
  <2>1. fresh.seq \in Nat /\ fresh.seq <= srv.seq
    BY <1>1, FeedIs DEF FreshWell
  <2>2. Handed(srv, fresh.seq, x) /\ Has(s.rows, x) = Has(srv.rows, x)
    BY <1>1, <2>1, HandedStays
  <2>3. Rows(s).rows = s.rows
    BY DEF Rows
  <2> QED BY <1>1, <2>2, <2>3 DEF FreshTrack
<1> QED BY <1>1 DEF FreshTrack

LEMMA StuckGrows ==
    ASSUME Started(srv), NEW s, Batch(srv, s), Stuck(srv, stream, past.seen)
    PROVE  Stuck(Rows(s), stream, past.seen)
<1>1. Rows(s).log = s.log /\ Range(srv.log) \subseteq Range(s.log) /\ Len(srv.log) <= Len(s.log)
  BY DEF Rows, Batch, Grown
<1>2. srv.log \in Seq(Changes) /\ s.log \in Seq(Changes)
  BY FeedIs DEF Batch, WorkWell, Works
<1>3. Len(srv.log) \in Nat /\ Len(s.log) \in Nat
  BY <1>2
<1>4. MaxRead < Len(s.log)
  BY <1>1, <1>3, CanvasAssumption DEF Stuck
<1> QED BY <1>1, <1>4 DEF Stuck

LEMMA OrderlyGrows ==
    ASSUME Started(srv), NEW s, Batch(srv, s), NEW seen, NEW fl,
           FlightWell(fl, srv.seq, Safe(past)),
           Orderly(srv, tab, fl, stream, seen)
    PROVE  Orderly(Rows(s), tab, fl, stream, seen)
<1>1. /\ Rows(s).log = s.log /\ Range(s.log) = Range(srv.log) \cup Range(s.made)
      /\ \A ch \in Range(s.made) : srv.seq < ch.seq
  BY DEF Rows, Batch, Grown
<1>2. \A ch \in Range(s.made) : ch.seq \in Nat
  <2>1. s.made \in Seq(Changes)
    BY DEF Batch, WorkWell, Works
  <2> QED BY <2>1, RangeIs, ChangeSeq
<1>3. Held(Rows(s), stream.cursor, tab.deferred)
  BY <1>1 DEF Orderly, Held
<1>4. Piped(Rows(s), stream)
  BY <1>1 DEF Orderly, Piped
<1>5. AnswerHeld(Rows(s), fl)
  <2> SUFFICES ASSUME fl.st = "answered" PROVE AnswerHeld(Rows(s), fl)
    BY DEF AnswerHeld
  <2>1. fl.seq \in Nat /\ srv.seq \in Nat /\ fl.seq <= srv.seq
    BY FeedIs DEF FlightWell
  <2>2. \A o \in Range(s.made) : ~(o.seq <= fl.seq)
    BY <1>1, <1>2, <2>1
  <2> QED BY <1>1, <2>2 DEF Orderly, AnswerHeld
<1> QED BY <1>3, <1>4, <1>5 DEF Orderly

LEMMA AgreesGrows ==
    ASSUME Started(srv), NEW s, Batch(srv, s), NEW cur \in Nat, cur <= srv.seq, NEW tb, NEW fl
    PROVE  /\ BaseAgrees(srv, cur, tb.base, tb.deferred)
                => BaseAgrees(Rows(s), cur, tb.base, tb.deferred)
           /\ FlightAgrees(srv, cur, fl, tb.deferred)
                => FlightAgrees(Rows(s), cur, fl, tb.deferred)
<1>1. /\ Rows(s).log = s.log /\ Rows(s).rows = s.rows /\ srv.seq \in Nat
      /\ Range(s.log) = Range(srv.log) \cup Range(s.made)
      /\ \A ch \in Range(s.made) : srv.seq < ch.seq
  BY FeedIs DEF Rows, Batch, Grown
<1>2. \A ch \in Range(s.made) : ~(ch.seq <= cur)
  <2>1. s.made \in Seq(Changes)
    BY DEF Batch, WorkWell, Works
  <2>2. \A ch \in Range(s.made) : ch.seq \in Nat
    BY <2>1, RangeIs, ChangeSeq
  <2> QED BY <1>1, <2>2
<1>3. ASSUME NEW x \in Things, Handed(Rows(s), cur, x)
      PROVE  /\ Handed(srv, cur, x) /\ Has(srv.rows, x) = Has(Rows(s).rows, x)
             /\ \A def : KeptBack(Rows(s), def, x) <=> KeptBack(srv, def, x)
  BY <1>1, <1>3, HandedStays
<1>4. ASSUME BaseAgrees(srv, cur, tb.base, tb.deferred)
      PROVE  BaseAgrees(Rows(s), cur, tb.base, tb.deferred)
  BY <1>3, <1>4 DEF BaseAgrees
<1>5. ASSUME FlightAgrees(srv, cur, fl, tb.deferred)
      PROVE  FlightAgrees(Rows(s), cur, fl, tb.deferred)
  <2>1. ASSUME fl.st = "sent", NEW x \in Things, Handed(Rows(s), cur, x),
               Untouched(tb.deferred, x)
        PROVE  Planned(fl.ops, Rows(s).rows, fl.desired, x)
    <3>1. Planned(fl.ops, srv.rows, fl.desired, x)
      BY <1>3, <1>5, <2>1 DEF FlightAgrees
    <3> QED BY <1>3, <2>1, <3>1, PlannedSame
  <2>2. ASSUME fl.st = "answered", NEW x \in Things, Handed(Rows(s), cur, x),
               Untouched(tb.deferred, x)
        PROVE  SameLack(fl.desired, Rows(s).rows, x)
    BY <1>3, <1>5, <2>2 DEF FlightAgrees, SameLack
  <2>3. ASSUME fl.st = "answered", NEW ch \in Range(Rows(s).log), fl.seq < ch.seq, ch.seq <= cur
        PROVE  ch \in Range(tb.deferred)
    BY <1>1, <1>2, <1>5, <2>3 DEF FlightAgrees
  <2> QED BY <2>1, <2>2, <2>3 DEF FlightAgrees
<1> QED BY <1>4, <1>5

LEMMA SkippedGrows ==
    ASSUME NEW s, Batch(srv, s), NEW cur, NEW seen, NoneSkipped(Rows(s), cur, seen)
    PROVE  NoneSkipped(srv, cur, seen)
BY DEF NoneSkipped, Rows, Batch, Grown

(* A batch that leaves the tab and what it has under way alone.            *)
LEMMA BatchTracks ==
    ASSUME CanvasInv, CanvasTrack, NEW s, Batch(srv, s), srv' = Rows(s),
           unsent' = unsent \/ unsent' = Append(unsent, s.made),
           UNCHANGED <<tab, flight, fresh, stream, past>>
    PROVE  CanvasTrack'
<1> DEFINE seen == past.seen
           cur == stream.cursor
<1>1. /\ FeedTrack(srv, unsent) /\ FreshTrack(srv, fresh) /\ Started(srv)
      /\ unsent \in Seq(Seq(ChangesTo(srv.seq))) /\ FreshWell(fresh, srv.seq)
      /\ FlightWell(flight, srv.seq, Safe(past))
      /\ cur \in 0 .. srv.seq /\ srv.seq \in Nat
  BY FeedIs, TabHolds DEF CanvasTrack, FeedTrack, CanvasInv, ServerWell, StreamWell, TabFacts
<1>2. unsent \in Seq(Seq(Changes))
  <2>1. Seq(ChangesTo(srv.seq)) \subseteq Seq(Changes)
    BY <1>1, ToIs
  <2> QED BY <1>1, <2>1, SeqGrows
<1>3. FeedTrack(Rows(s), unsent') /\ FreshTrack(Rows(s), fresh)
  BY <1>1, <1>2, FeedGrows, FreshGrows
<1>4. CASE Stuck(srv, stream, seen)
  <2>1. Stuck(Rows(s), stream, seen)
    BY <1>1, <1>4, StuckGrows
  <2> QED BY <1>3, <2>1 DEF CanvasTrack
<1>5. CASE Tracked(srv, tab, flight, stream, seen)
  <2>1. Orderly(Rows(s), tab, flight, stream, seen)
    BY <1>1, <1>5, OrderlyGrows DEF Tracked
  <2>2. ASSUME ~tab.aged, NoneSkipped(Rows(s), cur, seen)
        PROVE  Agrees(Rows(s), cur, tab, flight)
    <3>1. Agrees(srv, cur, tab, flight)
      BY <1>5, <2>2, SkippedGrows DEF Tracked
    <3>2. cur \in Nat /\ cur <= srv.seq
      BY <1>1
    <3> QED BY <1>1, <3>1, <3>2, AgreesGrows DEF Agrees
  <2>3. Tracked(Rows(s), tab, flight, stream, seen)
    BY <2>1, <2>2 DEF Tracked
  <2> QED BY <1>3, <2>3 DEF CanvasTrack
<1> QED BY <1>4, <1>5 DEF CanvasTrack

LEMMA OtherWritesTracks ==
    ASSUME CanvasInv, CanvasTrack, OtherWrites
    PROVE  CanvasTrack'
<1>1. PICK op \in OtherOps : Commits(ApplyOps(srv, <<op>>))
  BY DEF OtherWrites
<1> DEFINE ops == <<op>>
           s == ApplyOps(srv, ops)
<1>2. ops \in Seq(Ops)
  BY <1>1, OtherOpsAre
<1>3. Started(srv)
  BY DEF CanvasTrack, FeedTrack
<1> HIDE DEF ops
<1>4. Batch(srv, s)
  BY <1>2, <1>3, ApplyOpsAct
<1>5. /\ srv' = Rows(s) /\ unsent' = Append(unsent, s.made)
      /\ UNCHANGED <<tab, flight, fresh, stream, past>>
  BY <1>1 DEF Commits, ops
<1> HIDE DEF s
<1> QED BY <1>4, <1>5, BatchTracks

LEMMA AgentLandsTracks ==
    ASSUME CanvasInv, CanvasTrack, AgentLands
    PROVE  CanvasTrack'
<1> DEFINE one == SetNode(0, Landed, [rev |-> 1, pos |-> 0, text |-> 0])
           two == SetEdge(0, <<First, Landed>>)
           s == Logged(Begun(srv), one)
           r == Logged(s, two)
<1>1. Commits(r)
  BY DEF AgentLands
<1>2. Started(srv)
  BY DEF CanvasTrack, FeedTrack
<1>3. one \in Changes
  BY DEF SetNode, Changes, NodeChanges, NodeRecs, Cards
<1>4. two \in Changes
  BY DEF SetEdge, Changes, EdgeChanges, Links, Cards
<1> HIDE DEF one, two
<1>5. Batch(srv, s)
  BY <1>2, <1>3, BatchBegins, LoggedGrows
<1> HIDE DEF s
<1>6. Batch(srv, r)
  BY <1>2, <1>4, <1>5, LoggedGrows
<1>7. /\ srv' = Rows(r) /\ unsent' = Append(unsent, r.made)
      /\ UNCHANGED <<tab, flight, fresh, stream, past>>
  BY <1>1 DEF Commits
<1> HIDE DEF r
<1> QED BY <1>6, <1>7, BatchTracks

(* The tab's own batch: the answer says what of the feed the tab had not   *)
(* been told, and the batch has done what was asked.                       *)
LEMMA AnswerAgrees ==
    ASSUME Started(srv), NEW s, Batch(srv, s), NEW fl, fl.st = "sent", fl.since \in Nat,
           NEW gap, NEW cur \in Nat, cur <= srv.seq, NEW def,
           \A op \in Range(fl.ops), x \in Things :
               Wants(op, x, srv.rows) => ~Untouched(s.made, x)
    PROVE  LET ans == [st |-> "answered", desired |-> fl.desired, seq |-> s.seq, gap |-> gap,
                       changes |-> After(s.log, fl.since)]
           IN  /\ AnswerHeld(Rows(s), ans)
               /\ FlightAgrees(srv, cur, fl, def) => FlightAgrees(Rows(s), cur, ans, def)
<1> DEFINE chs == After(s.log, fl.since)
           ans == [st |-> "answered", desired |-> fl.desired, seq |-> s.seq, gap |-> gap,
                   changes |-> chs]
<1>1. /\ Rows(s).log = s.log /\ Rows(s).rows = s.rows /\ Sorted(s.log)
      /\ s.log \in Seq(ChangesTo(s.seq)) /\ s.log \in Seq(Changes) /\ s.seq \in Nat
  BY DEF Rows, Batch, WorkWell, Works, Grown
<1>2. AfterIs(chs, s.log, fl.since)
  BY <1>1, AfterFacts
<1>3. \A ch \in Range(s.log) : ch.seq \in Nat /\ ch.seq <= s.seq
  BY <1>1, ToIs
<1> HIDE DEF chs
<1>4. /\ ans.st = "answered" /\ ans.desired = fl.desired /\ ans.seq = s.seq
      /\ ans.changes = chs
  OBVIOUS
<1> HIDE DEF ans
<1>5. Sorted(chs) /\ Range(chs) = {ch \in Range(s.log) : ch.seq > fl.since}
  BY <1>1, <1>2 DEF AfterIs
<1>6. \A ch \in Range(chs), o \in Range(s.log) : ch.seq <= o.seq => o \in Range(chs)
  BY <1>3, <1>5
<1>7. AnswerHeld(Rows(s), ans)
  BY <1>1, <1>4, <1>5, <1>6 DEF AnswerHeld
<1>8. ASSUME FlightAgrees(srv, cur, fl, def)
      PROVE  FlightAgrees(Rows(s), cur, ans, def)
  <2>1. ASSUME NEW x \in Things, Handed(Rows(s), cur, x), Untouched(def, x)
        PROVE  SameLack(fl.desired, s.rows, x)
    <3>1. /\ Handed(srv, cur, x) /\ Untouched(s.made, x)
          /\ Has(s.rows, x) = Has(srv.rows, x)
      BY <2>1, HandedStays
    <3>2. Planned(fl.ops, srv.rows, fl.desired, x)
      BY <1>8, <2>1, <3>1 DEF FlightAgrees
    <3> QED BY <3>1, <3>2 DEF Planned, SameLack
  <2>2. \A ch \in Range(s.log) : ~(s.seq < ch.seq)
    BY <1>1, <1>3
  <2> QED BY <1>1, <1>4, <2>1, <2>2 DEF FlightAgrees
<1> QED BY <1>7, <1>8 DEF ans, chs

LEMMA CommitOpsTracks ==
    ASSUME CanvasInv, CanvasTrack, CommitOps
    PROVE  CanvasTrack'
<1> DEFINE s == ApplyOps(srv, flight.ops)
           gap == ChangesSince(s, flight.since).gap
           ans == [st |-> "answered", desired |-> flight.desired, seq |-> s.seq, gap |-> gap,
                   changes |-> After(s.log, flight.since)]
           seen == past.seen
           cur == stream.cursor
           none == [st |-> "none"]
<1>1. /\ flight.st = "sent"
      /\ IF s.ok
         THEN /\ srv' = Rows(s)
              /\ unsent' = IF s.made = <<>> THEN unsent ELSE Append(unsent, s.made)
              /\ flight' = ans
         ELSE flight' = [st |-> "refused"] /\ UNCHANGED <<srv, unsent>>
      /\ UNCHANGED <<tab, fresh, stream, past>>
  BY DEF CommitOps, ChangesSince
<1>2. /\ FeedTrack(srv, unsent) /\ FreshTrack(srv, fresh) /\ Started(srv)
      /\ unsent \in Seq(Seq(ChangesTo(srv.seq))) /\ FreshWell(fresh, srv.seq)
      /\ FlightWell(flight, srv.seq, Safe(past))
      /\ cur \in 0 .. srv.seq /\ srv.seq \in Nat
  BY FeedIs, TabHolds DEF CanvasTrack, FeedTrack, CanvasInv, ServerWell, StreamWell, TabFacts
<1>3. unsent \in Seq(Seq(Changes))
  <2>1. Seq(ChangesTo(srv.seq)) \subseteq Seq(Changes)
    BY <1>2, ToIs
  <2> QED BY <1>2, <2>1, SeqGrows
<1>4. flight.ops \in Seq(Ops) /\ flight.since \in Nat
  <2>1. flight.ops \in Seq(SafeOps(Safe(past))) /\ flight.since \in Nat
    BY <1>1, <1>2 DEF FlightWell
  <2>2. SafeOps(Safe(past)) \subseteq Ops
    BY DEF SafeOps
  <2> QED BY <2>1, <2>2, SeqGrows
<1>5. /\ Batch(srv, s)
      /\ s.ok => \A op \in Range(flight.ops), x \in Things :
                    Wants(op, x, srv.rows) => ~Untouched(s.made, x)
  BY <1>2, <1>4, ApplyOpsAct
<1> HIDE DEF s, gap
<1>6. CASE ~s.ok
  <2>1. flight'.st = "refused" /\ UNCHANGED <<srv, unsent, tab, fresh, stream, past>>
    BY <1>1, <1>6
  <2> QED BY <2>1, ApartTracks
<1>7. CASE s.ok
  <2>1. srv' = Rows(s) /\ flight' = ans /\ (unsent' = unsent \/ unsent' = Append(unsent, s.made))
    BY <1>1, <1>7
  <2>2. FeedTrack(Rows(s), unsent') /\ FreshTrack(Rows(s), fresh)
    BY <1>2, <1>3, <1>5, <2>1, FeedGrows, FreshGrows
  <2>3. CASE Stuck(srv, stream, seen)
    <3>1. Stuck(Rows(s), stream, seen)
      BY <1>2, <1>5, <2>3, StuckGrows
    <3> QED BY <1>1, <2>1, <2>2, <3>1 DEF CanvasTrack
  <2>4. CASE Tracked(srv, tab, flight, stream, seen)
    <3>1. cur \in Nat /\ cur <= srv.seq
      BY <1>2
    <3>2. /\ AnswerHeld(Rows(s), ans)
          /\ FlightAgrees(srv, cur, flight, tab.deferred)
                => FlightAgrees(Rows(s), cur, ans, tab.deferred)
      <4> HIDE DEF cur
      <4> QED BY <1>1, <1>2, <1>4, <1>5, <1>7, <3>1, AnswerAgrees
    <3> HIDE DEF ans
    <3>3. Orderly(Rows(s), tab, none, stream, seen)
      <4>1. FlightWell(none, srv.seq, Safe(past)) /\ AnswerHeld(srv, none)
        BY DEF FlightWell, AnswerHeld
      <4>2. Orderly(srv, tab, none, stream, seen)
        BY <2>4, <4>1 DEF Tracked, Orderly
      <4> HIDE DEF none
      <4> QED BY <1>2, <1>5, <4>1, <4>2, OrderlyGrows
    <3>4. Orderly(Rows(s), tab, ans, stream, seen)
      BY <3>2, <3>3 DEF Orderly
    <3>5. ASSUME ~tab.aged, NoneSkipped(Rows(s), cur, seen)
          PROVE  Agrees(Rows(s), cur, tab, ans)
      <4>1. Agrees(srv, cur, tab, flight)
        BY <1>5, <2>4, <3>5, SkippedGrows DEF Tracked
      <4>2. BaseAgrees(Rows(s), cur, tab.base, tab.deferred)
        BY <1>2, <1>5, <3>1, <4>1, AgreesGrows DEF Agrees
      <4> QED BY <3>2, <4>1, <4>2 DEF Agrees
    <3>6. Tracked(Rows(s), tab, ans, stream, seen)
      BY <3>4, <3>5 DEF Tracked
    <3> QED BY <1>1, <2>1, <2>2, <3>6 DEF CanvasTrack
  <2> QED BY <2>3, <2>4 DEF CanvasTrack
<1> QED BY <1>6, <1>7

-----------------------------------------------------------------------------
(* The change stream *)

(* A step of the connection alone. *)
LEMMA StreamTracks ==
    ASSUME CanvasTrack, UNCHANGED <<srv, tab, flight, past>>,
           fresh' = fresh \/ fresh'.st # "read", FeedTrack(srv, unsent'),
           Stuck(srv, stream, past.seen) => Stuck(srv, stream', past.seen),
           Tracked(srv, tab, flight, stream, past.seen) =>
               \/ Stuck(srv, stream', past.seen)
               \/ /\ stream'.cursor = stream.cursor /\ stream'.st # "gap"
                  /\ Piped(srv, stream')
    PROVE  CanvasTrack'
<1>1. FeedTrack(srv, unsent)' /\ FreshTrack(srv, fresh)'
  BY DEF CanvasTrack, FreshTrack
<1>2. CASE Stuck(srv, stream', past.seen)
  BY <1>1, <1>2 DEF CanvasTrack
<1>3. CASE /\ Tracked(srv, tab, flight, stream, past.seen)
           /\ stream'.cursor = stream.cursor /\ stream'.st # "gap" /\ Piped(srv, stream')
  <2>1. Orderly(srv, tab, flight, stream', past.seen)
    BY <1>3 DEF Tracked, Orderly
  <2>2. Tracked(srv, tab, flight, stream', past.seen)
    BY <1>3, <2>1 DEF Tracked
  <2> QED BY <1>1, <2>2 DEF CanvasTrack
<1> QED BY <1>2, <1>3 DEF CanvasTrack

(* A gap is a canvas with more changes than a read gives, one of which the *)
(* tab was not given.                                                      *)
LEMMA OpenStreamTracks ==
    ASSUME CanvasInv, CanvasTrack, OpenStream
    PROVE  CanvasTrack'
<1> DEFINE cur == stream.cursor
           log == srv.log
           missed == After(log, cur)
           last == HighestSeq(missed, cur)
           gap == \/ Len(missed) > MaxRead
                  \/ cur > 0 /\ missed # <<>> /\ log[1].seq > cur + 1
           seen == past.seen
<1>1. /\ stream.st = "down" /\ UNCHANGED <<srv, unsent, tab, flight, fresh, past>>
      /\ stream' = IF gap THEN [st |-> "gap", cursor |-> cur]
                   ELSE [st |-> "open", cursor |-> cur, subscribed |-> FALSE,
                         pipe |-> missed, last |-> last]
  BY DEF OpenStream, ChangesSince
<1>2. /\ FeedTrack(srv, unsent) /\ Started(srv) /\ log[1].seq = 1 /\ cur \in Nat
      /\ log \in Seq(ChangesTo(srv.seq)) /\ log \in Seq(Changes) /\ srv.seq \in Nat
  BY FeedIs, ServerFacts DEF CanvasTrack, FeedTrack, CanvasInv, StreamWell
<1>3. AfterIs(missed, log, cur)
  BY <1>2, AfterFacts
<1>4. /\ missed \in Seq(Changes) /\ Len(missed) <= Len(log) /\ Rising(missed)
      /\ Range(missed) = {ch \in Range(log) : ch.seq > cur}
      /\ (\A ch \in Range(log) : ch.seq > cur) => missed = log
  BY <1>2, <1>3 DEF AfterIs, Started
<1> HIDE DEF missed
<1>5. Len(missed) \in Nat /\ Len(log) \in Nat
  BY <1>2, <1>4
<1>6. /\ last \in Nat /\ cur <= last /\ \A ch \in Range(missed) : ch.seq <= last
  BY <1>2, <1>4, HighestAbove
<1> HIDE DEF last
<1>7. gap <=> Len(missed) > MaxRead
  <2>1. ~(cur > 0 /\ log[1].seq > cur + 1)
    BY <1>2
  <2> QED BY <2>1
<1> HIDE DEF gap
<1>8. CASE Len(missed) > MaxRead
  <2>1. stream'.st = "gap" /\ stream'.cursor = cur
    BY <1>1, <1>7, <1>8
  <2>2. ASSUME seen \subseteq 1 .. cur PROVE \E ch \in Range(log) : ch.seq \notin seen
    <3>1. 1 \in 1 .. Len(missed)
      BY <1>5, <1>8, CanvasAssumption
    <3>2. missed[1] \in Range(log) /\ missed[1].seq > cur
      BY <1>4, <3>1, RangeIs
    <3>3. missed[1].seq \in Nat
      BY <3>2, FeedIs, <1>2
    <3> QED BY <1>2, <2>2, <3>2, <3>3
  <2>3. Len(log) > MaxRead
    BY <1>4, <1>5, <1>8, CanvasAssumption
  <2>4. Stuck(srv, stream, seen) => Stuck(srv, stream', seen)
    BY <2>1 DEF Stuck
  <2>5. Tracked(srv, tab, flight, stream, seen) => Stuck(srv, stream', seen)
    BY <2>1, <2>2, <2>3 DEF Tracked, Orderly, Stuck
  <2> QED BY <1>1, <1>2, <2>4, <2>5, StreamTracks
<1>9. CASE ~(Len(missed) > MaxRead)
  <2>1. /\ stream'.st = "open" /\ stream'.cursor = cur /\ stream'.pipe = missed
        /\ stream'.last = last
    BY <1>1, <1>7, <1>9
  <2>2. ~Stuck(srv, stream, seen)
    <3>1. SUFFICES ASSUME Stuck(srv, stream, seen) PROVE FALSE
      OBVIOUS
    <3>2. cur = 0 /\ Len(log) > MaxRead
      BY <1>1, <3>1 DEF Stuck
    <3>3. \A ch \in Range(log) : ch.seq > 0
      BY <1>2, RangeIs DEF ChangesTo
    <3>4. missed = log
      BY <1>4, <3>2, <3>3
    <3> QED BY <1>9, <3>2, <3>4
  <2>3. ASSUME NEW ch \in Range(missed) PROVE cur < ch.seq /\ ch.seq <= last
    BY <1>4, <1>6, <2>3
  <2>4. Range(missed) \subseteq Range(log)
    BY <1>4
  <2>5. Piped(srv, stream')
    BY <1>4, <1>6, <2>1, <2>3, <2>4 DEF Piped
  <2> QED BY <1>1, <1>2, <2>1, <2>2, <2>5, StreamTracks
<1> QED BY <1>8, <1>9

LEMMA SubscribeTracks ==
    ASSUME CanvasInv, CanvasTrack, Subscribe
    PROVE  CanvasTrack'
<1>1. /\ stream.st = "open" /\ stream' = [stream EXCEPT !.subscribed = TRUE]
      /\ UNCHANGED <<srv, unsent, tab, flight, fresh, past>>
  BY DEF Subscribe
<1>2. DOMAIN stream = StreamFields
  BY <1>1 DEF CanvasInv, StreamWell
<1>3. /\ stream'.st = stream.st /\ stream'.cursor = stream.cursor
      /\ stream'.pipe = stream.pipe /\ stream'.last = stream.last
  BY <1>1, <1>2 DEF StreamFields
<1>4. Tracked(srv, tab, flight, stream, past.seen) => Piped(srv, stream')
  BY <1>3 DEF Tracked, Orderly, Piped
<1>5. ~Stuck(srv, stream, past.seen)
  BY <1>1 DEF Stuck
<1> QED BY <1>1, <1>3, <1>4, <1>5, StreamTracks DEF CanvasTrack

(* What is left of the batches to publish. *)
LEMMA FeedLess ==
    ASSUME FeedTrack(srv, unsent), NEW S, unsent \in Seq(S), NEW i \in DOMAIN unsent
    PROVE  FeedTrack(srv, RemoveAt(unsent, i))
<1> DEFINE a == SubSeq(unsent, 1, i - 1)
           b == SubSeq(unsent, i + 1, Len(unsent))
           r == RemoveAt(unsent, i)
<1>1. i \in 1 .. Len(unsent) /\ Len(unsent) \in Nat
  OBVIOUS
<1>2. r = a \o b
  BY DEF RemoveAt
<1>3. a \in Seq(S) /\ Range(a) \subseteq Range(unsent)
  <2>1. 1 \in 1 .. Len(unsent) + 1 /\ i - 1 \in 0 .. Len(unsent)
    BY <1>1
  <2> QED BY <2>1, SortedPart
<1>4. b \in Seq(S) /\ Range(b) \subseteq Range(unsent)
  <2>1. i + 1 \in 1 .. Len(unsent) + 1 /\ Len(unsent) \in 0 .. Len(unsent)
    BY <1>1
  <2> QED BY <2>1, SortedPart
<1> HIDE DEF a, b
<1>5. r \in Seq(S) /\ Range(r) \subseteq Range(unsent)
  BY <1>2, <1>3, <1>4, ConcatIs
<1> HIDE DEF r
<1>6. ASSUME NEW k \in DOMAIN r PROVE Rising(r[k]) /\ Range(r[k]) \subseteq Range(srv.log)
  <2>1. r[k] \in Range(unsent)
    BY <1>5, RangeIs
  <2>2. PICK j \in DOMAIN unsent : r[k] = unsent[j]
    BY <2>1, RangeIs
  <2> QED BY <2>2 DEF FeedTrack
<1> QED BY <1>6 DEF FeedTrack, r

LEMMA PublishTracks ==
    ASSUME CanvasInv, CanvasTrack, NEW i, Publish(i)
    PROVE  CanvasTrack'
<1> DEFINE batch == unsent[i]
           passed == After(batch, stream.last)
           highest == HighestSeq(batch, stream.last)
           seen == past.seen
<1>1. /\ i \in DOMAIN unsent /\ unsent' = RemoveAt(unsent, i)
      /\ IF Listening
         THEN stream' = [stream EXCEPT !.pipe = @ \o passed, !.last = HighestSeq(unsent[i], @)]
         ELSE UNCHANGED stream
      /\ UNCHANGED <<srv, tab, flight, fresh, past>>
  BY DEF Publish, Passed
<1>2. /\ FeedTrack(srv, unsent) /\ srv.seq \in Nat /\ StreamWell(stream, srv.seq)
      /\ unsent \in Seq(Seq(ChangesTo(srv.seq)))
  BY ServerFacts DEF CanvasInv, ServerWell, CanvasTrack
<1>3. FeedTrack(srv, unsent')
  BY <1>1, <1>2, FeedLess
<1>4. CASE ~Listening
  <2>1. stream' = stream
    BY <1>1, <1>4
  <2> QED BY <1>1, <1>3, <2>1, StreamTracks DEF Tracked, Orderly
<1>5. CASE Listening
  <2>1. /\ stream.st = "open" /\ DOMAIN stream = StreamFields /\ stream.last \in Nat
        /\ stream.cursor \in Nat /\ stream.pipe \in Seq(ChangesTo(srv.seq))
        /\ batch \in Seq(ChangesTo(srv.seq))
    BY <1>1, <1>2, <1>5 DEF Listening, StreamWell
  <2>2. stream.pipe \in Seq(Changes) /\ batch \in Seq(Changes)
    BY <1>2, <2>1, ToIs
  <2>3. Rising(batch) /\ Range(batch) \subseteq Range(srv.log)
    BY <1>1, <1>2 DEF FeedTrack
  <2> HIDE DEF batch
  <2>4. AfterIs(passed, batch, stream.last)
    BY <2>2, AfterFacts
  <2>5. /\ passed \in Seq(Changes) /\ Rising(passed)
        /\ Range(passed) = {ch \in Range(batch) : ch.seq > stream.last}
    BY <2>3, <2>4 DEF AfterIs
  <2>6. /\ highest \in Nat /\ stream.last <= highest
        /\ \A ch \in Range(batch) : ch.seq <= highest
    BY <2>1, <2>2, HighestAbove
  <2>7. stream' = [stream EXCEPT !.pipe = stream.pipe \o passed, !.last = highest]
    BY <1>1, <1>5, <2>1 DEF batch
  <2> HIDE DEF passed, highest
  <2>8. /\ stream'.st = "open" /\ stream'.cursor = stream.cursor
        /\ stream'.pipe = stream.pipe \o passed /\ stream'.last = highest
    BY <2>1, <2>7 DEF StreamFields
  <2>9. ASSUME Tracked(srv, tab, flight, stream, seen)
        PROVE  Piped(srv, stream')
    <3>1. /\ Rising(stream.pipe) /\ Range(stream.pipe) \subseteq Range(srv.log)
          /\ stream.cursor <= stream.last
          /\ \A ch \in Range(stream.pipe) : stream.cursor < ch.seq /\ ch.seq <= stream.last
      BY <2>1, <2>9 DEF Tracked, Orderly, Piped
    <3>2. \A ch \in Range(stream.pipe) \cup Range(passed) : ch.seq \in Nat
      BY <2>2, <2>5, RangeIs, ChangeSeq
    <3>3. \A a \in Range(stream.pipe), b \in Range(passed) : a.seq < b.seq
      BY <2>1, <2>5, <3>1, <3>2
    <3>4. Rising(stream.pipe \o passed)
      BY <2>2, <2>5, <3>1, <3>3, RisingConcat
    <3>5. Range(stream.pipe \o passed) = Range(stream.pipe) \cup Range(passed)
      BY <2>2, <2>5, ConcatIs
    <3>6. ASSUME NEW ch \in Range(stream.pipe) \cup Range(passed)
          PROVE  stream.cursor < ch.seq /\ ch.seq <= highest
      <4>1. CASE ch \in Range(stream.pipe)
        BY <2>1, <2>6, <3>1, <3>2, <4>1
      <4>2. CASE ch \in Range(passed)
        BY <2>1, <2>5, <2>6, <3>1, <3>2, <4>2
      <4> QED BY <3>6, <4>1, <4>2
    <3>7. stream.cursor <= highest
      BY <2>1, <2>6, <3>1
    <3>8. Range(stream.pipe \o passed) \subseteq Range(srv.log)
      BY <2>3, <2>5, <3>1, <3>5
    <3> QED BY <2>8, <3>4, <3>5, <3>6, <3>7, <3>8 DEF Piped
  <2>10. ~Stuck(srv, stream, seen)
    BY <2>1 DEF Stuck
  <2> QED BY <1>1, <1>3, <2>8, <2>9, <2>10, StreamTracks
<1> QED BY <1>4, <1>5

LEMMA PublishFailsTracks ==
    ASSUME CanvasInv, CanvasTrack, NEW i, PublishFails(i)
    PROVE  CanvasTrack'
<1>1. /\ i \in DOMAIN unsent /\ unsent' = RemoveAt(unsent, i)
      /\ UNCHANGED <<srv, tab, flight, fresh, stream, past>>
  BY DEF PublishFails
<1>2. FeedTrack(srv, unsent')
  BY <1>1, FeedLess DEF CanvasInv, ServerWell, CanvasTrack
<1> QED BY <1>1, <1>2, StreamTracks DEF Tracked, Orderly

LEMMA ReadGapTracks ==
    ASSUME CanvasTrack, ReadGap
    PROVE  CanvasTrack'
<1>1. /\ stream.st = "gap" /\ Reload /\ stream' = Close(0)
      /\ UNCHANGED <<srv, unsent, tab, flight, past>>
  BY DEF ReadGap
<1>2. fresh' = fresh \/ fresh'.st # "read"
  BY <1>1 DEF Reload
<1>3. stream'.st = "down" /\ stream'.cursor = 0
  BY <1>1 DEF Close
<1>4. ~Tracked(srv, tab, flight, stream, past.seen)
  BY <1>1 DEF Tracked, Orderly
<1>5. Stuck(srv, stream, past.seen) => Stuck(srv, stream', past.seen)
  BY <1>3 DEF Stuck
<1> QED BY <1>1, <1>2, <1>4, <1>5, StreamTracks DEF CanvasTrack

LEMMA DropStreamTracks ==
    ASSUME CanvasTrack, DropStream
    PROVE  CanvasTrack'
<1>1. /\ stream.st = "open" /\ stream' = Close(stream.cursor)
      /\ UNCHANGED <<srv, unsent, tab, flight, fresh, past>>
  BY DEF DropStream
<1>2. stream'.st = "down" /\ stream'.cursor = stream.cursor
  BY <1>1 DEF Close
<1>3. ~Stuck(srv, stream, past.seen) /\ Piped(srv, stream')
  BY <1>1, <1>2 DEF Stuck, Piped
<1> QED BY <1>1, <1>2, <1>3, StreamTracks DEF CanvasTrack

(* A read of the stream hands out every change there is up to where it     *)
(* comes to, or one of them is never given.                                *)
LEMMA ReadOn ==
    ASSUME NEW sv, Started(sv), NEW cur \in Nat, NEW at \in Nat, cur <= at,
           NEW seen, seen \subseteq 1 .. cur, NEW batch, Range(batch) \subseteq Range(sv.log),
           \A ch \in Range(batch) : cur < ch.seq /\ ch.seq <= at,
           NoneSkipped(sv, at, seen \cup {ch.seq : ch \in Range(batch)})
    PROVE  /\ NoneSkipped(sv, cur, seen)
           /\ \A ch \in Range(sv.log) : cur < ch.seq /\ ch.seq <= at => ch \in Range(batch)
           /\ \A x \in Things : Handed(sv, at, x) =>
                 KeptBack(sv, batch, x) \/ (Untouched(batch, x) /\ Handed(sv, cur, x))
<1>1. \A ch \in Range(sv.log) : ch.seq \in Nat
  BY FeedIs
<1>2. ASSUME NEW ch \in Range(sv.log), ch.seq <= cur PROVE ch.seq \in seen
  <2>1. ch.seq \in seen \/ \E o \in Range(batch) : ch.seq = o.seq
    BY <1>1, <1>2 DEF NoneSkipped
  <2> QED BY <1>1, <1>2, <2>1
<1>3. ASSUME NEW ch \in Range(sv.log), cur < ch.seq, ch.seq <= at PROVE ch \in Range(batch)
  <2>1. ch.seq \notin seen
    BY <1>1, <1>3
  <2>2. PICK o \in Range(batch) : ch.seq = o.seq
    BY <1>3, <2>1 DEF NoneSkipped
  <2>3. Single(Range(sv.log)) /\ o \in Range(sv.log)
    BY FeedIs
  <2> QED BY <2>2, <2>3 DEF Single
<1>4. ASSUME NEW x \in Things, Handed(sv, at, x), ~KeptBack(sv, batch, x)
      PROVE  Untouched(batch, x) /\ Handed(sv, cur, x)
  <2>1. ASSUME NEW o \in Range(batch), Touches(o, x) PROVE FALSE
    <3>1. ~Untouched(sv.log, x)
      BY <2>1 DEF Untouched
    <3>2. PICK ch : Latest(Range(sv.log), ch, x)
      BY <3>1, FeedIs, RowsShow
    <3>3. ch \in Range(sv.log) /\ o \in Range(sv.log) /\ o.seq <= ch.seq /\ ch.seq <= at
      BY <1>4, <2>1, <3>2 DEF Latest, Handed
    <3>4. cur < ch.seq
      BY <1>1, <2>1, <3>3
    <3>5. ch \in Range(batch)
      BY <1>3, <3>3, <3>4
    <3> QED BY <1>4, <3>2, <3>5 DEF KeptBack
  <2>2. ASSUME NEW ch \in Range(sv.log), Touches(ch, x) PROVE ch.seq <= cur
    <3>1. ch.seq <= at /\ ch \notin Range(batch)
      BY <1>4, <2>1, <2>2 DEF Handed
    <3> QED BY <1>1, <1>3, <3>1
  <2> QED BY <2>1, <2>2 DEF Untouched, Handed
<1> QED BY <1>2, <1>3, <1>4 DEF NoneSkipped

LEMMA SeqsAre ==
    ASSUME NEW chs \in Seq(Changes)
    PROVE  Seqs(chs) = {ch.seq : ch \in Range(chs)}
<1>1. \A z : z \in Seqs(chs) => \E ch \in Range(chs) : z = ch.seq
  BY RangeIs DEF Seqs
<1>2. ASSUME NEW ch \in Range(chs) PROVE ch.seq \in Seqs(chs)
  <2>1. PICK i \in DOMAIN chs : ch = chs[i]
    BY RangeIs
  <2> QED BY <2>1 DEF Seqs
<1> QED BY <1>1, <1>2

(* Frames kept back behind those that already are.                         *)
LEMMA KeepsBack ==
    ASSUME NEW cur \in Nat, NEW at \in Nat, cur <= at, NEW seen,
           Started(srv), Orderly(srv, tab, flight, stream, seen), stream.cursor = cur,
           NEW batch \in Seq(Changes), Sorted(batch), Range(batch) \subseteq Range(srv.log),
           tab.deferred \in Seq(Changes),
           \A ch \in Range(batch) : cur < ch.seq /\ ch.seq <= at
    PROVE  /\ Held(srv, at, tab.deferred) /\ Held(srv, at, tab.deferred \o batch)
           /\ seen \cup {ch.seq : ch \in Range(batch)} \subseteq 1 .. at
<1> DEFINE def == tab.deferred
<1>1. /\ Sorted(def) /\ Range(def) \subseteq Range(srv.log)
      /\ \A ch \in Range(def) : ch.seq <= cur
      /\ seen \subseteq 1 .. cur
  BY DEF Orderly, Held
<1>2. \A ch \in Range(srv.log) : ch.seq \in Nat
  BY FeedIs
<1>3. \A ch \in Range(def) : ch.seq <= at
  BY <1>1, <1>2
<1>4. \A a \in Range(def), b \in Range(batch) : a.seq <= b.seq
  BY <1>1, <1>2
<1>5. Sorted(def \o batch) /\ Range(def \o batch) = Range(def) \cup Range(batch)
  BY <1>1, <1>4, SortedConcat, ConcatIs
<1>6. Held(srv, at, def \o batch)
  BY <1>1, <1>3, <1>5 DEF Held
<1>7. seen \cup {ch.seq : ch \in Range(batch)} \subseteq 1 .. at
  <2>1. \A ch \in Range(batch) : ch.seq \in 1 .. at
    BY <1>2
  <2>2. 1 .. cur \subseteq 1 .. at
    OBVIOUS
  <2> QED BY <1>1, <2>1, <2>2
<1>8. Held(srv, at, def)
  BY <1>1, <1>3 DEF Held
<1> QED BY <1>6, <1>7, <1>8

(* What agreed before a read agrees after it, if the frames are kept back  *)
LEMMA AgreesAside ==
    ASSUME NEW cur \in Nat, NEW at \in Nat, cur <= at, NEW seen, seen \subseteq 1 .. cur,
           Started(srv), NEW batch \in Seq(Changes), Range(batch) \subseteq Range(srv.log),
           tab.deferred \in Seq(Changes),
           \A ch \in Range(batch) : cur < ch.seq /\ ch.seq <= at,
           NoneSkipped(srv, at, seen \cup {ch.seq : ch \in Range(batch)}),
           Agrees(srv, cur, tab, flight)
    PROVE  /\ BaseAgrees(srv, at, tab.base, tab.deferred \o batch)
           /\ FlightAgrees(srv, at, flight, tab.deferred \o batch)
<1> DEFINE def == tab.deferred
           both == def \o batch
<1>1. Range(both) = Range(def) \cup Range(batch)
  BY ConcatIs
<1> HIDE DEF both
<1>2. /\ \A ch \in Range(srv.log) : cur < ch.seq /\ ch.seq <= at => ch \in Range(batch)
      /\ \A x \in Things : Handed(srv, at, x) =>
            KeptBack(srv, batch, x) \/ (Untouched(batch, x) /\ Handed(srv, cur, x))
  BY ReadOn
<1>3. BaseAgrees(srv, cur, tab.base, def) /\ FlightAgrees(srv, cur, flight, def)
  BY DEF Agrees
<1>4. /\ \A x : KeptBack(srv, batch, x) \/ KeptBack(srv, def, x) => KeptBack(srv, both, x)
      /\ \A x : Untouched(both, x) <=> Untouched(def, x) /\ Untouched(batch, x)
  BY <1>1 DEF KeptBack, Untouched
<1>5. BaseAgrees(srv, at, tab.base, both)
  BY <1>2, <1>3, <1>4 DEF BaseAgrees
<1>6. ASSUME NEW x \in Things, Handed(srv, at, x), Untouched(both, x)
      PROVE  Handed(srv, cur, x) /\ Untouched(def, x)
  <2>1. ~KeptBack(srv, batch, x)
    BY <1>4, <1>6 DEF KeptBack, Untouched, Latest
  <2> QED BY <1>2, <1>4, <1>6, <2>1
<1>7. ASSUME flight.st = "answered", NEW ch \in Range(srv.log), flight.seq < ch.seq, ch.seq <= at
      PROVE  ch \in Range(both)
  <2>1. ch.seq \in Nat
    BY FeedIs
  <2>2. CASE ch.seq <= cur
    BY <1>1, <1>3, <1>7, <2>2 DEF FlightAgrees
  <2>3. CASE cur < ch.seq
    BY <1>1, <1>2, <1>7, <2>3
  <2> QED BY <2>1, <2>2, <2>3
<1>8. FlightAgrees(srv, at, flight, both)
  BY <1>3, <1>6, <1>7 DEF FlightAgrees
<1> QED BY <1>5, <1>8 DEF both

(* and if they are folded in with none kept back.                          *)
LEMMA AgreesIn ==
    ASSUME NEW cur \in Nat, NEW at \in Nat, cur <= at, NEW seen, seen \subseteq 1 .. cur,
           Started(srv), NEW batch \in Seq(Changes), Sorted(batch),
           Range(batch) \subseteq Range(srv.log), tab.base \in Graphs,
           \A ch \in Range(batch) : cur < ch.seq /\ ch.seq <= at,
           NoneSkipped(srv, at, seen \cup {ch.seq : ch \in Range(batch)}),
           Agrees(srv, cur, tab, flight), tab.deferred = <<>>
    PROVE  BaseAgrees(srv, at, ApplyChanges(tab.base, batch), tab.deferred)
<1>1. \A x \in Things : Handed(srv, at, x) =>
          KeptBack(srv, batch, x) \/ (Untouched(batch, x) /\ Handed(srv, cur, x))
  BY ReadOn
<1>2. \A x : Untouched(tab.deferred, x) /\ ~KeptBack(srv, tab.deferred, x)
  BY NoneIs DEF Untouched, KeptBack
<1>3. ASSUME NEW x \in Things, Handed(srv, cur, x) PROVE Has(tab.base, x) = Has(srv.rows, x)
  BY <1>2, <1>3 DEF Agrees, BaseAgrees
<1>4. ASSUME NEW x \in Things, Handed(srv, at, x)
      PROVE  Has(ApplyChanges(tab.base, batch), x) = Has(srv.rows, x)
  <2>1. KeptBack(srv, batch, x) \/ (Untouched(batch, x) /\ Has(tab.base, x) = Has(srv.rows, x))
    BY <1>1, <1>3, <1>4
  <2> QED BY <2>1, FoldAgrees
<1> QED BY <1>2, <1>4 DEF BaseAgrees

LEMMA ReadStreamTracks ==
    ASSUME CanvasInv, CanvasTrack, NEW n, ReadStream(n)
    PROVE  CanvasTrack'
<1> DEFINE pipe == stream.pipe
           batch == SubSeq(pipe, 1, n)
           rest == SubSeq(pipe, n + 1, Len(pipe))
           at == batch[n].seq
           cur == stream.cursor
           seen == past.seen
           more == seen \cup {ch.seq : ch \in Range(batch)}
           now == [tab EXCEPT !.aged = @ \/ tab.deferred # <<>>]
<1>1. /\ stream.st = "open" /\ n \in DOMAIN pipe
      /\ stream' = [stream EXCEPT !.pipe = SubSeq(@, n + 1, Len(@)), !.cursor = at]
      /\ IF Busy \/ tab.queue # NoGraph
         THEN tab' = [tab EXCEPT !.deferred = @ \o batch]
         ELSE tab' = FoldIn(now, batch, at)
      /\ Learns(tab'.base, seen \cup Seqs(batch))
      /\ UNCHANGED <<srv, unsent, flight, fresh>>
  BY DEF ReadStream
<1>2. /\ DOMAIN stream = StreamFields /\ cur \in Nat /\ srv.seq \in Nat
      /\ pipe \in Seq(ChangesTo(srv.seq)) /\ Started(srv) /\ Holdable(tab)
      /\ stream.last \in Nat
  BY <1>1, ServerFacts, TabHoldable
     DEF CanvasInv, StreamWell, CanvasTrack, FeedTrack
<1>3. /\ pipe \in Seq(Changes) /\ Len(pipe) \in Nat /\ n \in 1 .. Len(pipe)
      /\ tab.deferred \in Seq(Changes) /\ tab.base \in Graphs /\ DOMAIN tab = TabFields
  BY <1>1, <1>2, ToIs DEF Holdable
<1>4. Tracked(srv, tab, flight, stream, seen)
  BY <1>1 DEF CanvasTrack, Stuck
<1>5. Orderly(srv, tab, flight, stream, seen)
  BY <1>4 DEF Tracked
<1>6. /\ Rising(pipe) /\ Range(pipe) \subseteq Range(srv.log) /\ seen \subseteq 1 .. cur
      /\ \A ch \in Range(pipe) : cur < ch.seq /\ ch.seq <= stream.last
  BY <1>1, <1>5 DEF Orderly, Piped
<1>7. /\ batch \in Seq(Changes) /\ Range(batch) \subseteq Range(pipe) /\ Rising(batch)
      /\ \A ch \in Range(batch) : \E i \in 1 .. n : ch = pipe[i]
  <2>1. 1 \in 1 .. Len(pipe) + 1 /\ n \in 0 .. Len(pipe)
    BY <1>3
  <2> QED BY <1>3, <1>6, <2>1, SortedPart
<1>8. /\ Range(rest) \subseteq Range(pipe) /\ Rising(rest)
      /\ \A ch \in Range(rest) : \E i \in n + 1 .. Len(pipe) : ch = pipe[i]
  <2>1. n + 1 \in 1 .. Len(pipe) + 1 /\ Len(pipe) \in 0 .. Len(pipe)
    BY <1>3
  <2> QED BY <1>3, <1>6, <2>1, SortedPart
<1>9. at = pipe[n].seq
  BY <1>3
<1>10. /\ stream'.st = "open" /\ stream'.cursor = at /\ stream'.pipe = rest
       /\ stream'.last = stream.last
  <2>1. stream' = [stream EXCEPT !.pipe = rest, !.cursor = at]
    BY <1>1
  <2> HIDE DEF rest, at
  <2> QED BY <1>1, <1>2, <2>1 DEF StreamFields
<1> HIDE DEF batch, rest, at, pipe
<1>11. \A ch \in Range(pipe) : ch.seq \in Nat
  BY <1>3, RangeIs, ChangeSeq
<1>12. pipe[n] \in Range(pipe) /\ at \in Nat /\ cur <= at /\ at <= stream.last
  <2>1. pipe[n] \in Range(pipe)
    BY <1>3, RangeIs
  <2> QED BY <1>2, <1>6, <1>9, <1>11, <2>1
<1>13. ASSUME NEW ch \in Range(batch) PROVE cur < ch.seq /\ ch.seq <= at
  <2>1. PICK i \in 1 .. n : ch = pipe[i]
    BY <1>7
  <2>2. i \in 1 .. Len(pipe) /\ (i < n \/ i = n)
    BY <1>3
  <2>3. i < n => pipe[i].seq < pipe[n].seq
    BY <1>3, <1>6, <2>2 DEF Rising
  <2>4. ch.seq \in Nat /\ cur < ch.seq
    BY <1>6, <1>7, <1>11
  <2> QED BY <1>9, <1>12, <2>1, <2>2, <2>3, <2>4
<1>14. ASSUME NEW ch \in Range(rest) PROVE at < ch.seq /\ ch.seq <= stream.last
  <2>1. PICK i \in n + 1 .. Len(pipe) : ch = pipe[i]
    BY <1>8
  <2>2. i \in 1 .. Len(pipe) /\ n < i
    BY <1>3
  <2> QED BY <1>3, <1>6, <1>8, <1>9, <2>1, <2>2 DEF Rising
<1>15. Piped(srv, stream')
  <2>1. Range(rest) \subseteq Range(srv.log)
    BY <1>6, <1>8
  <2> QED BY <1>8, <1>10, <1>12, <1>14, <2>1 DEF Piped
<1>16. Sorted(batch) /\ Range(batch) \subseteq Range(srv.log)
  BY <1>6, <1>7, RisingSorted
<1>17. past'.seen = more
  <2>1. Seqs(batch) = {ch.seq : ch \in Range(batch)}
    BY <1>7, SeqsAre
  <2> QED BY <1>1, <2>1 DEF Learns, CanvasInv
<1>18. /\ Held(srv, at, tab.deferred) /\ Held(srv, at, tab.deferred \o batch)
       /\ more \subseteq 1 .. at
  BY <1>2, <1>3, <1>5, <1>7, <1>12, <1>13, <1>16, KeepsBack
<1>19. ASSUME ~tab.aged, NoneSkipped(srv, at, more) PROVE Agrees(srv, cur, tab, flight)
  <2>1. NoneSkipped(srv, cur, seen)
    BY <1>2, <1>6, <1>12, <1>13, <1>16, <1>19, ReadOn
  <2> QED BY <1>4, <1>19, <2>1 DEF Tracked
<1>20. FeedTrack(srv, unsent)' /\ FreshTrack(srv, fresh)'
  BY <1>1 DEF CanvasTrack
<1>21. AnswerHeld(srv, flight)
  BY <1>5 DEF Orderly
<1>22. CASE Busy \/ tab.queue # NoGraph
  <2> DEFINE both == tab.deferred \o batch
  <2>1. tab' = [tab EXCEPT !.deferred = both]
    BY <1>1, <1>22
  <2> HIDE DEF both
  <2>2. tab'.base = tab.base /\ tab'.deferred = both /\ tab'.aged = tab.aged
    BY <1>3, <2>1 DEF TabFields
  <2>3. Orderly(srv, tab', flight, stream', more)
    BY <1>10, <1>15, <1>18, <1>21, <2>2 DEF Orderly, both
  <2>4. ASSUME ~tab'.aged, NoneSkipped(srv, at, more)
        PROVE  Agrees(srv, at, tab', flight)
    <3>1. Agrees(srv, cur, tab, flight)
      BY <1>19, <2>2, <2>4
    <3>2. BaseAgrees(srv, at, tab.base, both) /\ FlightAgrees(srv, at, flight, both)
      BY <1>2, <1>3, <1>6, <1>7, <1>12, <1>13, <1>16, <2>4, <3>1, AgreesAside DEF both
    <3> QED BY <2>2, <3>2 DEF Agrees
  <2>5. Tracked(srv, tab', flight, stream', more)
    BY <1>10, <2>3, <2>4 DEF Tracked
  <2> QED BY <1>1, <1>17, <1>20, <2>5 DEF CanvasTrack
<1>23. CASE ~Busy /\ tab.queue = NoGraph
  <2> DEFINE g == ApplyChanges(tab.base, batch)
             seq == IF at > now.seq THEN at ELSE now.seq
             none == <<>>
             old == tab.aged \/ tab.deferred # none
             r == Adopt(now, ApplyChanges(now.base, batch), seq)
  <2>1. tab' = r
    BY <1>1, <1>23 DEF FoldIn
  <2>2. now = [tab EXCEPT !.aged = old]
    BY <1>3 DEF TabFields
  <2> HIDE DEF now, old
  <2>3. /\ DOMAIN now = TabFields /\ now.base = tab.base /\ now.deferred = tab.deferred
        /\ now.aged = old
    BY <1>3, <2>2 DEF TabFields
  <2> HIDE DEF seq
  <2>4. r.base = g /\ r.deferred = tab.deferred /\ r.aged = old
    BY <2>3, AdoptFields
  <2> HIDE DEF r, g
  <2>5. Orderly(srv, tab', flight, stream', more)
    BY <1>10, <1>15, <1>18, <1>21, <2>1, <2>4 DEF Orderly
  <2>6. ASSUME ~tab'.aged, NoneSkipped(srv, at, more)
        PROVE  Agrees(srv, at, tab', flight)
    <3>1. ~tab.aged /\ tab.deferred = <<>>
      BY <2>1, <2>4, <2>6 DEF old
    <3>2. Agrees(srv, cur, tab, flight)
      BY <1>19, <2>6, <3>1
    <3>3. BaseAgrees(srv, at, g, tab.deferred)
      BY <1>2, <1>3, <1>6, <1>7, <1>12, <1>13, <1>16, <2>6, <3>1, <3>2, AgreesIn DEF g
    <3>4. flight.st = "none"
      BY <1>23 DEF Busy
    <3>5. FlightAgrees(srv, at, flight, tab'.deferred)
      BY <3>4 DEF FlightAgrees
    <3> QED BY <2>1, <2>4, <3>3, <3>5 DEF Agrees
  <2>7. Tracked(srv, tab', flight, stream', more)
    BY <1>10, <2>5, <2>6 DEF Tracked
  <2> QED BY <1>1, <1>17, <1>20, <2>7 DEF CanvasTrack
<1> QED BY <1>22, <1>23

-----------------------------------------------------------------------------
(* The tab and the server agree *)

LEMMA CanvasInitTrack == CanvasInit => CanvasTrack
<1> SUFFICES ASSUME CanvasInit PROVE CanvasTrack
  OBVIOUS
<1> DEFINE log == srv.log
           none == <<>>
<1>1. /\ srv.seq = 1 /\ unsent = <<>> /\ tab.base = srv.rows /\ tab.deferred = none
      /\ flight.st = "none" /\ fresh.st = "none" /\ stream.st = "down"
      /\ past.seen = {} /\ \E n : log = <<SetNode(1, First, n)>>
  BY DEF CanvasInit
<1>2. PICK n : log = <<SetNode(1, First, n)>>
  BY <1>1
<1> DEFINE ch == SetNode(1, First, n)
<1>3. /\ log \in Seq(ChangesTo(1)) /\ srv.rows \in Graphs
      /\ ApplyChanges(Blank, log) = srv.rows
  BY <1>1, CanvasInitInv, ServerFacts DEF CanvasInv
<1>4. ch.seq = 1
  BY DEF SetNode
<1> HIDE DEF ch
<1>5. /\ log = <<ch>> /\ Len(log) = 1 /\ Range(log) = {ch} /\ log # <<>> /\ log[1].seq = 1
  <2>1. log = <<ch>>
    BY <1>2 DEF ch
  <2> QED BY <1>4, <2>1 DEF Range
<1>6. Sorted(log) /\ Rising(log) /\ Single(Range(log))
  BY <1>5 DEF Sorted, Rising, Single
<1>7. log \in Seq(Changes)
  BY <1>3, ToIs
<1> HIDE DEF log
<1>8. Started(srv)
  BY <1>1, <1>3, <1>5, <1>6, <1>7 DEF Started, Replays, log
<1>9. FeedTrack(srv, unsent)
  BY <1>1, <1>5, <1>8 DEF FeedTrack, log
<1>10. FreshTrack(srv, fresh)
  BY <1>1 DEF FreshTrack
<1>11. Orderly(srv, tab, flight, stream, past.seen)
  <2>1. Held(srv, stream.cursor, none)
    BY NoneIs DEF Held
  <2> QED BY <1>1, <2>1 DEF Orderly, Piped, AnswerHeld
<1>12. \A x : Untouched(none, x)
  BY NoneIs DEF Untouched
<1>13. Agrees(srv, stream.cursor, tab, flight)
  BY <1>1, <1>12 DEF Agrees, BaseAgrees, FlightAgrees
<1> QED BY <1>9, <1>10, <1>11, <1>13 DEF CanvasTrack, Tracked

LEMMA CanvasNextTrack ==
    CanvasInv /\ ShelfInv /\ CanvasTrack /\ [CanvasNext]_canvasVars => CanvasTrack'
<1> SUFFICES ASSUME CanvasInv, ShelfInv, CanvasTrack, [CanvasNext]_canvasVars
             PROVE  CanvasTrack'
  OBVIOUS
<1>1. ASSUME NEW c \in Cards, Move(c) PROVE CanvasTrack'
  BY <1>1, MoveTracks
<1>2. ASSUME NEW c \in Cards, Type(c) PROVE CanvasTrack'
  BY <1>2, TypeTracks
<1>3. ASSUME NEW c \in Cards, RemoveSelected(c) PROVE CanvasTrack'
  BY <1>3, RemoveSelectedTracks
<1>4. CASE TypingTimer
  BY <1>4, TypingTimerTracks
<1>5. CASE AddCard
  BY <1>5, AddCardTracks
<1>6. CASE Connect
  BY <1>6, ConnectTracks
<1>7. CASE CommitOps
  BY <1>7, CommitOpsTracks
<1>8. CASE LoseRequest
  BY <1>8, LoseRequestTracks
<1>9. CASE FlushAnswered
  BY <1>9, FlushGapTracks, FlushTracks
<1>10. CASE FlushFailed
  BY <1>10, FlushFailedTracks
<1>11. CASE ReadCanvas
  BY <1>11, ReadCanvasTracks
<1>12. CASE LoseRead
  BY <1>12, LoseReadTracks
<1>13. CASE Reloaded
  BY <1>13, ReloadedTracks
<1>14. CASE OtherWrites
  BY <1>14, OtherWritesTracks
<1>15. CASE AgentLands
  BY <1>15, AgentLandsTracks
<1>16. CASE OpenStream
  BY <1>16, OpenStreamTracks
<1>17. CASE Subscribe
  BY <1>17, SubscribeTracks
<1>18. CASE ReadGap
  BY <1>18, ReadGapTracks
<1>19. CASE DropStream
  BY <1>19, DropStreamTracks
<1>20. ASSUME NEW i \in 1 .. Len(unsent), Publish(i) PROVE CanvasTrack'
  BY <1>20, PublishTracks
<1>21. ASSUME NEW i \in 1 .. Len(unsent), PublishFails(i) PROVE CanvasTrack'
  BY <1>21, PublishFailsTracks
<1>22. ASSUME NEW n \in 1 .. (IF stream.st = "open" THEN Len(stream.pipe) ELSE 0),
              ReadStream(n)
       PROVE  CanvasTrack'
  BY <1>22, ReadStreamTracks
<1>23. CASE UNCHANGED canvasVars
  BY <1>23 DEF CanvasTrack, canvasVars
<1>24. CASE Undo
  BY <1>24, UndoTracks
<1>25. CASE Redo
  BY <1>25, RedoTracks
<1>26. CASE Imported
  BY <1>26, ImportedTracks
<1>27. ASSUME NEW c \in Cards, Uploaded(c) PROVE CanvasTrack'
  BY <1>27, UploadedTracks
<1>28. CASE PickFile \/ PickFails
  BY <1>28, PickTracks
<1> QED BY <1>1, <1>2, <1>3, <1>4, <1>5, <1>6, <1>7, <1>8, <1>9, <1>10, <1>11, <1>12,
           <1>13, <1>14, <1>15, <1>16, <1>17, <1>18, <1>19, <1>20, <1>21, <1>22, <1>23,
           <1>24, <1>25, <1>26, <1>27, <1>28
        DEF CanvasNext

(* With all there is handed out, nothing made older and none kept back,    *)
(* every card and connection the tab has is as the server has it.          *)
LEMMA TrackConverged == CanvasInv /\ CanvasTrack => Converged
<1> SUFFICES ASSUME CanvasInv, CanvasTrack, Seqs(srv.log) \subseteq past.seen,
                    ~tab.aged, tab.deferred = <<>>
             PROVE  tab.base = srv.rows
  BY DEF Converged
<1>1. /\ Started(srv) /\ tab.base \in Graphs /\ srv.rows \in Graphs
      /\ srv.log \in Seq(Changes) /\ \A ch \in Range(srv.log) : ch.seq \in Nat
      /\ stream.cursor \in Nat
  BY TabHoldable, FeedIs, ServerFacts
     DEF CanvasTrack, FeedTrack, Holdable, CanvasInv, StreamWell
<1>2. \A ch \in Range(srv.log) : ch.seq \in past.seen
  BY <1>1, SeqsAre
<1>3. ~Stuck(srv, stream, past.seen)
  BY <1>2 DEF Stuck
<1>4. Tracked(srv, tab, flight, stream, past.seen)
  BY <1>3 DEF CanvasTrack
<1>5. NoneSkipped(srv, stream.cursor, past.seen)
  BY <1>2 DEF NoneSkipped
<1>6. BaseAgrees(srv, stream.cursor, tab.base, tab.deferred)
  BY <1>4, <1>5 DEF Tracked, Agrees
<1>7. \A ch \in Range(srv.log) : ch.seq <= stream.cursor
  BY <1>1, <1>2, <1>4 DEF Tracked, Orderly
<1>8. \A x : Handed(srv, stream.cursor, x) /\ ~KeptBack(srv, tab.deferred, x)
  BY <1>7, NoneIs DEF Handed, KeptBack
<1>9. \A x \in Things : Has(tab.base, x) = Has(srv.rows, x)
  BY <1>6, <1>8 DEF BaseAgrees
<1> QED BY <1>1, <1>9, HasAll

(* Whatever was edited, written, lost, reordered, kept back or read anew   *)
(* on the way, a tab that was handed every change and keeps none back has  *)
(* for acknowledged exactly what the server has, so long as nothing it     *)
(* adopted late made a card older: the autosave loop and the change stream *)
(* of one canvas converge.                                                 *)
THEOREM TabConverges == CanvasSpec => []Converged
<1>1. CanvasInit => CanvasInv /\ ShelfInv /\ CanvasTrack
  BY CanvasInitInv, CanvasInitTrack
<1>2. CanvasInv /\ ShelfInv /\ CanvasTrack /\ [CanvasNext]_canvasVars
          => (CanvasInv /\ ShelfInv /\ CanvasTrack)'
  BY CanvasNextInv, CanvasNextTrack
<1>3. CanvasInv /\ CanvasTrack => Converged
  BY TrackConverged
<1> QED BY <1>1, <1>2, <1>3, PTL DEF CanvasSpec
=============================================================================
