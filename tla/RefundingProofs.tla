--------------------------- MODULE RefundingProofs ---------------------------
(***************************************************************************)
(* Proofs that no package is refunded more than was paid, that a package   *)
(* cancelled in time is refunded in full, and that the price of a service  *)
(* without refunds is kept, for every list of packages, any number of      *)
(* calls, errors and crashes.                                              *)
(***************************************************************************)
EXTENDS Refunding, FiniteSetTheorems, TLAPS

-----------------------------------------------------------------------------
(* Sums.  s is what the weights w of D add up to: whatever relates no weight *)
(* to 0 and follows each weight that is added relates D to s.                *)

Adds(D, w, R) ==
  /\ <<{}, 0>> \in R
  /\ \A S \in SUBSET D, n \in Int, d \in D :
       <<S, n>> \in R /\ d \notin S => <<S \cup {d}, n + w[d]>> \in R
IsSum(D, w, s) == s \in Int /\ \A R : Adds(D, w, R) => <<D, s>> \in R

LEMMA SumOfNone ==
  ASSUME NEW w
  PROVE  /\ IsSum({}, w, 0)
         /\ \A s : IsSum({}, w, s) => s = 0
<1>1. IsSum({}, w, 0)
  BY DEF IsSum, Adds
<1>2. ASSUME NEW s, IsSum({}, w, s)
      PROVE  s = 0
  <2>1. Adds({}, w, {<<{}, 0>>})
    BY DEF Adds
  <2>2. <<{}, s>> \in {<<{}, 0>>}
    BY <1>2, <2>1 DEF IsSum
  <2> QED BY <2>2
<1> QED BY <1>1, <1>2

LEMMA SumAdds ==
  ASSUME NEW D, NEW w, NEW s, NEW c, c \notin D, w[c] \in Int, IsSum(D, w, s)
  PROVE  IsSum(D \cup {c}, w, s + w[c])
<1>1. s + w[c] \in Int
  BY DEF IsSum
<1>2. ASSUME NEW R, Adds(D \cup {c}, w, R)
      PROVE  <<D \cup {c}, s + w[c]>> \in R
  <2>1. Adds(D, w, R)
    BY <1>2 DEF Adds
  <2>2. <<D, s>> \in R /\ s \in Int
    BY <2>1 DEF IsSum
  <2>3. D \in SUBSET (D \cup {c}) /\ c \in D \cup {c}
    OBVIOUS
  <2> QED BY <1>2, <2>2, <2>3 DEF Adds
<1> QED BY <1>1, <1>2 DEF IsSum

LEMMA SumDrops ==
  ASSUME NEW D, NEW w, NEW s, NEW c \in D, \A d \in D : w[d] \in Int, IsSum(D, w, s)
  PROVE  IsSum(D \ {c}, w, s - w[c])
<1>1. s - w[c] \in Int
  BY DEF IsSum
<1>2. ASSUME NEW R, Adds(D \ {c}, w, R)
      PROVE  <<D \ {c}, s - w[c]>> \in R
  <2> DEFINE Q == {z \in (SUBSET D) \X Int :
                     <<z[1] \ {c}, IF c \in z[1] THEN z[2] - w[c] ELSE z[2]>> \in R}
  <2>1. ASSUME NEW S \in SUBSET D, NEW n \in Int, <<S, n>> \in Q
        PROVE  <<S \ {c}, IF c \in S THEN n - w[c] ELSE n>> \in R
    BY <2>1
  <2>2. ASSUME NEW S \in SUBSET D, NEW n \in Int,
               <<S \ {c}, IF c \in S THEN n - w[c] ELSE n>> \in R
        PROVE  <<S, n>> \in Q
    BY <2>2
  <2> HIDE DEF Q
  <2>3. <<{}, 0>> \in Q
    <3>1. <<{} \ {c}, IF c \in {} THEN 0 - w[c] ELSE 0>> \in R
      <4>1. {} \ {c} = {} /\ <<{}, 0>> \in R
        BY <1>2 DEF Adds
      <4> QED BY <4>1
    <3> QED BY <2>2, <3>1
  <2>4. ASSUME NEW S \in SUBSET D, NEW n \in Int, NEW d \in D, <<S, n>> \in Q, d \notin S
        PROVE  <<S \cup {d}, n + w[d]>> \in Q
    <3>1. S \cup {d} \in SUBSET D /\ n + w[d] \in Int
      BY <2>4
    <3>2. <<S \ {c}, IF c \in S THEN n - w[c] ELSE n>> \in R
      BY <2>1, <2>4
    <3>3. CASE d = c
      <4>1. (S \cup {d}) \ {c} = S \ {c} /\ c \in S \cup {d} /\ c \notin S
        BY <2>4, <3>3
      <4>2. (n + w[d]) - w[c] = n
        BY <2>4, <3>3
      <4> QED BY <2>2, <3>1, <3>2, <4>1, <4>2
    <3>4. CASE d # c
      <4> DEFINE m == IF c \in S THEN n - w[c] ELSE n
      <4>1. /\ (S \cup {d}) \ {c} = (S \ {c}) \cup {d}
            /\ S \ {c} \in SUBSET (D \ {c}) /\ d \in D \ {c} /\ d \notin S \ {c}
        BY <2>4, <3>4
      <4>2. m \in Int
        OBVIOUS
      <4>3. <<(S \ {c}) \cup {d}, m + w[d]>> \in R
        <5> HIDE DEF m
        <5> QED BY <1>2, <3>2, <4>1, <4>2 DEF Adds, m
      <4>4. m + w[d] = IF c \in S \cup {d} THEN (n + w[d]) - w[c] ELSE n + w[d]
        BY <2>4, <3>4
      <4> QED BY <2>2, <3>1, <4>1, <4>3, <4>4
    <3> QED BY <3>3, <3>4
  <2>5. Adds(D, w, Q)
    BY <2>3, <2>4 DEF Adds
  <2>6. <<D, s>> \in Q /\ s \in Int
    BY <2>5 DEF IsSum
  <2>7. <<D \ {c}, IF c \in D THEN s - w[c] ELSE s>> \in R
    <3>1. D \in SUBSET D
      OBVIOUS
    <3> QED BY <2>1, <2>6, <3>1
  <2> QED BY <2>7
<1> QED BY <1>1, <1>2 DEF IsSum

\* The weights of others do not matter.
LEMMA SumStays ==
  ASSUME NEW D, NEW v, NEW w, NEW s, IsSum(D, w, s), \A d \in D : v[d] = w[d]
  PROVE  IsSum(D, v, s)
<1>1. ASSUME NEW R, Adds(D, v, R) PROVE Adds(D, w, R)
  BY <1>1 DEF Adds
<1> QED BY <1>1 DEF IsSum

LEMMA SumIsUnique ==
  ASSUME NEW D, NEW w, \A d \in D : w[d] \in Int, NEW s, IsSum(D, w, s), NEW t, IsSum(D, w, t)
  PROVE  s = t
<1> DEFINE Q == {z \in (SUBSET D) \X Int : \A u : IsSum(z[1], w, u) => u = z[2]}
<1>1. \A S \in SUBSET D, n \in Int : <<S, n>> \in Q <=> \A u : IsSum(S, w, u) => u = n
  OBVIOUS
<1> HIDE DEF Q
<1>2. <<{}, 0>> \in Q
  <2>1. {} \in SUBSET D /\ 0 \in Int
    OBVIOUS
  <2>2. \A u : IsSum({}, w, u) => u = 0
    BY SumOfNone
  <2> QED BY <1>1, <2>1, <2>2
<1>3. ASSUME NEW S \in SUBSET D, NEW n \in Int, NEW d \in D, <<S, n>> \in Q, d \notin S
      PROVE  <<S \cup {d}, n + w[d]>> \in Q
  <2> DEFINE T == S \cup {d}
  <2>1. /\ T \in SUBSET D /\ n + w[d] \in Int /\ d \in T /\ T \ {d} = S
        /\ \A e \in T : w[e] \in Int
    BY <1>3
  <2>2. ASSUME NEW u, IsSum(T, w, u) PROVE u = n + w[d]
    <3>1. IsSum(T \ {d}, w, u - w[d])
      <4> HIDE DEF T
      <4> QED BY SumDrops, <2>1, <2>2
    <3>2. IsSum(S, w, u - w[d])
      BY <2>1, <3>1
    <3>3. u - w[d] = n
      BY <1>1, <1>3, <3>2
    <3>4. u \in Int /\ w[d] \in Int
      BY <2>2 DEF IsSum
    <3> QED BY <3>3, <3>4
  <2> QED BY <1>1, <2>1, <2>2
<1>4. <<D, s>> \in Q /\ D \in SUBSET D /\ s \in Int
  <2>1. Adds(D, w, Q)
    BY <1>2, <1>3 DEF Adds
  <2> QED BY <2>1 DEF IsSum
<1> QED BY <1>1, <1>4

\* What can be added up can be added up in part.
LEMMA PartsAddUp ==
  ASSUME NEW D, NEW w, \A d \in D : w[d] \in Int, NEW s, IsSum(D, w, s), NEW P \in SUBSET D
  PROVE  \E v \in Int : IsSum(P, w, v)
<1> DEFINE Q == {z \in (SUBSET D) \X Int :
                   \A T \in SUBSET z[1] : \E v \in Int : IsSum(T, w, v)}
<1>1. \A S \in SUBSET D, n \in Int :
        <<S, n>> \in Q <=> \A T \in SUBSET S : \E v \in Int : IsSum(T, w, v)
  OBVIOUS
<1> HIDE DEF Q
<1>2. <<{}, 0>> \in Q
  <2>1. {} \in SUBSET D /\ 0 \in Int /\ \A T \in SUBSET {} : T = {}
    OBVIOUS
  <2>2. IsSum({}, w, 0)
    BY SumOfNone
  <2> QED BY <1>1, <2>1, <2>2
<1>3. ASSUME NEW S \in SUBSET D, NEW n \in Int, NEW d \in D, <<S, n>> \in Q, d \notin S
      PROVE  <<S \cup {d}, n + w[d]>> \in Q
  <2>1. S \cup {d} \in SUBSET D /\ n + w[d] \in Int
    BY <1>3
  <2>2. ASSUME NEW T \in SUBSET (S \cup {d}) PROVE \E v \in Int : IsSum(T, w, v)
    <3> DEFINE U == T \ {d}
    <3>1. U \in SUBSET S /\ d \notin U /\ (d \in T => U \cup {d} = T) /\ (d \notin T => U = T)
      OBVIOUS
    <3> HIDE DEF U
    <3>2. PICK v \in Int : IsSum(U, w, v)
      BY <1>1, <1>3, <3>1
    <3>3. w[d] \in Int /\ v + w[d] \in Int
      OBVIOUS
    <3>4. IsSum(U \cup {d}, w, v + w[d])
      BY SumAdds, <3>1, <3>2, <3>3
    <3> QED BY <3>1, <3>2, <3>3, <3>4
  <2> QED BY <1>1, <2>1, <2>2
<1>4. <<D, s>> \in Q /\ D \in SUBSET D /\ s \in Int
  <2>1. Adds(D, w, Q)
    BY <1>2, <1>3 DEF Adds
  <2> QED BY <2>1 DEF IsSum
<1> QED BY <1>1, <1>4

\* A family of parts of what can be added up has a member that contains no other.
LEMMA LeastPart ==
  ASSUME NEW D, NEW w, \A d \in D : w[d] \in Int, NEW s, IsSum(D, w, s),
         NEW F \in SUBSET SUBSET D, F # {}
  PROVE  \E M \in F : \A N \in F : N \subseteq M => N = M
<1> DEFINE Least(G) == \E M \in G : \A N \in G : N \subseteq M => N = M
           Q == {z \in (SUBSET D) \X Int : \A G \in SUBSET SUBSET z[1] : G # {} => Least(G)}
<1>1. \A S \in SUBSET D, n \in Int :
        <<S, n>> \in Q <=> \A G \in SUBSET SUBSET S : G # {} => Least(G)
  <2> HIDE DEF Least
  <2> QED OBVIOUS
<1> HIDE DEF Q
<1>2. <<{}, 0>> \in Q
  <2>1. {} \in SUBSET D /\ 0 \in Int
    OBVIOUS
  <2>2. ASSUME NEW G \in SUBSET SUBSET {}, G # {} PROVE Least(G)
    <3>1. PICK M \in G : M = {}
      BY <2>2
    <3>2. \A N \in G : N = M
      BY <3>1
    <3> QED BY <3>2
  <2> HIDE DEF Least
  <2> QED BY <1>1, <2>1, <2>2
<1>3. ASSUME NEW S \in SUBSET D, NEW n \in Int, NEW d \in D, <<S, n>> \in Q, d \notin S
      PROVE  <<S \cup {d}, n + w[d]>> \in Q
  <2>1. S \cup {d} \in SUBSET D /\ n + w[d] \in Int
    BY <1>3
  <2>2. ASSUME NEW G \in SUBSET SUBSET (S \cup {d}), G # {} PROVE Least(G)
    <3>1. CASE \E T \in G : d \notin T
      <4> DEFINE H == {T \in G : d \notin T}
      <4>1. H \in SUBSET SUBSET S /\ H # {}
        BY <3>1
      <4>2. Least(H)
        <5> HIDE DEF H, Least
        <5> QED BY <1>1, <1>3, <4>1
      <4> QED BY <4>2
    <3>2. CASE \A T \in G : d \in T
      <4> DEFINE H == {T \ {d} : T \in G}
      <4>1. H \in SUBSET SUBSET S /\ H # {}
        <5>1. \A T \in G : T \ {d} \in SUBSET S /\ T \ {d} \in H
          OBVIOUS
        <5>2. \A T \in H : T \in SUBSET S
          OBVIOUS
        <5> HIDE DEF H
        <5> QED BY <2>2, <5>1, <5>2
      <4>2. Least(H)
        <5> HIDE DEF H, Least
        <5> QED BY <1>1, <1>3, <4>1
      <4>3. PICK L \in H : \A N \in H : N \subseteq L => N = L
        BY <4>2
      <4>4. PICK M \in G : L = M \ {d}
        OBVIOUS
      <4>5. ASSUME NEW N \in G, N \subseteq M PROVE N = M
        <5>1. N \ {d} \in H /\ N \ {d} \subseteq L
          BY <4>4, <4>5
        <5> DEFINE K == N \ {d}
        <5>2. K = L
          <6>1. K \in H /\ K \subseteq L
            BY <5>1
          <6> HIDE DEF H, K
          <6> QED BY <4>3, <6>1
        <5>3. N \ {d} = M \ {d} /\ d \in N /\ d \in M
          BY <3>2, <4>4, <5>2
        <5>4. N = (N \ {d}) \cup {d} /\ M = (M \ {d}) \cup {d}
          BY <5>3
        <5> QED BY ONLY <5>3, <5>4
      <4> QED BY <4>5
    <3> QED BY <3>1, <3>2
  <2> HIDE DEF Least
  <2> QED BY <1>1, <2>1, <2>2
<1>4. <<D, s>> \in Q /\ D \in SUBSET D /\ s \in Int
  <2>1. Adds(D, w, Q)
    BY <1>2, <1>3 DEF Adds
  <2> QED BY <2>1 DEF IsSum
<1>5. Least(F)
  <2> HIDE DEF Least
  <2> QED BY <1>1, <1>4
<1> QED BY <1>5

-----------------------------------------------------------------------------
(* PendingSum.  It is written with the fold over sets, a recursive function; *)
(* Total is what that function gives for the amounts of r in U.              *)

PickOf(S) == CHOOSE x \in S : TRUE
Folds(r, U, f) ==
  f = [S \in SUBSET U |-> IF S = {} THEN 0 ELSE r[PickOf(S)].amount + f[S \ {PickOf(S)}]]
Total(r, U) == (CHOOSE f : Folds(r, U, f))[U]

UnpaidIn(r, p) == {i \in DOMAIN r : r[i].package = p /\ ~r[i].paid}
Amounts(r) == [i \in DOMAIN r |-> r[i].amount]
Waits(r, p) == Total(r, UnpaidIn(r, p))

\* What the fold returns is the sum.
LEMMA SumFolds ==
  ASSUME NEW r, NEW U, U \subseteq DOMAIN r, \A i \in U : r[i].amount \in Int,
         NEW s, IsSum(U, Amounts(r), s)
  PROVE  Total(r, U) = s
<1> DEFINE w == Amounts(r)
           g == [S \in SUBSET U |-> CHOOSE v \in Int : IsSum(S, w, v)]
<1>1. \A i \in U : w[i] = r[i].amount /\ w[i] \in Int
  BY DEF Amounts
<1> HIDE DEF w
<1>2. \A S \in SUBSET U : g[S] \in Int /\ IsSum(S, w, g[S])
  <2> SUFFICES ASSUME NEW S \in SUBSET U PROVE g[S] \in Int /\ IsSum(S, w, g[S])
    OBVIOUS
  <2>1. \E v \in Int : IsSum(S, w, v)
    BY PartsAddUp, <1>1 DEF w
  <2> QED BY <2>1
<1>3. DOMAIN g = SUBSET U /\ g = [S \in SUBSET U |-> g[S]]
  OBVIOUS
<1> HIDE DEF g
<1>4. ASSUME NEW S \in SUBSET U
      PROVE  g[S] = IF S = {} THEN 0 ELSE r[PickOf(S)].amount + g[S \ {PickOf(S)}]
  <2>1. CASE S = {}
    BY <1>2, <2>1, SumOfNone
  <2>2. CASE S # {}
    <3> DEFINE x == PickOf(S)
               R == S \ {x}
    <3>1. x \in S
      BY <2>2 DEF PickOf
    <3> HIDE DEF x
    <3>2. IsSum(R, w, g[S] - w[x])
      <4>1. \A i \in S : w[i] \in Int
        BY <1>1
      <4> QED BY SumDrops, <1>2, <3>1, <4>1
    <3>3. R \in SUBSET U /\ \A i \in R : w[i] \in Int
      BY <1>1
    <3> HIDE DEF R
    <3>4. g[R] = g[S] - w[x]
      BY SumIsUnique, <1>2, <3>2, <3>3
    <3>5. g[S] \in Int /\ w[x] \in Int /\ w[x] = r[x].amount
      BY <1>1, <1>2, <3>1
    <3>6. g[S] = r[x].amount + g[R]
      BY <3>4, <3>5
    <3> QED BY <2>2, <3>6 DEF R, x
  <2> QED BY <2>1, <2>2
<1>5. Folds(r, U, g)
  BY <1>3, <1>4 DEF Folds
<1> DEFINE f == CHOOSE h : Folds(r, U, h)
<1>6. Folds(r, U, f)
  BY <1>5
<1> HIDE DEF f
<1>7. \A S \in SUBSET U :
        f[S] = IF S = {} THEN 0 ELSE r[PickOf(S)].amount + f[S \ {PickOf(S)}]
  BY <1>6 DEF Folds
<1> DEFINE Wrong == {S \in SUBSET U : f[S] # g[S]}
<1>8. Wrong = {}
  <2> SUFFICES ASSUME Wrong # {} PROVE FALSE
    OBVIOUS
  <2>1. Wrong \in SUBSET SUBSET U
    OBVIOUS
  <2>2. PICK S \in Wrong : \A N \in Wrong : N \subseteq S => N = S
    <3> HIDE DEF Wrong
    <3> QED BY LeastPart, <1>1, <2>1 DEF w
  <2>3. S \in SUBSET U /\ f[S] # g[S]
    OBVIOUS
  <2>4. S # {}
    BY <1>4, <1>7, <2>3
  <2> DEFINE R == S \ {PickOf(S)}
  <2>5. R \in SUBSET U /\ R \subseteq S /\ R # S
    <3>1. PickOf(S) \in S
      BY <2>4 DEF PickOf
    <3> QED BY <2>3, <3>1
  <2>6. f[R] = g[R]
    <3> HIDE DEF R
    <3> QED BY <2>2, <2>5
  <2>7. f[S] = r[PickOf(S)].amount + f[R] /\ g[S] = r[PickOf(S)].amount + g[R]
    BY <1>4, <1>7, <2>3, <2>4
  <2> HIDE DEF R
  <2> QED BY <2>3, <2>6, <2>7
<1>9. f[U] = g[U]
  BY <1>8
<1>10. g[U] = s
  <2>1. U \in SUBSET U
    OBVIOUS
  <2> QED BY SumIsUnique, <1>1, <1>2, <2>1 DEF w
<1> QED BY <1>9, <1>10 DEF Total, f

\* PendingSum is that function.
LEMMA PendingIs ==
  ASSUME NEW p
  PROVE  PendingSum(p) = Waits(rows, p) /\ PendingSum(p)' = Waits(rows', p)
<1>1. PendingSum(p) = Waits(rows, p)
  BY DEF PendingSum, Waits, UnpaidIn, Unpaid, Total, MapThenSumSet, MapThenFoldSet, Folds, PickOf
<1>2. PendingSum(p)' = Waits(rows', p)
  BY DEF PendingSum, Waits, UnpaidIn, Unpaid, Total, MapThenSumSet, MapThenFoldSet, Folds, PickOf
<1> QED BY <1>1, <1>2

-----------------------------------------------------------------------------
(* The table package_refunds. *)

NewRefund(p, amount) == [package |-> p, amount |-> amount, paid |-> FALSE]

\* What p has of an amount for q, of the amounts for the packages of D.
Single(q, amount, p) == IF p = q THEN amount ELSE 0
Share(D, amounts, p) == IF p \in D THEN amounts[p] ELSE 0

\* What waits in t, other than in r.
Drops(r, t, q, a) == \A p \in Packages : Waits(t, p) = Waits(r, p) - Single(q, a, p)
Rises(r, t, q, a) == \A p \in Packages : Waits(t, p) = Waits(r, p) + Single(q, a, p)
Grows(r, t, D, a) == \A p \in Packages : Waits(t, p) = Waits(r, p) + Share(D, a, p)

SumOK(r) == \A p \in Packages : IsSum(UnpaidIn(r, p), Amounts(r), Waits(r, p))

LEMMA RowFields ==
  ASSUME NEW r \in Seq(Refund)
  PROVE  /\ DOMAIN r = 1..Len(r) /\ Len(r) \in Nat
         /\ \A i \in DOMAIN r : /\ r[i] \in Refund /\ r[i].package \in Packages
                                /\ r[i].amount \in Nat /\ r[i].paid \in BOOLEAN
                                /\ Amounts(r)[i] = r[i].amount
<1>1. DOMAIN r = 1..Len(r) /\ Len(r) \in Nat /\ \A i \in DOMAIN r : r[i] \in Refund
  OBVIOUS
<1>2. \A x \in Refund : x.package \in Packages /\ x.amount \in Nat /\ x.paid \in BOOLEAN
  BY DEF Refund
<1> QED BY <1>1, <1>2 DEF Amounts

\* A sum of what waits for p is what Waits says.
LEMMA WaitsIs ==
  ASSUME NEW r \in Seq(Refund), NEW p \in Packages, NEW s, IsSum(UnpaidIn(r, p), Amounts(r), s)
  PROVE  Waits(r, p) = s
<1>1. UnpaidIn(r, p) \subseteq DOMAIN r /\ \A i \in UnpaidIn(r, p) : r[i].amount \in Int
  BY RowFields DEF UnpaidIn
<1> QED BY <1>1, SumFolds DEF Waits

\* So are the sums of a table known from those of another.
LEMMA SumsAre ==
  ASSUME NEW r \in Seq(Refund), NEW s,
         \A p \in Packages : IsSum(UnpaidIn(r, p), Amounts(r), s[p])
  PROVE  SumOK(r) /\ \A p \in Packages : Waits(r, p) = s[p]
<1>1. \A p \in Packages : Waits(r, p) = s[p]
  BY WaitsIs
<1> QED BY <1>1 DEF SumOK

LEMMA WaitsInt ==
  ASSUME NEW r, SumOK(r), NEW p \in Packages
  PROVE  Waits(r, p) \in Int
BY DEF SumOK, IsSum

LEMMA NoRows ==
  /\ <<>> \in Seq(Refund) /\ SumOK(<<>>)
  /\ \A p \in Packages : Waits(<<>>, p) = 0
<1> DEFINE z == [p \in Packages |-> 0]
           e == <<>>
<1>1. e \in Seq(Refund) /\ DOMAIN e = {}
  OBVIOUS
<1>2. \A p \in Packages : IsSum(UnpaidIn(e, p), Amounts(e), z[p])
  <2> SUFFICES ASSUME NEW p \in Packages PROVE IsSum(UnpaidIn(e, p), Amounts(e), z[p])
    OBVIOUS
  <2>1. UnpaidIn(e, p) = {} /\ z[p] = 0
    BY <1>1 DEF UnpaidIn
  <2> QED BY <2>1, SumOfNone
<1>3. \A p \in Packages : z[p] = 0
  OBVIOUS
<1> HIDE DEF z, e
<1>4. SumOK(e) /\ \A p \in Packages : Waits(e, p) = z[p]
  BY <1>1, <1>2, SumsAre
<1> QED BY <1>1, <1>3, <1>4 DEF e

\* A refund is paid.
LEMMA RowPaid ==
  ASSUME NEW r \in Seq(Refund), SumOK(r), NEW i \in DOMAIN r, ~r[i].paid,
         NEW t, t = [r EXCEPT ![i].paid = TRUE]
  PROVE  /\ t \in Seq(Refund) /\ SumOK(t) /\ DOMAIN t = DOMAIN r /\ Len(t) = Len(r)
         /\ Drops(r, t, r[i].package, r[i].amount)
         /\ \A j \in DOMAIN r : j # i => t[j] = r[j]
<1>1. /\ DOMAIN r = 1..Len(r) /\ Len(r) \in Nat
      /\ \A j \in DOMAIN r : r[j] \in Refund
  BY RowFields
<1>2. [r[i] EXCEPT !.paid = TRUE] \in Refund
  BY <1>1 DEF Refund
<1>3. /\ DOMAIN t = DOMAIN r /\ t[i] = [r[i] EXCEPT !.paid = TRUE]
      /\ \A j \in DOMAIN r : j # i => t[j] = r[j]
  OBVIOUS
<1>4. t \in Seq(Refund) /\ Len(t) = Len(r)
  <2>1. t \in [1..Len(r) -> Refund]
    <3>1. \A j \in DOMAIN t : t[j] \in Refund
      BY <1>1, <1>2, <1>3
    <3>2. t = [j \in DOMAIN t |-> t[j]]
      OBVIOUS
    <3> QED BY <1>1, <1>3, <3>1, <3>2
  <2> QED BY <1>1, <2>1
<1>5. /\ t[i].package = r[i].package /\ t[i].amount = r[i].amount /\ t[i].paid
  <2>1. r[i] \in Refund
    BY <1>1
  <2> QED BY <1>3, <2>1 DEF Refund
<1>6. \A j \in DOMAIN r : Amounts(t)[j] = Amounts(r)[j]
  <2>1. \A j \in DOMAIN r : t[j].amount = r[j].amount
    BY <1>3, <1>5
  <2> QED BY <1>3, <2>1 DEF Amounts
<1> DEFINE s == [p \in Packages |-> Waits(r, p) - Single(r[i].package, r[i].amount, p)]
<1>7. \A p \in Packages : IsSum(UnpaidIn(t, p), Amounts(t), s[p])
  <2> SUFFICES ASSUME NEW p \in Packages PROVE IsSum(UnpaidIn(t, p), Amounts(t), s[p])
    OBVIOUS
  <2> DEFINE U == UnpaidIn(r, p)
  <2>1. IsSum(U, Amounts(r), Waits(r, p)) /\ Waits(r, p) \in Int
    BY WaitsInt DEF SumOK
  <2>2. \A j \in U : j \in DOMAIN r /\ Amounts(r)[j] \in Int
    BY RowFields DEF UnpaidIn
  <2>3. CASE p = r[i].package
    <3>1. i \in U /\ UnpaidIn(t, p) = U \ {i}
      BY <1>3, <1>5, <2>3 DEF UnpaidIn
    <3>2. s[p] = Waits(r, p) - Amounts(r)[i]
      BY <2>3, RowFields DEF Single
    <3> HIDE DEF U, s
    <3>3. IsSum(U \ {i}, Amounts(r), s[p])
      <4>1. \A j \in U : Amounts(r)[j] \in Int
        BY <2>2
      <4>2. IsSum(U \ {i}, Amounts(r), Waits(r, p) - Amounts(r)[i])
        BY <2>1, <3>1, <4>1, SumDrops
      <4> QED BY <3>2, <4>2
    <3> QED BY <1>6, <2>2, <3>1, <3>3, SumStays
  <2>4. CASE p # r[i].package
    <3>1. UnpaidIn(t, p) = U
      BY <1>3, <1>5, <2>4 DEF UnpaidIn
    <3>2. s[p] = Waits(r, p)
      BY <2>1, <2>4 DEF Single
    <3> HIDE DEF U, s
    <3> QED BY <1>6, <2>1, <2>2, <3>1, <3>2, SumStays
  <2> QED BY <2>3, <2>4
<1>8. \A p \in Packages : s[p] = Waits(r, p) - Single(r[i].package, r[i].amount, p)
  OBVIOUS
<1> HIDE DEF s
<1>9. SumOK(t) /\ \A p \in Packages : Waits(t, p) = s[p]
  BY <1>4, <1>7, SumsAre
<1> QED BY <1>3, <1>4, <1>8, <1>9 DEF Drops

\* A refund of amount a is put down for each package of D, in the order of the rows n.
Longer(r, t) == DOMAIN r \subseteq DOMAIN t /\ \A i \in DOMAIN r : t[i] = r[i]
Lists(r, t, D, a, n) ==
  /\ \A p \in D : n[p] \in Len(r) + 1 .. Len(t) /\ a[p] \in Nat /\ t[n[p]] = NewRefund(p, a[p])
  /\ \A i \in Len(r) + 1 .. Len(t) : \E p \in D : n[p] = i

LEMMA RowsAdded ==
  ASSUME NEW r \in Seq(Refund), SumOK(r), NEW D \in SUBSET Packages, NEW a,
         NEW t \in Seq(Refund), Longer(r, t), NEW n, Lists(r, t, D, a, n)
  PROVE  /\ SumOK(t)
         /\ Grows(r, t, D, a)
<1>a. /\ \A p \in D : /\ n[p] \in Len(r) + 1 .. Len(t) /\ a[p] \in Nat
                       /\ t[n[p]] = [package |-> p, amount |-> a[p], paid |-> FALSE]
      /\ \A i \in Len(r) + 1 .. Len(t) : \E p \in D : n[p] = i
  BY DEF Lists, NewRefund
<1>b. \A i \in DOMAIN r : i \in DOMAIN t /\ t[i] = r[i]
  BY DEF Longer
<1>1. /\ DOMAIN r = 1..Len(r) /\ Len(r) \in Nat /\ DOMAIN t = 1..Len(t) /\ Len(t) \in Nat
  BY RowFields
<1>2. \A i \in DOMAIN r : i \in DOMAIN t /\ Amounts(t)[i] = Amounts(r)[i]
  BY <1>b, RowFields
<1>3. \A p \in D : /\ n[p] \in DOMAIN t /\ n[p] \notin DOMAIN r
                   /\ t[n[p]].package = p /\ t[n[p]].amount = a[p] /\ ~t[n[p]].paid
                   /\ Amounts(t)[n[p]] = a[p]
  <2> SUFFICES ASSUME NEW p \in D
               PROVE  /\ n[p] \in DOMAIN t /\ n[p] \notin DOMAIN r
                      /\ t[n[p]].package = p /\ t[n[p]].amount = a[p] /\ ~t[n[p]].paid
                      /\ Amounts(t)[n[p]] = a[p]
    OBVIOUS
  <2>1. n[p] \in DOMAIN t /\ n[p] \notin DOMAIN r
    <3>1. n[p] \in Len(r) + 1 .. Len(t)
      BY <1>a
    <3> HIDE DEF UnpaidIn
    <3> QED BY <1>1, <3>1
  <2>2. t[n[p]].package = p /\ t[n[p]].amount = a[p] /\ ~t[n[p]].paid
    <3>1. t[n[p]] = [package |-> p, amount |-> a[p], paid |-> FALSE]
      BY <1>a
    <3> QED BY <3>1
  <2> QED BY <2>1, <2>2, RowFields
<1> DEFINE s == [p \in Packages |-> Waits(r, p) + Share(D, a, p)]
<1>4. \A p \in Packages : IsSum(UnpaidIn(t, p), Amounts(t), s[p])
  <2> SUFFICES ASSUME NEW p \in Packages PROVE IsSum(UnpaidIn(t, p), Amounts(t), s[p])
    OBVIOUS
  <2> DEFINE U == UnpaidIn(r, p)
  <2>1. IsSum(U, Amounts(r), Waits(r, p)) /\ Waits(r, p) \in Int
    BY WaitsInt DEF SumOK
  <2>2. \A j \in U : j \in DOMAIN r
    BY DEF UnpaidIn
  <2>3. IsSum(U, Amounts(t), Waits(r, p))
    <3> HIDE DEF U
    <3> QED BY <1>2, <2>1, <2>2, SumStays
  <2>4. UnpaidIn(t, p) = U \cup {i \in Len(r) + 1 .. Len(t) : t[i].package = p /\ ~t[i].paid}
    <3>1. \A i : i \in DOMAIN t <=> i \in DOMAIN r \/ i \in Len(r) + 1 .. Len(t)
      BY <1>1, <1>b
    <3> QED BY <1>b, <3>1 DEF UnpaidIn
  <2>5. CASE p \in D
    <3>1. UnpaidIn(t, p) = U \cup {n[p]} /\ n[p] \notin U
      <4>1. {i \in Len(r) + 1 .. Len(t) : t[i].package = p /\ ~t[i].paid} = {n[p]}
        BY <1>3, <1>a, <2>5
      <4>2. n[p] \notin U
        BY <1>3, <2>2, <2>5
      <4> QED BY <2>4, <4>1, <4>2
    <3>2. s[p] = Waits(r, p) + Amounts(t)[n[p]] /\ Amounts(t)[n[p]] \in Int
      <4>1. a[p] \in Nat /\ Amounts(t)[n[p]] = a[p]
        BY <1>3, <1>a, <2>5
      <4> QED BY <2>5, <4>1 DEF Share
    <3> DEFINE k == n[p]
    <3> HIDE DEF U, s, k
    <3>3. IsSum(U \cup {k}, Amounts(t), Waits(r, p) + Amounts(t)[k])
      BY <2>3, <3>1, <3>2, SumAdds DEF k
    <3> QED BY <3>1, <3>2, <3>3 DEF k
  <2>6. CASE p \notin D
    <3>1. {i \in Len(r) + 1 .. Len(t) : t[i].package = p /\ ~t[i].paid} = {}
      BY <1>3, <1>a, <2>6
    <3>2. UnpaidIn(t, p) = U /\ s[p] = Waits(r, p)
      BY <2>1, <2>4, <2>6, <3>1 DEF Share
    <3> HIDE DEF U, s
    <3> QED BY <2>3, <3>2
  <2> QED BY <2>5, <2>6
<1>5. \A p \in Packages : s[p] = Waits(r, p) + Share(D, a, p)
  OBVIOUS
<1> HIDE DEF s
<1>6. SumOK(t) /\ \A p \in Packages : Waits(t, p) = s[p]
  BY <1>4, SumsAre
<1> QED BY <1>5, <1>6 DEF Grows

LEMMA RowAppended ==
  ASSUME NEW r \in Seq(Refund), SumOK(r), NEW q \in Packages,
         NEW t, t = Append(r, NewRefund(q, 1))
  PROVE  t \in Seq(Refund) /\ SumOK(t) /\ Longer(r, t) /\ Rises(r, t, q, 1)
<1> DEFINE x == NewRefund(q, 1)
           n == [p \in {q} |-> Len(r) + 1]
           a == [p \in {q} |-> 1]
           D == {q}
<1>1. x \in Refund
  BY DEF Refund, NewRefund
<1>2. /\ DOMAIN r = 1..Len(r) /\ Len(r) \in Nat
  BY RowFields
<1>3. t = Append(r, x)
  OBVIOUS
<1>4. t \in Seq(Refund) /\ Len(t) = Len(r) + 1 /\ t[Len(r) + 1] = x
      /\ \A i \in 1..Len(r) : t[i] = r[i]
  <2> HIDE DEF x
  <2> QED BY <1>1, <1>3
<1>5. DOMAIN t = 1..Len(t)
  BY <1>4
<1>6. Longer(r, t)
  BY <1>2, <1>4, <1>5 DEF Longer
<1>7. Lists(r, t, D, a, n)
  BY <1>2, <1>4 DEF Lists
<1>8. /\ D \in SUBSET Packages /\ \A p \in D : a[p] = 1
      /\ \A p : p \in D <=> p = q
  OBVIOUS
<1> HIDE DEF x, n, a, D
<1>9. SumOK(t) /\ Grows(r, t, D, a)
  BY <1>4, <1>6, <1>7, <1>8, RowsAdded
<1>10. \A p \in Packages : Share(D, a, p) = Single(q, 1, p)
  BY <1>8 DEF Share, Single
<1>11. Rises(r, t, q, 1)
  BY <1>9, <1>10 DEF Grows, Rises
<1> QED BY <1>4, <1>6, <1>9, <1>11

\* SetToSeq lists a finite set, each of its elements once.
LEMMA Listing ==
  ASSUME NEW S, IsFiniteSet(S)
  PROVE  /\ SetToSeq(S) \in Seq(S) /\ Len(SetToSeq(S)) = Cardinality(S) /\ Cardinality(S) \in Nat
         /\ \A x \in S : \E i \in 1..Cardinality(S) : SetToSeq(S)[i] = x
         /\ IsInjective(SetToSeq(S))
<1> DEFINE n == Cardinality(S)
           f == SetToSeq(S)
<1>1. n \in Nat /\ \E h \in [1..n -> S] : IsInjective(h)
  BY FS_CardinalityType DEF ExistsBijection, Bijection, Injection
<1>2. f \in [1..n -> S] /\ IsInjective(f)
  BY <1>1 DEF SetToSeq
<1>3. f \in Surjection(1..n, S)
  <2>1. f \in Injection(1..n, S)
    BY <1>2 DEF Injection
  <2>2. Cardinality(1..n) = n
    BY <1>1, FS_Interval
  <2> HIDE DEF f
  <2> QED BY <2>1, <2>2, FS_Injection
<1>4. \A x \in S : \E i \in 1..n : f[i] = x
  BY <1>3 DEF Surjection
<1>5. f \in Seq(S) /\ Len(f) = n
  BY <1>1, <1>2
<1> QED BY <1>1, <1>2, <1>4, <1>5

\* CancelPackages creates one row for each package to be refunded later.
LEMMA RowsCreated ==
  ASSUME NEW r \in Seq(Refund), SumOK(r), NEW D \in SUBSET Packages, IsFiniteSet(Packages),
         NEW a, \A p \in D : a[p] \in Nat,
         NEW t, t = r \o SetToSeq({NewRefund(p, a[p]) : p \in D})
  PROVE  t \in Seq(Refund) /\ SumOK(t) /\ Longer(r, t) /\ Grows(r, t, D, a)
<1> DEFINE x(p) == NewRefund(p, a[p])
           S == {x(p) : p \in D}
           m == SetToSeq(S)
<1>1. \A p \in D : x(p) \in Refund
  BY DEF Refund, NewRefund
<1>2. S \subseteq Refund /\ \A y \in S : y.package \in D /\ y = x(y.package)
  <2>1. \A p \in D : x(p).package = p
    BY DEF NewRefund
  <2> HIDE DEF x
  <2> QED BY <1>1, <2>1
<1>3. IsFiniteSet(S)
  <2> DEFINE g == [y \in S |-> y.package]
  <2>1. g \in Injection(S, Packages)
    <3>1. g \in [S -> Packages]
      BY <1>2
    <3>2. \A y, z \in S : g[y] = g[z] => y = z
      <4> HIDE DEF x, S
      <4> QED BY <1>2
    <3>3. IsInjective(g)
      BY <3>2 DEF IsInjective
    <3> QED BY <3>1, <3>3 DEF Injection
  <2> HIDE DEF g, S
  <2> QED BY <2>1, FS_Injection
<1> DEFINE k == Cardinality(S)
<1>4. /\ m \in Seq(S) /\ Len(m) = k /\ k \in Nat
      /\ \A y \in S : \E i \in 1..k : m[i] = y
      /\ \A i, j \in 1..k : m[i] = m[j] => i = j
  <2> HIDE DEF S
  <2>1. /\ m \in Seq(S) /\ Len(m) = k /\ k \in Nat
        /\ \A y \in S : \E i \in 1..k : m[i] = y
        /\ IsInjective(m)
    BY <1>3, Listing
  <2>2. DOMAIN m = 1..k
    <3> HIDE DEF m, k
    <3> QED BY <2>1
  <2> QED BY <2>1, <2>2 DEF IsInjective
<1>5. \A p \in D : x(p) \in S
  OBVIOUS
<1>6. t = r \o m
  OBVIOUS
<1> HIDE DEF S, m, k
<1>7. m \in Seq(Refund) /\ \A i \in 1..k : m[i] \in S
  <2>1. \A i \in 1..k : m[i] \in S
    BY <1>4
  <2>2. m \in [1..k -> S]
    BY <1>4
  <2>3. m \in [1..k -> Refund]
    BY <1>2, <2>2
  <2> QED BY <1>4, <2>1, <2>3
<1>8. /\ t \in Seq(Refund) /\ Len(t) = Len(r) + k
      /\ DOMAIN r = 1..Len(r) /\ DOMAIN t = 1..Len(t) /\ Len(r) \in Nat
      /\ \A i \in 1..Len(r) : t[i] = r[i]
      /\ \A i \in 1..k : t[Len(r) + i] = m[i]
  <2>1. m \in Seq(Refund) /\ Len(m) = k /\ k \in Nat /\ r \in Seq(Refund)
    BY <1>4, <1>7
  <2>2. Len(r) \in Nat /\ DOMAIN r = 1..Len(r)
    BY <2>1
  <2>3. r \o m \in Seq(Refund) /\ Len(r \o m) = Len(r) + k
    <3>1. \A v, z \in Seq(Refund) : v \o z \in Seq(Refund) /\ Len(v \o z) = Len(v) + Len(z)
      OBVIOUS
    <3> QED BY <2>1, <3>1
  <2>4. /\ \A i \in 1..Len(r) : (r \o m)[i] = r[i]
        /\ \A i \in 1..k : (r \o m)[Len(r) + i] = m[i]
    BY <2>1
  <2>5. DOMAIN (r \o m) = 1..Len(r \o m)
    BY <2>3
  <2> QED BY <1>6, <2>2, <2>3, <2>4, <2>5
<1> DEFINE n == [p \in D |-> Len(r) + (CHOOSE i \in 1..k : m[i] = x(p))]
<1>9. \A p \in D : \E i \in 1..k : n[p] = Len(r) + i /\ m[i] = x(p)
  <2> SUFFICES ASSUME NEW p \in D PROVE \E i \in 1..k : n[p] = Len(r) + i /\ m[i] = x(p)
    OBVIOUS
  <2> HIDE DEF x
  <2>1. \E i \in 1..k : m[i] = x(p)
    BY <1>4, <1>5
  <2> QED BY <2>1
<1>10. \A i \in 1..k : \E p \in D : m[i] = x(p)
  <2> HIDE DEF x
  <2> QED BY <1>2, <1>7
<1> HIDE DEF n
<1>11. \A p \in D : n[p] \in Len(r) + 1 .. Len(t) /\ t[n[p]] = x(p)
  <2> SUFFICES ASSUME NEW p \in D PROVE n[p] \in Len(r) + 1 .. Len(t) /\ t[n[p]] = x(p)
    OBVIOUS
  <2> HIDE DEF x
  <2>1. PICK i \in 1..k : n[p] = Len(r) + i /\ m[i] = x(p)
    BY <1>9
  <2>2. Len(r) + i \in Len(r) + 1 .. Len(t)
    BY <1>4, <1>8
  <2>3. t[Len(r) + i] = m[i]
    BY <1>8
  <2> QED BY <2>1, <2>2, <2>3
<1>12. \A i \in Len(r) + 1 .. Len(t) : \E p \in D : n[p] = i
  <2> SUFFICES ASSUME NEW i \in Len(r) + 1 .. Len(t) PROVE \E p \in D : n[p] = i
    OBVIOUS
  <2> HIDE DEF x
  <2>1. i - Len(r) \in 1..k
    BY <1>4, <1>8
  <2>2. PICK p \in D : m[i - Len(r)] = x(p)
    BY <1>10, <2>1
  <2>3. PICK j \in 1..k : n[p] = Len(r) + j /\ m[j] = x(p)
    BY <1>9
  <2>4. j = i - Len(r)
    BY <1>4, <2>1, <2>2, <2>3
  <2>5. n[p] = i
    BY <1>4, <1>8, <2>3, <2>4
  <2> QED BY <2>5
<1>13. Longer(r, t)
  BY <1>4, <1>8 DEF Longer
<1>14. Lists(r, t, D, a, n)
  BY <1>11, <1>12 DEF Lists
<1>15. SumOK(t) /\ Grows(r, t, D, a)
  BY <1>8, <1>13, <1>14, RowsAdded
<1> QED BY <1>8, <1>13, <1>15

-----------------------------------------------------------------------------
(* Invariants. *)

\* The package a call refunds next.
LastOf(S) == CHOOSE p \in S : \A q \in S : p >= q

Busy == {c \in Running : calls[c] # Idle}

\* The shape of a running call.
Fit(x) ==
  /\ x.now \subseteq DOMAIN x.seen /\ DOMAIN x.seen \subseteq Listed
  /\ \A p \in DOMAIN x.seen : x.seen[p].traits = pkg[p].traits
  /\ x.now # {} <=> x.pc \in {"fees", "handlePending", "pay"}
  /\ x.pc \in {"pending", "save"} =>
       \/ x.kind = "staff"
       \/ /\ x.kind = "customer"
          /\ \A p \in DOMAIN x.seen : x.seen[p].status \in {"Created", "PendingPickup"}
  /\ x.pc \in {"handlePending", "pay"} => LastOf(x.now) \notin NeverRefunded
  /\ x.pc = "pay" => x.due[LastOf(x.now)] > 0

Inv ==
  /\ TypeOK
  /\ SumOK(rows)
  /\ \A i \in todo : ~rows[i].paid
  /\ billed \subseteq Listed
  /\ NeverRefunded \subseteq NotRefunded
  /\ \A c \in Busy : Fit(calls[c])

\* What is left of the price and the fees of a package, refunds that wait taken off.
Left(p) == Price + extra[p] - Waits(rows, p)

\* The price of a package that is never refunded is left, but for what staff gave back.
KeptInv == \A p \in NeverRefunded : Left(p) + Given(p) >= Price

\* What a call knows of p is so: what was read, and what is left.
Known(x, p, read, left) ==
  p \in DOMAIN x.seen =>
    /\ x.pc = "pending" => x.due[p] = read
    /\ x.pc = "save" => x.due[p] = left
    /\ x.pc = "handlePending" /\ p = LastOf(x.now) => x.due[p] = read
    /\ x.pc = "pay" /\ p = LastOf(x.now) => x.due[p] = left

LeftInv ==
  \A p \in Packages \ disturbed :
    /\ Left(p) >= 0
    /\ \A c \in Busy : Known(calls[c], p, Price + extra[p], Left(p))

\* What a call read of a package nobody else changed is still so when it saves.
SeenInv ==
  \A p, c : /\ p \in Listed \ disturbed /\ c \in Busy /\ calls[c].pc \in {"pending", "save"}
           /\ p \in DOMAIN calls[c].seen
           => calls[c].seen[p].status = pkg[p].status

\* A package cancelled in time is settled, or a call is about to settle it.
Due(p) ==
  /\ p \in billed \ (lost \cup NotRefunded) /\ pkg[p].status = "Cancelled"
  /\ from[p] \in {"PendingPickup", "InWarehouse"}
Settles(p) == Left(p) = 0 \/ \E c \in Busy : p \in calls[c].now

SettledInv == \A p \in Listed \ disturbed : Due(p) => Settles(p)

-----------------------------------------------------------------------------
(* Packages, calls. *)

LEMMA LastExists ==
  ASSUME NEW S, S \subseteq Nat, IsFiniteSet(S), S # {}
  PROVE  \E p \in S : \A q \in S : p >= q
<1> DEFINE Above(p) == {q \in S : q > p}
           T == {Cardinality(Above(p)) : p \in S}
<1>1. \A p \in S : IsFiniteSet(Above(p)) /\ Cardinality(Above(p)) \in Nat
  <2> SUFFICES ASSUME NEW p \in S PROVE IsFiniteSet(Above(p)) /\ Cardinality(Above(p)) \in Nat
    OBVIOUS
  <2> DEFINE A == Above(p)
  <2>1. A \in SUBSET S
    OBVIOUS
  <2> HIDE DEF A
  <2>2. IsFiniteSet(A) /\ Cardinality(A) \in Nat
    BY <2>1, FS_Subset, FS_CardinalityType
  <2> QED BY <2>2 DEF A
<1>2. \E k \in T : \A j \in T : ~(j < k)
  <2>1. T \subseteq Nat /\ T # {}
    <3> HIDE DEF Above
    <3> QED BY <1>1
  <2> HIDE DEF T
  <2> DEFINE R == OpToRel(<, Nat)
  <2>2. \A i, j \in Nat : i < j => <<i, j>> \in R
    BY DEF OpToRel
  <2>3. IsWellFoundedOn(R, Nat)
    BY NatLessThanWellFounded
  <2> HIDE DEF R
  <2>4. \E k \in T : \A j \in T : ~(<<j, k>> \in R)
    BY <2>1, <2>3, WFMin
  <2> QED BY <2>1, <2>2, <2>4
<1>3. PICK p \in S : \A q \in S : ~(Cardinality(Above(q)) < Cardinality(Above(p)))
  <2> HIDE DEF Above
  <2> QED BY <1>2
<1>4. ASSUME NEW q \in S, ~(p >= q) PROVE FALSE
  <2> DEFINE A == Above(q)
             B == Above(p)
  <2>1. A \in SUBSET B /\ q \in B /\ q \notin A
    <3>1. p \in Nat /\ q \in Nat /\ \A r \in S : r \in Nat
      OBVIOUS
    <3>2. q > p
      BY <1>4, <3>1
    <3>3. ~(q > q) /\ \A r \in S : r > q => r > p
      BY <3>1, <3>2
    <3> QED BY <3>2, <3>3
  <2>2. IsFiniteSet(B) /\ Cardinality(B) \in Nat /\ Cardinality(A) \in Nat
    BY <1>1
  <2>3. ~(Cardinality(A) < Cardinality(B))
    BY <1>3
  <2> HIDE DEF A, B
  <2>4. Cardinality(A) <= Cardinality(B) /\ (Cardinality(B) = Cardinality(A) => A = B)
    BY <2>1, <2>2, FS_Subset
  <2> QED BY <2>1, <2>2, <2>3, <2>4
<1> QED BY <1>4

LEMMA LastIs ==
  ASSUME NEW S \in SUBSET Packages, S # {}
  PROVE  LastOf(S) \in S
<1>1. S \subseteq Nat /\ IsFiniteSet(S)
  BY RefundingConstants, FS_Subset
<1>2. \E p \in S : \A q \in S : p >= q
  BY <1>1, LastExists
<1> QED BY <1>2 DEF LastOf

LEMMA NextIs ==
  ASSUME NEW c
  PROVE  NextDue(c) = LastOf(calls[c].now)
BY DEF NextDue, LastOf

LEMMA CallFields ==
  ASSUME NEW x \in Call
  PROVE  /\ x # Idle /\ x.kind \in Kinds /\ x.pc \in Steps /\ x.now \in SUBSET Packages
         /\ x.due \in [Packages -> Int] /\ DOMAIN x.seen \in SUBSET Packages
         /\ x.seen \in [DOMAIN x.seen -> Row]
         /\ x.seen \in UNION {[S -> Row] : S \in SUBSET Packages}
BY IdleIsNoCall DEF Call

LEMMA RowOf ==
  ASSUME NEW r \in Row
  PROVE  /\ r.status \in Status /\ r.promoted \in BOOLEAN /\ r.tracked \in BOOLEAN
         /\ r.traits \in Sorts
BY DEF Row

LEMMA Types ==
  ASSUME TypeOK
  PROVE  /\ Listed \in SUBSET Packages /\ pkg \in [Listed -> Row]
         /\ extra \in [Packages -> Int] /\ rows \in Seq(Refund)
         /\ Running \in SUBSET Calls /\ calls \in [Running -> Call \cup {Idle}]
         /\ \A c \in Busy : c \in Running /\ calls[c] \in Call
BY DEF TypeOK, Listed, Running, Busy

FeesOK ==
  /\ final \in [Packages -> Nat]
  /\ \E T \in SUBSET FeeTypes : fees \in [T -> [Packages -> 0..MaxFees]]

\* The other way round, after a step.
LEMMA TypesAre ==
  ASSUME NEW S \in SUBSET Packages, pkg' \in [S -> Row],
         NEW C \in SUBSET Calls, calls' \in [C -> Call \cup {Idle}],
         (/\ extra \in [Packages -> Int] /\ rows \in Seq(Refund) /\ todo \subseteq DOMAIN rows
          /\ faults \in 0..MaxFaults
          /\ billed \subseteq Packages /\ disturbed \subseteq Packages /\ lost \subseteq Packages
          /\ from \in [Packages -> Status] /\ FeesOK)'
  PROVE  TypeOK'
BY DEF TypeOK, FeesOK

LEMMA OneCall ==
  ASSUME TypeOK, NEW c \in Running, NEW y \in Call \cup {Idle}, calls' = [calls EXCEPT ![c] = y]
  PROVE  /\ calls' \in [Running -> Call \cup {Idle}] /\ Running' = Running /\ calls'[c] = y
         /\ \A d \in Running : d # c => calls'[d] = calls[d]
<1>1. calls \in [Running -> Call \cup {Idle}]
  BY Types
<1>2. calls' \in [Running -> Call \cup {Idle}]
  BY <1>1
<1> QED BY <1>1, <1>2 DEF Running

\* What the steps of a call do to it.
Same(x, y) == y.kind = x.kind /\ y.seen = x.seen

LEMMA Continues ==
  ASSUME TypeOK, NEW c \in Busy, NEW now \in SUBSET Packages, Continue(c, now)
  PROVE  /\ calls' \in [Running -> Call \cup {Idle}] /\ Running' = Running
         /\ \A d \in Running : d # c => calls'[d] = calls[d]
         /\ now = {} => calls'[c] = Idle
         /\ now # {} => /\ calls'[c] \in Call /\ Same(calls[c], calls'[c])
                        /\ calls'[c].pc = "fees" /\ calls'[c].now = now
                        /\ calls'[c].due = calls[c].due
<1>1. c \in Running /\ calls[c] \in Call
  BY Types
<1> DEFINE z == [calls[c] EXCEPT !.pc = "fees", !.now = now]
           y == IF now = {} THEN Idle ELSE z
<1>2. /\ z \in Call /\ z.kind = calls[c].kind /\ z.seen = calls[c].seen /\ z.pc = "fees"
      /\ z.now = now /\ z.due = calls[c].due
  BY <1>1 DEF Call, Steps
<1>3. calls' = [calls EXCEPT ![c] = y]
  BY DEF Continue
<1> HIDE DEF z
<1>4. y \in Call \cup {Idle}
  BY <1>2
<1>5. y = IF now = {} THEN Idle ELSE z
  OBVIOUS
<1> HIDE DEF y
<1>6. /\ calls' \in [Running -> Call \cup {Idle}] /\ Running' = Running /\ calls'[c] = y
      /\ \A d \in Running : d # c => calls'[d] = calls[d]
  BY <1>1, <1>3, <1>4, OneCall
<1> QED BY <1>2, <1>5, <1>6 DEF Same

LEMMA Begins ==
  ASSUME TypeOK, NEW c \in Running, NEW kind \in {"customer", "staff"},
         NEW S \in SUBSET Listed, Begin(c, kind, S)
  PROVE  /\ calls' \in [Running -> Call \cup {Idle}] /\ Running' = Running
         /\ \A d \in Running : d # c => calls'[d] = calls[d]
         /\ calls'[c] \in Call /\ calls'[c].kind = kind /\ calls'[c].pc = "pending"
         /\ calls'[c].now = {} /\ DOMAIN calls'[c].seen = S
         /\ \A p \in S : calls'[c].seen[p] = pkg[p] /\ calls'[c].due[p] = Price + extra[p]
<1> DEFINE sn == [p \in S |-> pkg[p]]
           du == [p \in Packages |-> IF p \in S THEN Refundable(p) ELSE 0]
           y == [kind |-> kind, pc |-> "pending", seen |-> sn, due |-> du, now |-> {}]
<1>1. /\ Listed \in SUBSET Packages /\ pkg \in [Listed -> Row] /\ extra \in [Packages -> Int]
  BY Types
<1>2. sn \in [S -> Row] /\ S \in SUBSET Packages /\ du \in [Packages -> Int]
  BY <1>1 DEF Refundable, Price
<1>3. \A p \in S : sn[p] = pkg[p] /\ du[p] = Price + extra[p]
  BY <1>2 DEF Refundable
<1>4. DOMAIN sn = S
  OBVIOUS
<1>5. calls' = [calls EXCEPT ![c] = y]
  BY DEF Begin
<1> HIDE DEF sn, du
<1>6. y \in Call
  BY <1>2 DEF Call, Kinds, Steps
<1>7. y.kind = kind /\ y.pc = "pending" /\ y.seen = sn /\ y.due = du /\ y.now = {}
  OBVIOUS
<1> HIDE DEF y
<1>8. /\ calls' \in [Running -> Call \cup {Idle}] /\ Running' = Running /\ calls'[c] = y
      /\ \A d \in Running : d # c => calls'[d] = calls[d]
  BY <1>5, <1>6, OneCall
<1> QED BY <1>3, <1>4, <1>6, <1>7, <1>8

\* A step that sets what is due and goes on to pc.
SetsDue(c, pc, due) == calls' = [calls EXCEPT ![c] = [calls[c] EXCEPT !.pc = pc, !.due = due]]

LEMMA Goes ==
  ASSUME TypeOK, NEW c \in Busy, NEW pc \in Steps, NEW due \in [Packages -> Int], SetsDue(c, pc, due)
  PROVE  /\ calls' \in [Running -> Call \cup {Idle}] /\ Running' = Running
         /\ \A d \in Running : d # c => calls'[d] = calls[d]
         /\ calls'[c] \in Call /\ Same(calls[c], calls'[c])
         /\ calls'[c].pc = pc /\ calls'[c].now = calls[c].now /\ calls'[c].due = due
<1>1. c \in Running /\ calls[c] \in Call
  BY Types
<1> DEFINE y == [calls[c] EXCEPT !.pc = pc, !.due = due]
<1>2. /\ y \in Call /\ y.kind = calls[c].kind /\ y.seen = calls[c].seen /\ y.pc = pc
      /\ y.now = calls[c].now /\ y.due = due
  BY <1>1 DEF Call
<1>3. calls' = [calls EXCEPT ![c] = y]
  BY DEF SetsDue
<1> HIDE DEF y
<1>4. /\ calls' \in [Running -> Call \cup {Idle}] /\ Running' = Running /\ calls'[c] = y
      /\ \A d \in Running : d # c => calls'[d] = calls[d]
  BY <1>1, <1>2, <1>3, OneCall
<1> QED BY <1>2, <1>4 DEF Same

LEMMA Reads ==
  ASSUME Inv, NEW c \in Running, ReadPending(c)
  PROVE  /\ calls' \in [Running -> Call \cup {Idle}] /\ Running' = Running
         /\ \A d \in Running : d # c => calls'[d] = calls[d]
         /\ c \in Busy /\ calls[c].pc = "pending"
         /\ calls'[c] \in Call /\ Same(calls[c], calls'[c])
         /\ calls'[c].pc = "save" /\ calls'[c].now = calls[c].now
         /\ \A p \in DOMAIN calls[c].seen : calls'[c].due[p] = calls[c].due[p] - Waits(rows, p)
<1>1. c \in Busy /\ calls[c].pc = "pending" /\ TypeOK
  BY DEF ReadPending, At, Busy, Inv
<1>2. calls[c] \in Call /\ calls \in [Running -> Call \cup {Idle}]
  BY <1>1, Types
<1> DEFINE x == calls[c]
           due == [p \in Packages |-> IF p \in DOMAIN x.seen THEN x.due[p] - Waits(rows, p) ELSE 0]
<1>3. /\ x.due \in [Packages -> Int] /\ DOMAIN x.seen \in SUBSET Packages
      /\ \A p \in Packages : Waits(rows, p) \in Int
  BY <1>2, CallFields, WaitsInt DEF Inv
<1>4. due \in [Packages -> Int] /\ "save" \in Steps
  BY <1>3 DEF Steps
<1>5. \A p \in DOMAIN x.seen : due[p] = x.due[p] - Waits(rows, p)
  BY <1>3
<1>6. SetsDue(c, "save", due)
  <2>1. calls' = [calls EXCEPT ![c].pc = "save",
           ![c].due = [p \in Packages |-> IF p \in Held(c) THEN @[p] - PendingSum(p) ELSE 0]]
    BY DEF ReadPending
  <2>2. Held(c) = DOMAIN x.seen
    BY <1>1 DEF Held, Busy
  <2>3. \A p \in Packages : PendingSum(p) = Waits(rows, p)
    BY PendingIs
  <2>4. due = [p \in Packages |-> IF p \in Held(c) THEN x.due[p] - PendingSum(p) ELSE 0]
    BY <2>2, <2>3
  <2>5. calls' = [calls EXCEPT ![c].pc = "save", ![c].due = due]
    BY <1>2, <2>1, <2>4 DEF Call
  <2> HIDE DEF due
  <2> QED BY <1>2, <2>5 DEF Call, SetsDue
<1> HIDE DEF due
<1>7. /\ calls' \in [Running -> Call \cup {Idle}] /\ Running' = Running
      /\ \A d \in Running : d # c => calls'[d] = calls[d]
      /\ calls'[c] \in Call /\ Same(calls[c], calls'[c])
      /\ calls'[c].pc = "save" /\ calls'[c].now = calls[c].now /\ calls'[c].due = due
  BY <1>1, <1>4, <1>6, Goes
<1> QED BY <1>1, <1>5, <1>7

LEMMA Refunding1 ==
  ASSUME Inv, NEW c \in Busy, calls[c].pc \in {"fees", "handlePending", "pay"}
  PROVE  /\ LastOf(calls[c].now) \in calls[c].now /\ NextDue(c) = LastOf(calls[c].now)
         /\ calls[c].now \subseteq DOMAIN calls[c].seen /\ calls[c].now \in SUBSET Packages
         /\ calls[c].due \in [Packages -> Int]
<1>1. calls[c] \in Call /\ calls[c].now # {} /\ calls[c].now \subseteq DOMAIN calls[c].seen
  BY Types DEF Inv, Fit
<1>2. calls[c].now \in SUBSET Packages /\ calls[c].due \in [Packages -> Int]
  BY <1>1, CallFields
<1> QED BY <1>1, <1>2, LastIs, NextIs

LEMMA Looks ==
  ASSUME Inv, NEW c \in Busy, calls[c].pc \in {"fees", "handlePending", "pay"},
         NEW n, n = LastOf(calls[c].now), NEW pc \in Steps, NEW a \in Int,
         calls' = [calls EXCEPT ![c].pc = pc, ![c].due[n] = a]
  PROVE  /\ calls' \in [Running -> Call \cup {Idle}] /\ Running' = Running
         /\ \A d \in Running : d # c => calls'[d] = calls[d]
         /\ calls'[c] \in Call /\ Same(calls[c], calls'[c])
         /\ calls'[c].pc = pc /\ calls'[c].now = calls[c].now /\ calls'[c].due[n] = a
<1>1. calls[c] \in Call /\ calls \in [Running -> Call \cup {Idle}] /\ TypeOK
  BY Types DEF Inv
<1>2. n \in Packages /\ calls[c].due \in [Packages -> Int]
  BY Refunding1
<1> DEFINE due == [calls[c].due EXCEPT ![n] = a]
<1>3. due \in [Packages -> Int] /\ due[n] = a
  BY <1>2
<1>4. SetsDue(c, pc, due)
  BY <1>1 DEF Call, SetsDue
<1> HIDE DEF due
<1>5. /\ calls' \in [Running -> Call \cup {Idle}] /\ Running' = Running
      /\ \A d \in Running : d # c => calls'[d] = calls[d]
      /\ calls'[c] \in Call /\ Same(calls[c], calls'[c])
      /\ calls'[c].pc = pc /\ calls'[c].now = calls[c].now /\ calls'[c].due = due
  BY <1>1, <1>3, <1>4, Goes
<1> QED BY <1>3, <1>5

LEMMA FeesRead ==
  ASSUME Inv, NEW c \in Running, HandleFees(c), NEW n, n = LastOf(calls[c].now)
  PROVE  /\ c \in Busy /\ calls[c].pc = "fees" /\ n \in calls[c].now
         /\ \/ n \in NeverRefunded /\ Continue(c, calls[c].now \ {n})
            \/ /\ n \notin NeverRefunded
               /\ calls' \in [Running -> Call \cup {Idle}] /\ Running' = Running
               /\ \A d \in Running : d # c => calls'[d] = calls[d]
               /\ calls'[c] \in Call /\ Same(calls[c], calls'[c])
               /\ calls'[c].pc = "handlePending" /\ calls'[c].now = calls[c].now
               /\ calls'[c].due[n] = Price + extra[n]
<1>1. c \in Busy /\ calls[c].pc = "fees"
  BY DEF HandleFees, At, Busy
<1>2. n \in calls[c].now /\ NextDue(c) = n /\ n \in Packages
  BY <1>1, Refunding1
<1>3. Price + extra[n] \in Int /\ "handlePending" \in Steps
  BY <1>2, Types DEF Inv, Price, Steps
<1>4. \/ n \in NeverRefunded /\ Continue(c, calls[c].now \ {n})
      \/ /\ n \notin NeverRefunded
         /\ calls' = [calls EXCEPT ![c].pc = "handlePending", ![c].due[n] = Price + extra[n]]
  BY <1>2 DEF HandleFees, Refundable
<1> QED BY <1>1, <1>2, <1>3, <1>4, Looks

LEMMA PendingRead ==
  ASSUME Inv, NEW c \in Running, HandlePending(c), NEW n, n = LastOf(calls[c].now),
         NEW amount, amount = calls[c].due[n] - Waits(rows, n)
  PROVE  /\ c \in Busy /\ calls[c].pc = "handlePending" /\ n \in calls[c].now /\ amount \in Int
         /\ \/ amount <= 0 /\ Continue(c, calls[c].now \ {n})
            \/ /\ amount > 0
               /\ calls' \in [Running -> Call \cup {Idle}] /\ Running' = Running
               /\ \A d \in Running : d # c => calls'[d] = calls[d]
               /\ calls'[c] \in Call /\ Same(calls[c], calls'[c])
               /\ calls'[c].pc = "pay" /\ calls'[c].now = calls[c].now
               /\ calls'[c].due[n] = amount
<1>1. c \in Busy /\ calls[c].pc = "handlePending"
  BY DEF HandlePending, At, Busy
<1>2. n \in calls[c].now /\ NextDue(c) = n /\ n \in Packages /\ calls[c].due \in [Packages -> Int]
  BY <1>1, Refunding1
<1>3. Waits(rows, n) \in Int /\ PendingSum(n) = Waits(rows, n)
  BY <1>2, WaitsInt, PendingIs DEF Inv
<1>4. amount \in Int /\ "pay" \in Steps
  BY <1>2, <1>3 DEF Steps
<1>5. \/ amount <= 0 /\ Continue(c, calls[c].now \ {n})
      \/ /\ ~(amount <= 0)
         /\ calls' = [calls EXCEPT ![c].pc = "pay", ![c].due[n] = amount]
  BY <1>2, <1>3 DEF HandlePending
<1> QED BY <1>1, <1>2, <1>4, <1>5, Looks

\* The refund of the next package is posted.
LEMMA Pays ==
  ASSUME Inv, NEW c \in Running, HandlePay(c), NEW n, n = LastOf(calls[c].now)
  PROVE  /\ c \in Busy /\ calls[c].pc = "pay" /\ n \in calls[c].now /\ n \in Packages
         /\ calls[c].due[n] \in Int /\ Continue(c, calls[c].now \ {n}) /\ Touch({n}, c)
         /\ extra' \in [Packages -> Int] /\ UNCHANGED rows
         /\ \A p \in Packages : extra'[p] = extra[p] - Single(n, calls[c].due[n], p)
<1>1. c \in Busy /\ calls[c].pc = "pay"
  BY DEF HandlePay, At, Busy
<1>2. n \in calls[c].now /\ NextDue(c) = n /\ n \in Packages /\ calls[c].due[n] \in Int
  BY <1>1, Refunding1
<1>3. /\ extra' = [extra EXCEPT ![n] = @ - calls[c].due[n]]
      /\ Continue(c, calls[c].now \ {n}) /\ Touch({n}, c) /\ UNCHANGED rows
  BY <1>2 DEF HandlePay
<1>4. extra \in [Packages -> Int]
  BY Types DEF Inv
<1> DEFINE a == calls[c].due[n]
<1>5. extra' = [extra EXCEPT ![n] = @ - a] /\ a \in Int
  BY <1>2, <1>3
<1> HIDE DEF a
<1>6. /\ extra' \in [Packages -> Int]
      /\ \A p \in Packages : extra'[p] = extra[p] - Single(n, a, p)
  BY <1>2, <1>4, <1>5 DEF Single
<1> QED BY <1>1, <1>2, <1>3, <1>6 DEF a

\* A waiting refund is paid: what is left stays.
LEMMA RefundPaid ==
  ASSUME Inv, NEW i \in DOMAIN rows, PackageRefund(i)
  PROVE  /\ rows' \in Seq(Refund) /\ SumOK(rows') /\ DOMAIN rows' = DOMAIN rows
         /\ todo' = todo \ {i} /\ \A j \in DOMAIN rows : j # i => rows'[j] = rows[j]
         /\ extra' \in [Packages -> Int]
         /\ \A p \in Packages : Left(p)' = Left(p) /\ (p # rows[i].package => extra'[p] = extra[p])
<1>1. /\ rows \in Seq(Refund) /\ SumOK(rows) /\ extra \in [Packages -> Int] /\ ~rows[i].paid
      /\ rows' = [rows EXCEPT ![i].paid = TRUE] /\ todo' = todo \ {i}
      /\ extra' = [extra EXCEPT ![rows[i].package] = @ - rows[i].amount]
  BY Types DEF Inv, PackageRefund
<1>2. /\ rows[i].package \in Packages /\ rows[i].amount \in Int
  BY <1>1, RowFields
<1>3. /\ rows' \in Seq(Refund) /\ SumOK(rows') /\ DOMAIN rows' = DOMAIN rows
      /\ Drops(rows, rows', rows[i].package, rows[i].amount)
      /\ \A j \in DOMAIN rows : j # i => rows'[j] = rows[j]
  <2> DEFINE t == rows'
  <2>1. t = [rows EXCEPT ![i].paid = TRUE]
    BY <1>1
  <2> HIDE DEF t
  <2>2. /\ t \in Seq(Refund) /\ SumOK(t) /\ DOMAIN t = DOMAIN rows
        /\ Drops(rows, t, rows[i].package, rows[i].amount)
        /\ \A j \in DOMAIN rows : j # i => t[j] = rows[j]
    BY <1>1, <2>1, RowPaid
  <2> QED BY <2>2 DEF t
<1> DEFINE q == rows[i].package
           a == rows[i].amount
<1>4. extra' = [extra EXCEPT ![q] = @ - a] /\ q \in Packages /\ a \in Int
  BY <1>1, <1>2
<1>5. \A p \in Packages : Waits(rows', p) = Waits(rows, p) - Single(q, a, p)
  BY <1>3 DEF Drops
<1>6. \A p \in Packages : Waits(rows, p) \in Int
  BY <1>1, WaitsInt
<1> HIDE DEF q, a
<1>7. /\ extra' \in [Packages -> Int]
      /\ \A p \in Packages : extra'[p] = extra[p] - Single(q, a, p)
  <2>1. extra \in [Packages -> Int]
    BY <1>1
  <2> QED BY <1>4, <2>1 DEF Single
<1>8. \A p \in Packages : Left(p)' = Left(p) /\ (p # q => extra'[p] = extra[p])
  <2> SUFFICES ASSUME NEW p \in Packages
               PROVE  Left(p)' = Left(p) /\ (p # q => extra'[p] = extra[p])
    OBVIOUS
  <2>1. extra[p] \in Int /\ Waits(rows, p) \in Int
    BY <1>1, <1>6
  <2> QED BY <1>4, <1>5, <1>7, <2>1 DEF Left, Price, Single
<1> QED BY <1>1, <1>3, <1>7, <1>8 DEF q

\* A fee is charged, or an amount given back.
StaffTypes == FeeTypes \ {"label"}

LEMMA FeeCharged ==
  ASSUME Inv, NEW q \in Listed, NEW type \in StaffTypes, Fee(q, type)
  PROVE  /\ extra' \in [Packages -> Int] /\ UNCHANGED rows /\ q \in Packages
         /\ Amount(type) \in {-1, 0, 1} /\ (Amount(type) = -1 => type = "refund")
         /\ \A p \in Packages : /\ Left(p)' = Left(p) + Single(q, Amount(type), p)
                                /\ p # q => extra'[p] = extra[p]
<1> DEFINE a == Amount(type)
<1>0. a \in {-1, 0, 1} /\ (a = -1 => type = "refund")
  BY DEF Amount
<1>1. /\ extra \in [Packages -> Int] /\ extra' = [extra EXCEPT ![q] = @ + a] /\ UNCHANGED rows
      /\ q \in Packages /\ SumOK(rows)
  BY Types DEF Inv, Fee
<1> HIDE DEF a
<1>2. /\ extra' \in [Packages -> Int]
      /\ \A p \in Packages : extra'[p] = extra[p] + Single(q, a, p)
  BY <1>0, <1>1 DEF Single
<1>3. \A p \in Packages : /\ Left(p)' = Left(p) + Single(q, a, p)
                          /\ p # q => extra'[p] = extra[p]
  <2> SUFFICES ASSUME NEW p \in Packages
               PROVE  /\ Left(p)' = Left(p) + Single(q, a, p)
                      /\ p # q => extra'[p] = extra[p]
    OBVIOUS
  <2>1. extra[p] \in Int /\ Waits(rows, p) \in Int
    BY <1>1, WaitsInt
  <2> QED BY <1>0, <1>1, <1>2, <2>1 DEF Left, Price, Single
<1> QED BY <1>0, <1>1, <1>2, <1>3 DEF a

\* A fee is put on record: of a type of the list, for one package more.
LEMMA Counts ==
  ASSUME FeesOK, NEW q \in Packages, NEW type \in FeeTypes, Count(q, type)
  PROVE  /\ \E T \in SUBSET FeeTypes : fees' \in [T -> [Packages -> 0..MaxFees]]
         /\ \A p \in Packages : /\ Given(p) \in Int
                                /\ Given(p)' = Given(p) + (IF type = "refund" /\ p = q THEN 1 ELSE 0)
<1>1. PICK T \in SUBSET FeeTypes : fees \in [T -> [Packages -> 0..MaxFees]]
  BY DEF FeesOK
<1>2. /\ type \in T /\ fees[type][q] \in 0..MaxFees /\ fees[type][q] < MaxFees /\ MaxFees \in Nat
      /\ fees[type] \in [Packages -> 0..MaxFees]
      /\ fees' = [fees EXCEPT ![type][q] = @ + 1]
  BY <1>1, RefundingConstants DEF Count
<1> DEFINE row == [fees[type] EXCEPT ![q] = @ + 1]
<1>3. row \in [Packages -> 0..MaxFees]
  BY <1>2
<1>4. fees' = [fees EXCEPT ![type] = row]
  BY <1>1, <1>2
<1>5. \A p \in Packages : row[p] = fees[type][p] + (IF p = q THEN 1 ELSE 0) /\ fees[type][p] \in Int
  BY <1>2
<1> HIDE DEF row
<1>6. fees' \in [T -> [Packages -> 0..MaxFees]]
  BY <1>1, <1>3, <1>4
<1>7. DOMAIN fees = T /\ DOMAIN fees' = T
  BY <1>1, <1>6
<1>8. ASSUME NEW p \in Packages
      PROVE  /\ Given(p) \in Int
             /\ Given(p)' = Given(p) + (IF type = "refund" /\ p = q THEN 1 ELSE 0)
  <2>1. CASE "refund" \in T
    <3>1. fees["refund"] \in [Packages -> 0..MaxFees] /\ fees["refund"][p] \in Int
      BY <1>1, <2>1
    <3>2. fees'["refund"][p] = fees["refund"][p] + (IF type = "refund" /\ p = q THEN 1 ELSE 0)
      BY <1>1, <1>2, <1>4, <1>5, <2>1, <3>1
    <3> QED BY <1>7, <2>1, <3>1, <3>2 DEF Given
  <2>2. CASE "refund" \notin T
    <3>1. type # "refund"
      BY <1>2, <2>2
    <3> QED BY <1>7, <2>2, <3>1 DEF Given
  <2> QED BY <2>1, <2>2
<1> QED BY <1>6, <1>8

\* A fee is charged that will be given back.
LEMMA FeeHeld ==
  ASSUME Inv, NEW q \in Listed, Hold(q)
  PROVE  /\ rows' \in Seq(Refund) /\ SumOK(rows') /\ Longer(rows, rows')
         /\ extra' \in [Packages -> Int] /\ q \in Packages
         /\ \A p \in Packages : Left(p)' = Left(p) /\ (p # q => extra'[p] = extra[p])
<1>1. /\ extra \in [Packages -> Int] /\ extra' = [extra EXCEPT ![q] = @ + 1]
      /\ q \in Packages /\ SumOK(rows) /\ rows \in Seq(Refund)
      /\ rows' = Append(rows, NewRefund(q, 1))
  BY Types DEF Inv, Hold, NewRefund
<1>2. /\ extra' \in [Packages -> Int]
      /\ \A p \in Packages : extra'[p] = extra[p] + Single(q, 1, p)
  BY <1>1 DEF Single
<1>3. /\ rows' \in Seq(Refund) /\ SumOK(rows') /\ Longer(rows, rows')
      /\ Rises(rows, rows', q, 1)
  <2> DEFINE t == rows'
  <2>1. t = Append(rows, NewRefund(q, 1))
    BY <1>1
  <2> HIDE DEF t
  <2>2. /\ t \in Seq(Refund) /\ SumOK(t) /\ Longer(rows, t)
        /\ Rises(rows, t, q, 1)
    BY <1>1, <2>1, RowAppended
  <2> QED BY <2>2 DEF t
<1>4. \A p \in Packages : Left(p)' = Left(p) /\ (p # q => extra'[p] = extra[p])
  <2> SUFFICES ASSUME NEW p \in Packages
               PROVE  Left(p)' = Left(p) /\ (p # q => extra'[p] = extra[p])
    OBVIOUS
  <2>1. extra[p] \in Int /\ Waits(rows, p) \in Int
    BY <1>1, WaitsInt
  <2> QED BY <1>2, <1>3, <2>1 DEF Left, Price, Single, Rises
<1> QED BY <1>1, <1>2, <1>3, <1>4

\* CancelPackages puts down what is due of the packages to be refunded later.
LEMMA Cancels ==
  ASSUME Inv, NEW c \in Running, CancelPackages(c)
  PROVE  /\ c \in Busy /\ calls[c].pc = "save" /\ Held(c) = DOMAIN calls[c].seen
         /\ AtOnce(c) \in SUBSET DOMAIN calls[c].seen /\ Continue(c, AtOnce(c))
         /\ rows' \in Seq(Refund) /\ SumOK(rows') /\ Longer(rows, rows')
         /\ UNCHANGED extra /\ Deferred(c) \in SUBSET DOMAIN calls[c].seen
         /\ \A p \in Packages :
              Left(p)' = Left(p) - Share(Deferred(c), calls[c].due, p)
<1>1. c \in Busy /\ calls[c].pc = "save"
  BY DEF CancelPackages, At, Busy
<1>2. calls[c] \in Call /\ rows \in Seq(Refund) /\ SumOK(rows) /\ extra \in [Packages -> Int]
  BY <1>1, Types DEF Inv
<1>3. Held(c) = DOMAIN calls[c].seen
  BY <1>1 DEF Held, Busy
<1>4. Live(c) \subseteq DOMAIN calls[c].seen
  BY <1>3 DEF Live
<1>5. AtOnce(c) \in SUBSET DOMAIN calls[c].seen
  BY <1>4 DEF AtOnce, SeenAs
<1>6. Deferred(c) \in SUBSET DOMAIN calls[c].seen /\ \A p \in Deferred(c) : calls[c].due[p] > 0
  BY <1>4 DEF Deferred, SeenAs, Tracked
<1>7. /\ DOMAIN calls[c].seen \in SUBSET Packages /\ calls[c].due \in [Packages -> Int]
  BY <1>2, CallFields
<1> DEFINE D == Deferred(c)
           a == calls[c].due
           t == rows'
<1>8. D \in SUBSET Packages /\ \A p \in D : a[p] \in Nat
  <2>1. \A p \in D : a[p] \in Int /\ a[p] > 0
    BY <1>6, <1>7
  <2> QED BY <1>6, <1>7, <2>1
<1>9. t = rows \o SetToSeq({NewRefund(p, a[p]) : p \in D})
  BY DEF CancelPackages, NewRefund
<1>10. IsFiniteSet(Packages)
  BY RefundingConstants
<1> HIDE DEF D, a, t
<1>11. /\ t \in Seq(Refund) /\ SumOK(t) /\ Longer(rows, t)
       /\ Grows(rows, t, D, a)
  BY <1>2, <1>8, <1>9, <1>10, RowsCreated
<1>12. UNCHANGED extra /\ Continue(c, AtOnce(c))
  BY DEF CancelPackages
<1>13. ASSUME NEW p \in Packages
       PROVE  Left(p)' = Left(p) - Share(D, a, p)
  <2>1. extra[p] \in Int /\ Waits(rows, p) \in Int
    BY <1>2, WaitsInt
  <2>2. Waits(rows', p) = Waits(rows, p) + Share(D, a, p)
    BY <1>11 DEF t, Grows
  <2>3. p \in D => a[p] \in Int
    BY <1>8
  <2> QED BY <1>12, <2>1, <2>2, <2>3 DEF Left, Price, Share
<1> QED BY <1>1, <1>3, <1>5, <1>6, <1>11, <1>12, <1>13 DEF D, a, t

-----------------------------------------------------------------------------
(* Types and shapes. *)

\* Steps leave the list and the traits.
PkgKept ==
  /\ pkg' \in [Listed -> Row] /\ Listed' = Listed
  /\ \A p \in Listed : pkg'[p].traits = pkg[p].traits

LEMMA OnePackage ==
  ASSUME TypeOK, NEW p \in Listed, NEW r \in Row, r.traits = pkg[p].traits,
         pkg' = [pkg EXCEPT ![p] = r]
  PROVE  /\ PkgKept /\ pkg'[p] = r
         /\ \A q \in Listed : q # p => pkg'[q] = pkg[q]
<1>1. pkg \in [Listed -> Row]
  BY Types
<1>2. pkg' \in [Listed -> Row]
  BY <1>1
<1> QED BY <1>1, <1>2 DEF PkgKept, Listed

LEMMA BillsRow ==
  ASSUME TypeOK, NEW p \in Listed, Bill(p)
  PROVE  /\ PkgKept /\ pkg[p].status = "Created" /\ pkg'[p].status = "PendingPickup"
         /\ \A q \in Listed : q # p => pkg'[q] = pkg[q]
<1> DEFINE b == p \notin Tiktok
           r == [pkg[p] EXCEPT !.status = "PendingPickup", !.promoted = TRUE, !.tracked = b]
<1>1. pkg \in [Listed -> Row] /\ pkg[p] \in Row /\ b \in BOOLEAN
  BY Types
<1> HIDE DEF b
<1>2. pkg' = [pkg EXCEPT ![p] = r] /\ pkg[p].status = "Created"
  BY <1>1 DEF Bill, Row, b
<1>3. r \in Row /\ r.traits = pkg[p].traits /\ r.status = "PendingPickup"
  BY <1>1 DEF Row, Status
<1> HIDE DEF r
<1> QED BY <1>2, <1>3, OnePackage

LEMMA Tracks ==
  ASSUME TypeOK, NEW p \in Listed, pkg' = [pkg EXCEPT ![p].tracked = TRUE]
  PROVE  PkgKept /\ \A q \in Listed : pkg'[q].status = pkg[q].status
<1> DEFINE r == [pkg[p] EXCEPT !.tracked = TRUE]
<1>1. pkg \in [Listed -> Row] /\ pkg[p] \in Row
  BY Types
<1>2. pkg' = [pkg EXCEPT ![p] = r]
  BY <1>1
<1>3. r \in Row /\ r.traits = pkg[p].traits /\ r.status = pkg[p].status
  BY <1>1 DEF Row
<1> HIDE DEF r
<1>4. /\ PkgKept /\ pkg'[p] = r
      /\ \A q \in Listed : q # p => pkg'[q] = pkg[q]
  BY <1>2, <1>3, OnePackage
<1> QED BY <1>3, <1>4

LEMMA MovesOn ==
  ASSUME TypeOK, NEW p \in Listed, NEW status \in Status, Move(p, status)
  PROVE  /\ PkgKept
         /\ pkg'[p].status \in {"InWarehouse", "InTransit", "Delivered"}
         /\ \A q \in Listed : q # p => pkg'[q] = pkg[q]
<1> DEFINE r == [pkg[p] EXCEPT !.status = status]
<1>1. pkg \in [Listed -> Row] /\ pkg[p] \in Row
  BY Types
<1>2. pkg' = [pkg EXCEPT ![p] = r] /\ status \in {"InWarehouse", "InTransit", "Delivered"}
  BY <1>1 DEF Move
<1>3. r \in Row /\ r.traits = pkg[p].traits /\ r.status = status
  BY <1>1 DEF Row
<1> HIDE DEF r
<1> QED BY <1>2, <1>3, OnePackage

LEMMA CancelsRows ==
  ASSUME Inv, NEW c \in Running, CancelPackages(c)
  PROVE  /\ PkgKept
         /\ \A p \in Listed \ DOMAIN calls[c].seen : pkg'[p] = pkg[p]
         /\ \A p \in DOMAIN calls[c].seen : pkg'[p].status = NewStatus(c, p)
<1>1. c \in Busy /\ Held(c) = DOMAIN calls[c].seen /\ pkg \in [Listed -> Row]
  BY Cancels, Types DEF Inv
<1>2. /\ calls[c].seen \in [DOMAIN calls[c].seen -> Row] /\ DOMAIN calls[c].seen \subseteq Listed
      /\ \A p \in DOMAIN calls[c].seen : calls[c].seen[p].traits = pkg[p].traits
  BY <1>1, Types, CallFields DEF Inv, Fit
<1> DEFINE r(p) == [calls[c].seen[p] EXCEPT !.status = NewStatus(c, p), !.tracked = FALSE]
<1>3. \A p \in DOMAIN calls[c].seen : NewStatus(c, p) \in Status
  BY <1>2 DEF NewStatus, Status, Row
<1>4. \A p \in DOMAIN calls[c].seen :
        r(p) \in Row /\ r(p).traits = pkg[p].traits /\ r(p).status = NewStatus(c, p)
  <2> SUFFICES ASSUME NEW p \in DOMAIN calls[c].seen
               PROVE  r(p) \in Row /\ r(p).traits = pkg[p].traits /\ r(p).status = NewStatus(c, p)
    OBVIOUS
  <2> DEFINE s == NewStatus(c, p)
  <2> DEFINE o == calls[c].seen[p]
             z == [o EXCEPT !.status = s, !.tracked = FALSE]
  <2>1. o \in Row /\ s \in Status /\ o.traits = pkg[p].traits
    BY <1>2, <1>3
  <2> HIDE DEF s, o
  <2>2. z \in Row /\ z.traits = o.traits /\ z.status = s
    BY <2>1 DEF Row
  <2> QED BY <2>1, <2>2 DEF s, o
<1>5. pkg' = [p \in Listed |-> IF p \in Held(c) THEN r(p) ELSE pkg[p]]
  BY DEF CancelPackages
<1> HIDE DEF r
<1>6. pkg' \in [Listed -> Row]
  BY <1>1, <1>2, <1>4, <1>5
<1>7. /\ \A p \in Listed \ DOMAIN calls[c].seen : pkg'[p] = pkg[p]
      /\ \A p \in DOMAIN calls[c].seen : pkg'[p] = r(p)
  BY <1>1, <1>2, <1>5
<1>8. Listed' = Listed
  BY <1>5 DEF Listed
<1> QED BY <1>4, <1>6, <1>7, <1>8 DEF PkgKept

LEMMA Expires ==
  ASSUME Inv, NEW c \in Running, NEW S \in SUBSET Listed, DeactivatePackageCodes(c, S)
  PROVE  /\ PkgKept
         /\ \A p \in S : pkg'[p].status = "Expired"
         /\ \A p \in Listed \ S : pkg'[p] = pkg[p]
         /\ calls' \in [Running -> Call \cup {Idle}] /\ Running' = Running
         /\ \A d \in Running : d # c => calls'[d] = calls[d]
         /\ c \notin Busy
         /\ calls'[c] # Idle =>
              /\ calls'[c] \in Call /\ calls'[c].pc = "fees" /\ calls'[c].now # {}
              /\ DOMAIN calls'[c].seen = calls'[c].now /\ calls'[c].now \subseteq S
              /\ \A p \in calls'[c].now : calls'[c].seen[p] = pkg[p]
              /\ calls'[c].kind = "expiry"
<1>1. pkg \in [Listed -> Row] /\ TypeOK /\ Listed \in SUBSET Packages
  BY Types DEF Inv
<1> DEFINE r(p) == [pkg[p] EXCEPT !.status = "Expired"]
<1>2. pkg' = [p \in Listed |-> IF p \in S THEN r(p) ELSE pkg[p]]
  BY DEF DeactivatePackageCodes
<1>3. \A p \in Listed : r(p) \in Row /\ r(p).traits = pkg[p].traits /\ r(p).status = "Expired"
  <2> SUFFICES ASSUME NEW p \in Listed
               PROVE  r(p) \in Row /\ r(p).traits = pkg[p].traits /\ r(p).status = "Expired"
    OBVIOUS
  <2>1. pkg[p] \in Row
    BY <1>1
  <2> QED BY <2>1 DEF Row, Status
<1>4. /\ PkgKept
      /\ \A p \in S : pkg'[p].status = "Expired"
      /\ \A p \in Listed \ S : pkg'[p] = pkg[p]
  <2> HIDE DEF r
  <2> QED BY <1>1, <1>2, <1>3 DEF PkgKept, Listed
<1> DEFINE now == {p \in S : ~pkg[p].promoted}
           sn == [p \in now |-> pkg[p]]
           du == [p \in Packages |-> 0]
           x == [kind |-> "expiry", pc |-> "fees", now |-> now, due |-> du, seen |-> sn]
           y == IF now = {} THEN Idle ELSE x
<1>5. calls' = [calls EXCEPT ![c] = y] /\ calls[c] = Idle
  BY DEF DeactivatePackageCodes
<1>6. now \in SUBSET S /\ now \in SUBSET Packages /\ now \in SUBSET Listed
  BY <1>1
<1> HIDE DEF now
<1>7. sn \in [now -> Row] /\ du \in [Packages -> Int] /\ DOMAIN sn = now
      /\ \A p \in now : sn[p] = pkg[p]
  BY <1>1, <1>6
<1> HIDE DEF sn, du
<1>8. /\ x \in Call /\ x.pc = "fees" /\ x.now = now /\ x.seen = sn /\ x.kind = "expiry"
  BY <1>6, <1>7 DEF Call, Kinds, Steps
<1> HIDE DEF x
<1>9. y \in Call \cup {Idle} /\ y = IF now = {} THEN Idle ELSE x
  BY <1>8
<1> HIDE DEF y
<1>10. /\ calls' \in [Running -> Call \cup {Idle}] /\ Running' = Running /\ calls'[c] = y
       /\ \A d \in Running : d # c => calls'[d] = calls[d]
  BY <1>1, <1>5, <1>9, OneCall
<1>11. c \notin Busy
  BY <1>5 DEF Busy
<1> QED BY <1>4, <1>6, <1>7, <1>8, <1>9, <1>10, <1>11

LEMMA PkgSteps ==
  ASSUME Inv, [Next]_vars
  PROVE  PkgKept
<1>0. TypeOK /\ pkg \in [Listed -> Row]
  BY Types DEF Inv
<1>1. UNCHANGED pkg => PkgKept
  BY <1>0 DEF PkgKept, Listed
<1>2. ASSUME NEW p \in Listed,
             \/ Bill(p) \/ Ocr(p) \/ Hold(p) \/ \E status \in Status : Move(p, status)
             \/ \E type \in StaffTypes : Fee(p, type)
      PROVE  PkgKept
  <2>1. CASE Bill(p)
    BY <1>0, <2>1, BillsRow
  <2>2. CASE Ocr(p)
    BY <1>0, <2>2, Tracks DEF Ocr
  <2>3. CASE \E type \in StaffTypes : Fee(p, type)
    BY <1>1, <2>3 DEF Fee
  <2>4. CASE Hold(p)
    BY <1>0, <2>4, Tracks DEF Hold
  <2>5. CASE \E status \in Status : Move(p, status)
    BY <1>0, <2>5, MovesOn
  <2> QED BY <1>2, <2>1, <2>2, <2>3, <2>4, <2>5
<1>3. ASSUME NEW c \in Running, NEW kind \in {"customer", "staff"}, NEW S \in (SUBSET Listed) \ {{}},
             Begin(c, kind, S)
      PROVE  PkgKept
  BY <1>1, <1>3 DEF Begin
<1>4. ASSUME NEW c \in Running, Step(c) \/ Fail(c)
      PROVE  PkgKept
  <2>1. CASE CancelPackages(c)
    BY <2>1, CancelsRows
  <2>2. CASE ReadPending(c) \/ HandleFees(c) \/ HandlePending(c) \/ HandlePay(c) \/ Fail(c)
    BY <1>1, <2>2 DEF ReadPending, HandleFees, HandlePending, HandlePay, Fail
  <2> QED BY <1>4, <2>1, <2>2 DEF Step
<1>5. ASSUME NEW c \in Running, NEW S \in SUBSET Listed, DeactivatePackageCodes(c, S)
      PROVE  PkgKept
  BY <1>5, Expires
<1>6. ASSUME NEW I \in SUBSET DOMAIN rows, Tick(I) PROVE PkgKept
  BY <1>1, <1>6 DEF Tick
<1>7. ASSUME NEW i \in DOMAIN rows, PackageRefund(i) PROVE PkgKept
  BY <1>1, <1>7 DEF PackageRefund
<1>8. CASE SchedulerFails \/ Crash \/ (\E i \in DOMAIN rows : SkipRow(i))
  BY <1>1, <1>8 DEF SchedulerFails, SkipRow, Crash
<1>9. CASE UNCHANGED vars
  BY <1>1, <1>9 DEF vars
<1> QED BY <1>2, <1>3, <1>4, <1>5, <1>6, <1>7, <1>8, <1>9 DEF Next, StaffTypes

LEMMA TraitsKept ==
  ASSUME PkgKept
  PROVE  /\ NeverRefunded' = NeverRefunded /\ NotRefunded' = NotRefunded
         /\ Barcoded' = Barcoded /\ Tiktok' = Tiktok
BY DEF PkgKept, NeverRefunded, NotRefunded, Barcoded, Tiktok, With

LEMMA FitStays ==
  ASSUME PkgKept, NEW x, Fit(x)
  PROVE  Fit(x)'
<1>1. /\ NeverRefunded' = NeverRefunded /\ Listed' = Listed
      /\ \A p \in Listed : pkg'[p].traits = pkg[p].traits
  BY TraitsKept DEF PkgKept
<1>2. DOMAIN x.seen \subseteq Listed /\ \A p \in DOMAIN x.seen : x.seen[p].traits = pkg'[p].traits
  BY <1>1 DEF Fit
<1> QED BY <1>1, <1>2 DEF Fit

\* A call that goes on.
LEMMA FitNext ==
  ASSUME PkgKept, NEW x, Fit(x), NEW y, Same(x, y), y.now \subseteq DOMAIN x.seen,
         y.now # {} <=> y.pc \in {"fees", "handlePending", "pay"},
         y.pc \in {"pending", "save"} => x.pc \in {"pending", "save"},
         y.pc \in {"handlePending", "pay"} => LastOf(y.now) \notin NeverRefunded,
         y.pc = "pay" => y.due[LastOf(y.now)] > 0
  PROVE  Fit(y)'
<1>1. /\ NeverRefunded' = NeverRefunded /\ Listed' = Listed
      /\ \A p \in Listed : pkg'[p].traits = pkg[p].traits
  BY TraitsKept DEF PkgKept
<1>2. /\ DOMAIN y.seen \subseteq Listed /\ y.now \subseteq DOMAIN y.seen
      /\ \A p \in DOMAIN y.seen : y.seen[p].traits = pkg'[p].traits
  BY <1>1 DEF Fit, Same
<1>3. y.pc \in {"pending", "save"} =>
        \/ y.kind = "staff"
        \/ /\ y.kind = "customer"
           /\ \A p \in DOMAIN y.seen : y.seen[p].status \in {"Created", "PendingPickup"}
  BY DEF Fit, Same
<1> QED BY <1>1, <1>2, <1>3 DEF Fit

\* All calls but those of C are as before.
LEMMA FitsAre ==
  ASSUME Inv, PkgKept, Running' = Running, NEW C,
         \A d \in Running \ C : calls'[d] = calls[d],
         \A d, y : d \in Running \cap C /\ y = calls'[d] /\ y # Idle => Fit(y)'
  PROVE  \A d, y : d \in Busy' /\ y = calls'[d] => Fit(y)'
<1> SUFFICES ASSUME NEW d \in Busy', NEW y, y = calls'[d] PROVE Fit(y)'
  OBVIOUS
<1>1. d \in Running /\ y # Idle
  BY DEF Busy
<1>2. CASE d \in C
  BY <1>1, <1>2
<1>3. CASE d \notin C
  <2>1. y = calls[d] /\ d \in Busy
    BY <1>1, <1>3 DEF Busy
  <2>2. Fit(y)
    BY <2>1 DEF Inv
  <2> QED BY <2>2, FitStays
<1> QED BY <1>2, <1>3

RestOK ==
  /\ todo \subseteq DOMAIN rows /\ faults \in 0..MaxFaults
  /\ disturbed \subseteq Packages /\ lost \subseteq Packages
  /\ from \in [Packages -> Status] /\ FeesOK
  /\ \A i \in todo : ~rows[i].paid
  /\ billed \subseteq Listed

LEMMA InvIs ==
  ASSUME Inv, PkgKept, Running' = Running, calls' \in [Running -> Call \cup {Idle}],
         extra' \in [Packages -> Int], rows' \in Seq(Refund), SumOK(rows'), RestOK',
         \A d, y : d \in Busy' /\ y = calls'[d] => Fit(y)'
  PROVE  Inv'
<1>1. /\ Listed \in SUBSET Packages /\ Running \in SUBSET Calls
      /\ pkg' \in [Listed -> Row] /\ Listed' = Listed
  BY Types DEF Inv, PkgKept
<1>2. billed' \subseteq Packages
  BY <1>1 DEF RestOK
<1>3. TypeOK'
  BY <1>1, <1>2, TypesAre DEF RestOK
<1>4. (\A d \in Busy : Fit(calls[d]))'
  OBVIOUS
<1>5. (NeverRefunded \subseteq NotRefunded)'
  BY TraitsKept DEF Inv
<1> QED BY <1>3, <1>4, <1>5 DEF Inv, RestOK

LEMMA InitInv ==
  ASSUME Init
  PROVE  Inv
<1>1. PICK w \in Worlds :
        /\ pkg = [p \in DOMAIN w.list |-> [status |-> "Created", promoted |-> FALSE,
                                            tracked |-> FALSE, traits |-> w.list[p]]]
        /\ calls = [c \in w.calls |-> Idle]
        /\ fees = [t \in w.types |-> [p \in Packages |-> 0]]
  BY DEF Init
<1>2. /\ w.calls \in SUBSET Calls /\ DOMAIN w.list \in SUBSET Packages
      /\ w.types \in SUBSET FeeTypes
      /\ \A p \in DOMAIN w.list : "never" \in w.list[p] => "kept" \in w.list[p]
  BY RefundingConstants
<1>3. pkg \in [DOMAIN w.list -> Row] /\ Listed = DOMAIN w.list
      /\ \A p \in Listed : pkg[p].traits = w.list[p]
  <2>1. \A p \in DOMAIN w.list : w.list[p] \in Sorts
    BY DEF Sorts
  <2>2. \A p \in DOMAIN w.list : [status |-> "Created", promoted |-> FALSE, tracked |-> FALSE,
                                   traits |-> w.list[p]] \in Row
    BY <2>1 DEF Row, Status
  <2> QED BY <1>1, <2>2 DEF Listed
<1>4. /\ calls \in [w.calls -> Call \cup {Idle}] /\ Busy = {}
  BY <1>1 DEF Busy, Running
<1>5. rows = <<>> /\ rows \in Seq(Refund) /\ SumOK(rows)
  BY NoRows DEF Init
<1>6. /\ extra \in [Packages -> Int] /\ todo = {} /\ faults \in 0..MaxFaults
      /\ billed = {} /\ disturbed = {} /\ lost = {}
      /\ from \in [Packages -> Status]
  BY RefundingConstants DEF Init, Status
<1>9. FeesOK
  <2>1. 0 \in 0..MaxFees /\ 0 \in Nat
    BY RefundingConstants
  <2>2. fees \in [w.types -> [Packages -> 0..MaxFees]]
    BY <1>1, <2>1
  <2> QED BY <1>2, <2>1, <2>2 DEF FeesOK, Init
<1>7. TypeOK
  BY <1>2, <1>3, <1>4, <1>5, <1>6, <1>9 DEF TypeOK, FeesOK
<1>8. NeverRefunded \subseteq NotRefunded
  BY <1>2, <1>3 DEF NeverRefunded, NotRefunded, With
<1> QED BY <1>4, <1>5, <1>6, <1>7, <1>8 DEF Inv

LEMMA Touches ==
  ASSUME TypeOK, NEW S \in SUBSET Packages, NEW c, Touch(S, c)
  PROVE  /\ disturbed \subseteq disturbed' /\ disturbed' \subseteq Packages
         /\ \A p \in S \ disturbed', d \in Busy : d # c => p \notin DOMAIN calls[d].seen
<1>1. disturbed \subseteq Packages
  BY DEF TypeOK
<1>2. disturbed' = disturbed \cup UNION {S \cap Held(d) : d \in Running \ {c}}
  BY DEF Touch
<1>3. \A d \in Busy : d \in Running /\ Held(d) = DOMAIN calls[d].seen
  BY DEF Busy, Held
<1> QED BY <1>1, <1>2, <1>3

\* No call is the one nobody makes.
LEMMA NotIdle ==
  ASSUME TypeOK, NEW d \in Running
  PROVE  d # Idle
BY Types, IdleIsNoCall

\* A step that leaves the calls leaves their shapes.
LEMMA CallsAlone ==
  ASSUME Inv, PkgKept, UNCHANGED calls
  PROVE  /\ Running' = Running /\ calls' \in [Running -> Call \cup {Idle}]
         /\ \A d, y : d \in Busy' /\ y = calls'[d] => Fit(y)'
<1>1. Running' = Running /\ calls' \in [Running -> Call \cup {Idle}]
  BY Types DEF Inv, Running
<1> DEFINE C == {}
<1>2. /\ \A d \in Running \ C : calls'[d] = calls[d]
      /\ \A d, y : d \in Running \cap C /\ y = calls'[d] /\ y # Idle => Fit(y)'
  OBVIOUS
<1> HIDE DEF C
<1> QED BY <1>1, <1>2, FitsAre

\* One call that goes on, or ends.
LEMMA OneFits ==
  ASSUME Inv, PkgKept, NEW c \in Running, Running' = Running,
         \A d \in Running : d # c => calls'[d] = calls[d],
         \A y : y = calls'[c] /\ y # Idle => Fit(y)'
  PROVE  \A d, y : d \in Busy' /\ y = calls'[d] => Fit(y)'
<1> DEFINE C == {c}
<1>1. /\ \A d \in Running \ C : calls'[d] = calls[d]
      /\ \A d, y : d \in Running \cap C /\ y = calls'[d] /\ y # Idle => Fit(y)'
  OBVIOUS
<1> HIDE DEF C
<1> QED BY <1>1, FitsAre

LEMMA ContinueFits ==
  ASSUME Inv, PkgKept, NEW c \in Busy, NEW now \in SUBSET DOMAIN calls[c].seen, Continue(c, now)
  PROVE  /\ Running' = Running /\ calls' \in [Running -> Call \cup {Idle}]
         /\ \A d, y : d \in Busy' /\ y = calls'[d] => Fit(y)'
<1>1. c \in Running /\ calls[c] \in Call /\ Fit(calls[c]) /\ TypeOK
  BY Types DEF Inv
<1>2. now \in SUBSET Packages
  BY <1>1, CallFields
<1>3. /\ calls' \in [Running -> Call \cup {Idle}] /\ Running' = Running
      /\ \A d \in Running : d # c => calls'[d] = calls[d]
      /\ now = {} => calls'[c] = Idle
      /\ now # {} => /\ calls'[c] \in Call /\ Same(calls[c], calls'[c])
                     /\ calls'[c].pc = "fees" /\ calls'[c].now = now
                     /\ calls'[c].due = calls[c].due
  BY <1>1, <1>2, Continues
<1>4. ASSUME NEW y, y = calls'[c], y # Idle
      PROVE  Fit(y)'
  <2> PICK x : x = calls[c]
    OBVIOUS
  <2>1. /\ Fit(x) /\ Same(x, y) /\ y.now = now /\ y.pc = "fees" /\ now # {}
        /\ now \subseteq DOMAIN x.seen
    BY <1>1, <1>3, <1>4
  <2> QED BY <2>1, FitNext
<1> QED BY <1>1, <1>3, <1>4, OneFits

LEMMA InvPackages ==
  ASSUME Inv, NEW p \in Listed, NEW status \in Status, NEW type \in StaffTypes,
         Bill(p) \/ Ocr(p) \/ Fee(p, type) \/ Hold(p) \/ Move(p, status), PkgKept
  PROVE  Inv'
<1>1. TypeOK /\ p \in Packages /\ UNCHANGED calls /\ SumOK(rows)
  BY Types DEF Inv, Bill, Ocr, Fee, Hold, Move
<1>2. /\ Running' = Running /\ calls' \in [Running -> Call \cup {Idle}]
      /\ \A d, y : d \in Busy' /\ y = calls'[d] => Fit(y)'
  BY <1>1, CallsAlone
<1>3. /\ extra \in [Packages -> Int] /\ rows \in Seq(Refund) /\ RestOK /\ Listed' = Listed
  BY <1>1 DEF Inv, TypeOK, RestOK, FeesOK, PkgKept
<1>4. \A d \in Running : Held(d) \subseteq Packages
  BY <1>1, Types, CallFields DEF Held, Busy
<1>5. CASE Bill(p)
  <2>1. disturbed' \subseteq Packages
    BY <1>1, <1>5, Touches DEF Bill
  <2>2. extra' = extra /\ rows' = rows /\ SumOK(rows')
    BY <1>1, <1>5 DEF Bill
  <2>3. FeesOK'
    BY <1>1, <1>3, <1>5 DEF RestOK, Bill, FeesOK
  <2>4. RestOK'
    BY <1>3, <1>5, <2>1, <2>3 DEF RestOK, Bill
  <2> QED BY <1>2, <1>3, <2>2, <2>4, InvIs
<1>6. CASE Ocr(p)
  <2>1. extra' = extra /\ rows' = rows /\ SumOK(rows')
    BY <1>1, <1>6 DEF Ocr, money
  <2>2. RestOK'
    BY <1>3, <1>6 DEF RestOK, FeesOK, Ocr, money
  <2> QED BY <1>2, <1>3, <2>1, <2>2, InvIs
<1>7. CASE Fee(p, type)
  <2>1. disturbed' \subseteq Packages
    BY <1>1, <1>3, <1>7 DEF Fee, RestOK
  <2>2. extra' \in [Packages -> Int] /\ rows' = rows /\ SumOK(rows')
    BY <1>1, <1>7, FeeCharged
  <2>3. FeesOK'
    <3>1. final' \in [Packages -> Nat]
      BY <1>1, <1>3, <1>7 DEF Fee, FeesOK, RestOK
    <3>2. Count(p, type) /\ type \in FeeTypes /\ FeesOK
      BY <1>3, <1>7 DEF Fee, StaffTypes, RestOK
    <3> QED BY <1>1, <3>1, <3>2, Counts DEF FeesOK
  <2>4. RestOK'
    BY <1>3, <1>7, <2>1, <2>3 DEF RestOK, Fee
  <2> QED BY <1>2, <1>3, <2>2, <2>4, InvIs
<1>8. CASE Hold(p)
  <2>1. disturbed' \subseteq Packages
    BY <1>1, <1>8, Touches DEF Hold
  <2>2. extra' \in [Packages -> Int] /\ rows' \in Seq(Refund) /\ SumOK(rows') /\ Longer(rows, rows')
    BY <1>8, FeeHeld
  <2>3. FeesOK'
    <3>1. Count(p, "label") /\ "label" \in FeeTypes /\ FeesOK /\ final' = final
      BY <1>3, <1>8 DEF Hold, FeeTypes, RestOK
    <3> QED BY <1>1, <3>1, Counts DEF FeesOK
  <2>4. todo' \subseteq DOMAIN rows' /\ \A i \in todo' : ~rows'[i].paid
    BY <1>3, <1>8, <2>2 DEF Longer, RestOK, Hold
  <2>5. RestOK'
    BY <1>3, <1>8, <2>1, <2>3, <2>4 DEF RestOK, Hold
  <2> QED BY <1>2, <2>2, <2>5, InvIs
<1>9. CASE Move(p, status)
  <2>1. disturbed' \subseteq Packages
    BY <1>1, <1>9, Touches DEF Move
  <2>2. extra' = extra /\ rows' = rows /\ SumOK(rows')
    BY <1>1, <1>9 DEF Move, money
  <2>3. RestOK'
    BY <1>3, <1>9, <2>1 DEF RestOK, FeesOK, Move, money
  <2> QED BY <1>2, <1>3, <2>2, <2>3, InvIs
<1> QED BY <1>5, <1>6, <1>7, <1>8, <1>9

\* Steps of calls that leave money and packages.
LEMMA InvQuiet ==
  ASSUME Inv, PkgKept, UNCHANGED <<money, todo, from, disturbed>>,
         faults' \in 0..MaxFaults, lost' \subseteq Packages,
         Running' = Running, calls' \in [Running -> Call \cup {Idle}],
         \A d, y : d \in Busy' /\ y = calls'[d] => Fit(y)'
  PROVE  Inv'
<1>1. /\ extra' \in [Packages -> Int] /\ rows' \in Seq(Refund) /\ SumOK(rows') /\ Listed' = Listed
  BY DEF Inv, TypeOK, money, PkgKept
<1>2. RestOK'
  BY <1>1 DEF RestOK, FeesOK, Inv, TypeOK, money
<1> QED BY <1>1, <1>2, InvIs

LEMMA InvBegin ==
  ASSUME Inv, NEW c \in Running, NEW kind \in {"customer", "staff"},
         NEW S \in (SUBSET Listed) \ {{}}, Begin(c, kind, S), PkgKept
  PROVE  Inv'
<1>1. /\ TypeOK /\ S \in SUBSET Listed
      /\ UNCHANGED <<pkg, money, todo, from, disturbed>> /\ faults' \in 0..MaxFaults
      /\ lost' \subseteq Packages
  BY DEF Inv, TypeOK, Begin
<1>2. /\ calls' \in [Running -> Call \cup {Idle}] /\ Running' = Running
      /\ \A d \in Running : d # c => calls'[d] = calls[d]
      /\ calls'[c] \in Call /\ calls'[c].kind = kind /\ calls'[c].pc = "pending"
      /\ calls'[c].now = {} /\ DOMAIN calls'[c].seen = S
      /\ \A p \in S : calls'[c].seen[p] = pkg[p] /\ calls'[c].due[p] = Price + extra[p]
  BY <1>1, Begins
<1>3. kind = "customer" => \A p \in S : pkg[p].status \in {"Created", "PendingPickup"}
  BY DEF Begin
<1>4. ASSUME NEW y, y = calls'[c], y # Idle
      PROVE  Fit(y)'
  <2>1. /\ DOMAIN y.seen = S /\ y.now = {} /\ y.pc = "pending" /\ y.kind = kind
        /\ \A p \in S : y.seen[p] = pkg[p]
    BY <1>2, <1>4
  <2>2. \A p \in S : y.seen[p].traits = pkg'[p].traits
    BY <1>1, <2>1
  <2>3. Listed' = Listed
    BY DEF PkgKept
  <2>4. y.kind = "customer" => \A p \in S : y.seen[p].status \in {"Created", "PendingPickup"}
    BY <1>3, <2>1
  <2> QED BY <1>1, <2>1, <2>2, <2>3, <2>4 DEF Fit
<1>5. \A d, y : d \in Busy' /\ y = calls'[d] => Fit(y)'
  BY <1>2, <1>4, OneFits
<1> QED BY <1>1, <1>2, <1>5, InvQuiet

LEMMA InvRead ==
  ASSUME Inv, NEW c \in Running, ReadPending(c), PkgKept
  PROVE  Inv'
<1>1. /\ UNCHANGED <<money, todo, from, disturbed>> /\ faults' \in 0..MaxFaults
      /\ lost' \subseteq Packages
  BY DEF Inv, TypeOK, ReadPending
<1>2. /\ calls' \in [Running -> Call \cup {Idle}] /\ Running' = Running
      /\ \A d \in Running : d # c => calls'[d] = calls[d]
      /\ c \in Busy /\ calls[c].pc = "pending"
      /\ calls'[c] \in Call /\ Same(calls[c], calls'[c])
      /\ calls'[c].pc = "save" /\ calls'[c].now = calls[c].now
  BY Reads
<1>3. ASSUME NEW y, y = calls'[c], y # Idle
      PROVE  Fit(y)'
  <2> PICK x : x = calls[c]
    OBVIOUS
  <2>1. Fit(x) /\ Same(x, y) /\ y.now = x.now /\ y.pc = "save" /\ x.pc = "pending"
    BY <1>2, <1>3 DEF Inv
  <2>2. y.now \subseteq DOMAIN x.seen /\ y.now = {}
    BY <2>1 DEF Fit
  <2> QED BY <2>1, <2>2, FitNext
<1>4. \A d, y : d \in Busy' /\ y = calls'[d] => Fit(y)'
  BY <1>2, <1>3, OneFits
<1> QED BY <1>1, <1>2, <1>4, InvQuiet

LEMMA InvCancel ==
  ASSUME Inv, NEW c \in Running, CancelPackages(c), PkgKept
  PROVE  Inv'
<1>1. /\ c \in Busy /\ calls[c].pc = "save" /\ Held(c) = DOMAIN calls[c].seen
      /\ AtOnce(c) \in SUBSET DOMAIN calls[c].seen /\ Continue(c, AtOnce(c))
      /\ rows' \in Seq(Refund) /\ SumOK(rows') /\ Longer(rows, rows')
      /\ UNCHANGED extra
  BY Cancels
<1>2. /\ Running' = Running /\ calls' \in [Running -> Call \cup {Idle}]
      /\ \A d, y : d \in Busy' /\ y = calls'[d] => Fit(y)'
  BY <1>1, ContinueFits
<1>3. /\ extra' \in [Packages -> Int] /\ RestOK /\ Listed' = Listed
      /\ calls[c] \in Call /\ TypeOK
  BY <1>1, Types DEF Inv, TypeOK, RestOK, FeesOK, PkgKept
<1>4. /\ calls[c].seen \in [DOMAIN calls[c].seen -> Row] /\ Held(c) \in SUBSET Packages
  BY <1>1, <1>3, CallFields
<1>5. disturbed' \subseteq Packages
  BY <1>3, <1>4, Touches DEF CancelPackages
<1>6. from' \in [Packages -> Status]
  <2>1. \A p \in Live(c) : calls[c].seen[p].status \in Status
    BY <1>1, <1>4, RowOf DEF Live
  <2> HIDE DEF Live
  <2> QED BY <1>3, <2>1 DEF CancelPackages, RestOK
<1>7. todo' \subseteq DOMAIN rows' /\ \A i \in todo' : ~rows'[i].paid
  BY <1>1, <1>3 DEF Longer, RestOK, CancelPackages
<1>8. RestOK'
  BY <1>3, <1>5, <1>6, <1>7 DEF RestOK, FeesOK, CancelPackages
<1> QED BY <1>1, <1>2, <1>3, <1>8, InvIs

LEMMA InvFees ==
  ASSUME Inv, NEW c \in Running, HandleFees(c), PkgKept
  PROVE  Inv'
<1> PICK n, x : n = LastOf(calls[c].now) /\ x = calls[c]
  OBVIOUS
<1>1. /\ UNCHANGED <<money, todo, from, disturbed>> /\ faults' \in 0..MaxFaults
      /\ lost' \subseteq Packages
  BY DEF Inv, TypeOK, HandleFees
<1>2. /\ c \in Busy /\ x.pc = "fees" /\ n \in x.now /\ Fit(x)
      /\ \/ n \in NeverRefunded /\ Continue(c, x.now \ {n})
         \/ /\ n \notin NeverRefunded
            /\ calls' \in [Running -> Call \cup {Idle}] /\ Running' = Running
            /\ \A d \in Running : d # c => calls'[d] = calls[d]
            /\ calls'[c] \in Call /\ Same(x, calls'[c])
            /\ calls'[c].pc = "handlePending" /\ calls'[c].now = x.now
  BY FeesRead DEF Inv
<1>3. x.now \ {n} \in SUBSET DOMAIN x.seen
  BY <1>2 DEF Fit
<1>4. CASE Continue(c, x.now \ {n})
  BY <1>1, <1>2, <1>3, <1>4, ContinueFits, InvQuiet
<1>5. CASE ~Continue(c, x.now \ {n})
  <2>1. ASSUME NEW y, y = calls'[c], y # Idle
        PROVE  Fit(y)'
    <3>1. /\ Same(x, y) /\ y.now = x.now /\ y.pc = "handlePending"
          /\ LastOf(y.now) \notin NeverRefunded
      BY <1>2, <1>5, <2>1
    <3>2. y.now # {} /\ y.now \subseteq DOMAIN x.seen
      BY <1>2, <3>1 DEF Fit
    <3> QED BY <1>2, <3>1, <3>2, FitNext
  <2>2. \A d, y : d \in Busy' /\ y = calls'[d] => Fit(y)'
    BY <1>2, <1>5, <2>1, OneFits
  <2> QED BY <1>1, <1>2, <1>5, <2>2, InvQuiet
<1> QED BY <1>4, <1>5

LEMMA InvPending ==
  ASSUME Inv, NEW c \in Running, HandlePending(c), PkgKept
  PROVE  Inv'
<1> PICK n, x : n = LastOf(calls[c].now) /\ x = calls[c]
  OBVIOUS
<1> PICK amount : amount = calls[c].due[n] - Waits(rows, n)
  OBVIOUS
<1>1. /\ UNCHANGED <<money, todo, from, disturbed>> /\ faults' \in 0..MaxFaults
      /\ lost' \subseteq Packages
  BY DEF Inv, TypeOK, HandlePending
<1>2. /\ c \in Busy /\ x.pc = "handlePending" /\ n \in x.now /\ Fit(x)
      /\ \/ amount <= 0 /\ Continue(c, x.now \ {n})
         \/ /\ amount > 0
            /\ calls' \in [Running -> Call \cup {Idle}] /\ Running' = Running
            /\ \A d \in Running : d # c => calls'[d] = calls[d]
            /\ calls'[c] \in Call /\ Same(x, calls'[c])
            /\ calls'[c].pc = "pay" /\ calls'[c].now = x.now
            /\ calls'[c].due[n] = amount
  <2>1. /\ c \in Busy /\ calls[c].pc = "handlePending" /\ n \in calls[c].now
        /\ \/ amount <= 0 /\ Continue(c, calls[c].now \ {n})
           \/ /\ amount > 0
              /\ calls' \in [Running -> Call \cup {Idle}] /\ Running' = Running
              /\ \A d \in Running : d # c => calls'[d] = calls[d]
              /\ calls'[c] \in Call /\ Same(calls[c], calls'[c])
              /\ calls'[c].pc = "pay" /\ calls'[c].now = calls[c].now
              /\ calls'[c].due[n] = amount
    BY PendingRead
  <2>2. Fit(x)
    BY <2>1 DEF Inv
  <2> QED BY <2>1, <2>2
<1>3. x.now \ {n} \in SUBSET DOMAIN x.seen /\ n \notin NeverRefunded
  BY <1>2 DEF Fit
<1>4. CASE Continue(c, x.now \ {n})
  BY <1>1, <1>2, <1>3, <1>4, ContinueFits, InvQuiet
<1>5. CASE ~Continue(c, x.now \ {n})
  <2>1. ASSUME NEW y, y = calls'[c], y # Idle
        PROVE  Fit(y)'
    <3>1. /\ Same(x, y) /\ y.now = x.now /\ y.pc = "pay" /\ LastOf(y.now) = n
          /\ y.due[n] > 0
      BY <1>2, <1>5, <2>1
    <3>2. y.now # {} /\ y.now \subseteq DOMAIN x.seen
      BY <1>2, <3>1 DEF Fit
    <3> QED BY <1>2, <1>3, <3>1, <3>2, FitNext
  <2>2. \A d, y : d \in Busy' /\ y = calls'[d] => Fit(y)'
    BY <1>2, <1>5, <2>1, OneFits
  <2> QED BY <1>1, <1>2, <1>5, <2>2, InvQuiet
<1> QED BY <1>4, <1>5

LEMMA InvPay ==
  ASSUME Inv, NEW c \in Running, HandlePay(c), PkgKept
  PROVE  Inv'
<1> PICK n, x : n = LastOf(calls[c].now) /\ x = calls[c]
  OBVIOUS
<1>1. /\ c \in Busy /\ x.pc = "pay" /\ n \in x.now /\ n \in Packages /\ Fit(x)
      /\ Continue(c, x.now \ {n}) /\ Touch({n}, c)
      /\ extra' \in [Packages -> Int] /\ UNCHANGED rows
  BY Pays DEF Inv
<1>2. x.now \ {n} \in SUBSET DOMAIN x.seen
  BY <1>1 DEF Fit
<1>3. /\ Running' = Running /\ calls' \in [Running -> Call \cup {Idle}]
      /\ \A d, y : d \in Busy' /\ y = calls'[d] => Fit(y)'
  BY <1>1, <1>2, ContinueFits
<1>4. /\ RestOK /\ Listed' = Listed /\ TypeOK /\ rows' \in Seq(Refund) /\ SumOK(rows')
  BY <1>1, Types DEF Inv, TypeOK, RestOK, FeesOK, PkgKept
<1>5. disturbed' \subseteq Packages
  <2> DEFINE S == {n}
  <2>1. S \in SUBSET Packages /\ Touch(S, c)
    BY <1>1
  <2> HIDE DEF S
  <2> QED BY <1>4, <2>1, Touches
<1>6. RestOK'
  BY <1>4, <1>5 DEF RestOK, FeesOK, HandlePay
<1> QED BY <1>1, <1>3, <1>4, <1>6, InvIs

LEMMA InvScheduler ==
  ASSUME Inv, NEW i \in DOMAIN rows, PackageRefund(i), PkgKept
  PROVE  Inv'
<1>1. TypeOK /\ UNCHANGED calls /\ i \in todo
  BY DEF Inv, PackageRefund
<1>2. /\ Running' = Running /\ calls' \in [Running -> Call \cup {Idle}]
      /\ \A d, y : d \in Busy' /\ y = calls'[d] => Fit(y)'
  BY <1>1, CallsAlone
<1>3. /\ RestOK /\ Listed' = Listed /\ rows \in Seq(Refund)
  BY Types DEF Inv, TypeOK, RestOK, FeesOK, PkgKept
<1>4. /\ rows' \in Seq(Refund) /\ SumOK(rows') /\ DOMAIN rows' = DOMAIN rows
      /\ todo' = todo \ {i} /\ \A j \in DOMAIN rows : j # i => rows'[j] = rows[j]
      /\ extra' \in [Packages -> Int]
  BY RefundPaid
<1>5. disturbed' \subseteq Packages
  <2> DEFINE S == {rows[i].package}
  <2>1. S \in SUBSET Packages /\ Touch(S, Idle)
    BY <1>3, RowFields DEF PackageRefund
  <2> HIDE DEF S
  <2> QED BY <1>1, <2>1, Touches
<1>6. todo' \subseteq DOMAIN rows' /\ \A j \in todo' : ~rows'[j].paid
  BY <1>3, <1>4 DEF RestOK
<1>7. RestOK'
  BY <1>3, <1>5, <1>6 DEF RestOK, FeesOK, PackageRefund
<1> QED BY <1>2, <1>4, <1>7, InvIs

LEMMA InvRound ==
  ASSUME Inv, PkgKept, UNCHANGED <<money, calls, from, disturbed, lost>>,
         todo' \subseteq DOMAIN rows, \A i \in todo' : ~rows[i].paid, faults' \in 0..MaxFaults
  PROVE  Inv'
<1>1. /\ Running' = Running /\ calls' \in [Running -> Call \cup {Idle}]
      /\ \A d, y : d \in Busy' /\ y = calls'[d] => Fit(y)'
  BY CallsAlone
<1>2. /\ extra' \in [Packages -> Int] /\ rows' \in Seq(Refund) /\ SumOK(rows') /\ Listed' = Listed
  BY DEF Inv, TypeOK, money, PkgKept
<1>3. RestOK'
  BY <1>2 DEF RestOK, FeesOK, Inv, TypeOK, money
<1> QED BY <1>1, <1>2, <1>3, InvIs

LEMMA InvExpire ==
  ASSUME Inv, NEW c \in Running, NEW S \in SUBSET Listed, DeactivatePackageCodes(c, S), PkgKept
  PROVE  Inv'
<1>1. /\ calls' \in [Running -> Call \cup {Idle}] /\ Running' = Running
      /\ \A d \in Running : d # c => calls'[d] = calls[d]
      /\ calls'[c] # Idle =>
           /\ calls'[c] \in Call /\ calls'[c].pc = "fees" /\ calls'[c].now # {}
           /\ DOMAIN calls'[c].seen = calls'[c].now /\ calls'[c].now \subseteq S
           /\ \A p \in calls'[c].now : calls'[c].seen[p] = pkg[p]
           /\ calls'[c].kind = "expiry"
  BY Expires
<1>2. /\ Listed' = Listed /\ \A p \in Listed : pkg'[p].traits = pkg[p].traits
      /\ TypeOK /\ Listed \in SUBSET Packages
  BY Types DEF PkgKept, Inv
<1>3. ASSUME NEW y, y = calls'[c], y # Idle
      PROVE  Fit(y)'
  <2>1. /\ y.pc = "fees" /\ y.now # {} /\ DOMAIN y.seen = y.now /\ y.now \subseteq Listed
        /\ \A p \in y.now : y.seen[p] = pkg[p]
        /\ y.kind = "expiry"
    BY <1>1, <1>3
  <2>2. \A p \in y.now : y.seen[p].traits = pkg'[p].traits
    BY <1>2, <2>1
  <2> QED BY <1>2, <2>1, <2>2 DEF Fit
<1>4. \A d, y : d \in Busy' /\ y = calls'[d] => Fit(y)'
  BY <1>1, <1>3, OneFits
<1>5. /\ extra' \in [Packages -> Int] /\ rows' \in Seq(Refund) /\ SumOK(rows')
      /\ RestOK /\ disturbed' \subseteq Packages
  <2>1. S \in SUBSET Packages /\ Touch(S, Idle)
    BY <1>2 DEF DeactivatePackageCodes
  <2>2. disturbed' \subseteq Packages
    BY <1>2, <2>1, Touches
  <2> QED BY <2>2 DEF Inv, TypeOK, RestOK, FeesOK, DeactivatePackageCodes, money
<1>6. RestOK'
  BY <1>2, <1>5 DEF RestOK, FeesOK, DeactivatePackageCodes, money
<1> QED BY <1>1, <1>4, <1>5, <1>6, InvIs

LEMMA InvFail ==
  ASSUME Inv, NEW c \in Running, Fail(c), PkgKept
  PROVE  Inv'
<1>1. c \in Busy /\ TypeOK /\ calls[c] \in Call /\ Fit(calls[c])
  BY Types DEF Fail, Busy, Inv
<1>2. UNCHANGED <<money, todo, from, disturbed>> /\ faults' \in 0..MaxFaults
  BY RefundingConstants DEF Fail, Inv, TypeOK
<1>3. CASE calls[c].pc \in {"pending", "save"} /\ calls' = [calls EXCEPT ![c] = Idle] /\ UNCHANGED lost
  <2>1. /\ calls' \in [Running -> Call \cup {Idle}] /\ Running' = Running /\ calls'[c] = Idle
        /\ \A d \in Running : d # c => calls'[d] = calls[d]
    BY <1>1, <1>3, OneCall
  <2>2. \A d, y : d \in Busy' /\ y = calls'[d] => Fit(y)'
    BY <2>1, OneFits
  <2>3. lost' \subseteq Packages
    BY <1>1, <1>3 DEF TypeOK
  <2> QED BY <1>2, <2>1, <2>2, <2>3, InvQuiet
<1>4. CASE /\ calls[c].pc \in {"fees", "handlePending", "pay"}
           /\ Continue(c, calls[c].now \ {NextDue(c)}) /\ lost' = lost \cup {NextDue(c)}
  <2> DEFINE n == NextDue(c)
  <2>1. n \in calls[c].now /\ calls[c].now \subseteq DOMAIN calls[c].seen /\ n \in Packages
    BY <1>1, <1>4, Refunding1
  <2>2. calls[c].now \ {n} \in SUBSET DOMAIN calls[c].seen /\ Continue(c, calls[c].now \ {n})
    BY <1>4, <2>1
  <2>3. lost' \subseteq Packages
    BY <1>1, <1>4, <2>1 DEF TypeOK
  <2> HIDE DEF n
  <2> QED BY <1>1, <1>2, <2>2, <2>3, ContinueFits, InvQuiet
<1> QED BY <1>3, <1>4 DEF Fail

LEMMA InvCrash ==
  ASSUME Inv, Crash, PkgKept
  PROVE  Inv'
<1>1. /\ UNCHANGED <<money, todo, from, disturbed>> /\ faults' \in 0..MaxFaults /\ TypeOK
      /\ calls' = [c \in Running |-> Idle]
      /\ lost' = lost \cup UNION {calls[c].now : c \in {d \in Running : calls[d] # Idle}}
  BY RefundingConstants DEF Crash, Inv, TypeOK
<1>2. calls' \in [Running -> Call \cup {Idle}] /\ Running' = Running /\ Busy' = {}
  BY <1>1 DEF Busy, Running
<1>3. lost' \subseteq Packages
  <2>1. \A c \in Busy : calls[c].now \in SUBSET Packages
    BY <1>1, Types, CallFields
  <2>2. {d \in Running : calls[d] # Idle} = Busy
    BY DEF Busy
  <2>3. lost \subseteq Packages
    BY <1>1 DEF TypeOK
  <2> QED BY <1>1, <2>1, <2>2, <2>3
<1> QED BY <1>1, <1>2, <1>3, InvQuiet

LEMMA InvNext ==
  ASSUME Inv, [Next]_vars
  PROVE  Inv'
<1>0. PkgKept
  BY PkgSteps
<1>1. ASSUME NEW p \in Listed,
             \/ Bill(p) \/ Ocr(p) \/ Hold(p) \/ \E status \in Status : Move(p, status)
             \/ \E type \in StaffTypes : Fee(p, type)
      PROVE  Inv'
  <2>1. "Created" \in Status /\ "final" \in StaffTypes
    BY DEF Status, StaffTypes, FeeTypes
  <2> QED BY <1>0, <1>1, <2>1, InvPackages
<1>2. ASSUME NEW c \in Running, NEW kind \in {"customer", "staff"}, NEW S \in (SUBSET Listed) \ {{}},
             Begin(c, kind, S)
      PROVE  Inv'
  BY <1>0, <1>2, InvBegin
<1>3. ASSUME NEW c \in Running, Step(c) \/ Fail(c)
      PROVE  Inv'
  BY <1>0, <1>3, InvRead, InvCancel, InvFees, InvPending, InvPay, InvFail DEF Step
<1>4. ASSUME NEW c \in Running, NEW S \in SUBSET Listed, DeactivatePackageCodes(c, S)
      PROVE  Inv'
  BY <1>0, <1>4, InvExpire
<1>5. ASSUME NEW I \in SUBSET DOMAIN rows, Tick(I) PROVE Inv'
  BY <1>0, <1>5, InvRound DEF Tick, Inv, TypeOK
<1>6. ASSUME NEW i \in DOMAIN rows, PackageRefund(i) PROVE Inv'
  BY <1>0, <1>6, InvScheduler
<1>7. CASE SchedulerFails \/ (\E i \in DOMAIN rows : SkipRow(i))
  <2>1. faults' \in 0..MaxFaults /\ todo' \subseteq todo /\ UNCHANGED <<money, calls, from, disturbed, lost>>
    BY <1>7, RefundingConstants DEF SchedulerFails, SkipRow, Inv, TypeOK
  <2>2. todo \subseteq DOMAIN rows /\ \A i \in todo : ~rows[i].paid
    BY DEF Inv, TypeOK
  <2>3. todo' \subseteq DOMAIN rows /\ \A i \in todo' : ~rows[i].paid
    BY <2>1, <2>2
  <2> QED BY <1>0, <2>1, <2>3, InvRound
<1>8. CASE Crash
  BY <1>0, <1>8, InvCrash
<1>9. CASE UNCHANGED vars
  BY <1>0, <1>9, InvRound DEF vars, Inv, TypeOK
<1> QED BY <1>1, <1>2, <1>3, <1>4, <1>5, <1>6, <1>7, <1>8, <1>9 DEF Next, StaffTypes

\* The state has its types: what is due stays a whole number whatever is taken off, no
\* row of package_refunds is below zero, and a call refunds only packages it has read.
THEOREM TypeCorrect == Spec => []TypeOK
<1>1. Init => Inv
  BY InitInv
<1>2. Inv /\ [Next]_vars => Inv'
  BY InvNext
<1>3. Inv => TypeOK
  BY DEF Inv
<1> QED BY <1>1, <1>2, <1>3, PTL DEF Spec

-----------------------------------------------------------------------------
(* The price of a package that is never refunded. *)

LEMMA InitLeft ==
  ASSUME Init
  PROVE  \A p \in Packages : Left(p) = Price
<1>1. rows = <<>> /\ \A p \in Packages : extra[p] = 0 /\ Waits(rows, p) = 0
  BY NoRows DEF Init
<1> QED BY <1>1 DEF Left, Price

\* Nobody but the following steps changes what is left.
LEMMA LeftSame ==
  ASSUME UNCHANGED <<extra, rows>>, NEW p
  PROVE  Left(p)' = Left(p) /\ extra'[p] = extra[p]
BY DEF Left

LEMMA LeftInt ==
  ASSUME Inv, NEW p \in Packages
  PROVE  Left(p) \in Int /\ extra[p] \in Int
BY Types, WaitsInt DEF Inv, Left, Price

LEMMA LeftAfterPay ==
  ASSUME Inv, NEW c \in Running, HandlePay(c), NEW n, n = LastOf(calls[c].now), NEW p \in Packages
  PROVE  Left(p)' = Left(p) - Single(n, calls[c].due[n], p) /\ (p # n => extra'[p] = extra[p])
<1>1. /\ UNCHANGED rows /\ n \in Packages /\ calls[c].due[n] \in Int
      /\ \A q \in Packages : extra'[q] = extra[q] - Single(n, calls[c].due[n], q)
  BY Pays
<1>2. extra[p] \in Int /\ Waits(rows, p) \in Int
  BY LeftInt, WaitsInt DEF Inv
<1> DEFINE a == calls[c].due[n]
<1>3. a \in Int /\ extra'[p] = extra[p] - Single(n, a, p)
  BY <1>1
<1> HIDE DEF a
<1>4. Left(p)' = Left(p) - Single(n, a, p) /\ (p # n => extra'[p] = extra[p])
  BY <1>1, <1>2, <1>3 DEF Left, Single, Price
<1> QED BY <1>4 DEF a

LEMMA LeftIntNext ==
  ASSUME Inv, [Next]_vars, NEW p \in Packages
  PROVE  Left(p)' \in Int
<1> DEFINE t == rows'
           e == extra'
<1>1. Inv'
  BY InvNext
<1>2. e \in [Packages -> Int] /\ SumOK(t)
  BY <1>1 DEF Inv, TypeOK
<1> HIDE DEF t, e
<1>3. e[p] \in Int /\ Waits(t, p) \in Int
  BY <1>2, WaitsInt
<1> QED BY <1>3 DEF Left, Price, t, e

\* What staff gave back by hand is a number, and never less than it was.
LEMMA GivenRises ==
  ASSUME Inv, [Next]_vars, NEW p \in Packages
  PROVE  Given(p) \in Int /\ Given(p)' \in Int /\ Given(p)' >= Given(p)
<1>0. FeesOK
  BY DEF Inv, TypeOK, FeesOK
<1>1. Given(p) \in Int
  <2>1. PICK T \in SUBSET FeeTypes : fees \in [T -> [Packages -> 0..MaxFees]]
    BY <1>0 DEF FeesOK
  <2> QED BY <2>1, RefundingConstants DEF Given
<1>2. CASE UNCHANGED fees
  BY <1>1, <1>2 DEF Given
<1>3. ASSUME NEW q \in Listed, NEW type \in FeeTypes, Count(q, type)
      PROVE  Given(p)' \in Int /\ Given(p)' >= Given(p)
  <2>1. q \in Packages
    BY Types DEF Inv
  <2>2. Given(p)' = Given(p) + (IF type = "refund" /\ p = q THEN 1 ELSE 0)
    BY <1>0, <1>3, <2>1, Counts
  <2> QED BY <1>1, <2>2
<1>4. \/ UNCHANGED fees
      \/ \E q \in Listed, type \in FeeTypes : Count(q, type)
  <2>1. \A q \in Listed : Hold(q) => Count(q, "label") /\ "label" \in FeeTypes
    BY DEF Hold, FeeTypes
  <2>2. \A q \in Listed, type \in FeeTypes : Fee(q, type) => Count(q, type)
    BY DEF Fee
  <2> QED BY <2>1, <2>2
          DEF Next, Bill, Ocr, Move, Begin, Step, ReadPending, CancelPackages, HandleFees,
              HandlePending, HandlePay, Fail, DeactivatePackageCodes, Tick, PackageRefund, SkipRow,
              SchedulerFails, Crash, money, vars
<1> QED BY <1>1, <1>2, <1>3, <1>4

\* The steps after which less is left, but what was given back by hand.
LEMMA LeftKept ==
  ASSUME Inv, [Next]_vars, NEW p \in Packages
  PROVE  \/ Left(p)' + Given(p)' >= Left(p) + Given(p)
         \/ \E c \in Running : CancelPackages(c) /\ p \in Deferred(c)
         \/ \E c \in Running : HandlePay(c) /\ p = LastOf(calls[c].now)
<1>0. Left(p) \in Int /\ Left(p) >= Left(p) /\ Left(p)' \in Int
  BY LeftInt, LeftIntNext
<1>10. Given(p) \in Int /\ Given(p)' \in Int /\ Given(p)' >= Given(p)
  BY GivenRises
<1>11. ASSUME Left(p)' >= Left(p) PROVE Left(p)' + Given(p)' >= Left(p) + Given(p)
  BY <1>0, <1>10, <1>11
<1>1. UNCHANGED <<extra, rows>> => Left(p)' >= Left(p)
  BY <1>0, LeftSame
<1>2. ASSUME NEW q \in Listed,
             \/ Bill(q) \/ Ocr(q) \/ Hold(q) \/ \E status \in Status : Move(q, status)
             \/ \E type \in StaffTypes : Fee(q, type)
      PROVE  Left(p)' + Given(p)' >= Left(p) + Given(p)
  <2>1. CASE Bill(q) \/ Ocr(q) \/ \E status \in Status : Move(q, status)
    BY <1>1, <1>11, <2>1 DEF Bill, Ocr, Move, money
  <2>2. ASSUME NEW type \in StaffTypes, Fee(q, type)
        PROVE  Left(p)' + Given(p)' >= Left(p) + Given(p)
    <3> DEFINE a == Amount(type)
               g == IF type = "refund" /\ p = q THEN 1 ELSE 0
    <3>1. /\ Left(p)' = Left(p) + Single(q, a, p) /\ q \in Packages
          /\ a \in {-1, 0, 1} /\ (a = -1 => type = "refund")
      BY <2>2, FeeCharged
    <3>2. Given(p)' = Given(p) + g
      <4>1. FeesOK /\ type \in FeeTypes /\ Count(q, type)
        BY <2>2 DEF Inv, TypeOK, FeesOK, Fee, StaffTypes
      <4> QED BY <3>1, <4>1, Counts
    <3>3. Single(q, a, p) + g >= 0 /\ Single(q, a, p) \in Int /\ g \in Int
      BY <3>1 DEF Single
    <3> HIDE DEF Left, Given, a, g
    <3> QED BY <1>0, <1>10, <3>1, <3>2, <3>3
  <2>3. CASE Hold(q)
    BY <1>0, <1>11, <2>3, FeeHeld
  <2> QED BY <1>2, <2>1, <2>2, <2>3
<1>3. ASSUME NEW c \in Running, NEW kind \in {"customer", "staff"}, NEW S \in (SUBSET Listed) \ {{}},
             Begin(c, kind, S)
      PROVE  Left(p)' >= Left(p)
  BY <1>1, <1>3 DEF Begin, money
<1>4. ASSUME NEW c \in Running, Step(c) \/ Fail(c), ~(CancelPackages(c) /\ p \in Deferred(c)),
             ~(HandlePay(c) /\ p = LastOf(calls[c].now))
      PROVE  Left(p)' >= Left(p)
  <2>1. CASE CancelPackages(c)
    <3>1. Left(p)' = Left(p) - Share(Deferred(c), calls[c].due, p)
      BY <2>1, Cancels
    <3> QED BY <1>0, <1>4, <2>1, <3>1 DEF Share
  <2>2. CASE HandlePay(c)
    <3> PICK n : n = LastOf(calls[c].now)
      OBVIOUS
    <3>1. Left(p)' = Left(p) - Single(n, calls[c].due[n], p) /\ p # n
      BY <1>4, <2>2, LeftAfterPay
    <3> QED BY <1>0, <3>1 DEF Single
  <2>3. CASE ReadPending(c) \/ HandleFees(c) \/ HandlePending(c) \/ Fail(c)
    BY <1>1, <2>3 DEF ReadPending, HandleFees, HandlePending, Fail, money
  <2> QED BY <1>4, <2>1, <2>2, <2>3 DEF Step
<1>5. ASSUME NEW c \in Running, NEW S \in SUBSET Listed, DeactivatePackageCodes(c, S)
      PROVE  Left(p)' >= Left(p)
  BY <1>1, <1>5 DEF DeactivatePackageCodes, money
<1>6. ASSUME NEW I \in SUBSET DOMAIN rows, Tick(I) PROVE Left(p)' >= Left(p)
  BY <1>1, <1>6 DEF Tick, money
<1>7. ASSUME NEW i \in DOMAIN rows, PackageRefund(i) PROVE Left(p)' >= Left(p)
  BY <1>0, <1>7, RefundPaid
<1>8. ASSUME SchedulerFails \/ Crash \/ (\E i \in DOMAIN rows : SkipRow(i))
      PROVE  Left(p)' >= Left(p)
  BY <1>1, <1>8 DEF SchedulerFails, SkipRow, Crash, money
<1>9. ASSUME UNCHANGED vars PROVE Left(p)' >= Left(p)
  BY <1>1, <1>9 DEF vars, money
<1> QED BY <1>2, <1>3, <1>4, <1>5, <1>6, <1>7, <1>8, <1>9, <1>11 DEF Next, StaffTypes

LEMMA KeptNext ==
  ASSUME Inv, KeptInv, [Next]_vars
  PROVE  KeptInv'
<1>1. NeverRefunded' = NeverRefunded /\ NeverRefunded \subseteq Packages
      /\ NeverRefunded \subseteq NotRefunded
  BY PkgSteps, TraitsKept, Types DEF Inv, NeverRefunded, With
<1> SUFFICES ASSUME NEW p \in NeverRefunded PROVE (Left(p) + Given(p) >= Price)'
  BY <1>1 DEF KeptInv
<1>2. p \in Packages /\ p \in NotRefunded /\ Left(p) + Given(p) >= Price
  BY <1>1 DEF KeptInv
<1>3. ~(\E c \in Running : CancelPackages(c) /\ p \in Deferred(c))
  BY <1>2 DEF Deferred
<1>4. ~(\E c \in Running : HandlePay(c) /\ p = LastOf(calls[c].now))
  <2> SUFFICES ASSUME NEW c \in Running, HandlePay(c), p = LastOf(calls[c].now) PROVE FALSE
    OBVIOUS
  <2>1. c \in Busy /\ calls[c].pc = "pay"
    BY Pays
  <2>2. Fit(calls[c])
    BY <2>1 DEF Inv
  <2> QED BY <2>1, <2>2 DEF Fit
<1>5. Left(p)' + Given(p)' >= Left(p) + Given(p)
  BY <1>2, <1>3, <1>4, LeftKept
<1>6. Left(p) \in Int /\ Left(p)' \in Int /\ Given(p) \in Int /\ Given(p)' \in Int
  BY <1>2, LeftInt, LeftIntNext, GivenRises
<1> HIDE DEF Left, Given
<1> QED BY <1>2, <1>5, <1>6 DEF Price

\* What Net and PendingSum say of a package is what is left of it, with the fees that are
\* final, and without the price if it was not billed.
LEMMA NetIs ==
  ASSUME Inv, NEW p \in Listed
  PROVE  /\ Left(p) \in Int /\ final[p] \in Int
         /\ Net(p) \in Int /\ PendingSum(p) \in Int
         /\ Net(p) - PendingSum(p) = Left(p) + final[p] - (IF p \in billed THEN 0 ELSE Price)
<1>1. p \in Packages /\ extra[p] \in Int /\ final[p] \in Int /\ Left(p) \in Int
  <2>1. p \in Packages /\ final \in [Packages -> Nat]
    BY Types DEF Inv, TypeOK
  <2> QED BY <2>1, LeftInt
<1>2. PendingSum(p) = Waits(rows, p) /\ Waits(rows, p) \in Int
  BY <1>1, PendingIs, WaitsInt DEF Inv
<1>3. Net(p) = (IF p \in billed THEN Price ELSE 0) + extra[p] + final[p]
  BY DEF Net
<1> DEFINE w == Waits(rows, p)
<1>4. PendingSum(p) = w /\ w \in Int /\ Left(p) = Price + extra[p] - w
  BY <1>2 DEF Left
<1> HIDE DEF w
<1> QED BY <1>1, <1>3, <1>4 DEF Price

\* PackageRefund.Handle's comment, "inus, us48, au and eu are not refunded": whoever
\* cancels, and however calls overlap, fail or are retried, the price of a package of such
\* a service is not given back, at once or by a row that waits; only staff may, by hand.
THEOREM PriceKeptHolds == Spec => []PriceKept
<1>1. Init => Inv /\ KeptInv
  <2> SUFFICES ASSUME Init PROVE Inv /\ KeptInv
    OBVIOUS
  <2>1. Inv /\ NeverRefunded \subseteq Packages
    BY InitInv, Types DEF Inv, NeverRefunded, With
  <2>2. PICK w \in Worlds : fees = [t \in w.types |-> [p \in Packages |-> 0]]
    BY DEF Init
  <2>3. \A p \in Packages : Given(p) = 0
    BY <2>2 DEF Given
  <2> QED BY <2>1, <2>3, InitLeft DEF KeptInv, Price
<1>2. Inv /\ KeptInv /\ [Next]_vars => Inv' /\ KeptInv'
  BY InvNext, KeptNext
<1>3. Inv /\ KeptInv => PriceKept
  <2> SUFFICES ASSUME Inv, KeptInv, NEW p \in NeverRefunded \cap billed
               PROVE  Net(p) - PendingSum(p) + Given(p) >= Price + final[p]
    BY DEF PriceKept
  <2>1. p \in Listed /\ p \in Packages
    BY Types DEF Inv
  <2>2. Left(p) + Given(p) >= Price
    BY DEF KeptInv
  <2>3. Given(p) \in Int
    <3>1. PICK T \in SUBSET FeeTypes : fees \in [T -> [Packages -> 0..MaxFees]]
      BY DEF Inv, TypeOK
    <3> QED BY <2>1, <3>1, RefundingConstants DEF Given
  <2>4. /\ Left(p) \in Int /\ final[p] \in Int /\ Net(p) \in Int /\ PendingSum(p) \in Int
        /\ Net(p) - PendingSum(p) = Left(p) + final[p]
    <3>1. p \in billed
      OBVIOUS
    <3> HIDE DEF Left
    <3> QED BY <2>1, <3>1, NetIs
  <2> HIDE DEF Left, Given, Net, PendingSum
  <2> QED BY <2>2, <2>3, <2>4 DEF Price
<1> QED BY <1>1, <1>2, <1>3, PTL DEF Spec

-----------------------------------------------------------------------------
(* What is left, and what calls know of it. *)

\* A step keeps the invariant if no amount falls below zero, nobody but the call of the
\* step holds a package whose amounts it changes, and what that call knows is so.
LEMMA LeftFrame ==
  ASSUME LeftInv, NEW c, Running' = Running, disturbed \subseteq disturbed',
         \A d \in Running : d # c => calls'[d] = calls[d],
         \A p \in Packages \ disturbed' : Left(p)' >= 0,
         \A p, d : p \in Packages \ disturbed' /\ d \in Busy /\ d # c /\ p \in DOMAIN calls[d].seen
                   => extra'[p] = extra[p] /\ Left(p)' = Left(p),
         \A p, y : p \in Packages \ disturbed' /\ c \in Running /\ y = calls'[c] /\ y # Idle
                   => Known(y, p, Price + extra'[p], Left(p)')
  PROVE  LeftInv'
<1>1. ASSUME NEW p \in Packages, p \notin disturbed', NEW d, d \in Busy'
      PROVE  Known(calls'[d], p, Price + extra'[p], Left(p)')
  <2> PICK y : y = calls'[d]
    OBVIOUS
  <2>1. d \in Running /\ y # Idle
    BY <1>1 DEF Busy
  <2>2. CASE d = c
    BY <1>1, <2>1, <2>2
  <2>3. CASE d # c
    <3>1. y = calls[d] /\ d \in Busy /\ p \in Packages \ disturbed
      BY <1>1, <2>1, <2>3 DEF Busy
    <3>2. Known(y, p, Price + extra[p], Left(p))
      BY <3>1 DEF LeftInv
    <3>3. CASE p \in DOMAIN y.seen
      <4>1. extra'[p] = extra[p] /\ Left(p)' = Left(p)
        BY <1>1, <2>3, <3>1, <3>3
      <4> QED BY <3>2, <4>1
    <3>4. CASE p \notin DOMAIN y.seen
      BY <3>4 DEF Known
    <3> QED BY <3>3, <3>4
  <2> QED BY <2>2, <2>3
<1>2. (\A p \in Packages \ disturbed :
         Left(p) >= 0 /\ \A d \in Busy : Known(calls[d], p, Price + extra[p], Left(p)))'
  BY <1>1
<1> QED BY <1>2 DEF LeftInv

\* Steps that leave the amounts.
LEMMA LeftCalls ==
  ASSUME LeftInv, UNCHANGED <<extra, rows>>, NEW c, Running' = Running,
         disturbed \subseteq disturbed', \A d \in Running : d # c => calls'[d] = calls[d],
         \A p, y : p \in Packages \ disturbed /\ c \in Running /\ y = calls'[c] /\ y # Idle
                   => Known(y, p, Price + extra[p], Left(p))
  PROVE  LeftInv'
<1>1. \A p : extra'[p] = extra[p] /\ Left(p)' = Left(p)
  BY LeftSame
<1>2. \A p \in Packages \ disturbed' : p \in Packages \ disturbed
  OBVIOUS
<1>3. \A p \in Packages \ disturbed : Left(p) >= 0
  BY DEF LeftInv
<1>4. \A p \in Packages \ disturbed' : Left(p)' >= 0
  BY <1>1, <1>2, <1>3
<1>5. \A p, y : p \in Packages \ disturbed' /\ c \in Running /\ y = calls'[c] /\ y # Idle
                => Known(y, p, Price + extra'[p], Left(p)')
  BY <1>1, <1>2
<1> QED BY <1>1, <1>4, <1>5, LeftFrame

LEMMA NobodyCalls ==
  ASSUME TypeOK
  PROVE  Idle \notin Running
BY NotIdle

\* A call that goes on with the next refund, or ends, knows nothing yet.
LEMMA FeesKnow ==
  ASSUME NEW y, y.pc = "fees", NEW p, NEW read, NEW left
  PROVE  Known(y, p, read, left)
BY DEF Known

LEMMA ContinueKnows ==
  ASSUME Inv, NEW c \in Busy, NEW now \in SUBSET DOMAIN calls[c].seen, Continue(c, now)
  PROVE  /\ Running' = Running /\ \A d \in Running : d # c => calls'[d] = calls[d]
         /\ \A y, p, read, left : y = calls'[c] /\ y # Idle => Known(y, p, read, left)
<1>1. calls[c] \in Call /\ TypeOK
  BY Types DEF Inv
<1>2. now \in SUBSET Packages
  BY <1>1, CallFields
<1>3. /\ Running' = Running /\ \A d \in Running : d # c => calls'[d] = calls[d]
      /\ calls'[c] # Idle => calls'[c].pc = "fees"
  BY <1>1, <1>2, Continues
<1> QED BY <1>3, FeesKnow

\* A step that keeps what is left of every package, and what was paid of all but q.
LEMMA LeftTouched ==
  ASSUME Inv, LeftInv, NEW q, NEW S \in SUBSET Packages, q \in S, Touch(S, Idle),
         Running' = Running, \A d \in Running : calls'[d] = calls[d],
         \A p \in Packages : Left(p)' = Left(p) /\ (p # q => extra'[p] = extra[p])
  PROVE  LeftInv'
<1>1. /\ disturbed \subseteq disturbed' /\ Idle \notin Running
      /\ \A p \in S \ disturbed', d \in Busy : d # Idle => p \notin DOMAIN calls[d].seen
  BY Touches, NobodyCalls DEF Inv
<1>2. \A p \in Packages \ disturbed' : Left(p)' >= 0
  BY <1>1 DEF LeftInv
<1>3. \A p, d : p \in Packages \ disturbed' /\ d \in Busy /\ d # Idle /\ p \in DOMAIN calls[d].seen
                => extra'[p] = extra[p] /\ Left(p)' = Left(p)
  BY <1>1
<1> QED BY <1>1, <1>2, <1>3, LeftFrame

LEMMA LeftPackages ==
  ASSUME Inv, LeftInv, NEW q \in Listed, NEW status \in Status, NEW type \in StaffTypes,
         Bill(q) \/ Ocr(q) \/ Fee(q, type) \/ Hold(q) \/ Move(q, status)
  PROVE  LeftInv'
<1>1. TypeOK /\ q \in Packages /\ UNCHANGED calls /\ Idle \notin Running
  BY Types, NobodyCalls DEF Inv, Bill, Ocr, Fee, Hold, Move
<1>2. Running' = Running /\ \A d \in Running : calls'[d] = calls[d]
  BY <1>1 DEF Running
<1> DEFINE S == {q}
<1>3. S \in SUBSET Packages
  BY <1>1
<1>4. CASE Bill(q) \/ Ocr(q) \/ Move(q, status)
  <2>1. Touch(S, Idle) \/ disturbed' = disturbed
    BY <1>4 DEF Bill, Ocr, Move
  <2>2. UNCHANGED <<extra, rows>>
    BY <1>4 DEF Bill, Ocr, Move, money
  <2> HIDE DEF S
  <2>3. disturbed \subseteq disturbed'
    BY <1>1, <1>3, <2>1, Touches
  <2> QED BY <1>1, <1>2, <2>2, <2>3, LeftCalls
<1>5. CASE Fee(q, type)
  <2> DEFINE a == Amount(type)
  <2>1. /\ a \in Int
        /\ \A p \in Packages : Left(p)' = Left(p) + Single(q, a, p) /\ (p # q => extra'[p] = extra[p])
    BY <1>5, FeeCharged
  <2> HIDE DEF a
  <2>2. /\ disturbed \subseteq disturbed'
        /\ q \notin disturbed' => /\ \A d \in Running : q \notin Held(d)
                                 /\ ~(Price + extra'[q] < PendingSum(q))
    BY <1>5 DEF Fee
  <2>3. \A d \in Busy : q \notin disturbed' => q \notin DOMAIN calls[d].seen
    BY <2>2 DEF Busy, Held
  <2>5. \A p \in Packages : p # q => Left(p)' = Left(p)
    <3> SUFFICES ASSUME NEW p \in Packages, p # q PROVE Left(p)' = Left(p)
      OBVIOUS
    <3>1. Left(p) \in Int
      BY LeftInt
    <3> QED BY <2>1, <3>1 DEF Single
  <2>7. q \notin disturbed' => Left(q)' >= 0
    <3> SUFFICES ASSUME q \notin disturbed' PROVE Left(q)' >= 0
      OBVIOUS
    <3>1. extra' \in [Packages -> Int] /\ rows' = rows
      BY <1>5, FeeCharged
    <3>2. PendingSum(q) = Waits(rows, q) /\ Waits(rows, q) \in Int
      BY <1>1, PendingIs, WaitsInt DEF Inv
    <3> DEFINE w == Waits(rows, q)
               e == extra'[q]
    <3>3. w \in Int /\ e \in Int /\ ~(Price + e < w) /\ Left(q)' = Price + e - w
      BY <1>1, <2>2, <3>1, <3>2 DEF Left
    <3> HIDE DEF w, e
    <3> QED BY <3>3 DEF Price
  <2>4. \A p \in Packages \ disturbed' : Left(p)' >= 0
    BY <2>2, <2>5, <2>7 DEF LeftInv
  <2>6. \A p, d : p \in Packages \ disturbed' /\ d \in Busy /\ d # Idle /\ p \in DOMAIN calls[d].seen
                  => extra'[p] = extra[p] /\ Left(p)' = Left(p)
    BY <2>1, <2>3, <2>5
  <2> QED BY <1>1, <1>2, <2>2, <2>4, <2>6, LeftFrame
<1>6. CASE Hold(q)
  <2>1. \A p \in Packages : Left(p)' = Left(p) /\ (p # q => extra'[p] = extra[p])
    BY <1>6, FeeHeld
  <2>2. Touch(S, Idle)
    BY <1>6 DEF Hold
  <2>3. q \in S
    OBVIOUS
  <2> HIDE DEF S
  <2> QED BY <1>1, <1>2, <1>3, <2>1, <2>2, <2>3, LeftTouched
<1> QED BY <1>4, <1>5, <1>6

LEMMA LeftBegin ==
  ASSUME Inv, LeftInv, NEW c \in Running, NEW kind \in {"customer", "staff"},
         NEW S \in (SUBSET Listed) \ {{}}, Begin(c, kind, S)
  PROVE  LeftInv'
<1>1. TypeOK /\ S \in SUBSET Listed /\ UNCHANGED <<extra, rows, disturbed>>
  BY DEF Inv, Begin, money
<1>2. /\ Running' = Running /\ \A d \in Running : d # c => calls'[d] = calls[d]
      /\ calls'[c].pc = "pending" /\ DOMAIN calls'[c].seen = S
      /\ \A p \in S : calls'[c].due[p] = Price + extra[p]
  BY <1>1, Begins
<1>3. ASSUME NEW y, y = calls'[c], NEW p PROVE Known(y, p, Price + extra[p], Left(p))
  <2>1. y.pc = "pending" /\ DOMAIN y.seen = S /\ (p \in S => y.due[p] = Price + extra[p])
    BY <1>2, <1>3
  <2> QED BY <2>1 DEF Known
<1> QED BY <1>1, <1>2, <1>3, LeftCalls

\* Taking off what waits leaves what is left.
LEMMA TakenOff ==
  ASSUME Inv, NEW p \in Packages, NEW a, a = Price + extra[p]
  PROVE  a - Waits(rows, p) = Left(p)
<1>1. extra[p] \in Int /\ Waits(rows, p) \in Int
  BY LeftInt, WaitsInt DEF Inv
<1> PICK w, e : w = Waits(rows, p) /\ e = extra[p]
  OBVIOUS
<1>2. Left(p) = Price + e - w /\ a = Price + e /\ w \in Int /\ e \in Int
  BY <1>1 DEF Left
<1> QED BY <1>2 DEF Price

LEMMA LeftRead ==
  ASSUME Inv, LeftInv, NEW c \in Running, ReadPending(c)
  PROVE  LeftInv'
<1>1. UNCHANGED <<extra, rows, disturbed>>
  BY DEF ReadPending, money
<1>2. /\ Running' = Running /\ \A d \in Running : d # c => calls'[d] = calls[d]
      /\ c \in Busy /\ calls[c].pc = "pending" /\ Same(calls[c], calls'[c]) /\ calls'[c].pc = "save"
      /\ \A p \in DOMAIN calls[c].seen : calls'[c].due[p] = calls[c].due[p] - Waits(rows, p)
  BY Reads
<1>3. ASSUME NEW y, y = calls'[c], NEW p \in Packages \ disturbed
      PROVE  Known(y, p, Price + extra[p], Left(p))
  <2> PICK x : x = calls[c]
    OBVIOUS
  <2>1. y.pc = "save" /\ y.seen = x.seen /\ x.pc = "pending"
    BY <1>2, <1>3 DEF Same
  <2>2. ASSUME p \in DOMAIN x.seen PROVE y.due[p] = Left(p)
    <3>1. y.due[p] = x.due[p] - Waits(rows, p)
      BY <1>2, <1>3, <2>2
    <3>2. Known(x, p, Price + extra[p], Left(p))
      BY <1>2 DEF LeftInv
    <3>3. x.due[p] = Price + extra[p]
      BY <2>1, <2>2, <3>2 DEF Known
    <3> QED BY <3>1, <3>3, TakenOff
  <2> QED BY <2>1, <2>2 DEF Known
<1> QED BY <1>1, <1>2, <1>3, LeftCalls

LEMMA LeftCancel ==
  ASSUME Inv, LeftInv, NEW c \in Running, CancelPackages(c)
  PROVE  LeftInv'
<1> PICK x : x = calls[c]
  OBVIOUS
<1>1. /\ c \in Busy /\ x.pc = "save" /\ Held(c) = DOMAIN x.seen
      /\ AtOnce(c) \in SUBSET DOMAIN x.seen /\ Continue(c, AtOnce(c))
      /\ UNCHANGED extra /\ Deferred(c) \in SUBSET DOMAIN x.seen
      /\ \A p \in Packages : Left(p)' = Left(p) - Share(Deferred(c), x.due, p)
      /\ x \in Call /\ TypeOK /\ Touch(Held(c), c)
  BY Cancels, Types DEF Inv, CancelPackages
<1>2. /\ Running' = Running /\ \A d \in Running : d # c => calls'[d] = calls[d]
      /\ \A y, p, read, left : y = calls'[c] /\ y # Idle => Known(y, p, read, left)
  BY <1>1, ContinueKnows
<1>3. DOMAIN x.seen \in SUBSET Packages
  BY <1>1, CallFields
<1>4. /\ disturbed \subseteq disturbed'
      /\ \A p \in DOMAIN x.seen \ disturbed', d \in Busy : d # c => p \notin DOMAIN calls[d].seen
  BY <1>1, <1>3, Touches
<1>5. ASSUME NEW p \in Packages \ disturbed
      PROVE  Left(p)' = Left(p) \/ Left(p)' = 0
  <2>1. Left(p) \in Int /\ Known(x, p, Price + extra[p], Left(p))
    BY <1>1, LeftInt DEF LeftInv
  <2>2. CASE p \in Deferred(c)
    <3>1. x.due[p] = Left(p)
      BY <1>1, <2>1, <2>2 DEF Known
    <3> QED BY <1>1, <2>1, <2>2, <3>1 DEF Share
  <2>3. CASE p \notin Deferred(c)
    BY <1>1, <2>1, <2>3 DEF Share
  <2> QED BY <2>2, <2>3
<1>6. \A p \in Packages \ disturbed' : Left(p)' >= 0
  <2>1. \A p \in Packages \ disturbed : Left(p) >= 0
    BY DEF LeftInv
  <2> HIDE DEF Left
  <2> QED BY <1>4, <1>5, <2>1
<1>7. ASSUME NEW p, NEW d, p \in Packages \ disturbed', d \in Busy, d # c, p \in DOMAIN calls[d].seen
      PROVE  extra'[p] = extra[p] /\ Left(p)' = Left(p)
  <2>1. p \notin Deferred(c) /\ Left(p) \in Int
    BY <1>1, <1>4, <1>7, LeftInt
  <2> QED BY <1>1, <1>7, <2>1 DEF Share
<1> QED BY <1>2, <1>4, <1>6, <1>7, LeftFrame

LEMMA LeftFees ==
  ASSUME Inv, LeftInv, NEW c \in Running, HandleFees(c)
  PROVE  LeftInv'
<1> PICK n, x : n = LastOf(calls[c].now) /\ x = calls[c]
  OBVIOUS
<1>1. UNCHANGED <<extra, rows, disturbed>>
  BY DEF HandleFees, money
<1>2. /\ c \in Busy /\ x.pc = "fees" /\ Fit(x)
      /\ \/ Continue(c, x.now \ {n})
         \/ /\ Running' = Running /\ \A d \in Running : d # c => calls'[d] = calls[d]
            /\ Same(x, calls'[c]) /\ calls'[c].pc = "handlePending" /\ calls'[c].now = x.now
            /\ calls'[c].due[n] = Price + extra[n]
  BY FeesRead DEF Inv
<1>3. CASE Continue(c, x.now \ {n})
  <2>1. x.now \ {n} \in SUBSET DOMAIN x.seen
    BY <1>2 DEF Fit
  <2> QED BY <1>1, <1>2, <1>3, <2>1, ContinueKnows, LeftCalls
<1>4. CASE ~Continue(c, x.now \ {n})
  <2>1. ASSUME NEW y, y = calls'[c], NEW p PROVE Known(y, p, Price + extra[p], Left(p))
    <3>1. y.pc = "handlePending" /\ LastOf(y.now) = n /\ y.due[n] = Price + extra[n]
      BY <1>2, <1>4, <2>1
    <3> QED BY <3>1 DEF Known
  <2> QED BY <1>1, <1>2, <1>4, <2>1, LeftCalls
<1> QED BY <1>3, <1>4

LEMMA LeftPending ==
  ASSUME Inv, LeftInv, NEW c \in Running, HandlePending(c)
  PROVE  LeftInv'
<1> PICK n, x : n = LastOf(calls[c].now) /\ x = calls[c]
  OBVIOUS
<1> PICK amount : amount = calls[c].due[n] - Waits(rows, n)
  OBVIOUS
<1>1. UNCHANGED <<extra, rows, disturbed>>
  BY DEF HandlePending, money
<1>2. /\ c \in Busy /\ x.pc = "handlePending" /\ Fit(x) /\ n \in x.now
      /\ \/ Continue(c, x.now \ {n})
         \/ /\ Running' = Running /\ \A d \in Running : d # c => calls'[d] = calls[d]
            /\ Same(x, calls'[c]) /\ calls'[c].pc = "pay" /\ calls'[c].now = x.now
            /\ calls'[c].due[n] = amount
  BY PendingRead DEF Inv
<1>3. x.now \subseteq DOMAIN x.seen
  BY <1>2 DEF Fit
<1>4. CASE Continue(c, x.now \ {n})
  <2>1. x.now \ {n} \in SUBSET DOMAIN x.seen
    BY <1>3
  <2> QED BY <1>1, <1>2, <1>4, <2>1, ContinueKnows, LeftCalls
<1>5. CASE ~Continue(c, x.now \ {n})
  <2>1. n \in Packages \ disturbed => amount = Left(n)
    <3> SUFFICES ASSUME n \in Packages \ disturbed PROVE amount = Left(n)
      OBVIOUS
    <3>1. Known(x, n, Price + extra[n], Left(n))
      BY <1>2 DEF LeftInv
    <3>2. x.due[n] = Price + extra[n]
      BY <1>2, <1>3, <3>1 DEF Known
    <3> QED BY <3>2, TakenOff
  <2>2. ASSUME NEW y, y = calls'[c], NEW p \in Packages \ disturbed
        PROVE  Known(y, p, Price + extra[p], Left(p))
    <3>1. y.pc = "pay" /\ LastOf(y.now) = n /\ y.due[n] = amount
      BY <1>2, <1>5, <2>2
    <3> QED BY <2>1, <3>1 DEF Known
  <2> QED BY <1>1, <1>2, <1>5, <2>2, LeftCalls
<1> QED BY <1>4, <1>5

\* What is refunded at once is all that was left.
LEMMA PaysAll ==
  ASSUME Inv, LeftInv, NEW c \in Running, HandlePay(c), NEW n, n = LastOf(calls[c].now),
         n \notin disturbed
  PROVE  Left(n)' = 0
<1> PICK x : x = calls[c]
  OBVIOUS
<1>1. c \in Busy /\ x.pc = "pay" /\ n \in x.now /\ n \in Packages /\ Fit(x)
  BY Pays DEF Inv
<1>2. Known(x, n, Price + extra[n], Left(n)) /\ n \in DOMAIN x.seen
  BY <1>1 DEF LeftInv, Fit
<1>3. x.due[n] = Left(n)
  BY <1>1, <1>2 DEF Known
<1>4. Left(n)' = Left(n) - Single(n, x.due[n], n) /\ Left(n) \in Int
  BY <1>1, LeftAfterPay, LeftInt
<1> QED BY <1>3, <1>4 DEF Single

LEMMA LeftPay ==
  ASSUME Inv, LeftInv, NEW c \in Running, HandlePay(c)
  PROVE  LeftInv'
<1> PICK n, x : n = LastOf(calls[c].now) /\ x = calls[c]
  OBVIOUS
<1> DEFINE S == {n}
<1>1. /\ c \in Busy /\ n \in x.now /\ n \in Packages /\ Fit(x) /\ TypeOK
      /\ Continue(c, x.now \ {n}) /\ Touch(S, c)
  BY Pays DEF Inv
<1>2. x.now \ {n} \in SUBSET DOMAIN x.seen /\ S \in SUBSET Packages /\ n \in S
  BY <1>1 DEF Fit
<1> HIDE DEF S
<1>3. /\ Running' = Running /\ \A d \in Running : d # c => calls'[d] = calls[d]
      /\ \A y, p, read, left : y = calls'[c] /\ y # Idle => Known(y, p, read, left)
  BY <1>1, <1>2, ContinueKnows
<1>4. /\ disturbed \subseteq disturbed'
      /\ \A p \in S \ disturbed', d \in Busy : d # c => p \notin DOMAIN calls[d].seen
  BY <1>1, <1>2, Touches
<1>5. ASSUME NEW p \in Packages, p # n
      PROVE  Left(p)' = Left(p) /\ extra'[p] = extra[p]
  <2>1. Left(p)' = Left(p) - Single(n, x.due[n], p) /\ extra'[p] = extra[p] /\ Left(p) \in Int
    BY <1>5, LeftAfterPay, LeftInt
  <2> QED BY <1>5, <2>1 DEF Single
<1>6. \A p \in Packages \ disturbed' : Left(p)' >= 0
  <2> SUFFICES ASSUME NEW p \in Packages \ disturbed' PROVE Left(p)' >= 0
    OBVIOUS
  <2>1. p \in Packages \ disturbed /\ Left(p) >= 0
    BY <1>4 DEF LeftInv
  <2>2. CASE p = n
    <3>1. Left(p)' = 0
      BY <2>1, <2>2, PaysAll
    <3> QED BY <3>1
  <2>3. CASE p # n
    BY <1>5, <2>1, <2>3
  <2> QED BY <2>2, <2>3
<1>7. \A p, d : p \in Packages \ disturbed' /\ d \in Busy /\ d # c /\ p \in DOMAIN calls[d].seen
                => extra'[p] = extra[p] /\ Left(p)' = Left(p)
  BY <1>2, <1>4, <1>5
<1> QED BY <1>3, <1>4, <1>6, <1>7, LeftFrame

LEMMA LeftScheduler ==
  ASSUME Inv, LeftInv, NEW i \in DOMAIN rows, PackageRefund(i)
  PROVE  LeftInv'
<1> DEFINE q == rows[i].package
           S == {q}
<1>1. /\ UNCHANGED calls /\ Touch(S, Idle) /\ q \in S /\ rows \in Seq(Refund)
  BY Types DEF PackageRefund, Inv
<1>2. Running' = Running /\ \A d \in Running : calls'[d] = calls[d]
  BY <1>1 DEF Running
<1>3. S \in SUBSET Packages
  BY <1>1, RowFields
<1>4. \A p \in Packages : Left(p)' = Left(p) /\ (p # q => extra'[p] = extra[p])
  BY RefundPaid
<1> HIDE DEF S, q
<1> QED BY <1>1, <1>2, <1>3, <1>4, LeftTouched

LEMMA LeftExpire ==
  ASSUME Inv, LeftInv, NEW c \in Running, NEW S \in SUBSET Listed, DeactivatePackageCodes(c, S)
  PROVE  LeftInv'
<1>1. UNCHANGED <<extra, rows>> /\ TypeOK /\ S \in SUBSET Packages /\ Touch(S, Idle)
  BY Types DEF DeactivatePackageCodes, money, Inv
<1>2. disturbed \subseteq disturbed'
  BY <1>1, Touches
<1>3. /\ Running' = Running /\ \A d \in Running : d # c => calls'[d] = calls[d]
      /\ calls'[c] # Idle => calls'[c].pc = "fees"
  BY Expires
<1>4. \A p, y : p \in Packages \ disturbed /\ c \in Running /\ y = calls'[c] /\ y # Idle
                => Known(y, p, Price + extra[p], Left(p))
  BY <1>3, FeesKnow
<1> QED BY <1>1, <1>2, <1>3, <1>4, LeftCalls

LEMMA LeftFail ==
  ASSUME Inv, LeftInv, NEW c \in Running, Fail(c)
  PROVE  LeftInv'
<1>1. c \in Busy /\ TypeOK /\ Fit(calls[c]) /\ UNCHANGED <<extra, rows, disturbed>>
  BY DEF Fail, Busy, Inv, money
<1>2. CASE calls' = [calls EXCEPT ![c] = Idle]
  <2>1. /\ Running' = Running /\ calls'[c] = Idle
        /\ \A d \in Running : d # c => calls'[d] = calls[d]
    BY <1>1, <1>2, OneCall
  <2> QED BY <1>1, <2>1, LeftCalls
<1>3. CASE /\ calls[c].pc \in {"fees", "handlePending", "pay"}
           /\ Continue(c, calls[c].now \ {NextDue(c)})
  <2> DEFINE now == calls[c].now \ {NextDue(c)}
  <2>1. now \in SUBSET DOMAIN calls[c].seen /\ Continue(c, now)
    BY <1>1, <1>3 DEF Fit
  <2> HIDE DEF now
  <2> QED BY <1>1, <2>1, ContinueKnows, LeftCalls
<1> QED BY <1>2, <1>3 DEF Fail

LEMMA LeftCrash ==
  ASSUME Inv, LeftInv, Crash
  PROVE  LeftInv'
<1>1. UNCHANGED <<extra, rows, disturbed>> /\ calls' = [c \in Running |-> Idle]
  BY DEF Crash, money
<1>2. Busy' = {}
  BY <1>1 DEF Busy, Running
<1>3. \A p \in Packages \ disturbed' : Left(p)' >= 0
  <2>1. \A p \in Packages \ disturbed : Left(p) >= 0
    BY DEF LeftInv
  <2> QED BY <1>1, <2>1, LeftSame
<1>4. (\A p \in Packages \ disturbed :
         Left(p) >= 0 /\ \A d \in Busy : Known(calls[d], p, Price + extra[p], Left(p)))'
  BY <1>2, <1>3
<1> QED BY <1>4 DEF LeftInv

\* Steps that leave calls and amounts.
LEMMA LeftAlone ==
  ASSUME Inv, LeftInv, UNCHANGED <<extra, rows, calls, disturbed>>
  PROVE  LeftInv'
<1>1. Idle \notin Running
  BY NobodyCalls DEF Inv
<1>2. Running' = Running /\ \A d \in Running : calls'[d] = calls[d]
  BY DEF Running
<1> QED BY <1>1, <1>2, LeftCalls

LEMMA LeftNext ==
  ASSUME Inv, LeftInv, [Next]_vars
  PROVE  LeftInv'
<1>1. ASSUME NEW p \in Listed,
             \/ Bill(p) \/ Ocr(p) \/ Hold(p) \/ \E status \in Status : Move(p, status)
             \/ \E type \in StaffTypes : Fee(p, type)
      PROVE  LeftInv'
  <2>1. "Created" \in Status /\ "final" \in StaffTypes
    BY DEF Status, StaffTypes, FeeTypes
  <2> QED BY <1>1, <2>1, LeftPackages
<1>2. ASSUME NEW c \in Running, NEW kind \in {"customer", "staff"}, NEW S \in (SUBSET Listed) \ {{}},
             Begin(c, kind, S)
      PROVE  LeftInv'
  BY <1>2, LeftBegin
<1>3. ASSUME NEW c \in Running, Step(c) \/ Fail(c)
      PROVE  LeftInv'
  BY <1>3, LeftRead, LeftCancel, LeftFees, LeftPending, LeftPay, LeftFail DEF Step
<1>4. ASSUME NEW c \in Running, NEW S \in SUBSET Listed, DeactivatePackageCodes(c, S)
      PROVE  LeftInv'
  BY <1>4, LeftExpire
<1>5. ASSUME NEW I \in SUBSET DOMAIN rows, Tick(I) PROVE LeftInv'
  BY <1>5, LeftAlone DEF Tick, money
<1>6. ASSUME NEW i \in DOMAIN rows, PackageRefund(i) PROVE LeftInv'
  BY <1>6, LeftScheduler
<1>7. CASE SchedulerFails \/ (\E i \in DOMAIN rows : SkipRow(i))
  BY <1>7, LeftAlone DEF SchedulerFails, SkipRow, money
<1>8. CASE Crash
  BY <1>8, LeftCrash
<1>9. CASE UNCHANGED vars
  BY <1>9, LeftAlone DEF vars, money
<1> QED BY <1>1, <1>2, <1>3, <1>4, <1>5, <1>6, <1>7, <1>8, <1>9 DEF Next, StaffTypes

LEMMA LeftInit ==
  ASSUME Init
  PROVE  LeftInv
<1>1. \A p \in Packages : Left(p) >= 0
  BY InitLeft DEF Price
<1>2. Busy = {}
  <2>1. \A d \in Running : calls[d] = Idle
    BY DEF Init, Running
  <2> QED BY <2>1 DEF Busy
<1> QED BY <1>1, <1>2 DEF LeftInv

-----------------------------------------------------------------------------
(* What calls have read. *)

LEMMA SeenFrame ==
  ASSUME SeenInv, NEW c, Running' = Running, disturbed \subseteq disturbed', Listed' = Listed,
         \A d \in Running : d # c => calls'[d] = calls[d],
         \A p, d : p \in Listed \ disturbed' /\ d \in Busy /\ d # c /\ p \in DOMAIN calls[d].seen
                   => pkg'[p].status = pkg[p].status,
         \A p, y : /\ p \in Listed \ disturbed' /\ c \in Running /\ y = calls'[c] /\ y # Idle
                   /\ y.pc \in {"pending", "save"} /\ p \in DOMAIN y.seen
                   => y.seen[p].status = pkg'[p].status
  PROVE  SeenInv'
<1>1. ASSUME NEW p, NEW d, p \in Listed \ disturbed', d \in Busy',
             calls'[d].pc \in {"pending", "save"}, p \in DOMAIN calls'[d].seen
      PROVE  calls'[d].seen[p].status = pkg'[p].status
  <2> PICK y : y = calls'[d]
    OBVIOUS
  <2>1. d \in Running /\ y # Idle
    BY <1>1 DEF Busy
  <2>2. CASE d = c
    BY <1>1, <2>1, <2>2
  <2>3. CASE d # c
    <3>1. y = calls[d] /\ d \in Busy /\ p \in Listed \ disturbed
      BY <1>1, <2>1, <2>3 DEF Busy
    <3>2. y.seen[p].status = pkg[p].status
      BY <1>1, <3>1 DEF SeenInv
    <3>3. pkg'[p].status = pkg[p].status
      BY <1>1, <2>3, <3>1
    <3> QED BY <3>2, <3>3
  <2> QED BY <2>2, <2>3
<1>2. (\A p, d : /\ p \in Listed \ disturbed /\ d \in Busy /\ calls[d].pc \in {"pending", "save"}
                 /\ p \in DOMAIN calls[d].seen
                 => calls[d].seen[p].status = pkg[p].status)'
  BY <1>1
<1> QED BY <1>2 DEF SeenInv

\* Steps of calls that leave the packages.
LEMMA SeenCalls ==
  ASSUME SeenInv, UNCHANGED <<pkg, disturbed>>, NEW c, Running' = Running,
         \A d \in Running : d # c => calls'[d] = calls[d],
         \A p, y : /\ p \in Listed \ disturbed /\ c \in Running /\ y = calls'[c] /\ y # Idle
                   /\ y.pc \in {"pending", "save"} /\ p \in DOMAIN y.seen
                   => y.seen[p].status = pkg[p].status
  PROVE  SeenInv'
<1>1. Listed' = Listed
  BY DEF Listed
<1> QED BY <1>1, SeenFrame

\* Steps of others.
LEMMA SeenTouched ==
  ASSUME Inv, SeenInv, NEW S \in SUBSET Packages, Touch(S, Idle), PkgKept,
         Running' = Running, NEW c, c \notin Busy, \A d \in Running : d # c => calls'[d] = calls[d],
         c \in Running /\ calls'[c] # Idle => calls'[c].pc = "fees",
         \A p \in Listed \ S : pkg'[p].status = pkg[p].status
  PROVE  SeenInv'
<1>1. /\ disturbed \subseteq disturbed' /\ Idle \notin Running
      /\ \A p \in S \ disturbed', d \in Busy : d # Idle => p \notin DOMAIN calls[d].seen
  BY Touches, NobodyCalls DEF Inv
<1>2. \A d \in Busy : d # Idle
  BY <1>1 DEF Busy
<1>3. \A p, d : p \in Listed \ disturbed' /\ d \in Busy /\ d # c /\ p \in DOMAIN calls[d].seen
                => pkg'[p].status = pkg[p].status
  BY <1>1, <1>2
<1>4. Listed' = Listed
  BY DEF PkgKept
<1> QED BY <1>1, <1>3, <1>4, SeenFrame

LEMMA ContinueSees ==
  ASSUME Inv, NEW c \in Busy, NEW now \in SUBSET DOMAIN calls[c].seen, Continue(c, now)
  PROVE  /\ Running' = Running /\ \A d \in Running : d # c => calls'[d] = calls[d]
         /\ calls'[c] # Idle => calls'[c].pc = "fees" /\ calls'[c].now = now
         /\ now # {} => calls'[c] # Idle
<1>1. calls[c] \in Call /\ TypeOK
  BY Types DEF Inv
<1>2. now \in SUBSET Packages
  BY <1>1, CallFields
<1>3. calls'[c] \in Call => calls'[c] # Idle
  BY IdleIsNoCall
<1> QED BY <1>1, <1>2, <1>3, Continues

LEMMA SeenPackages ==
  ASSUME Inv, SeenInv, NEW q \in Listed, NEW status \in Status, NEW type \in StaffTypes,
         Bill(q) \/ Ocr(q) \/ Fee(q, type) \/ Hold(q) \/ Move(q, status)
  PROVE  SeenInv'
<1>1. TypeOK /\ q \in Packages /\ UNCHANGED calls /\ Idle \notin Running
  BY Types, NobodyCalls DEF Inv, Bill, Ocr, Fee, Hold, Move
<1>2. Running' = Running /\ \A d \in Running : calls'[d] = calls[d]
  BY <1>1 DEF Running
<1>3. Idle \notin Busy
  BY <1>1 DEF Busy
<1> DEFINE S == {q}
<1>4. S \in SUBSET Packages
  BY <1>1
<1>5. CASE Bill(q) \/ Move(q, status)
  <2>1. Touch(S, Idle) /\ PkgKept /\ \A p \in Listed \ S : pkg'[p].status = pkg[p].status
    BY <1>1, <1>5, BillsRow, MovesOn DEF Bill, Move
  <2> HIDE DEF S
  <2> QED BY <1>1, <1>2, <1>3, <1>4, <2>1, SeenTouched
<1>6. CASE Ocr(q) \/ Fee(q, type) \/ Hold(q)
  <2>1. pkg' = pkg \/ pkg' = [pkg EXCEPT ![q].tracked = TRUE]
    BY <1>6 DEF Ocr, Fee, Hold
  <2>2. Listed' = Listed /\ \A p \in Listed : pkg'[p].status = pkg[p].status
    <3>1. CASE pkg' = pkg
      BY <3>1 DEF Listed
    <3>2. CASE pkg' = [pkg EXCEPT ![q].tracked = TRUE]
      BY <1>1, <3>2, Tracks DEF PkgKept
    <3> QED BY <2>1, <3>1, <3>2
  <2>3. disturbed \subseteq disturbed'
    BY <1>6 DEF Ocr, Fee, Hold, Touch
  <2> QED BY <1>1, <1>2, <2>2, <2>3, SeenFrame
<1> QED BY <1>5, <1>6

LEMMA SeenBegin ==
  ASSUME Inv, SeenInv, NEW c \in Running, NEW kind \in {"customer", "staff"},
         NEW S \in (SUBSET Listed) \ {{}}, Begin(c, kind, S)
  PROVE  SeenInv'
<1>1. TypeOK /\ S \in SUBSET Listed /\ UNCHANGED <<pkg, disturbed>>
  BY DEF Inv, Begin
<1>2. /\ Running' = Running /\ \A d \in Running : d # c => calls'[d] = calls[d]
      /\ DOMAIN calls'[c].seen = S /\ \A p \in S : calls'[c].seen[p] = pkg[p]
  BY <1>1, Begins
<1> QED BY <1>1, <1>2, SeenCalls

LEMMA SeenRead ==
  ASSUME Inv, SeenInv, NEW c \in Running, ReadPending(c)
  PROVE  SeenInv'
<1> PICK x, y : x = calls[c] /\ y = calls'[c]
  OBVIOUS
<1>1. UNCHANGED <<pkg, disturbed>>
  BY DEF ReadPending
<1>2. /\ Running' = Running /\ \A d \in Running : d # c => calls'[d] = calls[d]
      /\ c \in Busy /\ x.pc = "pending" /\ y.seen = x.seen
  BY Reads DEF Same
<1>3. \A p : p \in Listed \ disturbed /\ p \in DOMAIN x.seen => x.seen[p].status = pkg[p].status
  BY <1>2 DEF SeenInv
<1> QED BY <1>1, <1>2, <1>3, SeenCalls

LEMMA SeenCancel ==
  ASSUME Inv, SeenInv, NEW c \in Running, CancelPackages(c)
  PROVE  SeenInv'
<1> PICK x : x = calls[c]
  OBVIOUS
<1>1. /\ c \in Busy /\ Held(c) = DOMAIN x.seen /\ x \in Call /\ TypeOK /\ Touch(Held(c), c)
      /\ AtOnce(c) \in SUBSET DOMAIN x.seen /\ Continue(c, AtOnce(c))
      /\ PkgKept /\ \A p \in Listed \ DOMAIN x.seen : pkg'[p] = pkg[p]
  BY Cancels, CancelsRows, Types DEF Inv, CancelPackages
<1>2. /\ Running' = Running /\ \A d \in Running : d # c => calls'[d] = calls[d]
      /\ calls'[c] # Idle => calls'[c].pc = "fees"
  BY <1>1, ContinueSees
<1>3. DOMAIN x.seen \in SUBSET Packages
  BY <1>1, CallFields
<1>4. /\ disturbed \subseteq disturbed'
      /\ \A p \in DOMAIN x.seen \ disturbed', d \in Busy : d # c => p \notin DOMAIN calls[d].seen
  BY <1>1, <1>3, Touches
<1>5. \A p, d : p \in Listed \ disturbed' /\ d \in Busy /\ d # c /\ p \in DOMAIN calls[d].seen
                => pkg'[p].status = pkg[p].status
  BY <1>1, <1>4
<1>6. Listed' = Listed
  BY <1>1 DEF PkgKept
<1> QED BY <1>2, <1>4, <1>5, <1>6, SeenFrame

LEMMA SeenRefunds ==
  ASSUME Inv, SeenInv, NEW c \in Running, HandleFees(c) \/ HandlePending(c) \/ HandlePay(c)
  PROVE  SeenInv'
<1> PICK n, x : n = LastOf(calls[c].now) /\ x = calls[c]
  OBVIOUS
<1>1. /\ c \in Busy /\ Fit(x)
      /\ \/ Continue(c, x.now \ {n})
         \/ /\ Running' = Running /\ \A d \in Running : d # c => calls'[d] = calls[d]
            /\ calls'[c].pc \in {"handlePending", "pay"}
  BY FeesRead, PendingRead, Pays DEF Inv
<1>2. x.now \ {n} \in SUBSET DOMAIN x.seen
  BY <1>1 DEF Fit
<1>3. /\ Running' = Running /\ \A d \in Running : d # c => calls'[d] = calls[d]
      /\ calls'[c] # Idle => calls'[c].pc \in {"fees", "handlePending", "pay"}
  BY <1>1, <1>2, ContinueSees
<1>4. pkg' = pkg /\ Listed' = Listed /\ disturbed \subseteq disturbed'
  BY DEF HandleFees, HandlePending, HandlePay, Listed, Touch
<1> QED BY <1>3, <1>4, SeenFrame

LEMMA SeenFail ==
  ASSUME Inv, SeenInv, NEW c \in Running, Fail(c)
  PROVE  SeenInv'
<1>1. c \in Busy /\ TypeOK /\ Fit(calls[c]) /\ UNCHANGED <<pkg, disturbed>>
  BY DEF Fail, Busy, Inv
<1>2. CASE calls' = [calls EXCEPT ![c] = Idle]
  <2>1. /\ Running' = Running /\ calls'[c] = Idle
        /\ \A d \in Running : d # c => calls'[d] = calls[d]
    BY <1>1, <1>2, OneCall
  <2> QED BY <1>1, <2>1, SeenCalls
<1>3. CASE /\ calls[c].pc \in {"fees", "handlePending", "pay"}
           /\ Continue(c, calls[c].now \ {NextDue(c)})
  <2> DEFINE now == calls[c].now \ {NextDue(c)}
  <2>1. now \in SUBSET DOMAIN calls[c].seen /\ Continue(c, now)
    BY <1>1, <1>3 DEF Fit
  <2> HIDE DEF now
  <2>2. /\ Running' = Running /\ \A d \in Running : d # c => calls'[d] = calls[d]
        /\ calls'[c] # Idle => calls'[c].pc = "fees"
    BY <1>1, <2>1, ContinueSees
  <2> QED BY <1>1, <2>2, SeenCalls
<1> QED BY <1>2, <1>3 DEF Fail

\* Steps that leave calls and packages.
LEMMA SeenAlone ==
  ASSUME Inv, SeenInv, UNCHANGED <<pkg, calls>>, disturbed \subseteq disturbed'
  PROVE  SeenInv'
<1>1. Idle \notin Running
  BY NobodyCalls DEF Inv
<1>2. Running' = Running /\ Listed' = Listed /\ \A d \in Running : calls'[d] = calls[d]
  BY DEF Running, Listed
<1> QED BY <1>1, <1>2, SeenFrame

LEMMA SeenNext ==
  ASSUME Inv, SeenInv, [Next]_vars
  PROVE  SeenInv'
<1>1. ASSUME NEW p \in Listed,
             \/ Bill(p) \/ Ocr(p) \/ Hold(p) \/ \E status \in Status : Move(p, status)
             \/ \E type \in StaffTypes : Fee(p, type)
      PROVE  SeenInv'
  <2>1. "Created" \in Status /\ "final" \in StaffTypes
    BY DEF Status, StaffTypes, FeeTypes
  <2> QED BY <1>1, <2>1, SeenPackages
<1>2. ASSUME NEW c \in Running, NEW kind \in {"customer", "staff"}, NEW S \in (SUBSET Listed) \ {{}},
             Begin(c, kind, S)
      PROVE  SeenInv'
  BY <1>2, SeenBegin
<1>3. ASSUME NEW c \in Running, Step(c) \/ Fail(c)
      PROVE  SeenInv'
  BY <1>3, SeenRead, SeenCancel, SeenRefunds, SeenFail DEF Step
<1>4. ASSUME NEW c \in Running, NEW S \in SUBSET Listed, DeactivatePackageCodes(c, S)
      PROVE  SeenInv'
  <2>1. /\ PkgKept /\ Running' = Running /\ c \notin Busy
        /\ \A d \in Running : d # c => calls'[d] = calls[d]
        /\ calls'[c] # Idle => calls'[c].pc = "fees"
        /\ \A p \in Listed \ S : pkg'[p].status = pkg[p].status
    BY <1>4, Expires
  <2>2. S \in SUBSET Packages /\ Touch(S, Idle)
    BY <1>4, Types DEF Inv, DeactivatePackageCodes
  <2> QED BY <2>1, <2>2, SeenTouched
<1>5. ASSUME NEW I \in SUBSET DOMAIN rows, Tick(I) PROVE SeenInv'
  BY <1>5, SeenAlone DEF Tick
<1>6. ASSUME NEW i \in DOMAIN rows, PackageRefund(i) PROVE SeenInv'
  BY <1>6, SeenAlone DEF PackageRefund, Touch
<1>7. CASE SchedulerFails \/ (\E i \in DOMAIN rows : SkipRow(i))
  BY <1>7, SeenAlone DEF SchedulerFails, SkipRow
<1>8. CASE Crash
  <2>1. calls' = [d \in Running |-> Idle]
    BY <1>8 DEF Crash
  <2>2. Busy' = {}
    BY <2>1 DEF Busy, Running
  <2> QED BY <2>2 DEF SeenInv
<1>9. CASE UNCHANGED vars
  BY <1>9, SeenAlone DEF vars
<1> QED BY <1>1, <1>2, <1>3, <1>4, <1>5, <1>6, <1>7, <1>8, <1>9 DEF Next, StaffTypes

-----------------------------------------------------------------------------
(* Packages that were not billed. *)

\* A package nobody paid for yet is new or archived, with all of its price left and no
\* call about to refund it; or staff cancelled it, with the label of the customer.
Unpaying(p) ==
  /\ pkg[p].status \in {"Created", "Archived"} /\ Left(p) = Price
  /\ \A c \in Busy : p \notin calls[c].now
Spared(p) == Unpaying(p) \/ (pkg[p].status = "Cancelled" /\ p \in Barcoded)
UnbilledInv == \A p \in Listed \ (disturbed \cup billed) : Spared(p)

\* What a step, of the call c if of any, does to such a package.
Unbegun(p, c) == c \in Running /\ calls'[c] # Idle => p \notin calls'[c].now
StillSpared(p, c) ==
  \/ pkg'[p].status = "Cancelled" /\ p \in Barcoded
  \/ /\ Unpaying(p) /\ Left(p)' = Left(p)
     /\ pkg'[p].status \in {"Created", "Archived"}
     /\ Unbegun(p, c)

\* A step keeps the invariant if it leaves what is left of such a package, and no call
\* begins to refund it.
LEMMA UnbilledFrame ==
  ASSUME UnbilledInv, PkgKept, billed \subseteq billed', disturbed \subseteq disturbed',
         NEW c, Running' = Running, \A d \in Running : d # c => calls'[d] = calls[d],
         \A p \in Listed \ (disturbed' \cup billed') : Spared(p) => StillSpared(p, c)
  PROVE  UnbilledInv'
<1> SUFFICES ASSUME NEW p, p \in (Listed \ (disturbed \cup billed))'
             PROVE  Spared(p)'
  BY DEF UnbilledInv
<1>1. Listed' = Listed /\ Barcoded' = Barcoded
  BY TraitsKept DEF PkgKept
<1>2. p \in Listed \ (disturbed' \cup billed') /\ p \in Listed \ (disturbed \cup billed)
  BY <1>1
<1>3. Spared(p)
  BY <1>2 DEF UnbilledInv
<1>4. CASE pkg'[p].status = "Cancelled" /\ p \in Barcoded
  BY <1>1, <1>4 DEF Spared
<1>5. CASE /\ Unpaying(p) /\ Left(p)' = Left(p)
           /\ pkg'[p].status \in {"Created", "Archived"}
           /\ c \in Running /\ calls'[c] # Idle => p \notin calls'[c].now
  <2>1. \A d \in Busy : p \notin calls[d].now
    BY <1>5 DEF Unpaying
  <2>2. ASSUME NEW d \in Busy' PROVE p \notin calls'[d].now
    <3>1. d \in Running /\ calls'[d] # Idle
      BY DEF Busy
    <3>2. CASE d = c
      BY <1>5, <3>1, <3>2
    <3>3. CASE d # c
      <4>1. d \in Busy /\ calls'[d] = calls[d]
        BY <3>1, <3>3 DEF Busy
      <4> QED BY <2>1, <4>1
    <3> QED BY <3>2, <3>3
  <2>3. (\A d \in Busy : p \notin calls[d].now)'
    BY <2>2
  <2>4. Left(p)' = Price
    BY <1>5 DEF Unpaying
  <2>5. Unpaying(p)'
    BY <1>5, <2>3, <2>4 DEF Unpaying, Price
  <2> QED BY <2>5 DEF Spared
<1> QED BY <1>2, <1>3, <1>4, <1>5 DEF StillSpared, Unbegun

\* Steps that leave the packages and what is left, and whose call refunds no other.
LEMMA UnbilledCalls ==
  ASSUME Inv, UnbilledInv, UNCHANGED <<pkg, extra, rows, billed, disturbed>>,
         NEW c, Running' = Running, \A d \in Running : d # c => calls'[d] = calls[d],
         \A p : c \in Running /\ calls'[c] # Idle /\ p \in calls'[c].now
                => c \in Busy /\ p \in calls[c].now
  PROVE  UnbilledInv'
<1>1. PkgKept
  BY Types DEF Inv, PkgKept, Listed
<1>2. ASSUME NEW p, Unpaying(p)
      PROVE  /\ Left(p)' = Left(p) /\ pkg'[p].status \in {"Created", "Archived"}
             /\ c \in Running /\ calls'[c] # Idle => p \notin calls'[c].now
  BY <1>2, LeftSame DEF Unpaying
<1>3. ASSUME NEW p, Spared(p) PROVE StillSpared(p, c)
  BY <1>2, <1>3 DEF Spared, StillSpared, Unbegun
<1> QED BY <1>1, <1>3, UnbilledFrame

LEMMA UnbilledPackages ==
  ASSUME Inv, UnbilledInv, NEW q \in Listed, NEW status \in Status, NEW type \in StaffTypes, PkgKept,
         Bill(q) \/ Ocr(q) \/ Fee(q, type) \/ Hold(q) \/ Move(q, status)
  PROVE  UnbilledInv'
<1>1. /\ TypeOK /\ Listed \in SUBSET Packages /\ UNCHANGED calls
      /\ disturbed \subseteq disturbed' /\ billed \subseteq billed' /\ Idle \notin Running
  BY Types, NobodyCalls DEF Inv, Bill, Ocr, Fee, Hold, Move, Touch, money
<1>2. Running' = Running /\ \A d \in Running : calls'[d] = calls[d]
  BY <1>1 DEF Running
<1>3. ASSUME NEW p \in Listed \ (disturbed' \cup billed'), Spared(p)
      PROVE  \/ pkg'[p].status = "Cancelled" /\ p \in Barcoded
             \/ /\ Unpaying(p) /\ Left(p)' = Left(p)
                /\ pkg'[p].status \in {"Created", "Archived"}
  <2>0. p \in Packages /\ pkg[p].status \in {"Created", "Archived", "Cancelled"}
    BY <1>1, <1>3 DEF Spared, Unpaying
  <2>1. Left(p) \in Int
    BY <2>0, LeftInt
  <2>2. CASE pkg'[p].status = pkg[p].status /\ Left(p)' = Left(p)
    BY <1>3, <2>2 DEF Spared, Unpaying
  <2>3. CASE Bill(q)
    <3>1. p # q
      BY <1>3, <2>3 DEF Bill
    <3>2. pkg'[p] = pkg[p] /\ Left(p)' = Left(p)
      BY <1>1, <1>3, <2>3, <3>1, BillsRow, LeftSame DEF Bill
    <3> QED BY <2>2, <3>2
  <2>4. CASE Ocr(q)
    BY <1>1, <1>3, <2>2, <2>4, Tracks, LeftSame DEF Ocr, money
  <2>5. CASE Fee(q, type)
    <3>1. p # q
      BY <1>3, <2>0, <2>5 DEF Fee, Closed
    <3>2. Left(p)' = Left(p) + Single(q, Amount(type), p) /\ pkg' = pkg
      BY <2>0, <2>5, FeeCharged DEF Fee
    <3>3. Left(p)' = Left(p)
      BY <2>1, <3>1, <3>2 DEF Single
    <3> QED BY <2>2, <3>2, <3>3
  <2>6. CASE Hold(q)
    BY <1>1, <1>3, <2>0, <2>2, <2>6, Tracks, FeeHeld DEF Hold
  <2>7. CASE Move(q, status)
    <3>1. p # q
      BY <2>0, <2>7 DEF Move
    <3>2. pkg'[p] = pkg[p] /\ Left(p)' = Left(p)
      BY <1>1, <1>3, <2>7, <3>1, MovesOn, LeftSame DEF Move, money
    <3> QED BY <2>2, <3>2
  <2> QED BY <2>3, <2>4, <2>5, <2>6, <2>7
<1>4. ASSUME NEW p \in Listed \ (disturbed' \cup billed'), Spared(p) PROVE StillSpared(p, Idle)
  BY <1>1, <1>3, <1>4 DEF StillSpared, Unbegun
<1> QED BY <1>1, <1>2, <1>4, UnbilledFrame

\* A cancellation refunds what was billed, and what staff cancel with a label of the customer.
LEMMA UnbilledCancel ==
  ASSUME Inv, SeenInv, UnbilledInv, NEW c \in Running, CancelPackages(c), PkgKept
  PROVE  UnbilledInv'
<1> PICK x : x = calls[c]
  OBVIOUS
<1>1. /\ c \in Busy /\ x.pc = "save" /\ Held(c) = DOMAIN x.seen
      /\ AtOnce(c) \in SUBSET DOMAIN x.seen /\ Continue(c, AtOnce(c))
      /\ Deferred(c) \in SUBSET DOMAIN x.seen
      /\ \A p \in Packages : Left(p)' = Left(p) - Share(Deferred(c), x.due, p)
      /\ x \in Call /\ TypeOK /\ Fit(x) /\ Listed \in SUBSET Packages
  BY Cancels, Types DEF Inv, CancelPackages
<1>2. /\ Running' = Running /\ \A d \in Running : d # c => calls'[d] = calls[d]
      /\ calls'[c] # Idle => calls'[c].now = AtOnce(c)
  <2> DEFINE now == AtOnce(c)
  <2>1. now \in SUBSET Packages /\ Continue(c, now)
    BY <1>1, CallFields
  <2> HIDE DEF now
  <2>2. /\ Running' = Running /\ \A d \in Running : d # c => calls'[d] = calls[d]
        /\ calls'[c] # Idle => calls'[c].now = now
    BY <1>1, <2>1, Continues
  <2> QED BY <2>2 DEF now
<1>3. /\ billed' = billed /\ disturbed \subseteq disturbed'
      /\ \A p \in Listed \ DOMAIN x.seen : pkg'[p] = pkg[p]
      /\ \A p \in DOMAIN x.seen : pkg'[p].status = NewStatus(c, p)
  BY CancelsRows DEF CancelPackages, Touch
<1>4. ASSUME NEW p \in Listed \ (disturbed' \cup billed'), Spared(p)
      PROVE  \/ pkg'[p].status = "Cancelled" /\ p \in Barcoded
             \/ /\ Unpaying(p) /\ Left(p)' = Left(p)
                /\ pkg'[p].status \in {"Created", "Archived"}
                /\ c \in Running /\ calls'[c] # Idle => p \notin calls'[c].now
  <2>1. p \in Packages /\ Left(p) \in Int /\ pkg[p].status \in {"Created", "Archived", "Cancelled"}
    BY <1>1, <1>4, LeftInt DEF Spared, Unpaying
  <2>2. p \notin Deferred(c) => Left(p)' = Left(p)
    BY <1>1, <2>1 DEF Share
  <2>3. CASE p \notin DOMAIN x.seen
    <3>1. pkg'[p] = pkg[p] /\ p \notin Deferred(c) /\ p \notin AtOnce(c)
      BY <1>1, <1>3, <1>4, <2>3
    <3> QED BY <1>2, <1>4, <2>2, <3>1 DEF Spared, Unpaying
  <2>4. CASE p \in DOMAIN x.seen
    <3>1. x.seen[p].status = pkg[p].status
      BY <1>1, <1>3, <1>4, <2>4 DEF SeenInv, Spared
    <3>2. pkg'[p].status = NewStatus(c, p) /\ (p \in Live(c) <=> x.seen[p].status \notin {"Cancelled", "Archived"})
      BY <1>1, <1>3, <2>4 DEF Live
    <3>3. CASE pkg[p].status # "Created"
      <4>1. p \notin Live(c) /\ pkg'[p].status = pkg[p].status
        BY <2>1, <3>1, <3>2, <3>3 DEF NewStatus
      <4>2. p \notin Deferred(c) /\ p \notin AtOnce(c)
        BY <4>1 DEF Deferred, AtOnce, SeenAs, Tracked
      <4> QED BY <1>2, <1>4, <2>2, <4>1, <4>2 DEF Spared, Unpaying
    <3>4. CASE pkg[p].status = "Created"
      <4>1. /\ p \in SeenAs(c, "Created") /\ p \in Live(c)
            /\ p \notin SeenAs(c, "PendingPickup") /\ p \notin SeenAs(c, "InWarehouse")
        BY <3>1, <3>2, <3>4 DEF SeenAs
      <4>2. CASE x.kind = "staff" /\ p \in Barcoded
        BY <3>2, <4>1, <4>2 DEF NewStatus
      <4>3. CASE ~(x.kind = "staff" /\ p \in Barcoded)
        <5>1. pkg'[p].status = "Archived"
          BY <3>2, <4>1, <4>3 DEF NewStatus
        <5>2. p \notin Deferred(c) /\ p \notin AtOnce(c)
          <6>1. x.kind = "customer" \/ x.kind = "staff"
            BY <1>1 DEF Fit
          <6> QED BY <4>1, <4>3, <6>1 DEF Deferred, AtOnce
        <5> QED BY <1>2, <1>4, <2>2, <3>4, <5>1, <5>2 DEF Spared
      <4> QED BY <4>2, <4>3
    <3> QED BY <3>3, <3>4
  <2> QED BY <2>3, <2>4
<1>5. ASSUME NEW p \in Listed \ (disturbed' \cup billed'), Spared(p) PROVE StillSpared(p, c)
  BY <1>4, <1>5 DEF StillSpared, Unbegun
<1> QED BY <1>2, <1>3, <1>5, UnbilledFrame

\* A refund at once is one that a cancellation or the expiry began.
LEMMA UnbilledPay ==
  ASSUME Inv, UnbilledInv, NEW c \in Running, HandlePay(c), PkgKept
  PROVE  UnbilledInv'
<1> PICK n, x : n = LastOf(calls[c].now) /\ x = calls[c]
  OBVIOUS
<1>1. /\ c \in Busy /\ n \in x.now /\ x \in Call /\ TypeOK /\ Listed \in SUBSET Packages
      /\ Continue(c, x.now \ {n})
  BY Pays, Types DEF Inv
<1>2. /\ Running' = Running /\ \A d \in Running : d # c => calls'[d] = calls[d]
      /\ calls'[c] # Idle => calls'[c].now = x.now \ {n}
  <2> DEFINE now == x.now \ {n}
  <2>1. now \in SUBSET Packages /\ Continue(c, now)
    BY <1>1, CallFields
  <2> HIDE DEF now
  <2>2. /\ Running' = Running /\ \A d \in Running : d # c => calls'[d] = calls[d]
        /\ calls'[c] # Idle => calls'[c].now = now
    BY <1>1, <2>1, Continues
  <2> QED BY <2>2 DEF now
<1>3. pkg' = pkg /\ billed' = billed /\ disturbed \subseteq disturbed'
  BY DEF HandlePay, Touch
<1>4. ASSUME NEW p \in Listed, Unpaying(p)
      PROVE  Left(p)' = Left(p) /\ (calls'[c] # Idle => p \notin calls'[c].now)
  <2>1. p \notin x.now
    BY <1>1, <1>4 DEF Unpaying
  <2>2. Left(p)' = Left(p) - Single(n, x.due[n], p) /\ Left(p) \in Int
    BY <1>1, LeftAfterPay, LeftInt
  <2>3. p # n
    BY <1>1, <2>1
  <2> QED BY <1>2, <2>1, <2>2, <2>3 DEF Single
<1>5. ASSUME NEW p \in Listed, Spared(p) PROVE StillSpared(p, c)
  BY <1>3, <1>4, <1>5 DEF StillSpared, Spared, Unbegun, Unpaying
<1> QED BY <1>2, <1>3, <1>5, UnbilledFrame

LEMMA UnbilledExpire ==
  ASSUME Inv, UnbilledInv, NEW c \in Running, NEW S \in SUBSET Listed, DeactivatePackageCodes(c, S)
  PROVE  UnbilledInv'
<1>1. /\ PkgKept /\ Running' = Running /\ \A d \in Running : d # c => calls'[d] = calls[d]
      /\ calls'[c] # Idle => calls'[c].now \subseteq S
      /\ \A p \in Listed \ S : pkg'[p] = pkg[p]
  BY Expires
<1>2. /\ billed' = billed /\ disturbed \subseteq disturbed' /\ \A p : Left(p)' = Left(p)
      /\ \A p \in S : pkg[p].status = "PendingPickup"
  BY LeftSame DEF DeactivatePackageCodes, money, Touch
<1>3. ASSUME NEW p \in Listed, Unpaying(p) \/ pkg[p].status = "Cancelled"
      PROVE  pkg'[p] = pkg[p] /\ p \notin S
  BY <1>1, <1>2, <1>3 DEF Unpaying
<1>4. ASSUME NEW p \in Listed, Spared(p) PROVE StillSpared(p, c)
  <2>1. pkg'[p] = pkg[p] /\ Left(p)' = Left(p) /\ (calls'[c] # Idle => p \notin calls'[c].now)
    BY <1>1, <1>2, <1>3, <1>4 DEF Spared
  <2> QED BY <1>4, <2>1 DEF StillSpared, Spared, Unbegun, Unpaying
<1> QED BY <1>1, <1>2, <1>4, UnbilledFrame

\* The other steps of a call.
LEMMA UnbilledQuiet ==
  ASSUME Inv, UnbilledInv, NEW c \in Running,
         ReadPending(c) \/ HandleFees(c) \/ HandlePending(c) \/ Fail(c)
  PROVE  UnbilledInv'
<1> PICK n, x : n = LastOf(calls[c].now) /\ x = calls[c]
  OBVIOUS
<1>1. UNCHANGED <<pkg, extra, rows, billed, disturbed>> /\ c \in Busy /\ x \in Call /\ TypeOK
  BY Types DEF Inv, Busy, ReadPending, HandleFees, HandlePending, Fail, At, money
<1>2. CASE \E m : Continue(c, x.now \ {m})
  <2> PICK m : Continue(c, x.now \ {m})
    BY <1>2
  <2> DEFINE now == x.now \ {m}
  <2>1. now \in SUBSET Packages /\ Continue(c, now) /\ now \subseteq x.now
    BY <1>1, CallFields
  <2> HIDE DEF now
  <2>2. /\ Running' = Running /\ \A d \in Running : d # c => calls'[d] = calls[d]
        /\ calls'[c] # Idle => calls'[c].now = now
    BY <1>1, <2>1, Continues
  <2> QED BY <1>1, <2>1, <2>2, UnbilledCalls
<1>3. CASE calls' = [calls EXCEPT ![c] = Idle]
  <2>1. /\ Running' = Running /\ calls'[c] = Idle /\ \A d \in Running : d # c => calls'[d] = calls[d]
    BY <1>1, <1>3, OneCall
  <2> QED BY <1>1, <2>1, UnbilledCalls
<1>4. CASE /\ Running' = Running /\ \A d \in Running : d # c => calls'[d] = calls[d]
           /\ calls'[c].now = x.now
  BY <1>1, <1>4, UnbilledCalls
<1>5. CASE ReadPending(c)
  BY <1>4, <1>5, Reads
<1>6. CASE HandleFees(c)
  BY <1>2, <1>4, <1>6, FeesRead
<1>7. CASE HandlePending(c)
  <2> PICK amount : amount = calls[c].due[n] - Waits(rows, n)
    OBVIOUS
  <2> QED BY <1>2, <1>4, <1>7, PendingRead
<1>8. CASE Fail(c)
  BY <1>2, <1>3, <1>8 DEF Fail
<1> QED BY <1>5, <1>6, <1>7, <1>8

LEMMA UnbilledAlone ==
  ASSUME Inv, UnbilledInv, UNCHANGED <<pkg, calls, billed>>, disturbed \subseteq disturbed',
         \A p \in Packages : Left(p)' = Left(p)
  PROVE  UnbilledInv'
<1>1. PkgKept /\ Idle \notin Running /\ Listed \in SUBSET Packages
  BY NobodyCalls, Types DEF Inv, PkgKept, Listed
<1>2. Running' = Running /\ \A d \in Running : calls'[d] = calls[d]
  BY DEF Running
<1>3. ASSUME NEW p \in Listed, Spared(p) PROVE StillSpared(p, Idle)
  BY <1>1, <1>3 DEF Spared, StillSpared, Unbegun, Unpaying
<1> QED BY <1>1, <1>2, <1>3, UnbilledFrame

LEMMA UnbilledNext ==
  ASSUME Inv, SeenInv, UnbilledInv, [Next]_vars
  PROVE  UnbilledInv'
<1>0. PkgKept
  BY PkgSteps
<1>1. ASSUME NEW p \in Listed,
             \/ Bill(p) \/ Ocr(p) \/ Hold(p) \/ \E status \in Status : Move(p, status)
             \/ \E type \in StaffTypes : Fee(p, type)
      PROVE  UnbilledInv'
  <2>1. "Created" \in Status /\ "final" \in StaffTypes
    BY DEF Status, StaffTypes, FeeTypes
  <2> QED BY <1>0, <1>1, <2>1, UnbilledPackages
<1>2. ASSUME NEW c \in Running, NEW kind \in {"customer", "staff"}, NEW S \in (SUBSET Listed) \ {{}},
             Begin(c, kind, S)
      PROVE  UnbilledInv'
  <2>1. UNCHANGED <<pkg, extra, rows, billed, disturbed>> /\ TypeOK /\ S \in SUBSET Listed
    BY <1>2 DEF Begin, money, Inv
  <2>2. /\ Running' = Running /\ \A d \in Running : d # c => calls'[d] = calls[d]
        /\ calls'[c].now = {}
    BY <1>2, <2>1, Begins
  <2> QED BY <2>1, <2>2, UnbilledCalls
<1>3. ASSUME NEW c \in Running, Step(c) \/ Fail(c)
      PROVE  UnbilledInv'
  BY <1>0, <1>3, UnbilledCancel, UnbilledPay, UnbilledQuiet DEF Step
<1>4. ASSUME NEW c \in Running, NEW S \in SUBSET Listed, DeactivatePackageCodes(c, S)
      PROVE  UnbilledInv'
  BY <1>4, UnbilledExpire
<1>5. UNCHANGED <<pkg, calls, extra, rows, billed, disturbed>> => UnbilledInv'
  BY UnbilledAlone, LeftSame
<1>6. ASSUME NEW I \in SUBSET DOMAIN rows, Tick(I) PROVE UnbilledInv'
  BY <1>5, <1>6 DEF Tick, money
<1>7. ASSUME NEW i \in DOMAIN rows, PackageRefund(i) PROVE UnbilledInv'
  BY <1>7, RefundPaid, UnbilledAlone DEF PackageRefund, Touch
<1>8. CASE SchedulerFails \/ (\E i \in DOMAIN rows : SkipRow(i))
  BY <1>5, <1>8 DEF SchedulerFails, SkipRow, money
<1>9. CASE Crash
  <2>1. UNCHANGED <<pkg, extra, rows, billed, disturbed>> /\ calls' = [d \in Running |-> Idle]
    BY <1>9 DEF Crash, money
  <2>2. Running' = Running /\ Busy' = {}
    BY <2>1 DEF Busy, Running
  <2>3. \A p : Unpaying(p) => Unpaying(p)'
    BY <2>1, <2>2, LeftSame DEF Unpaying, Price
  <2>4. Listed' = Listed /\ Barcoded' = Barcoded
    BY <1>0, TraitsKept DEF PkgKept
  <2> QED BY <2>1, <2>3, <2>4 DEF UnbilledInv, Spared
<1>10. CASE UNCHANGED vars
  BY <1>5, <1>10 DEF vars, money
<1> QED BY <1>1, <1>2, <1>3, <1>4, <1>6, <1>7, <1>8, <1>9, <1>10 DEF Next, StaffTypes

\* Whatever package it is, and however cancellations, schedulers, errors and crashes are
\* ordered, refunds made and refunds that wait never come to more than was paid, and leave
\* the fees that are final, unless calls for the package overlap, it is charged after its
\* cancellation, or staff gave back more by hand than was left.  The one exception is named:
\* a package staff cancelled before it was billed gets the price, and no more.
THEOREM NotOverRefundedHolds == Spec => []NotOverRefunded
<1>1. Init => Inv /\ LeftInv /\ SeenInv /\ UnbilledInv
  <2> SUFFICES ASSUME Init PROVE SeenInv /\ UnbilledInv
    BY InitInv, LeftInit
  <2>1. \A d \in Running : calls[d] = Idle
    BY DEF Init, Running
  <2>2. Busy = {}
    BY <2>1 DEF Busy
  <2>3. Listed \in SUBSET Packages
    BY InitInv, Types DEF Inv
  <2>4. \A p \in Listed : pkg[p].status = "Created"
    BY DEF Init, Listed
  <2> QED BY <2>2, <2>3, <2>4, InitLeft DEF SeenInv, UnbilledInv, Spared, Unpaying
<1>2. Inv /\ LeftInv /\ SeenInv /\ UnbilledInv /\ [Next]_vars
      => Inv' /\ LeftInv' /\ SeenInv' /\ UnbilledInv'
  BY InvNext, LeftNext, SeenNext, UnbilledNext
<1>3. Inv /\ LeftInv /\ UnbilledInv => NotOverRefunded
  <2> SUFFICES ASSUME Inv, LeftInv, UnbilledInv, NEW p \in Listed \ disturbed
               PROVE  Net(p) - PendingSum(p)
                        >= final[p] - (IF RefundedUnbilled(p) THEN Price ELSE 0)
    BY DEF NotOverRefunded
  <2>1. Left(p) >= 0 /\ p \in Listed
    BY Types DEF Inv, LeftInv
  <2>2. \/ p \in billed
        \/ Left(p) = Price
        \/ RefundedUnbilled(p)
    BY DEF UnbilledInv, Spared, Unpaying, RefundedUnbilled
  <2>3. p \in billed => ~RefundedUnbilled(p)
    BY DEF RefundedUnbilled
  <2>4. /\ Left(p) \in Int /\ final[p] \in Int /\ Net(p) \in Int /\ PendingSum(p) \in Int
        /\ Net(p) - PendingSum(p) = Left(p) + final[p] - (IF p \in billed THEN 0 ELSE Price)
    BY <2>1, NetIs
  <2> HIDE DEF Left, Net, PendingSum, RefundedUnbilled
  <2> QED BY <2>1, <2>2, <2>3, <2>4 DEF Price
<1> QED BY <1>1, <1>2, <1>3, PTL DEF Spec

-----------------------------------------------------------------------------
(* What was cancelled is settled. *)

LEMMA DueBefore ==
  ASSUME PkgKept, billed' = billed, from' = from, lost \subseteq lost', NEW p \in Listed, Due(p)',
         pkg'[p].status = "Cancelled" => pkg[p].status = "Cancelled"
  PROVE  Due(p)
BY TraitsKept DEF Due

\* The call of the step settles a package it held to refund, or holds it still; the
\* others settle what they settled.
LEMMA SettledFrame ==
  ASSUME SettledInv, NEW c, Running' = Running, Listed' = Listed, disturbed \subseteq disturbed',
         \A d \in Running : d # c => calls'[d] = calls[d],
         \A p : p \in Listed \ disturbed' /\ Due(p)' =>
           \/ Settles(p)'
           \/ /\ Due(p) /\ (Left(p) = 0 => Left(p)' = 0)
              /\ c \in Busy /\ p \in calls[c].now
                 => Left(p)' = 0 \/ (calls'[c] # Idle /\ p \in calls'[c].now)
  PROVE  SettledInv'
<1>1. ASSUME NEW p, p \in Listed \ disturbed', Due(p)'
      PROVE  Settles(p)'
  <2>1. CASE /\ Due(p) /\ (Left(p) = 0 => Left(p)' = 0)
             /\ c \in Busy /\ p \in calls[c].now
                => Left(p)' = 0 \/ (calls'[c] # Idle /\ p \in calls'[c].now)
    <3>1. Settles(p)
      BY <1>1, <2>1 DEF SettledInv
    <3>2. CASE Left(p) = 0
      <4>1. Left(p)' = 0
        BY <2>1, <3>2
      <4> QED BY <4>1 DEF Settles
    <3>3. CASE \E d \in Busy : p \in calls[d].now
      <4>1. PICK d : d \in Busy /\ p \in calls[d].now
        BY <3>3
      <4>2. \/ Left(p)' = 0
            \/ d \in Running /\ calls'[d] # Idle /\ p \in calls'[d].now
        BY <2>1, <4>1 DEF Busy
      <4>3. d \in Running /\ calls'[d] # Idle => d \in Busy'
        BY DEF Busy
      <4>4. \/ Left(p)' = 0
            \/ \E e \in Busy' : p \in calls'[e].now
        BY <4>2, <4>3
      <4> QED BY <4>4 DEF Settles
    <3> QED BY <3>1, <3>2, <3>3 DEF Settles
  <2> QED BY <1>1, <2>1
<1>2. (\A p \in Listed \ disturbed : Due(p) => Settles(p))'
  BY <1>1
<1> QED BY <1>2 DEF SettledInv

\* Steps that leave the calls, and what is left.
LEMMA SettledAlone ==
  ASSUME Inv, SettledInv, PkgKept, UNCHANGED <<calls, from>>, lost \subseteq lost',
         disturbed \subseteq disturbed', billed' = billed,
         \A p \in Listed \ disturbed' :
           /\ pkg'[p].status = "Cancelled" => pkg[p].status = "Cancelled"
           /\ pkg'[p].status = "Cancelled" => Left(p)' = Left(p)
  PROVE  SettledInv'
<1>1. Idle \notin Running
  BY NobodyCalls DEF Inv
<1>2. /\ Running' = Running /\ Listed' = Listed /\ \A d \in Running : calls'[d] = calls[d]
      /\ Idle \notin Busy
  BY <1>1 DEF Running, Busy, PkgKept
<1>3. ASSUME NEW p, p \in Listed \ disturbed', Due(p)'
      PROVE  Due(p) /\ (Left(p) = 0 => Left(p)' = 0)
  <2>1. pkg'[p].status = "Cancelled"
    BY <1>3 DEF Due
  <2>2. Due(p)
    BY <1>3, DueBefore
  <2>3. Left(p)' = Left(p)
    BY <1>3, <2>1
  <2> QED BY <2>2, <2>3
<1> QED BY <1>2, <1>3, SettledFrame

LEMMA SettledPackages ==
  ASSUME Inv, SettledInv, NEW q \in Listed, NEW status \in Status, NEW type \in StaffTypes, PkgKept,
         Bill(q) \/ Ocr(q) \/ Fee(q, type) \/ Hold(q) \/ Move(q, status)
  PROVE  SettledInv'
<1>1. /\ TypeOK /\ Listed \in SUBSET Packages /\ UNCHANGED <<calls, from, lost>>
      /\ disturbed \subseteq disturbed' /\ Idle \notin Running
  BY Types, NobodyCalls DEF Inv, Bill, Ocr, Fee, Hold, Move, Touch
<1>2. CASE Bill(q)
  <2>1. /\ pkg'[q].status = "PendingPickup" /\ billed' = billed \cup {q}
        /\ \A p \in Listed : p # q => pkg'[p] = pkg[p]
        /\ \A p : Left(p)' = Left(p)
    BY <1>1, <1>2, BillsRow, LeftSame DEF Bill
  <2>2. /\ Running' = Running /\ Listed' = Listed /\ \A d \in Running : calls'[d] = calls[d]
        /\ Idle \notin Busy
    BY <1>1 DEF Running, Busy, PkgKept
  <2>3. ASSUME NEW p, p \in Listed \ disturbed', Due(p)'
        PROVE  Due(p)
    <3>1. pkg'[p].status = "Cancelled" /\ p \in billed'
      BY <2>3 DEF Due
    <3>2. p # q
      BY <2>1, <3>1
    <3>3. pkg'[p] = pkg[p] /\ p \in billed
      BY <2>1, <2>3, <3>1, <3>2
    <3> QED BY <1>1, <2>3, <3>3, TraitsKept DEF Due
  <2> QED BY <1>1, <2>1, <2>2, <2>3, SettledFrame
<1>3. CASE Ocr(q) \/ Move(q, status)
  <2>1. billed' = billed /\ \A p : Left(p)' = Left(p)
    BY <1>3, LeftSame DEF Ocr, Move, money
  <2>2. \A p \in Listed : pkg'[p].status = "Cancelled" => pkg[p].status = "Cancelled"
    <3>1. CASE Ocr(q)
      BY <1>1, <3>1, Tracks DEF Ocr
    <3>2. CASE Move(q, status)
      BY <1>1, <3>2, MovesOn
    <3> QED BY <1>3, <3>1, <3>2
  <2> QED BY <1>1, <2>1, <2>2, SettledAlone
<1>4. CASE Fee(q, type)
  <2>1. billed' = billed /\ pkg' = pkg /\ (pkg[q].status = "Cancelled" => q \in disturbed')
    BY <1>4 DEF Fee, Closed
  <2>2. \A p \in Packages : Left(p)' = Left(p) + Single(q, Amount(type), p)
    BY <1>4, FeeCharged
  <2>3. ASSUME NEW p \in Packages, p # q PROVE Left(p)' = Left(p)
    <3>1. Left(p) \in Int
      BY LeftInt
    <3> QED BY <2>2, <2>3, <3>1 DEF Single
  <2> QED BY <1>1, <2>1, <2>3, SettledAlone
<1>5. CASE Hold(q)
  <2>1. billed' = billed /\ \A p \in Packages : Left(p)' = Left(p)
    BY <1>5, FeeHeld DEF Hold
  <2>2. \A p \in Listed : pkg'[p].status = pkg[p].status
    BY <1>1, <1>5, Tracks DEF Hold
  <2> QED BY <1>1, <2>1, <2>2, SettledAlone
<1> QED BY <1>2, <1>3, <1>4, <1>5

\* Steps of a call that leave the packages and what is left.
LEMMA SettledCalls ==
  ASSUME SettledInv, PkgKept, UNCHANGED <<extra, rows, billed, from>>, lost \subseteq lost',
         disturbed \subseteq disturbed', NEW c, Running' = Running,
         \A d \in Running : d # c => calls'[d] = calls[d],
         \A p \in Listed : pkg'[p].status = "Cancelled" => pkg[p].status = "Cancelled",
         \A p : p \in Listed \ disturbed /\ Due(p) /\ p \notin lost' /\ c \in Busy /\ p \in calls[c].now
                => Left(p) = 0 \/ (calls'[c] # Idle /\ p \in calls'[c].now)
  PROVE  SettledInv'
<1>1. Listed' = Listed /\ \A p : Left(p)' = Left(p)
  BY LeftSame DEF PkgKept
<1>2. ASSUME NEW p, p \in Listed \ disturbed', Due(p)'
      PROVE  /\ Due(p)
             /\ c \in Busy /\ p \in calls[c].now
                => Left(p)' = 0 \/ (calls'[c] # Idle /\ p \in calls'[c].now)
  <2>1. Due(p) /\ p \notin lost'
    <3>1. p \notin lost'
      BY <1>2 DEF Due
    <3> QED BY <1>2, <3>1, DueBefore
  <2>2. p \in Listed \ disturbed
    BY <1>2
  <2> QED BY <1>1, <2>1, <2>2
<1> QED BY <1>1, <1>2, SettledFrame

LEMMA SettledQuiet ==
  ASSUME Inv, SettledInv, PkgKept, NEW c \in Running,
         \/ ReadPending(c)
         \/ \E kind \in {"customer", "staff"}, S \in (SUBSET Listed) \ {{}} : Begin(c, kind, S)
         \/ \E S \in SUBSET Listed : DeactivatePackageCodes(c, S)
  PROVE  SettledInv'
<1>1. CASE ReadPending(c)
  <2>1. UNCHANGED <<pkg, extra, rows, billed, from, lost, disturbed>>
    BY <1>1 DEF ReadPending, money
  <2>2. /\ Running' = Running /\ \A d \in Running : d # c => calls'[d] = calls[d]
        /\ c \in Busy /\ calls[c].pc = "pending"
    BY <1>1, Reads
  <2>3. calls[c].now = {}
    BY <2>2 DEF Inv, Fit
  <2> QED BY <2>1, <2>2, <2>3, SettledCalls
<1>2. ASSUME NEW kind \in {"customer", "staff"}, NEW S \in (SUBSET Listed) \ {{}}, Begin(c, kind, S)
      PROVE  SettledInv'
  <2>1. UNCHANGED <<pkg, extra, rows, billed, from, lost, disturbed>> /\ c \notin Busy
    BY <1>2 DEF Begin, money, Busy
  <2>2. Running' = Running /\ \A d \in Running : d # c => calls'[d] = calls[d]
    BY <1>2, Begins DEF Inv
  <2> QED BY <2>1, <2>2, SettledCalls
<1>3. ASSUME NEW S \in SUBSET Listed, DeactivatePackageCodes(c, S)
      PROVE  SettledInv'
  <2>1. /\ UNCHANGED <<extra, rows, billed, from, lost>> /\ disturbed \subseteq disturbed'
    BY <1>3 DEF DeactivatePackageCodes, money, Touch
  <2>2. /\ Running' = Running /\ \A d \in Running : d # c => calls'[d] = calls[d]
        /\ c \notin Busy /\ \A p \in S : pkg'[p].status = "Expired"
        /\ \A p \in Listed \ S : pkg'[p] = pkg[p]
    BY <1>3, Expires
  <2>3. \A p \in Listed : pkg'[p].status = "Cancelled" => pkg[p].status = "Cancelled"
    BY <2>2
  <2> QED BY <2>1, <2>2, <2>3, SettledCalls
<1> QED BY <1>1, <1>2, <1>3

\* A call that goes on without n.
LEMMA SettledContinue ==
  ASSUME Inv, SettledInv, PkgKept, NEW c \in Busy, NEW n, Continue(c, calls[c].now \ {n}),
         UNCHANGED <<pkg, extra, rows, billed, from, disturbed>>, lost \subseteq lost',
         n \in Listed \ disturbed /\ Due(n) /\ n \notin lost' => Left(n) = 0
  PROVE  SettledInv'
<1> PICK x : x = calls[c]
  OBVIOUS
<1> DEFINE now == x.now \ {n}
<1>1. now \in SUBSET DOMAIN x.seen /\ Continue(c, now)
  BY DEF Inv, Fit
<1>2. \A p : p \in x.now => p = n \/ p \in now
  OBVIOUS
<1> HIDE DEF now
<1>3. /\ Running' = Running /\ \A d \in Running : d # c => calls'[d] = calls[d]
      /\ calls'[c] # Idle => calls'[c].now = now
      /\ now # {} => calls'[c] # Idle
  BY <1>1, ContinueSees
<1>4. \A p : p \in Listed \ disturbed /\ Due(p) /\ p \notin lost' /\ c \in Busy /\ p \in x.now
             => Left(p) = 0 \/ (calls'[c] # Idle /\ p \in calls'[c].now)
  BY <1>2, <1>3
<1> QED BY <1>3, <1>4, SettledCalls

LEMMA SettledFees ==
  ASSUME Inv, SettledInv, PkgKept, NEW c \in Running, HandleFees(c)
  PROVE  SettledInv'
<1> PICK n, x : n = LastOf(calls[c].now) /\ x = calls[c]
  OBVIOUS
<1>1. UNCHANGED <<pkg, extra, rows, billed, from, lost, disturbed>>
  BY DEF HandleFees, money
<1>2. /\ c \in Busy
      /\ \/ n \in NeverRefunded /\ Continue(c, x.now \ {n})
         \/ /\ Running' = Running /\ \A d \in Running : d # c => calls'[d] = calls[d]
            /\ calls'[c] \in Call /\ calls'[c].now = x.now
  BY FeesRead
<1>3. CASE n \in NeverRefunded /\ Continue(c, x.now \ {n})
  <2>1. ~Due(n)
    BY <1>3 DEF Inv, Due
  <2> QED BY <1>1, <1>2, <1>3, <2>1, SettledContinue
<1>4. CASE ~(n \in NeverRefunded /\ Continue(c, x.now \ {n}))
  <2>1. calls'[c] # Idle
    BY <1>2, <1>4, IdleIsNoCall
  <2> QED BY <1>1, <1>2, <1>4, <2>1, SettledCalls
<1> QED BY <1>3, <1>4

LEMMA SettledPending ==
  ASSUME Inv, LeftInv, SettledInv, PkgKept, NEW c \in Running, HandlePending(c)
  PROVE  SettledInv'
<1> PICK n, x : n = LastOf(calls[c].now) /\ x = calls[c]
  OBVIOUS
<1> PICK amount : amount = calls[c].due[n] - Waits(rows, n)
  OBVIOUS
<1>1. UNCHANGED <<pkg, extra, rows, billed, from, lost, disturbed>>
  BY DEF HandlePending, money
<1>2. /\ c \in Busy /\ Fit(x) /\ x.pc = "handlePending" /\ n \in x.now
      /\ \/ amount <= 0 /\ Continue(c, x.now \ {n})
         \/ /\ Running' = Running /\ \A d \in Running : d # c => calls'[d] = calls[d]
            /\ calls'[c] \in Call /\ calls'[c].now = x.now
  BY PendingRead DEF Inv
<1>3. CASE amount <= 0 /\ Continue(c, x.now \ {n})
  <2>1. ASSUME n \in Listed \ disturbed PROVE Left(n) = 0
    <3>1. n \in Packages \ disturbed /\ n \in DOMAIN x.seen
      BY <1>2, <2>1, Types DEF Inv, Fit
    <3>2. Known(x, n, Price + extra[n], Left(n)) /\ Left(n) >= 0 /\ Left(n) \in Int
      BY <1>2, <3>1, LeftInt DEF LeftInv
    <3>3. x.due[n] = Price + extra[n]
      BY <1>2, <3>1, <3>2 DEF Known
    <3>4. amount = Left(n)
      BY <3>1, <3>3, TakenOff
    <3> QED BY <1>3, <3>2, <3>4
  <2> QED BY <1>1, <1>2, <1>3, <2>1, SettledContinue
<1>4. CASE ~(amount <= 0 /\ Continue(c, x.now \ {n}))
  <2>1. calls'[c] # Idle
    BY <1>2, <1>4, IdleIsNoCall
  <2> QED BY <1>1, <1>2, <1>4, <2>1, SettledCalls
<1> QED BY <1>3, <1>4

LEMMA SettledPay ==
  ASSUME Inv, LeftInv, SettledInv, PkgKept, NEW c \in Running, HandlePay(c)
  PROVE  SettledInv'
<1> PICK n, x : n = LastOf(calls[c].now) /\ x = calls[c]
  OBVIOUS
<1> DEFINE now == x.now \ {n}
<1>1. /\ c \in Busy /\ Fit(x) /\ Continue(c, now) /\ pkg' = pkg
      /\ UNCHANGED <<billed, from, lost>> /\ disturbed \subseteq disturbed'
  BY Pays DEF Inv, HandlePay, Touch
<1>2. now \in SUBSET DOMAIN x.seen /\ \A p : p \in x.now => p = n \/ p \in now
  BY <1>1 DEF Fit
<1> HIDE DEF now
<1>3. /\ Running' = Running /\ \A d \in Running : d # c => calls'[d] = calls[d]
      /\ calls'[c] # Idle => calls'[c].now = now
      /\ now # {} => calls'[c] # Idle
  BY <1>1, <1>2, ContinueSees
<1>4. Listed' = Listed
  BY DEF PkgKept
<1>5. ASSUME NEW p, p \in Listed \ disturbed', Due(p)'
      PROVE  /\ Due(p) /\ (Left(p) = 0 => Left(p)' = 0)
             /\ c \in Busy /\ p \in x.now
                => Left(p)' = 0 \/ (calls'[c] # Idle /\ p \in calls'[c].now)
  <2>1. Due(p) /\ p \in Packages \ disturbed
    BY <1>1, <1>5, DueBefore, Types DEF Inv
  <2>2. CASE p = n
    <3>1. Left(p)' = 0
      BY <2>1, <2>2, PaysAll
    <3> QED BY <2>1, <3>1
  <2>3. CASE p # n
    <3>1. Left(p)' = Left(p) - Single(n, x.due[n], p) /\ Left(p) \in Int
      BY <2>1, LeftAfterPay, LeftInt
    <3>2. Left(p)' = Left(p)
      BY <2>3, <3>1 DEF Single
    <3> QED BY <1>2, <1>3, <2>1, <2>3, <3>2
  <2> QED BY <2>2, <2>3
<1> QED BY <1>1, <1>3, <1>4, <1>5, SettledFrame

LEMMA SettledFail ==
  ASSUME Inv, SettledInv, PkgKept, NEW c \in Running, Fail(c)
  PROVE  SettledInv'
<1>1. /\ c \in Busy /\ TypeOK /\ Fit(calls[c]) /\ lost \subseteq lost'
      /\ UNCHANGED <<pkg, extra, rows, billed, from, disturbed>>
  BY DEF Fail, Busy, Inv, money
<1>2. CASE calls[c].pc \in {"pending", "save"} /\ calls' = [calls EXCEPT ![c] = Idle]
  <2>1. /\ Running' = Running /\ \A d \in Running : d # c => calls'[d] = calls[d]
    BY <1>1, <1>2, OneCall
  <2>2. calls[c].now = {}
    BY <1>1, <1>2 DEF Fit
  <2> QED BY <1>1, <2>1, <2>2, SettledCalls
<1>3. CASE /\ Continue(c, calls[c].now \ {NextDue(c)}) /\ lost' = lost \cup {NextDue(c)}
  <2> PICK n : n = NextDue(c)
    OBVIOUS
  <2>1. n \in lost' /\ Continue(c, calls[c].now \ {n})
    BY <1>3
  <2> QED BY <1>1, <2>1, SettledContinue
<1> QED BY <1>2, <1>3 DEF Fail

LEMMA SettledCrash ==
  ASSUME Inv, SettledInv, PkgKept, Crash
  PROVE  SettledInv'
<1>1. /\ UNCHANGED <<pkg, extra, rows, billed, from, disturbed>>
      /\ lost' = lost \cup UNION {calls[c].now : c \in {d \in Running : calls[d] # Idle}}
  BY DEF Crash, money
<1>2. lost \subseteq lost' /\ \A c \in Busy : calls[c].now \subseteq lost'
  BY <1>1 DEF Busy
<1>3. Listed' = Listed /\ \A p : Left(p)' = Left(p)
  BY <1>1, LeftSame DEF PkgKept
<1>4. ASSUME NEW p, p \in Listed \ disturbed', Due(p)'
      PROVE  Settles(p)'
  <2>1. Due(p) /\ p \notin lost'
    <3>1. p \notin lost'
      BY <1>4 DEF Due
    <3> QED BY <1>1, <1>2, <1>4, <3>1, DueBefore
  <2>2. Settles(p)
    BY <1>1, <1>4, <2>1 DEF SettledInv
  <2>3. Left(p)' = 0
    BY <1>2, <1>3, <2>1, <2>2 DEF Settles
  <2> QED BY <2>3 DEF Settles
<1>5. (\A p \in Listed \ disturbed : Due(p) => Settles(p))'
  BY <1>3, <1>4
<1> QED BY <1>5 DEF SettledInv

\* What is done about a package cancelled in time: it is refunded at once or by a row,
\* or nothing is due.
LEMMA CancelsInTime ==
  ASSUME Inv, NEW c \in Busy, calls[c].pc = "save", NEW p \in Live(c),
         p \notin NotRefunded, p \in Listed,
         calls[c].seen[p].status \in {"PendingPickup", "InWarehouse"}
  PROVE  \/ p \in AtOnce(c)
         \/ p \in Deferred(c)
         \/ p \notin Deferred(c) /\ ~(calls[c].due[p] > 0)
<1>1. p \in Packages /\ Fit(calls[c])
  BY Types DEF Inv
<1>2. p \in DOMAIN calls[c].seen
  BY DEF Live, Held, Busy
<1>3. \/ calls[c].kind = "staff"
      \/ calls[c].kind = "customer" /\ calls[c].seen[p].status = "PendingPickup"
  BY <1>1, <1>2 DEF Fit
<1>4. CASE p \in Barcoded
  BY <1>3, <1>4 DEF AtOnce, SeenAs
<1>5. CASE p \notin Barcoded /\ p \notin Tracked(c) /\ calls[c].seen[p].status = "PendingPickup"
  BY <1>1, <1>3, <1>5 DEF AtOnce, SeenAs
<1>6. CASE p \notin Barcoded /\ (p \in Tracked(c) \/ calls[c].seen[p].status = "InWarehouse")
  BY <1>3, <1>6 DEF Deferred, SeenAs
<1> QED BY <1>4, <1>5, <1>6

\* So it is settled once the rows are saved, or the call is about to.
LEMMA CancelSettles ==
  ASSUME Inv, LeftInv, NEW c \in Running, CancelPackages(c), NEW p \in Live(c),
         p \in Listed \ disturbed, p \notin NotRefunded,
         calls[c].seen[p].status \in {"PendingPickup", "InWarehouse"}
  PROVE  Left(p)' = 0 \/ (calls'[c] # Idle /\ p \in calls'[c].now)
<1> PICK x : x = calls[c]
  OBVIOUS
<1>1. /\ c \in Busy /\ x.pc = "save" /\ Held(c) = DOMAIN x.seen
      /\ AtOnce(c) \in SUBSET DOMAIN x.seen /\ Continue(c, AtOnce(c))
      /\ \A q \in Packages : Left(q)' = Left(q) - Share(Deferred(c), x.due, q)
  BY Cancels
<1>2. p \in Packages /\ p \in DOMAIN x.seen
  BY <1>1, Types DEF Inv, Live
<1>3. Known(x, p, Price + extra[p], Left(p)) /\ Left(p) >= 0 /\ Left(p) \in Int
  BY <1>1, <1>2, LeftInt DEF LeftInv
<1>4. x.due[p] = Left(p)
  BY <1>1, <1>2, <1>3 DEF Known
<1>5. CASE p \in AtOnce(c)
  BY <1>1, <1>5, ContinueSees
<1>6. CASE p \in Deferred(c)
  <2>1. Left(p)' = Left(p) - x.due[p]
    BY <1>1, <1>2, <1>6 DEF Share
  <2> QED BY <1>3, <1>4, <2>1
<1>7. CASE p \notin Deferred(c) /\ ~(x.due[p] > 0)
  <2>1. Left(p)' = Left(p) - 0
    BY <1>1, <1>2, <1>7 DEF Share
  <2> QED BY <1>3, <1>4, <1>7, <2>1
<1> QED BY <1>1, <1>5, <1>6, <1>7, CancelsInTime

LEMMA SettledCancel ==
  ASSUME Inv, LeftInv, SeenInv, SettledInv, PkgKept, NEW c \in Running, CancelPackages(c)
  PROVE  SettledInv'
<1> PICK x : x = calls[c]
  OBVIOUS
<1>1. /\ c \in Busy /\ x.pc = "save" /\ Held(c) = DOMAIN x.seen /\ Fit(x)
      /\ AtOnce(c) \in SUBSET DOMAIN x.seen /\ Continue(c, AtOnce(c))
      /\ \A q \in Packages : Left(q)' = Left(q) - Share(Deferred(c), x.due, q)
      /\ \A p \in Listed \ DOMAIN x.seen : pkg'[p] = pkg[p]
      /\ \A p \in DOMAIN x.seen : pkg'[p].status = NewStatus(c, p)
  BY Cancels, CancelsRows DEF Inv
<1>2. /\ Running' = Running /\ \A d \in Running : d # c => calls'[d] = calls[d]
  BY <1>1, ContinueSees
<1>3. /\ disturbed \subseteq disturbed' /\ Listed' = Listed /\ UNCHANGED <<billed, lost>>
      /\ from' = [p \in Packages |-> IF p \in Live(c) THEN x.seen[p].status ELSE from[p]]
  BY DEF CancelPackages, Touch, PkgKept
<1>4. x.now = {}
  BY <1>1 DEF Fit
<1>5. ASSUME NEW p, p \in Listed \ disturbed', Due(p)'
      PROVE  \/ Settles(p)'
             \/ Due(p) /\ (Left(p) = 0 => Left(p)' = 0)
  <2>1. p \in Packages /\ p \in Listed \ disturbed
    BY <1>3, <1>5, Types DEF Inv
  <2>2. /\ p \in billed \ (lost \cup NotRefunded) /\ pkg'[p].status = "Cancelled"
        /\ from'[p] \in {"PendingPickup", "InWarehouse"}
    BY <1>3, <1>5, TraitsKept DEF Due
  <2>3. CASE p \in Live(c)
    <3>1. x.seen[p].status \in {"PendingPickup", "InWarehouse"}
      BY <1>3, <2>1, <2>2, <2>3
    <3>2. Left(p)' = 0 \/ (calls'[c] # Idle /\ p \in calls'[c].now)
      BY <2>1, <2>2, <2>3, <3>1, CancelSettles
    <3>3. calls'[c] # Idle => c \in Busy'
      BY <1>2 DEF Busy
    <3> QED BY <3>2, <3>3 DEF Settles
  <2>4. CASE p \notin Live(c)
    <3>1. from'[p] = from[p]
      BY <1>3, <2>1, <2>4
    <3>2. pkg[p].status = "Cancelled"
      <4>1. CASE p \notin DOMAIN x.seen
        BY <1>1, <2>1, <2>2, <4>1
      <4>2. CASE p \in DOMAIN x.seen
        <5>1. NewStatus(c, p) = x.seen[p].status
          BY <2>4 DEF NewStatus
        <5>2. x.seen[p].status = pkg[p].status
          BY <1>1, <2>1, <4>2 DEF SeenInv
        <5> QED BY <1>1, <2>2, <4>2, <5>1, <5>2
      <4> QED BY <4>1, <4>2
    <3>3. p \notin Deferred(c)
      BY <2>4 DEF Deferred, SeenAs, Tracked
    <3>4. Left(p)' = Left(p) - 0 /\ Left(p) \in Int
      BY <1>1, <2>1, <3>3, LeftInt DEF Share
    <3>5. Due(p)
      BY <2>2, <3>1, <3>2 DEF Due
    <3> QED BY <3>4, <3>5
  <2> QED BY <2>3, <2>4
<1>6. \A p : p \in Listed \ disturbed' /\ Due(p)' =>
           \/ Settles(p)'
           \/ /\ Due(p) /\ (Left(p) = 0 => Left(p)' = 0)
              /\ c \in Busy /\ p \in calls[c].now
                 => Left(p)' = 0 \/ (calls'[c] # Idle /\ p \in calls'[c].now)
  BY <1>4, <1>5
<1> QED BY <1>2, <1>3, <1>6, SettledFrame

LEMMA SettledNext ==
  ASSUME Inv, LeftInv, SeenInv, SettledInv, [Next]_vars
  PROVE  SettledInv'
<1>0. PkgKept
  BY PkgSteps
<1>1. ASSUME NEW p \in Listed,
             \/ Bill(p) \/ Ocr(p) \/ Hold(p) \/ \E status \in Status : Move(p, status)
             \/ \E type \in StaffTypes : Fee(p, type)
      PROVE  SettledInv'
  <2>1. "Created" \in Status /\ "final" \in StaffTypes
    BY DEF Status, StaffTypes, FeeTypes
  <2> QED BY <1>0, <1>1, <2>1, SettledPackages
<1>2. ASSUME NEW c \in Running, NEW kind \in {"customer", "staff"}, NEW S \in (SUBSET Listed) \ {{}},
             Begin(c, kind, S)
      PROVE  SettledInv'
  BY <1>0, <1>2, SettledQuiet
<1>3. ASSUME NEW c \in Running, Step(c) \/ Fail(c)
      PROVE  SettledInv'
  <2>1. CASE ReadPending(c)
    BY <1>0, <2>1, SettledQuiet
  <2>2. CASE CancelPackages(c)
    BY <1>0, <2>2, SettledCancel
  <2>3. CASE HandleFees(c)
    BY <1>0, <2>3, SettledFees
  <2>4. CASE HandlePending(c)
    BY <1>0, <2>4, SettledPending
  <2>5. CASE HandlePay(c)
    BY <1>0, <2>5, SettledPay
  <2>6. CASE Fail(c)
    BY <1>0, <2>6, SettledFail
  <2> QED BY <1>3, <2>1, <2>2, <2>3, <2>4, <2>5, <2>6 DEF Step
<1>4. ASSUME NEW c \in Running, NEW S \in SUBSET Listed, DeactivatePackageCodes(c, S)
      PROVE  SettledInv'
  BY <1>0, <1>4, SettledQuiet
<1>5. UNCHANGED <<pkg, calls, extra, rows, billed, from, lost, disturbed>> => SettledInv'
  BY <1>0, SettledAlone, LeftSame
<1>6. ASSUME NEW I \in SUBSET DOMAIN rows, Tick(I) PROVE SettledInv'
  BY <1>5, <1>6 DEF Tick, money
<1>7. ASSUME NEW i \in DOMAIN rows, PackageRefund(i) PROVE SettledInv'
  <2>1. \A p \in Packages : Left(p)' = Left(p)
    BY <1>7, RefundPaid
  <2>2. /\ UNCHANGED <<pkg, calls, from, lost, billed>> /\ disturbed \subseteq disturbed'
        /\ Listed \in SUBSET Packages
    BY <1>7, Types DEF PackageRefund, Touch, Inv
  <2> QED BY <1>0, <2>1, <2>2, SettledAlone
<1>8. CASE SchedulerFails \/ (\E i \in DOMAIN rows : SkipRow(i))
  BY <1>5, <1>8 DEF SchedulerFails, SkipRow, money
<1>9. CASE Crash
  BY <1>0, <1>9, SettledCrash
<1>10. CASE UNCHANGED vars
  BY <1>5, <1>10 DEF vars, money
<1> QED BY <1>1, <1>2, <1>3, <1>4, <1>6, <1>7, <1>8, <1>9, <1>10 DEF Next, StaffTypes

\* A billed package cancelled before it left the warehouse comes back, but for the fees that
\* are final, by a fee posted at once or a row that waits, as soon as no call holds it: whichever of the
\* branches of CancelPackages takes it, whatever it was charged before, and in whatever
\* order calls, schedulers and the warehouse act.  Left out are packages of a service that
\* is not refunded, calls that overlapped and refunds that failed or were cut off.
THEOREM CancelledSettledHolds == Spec => []CancelledSettled
<1>1. Init => Inv /\ LeftInv /\ SeenInv /\ SettledInv
  <2> SUFFICES ASSUME Init PROVE SeenInv /\ SettledInv
    BY InitInv, LeftInit
  <2>1. \A d \in Running : calls[d] = Idle
    BY DEF Init, Running
  <2>2. billed = {} /\ Busy = {}
    BY <2>1 DEF Init, Busy
  <2> QED BY <2>2 DEF SeenInv, SettledInv, Due
<1>2. Inv /\ LeftInv /\ SeenInv /\ SettledInv /\ [Next]_vars
      => Inv' /\ LeftInv' /\ SeenInv' /\ SettledInv'
  BY InvNext, LeftNext, SeenNext, SettledNext
<1>3. Inv /\ SettledInv => CancelledSettled
  <2> SUFFICES ASSUME Inv, SettledInv, NEW p \in billed \ (disturbed \cup lost \cup NotRefunded),
                      pkg[p].status = "Cancelled", from[p] \in {"PendingPickup", "InWarehouse"},
                      \A c \in Running : p \notin Held(c)
               PROVE  Net(p) = PendingSum(p) + final[p]
    BY DEF CancelledSettled
  <2>1. p \in Listed \ disturbed /\ Due(p)
    BY DEF Inv, Due
  <2>2. \A c \in Busy : p \notin calls[c].now
    BY DEF Inv, Fit, Busy, Held
  <2>3. Left(p) = 0
    BY <2>1, <2>2 DEF SettledInv, Settles
  <2>4. /\ Left(p) \in Int /\ final[p] \in Int /\ Net(p) \in Int /\ PendingSum(p) \in Int
        /\ Net(p) - PendingSum(p) = Left(p) + final[p]
    <3>1. p \in billed
      OBVIOUS
    <3> HIDE DEF Left
    <3> QED BY <2>1, <3>1, NetIs
  <2> HIDE DEF Left, Net, PendingSum
  <2> QED BY <2>3, <2>4
<1> QED BY <1>1, <1>2, <1>3, PTL DEF Spec
=============================================================================
