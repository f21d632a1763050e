-------------------------- MODULE ArithmeticProofs --------------------------
(***************************************************************************)
(* Facts about integers that the proofs of every component rest on:        *)
(* products and quotients, least elements and induction over finite sets,  *)
(* the sums over finite sets that books and accounts are made of, and the  *)
(* powers of two that shifts multiply by.                                  *)
(***************************************************************************)
EXTENDS Integers, PowersOfTwo, FiniteSetTheorems, TLAPS

-----------------------------------------------------------------------------
(* Products and quotients *)

(* The product of two naturals is a natural. *)
LEMMA ProductNat ==
  ASSUME NEW a \in Nat, NEW b \in Nat
  PROVE  a * b \in Nat
BY SMT

(* Multiplication by a natural is monotone. *)
LEMMA ProductMonotone ==
  ASSUME NEW a \in Int, NEW b \in Int, NEW c \in Nat, a <= b
  PROVE  /\ c * a <= c * b
         /\ a * c <= b * c
BY SMT

(* Multiplication by a positive natural reflects a strict order. *)
LEMMA ProductCancelStrict ==
  ASSUME NEW a \in Int, NEW b \in Int, NEW c \in Nat \ {0}, c * a < c * b
  PROVE  a < b
<1>1. CASE b <= a
  BY <1>1, ProductMonotone, SMT
<1> QED BY <1>1, SMT

(* ... and the weak order. *)
LEMMA ProductCancel ==
  ASSUME NEW a \in Int, NEW b \in Int, NEW c \in Nat \ {0}, c * a <= c * b
  PROVE  a <= b
<1>1. CASE b + 1 <= a
  <2>1. c * (b + 1) <= c * a
    BY <1>1, ProductMonotone, SMT
  <2> QED BY <2>1, SMT
<1> QED BY <1>1, SMT

(* Integer division brackets its dividend. *)
LEMMA DivBracket ==
  ASSUME NEW a \in Nat, NEW b \in Nat \ {0}
  PROVE  /\ a \div b \in Nat
         /\ b * (a \div b) <= a
         /\ a < b * (a \div b) + b
<1>1. a = b * (a \div b) + (a % b) /\ a % b \in 0 .. b - 1 /\ a \div b \in Int
  BY SMT
<1> QED BY <1>1, SMT

(* A quotient lies where its dividend does. *)
LEMMA QuotientWithin ==
  ASSUME NEW a \in Nat, NEW b \in Nat \ {0}, NEW lo \in Nat, NEW hi \in Nat,
         lo * b <= a, a < hi * b
  PROVE  a \div b \in Nat /\ lo <= a \div b /\ a \div b < hi
<1> DEFINE q == a \div b
<1>1. q \in Nat /\ b * q <= a /\ a < b * q + b
  BY DivBracket
<1> HIDE DEF q
<1>2. CASE q + 1 <= lo
  <2>1. b * (q + 1) <= b * lo
    BY <1>1, <1>2, ProductMonotone
  <2> QED BY <1>1, <2>1, SMT
<1>3. CASE hi <= q
  <2>1. b * hi <= b * q
    BY <1>1, <1>3, ProductMonotone
  <2> QED BY <1>1, <2>1, SMT
<1> QED BY <1>1, <1>2, <1>3, SMT DEF q

(* Quotients by a positive number. *)
LEMMA QuotientOfSum ==
  ASSUME NEW a \in Nat, NEW c \in Nat, NEW b \in Nat \ {0}, c < b
  PROVE  (a * b + c) \div b = a /\ (a * b + c) % b = c
<1> DEFINE s == a * b + c
           q == s \div b
           m == s % b
<1>1. a * b \in Nat
  BY ProductNat
<1>2. q \in Int /\ m \in Nat /\ m < b /\ s = b * q + m /\ s \in Nat
  BY <1>1, SMT
<1> HIDE DEF q, m
<1>3. b * q + m = b * a + c
  BY <1>2, SMT
<1>4. ~(q < a)
  <2> SUFFICES ASSUME q + 1 <= a PROVE FALSE
    BY <1>2, SMT
  <2>1. b * (q + 1) <= b * a
    BY <1>2, ProductMonotone, SMT
  <2> QED BY <1>2, <1>3, <2>1, SMT
<1>5. ~(a < q)
  <2> SUFFICES ASSUME a + 1 <= q PROVE FALSE
    BY <1>2, SMT
  <2>1. b * (a + 1) <= b * q
    BY <1>2, ProductMonotone, SMT
  <2> QED BY <1>2, <1>3, <2>1, SMT
<1>6. q = a
  BY <1>2, <1>4, <1>5, SMT
<1>7. m = c
  BY <1>2, <1>3, <1>6, SMT
<1> QED BY <1>6, <1>7 DEF q, m

(* Dividing twice is dividing by the product. *)
LEMMA QuotientTwice ==
  ASSUME NEW a \in Nat, NEW b \in Nat \ {0}, NEW c \in Nat \ {0}
  PROVE  (a \div b) \div c = a \div (b * c)
<1> DEFINE p == a \div b
           q == p \div c
           x == a - b * p
           y == p - c * q
<1>1. p \in Nat /\ x \in Nat /\ x < b
  <2>1. p \in Nat /\ b * p <= a /\ a < b * p + b
    BY DivBracket
  <2> HIDE DEF p
  <2> QED BY <2>1, SMT
<1>2. q \in Nat /\ y \in Nat /\ y < c
  <2>1. q \in Nat /\ c * q <= p /\ p < c * q + c
    BY <1>1, DivBracket
  <2> HIDE DEF p, q
  <2> QED BY <1>1, <2>1, SMT
<1> HIDE DEF p, q
<1>3. b * y + x < b * c /\ b * y + x \in Nat
  <2>1. b * (y + 1) <= b * c /\ b * y \in Nat
    <3>1. y + 1 <= c
      BY <1>2, SMT
    <3> HIDE DEF y
    <3> QED BY <1>2, <3>1, ProductMonotone, ProductNat, SMT
  <2> HIDE DEF x, y
  <2> QED BY <1>1, <1>2, <2>1, SMT
<1>4. a = q * (b * c) + (b * y + x)
  BY <1>1, <1>2, SMT
<1>5. b * c \in Nat \ {0}
  BY SMT
<1> HIDE DEF x, y
<1>6. (q * (b * c) + (b * y + x)) \div (b * c) = q
  <2> DEFINE d == b * c
             e == b * y + x
  <2>1. d \in Nat \ {0} /\ e \in Nat /\ e < d
    BY <1>3, <1>5
  <2> HIDE DEF d, e
  <2>2. (q * d + e) \div d = q
    BY <1>2, <2>1, QuotientOfSum
  <2> QED BY <2>2 DEF d, e
<1> QED BY <1>4, <1>6 DEF q, p

-----------------------------------------------------------------------------
(* Induction over a set *)

(* A nonempty set of naturals has a least element. *)
LEMMA LeastNatural ==
  ASSUME NEW S \in SUBSET Nat, S # {}
  PROVE  \E n \in S : \A m \in S : n <= m
<1>1. PICK n \in S : \A m \in S : <<m, n>> \notin OpToRel(<, Nat)
  BY NatLessThanWellFounded, WFMin
<1>2. ASSUME NEW m \in S PROVE n <= m
  <2>1. ~(m < n)
    BY <1>1, <1>2 DEF OpToRel
  <2> QED BY <2>1, SMT
<1> QED BY <1>2

(* A set that holds 0 and the successor of each natural it holds has them all. *)
LEMMA NaturalsIn ==
  ASSUME NEW G, 0 \in G, \A n \in Nat : n \in G => n + 1 \in G
  PROVE  \A n \in Nat : n \in G
<1> DEFINE missing == {n \in Nat : n \notin G}
<1>1. SUFFICES ASSUME missing # {} PROVE FALSE
  OBVIOUS
<1>2. PICK n \in missing : \A m \in missing : n <= m
  BY <1>1, LeastNatural
<1>3. n \in Nat /\ n # 0
  BY <1>2
<1>4. n - 1 \in Nat /\ (n - 1) + 1 = n /\ ~(n <= n - 1)
  BY <1>3, SMT
<1>5. n - 1 \in G
  BY <1>2, <1>4
<1>6. n \in G
  BY <1>4, <1>5
<1> QED BY <1>2, <1>6

(* A family that holds a subset whenever it holds it less any one element    *)
(* holds every subset.                                                       *)
LEMMA SubsetInduction ==
  ASSUME NEW S, IsFiniteSet(S), NEW G,
         \A T \in SUBSET S : (\A x \in T : T \ {x} \in G) => T \in G
  PROVE  \A T \in SUBSET S : T \in G
<1> DEFINE sizes == {n \in Nat : \E T \in SUBSET S : Cardinality(T) = n /\ T \notin G}
<1>1. \A T \in SUBSET S : IsFiniteSet(T) /\ Cardinality(T) \in Nat
  BY FS_Subset, FS_CardinalityType
<1>2. SUFFICES ASSUME NEW T \in SUBSET S, T \notin G PROVE FALSE
  OBVIOUS
<1>3. sizes # {}
  BY <1>1, <1>2
<1>4. PICK n \in sizes : \A m \in sizes : n <= m
  BY <1>3, LeastNatural
<1>5. PICK U \in SUBSET S : Cardinality(U) = n /\ U \notin G
  BY <1>4
<1>6. ASSUME NEW x \in U PROVE U \ {x} \in G
  <2>1. U \ {x} \in SUBSET S /\ Cardinality(U \ {x}) = n - 1
    BY <1>1, <1>5, FS_RemoveElement
  <2>2. n - 1 \in Nat /\ ~(n <= n - 1)
    BY <1>1, <1>4, <2>1, SMT
  <2>3. n - 1 \notin sizes
    BY <1>4, <2>2
  <2> QED BY <2>1, <2>2, <2>3
<1> QED BY <1>5, <1>6

-----------------------------------------------------------------------------
(* The sum of an integer function over a finite set *)

(* MapThenSumSet folds in this order, with the summands in a function. *)
SumOver(w, S) ==
  LET iter[s \in SUBSET S] ==
        IF s = {} THEN 0
        ELSE LET x == CHOOSE x \in s : TRUE
             IN  w[x] + iter[s \ {x}]
  IN  iter[S]

Chosen(s) == CHOOSE x \in s : TRUE

(* One unfolding of the recursion, with partial sums taken from g. *)
Fold(w, g, s) == IF s = {} THEN 0 ELSE w[Chosen(s)] + g[s \ {Chosen(s)}]

IsFold(w, g, S) == g = [s \in SUBSET S |-> Fold(w, g, s)]

(* The recursion has a solution: a partial sum of n elements takes n steps. *)
LEMMA FoldExists ==
  ASSUME NEW w, NEW S, IsFiniteSet(S)
  PROVE  \E g : IsFold(w, g, S)
<1> DEFINE UpTo(n, g) == \A s \in SUBSET S : Cardinality(s) <= n => g[s] = Fold(w, g, s)
           G == {n \in Nat : \E g : UpTo(n, g)}
<1>1. \A s \in SUBSET S : IsFiniteSet(s) /\ Cardinality(s) \in Nat
  BY FS_Subset, FS_CardinalityType
<1>2. \A s \in SUBSET S : s # {} => Chosen(s) \in s
  BY DEF Chosen
<1>3. 0 \in G
  <2> DEFINE g == [s \in SUBSET S |-> 0]
  <2>1. ASSUME NEW s \in SUBSET S, Cardinality(s) <= 0 PROVE g[s] = Fold(w, g, s)
    <3>1. Cardinality(s) = 0
      BY <1>1, <2>1, SMT
    <3>2. s = {}
      BY <1>1, <3>1, FS_EmptySet
    <3> QED BY <3>2 DEF Fold
  <2>2. UpTo(0, g)
    BY <2>1
  <2> HIDE DEF g, UpTo
  <2> QED BY <2>2
<1>4. ASSUME NEW n \in Nat, n \in G PROVE n + 1 \in G
  <2>1. PICK g : UpTo(n, g)
    BY <1>4
  <2> DEFINE h == [s \in SUBSET S |-> Fold(w, g, s)]
  <2>2. ASSUME NEW s \in SUBSET S, Cardinality(s) <= n + 1 PROVE h[s] = Fold(w, h, s)
    <3>1. h[s] = Fold(w, g, s)
      OBVIOUS
    <3>2. CASE s = {}
      BY <3>1, <3>2 DEF Fold
    <3>3. CASE s # {}
      <4> DEFINE r == s \ {Chosen(s)}
      <4>1. Chosen(s) \in s /\ r \in SUBSET S
        BY <1>2, <3>3
      <4>2. Cardinality(r) = Cardinality(s) - 1
        BY <1>1, <4>1, FS_RemoveElement
      <4>3. Cardinality(r) <= n
        BY <1>1, <2>2, <4>2, SMT
      <4>4. h[r] = Fold(w, g, r) /\ g[r] = Fold(w, g, r)
        BY <2>1, <4>1, <4>3
      <4> QED BY <3>1, <3>3, <4>4 DEF Fold
    <3> QED BY <3>2, <3>3
  <2>3. UpTo(n + 1, h)
    BY <2>2
  <2>4. n + 1 \in Nat
    BY SMT
  <2> HIDE DEF h, UpTo
  <2> QED BY <2>3, <2>4
<1>5. Cardinality(S) \in G
  <2> HIDE DEF G
  <2>1. \A n \in Nat : n \in G
    BY <1>3, <1>4, NaturalsIn
  <2> QED BY <1>1, <2>1
<1>6. PICK g : UpTo(Cardinality(S), g)
  BY <1>5
<1> DEFINE h == [s \in SUBSET S |-> g[s]]
<1>7. ASSUME NEW s \in SUBSET S PROVE h[s] = Fold(w, h, s)
  <2>1. Cardinality(s) <= Cardinality(S)
    BY FS_Subset
  <2>2. h[s] = Fold(w, g, s)
    BY <1>6, <2>1
  <2>3. s # {} => s \ {Chosen(s)} \in SUBSET S
    OBVIOUS
  <2> QED BY <2>2, <2>3 DEF Fold
<1>8. h = [s \in SUBSET S |-> Fold(w, h, s)]
  BY <1>7
<1> HIDE DEF h
<1> QED BY <1>8 DEF IsFold

(* ... and one only, on the subsets of two sets. *)
LEMMA FoldUnique ==
  ASSUME NEW w, NEW S, NEW T \in SUBSET S, IsFiniteSet(S), NEW g, NEW h,
         IsFold(w, g, S), IsFold(w, h, T)
  PROVE  \A U \in SUBSET T : g[U] = h[U]
<1> DEFINE G == {U \in SUBSET T : g[U] = h[U]}
<1>1. IsFiniteSet(T)
  BY FS_Subset
<1>2. ASSUME NEW U \in SUBSET T, \A x \in U : U \ {x} \in G PROVE U \in G
  <2>1. g[U] = Fold(w, g, U) /\ h[U] = Fold(w, h, U)
    BY DEF IsFold
  <2>2. CASE U = {}
    BY <2>1, <2>2 DEF Fold
  <2>3. CASE U # {}
    <3>1. Chosen(U) \in U
      BY <2>3 DEF Chosen
    <3>2. g[U \ {Chosen(U)}] = h[U \ {Chosen(U)}]
      BY <1>2, <3>1
    <3> QED BY <2>1, <2>3, <3>2 DEF Fold
  <2> QED BY <2>2, <2>3
<1>3. \A U \in SUBSET T : U \in G
  <2> HIDE DEF G
  <2> QED BY <1>1, <1>2, SubsetInduction
<1> QED BY <1>3

(* The sum is the solution's value, over the set and over each subset of it. *)
LEMMA SumIsFold ==
  ASSUME NEW w, NEW S, IsFiniteSet(S)
  PROVE  \E g : /\ IsFold(w, g, S)
                /\ \A T \in SUBSET S : SumOver(w, T) = g[T]
<1> DEFINE iter(T) == CHOOSE g : IsFold(w, g, T)
<1>1. ASSUME NEW T, IsFiniteSet(T)
      PROVE  IsFold(w, iter(T), T) /\ SumOver(w, T) = iter(T)[T]
  <2>1. IsFold(w, iter(T), T)
    BY <1>1, FoldExists
  <2>2. SumOver(w, T) = (CHOOSE g : g = [s \in SUBSET T |->
                            IF s = {} THEN 0
                            ELSE w[CHOOSE x \in s : TRUE] + g[s \ {CHOOSE x \in s : TRUE}]])[T]
    BY DEF SumOver
  <2> QED BY <2>1, <2>2 DEF IsFold, Fold, Chosen
<1>2. ASSUME NEW T \in SUBSET S PROVE SumOver(w, T) = iter(S)[T]
  <2>1. IsFiniteSet(T)
    BY FS_Subset
  <2>2. IsFold(w, iter(S), S) /\ IsFold(w, iter(T), T) /\ SumOver(w, T) = iter(T)[T]
    BY <1>1, <2>1
  <2> HIDE DEF iter
  <2>3. T \in SUBSET T
    OBVIOUS
  <2> QED BY <2>2, <2>3, FoldUnique
<1>3. IsFold(w, iter(S), S)
  BY <1>1
<1> HIDE DEF iter
<1> QED BY <1>2, <1>3

(* The sum over nothing is 0; over more it is one summand and the rest. *)
LEMMA SumStep ==
  ASSUME NEW w, NEW S, IsFiniteSet(S)
  PROVE  /\ SumOver(w, {}) = 0
         /\ S # {} => \E x \in S : SumOver(w, S) = w[x] + SumOver(w, S \ {x})
<1>1. PICK g : IsFold(w, g, S) /\ \A T \in SUBSET S : SumOver(w, T) = g[T]
  BY SumIsFold
<1>2. \A T \in SUBSET S : SumOver(w, T) = Fold(w, g, T)
  BY <1>1 DEF IsFold
<1>3. SumOver(w, {}) = 0
  <2>1. {} \in SUBSET S
    OBVIOUS
  <2> QED BY <1>2, <2>1 DEF Fold
<1>4. ASSUME S # {} PROVE SumOver(w, S) = w[Chosen(S)] + SumOver(w, S \ {Chosen(S)})
  <2>1. S \in SUBSET S /\ S \ {Chosen(S)} \in SUBSET S
    OBVIOUS
  <2> QED BY <1>1, <1>2, <1>4, <2>1 DEF Fold
<1>5. S # {} => Chosen(S) \in S
  BY DEF Chosen
<1> QED BY <1>3, <1>4, <1>5

IntegerOn(w, S) == \A x \in S : w[x] \in Int

(* A sum of integers is an integer. *)
LEMMA SumInt ==
  ASSUME NEW w, NEW S, IsFiniteSet(S), IntegerOn(w, S)
  PROVE  \A T \in SUBSET S : SumOver(w, T) \in Int
<1> DEFINE G == {T \in SUBSET S : SumOver(w, T) \in Int}
<1>1. ASSUME NEW T \in SUBSET S, \A x \in T : T \ {x} \in G PROVE T \in G
  <2>1. IsFiniteSet(T)
    BY FS_Subset
  <2>2. CASE T = {}
    BY <2>1, <2>2, SumStep, SMT
  <2>3. CASE T # {}
    <3>1. PICK x \in T : SumOver(w, T) = w[x] + SumOver(w, T \ {x})
      BY <2>1, <2>3, SumStep
    <3>2. w[x] \in Int /\ SumOver(w, T \ {x}) \in Int
      BY <1>1 DEF IntegerOn
    <3>3. SumOver(w, T) \in Int
      BY <3>1, <3>2, SMT
    <3> QED BY <3>3
  <2> QED BY <2>2, <2>3
<1> HIDE DEF G
<1>2. \A T \in SUBSET S : T \in G
  BY <1>1, SubsetInduction
<1> QED BY <1>2 DEF G

(* Any element may be taken out first. *)
LEMMA SumRemove ==
  ASSUME NEW w, NEW S, IsFiniteSet(S), IntegerOn(w, S)
  PROVE  \A T \in SUBSET S : \A x \in T : SumOver(w, T) = w[x] + SumOver(w, T \ {x})
<1> DEFINE G == {T \in SUBSET S : \A x \in T : SumOver(w, T) = w[x] + SumOver(w, T \ {x})}
<1>1. ASSUME NEW T \in SUBSET S, \A x \in T : T \ {x} \in G PROVE T \in G
  <2> SUFFICES ASSUME NEW x \in T PROVE SumOver(w, T) = w[x] + SumOver(w, T \ {x})
    OBVIOUS
  <2>1. IsFiniteSet(T)
    BY FS_Subset
  <2>2. PICK c \in T : SumOver(w, T) = w[c] + SumOver(w, T \ {c})
    BY <2>1, SumStep
  <2>3. CASE c = x
    BY <2>2, <2>3
  <2>4. CASE c # x
    <3> DEFINE r == SumOver(w, (T \ {c}) \ {x})
    <3>1. SumOver(w, T \ {c}) = w[x] + r
      BY <1>1, <2>4
    <3>2. SumOver(w, T \ {x}) = w[c] + r
      <4>1. (T \ {x}) \ {c} = (T \ {c}) \ {x}
        OBVIOUS
      <4>2. SumOver(w, T \ {x}) = w[c] + SumOver(w, (T \ {x}) \ {c})
        BY <1>1, <2>4
      <4> QED BY <4>1, <4>2
    <3>3. w[x] \in Int /\ w[c] \in Int /\ r \in Int
      BY SumInt DEF IntegerOn
    <3> HIDE DEF r
    <3> QED BY <2>2, <3>1, <3>2, <3>3, SMT
  <2> QED BY <2>3, <2>4
<1> HIDE DEF G
<1>2. \A T \in SUBSET S : T \in G
  BY <1>1, SubsetInduction
<1> QED BY <1>2 DEF G

(* An element added adds its summand. *)
LEMMA SumAdd ==
  ASSUME NEW w, NEW S, IsFiniteSet(S), NEW x, x \notin S,
         IntegerOn(w, S), w[x] \in Int
  PROVE  SumOver(w, S \cup {x}) = w[x] + SumOver(w, S)
<1>1. IsFiniteSet(S \cup {x}) /\ IntegerOn(w, S \cup {x})
  BY FS_AddElement DEF IntegerOn
<1>2. (S \cup {x}) \ {x} = S /\ x \in S \cup {x} /\ S \cup {x} \in SUBSET (S \cup {x})
  OBVIOUS
<1> QED BY <1>1, <1>2, SumRemove

(* Summands in an integer linear relation have sums in it. *)
LEMMA SumLinear ==
  ASSUME NEW S, IsFiniteSet(S), NEW w, NEW v, NEW u,
         IntegerOn(w, S), IntegerOn(v, S), IntegerOn(u, S),
         NEW c \in Int, NEW d \in Int, NEW e \in Int,
         \A x \in S : c * w[x] = d * v[x] + e * u[x]
  PROVE  c * SumOver(w, S) = d * SumOver(v, S) + e * SumOver(u, S)
<1> DEFINE G == {T \in SUBSET S : c * SumOver(w, T) = d * SumOver(v, T) + e * SumOver(u, T)}
<1>1. ASSUME NEW T \in SUBSET S, \A x \in T : T \ {x} \in G PROVE T \in G
  <2>1. IsFiniteSet(T)
    BY FS_Subset
  <2>2. CASE T = {}
    <3>1. SumOver(w, T) = 0 /\ SumOver(v, T) = 0 /\ SumOver(u, T) = 0
      BY <2>1, <2>2, SumStep
    <3> QED BY <3>1, SMT
  <2>3. ASSUME NEW x \in T PROVE T \in G
    <3> DEFINE r == T \ {x}
               sw == SumOver(w, r)
               sv == SumOver(v, r)
               su == SumOver(u, r)
    <3>1. /\ SumOver(w, T) = w[x] + sw /\ SumOver(v, T) = v[x] + sv
          /\ SumOver(u, T) = u[x] + su
      BY SumRemove
    <3>2. sw \in Int /\ sv \in Int /\ su \in Int
          /\ w[x] \in Int /\ v[x] \in Int /\ u[x] \in Int
      BY SumInt DEF IntegerOn
    <3>3. c * sw = d * sv + e * su /\ c * w[x] = d * v[x] + e * u[x]
      BY <1>1
    <3> HIDE DEF sw, sv, su
    <3>4. /\ c * (w[x] + sw) = c * w[x] + c * sw /\ d * (v[x] + sv) = d * v[x] + d * sv
          /\ e * (u[x] + su) = e * u[x] + e * su
      BY <3>2, SMT
    <3> DEFINE i == c * w[x]
               j == d * v[x]
               k == e * u[x]
               l == c * sw
               m == d * sv
               n == e * su
    <3>5. i \in Int /\ j \in Int /\ k \in Int /\ l \in Int /\ m \in Int /\ n \in Int
      BY <3>2, SMT
    <3>6. i = j + k /\ l = m + n
      BY <3>3
    <3> HIDE DEF i, j, k, l, m, n
    <3>7. i + l = (j + m) + (k + n)
      BY <3>5, <3>6, SMT
    <3>8. c * (w[x] + sw) = d * (v[x] + sv) + e * (u[x] + su)
      BY <3>4, <3>7 DEF i, j, k, l, m, n
    <3> QED BY <3>1, <3>8
  <2> QED BY <2>2, <2>3
<1> HIDE DEF G
<1>2. \A T \in SUBSET S : T \in G
  BY <1>1, SubsetInduction
<1>3. S \in SUBSET S
  OBVIOUS
<1> QED BY <1>2, <1>3 DEF G

(* Of one integer function, the sums agree wherever the summands do. *)
LEMMA SumSame ==
  ASSUME NEW S, IsFiniteSet(S), NEW w, NEW v, IntegerOn(v, S), \A x \in S : w[x] = v[x]
  PROVE  SumOver(w, S) = SumOver(v, S)
<1> DEFINE zero == 0
           one == 1
<1>1. one \in Int /\ zero \in Int /\ IntegerOn(w, S)
  BY SMT DEF IntegerOn
<1>2. \A n \in Int : one * n = n /\ one * n + zero * n = n
  BY SMT
<1> HIDE DEF zero, one
<1>3. \A x \in S : one * w[x] = one * v[x] + zero * v[x]
  BY <1>2 DEF IntegerOn
<1>4. one * SumOver(w, S) = one * SumOver(v, S) + zero * SumOver(v, S)
  BY <1>1, <1>3, SumLinear
<1>5. SumOver(w, S) \in Int /\ SumOver(v, S) \in Int
  BY <1>1, SumInt
<1> QED BY <1>2, <1>4, <1>5

(* Summands in an integer inequality have sums in it. *)
LEMMA SumOrdered ==
  ASSUME NEW S, IsFiniteSet(S), NEW w, NEW v, IntegerOn(w, S), IntegerOn(v, S),
         NEW c \in Int, NEW d \in Int,
         \A x \in S : c * w[x] <= d * v[x]
  PROVE  c * SumOver(w, S) <= d * SumOver(v, S)
<1> DEFINE G == {T \in SUBSET S : c * SumOver(w, T) <= d * SumOver(v, T)}
<1>1. ASSUME NEW T \in SUBSET S, \A x \in T : T \ {x} \in G PROVE T \in G
  <2>1. IsFiniteSet(T)
    BY FS_Subset
  <2>2. CASE T = {}
    <3>1. SumOver(w, T) = 0 /\ SumOver(v, T) = 0
      BY <2>1, <2>2, SumStep
    <3> QED BY <3>1, SMT
  <2>3. ASSUME NEW x \in T PROVE T \in G
    <3> DEFINE r == T \ {x}
               sw == SumOver(w, r)
               sv == SumOver(v, r)
    <3>1. SumOver(w, T) = w[x] + sw /\ SumOver(v, T) = v[x] + sv
      BY SumRemove
    <3>2. sw \in Int /\ sv \in Int /\ w[x] \in Int /\ v[x] \in Int
      BY SumInt DEF IntegerOn
    <3>3. c * sw <= d * sv /\ c * w[x] <= d * v[x]
      BY <1>1
    <3> HIDE DEF sw, sv
    <3>4. /\ c * (w[x] + sw) = c * w[x] + c * sw /\ d * (v[x] + sv) = d * v[x] + d * sv
          /\ c * w[x] \in Int /\ c * sw \in Int /\ d * v[x] \in Int /\ d * sv \in Int
      BY <3>2, SMT
    <3>5. c * (w[x] + sw) <= d * (v[x] + sv)
      <4> DEFINE i == c * w[x]
                 j == d * v[x]
                 l == c * sw
                 m == d * sv
      <4> HIDE DEF i, j, l, m
      <4>1. i \in Int /\ j \in Int /\ l \in Int /\ m \in Int /\ i <= j /\ l <= m
        BY <3>3, <3>4 DEF i, j, l, m
      <4>2. i + l <= j + m
        BY <4>1, SMT
      <4> QED BY <3>4, <4>2 DEF i, j, l, m
    <3> QED BY <3>1, <3>5
  <2> QED BY <2>2, <2>3
<1> HIDE DEF G
<1>2. \A T \in SUBSET S : T \in G
  BY <1>1, SubsetInduction
<1>3. S \in SUBSET S
  OBVIOUS
<1> QED BY <1>2, <1>3 DEF G

NaturalOn(w, S) == \A x \in S : w[x] \in Nat

(* A sum of naturals is a natural, no less than any of its summands. *)
LEMMA SumNat ==
  ASSUME NEW w, NEW S, IsFiniteSet(S), NaturalOn(w, S)
  PROVE  \A T \in SUBSET S : /\ SumOver(w, T) \in Nat
                             /\ \A x \in T : w[x] <= SumOver(w, T)
<1> DEFINE G == {T \in SUBSET S : SumOver(w, T) \in Nat}
<1>1. IntegerOn(w, S)
  BY SMT DEF IntegerOn, NaturalOn
<1>2. ASSUME NEW T \in SUBSET S, \A x \in T : T \ {x} \in G PROVE T \in G
  <2>1. IsFiniteSet(T)
    BY FS_Subset
  <2>2. CASE T = {}
    BY <2>1, <2>2, SumStep, SMT
  <2>3. ASSUME NEW x \in T PROVE T \in G
    <3>1. SumOver(w, T) = w[x] + SumOver(w, T \ {x})
      BY <1>1, SumRemove
    <3>2. w[x] \in Nat /\ SumOver(w, T \ {x}) \in Nat
      BY <1>2 DEF NaturalOn
    <3>3. SumOver(w, T) \in Nat
      BY <3>1, <3>2, SMT
    <3> QED BY <3>3
  <2> QED BY <2>2, <2>3
<1> HIDE DEF G
<1>3. \A T \in SUBSET S : T \in G
  BY <1>2, SubsetInduction
<1>4. ASSUME NEW T \in SUBSET S, NEW x \in T PROVE w[x] <= SumOver(w, T)
  <2>1. SumOver(w, T) = w[x] + SumOver(w, T \ {x}) /\ T \ {x} \in SUBSET S
    BY <1>1, SumRemove
  <2>2. w[x] \in Nat /\ SumOver(w, T \ {x}) \in Nat
    BY <1>3, <2>1 DEF NaturalOn, G
  <2> QED BY <2>1, <2>2, SMT
<1> QED BY <1>3, <1>4 DEF G

(* The sum over a part is that over the whole with 0 for the rest. *)
LEMMA SumPart ==
  ASSUME NEW S, IsFiniteSet(S), NEW w, IntegerOn(w, S), NEW T \in SUBSET S
  PROVE  SumOver(w, T) = SumOver([x \in S |-> IF x \in T THEN w[x] ELSE 0], S)
<1> DEFINE v == [x \in S |-> IF x \in T THEN w[x] ELSE 0]
           G == {U \in SUBSET S : SumOver(w, U \cap T) = SumOver(v, U)}
<1>1. IntegerOn(v, S)
  BY SMT DEF IntegerOn
<1>2. ASSUME NEW U \in SUBSET S, \A x \in U : U \ {x} \in G PROVE U \in G
  <2>1. IsFiniteSet(U) /\ U \cap T \in SUBSET S
    BY FS_Subset
  <2>2. CASE U = {}
    <3>1. U \cap T = {}
      BY <2>2
    <3>2. SumOver(w, {}) = 0 /\ SumOver(v, {}) = 0
      BY <2>1, SumStep
    <3> QED BY <2>2, <3>1, <3>2
  <2>3. ASSUME NEW x \in U PROVE U \in G
    <3>1. SumOver(v, U) = v[x] + SumOver(v, U \ {x})
      <4> HIDE DEF v
      <4> QED BY <1>1, SumRemove
    <3>2. SumOver(w, (U \ {x}) \cap T) = SumOver(v, U \ {x})
      BY <1>2
    <3>3. CASE x \in T
      <4>1. SumOver(w, U \cap T) = w[x] + SumOver(w, (U \cap T) \ {x})
        BY <2>1, <3>3, SumRemove
      <4>2. (U \cap T) \ {x} = (U \ {x}) \cap T /\ v[x] = w[x]
        BY <3>3
      <4> QED BY <3>1, <3>2, <4>1, <4>2
    <3>4. CASE x \notin T
      <4>1. (U \ {x}) \cap T = U \cap T /\ v[x] = 0
        BY <3>4
      <4>2. SumOver(v, U \ {x}) \in Int
        <5> HIDE DEF v
        <5> QED BY <1>1, SumInt
      <4>3. 0 + SumOver(v, U \ {x}) = SumOver(v, U \ {x})
        BY <4>2, SMT
      <4> QED BY <3>1, <3>2, <4>1, <4>3
    <3> QED BY <3>3, <3>4
  <2> QED BY <2>2, <2>3
<1> HIDE DEF G, v
<1>3. \A U \in SUBSET S : U \in G
  BY <1>2, SubsetInduction
<1>4. S \in SUBSET S /\ S \cap T = T
  OBVIOUS
<1>5. SumOver(w, T) = SumOver(v, S)
  BY <1>3, <1>4 DEF G
<1> QED BY <1>5 DEF v

-----------------------------------------------------------------------------
(* Powers of two *)

IsPow2(g, n) == \A k \in 0 .. n : g[k] = IF k = 0 THEN 1 ELSE 2 * g[k - 1]

(* The recursion has a solution up to every exponent, and no two differ. *)
LEMMA Pow2Exists == \A n \in Nat : \E g : IsPow2(g, n)
<1> DEFINE G == {n \in Nat : \E g : IsPow2(g, n)}
<1>1. 0 \in G
  <2> DEFINE g == [k \in Nat |-> 1]
  <2>1. \A k \in 0 .. 0 : k = 0 /\ g[k] = 1
    BY SMT
  <2>2. IsPow2(g, 0)
    BY <2>1 DEF IsPow2
  <2> HIDE DEF g
  <2> QED BY <2>2
<1>2. ASSUME NEW n \in Nat, n \in G PROVE n + 1 \in G
  <2>1. PICK g : IsPow2(g, n)
    BY <1>2
  <2> DEFINE h == [k \in Nat |-> IF k = 0 THEN 1 ELSE 2 * g[k - 1]]
  <2>2. ASSUME NEW k \in 0 .. n + 1 PROVE h[k] = IF k = 0 THEN 1 ELSE 2 * h[k - 1]
    <3>1. k \in Nat /\ h[k] = IF k = 0 THEN 1 ELSE 2 * g[k - 1]
      BY SMT
    <3>2. CASE k = 0
      BY <3>1, <3>2
    <3>3. CASE k # 0
      <4>1. k - 1 \in 0 .. n /\ k - 1 \in Nat
        BY <3>3, SMT
      <4>2. h[k - 1] = IF k - 1 = 0 THEN 1 ELSE 2 * g[k - 1 - 1]
        BY <4>1
      <4>3. g[k - 1] = IF k - 1 = 0 THEN 1 ELSE 2 * g[k - 1 - 1]
        BY <2>1, <4>1 DEF IsPow2
      <4> QED BY <3>1, <3>3, <4>2, <4>3
    <3> QED BY <3>2, <3>3
  <2> HIDE DEF h
  <2>3. IsPow2(h, n + 1)
    BY <2>2 DEF IsPow2
  <2>4. n + 1 \in Nat
    BY SMT
  <2> QED BY <2>3, <2>4
<1> HIDE DEF G
<1>3. \A n \in Nat : n \in G
  BY <1>1, <1>2, NaturalsIn
<1> QED BY <1>3 DEF G

(* Two solutions agree as far as both go. *)
LEMMA Pow2Unique ==
  ASSUME NEW g, NEW h, NEW m \in Nat, NEW n \in Nat, IsPow2(g, m), IsPow2(h, n)
  PROVE  \A k \in Nat : k <= m /\ k <= n => g[k] = h[k]
<1> DEFINE G == {k \in Nat : k <= m /\ k <= n => g[k] = h[k]}
<1>1. 0 \in G
  <2>1. 0 \in 0 .. m /\ 0 \in 0 .. n
    BY SMT
  <2> QED BY <2>1 DEF IsPow2
<1>2. ASSUME NEW k \in Nat, k \in G PROVE k + 1 \in G
  <2>1. k + 1 \in Nat /\ k + 1 # 0 /\ k + 1 - 1 = k
    BY SMT
  <2>2. ASSUME k + 1 <= m, k + 1 <= n PROVE g[k + 1] = h[k + 1]
    <3>1. k + 1 \in 0 .. m /\ k + 1 \in 0 .. n /\ k <= m /\ k <= n
      BY <2>2, SMT
    <3>2. g[k + 1] = 2 * g[k] /\ h[k + 1] = 2 * h[k]
      BY <2>1, <3>1 DEF IsPow2
    <3> QED BY <1>2, <3>1, <3>2
  <2> QED BY <2>1, <2>2
<1> HIDE DEF G
<1>3. \A k \in Nat : k \in G
  BY <1>1, <1>2, NaturalsIn
<1> QED BY <1>3 DEF G

(* The recursive function is what its equation says. *)
LEMMA Pow2Def == /\ Pow2[0] = 1
                 /\ \A n \in Nat : Pow2[n + 1] = 2 * Pow2[n]
<1> DEFINE upTo(n) == CHOOSE g : IsPow2(g, n)
           F == [n \in Nat |-> upTo(n)[n]]
<1>1. \A n \in Nat : IsPow2(upTo(n), n)
  BY Pow2Exists
<1>2. F[0] = 1
  <2>1. 0 \in 0 .. 0 /\ 0 \in Nat
    BY SMT
  <2>2. F[0] = upTo(0)[0]
    BY <2>1
  <2> HIDE DEF F, upTo
  <2> QED BY <1>1, <2>1, <2>2 DEF IsPow2
<1>3. ASSUME NEW n \in Nat PROVE F[n + 1] = 2 * F[n]
  <2>1. n + 1 \in Nat /\ n + 1 \in 0 .. n + 1 /\ n + 1 # 0 /\ n + 1 - 1 = n /\ n <= n + 1 /\ n <= n
    BY SMT
  <2>2. F[n + 1] = upTo(n + 1)[n + 1] /\ F[n] = upTo(n)[n]
    BY <2>1
  <2> HIDE DEF F, upTo
  <2>3. IsPow2(upTo(n + 1), n + 1) /\ IsPow2(upTo(n), n)
    BY <1>1, <2>1
  <2>4. upTo(n + 1)[n + 1] = 2 * upTo(n + 1)[n]
    BY <2>1, <2>3 DEF IsPow2
  <2>5. upTo(n + 1)[n] = upTo(n)[n]
    BY <2>1, <2>3, Pow2Unique
  <2> QED BY <2>2, <2>4, <2>5
<1>4. F = [n \in Nat |-> IF n = 0 THEN 1 ELSE 2 * F[n - 1]]
  <2>1. ASSUME NEW n \in Nat PROVE F[n] = IF n = 0 THEN 1 ELSE 2 * F[n - 1]
    <3>1. CASE n = 0
      BY <1>2, <3>1
    <3>2. CASE n # 0
      <4>1. n - 1 \in Nat /\ n - 1 + 1 = n
        BY <3>2, SMT
      <4> HIDE DEF F
      <4> QED BY <1>3, <3>2, <4>1
    <3> QED BY <3>1, <3>2
  <2> DEFINE H == [n \in Nat |-> IF n = 0 THEN 1 ELSE 2 * F[n - 1]]
  <2>2. F = [n \in Nat |-> F[n]]
    OBVIOUS
  <2>3. \A n \in Nat : F[n] = H[n]
    BY <2>1
  <2> QED BY <2>2, <2>3
<1> HIDE DEF F
<1>5. Pow2 = [n \in Nat |-> IF n = 0 THEN 1 ELSE 2 * Pow2[n - 1]]
  BY <1>4 DEF Pow2
<1>6. 0 \in Nat /\ Pow2[0] = 1
  BY <1>5
<1>7. ASSUME NEW n \in Nat PROVE Pow2[n + 1] = 2 * Pow2[n]
  <2>1. n + 1 \in Nat /\ n + 1 # 0 /\ n + 1 - 1 = n
    BY SMT
  <2> DEFINE H == [k \in Nat |-> IF k = 0 THEN 1 ELSE 2 * Pow2[k - 1]]
  <2>2. H[n + 1] = 2 * Pow2[n]
    BY <2>1
  <2>3. Pow2 = H
    BY <1>5
  <2> HIDE DEF H
  <2> QED BY <2>2, <2>3
<1> QED BY <1>6, <1>7

(* Every power is a positive natural. *)
LEMMA Pow2Nat == \A n \in Nat : Pow2[n] \in Nat \ {0}
<1> DEFINE G == {n \in Nat : Pow2[n] \in Nat \ {0}}
<1>1. 0 \in G
  BY Pow2Def, SMT
<1>2. ASSUME NEW n \in Nat, n \in G PROVE n + 1 \in G
  <2>1. Pow2[n + 1] = 2 * Pow2[n] /\ Pow2[n] \in Nat \ {0} /\ n + 1 \in Nat
    BY <1>2, Pow2Def, SMT
  <2> QED BY <2>1, SMT
<1> HIDE DEF G
<1>3. \A n \in Nat : n \in G
  BY <1>1, <1>2, NaturalsIn
<1> QED BY <1>3 DEF G

(* Exponents add. *)
LEMMA Pow2Sum == \A m, n \in Nat : Pow2[m + n] = Pow2[m] * Pow2[n]
<1> SUFFICES ASSUME NEW m \in Nat PROVE \A n \in Nat : Pow2[m + n] = Pow2[m] * Pow2[n]
  OBVIOUS
<1> DEFINE G == {n \in Nat : Pow2[m + n] = Pow2[m] * Pow2[n]}
<1>1. 0 \in G
  BY Pow2Def, Pow2Nat, SMT
<1>2. ASSUME NEW n \in Nat, n \in G PROVE n + 1 \in G
  <2>1. /\ m + n \in Nat /\ n + 1 \in Nat /\ m + (n + 1) = (m + n) + 1
        /\ Pow2[m] \in Nat /\ Pow2[n] \in Nat /\ Pow2[m + n] = Pow2[m] * Pow2[n]
    BY <1>2, Pow2Nat, SMT
  <2>2. Pow2[(m + n) + 1] = 2 * Pow2[m + n] /\ Pow2[n + 1] = 2 * Pow2[n]
    BY <2>1, Pow2Def
  <2> QED BY <2>1, <2>2, SMT
<1> HIDE DEF G
<1>3. \A n \in Nat : n \in G
  BY <1>1, <1>2, NaturalsIn
<1> QED BY <1>3 DEF G
=============================================================================
