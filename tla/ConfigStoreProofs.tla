-------------------------- MODULE ConfigStoreProofs --------------------------
(***************************************************************************)
(* Theorems about ConfigStore, whatever the keys, the values and the sizes *)
(* of words and pages, and wherever the power fails.                       *)
(*                                                                         *)
(* The scans of config.c read a page from header to header, so the first   *)
(* half says what they find in a well-formed page, a log: sums over finite *)
(* sets, walks along a page, and logs with their entries.  Nothing else is *)
(* recursive.  StoreInv then says that the formatted pages are logs, and   *)
(* what config_put, config_delete and config_compact have programmed of    *)
(* their words; MapInv says what the page in use holds meanwhile, RoomInv   *)
(* that the new value has room.                                            *)
(***************************************************************************)
EXTENDS ConfigStore, TLAPS, FiniteSetTheorems

(* Natural numbers, finite sets and sums over them.                        *)

(* A set of numbers that is not empty has a least one.                     *)
LEMMA LeastNat ==
  ASSUME NEW T, T \subseteq Nat, T # {}
  PROVE \E x \in T : \A y \in T : x <= y
<1> DEFINE R == {ss \in Nat \X Nat : ss[1] < ss[2]}
<1>1. IsWellFoundedOn(R, Nat)
  BY NatLessThanWellFounded DEF OpToRel
<1>2. PICK x \in T : \A y \in T : <<y, x>> \notin R
  <2> HIDE DEF R
  <2> QED BY <1>1, WFMin
<1>3. ASSUME NEW y \in T PROVE x <= y
  <2>1. <<y, x>> \notin R /\ x \in Nat /\ y \in Nat
    BY <1>2
  <2>2. ~(y < x)
    BY <2>1
  <2> QED BY <2>1, <2>2
<1> QED BY <1>3

(* Induction over the naturals, for a set instead of a predicate. *)
LEMMA NatInd ==
  ASSUME NEW S, 0 \in S, \A n \in Nat : n \in S => n + 1 \in S
  PROVE Nat \subseteq S
<1> DEFINE T == Nat \ S
<1>1. SUFFICES ASSUME T # {} PROVE FALSE
  OBVIOUS
<1>2. PICK x \in T : \A y \in T : x <= y
  <2> HIDE DEF T
  <2> QED BY <1>1, LeastNat DEF T
<1>3. x # 0 /\ x - 1 \in Nat /\ x - 1 \notin T
  BY <1>2
<1> QED BY <1>2, <1>3

(* A function computed by going on to nxt[i] until one is in Stop.         *)
CanWalk(V, limit, base, nxt, G, Stop) ==
    /\ limit \in Nat
    /\ base \in [Nat -> V] /\ nxt \in [Nat -> Nat] /\ G \in [Nat \X V -> V]
    /\ \A i \in Nat : i >= limit => i \in Stop
    /\ \A i \in Nat \ Stop : nxt[i] > i
Walks(e, base, nxt, G, Stop) ==
    e = [i \in Nat |-> IF i \in Stop THEN base[i] ELSE G[<<i, e[nxt[i]]>>]]

(* There is such a function: every walk ends at the limit.                 *)
LEMMA Walk ==
  ASSUME NEW V, NEW L, NEW base, NEW nxt, NEW G, NEW Stop, CanWalk(V, L, base, nxt, G, Stop)
  PROVE  \E e \in [Nat -> V] : Walks(e, base, nxt, G, Stop)
<1> USE DEF CanWalk
<1> DEFINE val(e, i) == IF i \in Stop THEN base[i] ELSE G[<<i, e[nxt[i]]>>]
           Good(n) == \E e \in [Nat -> V] : \A i \in Nat : i + n >= L => e[i] = val(e, i)
           S == {n \in Nat : Good(n)}
<1>1. 0 \in S
  <2>1. \A i \in Nat : i + 0 >= L => base[i] = val(base, i)
    OBVIOUS
  <2> QED BY <2>1
<1>2. ASSUME NEW n \in Nat, n \in S PROVE n + 1 \in S
  <2>1. PICK e \in [Nat -> V] : \A i \in Nat : i + n >= L => e[i] = val(e, i)
    BY <1>2
  <2> DEFINE d == [i \in Nat |-> IF i + n >= L THEN e[i] ELSE val(e, i)]
  <2>2. \A i \in Nat : val(e, i) \in V
    OBVIOUS
  <2>3. d \in [Nat -> V]
    BY <2>2
  <2>4. ASSUME NEW i \in Nat, i + (n + 1) >= L PROVE d[i] = val(d, i)
    <3>1. d[i] = val(e, i)
      BY <2>1
    <3>2. i \notin Stop => nxt[i] \in Nat /\ nxt[i] + n >= L
      BY <2>4
    <3>3. i \notin Stop => d[nxt[i]] = e[nxt[i]]
      BY <3>2
    <3> QED BY <3>1, <3>3
  <2> HIDE DEF d
  <2> QED BY <2>3, <2>4
<1>3. L \in S
  <2> HIDE DEF S
  <2> QED BY <1>1, <1>2, NatInd
<1>4. PICK e \in [Nat -> V] : \A i \in Nat : i + L >= L => e[i] = val(e, i)
  BY <1>3
<1>5. e = [i \in Nat |-> val(e, i)]
  BY <1>4
<1> QED BY <1>5 DEF Walks

(* Induction over the subsets of a finite set. *)
LEMMA SubsetInd ==
  ASSUME NEW S, IsFiniteSet(S), NEW P,
         \A U \in SUBSET S : (\A V \in SUBSET U : V # U => V \in P) => U \in P
  PROVE  \A U \in SUBSET S : U \in P
<1> DEFINE T == (SUBSET S) \ P
           R == StrictSubsetOrdering(S)
<1>1. SUFFICES ASSUME T # {} PROVE FALSE
  OBVIOUS
<1>2. IsWellFoundedOn(R, SUBSET S)
  <2>1. IsWellFoundedOn(R, FiniteSubsetsOf(S))
    BY FS_StrictSubsetOrderingWellFounded
  <2>2. FiniteSubsetsOf(S) = SUBSET S
    BY FS_FiniteSubsetsOfFinite
  <2> QED BY <2>1, <2>2
<1>3. PICK U \in T : \A V \in T : <<V, U>> \notin R
  <2>1. T \subseteq SUBSET S
    OBVIOUS
  <2> HIDE DEF T, R
  <2> QED BY <1>1, <1>2, <2>1, WFMin
<1>4. ASSUME NEW V \in SUBSET U, V # U PROVE V \in P
  <2>1. V \in SUBSET S /\ U \in SUBSET S
    OBVIOUS
  <2>2. <<V, U>> \in R
    BY <1>4, <2>1 DEF StrictSubsetOrdering
  <2> QED BY <1>3, <2>1, <2>2
<1> QED BY <1>4

(* One step of the sum that MapThenSumSet computes.                        *)
SumStep(size, e, s) == IF s = {} THEN 0
                       ELSE size[CHOOSE x \in s : TRUE] + e[s \ {CHOOSE x \in s : TRUE}]
Sums(size, e, S) == e = [s \in SUBSET S |-> SumStep(size, e, s)]

(* There is such a function for every finite set ...                       *)
LEMMA SumExists ==
  ASSUME NEW S, IsFiniteSet(S), NEW size, \A x \in S : size[x] \in Nat
  PROVE  \E e \in [SUBSET S -> Nat] : Sums(size, e, S)
<1> DEFINE Good(n) == \E e \in [SUBSET S -> Nat] :
                         \A s \in SUBSET S : Cardinality(s) <= n => e[s] = SumStep(size, e, s)
           G == {n \in Nat : Good(n)}
<1>0. \A s \in SUBSET S : IsFiniteSet(s) /\ Cardinality(s) \in Nat
  BY FS_Subset, FS_CardinalityType
<1>1. 0 \in G
  <2> DEFINE e == [s \in SUBSET S |-> 0]
  <2>1. \A s \in SUBSET S : Cardinality(s) <= 0 => s = {}
    BY <1>0, FS_EmptySet
  <2>2. e \in [SUBSET S -> Nat]
    OBVIOUS
  <2>3. \A s \in SUBSET S : Cardinality(s) <= 0 => e[s] = SumStep(size, e, s)
    BY <2>1 DEF SumStep
  <2> HIDE DEF e
  <2> QED BY <2>2, <2>3
<1>2. ASSUME NEW n \in Nat, n \in G PROVE n + 1 \in G
  <2>1. PICK e \in [SUBSET S -> Nat] :
           \A s \in SUBSET S : Cardinality(s) <= n => e[s] = SumStep(size, e, s)
    BY <1>2
  <2>2. ASSUME NEW s \in SUBSET S, s # {}
        PROVE  LET c == CHOOSE x \in s : TRUE
               IN  c \in s /\ size[c] \in Nat /\ s \ {c} \in SUBSET S /\ Cardinality(s \ {c}) = Cardinality(s) - 1
    <3> DEFINE c == CHOOSE x \in s : TRUE
    <3>1. c \in s
      BY <2>2
    <3> HIDE DEF c
    <3>2. Cardinality(s \ {c}) = Cardinality(s) - 1
      BY <3>1, <1>0, FS_RemoveElement
    <3> QED BY <3>1, <3>2 DEF c
  <2>3. \A s \in SUBSET S : SumStep(size, e, s) \in Nat
    BY <2>2 DEF SumStep
  <2> DEFINE d == [s \in SUBSET S |-> IF Cardinality(s) <= n THEN e[s] ELSE SumStep(size, e, s)]
  <2>4. d \in [SUBSET S -> Nat]
    BY <2>3
  <2>5. ASSUME NEW s \in SUBSET S, Cardinality(s) <= n + 1 PROVE d[s] = SumStep(size, d, s)
    <3>1. d[s] = SumStep(size, e, s)
      BY <2>1
    <3>2. CASE s = {}
      BY <3>1, <3>2 DEF SumStep
    <3>3. CASE s # {}
      <4> DEFINE c == CHOOSE x \in s : TRUE
      <4>1. s \ {c} \in SUBSET S /\ Cardinality(s \ {c}) <= n
        BY <2>2, <2>5, <3>3, <1>0
      <4>2. d[s \ {c}] = e[s \ {c}]
        BY <4>1
      <4> HIDE DEF d
      <4> QED BY <3>1, <3>3, <4>2 DEF SumStep
    <3> QED BY <3>2, <3>3
  <2> HIDE DEF d
  <2> QED BY <2>4, <2>5
<1>3. Cardinality(S) \in G
  <2> HIDE DEF G
  <2> QED BY <1>0, <1>1, <1>2, NatInd
<1>4. PICK e \in [SUBSET S -> Nat] :
         \A s \in SUBSET S : Cardinality(s) <= Cardinality(S) => e[s] = SumStep(size, e, s)
  BY <1>3
<1>5. \A s \in SUBSET S : e[s] = SumStep(size, e, s)
  BY <1>4, FS_Subset
<1>6. e = [s \in SUBSET S |-> SumStep(size, e, s)]
  BY <1>5
<1> QED BY <1>6 DEF Sums

(* ... and it is the only one.                                             *)
LEMMA SumUnique ==
  ASSUME NEW S, IsFiniteSet(S), NEW size, NEW T \in SUBSET S,
         NEW d, Sums(size, d, T), NEW e, Sums(size, e, S)
  PROVE  d[T] = e[T]
<1> DEFINE P == {U \in SUBSET T : d[U] = e[U]}
<1>1. ASSUME NEW U \in SUBSET T, \A V \in SUBSET U : V # U => V \in P PROVE U \in P
  <2>1. d[U] = SumStep(size, d, U) /\ e[U] = SumStep(size, e, U)
    BY DEF Sums
  <2>2. CASE U = {}
    BY <2>1, <2>2 DEF SumStep
  <2>3. CASE U # {}
    <3> DEFINE c == CHOOSE x \in U : TRUE
    <3>1. c \in U
      BY <2>3
    <3>2. U \ {c} \in P
      <4> HIDE DEF c, P
      <4> QED BY <1>1, <3>1
    <3> QED BY <2>1, <2>3, <3>2 DEF SumStep
  <2> QED BY <2>2, <2>3
<1>2. IsFiniteSet(T)
  BY FS_Subset
<1>3. \A U \in SUBSET T : U \in P
  <2> HIDE DEF P
  <2> QED BY <1>1, <1>2, SubsetInd
<1> QED BY <1>3

(* So Total computes it, although it is written with CHOOSE.               *)
LEMMA TotalIs ==
  ASSUME NEW S, IsFiniteSet(S), NEW size, \A x \in S : size[x] \in Nat
  PROVE  \E e \in [SUBSET S -> Nat] : Sums(size, e, S) /\ Total(size, S) = e[S]
<1>1. PICK f \in [SUBSET S -> Nat] : Sums(size, f, S)
  BY SumExists
<1> DEFINE Eq(e) == e = [s \in SUBSET S |->
                           IF s = {} THEN 0
                           ELSE LET x == CHOOSE x \in s : TRUE IN size[x] + e[s \ {x}]]
           e == CHOOSE e : Eq(e)
<1>2. Eq(f)
  BY <1>1 DEF Sums, SumStep
<1>3. Eq(e)
  <2> HIDE DEF Eq
  <2> QED BY <1>2
<1>4. Total(size, S) = e[S]
  BY DEF Total, MapThenSumSet, MapThenFoldSet
<1>5. Sums(size, e, S)
  <2> HIDE DEF e
  <2> QED BY <1>3 DEF Sums, SumStep
<1>6. e[S] = f[S]
  <2> HIDE DEF e
  <2> QED BY <1>1, <1>5, SumUnique
<1> HIDE DEF e
<1> QED BY <1>1, <1>4, <1>6

(* A total of sizes is a number.                                           *)
LEMMA TotalIsNat ==
  ASSUME NEW S, IsFiniteSet(S), NEW size, \A x \in S : size[x] \in Nat
  PROVE  Total(size, S) \in Nat
<1>1. PICK e \in [SUBSET S -> Nat] : Sums(size, e, S) /\ Total(size, S) = e[S]
  BY TotalIs
<1> QED BY <1>1

(* Nothing takes no space.                                                 *)
LEMMA TotalEmpty == \A size : Total(size, {}) = 0
<1> SUFFICES ASSUME NEW size PROVE Total(size, {}) = 0
  OBVIOUS
<1>1. PICK e \in [SUBSET {} -> Nat] : Sums(size, e, {}) /\ Total(size, {}) = e[{}]
  BY TotalIs, FS_EmptySet
<1> QED BY <1>1 DEF Sums, SumStep

(* Any element can be taken first.                                         *)
LEMMA TotalTake ==
  ASSUME NEW S, IsFiniteSet(S), NEW size, \A x \in S : size[x] \in Nat, NEW y \in S
  PROVE  Total(size, S) = size[y] + Total(size, S \ {y})
<1> DEFINE P == {U \in SUBSET S : \A x \in U : Total(size, U) = size[x] + Total(size, U \ {x})}
<1>0. \A U \in SUBSET S : IsFiniteSet(U) /\ Total(size, U) \in Nat
  BY FS_Subset, TotalIsNat
<1>1. ASSUME NEW U \in SUBSET S, U # {}
      PROVE  LET c == CHOOSE x \in U : TRUE IN Total(size, U) = size[c] + Total(size, U \ {c})
  <2> DEFINE c == CHOOSE x \in U : TRUE
  <2>1. c \in U
    BY <1>1
  <2>2. PICK e \in [SUBSET U -> Nat] : Sums(size, e, U) /\ Total(size, U) = e[U]
    BY <1>0, TotalIs
  <2>3. e[U] = size[c] + e[U \ {c}]
    BY <2>2, <1>1 DEF Sums, SumStep
  <2> HIDE DEF c
  <2> DEFINE V == U \ {c}
  <2>4. IsFiniteSet(V) /\ V \in SUBSET U /\ \A x \in V : size[x] \in Nat
    BY <1>0
  <2>5. PICK d \in [SUBSET V -> Nat] : Sums(size, d, V) /\ Total(size, V) = d[V]
    <3> HIDE DEF V
    <3> QED BY <2>4, TotalIs
  <2>6. d[V] = e[V]
    <3> HIDE DEF V
    <3> QED BY <1>0, <2>2, <2>4, <2>5, SumUnique
  <2> QED BY <2>2, <2>3, <2>5, <2>6 DEF c
<1>2. ASSUME NEW U \in SUBSET S, \A V \in SUBSET U : V # U => V \in P PROVE U \in P
  <2>1. SUFFICES ASSUME NEW x \in U PROVE Total(size, U) = size[x] + Total(size, U \ {x})
    OBVIOUS
  <2> DEFINE c == CHOOSE z \in U : TRUE
  <2>2. c \in U /\ Total(size, U) = size[c] + Total(size, U \ {c})
    BY <1>1
  <2> HIDE DEF c
  <2>3. CASE x = c
    BY <2>2, <2>3
  <2>4. CASE x # c
    <3>1. U \ {c} \in P /\ U \ {x} \in P
      <4> HIDE DEF P
      <4>1. U \ {c} \in SUBSET U /\ U \ {c} # U /\ U \ {x} \in SUBSET U /\ U \ {x} # U
        BY <2>2
      <4> QED BY <1>2, <4>1
    <3>2. Total(size, U \ {c}) = size[x] + Total(size, (U \ {c}) \ {x})
      BY <3>1, <2>4
    <3>3. Total(size, U \ {x}) = size[c] + Total(size, (U \ {x}) \ {c})
      BY <3>1, <2>2, <2>4
    <3>4. (U \ {x}) \ {c} = (U \ {c}) \ {x}
      OBVIOUS
    <3>5. /\ Total(size, (U \ {c}) \ {x}) \in Nat
          /\ size[x] \in Nat /\ size[c] \in Nat
      BY <1>0, <2>2
    <3> HIDE DEF P
    <3>6. \A a, b \in Nat, t \in Nat : a + (b + t) = b + (a + t)
      OBVIOUS
    <3> QED BY <2>2, <3>2, <3>3, <3>4, <3>5, <3>6
  <2> QED BY <2>3, <2>4
<1>3. \A U \in SUBSET S : U \in P
  <2> HIDE DEF P
  <2> QED BY <1>2, SubsetInd
<1> QED BY <1>3

(* Totals of the same sizes under other names are the same.                *)
LEMMA TotalRenamed ==
  ASSUME NEW S, IsFiniteSet(S), NEW size, \A x \in S : size[x] \in Nat,
         NEW T, NEW other, NEW f \in [S -> T],
         \A y \in T : \E x \in S : f[x] = y,
         \A x, z \in S : f[x] = f[z] => x = z,
         \A x \in S : other[f[x]] = size[x]
  PROVE  IsFiniteSet(T) /\ Total(other, T) = Total(size, S)
<1> DEFINE Img(U) == {f[x] : x \in U}
           P == {U \in SUBSET S : IsFiniteSet(Img(U)) /\ Total(other, Img(U)) = Total(size, U)}
<1>1. ASSUME NEW U \in SUBSET S, \A V \in SUBSET U : V # U => V \in P PROVE U \in P
  <2>1. CASE U = {}
    BY <2>1, TotalEmpty, FS_EmptySet
  <2>2. CASE U # {}
    <3>1. PICK x \in U : TRUE
      BY <2>2
    <3> DEFINE V == U \ {x}
    <3>2. V \in P
      <4> HIDE DEF P
      <4> QED BY <1>1, <3>1
    <3>3. Img(U) = Img(V) \cup {f[x]} /\ f[x] \notin Img(V)
      OBVIOUS
    <3>4. Img(U) \ {f[x]} = Img(V)
      BY <3>3
    <3>5. IsFiniteSet(Img(U))
      <4>1. IsFiniteSet(Img(V))
        BY <3>2
      <4> HIDE DEF Img, V
      <4> QED BY <3>3, <4>1, FS_AddElement
    <3>6. \A y \in Img(U) : other[y] \in Nat
      OBVIOUS
    <3>7. Total(other, Img(U)) = other[f[x]] + Total(other, Img(U) \ {f[x]})
      <4>1. f[x] \in Img(U)
        OBVIOUS
      <4> HIDE DEF Img
      <4> QED BY <4>1, <3>5, <3>6, TotalTake
    <3>8. Total(size, U) = size[x] + Total(size, U \ {x})
      BY FS_Subset, TotalTake
    <3> QED BY <3>2, <3>4, <3>5, <3>7, <3>8
  <2> QED BY <2>1, <2>2
<1>2. S \in P
  <2> HIDE DEF P
  <2> QED BY <1>1, SubsetInd
<1>3. Img(S) = T
  OBVIOUS
<1> QED BY <1>2, <1>3

(* Only the sizes of the elements matter.                                  *)
LEMMA TotalSame ==
  ASSUME NEW S, IsFiniteSet(S), NEW size, \A x \in S : size[x] \in Nat,
         NEW other, \A x \in S : other[x] = size[x]
  PROVE  Total(other, S) = Total(size, S)
<1> DEFINE f == [x \in S |-> x]
<1>1. /\ f \in [S -> S]
      /\ \A y \in S : \E x \in S : f[x] = y
      /\ \A x, z \in S : f[x] = f[z] => x = z
      /\ \A x \in S : other[f[x]] = size[x]
  OBVIOUS
<1> HIDE DEF f
<1> QED BY <1>1, TotalRenamed

-----------------------------------------------------------------------------
(* The scans.                                                              *)

(* The length field of a word is a number.                                 *)
LEMMA Lengths ==
    /\ \A s \in SUBSET LenBits : LenValue[s] \in Nat
    /\ \A w \in Word : /\ CONFIG_LENGTH(w) \in Nat
                       /\ CONFIG_TOTLEN(w) = 1 + CONFIG_LENGTH(w)
                       /\ CONFIG_TOTLEN(w) \in Nat \ {0}
<1>1. ASSUME NEW s \in SUBSET LenBits PROVE LenValue[s] \in Nat
  <2> DEFINE weight == [b \in LenBits |-> b]
  <2>1. IsFiniteSet(s) /\ \A b \in s : weight[b] \in Nat
    BY WordAssumption, FS_Subset
  <2>2. LenValue[s] = Total(weight, s)
    BY DEF LenValue
  <2> HIDE DEF weight
  <2> QED BY <2>1, <2>2, TotalIsNat
<1>2. ASSUME NEW w \in Word PROVE LenValue[w.len] \in Nat
  BY <1>1 DEF Word
<1> QED BY <1>1, <1>2 DEF CONFIG_LENGTH, CONFIG_TOTLEN

Pages == [Offsets -> Word]

(* ScanEnd follows the entries of a page, word for word as it is written.  *)
LEMMA ScanRec ==
  ASSUME NEW ws \in Pages, NEW limit \in {AreaWords, AreaWords - 1}
  PROVE  \E e :
           /\ ScanEnd(ws, limit) = e[0]
           /\ \A i \in Nat : e[i] = IF i >= limit \/ ws[i].key = CONFIG_KEY_UNPROGRAMMED
                                     THEN i ELSE e[i + CONFIG_TOTLEN(ws[i])]
<1> DEFINE Stop == {i \in Nat : i >= limit \/ ws[i].key = CONFIG_KEY_UNPROGRAMMED}
           base == [i \in Nat |-> i]
           nxt == [i \in Nat |-> IF i \in Stop THEN i ELSE i + CONFIG_TOTLEN(ws[i])]
           G == [p \in Nat \X Nat |-> p[2]]
           Eq(e) == e = [i \in Nat |-> IF i >= limit \/ ws[i].key = CONFIG_KEY_UNPROGRAMMED
                                        THEN i ELSE e[i + CONFIG_TOTLEN(ws[i])]]
           e == CHOOSE e : Eq(e)
<1>0. limit \in Nat /\ limit <= AreaWords
  BY AreaAssumption
<1>1. \A i \in Nat \ Stop : CONFIG_TOTLEN(ws[i]) \in Nat \ {0}
  BY <1>0, AreaAssumption, Lengths DEF Offsets, Pages
<1>2. \E f \in [Nat -> Nat] : Walks(f, base, nxt, G, Stop)
  <2>1. /\ base \in [Nat -> Nat] /\ nxt \in [Nat -> Nat]
        /\ G \in [Nat \X Nat -> Nat] /\ Stop \in SUBSET Nat
    BY <1>1
  <2>2. \A i \in Nat : i >= limit => i \in Stop
    OBVIOUS
  <2>3. \A i \in Nat \ Stop : nxt[i] > i
    BY <1>1
  <2> HIDE DEF Stop, base, nxt, G
  <2>4. CanWalk(Nat, limit, base, nxt, G, Stop)
    BY <2>1, <2>2, <2>3, <1>0 DEF CanWalk
  <2> QED BY <2>4, Walk
<1>3. PICK f \in [Nat -> Nat] : f = [i \in Nat |-> IF i \in Stop THEN base[i] ELSE G[<<i, f[nxt[i]]>>]]
  <2> HIDE DEF Stop, base, nxt, G
  <2> QED BY <1>2 DEF Walks
<1>4. Eq(f)
  <2>1. ASSUME NEW i \in Nat PROVE f[i] = IF i \in Stop THEN i ELSE f[i + CONFIG_TOTLEN(ws[i])]
    <3>1. f[i] = IF i \in Stop THEN base[i] ELSE G[<<i, f[nxt[i]]>>]
      BY <1>3
    <3>2. nxt[i] \in Nat /\ f[nxt[i]] \in Nat
      BY <1>1
    <3> QED BY <3>1, <3>2
  <2>2. f = [i \in Nat |-> IF i \in Stop THEN i ELSE f[i + CONFIG_TOTLEN(ws[i])]]
    BY <2>1
  <2> QED BY <2>2
<1>5. Eq(e)
  <2> HIDE DEF Eq
  <2> QED BY <1>4
<1>6. ScanEnd(ws, limit) = e[0]
  BY DEF ScanEnd
<1> HIDE DEF e
<1> QED BY <1>5, <1>6

(* So does Headers, which collects them.                                   *)
LEMMA HeadersRec ==
  ASSUME NEW ws \in Pages
  PROVE  \E e :
           /\ Headers(ws) = e[0]
           /\ \A i \in Nat : e[i] = IF i >= AreaWords - 1 \/ ws[i].key = CONFIG_KEY_UNPROGRAMMED
                                     THEN {} ELSE {i} \cup e[i + CONFIG_TOTLEN(ws[i])]
<1> DEFINE Stop == {i \in Nat : i >= AreaWords - 1 \/ ws[i].key = CONFIG_KEY_UNPROGRAMMED}
           base == [i \in Nat |-> {}]
           nxt == [i \in Nat |-> IF i \in Stop THEN i ELSE i + CONFIG_TOTLEN(ws[i])]
           G == [p \in Nat \X SUBSET Nat |-> {p[1]} \cup p[2]]
           Eq(e) == e = [i \in Nat |-> IF i >= AreaWords - 1 \/ ws[i].key = CONFIG_KEY_UNPROGRAMMED
                                        THEN {} ELSE {i} \cup e[i + CONFIG_TOTLEN(ws[i])]]
           e == CHOOSE e : Eq(e)
<1>1. \A i \in Nat \ Stop : CONFIG_TOTLEN(ws[i]) \in Nat \ {0}
  BY AreaAssumption, Lengths DEF Offsets, Pages
<1>2. \E f \in [Nat -> SUBSET Nat] : Walks(f, base, nxt, G, Stop)
  <2>1. /\ base \in [Nat -> SUBSET Nat] /\ nxt \in [Nat -> Nat]
        /\ G \in [Nat \X SUBSET Nat -> SUBSET Nat] /\ Stop \in SUBSET Nat
    BY <1>1
  <2>2. AreaWords \in Nat /\ \A i \in Nat : i >= AreaWords => i \in Stop
    BY AreaAssumption
  <2>3. \A i \in Nat \ Stop : nxt[i] > i
    BY <1>1
  <2> HIDE DEF Stop, base, nxt, G
  <2>4. CanWalk(SUBSET Nat, AreaWords, base, nxt, G, Stop)
    BY <2>1, <2>2, <2>3 DEF CanWalk
  <2> QED BY <2>4, Walk
<1>3. PICK f \in [Nat -> SUBSET Nat] :
         f = [i \in Nat |-> IF i \in Stop THEN base[i] ELSE G[<<i, f[nxt[i]]>>]]
  <2> HIDE DEF Stop, base, nxt, G
  <2> QED BY <1>2 DEF Walks
<1>4. Eq(f)
  <2>1. ASSUME NEW i \in Nat
        PROVE  f[i] = IF i \in Stop THEN {} ELSE {i} \cup f[i + CONFIG_TOTLEN(ws[i])]
    <3>1. f[i] = IF i \in Stop THEN base[i] ELSE G[<<i, f[nxt[i]]>>]
      BY <1>3
    <3>2. nxt[i] \in Nat /\ f[nxt[i]] \in SUBSET Nat
      BY <1>1
    <3>3. G[<<i, f[nxt[i]]>>] = {i} \cup f[nxt[i]]
      <4> HIDE DEF nxt
      <4> QED BY <3>2
    <3> QED BY <3>1, <3>3
  <2>2. f = [i \in Nat |-> IF i \in Stop THEN {} ELSE {i} \cup f[i + CONFIG_TOTLEN(ws[i])]]
    BY <2>1
  <2> QED BY <2>2
<1>5. Eq(e)
  <2> HIDE DEF Eq
  <2> QED BY <1>4
<1>6. Headers(ws) = e[0]
  BY DEF Headers
<1> HIDE DEF e
<1>7. \A i \in Nat : e[i] = IF i >= AreaWords - 1 \/ ws[i].key = CONFIG_KEY_UNPROGRAMMED
                           THEN {} ELSE {i} \cup e[i + CONFIG_TOTLEN(ws[i])]
  BY <1>5
<1> QED BY <1>6, <1>7

(* A log: the entries with their headers at H, up to the unprogrammed word *)
(* at e.                                                                   *)
Skip(ws, i) == i + CONFIG_TOTLEN(ws[i])
IsLog(ws, H, e) ==
    /\ e \in Offsets /\ ws[e].key = CONFIG_KEY_UNPROGRAMMED
    /\ H \subseteq 0 .. e - 1
    /\ 0 \in H \cup {e}
    /\ \A i \in H : /\ ws[i].key # CONFIG_KEY_UNPROGRAMMED
                    /\ Skip(ws, i) \in H \cup {e}
                    /\ \A j \in H : i < j => Skip(ws, i) <= j

(* What the functions of config.c find in a log.                           *)
LEMMA LogScan ==
  ASSUME NEW ws \in Pages, NEW H, NEW e, IsLog(ws, H, e)
  PROVE  /\ ScanEnd(ws, AreaWords) = e
         /\ ScanEnd(ws, AreaWords - 1) = e
         /\ Headers(ws) = H
<1>0. /\ e \in Nat /\ e <= AreaWords - 1 /\ AreaWords \in Nat
      /\ ws[e].key = CONFIG_KEY_UNPROGRAMMED
      /\ \A i \in H : /\ i \in Nat /\ i < e /\ ws[i].key # CONFIG_KEY_UNPROGRAMMED
                      /\ CONFIG_TOTLEN(ws[i]) \in Nat \ {0}
                      /\ Skip(ws, i) \in H \cup {e}
                      /\ \A j \in H : i < j => Skip(ws, i) <= j
      /\ 0 \in H \cup {e}
  BY AreaAssumption, Lengths DEF IsLog, Offsets, Pages
<1>1. ASSUME NEW limit \in {AreaWords, AreaWords - 1} PROVE ScanEnd(ws, limit) = e
  <2>1. PICK f : /\ ScanEnd(ws, limit) = f[0]
                 /\ \A i \in Nat : f[i] = IF i >= limit \/ ws[i].key = CONFIG_KEY_UNPROGRAMMED
                                           THEN i ELSE f[i + CONFIG_TOTLEN(ws[i])]
    BY ScanRec
  <2> DEFINE S == {n \in Nat : \A i \in H \cup {e} : e - i <= n => f[i] = e}
  <2>2. 0 \in S
    <3>1. f[e] = e
      BY <1>0, <2>1
    <3> QED BY <1>0, <3>1
  <2>3. ASSUME NEW n \in Nat, n \in S PROVE n + 1 \in S
    <3>1. ASSUME NEW i \in H, e - i <= n + 1 PROVE f[i] = e
      <4>1. f[i] = f[Skip(ws, i)]
        BY <1>0, <2>1 DEF Skip
      <4>2. Skip(ws, i) \in H \cup {e} /\ e - Skip(ws, i) <= n
        BY <1>0, <3>1 DEF Skip
      <4> QED BY <4>1, <4>2, <2>3
    <3>2. f[e] = e
      BY <1>0, <2>1
    <3> QED BY <3>1, <3>2
  <2>4. e \in S
    <3> HIDE DEF S
    <3> QED BY <1>0, <2>2, <2>3, NatInd
  <2> QED BY <1>0, <2>1, <2>4
<1>2. Headers(ws) = H
  <2>1. PICK f : /\ Headers(ws) = f[0]
                 /\ \A i \in Nat : f[i] = IF i >= AreaWords - 1 \/ ws[i].key = CONFIG_KEY_UNPROGRAMMED
                                           THEN {} ELSE {i} \cup f[i + CONFIG_TOTLEN(ws[i])]
    BY HeadersRec
  <2> DEFINE From(i) == {j \in H : j >= i}
             S == {n \in Nat : \A i \in H \cup {e} : e - i <= n => f[i] = From(i)}
  <2>2. f[e] = From(e)
    <3>1. From(e) = {}
      BY <1>0
    <3> QED BY <1>0, <2>1, <3>1
  <2>3. 0 \in S
    <3>1. \A i \in H \cup {e} : e - i <= 0 => i = e
      BY <1>0
    <3> HIDE DEF From
    <3> QED BY <3>1, <2>2
  <2>4. ASSUME NEW n \in Nat, n \in S PROVE n + 1 \in S
    <3>1. ASSUME NEW i \in H, e - i <= n + 1 PROVE f[i] = From(i)
      <4>1. f[i] = {i} \cup f[Skip(ws, i)]
        <5>1. i \in Nat /\ ~(i >= AreaWords - 1 \/ ws[i].key = CONFIG_KEY_UNPROGRAMMED)
          BY <1>0
        <5> QED BY <5>1, <2>1 DEF Skip
      <4>2. Skip(ws, i) \in H \cup {e} /\ e - Skip(ws, i) <= n
        BY <1>0, <3>1 DEF Skip
      <4>3. f[Skip(ws, i)] = From(Skip(ws, i))
        BY <4>2, <2>4
      <4>4. From(i) = {i} \cup From(Skip(ws, i))
        BY <1>0 DEF Skip
      <4> QED BY <4>1, <4>3, <4>4
    <3> HIDE DEF From
    <3> QED BY <3>1, <2>2
  <2>5. e \in S
    <3> HIDE DEF S
    <3> QED BY <1>0, <2>3, <2>4, NatInd
  <2>6. f[0] = From(0)
    BY <1>0, <2>5
  <2>7. From(0) = H
    BY <1>0
  <2> QED BY <2>1, <2>6, <2>7
<1> QED BY <1>1, <1>2

-----------------------------------------------------------------------------
(* Logs.                                                                   *)

End(ws)       == ScanEnd(ws, AreaWords)
Log(ws)       == ws \in Pages /\ IsLog(ws, Headers(ws), End(ws))
Tidy(ws)      == \A i \in Headers(ws) :
                   /\ ws[i].key \in Keys \cup {CONFIG_KEY_INVALID}
                   /\ \A j \in Headers(ws) :
                        ws[i].key = ws[j].key /\ ws[i].key # CONFIG_KEY_INVALID => i = j
Clean(ws)     == FreeErased(ws, End(ws))
Lacks(ws, k)  == \A i \in Headers(ws) : ws[i].key # k
HasDead(ws)   == \E i \in Headers(ws) : ws[i].key = CONFIG_KEY_INVALID

(* An erased word reads as the end of a log, and is neither a deleted      *)
(* entry nor a key.                                                        *)
LEMMA ErasedWord == Erased \in Word /\ Erased.key = CONFIG_KEY_UNPROGRAMMED
                    /\ CONFIG_KEY_UNPROGRAMMED # CONFIG_KEY_INVALID
                    /\ \A k \in Keys : k # CONFIG_KEY_UNPROGRAMMED /\ k # CONFIG_KEY_INVALID
                                       /\ k \in SUBSET KeyBits
BY WordAssumption DEF Erased, Word, CONFIG_KEY_UNPROGRAMMED, CONFIG_KEY_INVALID

(* A page of that form is a log, whatever the scans are.                   *)
LEMMA LogIs ==
  ASSUME NEW ws \in Pages, NEW H, NEW e, IsLog(ws, H, e)
  PROVE  Log(ws) /\ Headers(ws) = H /\ End(ws) = e
BY LogScan DEF Log, End

(* Where the entries of a log lie, and what config_findfree finds behind   *)
(* them.                                                                   *)
LEMMA LogFacts ==
  ASSUME NEW ws, Log(ws)
  PROVE  /\ AreaWords \in Nat \ {0}
         /\ ws \in Pages
         /\ \A i \in Offsets : ws[i] \in Word
         /\ End(ws) \in Nat /\ End(ws) <= AreaWords - 1 /\ End(ws) \in Offsets
         /\ ws[End(ws)].key = CONFIG_KEY_UNPROGRAMMED
         /\ ScanEnd(ws, AreaWords - 1) = End(ws)
         /\ config_findfree(ws) = IF End(ws) < AreaWords - 1 THEN End(ws) ELSE -1
         /\ 0 \in Headers(ws) \cup {End(ws)}
         /\ \A i \in Headers(ws) :
              /\ i \in Nat /\ i < End(ws) /\ i \in Offsets
              /\ ws[i] \in Word
              /\ ws[i].key # CONFIG_KEY_UNPROGRAMMED
              /\ CONFIG_LENGTH(ws[i]) \in Nat
              /\ CONFIG_TOTLEN(ws[i]) = 1 + CONFIG_LENGTH(ws[i])
              /\ Skip(ws, i) \in Headers(ws) \cup {End(ws)}
              /\ Skip(ws, i) = i + 1 + CONFIG_LENGTH(ws[i])
              /\ Skip(ws, i) <= End(ws)
              /\ \A j \in Headers(ws) : i < j => Skip(ws, i) <= j
<1> DEFINE H == Headers(ws)
           e == End(ws)
<1>1. ws \in Pages /\ IsLog(ws, H, e) /\ AreaWords \in Nat \ {0}
  BY AreaAssumption DEF Log
<1>2. ScanEnd(ws, AreaWords - 1) = e
  BY <1>1, LogScan DEF End
<1> HIDE DEF H, e
<1>3. /\ e \in Nat /\ e <= AreaWords - 1 /\ e \in Offsets /\ 0 \in H \cup {e}
      /\ ws[e].key = CONFIG_KEY_UNPROGRAMMED
      /\ \A i \in Offsets : ws[i] \in Word
  BY <1>1 DEF IsLog, Offsets, Pages
<1>4. config_findfree(ws) = IF e < AreaWords - 1 THEN e ELSE -1
  BY <1>2 DEF config_findfree
<1>5. ASSUME NEW i \in H
      PROVE  /\ i \in Nat /\ i < e /\ i \in Offsets
             /\ ws[i] \in Word
             /\ ws[i].key # CONFIG_KEY_UNPROGRAMMED
             /\ CONFIG_LENGTH(ws[i]) \in Nat
             /\ CONFIG_TOTLEN(ws[i]) = 1 + CONFIG_LENGTH(ws[i])
             /\ Skip(ws, i) \in H \cup {e}
             /\ Skip(ws, i) = i + 1 + CONFIG_LENGTH(ws[i])
             /\ Skip(ws, i) <= e
             /\ \A j \in H : i < j => Skip(ws, i) <= j
  <2>1. i \in 0 .. e - 1
    BY <1>1 DEF IsLog
  <2>2. i \in Nat /\ i < e /\ i \in Offsets
    BY <2>1, <1>1, <1>3 DEF Offsets
  <2>3. /\ CONFIG_LENGTH(ws[i]) \in Nat /\ ws[i] \in Word
        /\ CONFIG_TOTLEN(ws[i]) = 1 + CONFIG_LENGTH(ws[i])
    BY <1>3, <2>2, Lengths
  <2>4. /\ Skip(ws, i) \in H \cup {e} /\ ws[i].key # CONFIG_KEY_UNPROGRAMMED
        /\ \A j \in H : i < j => Skip(ws, i) <= j
    BY <1>1 DEF IsLog
  <2>5. Skip(ws, i) = i + 1 + CONFIG_LENGTH(ws[i])
    BY <2>2, <2>3 DEF Skip
  <2>6. \A j \in H : j \in 0 .. e - 1
    BY <1>1 DEF IsLog
  <2>7. Skip(ws, i) <= e
    BY <2>4, <2>6, <1>3
  <2> QED BY <2>2, <2>3, <2>4, <2>5, <2>7
<1> QED BY <1>1, <1>2, <1>3, <1>4, <1>5 DEF H, e

(* Words that are no header can be programmed, and headers too if neither  *)
(* their length changes nor their being one.                               *)
LEMMA LogKept ==
  ASSUME NEW ws, Log(ws), NEW vs \in Pages,
         \A i \in Headers(ws) : /\ vs[i].len = ws[i].len
                                /\ vs[i].key # CONFIG_KEY_UNPROGRAMMED,
         vs[End(ws)].key = CONFIG_KEY_UNPROGRAMMED
  PROVE  Log(vs) /\ Headers(vs) = Headers(ws) /\ End(vs) = End(ws)
<1> DEFINE H == Headers(ws)
           e == End(ws)
<1>1. IsLog(ws, H, e)
  BY DEF Log
<1>2. \A i \in H : Skip(vs, i) = Skip(ws, i)
  BY DEF Skip, CONFIG_TOTLEN, CONFIG_LENGTH
<1>3. IsLog(vs, H, e)
  BY <1>1, <1>2 DEF IsLog
<1> HIDE DEF H, e
<1> QED BY <1>3, LogIs DEF H, e

(* A header at the end of a log adds an entry.                             *)
LEMMA LogGrows ==
  ASSUME NEW ws, Log(ws), NEW vs \in Pages,
         \A i \in Headers(ws) : vs[i] = ws[i],
         vs[End(ws)].key # CONFIG_KEY_UNPROGRAMMED,
         Skip(vs, End(ws)) \in Offsets,
         vs[Skip(vs, End(ws))].key = CONFIG_KEY_UNPROGRAMMED
  PROVE  /\ Log(vs)
         /\ Headers(vs) = Headers(ws) \cup {End(ws)}
         /\ End(vs) = Skip(vs, End(ws))
<1> DEFINE H == Headers(ws)
           e == End(ws)
           e2 == Skip(vs, e)
<1>1. IsLog(ws, H, e)
  BY DEF Log
<1>2. \A i \in H : Skip(vs, i) = Skip(ws, i)
  BY DEF Skip
<1>3. e \in Nat /\ e \in Offsets /\ e2 \in Nat /\ e < e2
  <2>1. e \in Offsets /\ e \in Nat
    BY LogFacts
  <2>2. CONFIG_TOTLEN(vs[e]) \in Nat \ {0}
    BY <2>1, Lengths DEF Pages
  <2> QED BY <2>1, <2>2 DEF Skip
<1>4. IsLog(vs, H \cup {e}, e2)
  <2> HIDE DEF H, e, e2
  <2>1. \A i \in H : i \in Nat /\ i < e /\ Skip(ws, i) \in H \cup {e} /\ Skip(ws, i) <= e
    BY LogFacts DEF H, e
  <2>2. H \cup {e} \subseteq 0 .. e2 - 1
    BY <2>1, <1>3
  <2>3. e2 \in Offsets /\ vs[e2].key = CONFIG_KEY_UNPROGRAMMED
    BY DEF e2, e
  <2>4. 0 \in (H \cup {e}) \cup {e2}
    BY <1>1 DEF IsLog
  <2>5. ASSUME NEW i \in H \cup {e}
        PROVE  /\ vs[i].key # CONFIG_KEY_UNPROGRAMMED
               /\ Skip(vs, i) \in (H \cup {e}) \cup {e2}
               /\ \A j \in H \cup {e} : i < j => Skip(vs, i) <= j
    <3>1. CASE i = e
      <4>1. \A j \in H \cup {e} : ~(i < j)
        BY <3>1, <2>1, <1>3
      <4> QED BY <3>1, <4>1 DEF e, e2
    <3>2. CASE i \in H
      <4>1. vs[i].key # CONFIG_KEY_UNPROGRAMMED
        BY <3>2, <1>1 DEF IsLog, H
      <4>2. Skip(vs, i) = Skip(ws, i)
        BY <3>2, <1>2
      <4>3. \A j \in H : i < j => Skip(ws, i) <= j
        BY <3>2, <1>1 DEF IsLog
      <4> QED BY <3>2, <4>1, <4>2, <4>3, <2>1
    <3> QED BY <3>1, <3>2
  <2> QED BY <2>2, <2>3, <2>4, <2>5 DEF IsLog
<1> HIDE DEF H, e, e2
<1> QED BY <1>4, LogIs DEF H, e, e2

(* An erased page is an empty log.                                         *)
LEMMA LogBlank ==
  /\ Blank.words \in Pages /\ Log(Blank.words) /\ Tidy(Blank.words) /\ Clean(Blank.words)
  /\ Headers(Blank.words) = {} /\ End(Blank.words) = 0
  /\ \A i \in Offsets : Blank.words[i] = Erased
<1> DEFINE ws == [i \in Offsets |-> Erased]
<1>1. Blank.words = ws
  BY DEF Blank
<1>2. ws \in Pages /\ \A i \in Offsets : ws[i] = Erased
  BY ErasedWord DEF Pages
<1>3. 0 \in Offsets
  BY AreaAssumption DEF Offsets
<1> HIDE DEF ws
<1>4. IsLog(ws, {}, 0)
  BY <1>2, <1>3, ErasedWord DEF IsLog
<1>5. Log(ws) /\ Headers(ws) = {} /\ End(ws) = 0
  BY <1>2, <1>4, LogIs
<1> QED BY <1>1, <1>2, <1>5 DEF Tidy, Clean, FreeErased

(* What a function of config.c finds under a key.                          *)
Data(ws, i) == [d \in 1 .. CONFIG_LENGTH(ws[i]) |-> ws[i + d]]

(* A key with an entry is found there, and its value is the data behind    *)
(* the header.                                                             *)
LEMMA FindEntry ==
  ASSUME NEW ws, Log(ws), Tidy(ws), NEW k \in Keys, NEW i \in Headers(ws), ws[i].key = k
  PROVE  /\ config_find(ws, k) = i
         /\ config_get(ws, k) = Data(ws, i)
         /\ config_space_used_by_key(ws, k) = CONFIG_TOTLEN(ws[i])
<1>1. {j \in Headers(ws) : ws[j].key = k} = {i}
  BY ErasedWord DEF Tidy
<1>2. /\ i \in Nat /\ CONFIG_LENGTH(ws[i]) \in Nat /\ AreaWords \in Nat
      /\ End(ws) \in Nat
      /\ i + 1 + CONFIG_LENGTH(ws[i]) <= End(ws) /\ End(ws) <= AreaWords - 1
  BY LogFacts
<1>3. Min({i}) = i
  <2>1. i <= i
    BY <1>2
  <2> QED BY <2>1 DEF Min
<1>4. config_find(ws, k) = i
  BY <1>1, <1>3 DEF config_find
<1>5. \A d \in 1 .. CONFIG_LENGTH(ws[i]) : (i + 1) + d - 1 = i + d /\ i + d \in Offsets
  <2>1. PICK n \in Nat, e \in Int : n = CONFIG_LENGTH(ws[i]) /\ e = End(ws)
    BY <1>2
  <2>2. i + 1 + n <= e /\ e <= AreaWords - 1
    BY <1>2, <2>1
  <2>3. \A d \in 1 .. n : (i + 1) + d - 1 = i + d /\ i + d \in 0 .. AreaWords - 1
    BY <1>2, <2>2
  <2> QED BY <2>1, <2>3 DEF Offsets
<1>6. WordsAt(ws, i + 1, CONFIG_LENGTH(ws[i])) = Data(ws, i)
  BY <1>5 DEF WordsAt, WordAt, Data
<1> QED BY <1>2, <1>4, <1>6 DEF config_get, config_space_used_by_key

(* A key without one is not found.                                         *)
LEMMA FindNone ==
  ASSUME NEW ws, NEW k, Lacks(ws, k)
  PROVE  /\ config_find(ws, k) = -1
         /\ config_get(ws, k) = NoValue
         /\ config_space_used_by_key(ws, k) = 0
<1>1. {j \in Headers(ws) : ws[j].key = k} = {}
  BY DEF Lacks
<1>2. config_find(ws, k) = -1
  BY <1>1 DEF config_find
<1> QED BY <1>2 DEF config_get, config_space_used_by_key

-----------------------------------------------------------------------------
(* The magic words of the two pages.                                       *)

(* The pages that must have their magic word: the page in use once config_init *)
(* has settled, and the other one from when config_compact starts to copy.     *)
Formatted ==
    /\ phase \notin {"off", "format"} => flash[config_area].magic = "magic"
    /\ phase = "copy" => flash[Other(config_area)].magic = "magic"

(* What the argument needs of the types. *)
PagesOK == /\ flash \in [Areas -> Page]
           /\ config_area \in Areas
           /\ after \in {"idle", "replace"}

PageInv == PagesOK /\ Formatted

(* The two pages are each other's other. *)
LEMMA OtherArea ==
    ASSUME NEW a \in Areas
    PROVE  /\ Other(a) \in Areas
           /\ Other(a) # a
           /\ Other(Other(a)) = a
           /\ \A b \in Areas : b = a \/ b = Other(a)
BY DEF Areas, Other

(* An erased page is a page without its magic word.                        *)
LEMMA BlankPage == Blank \in Page /\ Blank.magic = "erased"
BY DEF Blank, Page, Erased, Word

(* Programming a word clears bits at most, and leaves the magic word. *)
LEMMA FlashWriteKeepsMagic ==
    ASSUME flash \in [Areas -> Page], flash_write
    PROVE  /\ flash' \in [Areas -> Page]
           /\ \A a \in Areas : flash'[a].magic = flash[a].magic
<1> DEFINE w == Head(queue)
           wordOf(a) == Program(flash[a].words[w.at], w.word)
<1>1. flash' = [flash EXCEPT ![w.area].words[w.at] = Program(@, w.word)]
  BY DEF flash_write
<1>2. CASE w.area \notin Areas
  <2>1. flash' = flash
    BY <1>1, <1>2
  <2> QED BY <2>1
<1>3. CASE w.area \in Areas
  <2> DEFINE a == w.area
             ws == [flash[a].words EXCEPT ![w.at] = wordOf(a)]
  <2>1. flash[a] \in Page
    BY <1>3
  <2>2. flash[a].words \in [Offsets -> Word]
    BY <2>1 DEF Page
  <2>3. w.at \in Offsets => wordOf(a) \in Word
    BY <2>2 DEF Program, Word
  <2>4. ws \in [Offsets -> Word]
    BY <2>2, <2>3
  <2> HIDE DEF wordOf, ws
  <2>5. [flash[a] EXCEPT !.words = ws] \in Page
    BY <2>1, <2>4 DEF Page
  <2>6. [flash[a] EXCEPT !.words = ws].magic = flash[a].magic
    BY <2>1 DEF Page
  <2>7. flash' = [flash EXCEPT ![a] = [flash[a] EXCEPT !.words = ws]]
    BY <1>1 DEF ws, wordOf
  <2> HIDE DEF a
  <2> QED BY <1>3, <2>5, <2>6, <2>7 DEF a
<1> QED BY <1>2, <1>3

(* Setting a magic word keeps the pages pages. *)
LEMMA SetMagic ==
    ASSUME flash \in [Areas -> Page],
           NEW a \in Areas, NEW m \in {"erased", "magic", "null"},
           flash' = [flash EXCEPT ![a].magic = m]
    PROVE  /\ flash' \in [Areas -> Page]
           /\ flash'[a].magic = m
           /\ flash'[a].words = flash[a].words
           /\ \A b \in Areas : b # a => flash'[b] = flash[b]
<1>1. flash[a] \in Page
  OBVIOUS
<1>2. /\ [flash[a] EXCEPT !.magic = m] \in Page /\ [flash[a] EXCEPT !.magic = m].magic = m
      /\ [flash[a] EXCEPT !.magic = m].words = flash[a].words
  BY <1>1 DEF Page
<1> QED BY <1>2

(* Erasing a page leaves the other one.                                    *)
LEMMA SetBlank ==
    ASSUME flash \in [Areas -> Page], NEW a \in Areas,
           flash' = [flash EXCEPT ![a] = Blank]
    PROVE  /\ flash' \in [Areas -> Page]
           /\ \A b \in Areas : b # a => flash'[b] = flash[b]
BY BlankPage

(* The firmware starts with two erased pages.                              *)
LEMMA PageInit == Init => PageInv
BY BlankPage DEF Init, PageInv, PagesOK, Formatted, Areas

(* What KeepsAFormattedPage says of one step. *)
Kept == \A a \in Areas : flash[a].magic = "magic" /\ flash'[a].magic # "magic"
          => flash'[Other(a)].magic = "magic" \/ ChosenArea(flash) = 0

(* config_init uses a valid page when there is one. *)
LEMMA ValidChosen ==
    /\ \A page : config_valid(page) => page.magic = "magic"
    /\ (\A a \in Areas : config_valid(flash[a])) => ChosenArea(flash) \in Areas
<1>1. ASSUME NEW page, config_valid(page) PROVE page.magic = "magic"
  BY <1>1 DEF config_valid
<1>2. ASSUME \A a \in Areas : config_valid(flash[a]) PROVE ChosenArea(flash) \in Areas
  <2>1. config_valid(flash[1]) /\ config_valid(flash[2])
    BY <1>2 DEF Areas
  <2> QED BY <2>1 DEF ChosenArea, Areas
<1> QED BY <1>1, <1>2

(* The steps that leave the magic words alone, and do not begin to rely on one. *)
LEMMA QuietStep ==
    ASSUME PageInv,
           flash' \in [Areas -> Page],
           \A a \in Areas : flash'[a].magic = flash[a].magic,
           config_area' = config_area,
           after' \in {"idle", "replace"},
           phase' \notin {"off", "format"} => phase \notin {"off", "format"},
           phase' = "copy" => phase = "copy"
    PROVE  PageInv' /\ Kept
BY OtherArea DEF PageInv, PagesOK, Formatted, Kept

(* config_init: the page it settles on has its magic word. *)
LEMMA StartUpStep ==
    ASSUME PageInv, InitFormat \/ config_init_area \/ InitOne \/ InitBoth
    PROVE  PageInv' /\ Kept
<1> USE DEF PageInv, PagesOK
<1>1. CASE InitFormat
  <2>1. flash' = [flash EXCEPT ![1] = Blank] /\ 1 \in Areas
    BY <1>1 DEF InitFormat, Areas
  <2>2. flash' \in [Areas -> Page]
    BY <2>1, SetBlank
  <2> QED BY <1>1, <2>1, <2>2 DEF InitFormat, Formatted, Kept
<1>2. CASE config_init_area
  <2>1. flash' = [flash EXCEPT ![config_area].magic = "magic"]
    BY <1>2 DEF config_init_area
  <2>2. /\ flash' \in [Areas -> Page]
        /\ flash'[config_area].magic = "magic"
        /\ \A b \in Areas : b # config_area => flash'[b] = flash[b]
    BY <2>1, SetMagic
  <2> QED BY <1>2, <2>2 DEF config_init_area, Formatted, Kept, ram
<1>3. CASE InitOne
  <2>1. PICK a \in Areas : config_valid(flash[a]) /\ config_area' = a
    BY <1>3 DEF InitOne
  <2>2. flash[a].magic = "magic"
    BY <2>1, ValidChosen
  <2> QED BY <1>3, <2>1, <2>2 DEF InitOne, Formatted, Kept
<1>4. CASE InitBoth
  <2> DEFINE a == ChosenArea(flash)
  <2>1. a \in Areas /\ flash[a].magic = "magic"
    BY <1>4, ValidChosen DEF InitBoth
  <2>2. /\ config_area' = a
        /\ flash' = [flash EXCEPT ![Other(a)] = Blank]
        /\ phase' \in {"idle", "erase"}
        /\ after' = "idle"
    BY <1>4 DEF InitBoth
  <2> HIDE DEF a
  <2>3. flash' \in [Areas -> Page] /\ flash'[a] = flash[a]
    BY <2>1, <2>2, OtherArea, SetBlank
  <2>4. PageInv'
    BY <2>1, <2>2, <2>3 DEF Formatted
  <2>5. Kept
    BY <2>1, <2>3, OtherArea DEF Kept
  <2> QED BY <2>4, <2>5
<1> QED BY <1>1, <1>2, <1>3, <1>4

(* config_compact: the old page keeps its magic word until the new one has its. *)
LEMMA CompactStep ==
    ASSUME PageInv, CompactErase \/ CompactMagic \/ CompactCopy \/ CompactRetire
    PROVE  PageInv' /\ Kept
<1> USE DEF PageInv, PagesOK
<1> DEFINE old == config_area
           new == Other(config_area)
<1>0. old \in Areas /\ new \in Areas /\ new # old
      /\ Other(new) = old /\ \A b \in Areas : b = old \/ b = new
  BY OtherArea
<1>1. CASE CompactErase
  <2>1. flash[old].magic = "magic" /\ phase' = "magic" /\ config_area' = old /\ after' = after
    BY <1>1 DEF CompactErase, Formatted, ram
  <2>2. flash' \in [Areas -> Page] /\ flash'[old] = flash[old]
    <3>1. CASE flash' = flash
      BY <3>1
    <3>2. CASE flash' = [flash EXCEPT ![new] = Blank]
      <4>1. /\ flash' \in [Areas -> Page]
            /\ \A b \in Areas : b # new => flash'[b] = flash[b]
        BY <3>2, <1>0, SetBlank
      <4> QED BY <4>1, <1>0
    <3> QED BY <1>1, <3>1, <3>2 DEF CompactErase
  <2> QED BY <1>0, <2>1, <2>2 DEF Formatted, Kept
<1>2. CASE CompactMagic
  <2>1. /\ flash' = [flash EXCEPT ![new].magic = "magic"]
        /\ flash[old].magic = "magic"
        /\ config_area' = old
        /\ after' = after
    BY <1>2 DEF CompactMagic, Formatted
  <2>2. /\ flash' \in [Areas -> Page]
        /\ flash'[new].magic = "magic"
        /\ flash'[old] = flash[old]
    BY <1>0, <2>1, SetMagic
  <2> QED BY <1>0, <2>1, <2>2 DEF Formatted, Kept
<1>3. CASE CompactCopy
  BY <1>3, QuietStep DEF CompactCopy
<1>4. CASE CompactRetire
  <2>1. /\ flash' = [flash EXCEPT ![old].magic = "null"]
        /\ flash[new].magic = "magic"
        /\ config_area' = new
        /\ phase' = after
        /\ after' = after
    BY <1>4 DEF CompactRetire, Formatted
  <2>2. flash' \in [Areas -> Page] /\ flash'[new] = flash[new]
    BY <1>0, <2>1, SetMagic
  <2> QED BY <1>0, <2>1, <2>2 DEF Formatted, Kept
<1> QED BY <1>1, <1>2, <1>3, <1>4

(* config_put, config_delete, the words they program, and the loss of power. *)
LEMMA OperationStep ==
    ASSUME PageInv,
           \/ \E k \in Keys, v \in Values : PutAtOnce(k, v) \/ PutBegin(k, v)
           \/ PutWrite \/ PutCompact \/ PutReturn
           \/ \E k \in Keys : config_delete(k)
           \/ DeleteReturn \/ flash_write \/ PowerLoss
    PROVE  PageInv' /\ Kept
<1> USE DEF PageInv, PagesOK
<1>1. ASSUME NEW k \in Keys, NEW v \in Values, PutAtOnce(k, v) PROVE PageInv' /\ Kept
  BY <1>1, QuietStep DEF PutAtOnce, ram
<1>2. ASSUME NEW k \in Keys, NEW v \in Values, PutBegin(k, v) PROVE PageInv' /\ Kept
  BY <1>2, QuietStep DEF PutBegin, ram
<1>3. CASE PutWrite
  BY <1>3, QuietStep DEF PutWrite, ram
<1>4. CASE PutCompact
  BY <1>4, QuietStep DEF PutCompact
<1>5. CASE PutReturn
  BY <1>5, QuietStep DEF PutReturn, Return, ram
<1>6. ASSUME NEW k \in Keys, config_delete(k) PROVE PageInv' /\ Kept
  BY <1>6, QuietStep DEF config_delete, ram
<1>7. CASE DeleteReturn
  BY <1>7, QuietStep DEF DeleteReturn, Return, ram
<1>8. CASE flash_write
  BY <1>8, FlashWriteKeepsMagic, QuietStep DEF flash_write, ram
<1>9. CASE PowerLoss
  BY <1>9 DEF PowerLoss, Formatted, Kept, Areas
<1> QED BY <1>1, <1>2, <1>3, <1>4, <1>5, <1>6, <1>7, <1>8, <1>9

(* Every step keeps the magic words, and gives none up for nothing.        *)
LEMMA PageStep == PageInv /\ [Next]_vars => PageInv' /\ Kept
<1>1. ASSUME PageInv, Next PROVE PageInv' /\ Kept
  BY <1>1, StartUpStep, CompactStep, OperationStep DEF Next
<1>2. ASSUME PageInv, UNCHANGED vars PROVE PageInv' /\ Kept
  BY <1>2, QuietStep DEF vars, PageInv, PagesOK
<1> QED BY <1>1, <1>2

-----------------------------------------------------------------------------
(* The invariant of the store.                                             *)

W(a) == flash[a].words
Spare(a) == flash[Other(a)].words

(* Every formatted page holds a log with at most one entry for a key, and  *)
(* nothing behind it but what config_put is writing.                       *)
Logs == \A a \in Areas : flash[a].magic = "magic" =>
          /\ Log(W(a)) /\ Tidy(W(a))
          /\ Clean(W(a)) \/ (phase = "write" /\ a = config_area)

(* There is one formatted page, except during a compaction and after a     *)
(* power loss in one; then the copy has room left.                         *)
Alone == /\ phase \notin {"off", "copy"} => flash[Other(config_area)].magic # "magic"
         /\ phase = "off" => \E a \in Areas : flash[a].magic = "magic" => End(W(a)) < AreaWords - 1
         /\ phase = "format" => flash[config_area] = Blank
         /\ phase = "magic" => flash[Other(config_area)] = Blank

Jobs == /\ phase \in {"idle", "off", "format"} => key = CONFIG_KEY_INVALID /\ value = NoValue
        /\ phase \in {"place", "erase", "magic", "copy", "replace", "write"}
             => key \in Keys /\ value \in Values
        /\ phase = "delete" => key \in Keys /\ value = NoValue
        /\ phase \in {"erase", "magic", "copy"} => after = "replace" /\ HasDead(Live)
        /\ phase \notin {"place", "delete", "write", "copy"} => queue = << >>

(* config_delete, also the one config_put calls.                           *)
Deleting ==
    /\ phase \in {"place", "delete"} =>
         IF queue = << >>
         THEN Lacks(Live, key) /\ (phase = "place" => Room \/ HasDead(Live))
         ELSE \E i \in Headers(Live) : /\ Live[i].key = key
                                       /\ queue = <<Write(config_area, i, NullKey)>>
    /\ phase \in {"erase", "magic", "copy", "replace"} => Lacks(Live, key)

(* config_put with n words of the value programmed, and when it is done.   *)
Appending(ws, n) ==
    LET free == End(ws)
    IN  /\ Lacks(ws, key)
        /\ n \in 0 .. Len(value)
        /\ free + Len(value) + 1 <= AreaWords - 1
        /\ Len(queue) = Len(value) + 1 - n
        /\ \A j \in 1 .. Len(value) - n : queue[j] = Write(config_area, free + n + j, value[n + j])
        /\ queue[Len(value) + 1 - n] = Write(config_area, free, Header(key, Len(value)))
        /\ \A d \in 1 .. n : ws[free + d] = value[d]
        /\ \A i \in Offsets : i = free \/ i > free + n => ws[i] = Erased

Appended(ws) == \E i \in Headers(ws) : /\ ws[i] = Header(key, Len(value))
                                       /\ \A d \in 1 .. Len(value) : ws[i + d] = value[d]

Writing == phase = "write" => IF queue = << >> THEN Clean(Live) /\ Appended(Live)
                              ELSE \E n \in Nat : Appending(Live, n)

(* config_compact has copied the entries of ws before the one at i; they   *)
(* are the entries of vs before p.                                         *)
Same(ws, i, vs, j) == \A d \in 0 .. CONFIG_LENGTH(ws[i]) : vs[j + d] = ws[i + d]
Copied(ws, i, vs, p) ==
    /\ i \in Headers(ws) \cup {End(ws)} /\ p \in Offsets /\ p <= i
    /\ p < i \/ \E g \in Headers(ws) : g >= i /\ ws[g].key = CONFIG_KEY_INVALID
    /\ \A h \in Headers(ws) : h < i /\ ws[h].key # CONFIG_KEY_INVALID
                                => \E j \in Headers(vs) : j < p /\ Same(ws, h, vs, j)
    /\ \A j \in Headers(vs) : j < p =>
         \E h \in Headers(ws) : h < i /\ ws[h].key # CONFIG_KEY_INVALID /\ Same(ws, h, vs, j)

(* c words of the entry at i have been programmed at p ...                 *)
Partly(ws, i, vs, p, c) ==
    /\ \A d \in 0 .. c - 1 : vs[p + d] = ws[i + d]
    /\ \A k \in Offsets : k >= p + c => vs[k] = Erased
    /\ \A j \in Headers(vs) : j < p \/ (c > 0 /\ j = p)
    /\ c > 0 => p \in Headers(vs)
    /\ End(vs) = IF c = 0 THEN p ELSE p + CONFIG_TOTLEN(ws[i])

(* ... and the others wait.                                                *)
InCopy(ws, i, vs, p, c) ==
    LET total == CONFIG_TOTLEN(ws[i])
    IN  /\ i \in Headers(ws) /\ ws[i].key # CONFIG_KEY_INVALID
        /\ offset = i + total /\ new_offset = p + total
        /\ c \in 0 .. total - 1
        /\ Len(queue) = total - c
        /\ \A j \in 1 .. total - c : queue[j] = Write(Other(config_area), p + c + j - 1, ws[i + c + j - 1])
        /\ Partly(ws, i, vs, p, c)

Copying ==
    phase = "copy" =>
      IF queue = << >>
      THEN /\ Copied(Live, offset, Spare(config_area), new_offset)
           /\ End(Spare(config_area)) = new_offset
      ELSE \E i, p, c \in Nat : /\ Copied(Live, i, Spare(config_area), p)
                                /\ InCopy(Live, i, Spare(config_area), p, c)

StoreInv == Logs /\ Alone /\ Jobs /\ Deleting /\ Writing /\ Copying

(* A page that is a log when it is formatted is valid exactly when it is.  *)
LEMMA Valid ==
  ASSUME NEW page, page.magic = "magic" => Log(page.words)
  PROVE  config_valid(page) <=> page.magic = "magic"
<1>1. page.magic = "magic" => ScanEnd(page.words, AreaWords) < AreaWords
  BY LogFacts DEF End
<1> QED BY <1>1 DEF config_valid

(* Once the pages are logs, a valid page is a formatted one.               *)
LEMMA ValidPages ==
  ASSUME Logs, flash \in [Areas -> Page]
  PROVE  /\ \A a \in Areas : config_valid(flash[a]) <=> flash[a].magic = "magic"
         /\ ChosenArea(flash) = 0 => \A a \in Areas : flash[a].magic # "magic"
         /\ \A a \in Areas : flash[a].magic = "magic" /\ flash[Other(a)].magic # "magic"
              => ChosenArea(flash) = a
         /\ (\A a \in Areas : flash[a].magic = "magic") =>
              /\ ChosenArea(flash) \in Areas
              /\ config_findfree(W(ChosenArea(flash))) >= config_findfree(W(Other(ChosenArea(flash))))
              /\ \A a \in Areas : config_findfree(W(a)) > config_findfree(W(Other(a)))
                    => ChosenArea(flash) = a
<1>1. \A a \in Areas : config_valid(flash[a]) <=> flash[a].magic = "magic"
  BY Valid DEF Logs, W
<1>2. /\ config_valid(flash[1]) <=> flash[1].magic = "magic"
      /\ config_valid(flash[2]) <=> flash[2].magic = "magic"
  BY <1>1 DEF Areas
<1>3. ASSUME \A a \in Areas : flash[a].magic = "magic"
      PROVE  \A a \in Areas : config_findfree(W(a)) \in Int
  BY <1>3, LogFacts DEF Logs
<1>4. Areas = {1, 2} /\ Other(1) = 2 /\ Other(2) = 1
  BY DEF Areas, Other
<1>5. ASSUME \A a \in Areas : flash[a].magic = "magic"
      PROVE  ChosenArea(flash) = IF config_findfree(W(1)) >= config_findfree(W(2)) THEN 1 ELSE 2
  <2>1. config_valid(flash[1]) /\ config_valid(flash[2])
    BY <1>1, <1>4, <1>5
  <2> QED BY <2>1 DEF ChosenArea, W
<1>6. ChosenArea(flash) = 0 => \A a \in Areas : flash[a].magic # "magic"
  <2>1. CASE config_valid(flash[1]) \/ config_valid(flash[2])
    BY <2>1 DEF ChosenArea
  <2>2. CASE ~config_valid(flash[1]) /\ ~config_valid(flash[2])
    BY <2>2, <1>2, <1>4
  <2> QED BY <2>1, <2>2
<1>7. ASSUME NEW a \in Areas, flash[a].magic = "magic", flash[Other(a)].magic # "magic"
      PROVE  ChosenArea(flash) = a
  <2>1. config_valid(flash[a]) /\ ~config_valid(flash[Other(a)])
    BY <1>1, <1>4, <1>7
  <2>2. CASE a = 1
    BY <2>1, <2>2, <1>4 DEF ChosenArea
  <2>3. CASE a = 2
    BY <2>1, <2>3, <1>4 DEF ChosenArea
  <2> QED BY <2>2, <2>3, <1>4
<1> QED BY <1>1, <1>3, <1>4, <1>5, <1>6, <1>7

(* The words of a page are words.                                          *)
LEMMA PagesAre ==
  ASSUME flash \in [Areas -> Page], NEW a \in Areas
  PROVE  flash[a].words \in Pages /\ \A i \in Offsets : flash[a].words[i] \in Word
BY DEF Page, Pages

(* The commands of a write are a sequence.                                 *)
Queued == queue \in Seq([area : Areas, at : Nat, word : Word])

StoreNow == PageInv /\ StoreInv /\ Queued

(* A step that leaves the pages alone, outside config_put's and            *)
(* config_compact's writes.                                                *)
LEMMA PagesSame ==
  ASSUME Logs, flash' = flash, phase # "write", phase' # "write"
  PROVE  Logs'
BY DEF Logs, W

(* config_init erases page 1 ...                                           *)
LEMMA InitFormatStore ==
  ASSUME StoreNow, InitFormat PROVE StoreInv'
<1> USE DEF StoreNow, PageInv, PagesOK, StoreInv
<1>1. /\ phase = "off" /\ phase' = "format" /\ config_area' = 1 /\ queue' = queue
      /\ flash' = [flash EXCEPT ![1] = Blank] /\ key' = key /\ value' = value
      /\ \A a \in Areas : flash[a].magic # "magic"
  BY ValidPages DEF InitFormat, job
<1>2. /\ flash'[1] = Blank /\ 1 \in Areas
      /\ \A a \in Areas : flash'[a].magic # "magic"
  BY <1>1, BlankPage DEF Areas
<1>3. Logs'
  BY <1>2 DEF Logs
<1>4. Alone'
  <2>1. Other(1) \in Areas
    BY <1>2, OtherArea
  <2> QED BY <1>1, <1>2, <2>1 DEF Alone
<1>5. Jobs'
  BY <1>1 DEF Jobs
<1> QED BY <1>1, <1>3, <1>4, <1>5 DEF Deleting, Writing, Copying

(* ... and formats it: an empty store.                                     *)
LEMMA InitAreaStore ==
  ASSUME StoreNow, config_init_area PROVE StoreInv'
<1> USE DEF StoreNow, PageInv, PagesOK, StoreInv
<1>1. /\ phase = "format" /\ phase' = "idle" /\ config_area' = config_area /\ queue' = queue
      /\ flash' = [flash EXCEPT ![config_area].magic = "magic"]
      /\ key' = key /\ value' = value
  BY DEF config_init_area, job, ram
<1>2. /\ flash'[config_area].words = Blank.words
      /\ \A b \in Areas : b # config_area => flash'[b].magic # "magic"
  BY <1>1, SetMagic, OtherArea DEF Alone
<1>3. Logs'
  BY <1>1, <1>2, LogBlank DEF Logs, W
<1>4. Alone'
  BY <1>1, <1>2, OtherArea DEF Alone
<1>5. Jobs'
  BY <1>1 DEF Jobs
<1> QED BY <1>1, <1>3, <1>4, <1>5 DEF Deleting, Writing, Copying

(* The page that config_init finds is a log with nothing behind it.        *)
LEMMA InitOneStore ==
  ASSUME StoreNow, InitOne PROVE StoreInv'
<1> USE DEF StoreNow, PageInv, PagesOK, StoreInv
<1>1. /\ phase = "off" /\ phase' = "idle" /\ flash' = flash /\ queue' = queue
      /\ key' = key /\ value' = value
  BY DEF InitOne, job
<1>2. PICK a \in Areas : /\ config_area' = a /\ flash[Other(a)].magic # "magic"
  BY OtherArea, ValidPages DEF InitOne
<1>3. Logs'
  BY <1>1, PagesSame
<1>4. Alone'
  BY <1>1, <1>2 DEF Alone
<1>5. Jobs'
  BY <1>1 DEF Jobs
<1> QED BY <1>1, <1>3, <1>4, <1>5 DEF Deleting, Writing, Copying

(* With both pages formatted, the one config_init keeps has room left and  *)
(* nothing in it, so that it is not compacted.                             *)
LEMMA InitBothKeeps ==
  ASSUME StoreNow, InitBoth
  PROVE  /\ ChosenArea(flash) \in Areas
         /\ \A a \in Areas : flash[a].magic = "magic"
         /\ phase' = "idle"
<1> USE DEF StoreNow, PageInv, PagesOK, StoreInv
<1> DEFINE a == ChosenArea(flash)
<1>1. \A b \in Areas : flash[b].magic = "magic"
  BY ValidPages DEF InitBoth
<1>2. a \in Areas /\ config_findfree(W(a)) >= config_findfree(W(Other(a)))
  BY <1>1, ValidPages
<1> HIDE DEF a
<1>3. phase = "off" /\ phase' = IF config_freespacevalid(flash[a].words) THEN "idle" ELSE "erase"
  BY DEF InitBoth, a
<1>4. PICK b \in Areas : End(W(b)) < AreaWords - 1
  BY <1>1, <1>3 DEF Alone
<1>5. Log(W(a)) /\ Log(W(b)) /\ Log(W(Other(a))) /\ Clean(W(a))
  BY <1>1, <1>2, <1>3, OtherArea DEF Logs
<1>6. config_findfree(W(b)) >= 0
  BY <1>4, <1>5, LogFacts
<1>7. b = a \/ b = Other(a)
  BY <1>2, OtherArea
<1>8. config_findfree(W(a)) \in Int /\ config_findfree(W(Other(a))) \in Int
  BY <1>5, LogFacts
<1>9. config_findfree(W(a)) >= 0
  BY <1>2, <1>6, <1>7, <1>8
<1>10. config_findfree(W(a)) = End(W(a))
  BY <1>5, <1>9, LogFacts
<1>11. config_freespacevalid(W(a))
  BY <1>5, <1>9, <1>10 DEF config_freespacevalid, Clean
<1> QED BY <1>1, <1>2, <1>3, <1>11 DEF a, W

(* So is the page it keeps of two.                                         *)
LEMMA InitBothStore ==
  ASSUME StoreNow, InitBoth PROVE StoreInv'
<1> USE DEF StoreNow, PageInv, PagesOK, StoreInv
<1>1. PICK a \in Areas : a = ChosenArea(flash)
  BY InitBothKeeps
<1>2. /\ phase = "off" /\ phase' = "idle" /\ queue' = queue /\ config_area' = a
      /\ flash' = [flash EXCEPT ![Other(a)] = Blank]
      /\ key' = key /\ value' = value
  BY <1>1, InitBothKeeps DEF InitBoth, job
<1>3. flash'[a] = flash[a] /\ flash'[Other(a)].magic # "magic" /\ flash[a].magic = "magic"
  BY <1>1, <1>2, OtherArea, BlankPage, InitBothKeeps
<1>4. Logs'
  <2>1. Log(W(a)) /\ Tidy(W(a)) /\ Clean(W(a))
    BY <1>2, <1>3 DEF Logs
  <2> QED BY <1>3, <2>1, OtherArea DEF Logs, W
<1>5. Alone'
  BY <1>2, <1>3 DEF Alone
<1>6. Jobs'
  BY <1>2 DEF Jobs
<1> QED BY <1>2, <1>4, <1>5, <1>6 DEF Deleting, Writing, Copying

(* The page in use stays as it is when the other one is erased ...         *)
LEMMA CompactEraseStore ==
  ASSUME StoreNow, CompactErase PROVE StoreInv'
<1> USE DEF StoreNow, PageInv, PagesOK, StoreInv
<1> DEFINE new == Other(config_area)
<1>1. /\ phase = "erase" /\ phase' = "magic" /\ queue' = queue
      /\ config_area' = config_area /\ after' = after /\ key' = key /\ value' = value
  BY DEF CompactErase, ram, job
<1>2. flash[config_area].magic = "magic" /\ ~config_empty
  BY <1>1, BlankPage DEF Formatted, config_empty
<1>3. flash' = [flash EXCEPT ![new] = Blank]
  BY <1>2 DEF CompactErase
<1>4. new \in Areas /\ new # config_area /\ flash'[config_area] = flash[config_area] /\ flash'[new] = Blank
      /\ \A b \in Areas : b = config_area \/ b = new
  BY <1>3, OtherArea
<1>5. Logs'
  <2>1. Log(W(config_area)) /\ Tidy(W(config_area)) /\ Clean(W(config_area))
    BY <1>1, <1>2 DEF Logs
  <2> QED BY <1>1, <1>4, <2>1, BlankPage DEF Logs, W
<1>6. Alone'
  BY <1>1, <1>4, BlankPage DEF Alone
<1>7. Jobs'
  BY <1>1, <1>4 DEF Jobs, Live
<1>8. Deleting'
  BY <1>1, <1>4 DEF Deleting, Live
<1> QED BY <1>1, <1>5, <1>6, <1>7, <1>8 DEF Writing, Copying

(* ... and gets its magic word: nothing is copied yet.                     *)
LEMMA CompactMagicStore ==
  ASSUME StoreNow, CompactMagic PROVE StoreInv'
<1> USE DEF StoreNow, PageInv, PagesOK, StoreInv
<1> DEFINE new == Other(config_area)
<1>1. /\ phase = "magic" /\ phase' = "copy" /\ queue' = queue
      /\ config_area' = config_area /\ after' = after /\ key' = key /\ value' = value
      /\ offset' = 0 /\ new_offset' = 0
      /\ flash' = [flash EXCEPT ![new].magic = "magic"]
  BY DEF CompactMagic, job
<1>2. new \in Areas /\ new # config_area /\ \A b \in Areas : b = config_area \/ b = new
  BY OtherArea
<1>3. /\ flash'[config_area] = flash[config_area]
      /\ flash'[new].words = Blank.words
  BY <1>1, <1>2, SetMagic DEF Alone
<1>4. flash[config_area].magic = "magic" /\ queue = << >>
  BY <1>1 DEF Formatted, Jobs
<1>5. Log(Live) /\ Tidy(Live) /\ Clean(Live)
  BY <1>1, <1>4 DEF Logs, W, Live
<1>6. Logs'
  BY <1>1, <1>2, <1>3, <1>5, LogBlank DEF Logs, W, Live
<1>7. Alone'
  BY <1>1, <1>3, LogBlank DEF Alone
<1>8. Jobs'
  BY <1>1, <1>3, <1>4 DEF Jobs, Live
<1>9. Deleting'
  BY <1>1, <1>3 DEF Deleting, Live
<1>10. Copying'
  <2>1. Live' = Live /\ Spare(config_area)' = Blank.words
    BY <1>1, <1>3 DEF Live, Spare
  <2>2. PICK g \in Headers(Live) : Live[g].key = CONFIG_KEY_INVALID
    BY <1>1 DEF Jobs, HasDead
  <2>3. g >= 0 /\ 0 \in Headers(Live) \cup {End(Live)} /\ 0 \in Offsets
        /\ \A h \in Headers(Live) : ~(h < 0)
    BY <1>5, LogFacts, AreaAssumption DEF Offsets
  <2>4. Copied(Live, 0, Blank.words, 0)
    BY <2>2, <2>3, LogBlank DEF Copied
  <2>5. queue' = << >>
    BY <1>1, <1>4
  <2> QED BY <1>1, <2>1, <2>4, <2>5, LogBlank DEF Copying
<1> QED BY <1>1, <1>6, <1>7, <1>8, <1>9, <1>10 DEF Writing

(* The entries of a log fill it up to its end.                             *)
LEMMA LogTotal ==
  ASSUME NEW ws, Log(ws)
  PROVE  /\ IsFiniteSet(Headers(ws))
         /\ TotalLength(ws, Headers(ws)) = End(ws)
<1> DEFINE size == [i \in Offsets |-> CONFIG_TOTLEN(ws[i])]
           H == Headers(ws)
           From(i) == {j \in H : j >= i}
<1>1. PICK e \in Nat : e = End(ws)
  BY LogFacts
<1>2. \A i \in H : /\ i \in Nat /\ i < e /\ Skip(ws, i) \in H \cup {e} /\ Skip(ws, i) <= e
                   /\ size[i] \in Nat \ {0} /\ Skip(ws, i) = i + size[i]
                   /\ \A j \in H : i < j => Skip(ws, i) <= j
                   /\ Skip(ws, i) \in Nat
  <2>1. ASSUME NEW i \in H PROVE size[i] = 1 + CONFIG_LENGTH(ws[i])
    BY LogFacts
  <2> HIDE DEF size
  <2> QED BY <1>1, <2>1, LogFacts
<1>3. 0 \in H \cup {e}
  BY <1>1, LogFacts
<1>4. TotalLength(ws, H) = Total(size, H)
  BY DEF TotalLength
<1> HIDE DEF size
<1>5. IsFiniteSet(H)
  <2>1. H \in SUBSET Nat /\ \A i \in H : i <= e
    BY <1>2
  <2> HIDE DEF H
  <2> QED BY <2>1, FS_BoundedSetOfNaturals
<1>6. \A i \in Nat : IsFiniteSet(From(i)) /\ \A j \in From(i) : size[j] \in Nat
  <2>1. \A i \in Nat : From(i) \in SUBSET H
    OBVIOUS
  <2> HIDE DEF H
  <2> QED BY <1>2, <1>5, <2>1, FS_Subset DEF H
<1> DEFINE S == {n \in Nat : \A i \in H \cup {e} : e - i <= n => Total(size, From(i)) = e - i}
<1>7. From(e) = {} /\ Total(size, From(e)) = 0
  <2>1. From(e) = {}
    BY <1>2
  <2> QED BY <2>1, TotalEmpty
<1>8. 0 \in S
  <2>1. \A i \in H \cup {e} : e - i <= 0 => i = e
    <3> HIDE DEF H
    <3>1. \A i \in H : i \in Nat /\ i < e
      BY <1>2
    <3>2. e \in Nat
      BY <1>1
    <3>3. ASSUME NEW i \in H PROVE ~(e - i <= 0)
      BY <3>1, <3>2, SMT
    <3> QED BY <3>3
  <2>2. Total(size, From(e)) = e - e
    BY <1>7
  <2> HIDE DEF From, H
  <2>3. ASSUME NEW i \in H \cup {e}, e - i <= 0 PROVE Total(size, From(i)) = e - i
    BY <2>1, <2>2, <2>3
  <2> QED BY <2>3
<1>9. ASSUME NEW n \in Nat, n \in S PROVE n + 1 \in S
  <2>1. ASSUME NEW i \in H, e - i <= n + 1 PROVE Total(size, From(i)) = e - i
    <3> DEFINE k == Skip(ws, i)
    <3>1. k \in H \cup {e} /\ k \in Nat /\ e - k <= n /\ k = i + size[i] /\ i \in Nat /\ size[i] \in Nat
      BY <1>2, <2>1
    <3>2. Total(size, From(k)) = e - k
      BY <3>1, <1>9
    <3>3. From(i) \ {i} = From(k) /\ i \in From(i)
      BY <1>2
    <3> HIDE DEF From, k
    <3>4. Total(size, From(i)) = size[i] + Total(size, From(k))
      BY <1>6, <3>1, <3>3, TotalTake
    <3> QED BY <3>1, <3>2, <3>4
  <2>2. Total(size, From(e)) = e - e
    BY <1>7
  <2> HIDE DEF From
  <2> QED BY <2>1, <2>2
<1>10. e \in S
  <2> HIDE DEF S
  <2> QED BY <1>8, <1>9, NatInd
<1>11. Total(size, From(0)) = e
  BY <1>3, <1>10
<1>12. From(0) = H
  BY <1>2
<1> QED BY <1>1, <1>4, <1>5, <1>11, <1>12

(* Values are sequences of words, and none is the absence of a value.      *)
LEMMA ValuesAre == \A v \in Values : v \in Seq(Word) /\ Len(v) \in Nat /\ v # NoValue
BY WordAssumption, NoValueAssumption

(* config_put's write of a deletion.                                       *)
LEMMA DeletionIs ==
  ASSUME Log(Live), Tidy(Live), NEW k \in Keys
  PROVE  \/ Lacks(Live, k) /\ Deletion(k) = << >>
         \/ \E i \in Headers(Live) : /\ Live[i].key = k
                                     /\ Deletion(k) = <<Write(config_area, i, NullKey)>>
                                     /\ config_find(Live, k) = i
<1>1. CASE Lacks(Live, k)
  BY <1>1, FindNone DEF Deletion
<1>2. CASE ~Lacks(Live, k)
  <2>1. PICK i \in Headers(Live) : Live[i].key = k
    BY <1>2 DEF Lacks
  <2>2. config_find(Live, k) = i /\ i \in Nat
    BY <2>1, FindEntry, LogFacts
  <2>3. ~(config_find(Live, k) < 0)
    BY <2>2
  <2>4. Deletion(k) = <<Write(config_area, i, NullKey)>>
    BY <2>2, <2>3 DEF Deletion
  <2> QED BY <2>1, <2>2, <2>4
<1> QED BY <1>1, <1>2

(* When nothing in a page is deleted, what fits has room at its end.       *)
LEMMA FitsHasRoom ==
  ASSUME Log(Live), NEW k, Lacks(Live, k), NEW v \in Values, Fits(k, v), ~HasDead(Live)
  PROVE  CONFIG_SPACE_FOR_KEY(config_findfree(Live), Len(v))
<1>1. LiveHeaders(Live) = Headers(Live)
  BY DEF LiveHeaders, HasDead
<1>2. config_freespace(Live) = AreaWords - 1 - End(Live)
  BY <1>1, LogTotal DEF config_freespace
<1>3. config_space_used_by_key(Live, k) = 0
  BY FindNone
<1>4. /\ End(Live) \in Nat /\ AreaWords \in Nat /\ Len(v) \in Nat
      /\ config_findfree(Live) = IF End(Live) < AreaWords - 1 THEN End(Live) ELSE -1
  BY LogFacts, ValuesAre
<1>5. 1 + Len(v) <= AreaWords - 1 - End(Live)
  BY <1>2, <1>3, <1>4 DEF Fits
<1> QED BY <1>4, <1>5 DEF CONFIG_SPACE_FOR_KEY

(* The page in use between operations.                                     *)
LEMMA IdlePage ==
  ASSUME StoreNow, phase \notin {"off", "format", "write"}
  PROVE  /\ flash[config_area].magic = "magic"
         /\ Log(Live) /\ Tidy(Live) /\ Clean(Live)
BY DEF StoreNow, StoreInv, PageInv, PagesOK, Formatted, Logs, W, Live

(* config_put has nothing to write ...                                     *)
LEMMA PutAtOnceStore ==
  ASSUME StoreNow, NEW k \in Keys, NEW v \in Values, PutAtOnce(k, v) PROVE StoreInv'
<1> USE DEF StoreNow, PageInv, PagesOK, StoreInv
<1>1. /\ phase = "idle" /\ phase' = "idle" /\ flash' = flash /\ queue' = queue
      /\ config_area' = config_area /\ key' = key /\ value' = value
  BY DEF PutAtOnce, ram
<1>2. Logs'
  BY <1>1, PagesSame
<1> QED BY <1>1, <1>2 DEF Alone, Jobs, Deleting, Writing, Copying

(* ... or deletes the entry that it replaces; the new one fits then.       *)
LEMMA PutBeginStore ==
  ASSUME StoreNow, NEW k \in Keys, NEW v \in Values, PutBegin(k, v) PROVE StoreInv'
<1> USE DEF StoreNow, PageInv, PagesOK, StoreInv
<1>1. /\ phase = "idle" /\ phase' = "place" /\ flash' = flash /\ queue' = Deletion(k)
      /\ config_area' = config_area /\ key' = k /\ value' = v /\ Fits(k, v)
  BY DEF PutBegin, ram, Call
<1>2. Logs' /\ Alone' /\ Jobs'
  BY <1>1, PagesSame DEF Alone, Jobs
<1>3. Log(Live) /\ Tidy(Live)
  BY <1>1, IdlePage
<1>4. Deleting'
  <2>1. Live' = Live
    BY <1>1 DEF Live
  <2>2. CASE Lacks(Live, k) /\ Deletion(k) = << >>
    <3>1. Room' \/ HasDead(Live')
      BY <1>1, <1>3, <2>1, <2>2, FitsHasRoom DEF Room
    <3> QED BY <1>1, <2>1, <2>2, <3>1 DEF Deleting
  <2>3. ASSUME NEW i \in Headers(Live), Live[i].key = k, Deletion(k) = <<Write(config_area, i, NullKey)>>
        PROVE  Deleting'
    BY <1>1, <2>1, <2>3 DEF Deleting
  <2> QED BY <1>3, <2>2, <2>3, DeletionIs
<1> QED BY <1>1, <1>2, <1>4 DEF Writing, Copying

(* config_delete finds the one entry of its key.                           *)
LEMMA DeleteStore ==
  ASSUME StoreNow, NEW k \in Keys, config_delete(k) PROVE StoreInv'
<1> USE DEF StoreNow, PageInv, PagesOK, StoreInv
<1>1. /\ phase = "idle" /\ phase' = "delete" /\ flash' = flash /\ queue' = Deletion(k)
      /\ config_area' = config_area /\ key' = k /\ value' = NoValue
  BY DEF config_delete, ram, Call
<1>2. Logs' /\ Alone' /\ Jobs'
  BY <1>1, PagesSame DEF Alone, Jobs
<1>3. Log(Live) /\ Tidy(Live)
  BY <1>1, IdlePage
<1>4. Deleting'
  <2>1. Live' = Live
    BY <1>1 DEF Live
  <2>2. CASE Lacks(Live, k) /\ Deletion(k) = << >>
    BY <1>1, <2>1, <2>2 DEF Deleting
  <2>3. ASSUME NEW i \in Headers(Live), Live[i].key = k, Deletion(k) = <<Write(config_area, i, NullKey)>>
        PROVE  Deleting'
    BY <1>1, <2>1, <2>3 DEF Deleting
  <2> QED BY <1>3, <2>2, <2>3, DeletionIs
<1> QED BY <1>1, <1>2, <1>4 DEF Writing, Copying

(* The words of a value with one more at the end.                          *)
LEMMA PushIs ==
  ASSUME NEW R, NEW s \in Seq(R), NEW x \in R
  PROVE  /\ s \o <<x>> \in Seq(R)
         /\ Len(s \o <<x>>) = Len(s) + 1
         /\ (s \o <<x>>)[Len(s) + 1] = x
         /\ \A j \in 1 .. Len(s) : (s \o <<x>>)[j] = s[j]
OBVIOUS

(* config_put begins to append its entry in erased words.                  *)
LEMMA PutWriteStore ==
  ASSUME StoreNow, PutWrite PROVE StoreInv'
<1> USE DEF StoreNow, PageInv, PagesOK, StoreInv
<1>1. /\ phase \in {"place", "replace"} /\ phase' = "write" /\ flash' = flash
      /\ queue = << >> /\ queue' = Append_entry /\ Room
      /\ config_area' = config_area /\ key' = key /\ value' = value
  BY DEF PutWrite, ram, job
<1>2. Logs' /\ Alone' /\ Jobs'
  BY <1>1 DEF Logs, W, Alone, Jobs
<1>3. Log(Live) /\ Clean(Live) /\ Lacks(Live, key)
  BY <1>1, IdlePage DEF Deleting
<1>4. PICK n \in Nat : n = Len(value) /\ value \in Seq(Word)
  BY <1>1, ValuesAre DEF Jobs
<1>5. PICK free \in Nat : /\ free = End(Live) /\ config_findfree(Live) = free
                          /\ free + n + 1 <= AreaWords - 1
  BY <1>1, <1>3, <1>4, LogFacts DEF Room, CONFIG_SPACE_FOR_KEY
<1>6. /\ Len(queue') = n + 1
      /\ \A j \in 1 .. n : queue'[j] = Write(config_area, free + 0 + j, value[0 + j])
      /\ queue'[n + 1] = Write(config_area, free, Header(key, n))
  <2> DEFINE s == Writes(config_area, free + 1, value)
             last == Write(config_area, free, Header(key, n))
  <2>1. queue' = s \o <<last>>
    BY <1>1, <1>4, <1>5 DEF Append_entry
  <2>2. /\ s = [j \in 1 .. n |-> Write(config_area, free + 1 + j - 1, value[j])]
        /\ \A j \in 1 .. n : s[j] = Write(config_area, free + 1 + j - 1, value[j])
    BY <1>4 DEF Writes
  <2> HIDE DEF s, last
  <2>3. /\ Len(queue') = n + 1 /\ queue'[n + 1] = last
        /\ \A j \in 1 .. n : queue'[j] = s[j]
    <3> DEFINE R == {s[j] : j \in 1 .. n} \cup {last}
    <3>1. \A j \in 1 .. n : s[j] \in R
      OBVIOUS
    <3>2. last \in R
      OBVIOUS
    <3> HIDE DEF R
    <3>3. s \in Seq(R) /\ Len(s) = n
      <4>1. s \in [1 .. n -> R]
        BY <2>2, <3>1
      <4> QED BY <4>1, <1>4
    <3> QED BY <2>1, <3>2, <3>3, PushIs
  <2>4. \A j \in 1 .. n : free + 1 + j - 1 = free + 0 + j /\ 0 + j = j
    OBVIOUS
  <2> QED BY <2>2, <2>3, <2>4 DEF last
<1>7. Appending(Live, 0)'
  <2>1. Live' = Live
    BY <1>1 DEF Live
  <2>2. \A i \in Offsets : i = free \/ i > free + 0 => Live[i] = Erased
    BY <1>3, <1>5 DEF Clean, FreeErased, Offsets
  <2> QED BY <1>1, <1>3, <1>4, <1>5, <1>6, <2>1, <2>2 DEF Appending
<1>8. queue' # << >>
  BY <1>6
<1>9. Writing'
  BY <1>1, <1>7, <1>8 DEF Writing
<1> QED BY <1>1, <1>2, <1>9 DEF Deleting, Copying

(* It compacts only when there is something to leave out.                  *)
LEMMA PutCompactStore ==
  ASSUME StoreNow, PutCompact PROVE StoreInv'
<1> USE DEF StoreNow, PageInv, PagesOK, StoreInv
<1>1. /\ phase = "place" /\ phase' = "erase" /\ flash' = flash
      /\ queue = << >> /\ queue' = queue /\ ~Room /\ after' = "replace"
      /\ config_area' = config_area /\ key' = key /\ value' = value
  BY DEF PutCompact, job
<1>2. Logs' /\ Alone'
  BY <1>1, PagesSame DEF Alone
<1>3. Lacks(Live, key) /\ HasDead(Live) /\ Live' = Live
  BY <1>1 DEF Deleting, Live
<1> QED BY <1>1, <1>2, <1>3 DEF Jobs, Deleting, Writing, Copying

(* It returns with its entry in the log ...                                *)
LEMMA PutReturnStore ==
  ASSUME StoreNow, PutReturn PROVE StoreInv'
<1> USE DEF StoreNow, PageInv, PagesOK, StoreInv
<1>1. /\ phase = "write" /\ phase' = "idle" /\ flash' = flash
      /\ queue = << >> /\ queue' = queue
      /\ config_area' = config_area /\ key' = CONFIG_KEY_INVALID /\ value' = NoValue
  BY DEF PutReturn, Return, ram
<1>2. Logs'
  BY <1>1 DEF Logs, W, Writing, Live
<1> QED BY <1>1, <1>2 DEF Alone, Jobs, Deleting, Writing, Copying

(* ... and config_delete without one for its key.                          *)
LEMMA DeleteReturnStore ==
  ASSUME StoreNow, DeleteReturn PROVE StoreInv'
<1> USE DEF StoreNow, PageInv, PagesOK, StoreInv
<1>1. /\ phase = "delete" /\ phase' = "idle" /\ flash' = flash
      /\ queue = << >> /\ queue' = queue
      /\ config_area' = config_area /\ key' = CONFIG_KEY_INVALID /\ value' = NoValue
  BY DEF DeleteReturn, Return, ram
<1>2. Logs'
  BY <1>1, PagesSame
<1> QED BY <1>1, <1>2 DEF Alone, Jobs, Deleting, Writing, Copying

-----------------------------------------------------------------------------
(* config_compact.                                                         *)

(* config_compact leaves a deleted entry out.                              *)
LEMMA CopiedDead ==
  ASSUME NEW ws, Log(ws), NEW vs, NEW i \in Headers(ws), NEW p, Copied(ws, i, vs, p),
         ws[i].key = CONFIG_KEY_INVALID
  PROVE  Copied(ws, Skip(ws, i), vs, p)
<1> DEFINE H == Headers(ws)
           k == Skip(ws, i)
<1>1. /\ i \in Nat /\ k \in H \cup {End(ws)} /\ k = i + 1 + CONFIG_LENGTH(ws[i])
      /\ CONFIG_LENGTH(ws[i]) \in Nat
      /\ \A j \in H : j \in Nat /\ (i < j => k <= j)
  BY LogFacts
<1>2. p \in Offsets /\ p \in Nat /\ p <= i
  BY DEF Copied, Offsets
<1>3. i < k /\ p < k /\ k \in Nat
  BY <1>1, <1>2
<1>4. \A h \in H : h < k /\ ws[h].key # CONFIG_KEY_INVALID => h < i
  <2> HIDE DEF k, H
  <2>1. ASSUME NEW h \in H, h < k, h # i PROVE h < i
    BY <1>1, <1>3, <2>1
  <2> QED BY <2>1
<1>5. \A h \in H : h < i => h < k
  <2> HIDE DEF k, H
  <2> QED BY <1>1, <1>3
<1> HIDE DEF k
<1>6. /\ \A h \in Headers(ws) : h < k /\ ws[h].key # CONFIG_KEY_INVALID
                                => \E j \in Headers(vs) : j < p /\ Same(ws, h, vs, j)
      /\ \A j \in Headers(vs) : j < p =>
           \E h \in Headers(ws) : h < k /\ ws[h].key # CONFIG_KEY_INVALID /\ Same(ws, h, vs, j)
  BY <1>4, <1>5 DEF Copied
<1>7. p <= k
  BY <1>2, <1>3
<1>8. Copied(ws, k, vs, p)
  BY <1>1, <1>2, <1>3, <1>6, <1>7 DEF Copied
<1> QED BY <1>8 DEF k

(* The pages during the copy.                                              *)
LEMMA CopyPages ==
  ASSUME StoreNow, phase = "copy"
  PROVE  /\ flash[config_area].magic = "magic" /\ flash[Other(config_area)].magic = "magic"
         /\ Log(Live) /\ Tidy(Live) /\ Clean(Live)
         /\ Log(Spare(config_area)) /\ Tidy(Spare(config_area)) /\ Clean(Spare(config_area))
<1> USE DEF StoreNow, StoreInv, PageInv, PagesOK
<1>1. flash[config_area].magic = "magic" /\ flash[Other(config_area)].magic = "magic"
  BY DEF Formatted
<1> QED BY <1>1, OtherArea DEF Logs, W, Live, Spare

(* config_compact goes on to the next entry.                               *)
LEMMA CompactCopyStore ==
  ASSUME StoreNow, CompactCopy PROVE StoreInv'
<1> USE DEF StoreNow, PageInv, PagesOK, StoreInv
<1> DEFINE new == Other(config_area)
           vs == Spare(config_area)
<1>1. /\ phase = "copy" /\ phase' = "copy" /\ flash' = flash /\ queue = << >>
      /\ config_area' = config_area /\ after' = after /\ key' = key /\ value' = value
      /\ MoreEntries
      /\ offset' = offset + CONFIG_TOTLEN(Live[offset])
      /\ \/ /\ Live[offset].key # CONFIG_KEY_INVALID
            /\ queue' = Writes(new, new_offset, WordsAt(Live, offset, CONFIG_TOTLEN(Live[offset])))
            /\ new_offset' = new_offset + CONFIG_TOTLEN(Live[offset])
         \/ /\ Live[offset].key = CONFIG_KEY_INVALID
            /\ queue' = queue /\ new_offset' = new_offset
  BY DEF CompactCopy, job
<1>2. Live' = Live /\ Spare(config_area)' = vs
  BY <1>1 DEF Live, Spare
<1>3. Logs' /\ Alone' /\ Jobs' /\ Deleting' /\ Writing'
  <2>1. Logs'
    BY <1>1, PagesSame
  <2> QED BY <1>1, <1>2, <2>1 DEF Alone, Jobs, Deleting, Writing
<1>4. /\ Log(Live) /\ Tidy(Live) /\ Clean(Live) /\ Log(vs) /\ Tidy(vs) /\ Clean(vs)
  BY <1>1, CopyPages
<1>5. Copied(Live, offset, vs, new_offset) /\ End(vs) = new_offset
  BY <1>1 DEF Copying
<1>6. offset \in Headers(Live)
  <2>1. offset \in Headers(Live) \cup {End(Live)} /\ Live[offset].key # CONFIG_KEY_UNPROGRAMMED
    BY <1>1, <1>5 DEF Copied, MoreEntries
  <2> QED BY <1>4, <2>1, LogFacts
<1>7. CASE Live[offset].key = CONFIG_KEY_INVALID
  <2>1. Copied(Live, Skip(Live, offset), vs, new_offset)
    BY <1>4, <1>5, <1>6, <1>7, CopiedDead
  <2>2. Copying'
    BY <1>1, <1>2, <1>5, <1>7, <2>1 DEF Copying, Skip
  <2> QED BY <1>3, <2>2
<1>8. CASE Live[offset].key # CONFIG_KEY_INVALID
  <2>1. PICK n \in Nat : n = CONFIG_LENGTH(Live[offset]) /\ CONFIG_TOTLEN(Live[offset]) = n + 1
    BY <1>4, <1>6, LogFacts
  <2>2. /\ offset \in Nat /\ new_offset \in Nat /\ AreaWords \in Nat
        /\ offset + n + 1 <= AreaWords - 1
    <3>1. /\ offset \in Nat /\ new_offset \in Nat /\ AreaWords \in Nat
          /\ offset + 1 + n <= End(Live) /\ End(Live) <= AreaWords - 1 /\ End(Live) \in Nat
      BY <1>4, <1>5, <1>6, <2>1, LogFacts
    <3> QED BY <3>1
  <2>3. /\ Len(queue') = n + 1
        /\ \A j \in 1 .. n + 1 : queue'[j] = Write(new, new_offset + 0 + j - 1, Live[offset + 0 + j - 1])
    <3> DEFINE wd == WordsAt(Live, offset, n + 1)
    <3>1. queue' = Writes(new, new_offset, wd)
      BY <1>1, <1>8, <2>1
    <3>2. Len(wd) = n + 1
      BY <2>1 DEF WordsAt
    <3>3. ASSUME NEW j \in 1 .. n + 1
          PROVE  wd[j] = Live[offset + 0 + j - 1] /\ new_offset + j - 1 = new_offset + 0 + j - 1
      <4>1. offset + j - 1 \in Offsets /\ offset + j - 1 = offset + 0 + j - 1
            /\ new_offset + j - 1 = new_offset + 0 + j - 1
        BY <2>2 DEF Offsets
      <4>2. wd[j] = Live[offset + j - 1]
        BY <4>1 DEF WordsAt, WordAt
      <4> QED BY <4>1, <4>2
    <3> HIDE DEF wd
    <3>4. Len(queue') = n + 1 /\ \A j \in 1 .. n + 1 : queue'[j] = Write(new, new_offset + j - 1, wd[j])
      BY <3>1, <3>2, <2>1 DEF Writes
    <3> QED BY <3>3, <3>4
  <2>4. \A k \in Offsets : k >= new_offset => vs[k] = Erased
    BY <1>4, <1>5 DEF Clean, FreeErased
  <2>5. \A j \in Headers(vs) : j < new_offset
    BY <1>4, <1>5, LogFacts
  <2>6. PICK i \in Nat, p \in Nat : i = offset /\ p = new_offset
    BY <2>2
  <2>7. InCopy(Live, i, Spare(config_area), p, 0)'
    <3>1. n + 1 - 0 = n + 1 /\ p + 0 = p /\ 0 \in 0 .. n + 1 - 1
          /\ 0 .. 0 - 1 = {} /\ ~(0 > 0)
      BY <2>2
    <3>2. /\ Live' = Live /\ Spare(config_area)' = vs /\ config_area' = config_area
          /\ offset' = i + CONFIG_TOTLEN(Live[i]) /\ new_offset' = p + CONFIG_TOTLEN(Live[i])
          /\ CONFIG_TOTLEN(Live[i]) = n + 1
          /\ i \in Headers(Live) /\ Live[i].key # CONFIG_KEY_INVALID
          /\ End(vs) = p
      BY <1>1, <1>2, <1>5, <1>6, <1>8, <2>1, <2>6
    <3>3. /\ Len(queue') = n + 1
          /\ \A j \in 1 .. n + 1 : queue'[j] = Write(new, p + 0 + j - 1, Live[i + 0 + j - 1])
          /\ \A k \in Offsets : k >= p => vs[k] = Erased
          /\ \A j \in Headers(vs) : j < p
      BY <2>3, <2>4, <2>5, <2>6
    <3> QED BY <3>1, <3>2, <3>3 DEF InCopy, Partly
  <2>8. queue' # << >>
    BY <2>3
  <2>9. Copied(Live, i, Spare(config_area), p)'
    BY <1>2, <1>5, <2>6
  <2>10. Copying'
    BY <1>1, <2>7, <2>8, <2>9 DEF Copying
  <2> QED BY <1>3, <2>10
<1> QED BY <1>7, <1>8

(* The copy of an entry has its header.                                    *)
LEMMA SameHeader ==
  ASSUME NEW ws, Log(ws), NEW h \in Headers(ws), NEW vs, NEW j \in Nat, Same(ws, h, vs, j)
  PROVE  vs[j] = ws[h]
<1>1. CONFIG_LENGTH(ws[h]) \in Nat /\ h \in Nat
  BY LogFacts
<1>2. 0 \in 0 .. CONFIG_LENGTH(ws[h]) /\ j + 0 = j /\ h + 0 = h
  BY <1>1
<1> QED BY <1>2 DEF Same

(* What is still to be copied of an entry has room in the new page.        *)
LEMMA CopyFits ==
  ASSUME NEW ws, Log(ws), NEW i \in Headers(ws), ws[i].key # CONFIG_KEY_INVALID,
         NEW vs, NEW p \in Nat, Copied(ws, i, vs, p)
  PROVE  /\ p + CONFIG_TOTLEN(ws[i]) < End(ws)
         /\ CONFIG_TOTLEN(ws[i]) \in Nat
         /\ p < i \/ \E g \in Headers(ws) : g >= Skip(ws, i) /\ ws[g].key = CONFIG_KEY_INVALID
<1>1. PICK n \in Nat : n = CONFIG_LENGTH(ws[i]) /\ CONFIG_TOTLEN(ws[i]) = 1 + n
  BY LogFacts
<1>2. PICK e \in Nat : e = End(ws)
  BY LogFacts
<1>3. /\ i \in Nat /\ Skip(ws, i) = i + 1 + n /\ i + 1 + n <= e
      /\ \A g \in Headers(ws) : g \in Nat /\ g < e /\ (i < g => i + 1 + n <= g)
  <2>1. /\ i \in Nat
        /\ Skip(ws, i) = i + 1 + CONFIG_LENGTH(ws[i]) /\ Skip(ws, i) <= End(ws)
        /\ \A g \in Headers(ws) : g \in Nat /\ g < End(ws) /\ (i < g => Skip(ws, i) <= g)
    BY LogFacts
  <2> QED BY <2>1, <1>1, <1>2
<1>4. p <= i /\ (p < i \/ \E g \in Headers(ws) : g >= i /\ ws[g].key = CONFIG_KEY_INVALID)
  BY DEF Copied
<1>5. CASE p < i
  BY <1>1, <1>2, <1>3, <1>5
<1>6. ASSUME NEW g \in Headers(ws), g >= i, ws[g].key = CONFIG_KEY_INVALID
      PROVE  p + 1 + n < e /\ g >= i + 1 + n
  <2>1. g # i
    BY <1>6
  <2> QED BY <1>1, <1>2, <1>3, <1>4, <1>6, <2>1
<1>7. p + 1 + n < e
  BY <1>1, <1>2, <1>3, <1>4, <1>5, <1>6
<1>8. p < i \/ \E g \in Headers(ws) : g >= Skip(ws, i) /\ ws[g].key = CONFIG_KEY_INVALID
  BY <1>3, <1>4, <1>6
<1>9. p + (1 + n) < e /\ 1 + n \in Nat
  BY <1>1, <1>2, <1>7
<1> QED BY <1>1, <1>2, <1>8, <1>9

(* The copy ends before the page it is made from, by the deleted entries   *)
(* it leaves out.                                                          *)
LEMMA CopyShorter ==
  ASSUME StoreNow, phase = "copy"
  PROVE  End(Spare(config_area)) < End(Live)
<1> USE DEF StoreNow, StoreInv
<1> DEFINE ws == Live
           vs == Spare(config_area)
<1>1. Log(ws)
  BY CopyPages
<1>2. PICK e \in Nat : e = End(ws)
  BY <1>1, LogFacts
<1>3. CASE queue = << >>
  <2>1. PICK i \in Nat, p \in Nat : /\ i = offset /\ p = new_offset /\ End(vs) = p
                                    /\ Copied(ws, i, vs, p)
    <3>1. Copied(ws, offset, vs, new_offset) /\ End(vs) = new_offset
      BY <1>3 DEF Copying
    <3>2. offset \in Nat /\ new_offset \in Nat
      BY <3>1, <1>1, LogFacts DEF Copied, Offsets
    <3> QED BY <3>1, <3>2
  <2>2. CASE p < i
    <3>1. i <= e
      BY <2>1, <1>1, <1>2, LogFacts DEF Copied
    <3> QED BY <2>1, <2>2, <3>1, <1>2
  <2>3. ASSUME NEW g \in Headers(ws), g >= i PROVE p < e
    <3>1. g \in Nat /\ g < e /\ p <= i
      BY <1>1, <1>2, <2>1, LogFacts DEF Copied
    <3> QED BY <2>3, <3>1, <1>2
  <2>4. p < i \/ \E g \in Headers(ws) : g >= i
    BY <2>1 DEF Copied
  <2> QED BY <1>2, <2>1, <2>2, <2>3, <2>4
<1>4. CASE queue # << >>
  <2>1. PICK i, p, c \in Nat : Copied(ws, i, vs, p) /\ InCopy(ws, i, vs, p, c)
    BY <1>4 DEF Copying
  <2>2. i \in Headers(ws) /\ ws[i].key # CONFIG_KEY_INVALID
        /\ End(vs) = IF c = 0 THEN p ELSE p + CONFIG_TOTLEN(ws[i])
    BY <2>1 DEF InCopy, Partly
  <2>3. p + CONFIG_TOTLEN(ws[i]) < End(ws) /\ CONFIG_TOTLEN(ws[i]) \in Nat
    BY <1>1, <2>1, <2>2, CopyFits
  <2> QED BY <1>2, <2>2, <2>3
<1> QED BY <1>3, <1>4

(* When the compaction ends, every live entry has been copied, and nothing *)
(* else has.                                                               *)
LEMMA CopyDone ==
  ASSUME StoreNow, CompactRetire
  PROVE  /\ Copied(Live, End(Live), Spare(config_area), End(Spare(config_area)))
         /\ phase' = "replace" /\ Live' = Spare(config_area)
         /\ flash'[Other(config_area)] = flash[Other(config_area)]
         /\ flash'[config_area].magic = "null"
         /\ flash'[config_area].words = flash[config_area].words
<1> USE DEF StoreNow, StoreInv, PageInv, PagesOK
<1>1. /\ phase = "copy" /\ phase' = after /\ queue = << >> /\ ~MoreEntries
      /\ flash' = [flash EXCEPT ![config_area].magic = "null"]
      /\ config_area' = Other(config_area)
  BY DEF CompactRetire
<1>2. Copied(Live, offset, Spare(config_area), new_offset)
      /\ End(Spare(config_area)) = new_offset
  BY <1>1 DEF Copying
<1>3. offset = End(Live)
  <2>1. offset \in Headers(Live) \cup {End(Live)}
    BY <1>2 DEF Copied
  <2>2. ASSUME offset \in Headers(Live) PROVE FALSE
    <3>1. /\ offset \in Nat /\ offset < End(Live) /\ End(Live) \in Nat /\ End(Live) <= AreaWords - 1
          /\ Live[offset].key # CONFIG_KEY_UNPROGRAMMED /\ AreaWords \in Nat
      BY <1>1, <2>2, CopyPages, LogFacts
    <3>2. offset < AreaWords - 1
      BY <3>1
    <3> QED BY <1>1, <3>1, <3>2 DEF MoreEntries
  <2> QED BY <2>1, <2>2
<1>4. phase' = "replace"
  BY <1>1 DEF Jobs
<1>5. /\ flash'[config_area].magic = "null"
      /\ flash'[config_area].words = flash[config_area].words
      /\ flash'[Other(config_area)] = flash[Other(config_area)]
  BY <1>1, SetMagic, OtherArea
<1>6. Live' = Spare(config_area)
  BY <1>1, <1>5 DEF Live, Spare
<1> QED BY <1>2, <1>3, <1>4, <1>5, <1>6

(* When it retires the old page, the copy is the store.                    *)
LEMMA CompactRetireStore ==
  ASSUME StoreNow, CompactRetire PROVE StoreInv'
<1> USE DEF StoreNow, PageInv, PagesOK, StoreInv
<1> DEFINE new == Other(config_area)
<1>1. /\ phase = "copy" /\ phase' = "replace" /\ queue = << >> /\ queue' = queue
      /\ config_area' = new /\ key' = key /\ value' = value
      /\ Live' = Spare(config_area)
      /\ flash'[new] = flash[new] /\ flash'[config_area].magic = "null"
      /\ Copied(Live, End(Live), Spare(config_area), End(Spare(config_area)))
  BY CopyDone DEF CompactRetire, job
<1>2. Logs'
  <2>1. \A b \in Areas : b = config_area \/ b = new
    BY OtherArea
  <2>2. Log(W(new)) /\ Tidy(W(new)) /\ Clean(W(new))
    BY <1>1, CopyPages DEF W, Spare
  <2> QED BY <1>1, <2>1, <2>2 DEF Logs, W
<1>3. Alone'
  <2>1. Other(new) = config_area
    BY OtherArea
  <2> QED BY <1>1, <2>1 DEF Alone
<1>4. Jobs'
  BY <1>1 DEF Jobs
<1>5. Lacks(Spare(config_area), key)
  <2>1. ASSUME NEW j \in Headers(Spare(config_area)) PROVE Spare(config_area)[j].key # key
    <3>1. j \in Nat /\ j < End(Spare(config_area))
      BY <1>1, CopyPages, LogFacts
    <3>2. PICK h \in Headers(Live) : Same(Live, h, Spare(config_area), j)
      BY <1>1, <3>1 DEF Copied
    <3>3. Spare(config_area)[j] = Live[h]
      BY <1>1, <3>1, <3>2, CopyPages, SameHeader
    <3> QED BY <1>1, <3>3 DEF Deleting, Lacks
  <2> QED BY <2>1 DEF Lacks
<1>6. Deleting'
  BY <1>1, <1>5 DEF Deleting
<1> QED BY <1>1, <1>2, <1>3, <1>4, <1>6 DEF Writing, Copying

(* A power loss that tears no value leaves the pages logs.                 *)
LEMMA PowerLossStore ==
  ASSUME StoreNow, PowerLoss, ~torn' PROVE StoreInv'
<1> USE DEF StoreNow, PageInv, PagesOK, StoreInv
<1>1. /\ phase # "off" /\ phase' = "off" /\ flash' = flash /\ queue' = << >>
      /\ key' = CONFIG_KEY_INVALID /\ value' = NoValue
      /\ phase = "write" => Clean(Live)
  BY DEF PowerLoss, Clean, End
<1>2. Logs'
  BY <1>1 DEF Logs, W, Live
<1>3. Alone'
  <2>1. CASE phase = "copy"
    <3>1. /\ End(W(Other(config_area))) < End(W(config_area))
          /\ Log(W(Other(config_area))) /\ Log(W(config_area))
      BY <2>1, CopyShorter, CopyPages DEF W, Spare, Live
    <3>2. End(W(Other(config_area))) < AreaWords - 1
      <4>1. /\ End(W(Other(config_area))) \in Nat /\ End(W(config_area)) \in Nat
            /\ End(W(config_area)) <= AreaWords - 1 /\ AreaWords \in Nat
        BY <3>1, LogFacts
      <4> QED BY <3>1, <4>1
    <3> QED BY <1>1, <3>2, OtherArea DEF Alone, W
  <2>2. CASE phase # "copy"
    <3>1. flash[Other(config_area)].magic # "magic"
      BY <1>1, <2>2 DEF Alone
    <3> QED BY <1>1, <3>1, OtherArea DEF Alone
  <2> QED BY <2>1, <2>2
<1>4. Jobs'
  BY <1>1 DEF Jobs
<1> QED BY <1>1, <1>2, <1>3, <1>4 DEF Deleting, Writing, Copying

-----------------------------------------------------------------------------
(* flash_write.                                                            *)

(* A header that config_put writes gives the key and the length back.      *)
LEMMA HeaderIs ==
  ASSUME NEW k \in Keys, NEW v \in Values
  PROVE  /\ Header(k, Len(v)) \in Word
         /\ Header(k, Len(v)).key = k
         /\ CONFIG_LENGTH(Header(k, Len(v))) = Len(v)
<1>1. \E s \in SUBSET LenBits : LenValue[s] = Len(v)
  BY LengthAssumption
<1>2. LenField(Len(v)) \in SUBSET LenBits /\ LenValue[LenField(Len(v))] = Len(v)
  BY <1>1 DEF LenField
<1> QED BY <1>2, ErasedWord DEF Header, Word, CONFIG_LENGTH

(* Programming an erased word sets it, and nulling a key keeps the length. *)
LEMMA ProgramIs ==
  /\ \A w \in Word : /\ Program(Erased, w) = w
                     /\ Program(w, NullKey) \in Word
                     /\ Program(w, NullKey).key = CONFIG_KEY_INVALID
                     /\ Program(w, NullKey).len = w.len
  /\ NullKey \in Word
<1>1. ASSUME NEW w \in Word PROVE Program(Erased, w) = w
  <2>1. KeyBits \cap w.key = w.key /\ LenBits \cap w.len = w.len /\ w = [key |-> w.key, len |-> w.len]
    BY DEF Word
  <2> QED BY <2>1 DEF Program, Erased
<1>2. NullKey \in Word /\ NullKey.key = {} /\ NullKey.len = LenBits
  BY DEF NullKey, Word, CONFIG_KEY_INVALID
<1>3. ASSUME NEW w \in Word
      PROVE  /\ Program(w, NullKey) \in Word
             /\ Program(w, NullKey).key = CONFIG_KEY_INVALID
             /\ Program(w, NullKey).len = w.len
  <2>1. w.key \cap {} = {} /\ w.len \cap LenBits = w.len /\ w.len \in SUBSET LenBits
    BY DEF Word
  <2>2. Program(w, NullKey) = [key |-> {}, len |-> w.len]
    BY <1>2, <2>1 DEF Program
  <2> QED BY <2>1, <2>2 DEF Word, CONFIG_KEY_INVALID
<1> QED BY <1>1, <1>2, <1>3

(* One word of one page is programmed.                                     *)
LEMMA FlashWriteIs ==
  ASSUME flash \in [Areas -> Page], flash_write,
         NEW a \in Areas, NEW i \in Offsets, NEW w \in Word, Head(queue) = Write(a, i, w)
  PROVE  /\ flash'[a].words \in Pages
         /\ flash'[a].magic = flash[a].magic
         /\ \A j \in Offsets : flash'[a].words[j] = IF j = i THEN Program(flash[a].words[i], w)
                                                    ELSE flash[a].words[j]
         /\ \A b \in Areas : b # a => flash'[b] = flash[b]
<1> DEFINE new == Program(flash[a].words[i], w)
           ws == [flash[a].words EXCEPT ![i] = new]
<1>1. /\ Head(queue).area = a /\ Head(queue).at = i /\ Head(queue).word = w
  BY DEF Write
<1>2. flash' = [flash EXCEPT ![a].words[i] = Program(@, w)]
  BY <1>1 DEF flash_write
<1>3. flash' = [flash EXCEPT ![a] = [flash[a] EXCEPT !.words = ws]]
  BY <1>2
<1>4. flash[a] \in Page /\ flash[a].words \in [Offsets -> Word]
  BY DEF Page
<1>5. new \in Word
  BY <1>4 DEF Program, Word
<1> HIDE DEF new
<1>6. ws \in Pages /\ \A j \in Offsets : ws[j] = IF j = i THEN new ELSE flash[a].words[j]
  BY <1>4, <1>5 DEF Pages
<1> HIDE DEF ws
<1>7. [flash[a] EXCEPT !.words = ws].words = ws /\ [flash[a] EXCEPT !.words = ws].magic = flash[a].magic
  BY <1>4 DEF Page
<1>8. flash'[a] = [flash[a] EXCEPT !.words = ws]
      /\ \A b \in Areas : b # a => flash'[b] = flash[b]
  BY <1>3
<1> QED BY <1>6, <1>7, <1>8 DEF new

(* Nulling the key of an entry deletes it and leaves the others.           *)
LEMMA Nulled ==
  ASSUME NEW ws, Log(ws), Tidy(ws), NEW k \in Keys, NEW i \in Headers(ws), ws[i].key = k,
         NEW vs \in Pages,
         \A j \in Offsets : vs[j] = IF j = i THEN Program(ws[i], NullKey) ELSE ws[j]
  PROVE  /\ Log(vs) /\ Tidy(vs) /\ Headers(vs) = Headers(ws) /\ End(vs) = End(ws)
         /\ Clean(ws) => Clean(vs)
         /\ Lacks(vs, k) /\ HasDead(vs)
         /\ vs[i].key = CONFIG_KEY_INVALID
         /\ \A j \in Headers(ws) : vs[j].len = ws[j].len /\ (j # i => vs[j] = ws[j])
<1>1. /\ i \in Offsets /\ End(ws) \in Offsets /\ i # End(ws)
      /\ ws[i] \in Word /\ ws[End(ws)].key = CONFIG_KEY_UNPROGRAMMED
      /\ \A j \in Headers(ws) : j \in Offsets /\ ws[j].key # CONFIG_KEY_UNPROGRAMMED
  BY LogFacts
<1>2. /\ vs[i].key = CONFIG_KEY_INVALID /\ vs[i].len = ws[i].len
      /\ \A j \in Headers(ws) : j # i => vs[j] = ws[j]
      /\ vs[End(ws)] = ws[End(ws)]
  BY <1>1, ProgramIs
<1>3. Log(vs) /\ Headers(vs) = Headers(ws) /\ End(vs) = End(ws)
  BY <1>1, <1>2, LogKept, ErasedWord
<1>4. Tidy(vs)
  BY <1>2, <1>3 DEF Tidy
<1>5. Clean(ws) => Clean(vs)
  <2>1. \A j \in Offsets : j >= End(ws) => j # i
    BY LogFacts
  <2> QED BY <1>3, <2>1 DEF Clean, FreeErased
<1>6. Lacks(vs, k)
  BY <1>2, <1>3, ErasedWord DEF Lacks, Tidy
<1>7. HasDead(vs)
  BY <1>2, <1>3 DEF HasDead
<1> QED BY <1>2, <1>3, <1>4, <1>5, <1>6, <1>7

(* The deletion that config_delete and config_put write.                   *)
LEMMA DeleteWritten ==
  ASSUME StoreNow, flash_write, phase \in {"place", "delete"}
  PROVE  \E i \in Headers(Live) :
           /\ Live[i].key = key
           /\ Live' \in Pages
           /\ \A j \in Offsets : Live'[j] = IF j = i THEN Program(Live[i], NullKey) ELSE Live[j]
           /\ \A a \in Areas : flash'[a].magic = flash[a].magic
           /\ flash'[Other(config_area)] = flash[Other(config_area)]
           /\ queue' = << >>
<1> USE DEF StoreNow, StoreInv, PageInv, PagesOK
<1>1. PICK i \in Headers(Live) : /\ Live[i].key = key
                                 /\ queue = <<Write(config_area, i, NullKey)>>
  BY DEF Deleting, flash_write
<1>2. i \in Offsets /\ NullKey \in Word /\ Head(queue) = Write(config_area, i, NullKey)
      /\ queue' = << >>
  BY <1>1, IdlePage, LogFacts, ProgramIs DEF flash_write
<1>3. config_area' = config_area
  BY DEF flash_write, ram
<1>4. /\ flash'[config_area].words \in Pages
      /\ flash'[config_area].magic = flash[config_area].magic
      /\ \A j \in Offsets : flash'[config_area].words[j]
                              = IF j = i THEN Program(flash[config_area].words[i], NullKey)
                                ELSE flash[config_area].words[j]
      /\ \A b \in Areas : b # config_area => flash'[b] = flash[b]
  BY <1>2, FlashWriteIs
<1>5. Live' = flash'[config_area].words
  BY <1>3 DEF Live
<1> QED BY <1>1, <1>2, <1>4, <1>5, OtherArea DEF Live

(* When the deletion has been programmed the key has no entry.             *)
LEMMA DeleteWriteStore ==
  ASSUME StoreNow, flash_write, phase \in {"place", "delete"} PROVE StoreInv'
<1> USE DEF StoreNow, StoreInv, PageInv, PagesOK
<1>1. PICK i \in Headers(Live) :
           /\ Live[i].key = key
           /\ Live' \in Pages
           /\ \A j \in Offsets : Live'[j] = IF j = i THEN Program(Live[i], NullKey) ELSE Live[j]
           /\ \A a \in Areas : flash'[a].magic = flash[a].magic
           /\ flash'[Other(config_area)] = flash[Other(config_area)]
           /\ queue' = << >>
  BY DeleteWritten
<1>2. /\ config_area' = config_area /\ phase' = phase /\ key' = key /\ value' = value
      /\ after' = after
  BY DEF flash_write, ram, job
<1>3. key \in Keys
  BY DEF Jobs
<1>4. /\ Log(Live') /\ Tidy(Live') /\ Clean(Live')
      /\ Lacks(Live', key) /\ HasDead(Live')
  BY <1>1, <1>3, IdlePage, Nulled
<1>5. Logs'
  <2>1. \A b \in Areas : b = config_area \/ b = Other(config_area)
    BY OtherArea
  <2>2. flash'[config_area].words = Live'
    BY <1>2 DEF Live
  <2> QED BY <1>1, <1>4, <2>1, <2>2 DEF Logs, W
<1>6. Alone'
  BY <1>1, <1>2, OtherArea DEF Alone
<1>7. Jobs'
  BY <1>1, <1>2 DEF Jobs
<1>8. Deleting'
  BY <1>1, <1>2, <1>4 DEF Deleting
<1> QED BY <1>2, <1>5, <1>6, <1>7, <1>8 DEF Writing, Copying

(* What is left of a write when its first word has been programmed.        *)
LEMMA TailIs ==
  ASSUME NEW R, NEW q \in Seq(R), q # << >>
  PROVE  /\ Len(q) \in Nat \ {0}
         /\ Head(q) = q[1]
         /\ Tail(q) \in Seq(R)
         /\ Len(Tail(q)) = Len(q) - 1
         /\ \A j \in 1 .. Len(q) - 1 : Tail(q)[j] = q[j + 1]
OBVIOUS

(* The next word of config_put's write.                                    *)
LEMMA AppendWritten ==
  ASSUME StoreNow, flash_write, phase = "write"
  PROVE  \E n \in Nat, i \in Offsets, w \in Word :
           /\ Appending(Live, n)
           /\ \/ n < Len(value) /\ i = End(Live) + n + 1 /\ w = value[n + 1]
              \/ n = Len(value) /\ i = End(Live) /\ w = Header(key, Len(value))
           /\ Live' \in Pages
           /\ \A j \in Offsets : Live'[j] = IF j = i THEN w ELSE Live[j]
           /\ \A a \in Areas : flash'[a].magic = flash[a].magic
           /\ flash'[Other(config_area)] = flash[Other(config_area)]
<1> USE DEF StoreNow, StoreInv, PageInv, PagesOK
<1>1. PICK n \in Nat : Appending(Live, n)
  BY DEF Writing, flash_write
<1>2. PICK L \in Nat : L = Len(value) /\ value \in Seq(Word) /\ value \in Values /\ key \in Keys
  BY ValuesAre DEF Jobs
<1>3. Log(Live)
  BY DEF Logs, W, Live, Formatted
<1>4. PICK free \in Nat : free = End(Live) /\ free + L + 1 <= AreaWords - 1 /\ AreaWords \in Nat
  BY <1>1, <1>2, <1>3, LogFacts DEF Appending
<1>5. /\ n \in 0 .. L
      /\ Len(queue) = L + 1 - n
      /\ \A j \in 1 .. L - n : queue[j] = Write(config_area, free + n + j, value[n + j])
      /\ queue[L + 1 - n] = Write(config_area, free, Header(key, L))
      /\ \A i \in Offsets : i = free \/ i > free + n => Live[i] = Erased
  BY <1>1, <1>2, <1>4 DEF Appending
<1>6. Head(queue) = queue[1]
  BY TailIs DEF flash_write, Queued
<1>7. PICK i \in Offsets, w \in Word :
        /\ Head(queue) = Write(config_area, i, w)
        /\ Live[i] = Erased
        /\ \/ n < L /\ i = free + n + 1 /\ w = value[n + 1]
           \/ n = L /\ i = free /\ w = Header(key, L)
  <2>1. CASE n < L
    <3>1. 1 \in 1 .. L - n /\ free + n + 1 \in Offsets /\ free + n + 1 > free + n
          /\ n + 1 \in 1 .. L
      BY <2>1, <1>4, <1>5 DEF Offsets
    <3>2. queue[1] = Write(config_area, free + n + 1, value[n + 1]) /\ Live[free + n + 1] = Erased
      BY <1>5, <3>1
    <3>3. value[n + 1] \in Word
      BY <1>2, <3>1
    <3> QED BY <1>6, <2>1, <3>1, <3>2, <3>3
  <2>2. CASE n = L
    <3>1. L + 1 - n = 1 /\ free \in Offsets
      BY <2>2, <1>4 DEF Offsets
    <3>2. Header(key, L) \in Word
      BY <1>2, HeaderIs
    <3> QED BY <1>5, <1>6, <2>2, <3>1, <3>2
  <2> QED BY <1>5, <2>1, <2>2
<1>8. config_area' = config_area
  BY DEF flash_write, ram
<1>9. /\ flash'[config_area].words \in Pages
      /\ flash'[config_area].magic = flash[config_area].magic
      /\ \A j \in Offsets : flash'[config_area].words[j]
                              = IF j = i THEN Program(flash[config_area].words[i], w)
                                ELSE flash[config_area].words[j]
      /\ \A b \in Areas : b # config_area => flash'[b] = flash[b]
  BY <1>7, FlashWriteIs
<1>10. Live' = flash'[config_area].words
  BY <1>8 DEF Live
<1>11. Program(flash[config_area].words[i], w) = w
  BY <1>7, ProgramIs DEF Live
<1> QED BY <1>1, <1>2, <1>4, <1>7, <1>9, <1>10, <1>11, OtherArea DEF Live

(* The data of an entry that has no header yet are outside the log.        *)
LEMMA DataAppended ==
  ASSUME NEW ws, Log(ws), Tidy(ws), NEW vs \in Pages,
         \A j \in Headers(ws) : vs[j] = ws[j], vs[End(ws)] = ws[End(ws)]
  PROVE  /\ Log(vs) /\ Tidy(vs) /\ Headers(vs) = Headers(ws) /\ End(vs) = End(ws)
         /\ \A k : Lacks(ws, k) => Lacks(vs, k)
<1>1. /\ ws[End(ws)].key = CONFIG_KEY_UNPROGRAMMED
      /\ \A j \in Headers(ws) : ws[j].key # CONFIG_KEY_UNPROGRAMMED
  BY LogFacts
<1>2. Log(vs) /\ Headers(vs) = Headers(ws) /\ End(vs) = End(ws)
  BY <1>1, LogKept
<1> QED BY <1>2 DEF Tidy, Lacks

(* The header makes it an entry.                                           *)
LEMMA EntryAppended ==
  ASSUME NEW ws, Log(ws), NEW vs \in Pages, NEW h \in Word, NEW L \in Nat,
         End(ws) + L + 1 <= AreaWords - 1,
         CONFIG_LENGTH(h) = L, h.key # CONFIG_KEY_UNPROGRAMMED,
         \A j \in Offsets : j < End(ws) => vs[j] = ws[j],
         vs[End(ws)] = h,
         \A j \in Offsets : j > End(ws) + L => vs[j] = Erased
  PROVE  /\ Log(vs) /\ Clean(vs)
         /\ Headers(vs) = Headers(ws) \cup {End(ws)}
         /\ End(vs) = End(ws) + L + 1
<1>1. PICK e \in Nat : e = End(ws) /\ e \in Offsets /\ e + L + 1 <= AreaWords - 1 /\ AreaWords \in Nat
  BY LogFacts
<1>2. Skip(vs, e) = e + L + 1 /\ e + L + 1 \in Offsets /\ e + L + 1 > e + L
  BY <1>1 DEF Skip, CONFIG_TOTLEN, Offsets
<1>3. vs[e + L + 1] = Erased
  BY <1>1, <1>2
<1>4. \A j \in Headers(ws) : vs[j] = ws[j]
  <2>1. ASSUME NEW j \in Headers(ws) PROVE j \in Offsets /\ j < e /\ j # e /\ j <= e + L
    <3>1. j \in Offsets /\ j < e /\ j \in Nat
      BY <1>1, LogFacts
    <3> QED BY <3>1, <1>1
  <2> QED BY <1>1, <2>1
<1>5. /\ Log(vs) /\ Headers(vs) = Headers(ws) \cup {End(ws)} /\ End(vs) = e + L + 1
  BY <1>1, <1>2, <1>3, <1>4, LogGrows, ErasedWord
<1>6. Clean(vs)
  <2>1. \A j \in Offsets : j >= e + L + 1 => j > e + L
    BY <1>1 DEF Offsets
  <2> QED BY <1>1, <1>5, <2>1 DEF Clean, FreeErased
<1> QED BY <1>1, <1>5, <1>6

(* One more word of the entry that config_put appends.                     *)
LEMMA AppendWriteStore ==
  ASSUME StoreNow, flash_write, phase = "write" PROVE StoreInv'
<1> USE DEF StoreNow, StoreInv, PageInv, PagesOK
<1>1. PICK n \in Nat, i \in Offsets, w \in Word :
           /\ Appending(Live, n)
           /\ \/ n < Len(value) /\ i = End(Live) + n + 1 /\ w = value[n + 1]
              \/ n = Len(value) /\ i = End(Live) /\ w = Header(key, Len(value))
           /\ Live' \in Pages
           /\ \A j \in Offsets : Live'[j] = IF j = i THEN w ELSE Live[j]
           /\ \A a \in Areas : flash'[a].magic = flash[a].magic
           /\ flash'[Other(config_area)] = flash[Other(config_area)]
  BY AppendWritten
<1>2. /\ config_area' = config_area /\ phase' = phase /\ key' = key /\ value' = value
      /\ after' = after /\ queue' = Tail(queue) /\ queue # << >>
  BY DEF flash_write, ram, job
<1>3. PICK L \in Nat : L = Len(value) /\ value \in Values /\ key \in Keys
  BY ValuesAre DEF Jobs
<1>4. Log(Live) /\ Tidy(Live)
  BY DEF Logs, W, Live, Formatted
<1>5. PICK free \in Nat : free = End(Live) /\ free + L + 1 <= AreaWords - 1 /\ AreaWords \in Nat
  BY <1>1, <1>3, <1>4, LogFacts DEF Appending
<1>6. /\ n \in 0 .. L /\ Lacks(Live, key)
      /\ Len(queue) = L + 1 - n
      /\ \A j \in 1 .. L - n : queue[j] = Write(config_area, free + n + j, value[n + j])
      /\ queue[L + 1 - n] = Write(config_area, free, Header(key, L))
      /\ \A d \in 1 .. n : Live[free + d] = value[d]
      /\ \A j \in Offsets : j = free \/ j > free + n => Live[j] = Erased
  BY <1>1, <1>3, <1>5 DEF Appending
<1>7. /\ Len(queue') = L - n
      /\ \A j \in 1 .. L - n : queue'[j] = queue[j + 1]
  <2>1. Len(Tail(queue)) = Len(queue) - 1 /\ \A j \in 1 .. Len(queue) - 1 : Tail(queue)[j] = queue[j + 1]
    BY <1>2, TailIs DEF Queued
  <2>2. L + 1 - n - 1 = L - n
    BY <1>6
  <2> QED BY <1>2, <1>6, <2>1, <2>2
<1>8. \A j \in Headers(Live) : j \in Offsets /\ j \in Nat /\ j < free
  BY <1>4, <1>5, LogFacts
<1>9. Log(Live') /\ Tidy(Live') => Logs'
  <2>1. \A b \in Areas : b = config_area \/ b = Other(config_area)
    BY OtherArea
  <2>2. flash'[config_area].words = Live'
    BY <1>2 DEF Live
  <2>3. flash[Other(config_area)].magic # "magic"
    BY DEF Alone
  <2> QED BY <1>1, <1>2, <2>1, <2>2, <2>3 DEF Logs, W
<1>10. Alone' /\ Jobs'
  BY <1>1, <1>2, OtherArea DEF Alone, Jobs
<1>11. CASE n < L
  <2>1. /\ i = free + n + 1 /\ w = value[n + 1]
        /\ \A j \in Headers(Live) : j # i
        /\ End(Live) # i
    BY <1>1, <1>3, <1>5, <1>8, <1>11
  <2>2. /\ Log(Live') /\ Tidy(Live') /\ End(Live') = free /\ Lacks(Live', key)
    <3>1. End(Live) \in Offsets
      BY <1>4, LogFacts
    <3>2. \A j \in Headers(Live) : Live'[j] = Live[j]
      BY <1>1, <1>8, <2>1
    <3>3. Live'[End(Live)] = Live[End(Live)]
      <4>1. \A j \in Offsets : j # i => Live'[j] = Live[j]
        BY <1>1
      <4> QED BY <2>1, <3>1, <4>1
    <3> QED BY <1>1, <1>4, <1>5, <1>6, <3>2, <3>3, DataAppended
  <2>3. Appending(Live, n + 1)'
    <3>1. n + 1 \in 0 .. L /\ L + 1 - (n + 1) = L - n /\ L - (n + 1) = L - n - 1
      BY <1>6, <1>11
    <3>2. \A j \in 1 .. L - n - 1 : queue'[j] = Write(config_area, free + (n + 1) + j, value[(n + 1) + j])
      <4>0. L \in Nat /\ n \in Nat /\ free \in Nat
        BY <1>1, <1>3, <1>5
      <4>1. ASSUME NEW j \in 1 .. L - n - 1
            PROVE  /\ j \in 1 .. L - n /\ j + 1 \in 1 .. L - n
                   /\ free + n + (j + 1) = free + (n + 1) + j /\ n + (j + 1) = (n + 1) + j
        BY <4>0
      <4>2. ASSUME NEW j \in 1 .. L - n - 1
            PROVE  queue'[j] = Write(config_area, free + n + (j + 1), value[n + (j + 1)])
        BY <1>6, <1>7, <4>1
      <4> QED BY <4>1, <4>2
    <3>3. queue'[L - n] = Write(config_area, free, Header(key, L))
      <4>1. L - n \in 1 .. L - n /\ (L - n) + 1 = L + 1 - n
        BY <1>6, <1>11
      <4> QED BY <1>6, <1>7, <4>1
    <3>4. \A d \in 1 .. n + 1 : Live'[free + d] = value[d]
      <4>1. ASSUME NEW d \in 1 .. n + 1
            PROVE  /\ free + d \in Offsets
                   /\ d = n + 1 => free + d = i
                   /\ d # n + 1 => d \in 1 .. n /\ free + d # i
        BY <1>5, <1>11, <2>1 DEF Offsets
      <4> QED BY <1>1, <1>6, <2>1, <4>1
    <3>5. \A j \in Offsets : j = free \/ j > free + (n + 1) => Live'[j] = Erased
      <4>1. ASSUME NEW j \in Offsets, j = free \/ j > free + (n + 1)
            PROVE  j # i /\ (j = free \/ j > free + n)
        BY <2>1, <4>1 DEF Offsets
      <4> QED BY <1>1, <1>6, <4>1
    <3> QED BY <1>2, <1>3, <1>5, <1>7, <2>2, <3>1, <3>2, <3>3, <3>4, <3>5 DEF Appending
  <2>4. queue' # << >>
    BY <1>7, <1>11
  <2>5. Writing'
    BY <1>2, <2>3, <2>4 DEF Writing
  <2> QED BY <1>2, <1>9, <1>10, <2>2, <2>5 DEF Deleting, Copying
<1>12. CASE n = L
  <2>1. i = free /\ w = Header(key, L)
    BY <1>1, <1>3, <1>5, <1>12
  <2>2. /\ Log(Live') /\ Clean(Live') /\ Headers(Live') = Headers(Live) \cup {free}
    <3>1. w \in Word /\ CONFIG_LENGTH(w) = L /\ w.key # CONFIG_KEY_UNPROGRAMMED
      BY <1>3, <2>1, HeaderIs, ErasedWord
    <3>2. Live'[free] = w /\ \A j \in Offsets : j < free => Live'[j] = Live[j]
      BY <1>1, <2>1
    <3>3. \A j \in Offsets : j > free + L => Live'[j] = Erased
      <4>1. ASSUME NEW j \in Offsets, j > free + L PROVE j # free /\ j > free + n
        BY <1>12, <4>1 DEF Offsets
      <4> QED BY <1>1, <1>6, <2>1, <4>1
    <3>4. free + L + 1 <= AreaWords - 1 /\ free = End(Live)
      BY <1>5
    <3> QED BY <1>1, <1>3, <1>4, <3>1, <3>2, <3>3, <3>4, EntryAppended
  <2>3. \A j \in Headers(Live) : Live'[j] = Live[j]
    BY <1>1, <1>8, <2>1
  <2>4. Live'[free] = Header(key, L) /\ Live'[free].key = key
    BY <1>1, <1>3, <2>1, HeaderIs
  <2>5. Tidy(Live')
    BY <1>3, <1>4, <1>6, <2>2, <2>3, <2>4 DEF Tidy, Lacks
  <2>6. queue' = << >>
    BY <1>2, <1>7, <1>12, TailIs DEF Queued
  <2>7. \A d \in 1 .. L : Live'[free + d] = value[d]
    <3>1. ASSUME NEW d \in 1 .. L PROVE free + d \in Offsets /\ free + d # free /\ d \in 1 .. n
      BY <1>5, <1>12 DEF Offsets
    <3> QED BY <1>1, <1>6, <2>1, <3>1
  <2>8. Appended(Live)'
    BY <1>2, <1>3, <2>2, <2>4, <2>7 DEF Appended
  <2>9. Writing'
    BY <1>2, <2>2, <2>6, <2>8 DEF Writing
  <2> QED BY <1>2, <1>9, <1>10, <2>2, <2>5, <2>9 DEF Deleting, Copying
<1> QED BY <1>6, <1>11, <1>12

(* Words from p on do not disturb what was copied before p.                *)
LEMMA CopiedKept ==
  ASSUME NEW ws, Log(ws), NEW i, NEW vs, Log(vs), NEW p \in Headers(vs) \cup {End(vs)},
         Copied(ws, i, vs, p),
         NEW us, \A j \in Offsets : j < p => us[j] = vs[j],
         \A j \in Offsets : j < p => (j \in Headers(us) <=> j \in Headers(vs)),
         \A j \in Headers(us) : j \in Offsets
  PROVE  Copied(ws, i, us, p)
<1>1. p \in Nat /\ p \in Offsets /\ \A j \in Headers(vs) : j \in Nat /\ j \in Offsets
  BY LogFacts
<1>2. ASSUME NEW h \in Headers(ws), NEW j \in Headers(vs), j < p, Same(ws, h, vs, j)
      PROVE  Same(ws, h, us, j)
  <2>1. vs[j] = ws[h]
    BY <1>1, <1>2, SameHeader
  <2>2. PICK n \in Nat : n = CONFIG_LENGTH(ws[h])
    BY LogFacts
  <2>3. j + 1 + n <= p
    <3>1. Skip(vs, j) = j + 1 + n
      BY <2>1, <2>2, LogFacts
    <3>2. p \in Headers(vs) => Skip(vs, j) <= p
      BY <1>2, LogFacts
    <3>3. Skip(vs, j) <= End(vs)
      BY LogFacts
    <3> QED BY <3>1, <3>2, <3>3
  <2>4. ASSUME NEW d \in 0 .. n PROVE j + d \in Offsets /\ j + d < p
    BY <1>1, <2>2, <2>3, AreaAssumption DEF Offsets
  <2>5. \A d \in 0 .. n : us[j + d] = vs[j + d]
    BY <2>4
  <2> QED BY <1>2, <2>2, <2>5 DEF Same
<1>3. ASSUME NEW h \in Headers(ws), NEW j \in Headers(us), j < p, j \in Headers(vs), Same(ws, h, vs, j)
      PROVE  Same(ws, h, us, j)
  BY <1>2, <1>3
<1>4. \A h \in Headers(ws) : h < i /\ ws[h].key # CONFIG_KEY_INVALID
                                => \E j \in Headers(us) : j < p /\ Same(ws, h, us, j)
  <2>1. ASSUME NEW h \in Headers(ws), h < i, ws[h].key # CONFIG_KEY_INVALID
        PROVE  \E j \in Headers(us) : j < p /\ Same(ws, h, us, j)
    <3>1. PICK j \in Headers(vs) : j < p /\ Same(ws, h, vs, j)
      BY <2>1 DEF Copied
    <3> QED BY <1>1, <1>2, <3>1
  <2> QED BY <2>1
<1>5. \A j \in Headers(us) : j < p =>
         \E h \in Headers(ws) : h < i /\ ws[h].key # CONFIG_KEY_INVALID /\ Same(ws, h, us, j)
  <2>1. ASSUME NEW j \in Headers(us), j < p
        PROVE  \E h \in Headers(ws) : h < i /\ ws[h].key # CONFIG_KEY_INVALID /\ Same(ws, h, us, j)
    <3>1. j \in Headers(vs)
      BY <2>1
    <3>2. PICK h \in Headers(ws) : h < i /\ ws[h].key # CONFIG_KEY_INVALID /\ Same(ws, h, vs, j)
      BY <2>1, <3>1 DEF Copied
    <3> QED BY <1>2, <2>1, <3>1, <3>2
  <2> QED BY <2>1
<1> QED BY <1>4, <1>5 DEF Copied

(* The entry at i is copied, at p.                                         *)
LEMMA CopiedNext ==
  ASSUME NEW ws, Log(ws), NEW i \in Headers(ws), ws[i].key # CONFIG_KEY_INVALID,
         NEW us, NEW p \in Headers(us), p \in Nat, Copied(ws, i, us, p), Same(ws, i, us, p),
         \A j \in Headers(us) : j \in Nat /\ (j < p \/ j = p)
  PROVE  Copied(ws, Skip(ws, i), us, p + CONFIG_TOTLEN(ws[i]))
<1>1. PICK t \in Nat : t = CONFIG_TOTLEN(ws[i]) /\ t > 0
  BY LogFacts
<1>2. PICK k \in Nat : /\ k = Skip(ws, i) /\ k = i + t /\ i \in Nat
                       /\ k \in Headers(ws) \cup {End(ws)}
                       /\ \A h \in Headers(ws) : h \in Nat /\ (i < h => k <= h)
  <2>1. /\ Skip(ws, i) = i + t /\ i \in Nat
        /\ Skip(ws, i) \in Headers(ws) \cup {End(ws)}
        /\ \A h \in Headers(ws) : h \in Nat /\ (i < h => Skip(ws, i) <= h)
    BY <1>1, LogFacts DEF Skip
  <2> QED BY <1>1, <2>1
<1>3. p + t < End(ws) /\ End(ws) \in Offsets /\ End(ws) \in Nat
      /\ (p < i \/ \E g \in Headers(ws) : g >= k /\ ws[g].key = CONFIG_KEY_INVALID)
  BY <1>1, <1>2, CopyFits, LogFacts
<1>4. p <= i
  BY DEF Copied
<1>5. p + t \in Offsets /\ p + t <= k /\ p < p + t
  BY <1>1, <1>2, <1>3, <1>4, AreaAssumption DEF Offsets
<1>6. p + t < k \/ \E g \in Headers(ws) : g >= k /\ ws[g].key = CONFIG_KEY_INVALID
  BY <1>1, <1>2, <1>3
<1>7. ASSUME NEW h \in Headers(ws), h < k, ws[h].key # CONFIG_KEY_INVALID
      PROVE  \E j \in Headers(us) : j < p + t /\ Same(ws, h, us, j)
  <2>1. CASE h < i
    <3>1. PICK j \in Headers(us) : j < p /\ Same(ws, h, us, j)
      BY <1>7, <2>1 DEF Copied
    <3> QED BY <1>1, <3>1
  <2>2. CASE h = i
    BY <1>5, <2>2
  <2> QED BY <1>2, <1>7, <2>1, <2>2
<1>8. ASSUME NEW j \in Headers(us)
      PROVE  \E h \in Headers(ws) : h < k /\ ws[h].key # CONFIG_KEY_INVALID /\ Same(ws, h, us, j)
  <2>1. CASE j < p
    <3>1. PICK h \in Headers(ws) : h < i /\ ws[h].key # CONFIG_KEY_INVALID /\ Same(ws, h, us, j)
      BY <2>1 DEF Copied
    <3> QED BY <1>1, <1>2, <3>1
  <2>2. CASE j = p
    BY <1>1, <1>2, <2>2
  <2> QED BY <2>1, <2>2
<1>9. Copied(ws, k, us, p + t)
  BY <1>2, <1>5, <1>6, <1>7, <1>8 DEF Copied
<1> QED BY <1>1, <1>2, <1>9

(* us is vs with one word programmed.                                      *)
Programmed(us, vs, at, w) == /\ us \in Pages
                             /\ \A j \in Offsets : us[j] = IF j = at THEN w ELSE vs[j]

(* The pages after the next word of config_compact's write.                *)
LEMMA CopyWritten ==
  ASSUME NEW ws, Log(ws), Tidy(ws), NEW i \in Headers(ws), ws[i].key # CONFIG_KEY_INVALID,
         NEW vs, Log(vs), Tidy(vs), Clean(vs), NEW p \in Nat, Copied(ws, i, vs, p),
         NEW c \in Nat, c < CONFIG_TOTLEN(ws[i]),
         Partly(ws, i, vs, p, c),
         NEW us, Programmed(us, vs, p + c, ws[i + c])
  PROVE  /\ p + c \in Offsets /\ vs[p + c] = Erased
         /\ Log(us) /\ Tidy(us) /\ Clean(us) /\ Copied(ws, i, us, p)
         /\ Partly(ws, i, us, p, c + 1)
<1> USE DEF Partly, Programmed
<1>1. PICK n \in Nat : /\ n = CONFIG_LENGTH(ws[i]) /\ CONFIG_TOTLEN(ws[i]) = n + 1
                       /\ i \in Nat /\ c <= n
  BY LogFacts
<1>2. p + n + 1 <= AreaWords - 1 /\ AreaWords \in Nat
  <2>1. /\ p + CONFIG_TOTLEN(ws[i]) < End(ws) /\ End(ws) <= AreaWords - 1
        /\ End(ws) \in Nat /\ AreaWords \in Nat
    BY CopyFits, LogFacts
  <2> QED BY <1>1, <2>1
<1>3. p + c \in Offsets /\ p \in Offsets /\ p + c >= p
  BY <1>1, <1>2 DEF Offsets
<1>4. vs[p + c] = Erased /\ us[p + c] = ws[i + c]
  BY <1>3
<1>5. \A j \in Offsets : j < p => us[j] = vs[j]
  <2>1. \A j \in Offsets : j < p => j # p + c
    BY DEF Offsets
  <2> QED BY <2>1
<1>6. \A d \in 0 .. c : us[p + d] = ws[i + d]
  <2>1. ASSUME NEW d \in 0 .. c, d # c PROVE d \in 0 .. c - 1 /\ p + d \in Offsets /\ p + d # p + c
    BY <1>2, <1>3, <2>1 DEF Offsets
  <2>2. ASSUME NEW d \in 0 .. c, d # c PROVE us[p + d] = ws[i + d]
    BY <2>1, <2>2
  <2> QED BY <1>4, <2>2
<1>7. \A k \in Offsets : k >= p + (c + 1) => us[k] = Erased
  <2>1. ASSUME NEW k \in Offsets, k >= p + (c + 1) PROVE k >= p + c /\ k # p + c
    BY <2>1 DEF Offsets
  <2> QED BY <2>1
<1>10. (c + 1) - 1 = c /\ c + 1 > 0 /\ c + 1 # 0
  OBVIOUS
<1>8. CASE c = 0
  <2>1. /\ End(vs) = p /\ us[p] = ws[i] /\ p + c = p /\ i + c = i
        /\ ws[i] \in Word /\ ws[i].key # CONFIG_KEY_UNPROGRAMMED
    BY <1>1, <1>4, <1>8, LogFacts
  <2>2. \A j \in Offsets : j > p + n => us[j] = Erased
    <3>1. ASSUME NEW j \in Offsets, j > p + n PROVE j >= p + (c + 1)
      BY <1>1, <1>8, <3>1 DEF Offsets
    <3> QED BY <1>7, <3>1
  <2>3. /\ Log(us) /\ Clean(us) /\ Headers(us) = Headers(vs) \cup {p} /\ End(us) = p + n + 1
    <3>1. End(vs) + n + 1 <= AreaWords - 1 /\ CONFIG_LENGTH(ws[i]) = n /\ us[End(vs)] = ws[i]
      BY <1>1, <1>2, <2>1
    <3>2. /\ \A j \in Offsets : j < End(vs) => us[j] = vs[j]
          /\ \A j \in Offsets : j > End(vs) + n => us[j] = Erased
      BY <1>5, <2>1, <2>2
    <3> QED BY <2>1, <3>1, <3>2, EntryAppended
  <2>4. \A j \in Headers(vs) : j < p /\ j \in Offsets /\ us[j] = vs[j]
    BY <1>5, <1>8, LogFacts
  <2>5. ASSUME NEW j \in Headers(vs) PROVE vs[j].key # ws[i].key
    <3>1. j < p /\ j \in Nat
      BY <2>4, LogFacts
    <3>2. PICK h \in Headers(ws) : h < i /\ Same(ws, h, vs, j)
      BY <3>1 DEF Copied
    <3>3. vs[j] = ws[h] /\ h # i
      BY <1>1, <3>1, <3>2, SameHeader
    <3> QED BY <3>3 DEF Tidy
  <2>6. Tidy(us)
    BY <2>1, <2>3, <2>4, <2>5 DEF Tidy
  <2>7. p \in Headers(vs) \cup {End(vs)}
    BY <2>1
  <2>8. /\ \A j \in Offsets : j < p => (j \in Headers(us) <=> j \in Headers(vs))
        /\ \A j \in Headers(us) : j \in Offsets /\ (j < p \/ j = p)
    BY <1>3, <2>3, <2>4
  <2>9. Copied(ws, i, us, p)
    BY <1>5, <2>7, <2>8, CopiedKept
  <2>10. End(us) = p + CONFIG_TOTLEN(ws[i])
    BY <1>1, <2>3
  <2>11. p \in Headers(us)
    BY <2>3
  <2> QED BY <1>3, <1>4, <1>6, <1>7, <1>10, <2>3, <2>6, <2>8, <2>9, <2>10, <2>11
<1>9. CASE c # 0
  <2>1. /\ p \in Headers(vs) /\ End(vs) = p + n + 1
        /\ \A j \in Headers(vs) : j \in Offsets /\ j \in Nat /\ (j < p \/ j = p)
    BY <1>1, <1>9, LogFacts
  <2>2. /\ \A j \in Headers(vs) : us[j] = vs[j]
        /\ us[End(vs)] = vs[End(vs)]
    <3>1. ASSUME NEW j \in Headers(vs) PROVE j # p + c /\ j \in Offsets
      <4>1. j \in Nat /\ j \in Offsets /\ (j < p \/ j = p)
        BY <2>1
      <4> QED BY <4>1, <1>9
    <3>2. End(vs) # p + c /\ End(vs) \in Offsets
      BY <1>1, <2>1, LogFacts
    <3> QED BY <3>1, <3>2
  <2>3. Log(us) /\ Tidy(us) /\ Headers(us) = Headers(vs) /\ End(us) = End(vs)
    BY <2>2, DataAppended
  <2>4. Clean(us)
    <3>1. \A k \in Offsets : k >= p + n + 1 => k >= p + (c + 1)
      BY <1>1 DEF Offsets
    <3> QED BY <1>7, <2>1, <2>3, <3>1 DEF Clean, FreeErased
  <2>5. Copied(ws, i, us, p)
    BY <1>5, <2>1, <2>3, CopiedKept
  <2>6. End(us) = p + CONFIG_TOTLEN(ws[i])
    BY <1>1, <2>1, <2>3
  <2> QED BY <1>3, <1>4, <1>6, <1>7, <1>10, <2>1, <2>3, <2>4, <2>5, <2>6
<1> QED BY <1>8, <1>9

(* One more word of the entry that config_compact copies.                  *)
LEMMA CopyWriteStore ==
  ASSUME StoreNow, flash_write, phase = "copy" PROVE StoreInv' /\ Live' = Live
<1> USE DEF StoreNow, StoreInv, PageInv, PagesOK
<1> DEFINE new == Other(config_area)
           ws == Live
           vs == Spare(config_area)
<1>1. PICK i, p, c \in Nat : Copied(ws, i, vs, p) /\ InCopy(ws, i, vs, p, c)
  BY DEF Copying, flash_write
<1>2. /\ config_area' = config_area /\ phase' = phase /\ key' = key /\ value' = value
      /\ after' = after /\ queue' = Tail(queue) /\ queue # << >>
      /\ offset' = offset /\ new_offset' = new_offset
  BY DEF flash_write, ram, job
<1>3. Log(ws) /\ Tidy(ws) /\ Log(vs) /\ Tidy(vs) /\ Clean(vs)
  BY CopyPages
<1>4. i \in Headers(ws) /\ ws[i].key # CONFIG_KEY_INVALID
  BY <1>1 DEF InCopy
<1>5. PICK t \in Nat \ {0} : t = CONFIG_TOTLEN(ws[i]) /\ \A d \in 0 .. t - 1 : i + d \in Offsets
  <2>1. /\ i \in Nat /\ CONFIG_TOTLEN(ws[i]) = 1 + CONFIG_LENGTH(ws[i])
        /\ CONFIG_LENGTH(ws[i]) \in Nat
        /\ i + 1 + CONFIG_LENGTH(ws[i]) <= End(ws) /\ End(ws) <= AreaWords - 1
        /\ End(ws) \in Nat /\ AreaWords \in Nat
    BY <1>3, <1>4, LogFacts
  <2>2. PICK n \in Nat, e \in Nat : n = CONFIG_LENGTH(ws[i]) /\ e = End(ws)
    BY <2>1
  <2>3. \A d \in 0 .. n : i + d \in Offsets
    BY <2>1, <2>2 DEF Offsets
  <2> QED BY <2>1, <2>2, <2>3
<1>6. /\ offset = i + t /\ new_offset = p + t
      /\ c \in 0 .. t - 1
      /\ Len(queue) = t - c
      /\ \A j \in 1 .. t - c : queue[j] = Write(new, p + c + j - 1, ws[i + c + j - 1])
      /\ Partly(ws, i, vs, p, c)
  BY <1>1, <1>5 DEF InCopy
<1>n. i \in Nat /\ p \in Nat /\ c \in Nat /\ t \in Nat /\ c < t
  BY <1>1, <1>5, <1>6
<1>7. /\ Head(queue) = Write(new, p + c, ws[i + c])
      /\ Len(queue') = t - (c + 1)
      /\ \A j \in 1 .. t - (c + 1) :
           queue'[j] = Write(new, p + (c + 1) + j - 1, ws[i + (c + 1) + j - 1])
  <2>1. /\ Head(queue) = queue[1] /\ Len(queue') = Len(queue) - 1
        /\ \A j \in 1 .. Len(queue) - 1 : queue'[j] = queue[j + 1]
    BY <1>2, TailIs DEF Queued
  <2>2. 1 \in 1 .. t - c /\ p + c + 1 - 1 = p + c /\ i + c + 1 - 1 = i + c
        /\ t - c - 1 = t - (c + 1)
    BY <1>n
  <2>3. ASSUME NEW j \in 1 .. t - (c + 1)
        PROVE  /\ j + 1 \in 1 .. t - c
               /\ p + c + (j + 1) - 1 = p + (c + 1) + j - 1
               /\ i + c + (j + 1) - 1 = i + (c + 1) + j - 1
    BY <1>n
  <2>4. queue[1] = Write(new, p + c, ws[i + c])
    BY <1>6, <2>2
  <2>5. ASSUME NEW j \in 1 .. t - (c + 1)
        PROVE  queue'[j] = Write(new, p + (c + 1) + j - 1, ws[i + (c + 1) + j - 1])
    <3>1. queue'[j] = queue[j + 1]
      BY <1>6, <2>1, <2>2
    <3> QED BY <1>6, <2>3, <3>1
  <2> QED BY <1>6, <2>1, <2>2, <2>4, <2>5
<1>8. c < CONFIG_TOTLEN(ws[i]) /\ c \in Nat /\ ws[i + c] \in Word
  <2>1. i + c \in Offsets /\ c < t
    BY <1>1, <1>5, <1>6
  <2> QED BY <1>1, <1>3, <1>5, <2>1, LogFacts
<1>9. p + c \in Offsets /\ vs[p + c] = Erased
  <2>1. p + CONFIG_TOTLEN(ws[i]) < End(ws) /\ End(ws) \in Nat /\ End(ws) <= AreaWords - 1
    BY <1>1, <1>3, <1>4, CopyFits, LogFacts
  <2>2. p + c \in Offsets
    BY <1>1, <1>5, <1>6, <2>1, AreaAssumption DEF Offsets
  <2>3. p + c >= p + c
    BY <1>1
  <2> QED BY <1>6, <2>2, <2>3 DEF Partly
<1>10. PICK us \in Pages : /\ us = Spare(config_area)' /\ us = flash'[new].words
                           /\ \A j \in Offsets : us[j] = IF j = p + c THEN ws[i + c] ELSE vs[j]
                           /\ \A a \in Areas : flash'[a].magic = flash[a].magic
                           /\ flash'[config_area] = flash[config_area]
  <2>1. new \in Areas /\ config_area # new
    BY OtherArea
  <2>2. /\ flash'[new].words \in Pages
        /\ flash'[new].magic = flash[new].magic
        /\ \A j \in Offsets : flash'[new].words[j]
                                = IF j = p + c THEN Program(flash[new].words[p + c], ws[i + c])
                                  ELSE flash[new].words[j]
        /\ \A b \in Areas : b # new => flash'[b] = flash[b]
    BY <1>7, <1>8, <1>9, <2>1, FlashWriteIs
  <2>3. Spare(config_area)' = flash'[new].words
    BY <1>2 DEF Spare
  <2>4. Program(flash[new].words[p + c], ws[i + c]) = ws[i + c]
    BY <1>8, <1>9, ProgramIs DEF Spare
  <2> QED BY <2>1, <2>2, <2>3, <2>4 DEF Spare
<1>11. Live' = Live
  BY <1>2, <1>10 DEF Live
<1>12. /\ Log(us) /\ Tidy(us) /\ Clean(us) /\ Copied(ws, i, us, p)
       /\ Partly(ws, i, us, p, c + 1)
  <2>1. Programmed(us, vs, p + c, ws[i + c])
    BY <1>10 DEF Programmed
  <2>2. Copied(ws, i, vs, p) /\ Partly(ws, i, vs, p, c)
    BY <1>1, <1>6
  <2> HIDE DEF ws, vs
  <2> QED BY <1>3, <1>4, <1>n, <1>8, <2>1, <2>2, CopyWritten
<1>13. Logs'
  <2>1. \A b \in Areas : b = config_area \/ b = new
    BY OtherArea
  <2>2. Log(W(config_area)) /\ Tidy(W(config_area)) /\ Clean(W(config_area))
    BY CopyPages DEF W, Live
  <2>3. W(config_area)' = W(config_area) \/ TRUE
    OBVIOUS
  <2>4. flash'[config_area].words = W(config_area)
    BY <1>10 DEF W
  <2> QED BY <1>2, <1>10, <1>12, <2>1, <2>2, <2>4 DEF Logs, W
<1>14. Alone' /\ Jobs' /\ Deleting' /\ Writing'
  BY <1>2, <1>11 DEF Alone, Jobs, Deleting, Writing
<1>15. CASE c + 1 < t
  <2>1. InCopy(Live, i, Spare(config_area), p, c + 1)'
    <3>1. c + 1 \in 0 .. t - 1 /\ (c + 1) - 1 = c /\ c + 1 > 0 /\ c + 1 # 0
      BY <1>n, <1>15
    <3>2. /\ Live' = ws /\ Spare(config_area)' = us /\ Other(config_area)' = new
          /\ offset' = i + t /\ new_offset' = p + t /\ t = CONFIG_TOTLEN(ws[i])
      BY <1>2, <1>5, <1>6, <1>10, <1>11
    <3> HIDE DEF ws, vs, new
    <3> QED BY <1>4, <1>7, <1>12, <3>1, <3>2 DEF InCopy
  <2>2. queue' # << >>
    BY <1>1, <1>5, <1>7, <1>15
  <2>3. Copied(Live, i, Spare(config_area), p)'
    BY <1>10, <1>11, <1>12
  <2>4. c + 1 \in Nat
    BY <1>1
  <2>5. Copying'
    BY <1>1, <1>2, <2>1, <2>2, <2>3, <2>4 DEF Copying
  <2> QED BY <1>11, <1>13, <1>14, <2>5
<1>16. CASE c + 1 = t
  <2>1. queue' = << >>
    <3>1. Len(Tail(queue)) = 0 /\ Tail(queue) \in Seq([area : Areas, at : Nat, word : Word])
      <4>1. t - (c + 1) = 0
        BY <1>n, <1>16
      <4> QED BY <1>2, <1>7, <4>1, TailIs DEF Queued
    <3> QED BY <1>2, <3>1
  <2>2. Same(ws, i, us, p)
    <3>1. CONFIG_LENGTH(ws[i]) = c
      <4>1. CONFIG_TOTLEN(ws[i]) = 1 + CONFIG_LENGTH(ws[i]) /\ CONFIG_LENGTH(ws[i]) \in Nat
        BY <1>3, <1>4, LogFacts
      <4> QED BY <1>1, <1>5, <1>16, <4>1
    <3>2. (c + 1) - 1 = c
      BY <1>n
    <3> QED BY <1>12, <3>1, <3>2 DEF Same, Partly
  <2>3. Copied(ws, Skip(ws, i), us, p + CONFIG_TOTLEN(ws[i]))
    <3>1. /\ \A j \in Headers(us) : j \in Nat /\ (j < p \/ j = p)
          /\ p \in Headers(us)
      BY <1>n, <1>12, LogFacts DEF Partly
    <3> HIDE DEF ws
    <3> QED BY <1>n, <1>3, <1>4, <1>12, <2>2, <3>1, CopiedNext
  <2>4. Copied(Live, offset, Spare(config_area), new_offset)' /\ End(Spare(config_area))' = new_offset'
    <3>1. offset' = Skip(ws, i) /\ new_offset' = p + CONFIG_TOTLEN(ws[i])
      BY <1>2, <1>5, <1>6 DEF Skip
    <3>2. End(us) = p + CONFIG_TOTLEN(ws[i])
      BY <1>n, <1>12 DEF Partly
    <3> QED BY <1>10, <1>11, <2>3, <3>1, <3>2
  <2>5. Copying'
    BY <1>2, <2>1, <2>4 DEF Copying
  <2> QED BY <1>11, <1>13, <1>14, <2>5
<1> QED BY <1>1, <1>5, <1>6, <1>15, <1>16

-----------------------------------------------------------------------------
(* Every step keeps the invariant.                                         *)

Commands == [area : Areas, at : Nat, word : Word]

(* The words of a write are commands.                                      *)
LEMMA WritesAre ==
  ASSUME NEW a \in Areas, NEW i \in Nat
  PROVE  /\ \A w \in Word : Write(a, i, w) \in Commands
         /\ \A ws \in Seq(Word) : Writes(a, i, ws) \in Seq(Commands)
<1>1. ASSUME NEW j \in Nat, NEW w \in Word PROVE Write(a, j, w) \in Commands
  BY DEF Write, Commands
<1>2. ASSUME NEW ws \in Seq(Word) PROVE Writes(a, i, ws) \in Seq(Commands)
  <2>1. PICK n \in Nat : n = Len(ws) /\ \A j \in 1 .. n : ws[j] \in Word
    OBVIOUS
  <2>2. ASSUME NEW j \in 1 .. n PROVE Write(a, i + j - 1, ws[j]) \in Commands
    <3>1. i + j - 1 \in Nat
      OBVIOUS
    <3> QED BY <1>1, <2>1, <3>1
  <2>3. Writes(a, i, ws) = [j \in 1 .. n |-> Write(a, i + j - 1, ws[j])]
    BY <2>1 DEF Writes
  <2>4. Writes(a, i, ws) \in [1 .. n -> Commands]
    BY <2>2, <2>3
  <2> QED BY <2>4
<1> QED BY <1>1, <1>2

(* Queued, and the commands are commands.                                  *)
LEMMA QueuedStep ==
  ASSUME StoreNow, Next PROVE Queued'
<1> USE DEF StoreNow, StoreInv, PageInv, PagesOK
<1>0. Queued <=> queue \in Seq(Commands)
  BY DEF Queued, Commands
<1>1. ASSUME queue' \in Seq(Commands) PROVE Queued'
  BY <1>1 DEF Queued, Commands, Areas, Word
<1>2. CASE queue' = queue
  BY <1>0, <1>1, <1>2
<1>3. CASE queue' = << >>
  BY <1>1, <1>3
<1>4. ASSUME NEW k \in Keys, phase = "idle", queue' = Deletion(k) PROVE Queued'
  <2>1. Log(Live) /\ Tidy(Live)
    BY <1>4, IdlePage
  <2>2. CASE Deletion(k) = << >>
    BY <1>3, <1>4, <2>2
  <2>3. ASSUME NEW i \in Headers(Live), Deletion(k) = <<Write(config_area, i, NullKey)>>
        PROVE  Queued'
    <3>1. i \in Nat /\ NullKey \in Word
      BY <2>1, LogFacts, ProgramIs
    <3>2. Write(config_area, i, NullKey) \in Commands
      BY <3>1, WritesAre
    <3>3. <<Write(config_area, i, NullKey)>> \in Seq(Commands)
      BY <3>2
    <3> QED BY <1>1, <1>4, <2>3, <3>3
  <2> QED BY <2>1, <2>2, <2>3, DeletionIs
<1>5. CASE PutWrite
  <2>1. phase \in {"place", "replace"} /\ queue' = Append_entry /\ Room
    BY <1>5 DEF PutWrite
  <2>2. Log(Live) /\ key \in Keys /\ value \in Values
    BY <2>1, IdlePage DEF Jobs
  <2>3. PICK free \in Nat : free = config_findfree(Live)
    BY <2>1, <2>2, LogFacts DEF Room, CONFIG_SPACE_FOR_KEY
  <2>4. Header(key, Len(value)) \in Word /\ value \in Seq(Word)
    BY <2>2, HeaderIs, ValuesAre
  <2>5. /\ Write(config_area, free, Header(key, Len(value))) \in Commands
        /\ Writes(config_area, free + 1, value) \in Seq(Commands)
    BY <2>4, WritesAre
  <2>6. Append_entry \in Seq(Commands)
    BY <2>3, <2>5, PushIs DEF Append_entry
  <2> QED BY <1>1, <2>1, <2>6
<1>6. CASE CompactCopy
  <2>1. /\ phase = "copy" /\ MoreEntries /\ queue = << >>
        /\ \/ queue' = queue
           \/ queue' = Writes(Other(config_area), new_offset,
                              WordsAt(Live, offset, CONFIG_TOTLEN(Live[offset])))
    BY <1>6 DEF CompactCopy
  <2>2. Log(Live) /\ Copied(Live, offset, Spare(config_area), new_offset)
    BY <2>1, CopyPages DEF Copying
  <2>3. new_offset \in Nat
    BY <2>2 DEF Copied, Offsets
  <2>4. offset \in Headers(Live)
    BY <2>1, <2>2, LogFacts DEF Copied, MoreEntries
  <2>5. CONFIG_TOTLEN(Live[offset]) \in Nat
    BY <2>2, <2>4, LogFacts
  <2>6. ASSUME NEW n \in Nat PROVE WordsAt(Live, offset, n) \in Seq(Word)
    <3>1. \A i : WordAt(Live, i) \in Word
      BY <2>2, LogFacts, ErasedWord DEF WordAt
    <3>2. WordsAt(Live, offset, n) \in [1 .. n -> Word]
      BY <3>1 DEF WordsAt
    <3> QED BY <3>2
  <2>7. Other(config_area) \in Areas
    BY OtherArea
  <2>8. Writes(Other(config_area), new_offset,
               WordsAt(Live, offset, CONFIG_TOTLEN(Live[offset]))) \in Seq(Commands)
    BY <2>3, <2>5, <2>6, <2>7, WritesAre
  <2> QED BY <1>1, <1>2, <2>1, <2>8
<1>7. CASE flash_write
  <2>1. queue' = Tail(queue) /\ queue # << >>
    BY <1>7 DEF flash_write
  <2> QED BY <1>0, <1>1, <2>1, TailIs
<1>8. ASSUME NEW k \in Keys, NEW v \in Values, PutAtOnce(k, v) \/ PutBegin(k, v) PROVE Queued'
  BY <1>2, <1>4, <1>8 DEF PutAtOnce, PutBegin
<1>9. ASSUME NEW k \in Keys, config_delete(k) PROVE Queued'
  BY <1>4, <1>9 DEF config_delete
<1>10. CASE InitFormat \/ config_init_area \/ InitOne \/ InitBoth
  BY <1>2, <1>10 DEF InitFormat, config_init_area, InitOne, InitBoth
<1>11. CASE CompactErase \/ CompactMagic \/ CompactRetire \/ PutCompact
  BY <1>2, <1>11 DEF CompactErase, CompactMagic, CompactRetire, PutCompact
<1>12. CASE PutReturn \/ DeleteReturn
  BY <1>2, <1>12 DEF PutReturn, DeleteReturn
<1>13. CASE PowerLoss
  BY <1>3, <1>13 DEF PowerLoss
<1> QED BY <1>5, <1>6, <1>7, <1>8, <1>9, <1>10, <1>11, <1>12, <1>13 DEF Next

(* Two erased pages are an empty store that has not been formatted.        *)
LEMMA StoreInit == Init => StoreInv /\ Queued
<1> SUFFICES ASSUME Init PROVE StoreInv /\ Queued
  OBVIOUS
<1>1. \A a \in Areas : flash[a] = Blank
  BY DEF Init
<1>2. /\ phase = "off" /\ queue = << >> /\ key = CONFIG_KEY_INVALID /\ value = NoValue
      /\ 1 \in Areas
  BY DEF Init, Areas
<1>3. Logs
  BY <1>1, BlankPage DEF Logs
<1>4. Alone
  BY <1>1, <1>2, BlankPage DEF Alone
<1> QED BY <1>2, <1>3, <1>4 DEF StoreInv, Jobs, Deleting, Writing, Copying, Queued

(* Until a half programmed value is left behind, each step keeps it.       *)
LEMMA StoreStep ==
  ASSUME StoreNow, [Next]_vars, ~torn' PROVE StoreInv' /\ Queued'
<1>1. CASE Next
  <2>1. Queued'
    BY <1>1, QueuedStep
  <2>2. CASE flash_write
    <3>1. phase \in {"place", "delete", "write", "copy"}
      BY <2>2 DEF flash_write, StoreNow, StoreInv, Jobs
    <3> QED BY <2>1, <2>2, <3>1, DeleteWriteStore, AppendWriteStore, CopyWriteStore
  <2>3. CASE InitFormat \/ config_init_area \/ InitOne \/ InitBoth
    BY <2>1, <2>3, InitFormatStore, InitAreaStore, InitOneStore, InitBothStore
  <2>4. CASE CompactErase \/ CompactMagic \/ CompactCopy \/ CompactRetire
    BY <2>1, <2>4, CompactEraseStore, CompactMagicStore, CompactCopyStore, CompactRetireStore
  <2>5. CASE \/ \E k \in Keys, v \in Values : PutAtOnce(k, v) \/ PutBegin(k, v)
             \/ PutWrite \/ PutCompact \/ PutReturn
    BY <2>1, <2>5, PutAtOnceStore, PutBeginStore, PutWriteStore, PutCompactStore, PutReturnStore
  <2>6. CASE (\E k \in Keys : config_delete(k)) \/ DeleteReturn
    BY <2>1, <2>6, DeleteStore, DeleteReturnStore
  <2>7. CASE PowerLoss
    BY <2>1, <2>7, PowerLossStore
  <2> QED BY <1>1, <2>2, <2>3, <2>4, <2>5, <2>6, <2>7 DEF Next
<1>2. CASE UNCHANGED vars
  BY <1>2 DEF vars, StoreNow, StoreInv, Logs, Alone, Jobs, Deleting, Writing, Copying, Queued,
              Live, Spare, W, Room, Appending, Appended, InCopy
<1> QED BY <1>1, <1>2

-----------------------------------------------------------------------------
(* What the invariant says of the properties.                              *)

(* What config_get and config_space_used_by_key say of a key.              *)
LEMMA ReadKey ==
  ASSUME NEW ws, Log(ws), Tidy(ws), NEW k \in Keys
  PROVE  \/ /\ Lacks(ws, k) /\ config_get(ws, k) = NoValue
            /\ config_space_used_by_key(ws, k) = 0
         \/ \E i \in Headers(ws) :
              /\ ws[i].key = k /\ config_get(ws, k) = Data(ws, i)
              /\ Data(ws, i) # NoValue /\ Data(ws, i) \in Seq(Word)
              /\ Len(Data(ws, i)) = CONFIG_LENGTH(ws[i])
              /\ config_space_used_by_key(ws, k) = 1 + Len(Data(ws, i))
<1>1. CASE Lacks(ws, k)
  BY <1>1, FindNone
<1>2. CASE ~Lacks(ws, k)
  <2>1. PICK i \in Headers(ws) : ws[i].key = k
    BY <1>2 DEF Lacks
  <2>2. PICK n \in Nat : n = CONFIG_LENGTH(ws[i]) /\ CONFIG_TOTLEN(ws[i]) = 1 + n
    BY LogFacts
  <2>3. Data(ws, i) \in [1 .. n -> Word]
    <3>1. PICK e \in Nat : /\ e = End(ws) /\ i + 1 + n <= e /\ e <= AreaWords - 1
                           /\ AreaWords \in Nat /\ i \in Nat
      BY <2>2, LogFacts
    <3>2. \A d \in 1 .. n : i + d \in Offsets
      BY <3>1 DEF Offsets
    <3>3. \A d \in 1 .. n : ws[i + d] \in Word
      BY <3>2, LogFacts
    <3> QED BY <2>2, <3>3 DEF Data
  <2>4. Data(ws, i) \in Seq(Word) /\ Len(Data(ws, i)) = n
    BY <2>2, <2>3
  <2> QED BY <2>1, <2>2, <2>4, FindEntry, NoValueAssumption
<1> QED BY <1>1, <1>2

(* The entries that are not deleted are the keys with a value.             *)
LEMMA NeededIs ==
  ASSUME NEW ws, Log(ws), Tidy(ws), NEW m, m = [k \in Keys |-> config_get(ws, k)]
  PROVE  /\ IsFiniteSet(Held(m))
         /\ Needed(m) = TotalLength(ws, LiveHeaders(ws))
         /\ Needed(m) \in Nat
         /\ \A k \in Held(m) : m[k] \in Seq(Word) /\ config_space_used_by_key(ws, k) = 1 + Len(m[k])
         /\ \A k \in Keys \ Held(m) : config_space_used_by_key(ws, k) = 0
<1> DEFINE H == LiveHeaders(ws)
           length == [i \in Offsets |-> CONFIG_TOTLEN(ws[i])]
           size == [k \in Held(m) |-> 1 + Len(m[k])]
           f == [i \in H |-> ws[i].key]
<1>1. IsFiniteSet(H)
  BY LogTotal, FS_Subset DEF LiveHeaders
<1>2. \A i \in H : i \in Headers(ws) /\ ws[i].key \in Keys /\ length[i] \in Nat
  BY LogFacts DEF LiveHeaders, Tidy
<1>3. \A k \in Held(m) : \E i \in H :
        /\ ws[i].key = k /\ m[k] = Data(ws, i) /\ Data(ws, i) \in Seq(Word)
        /\ config_space_used_by_key(ws, k) = 1 + Len(m[k])
  <2>1. ASSUME NEW k \in Held(m)
        PROVE  \E i \in H : /\ ws[i].key = k /\ m[k] = Data(ws, i) /\ Data(ws, i) \in Seq(Word)
                            /\ config_space_used_by_key(ws, k) = 1 + Len(m[k])
    <3>1. k \in Keys /\ m[k] = config_get(ws, k) /\ m[k] # NoValue
      BY DEF Held
    <3>2. PICK i \in Headers(ws) :
              /\ ws[i].key = k /\ config_get(ws, k) = Data(ws, i) /\ Data(ws, i) \in Seq(Word)
              /\ config_space_used_by_key(ws, k) = 1 + Len(Data(ws, i))
      BY <3>1, ReadKey
    <3>3. i \in H
      BY <3>1, <3>2, ErasedWord DEF LiveHeaders
    <3> QED BY <3>1, <3>2, <3>3
  <2> QED BY <2>1
<1>4. \A k \in Keys \ Held(m) : config_space_used_by_key(ws, k) = 0
  <2>1. ASSUME NEW k \in Keys \ Held(m) PROVE config_space_used_by_key(ws, k) = 0
    <3>1. config_get(ws, k) = NoValue
      BY DEF Held
    <3> QED BY <3>1, ReadKey
  <2> QED BY <2>1
<1>5. ASSUME NEW i \in H PROVE f[i] \in Held(m) /\ size[f[i]] = length[i]
  <2>1. i \in Headers(ws) /\ ws[i].key \in Keys /\ i \in Offsets
    BY <1>2, LogFacts
  <2>2. config_get(ws, ws[i].key) = Data(ws, i)
        /\ config_space_used_by_key(ws, ws[i].key) = CONFIG_TOTLEN(ws[i])
    BY <2>1, FindEntry
  <2>3. ~Lacks(ws, ws[i].key)
    BY <2>1 DEF Lacks
  <2>4. config_get(ws, ws[i].key) # NoValue
        /\ config_space_used_by_key(ws, ws[i].key) = 1 + Len(config_get(ws, ws[i].key))
    BY <2>1, <2>3, ReadKey
  <2>5. f[i] = ws[i].key /\ f[i] \in Held(m) /\ m[f[i]] = config_get(ws, ws[i].key)
    BY <2>1, <2>4 DEF Held
  <2> QED BY <2>1, <2>2, <2>4, <2>5
<1>6. f \in [H -> Held(m)]
  BY <1>5
<1>7. \A k \in Held(m) : \E i \in H : f[i] = k
  BY <1>3
<1>8. \A i, j \in H : f[i] = f[j] => i = j
  BY <1>2 DEF LiveHeaders, Tidy
<1>9. \A i \in H : size[f[i]] = length[i] /\ length[i] \in Nat
  BY <1>2, <1>5
<1>10. Needed(m) = Total(size, Held(m)) /\ TotalLength(ws, H) = Total(length, H)
  BY DEF Needed, TotalLength
<1> HIDE DEF H, length, size, f
<1>11. IsFiniteSet(Held(m)) /\ Total(size, Held(m)) = Total(length, H)
  BY <1>1, <1>6, <1>7, <1>8, <1>9, TotalRenamed
<1>12. Total(length, H) \in Nat
  BY <1>1, <1>9, TotalIsNat
<1> QED BY <1>3, <1>4, <1>10, <1>11, <1>12 DEF H

(* One more value, in the place of the one there was.                      *)
LEMMA NeededWith ==
  ASSUME NEW ws, Log(ws), Tidy(ws), NEW m, m = [k \in Keys |-> config_get(ws, k)],
         NEW k \in Keys, NEW v \in Values
  PROVE  /\ Needed([m EXCEPT ![k] = v]) \in Nat
         /\ config_space_used_by_key(ws, k) \in Nat
         /\ Needed([m EXCEPT ![k] = v]) = Needed(m) - config_space_used_by_key(ws, k) + 1 + Len(v)
<1> DEFINE d == [m EXCEPT ![k] = v]
           size == [j \in Held(m) |-> 1 + Len(m[j])]
           new == [j \in Held(d) |-> 1 + Len(d[j])]
           R == Held(m) \ {k}
<1>1. /\ IsFiniteSet(Held(m)) /\ Needed(m) \in Nat
      /\ \A j \in Held(m) : m[j] \in Seq(Word) /\ config_space_used_by_key(ws, j) = 1 + Len(m[j])
      /\ \A j \in Keys \ Held(m) : config_space_used_by_key(ws, j) = 0
  BY NeededIs
<1>2. v \in Seq(Word) /\ Len(v) \in Nat /\ v # NoValue
  BY ValuesAre
<1>3. Held(d) = R \cup {k} /\ d[k] = v /\ \A j \in R : d[j] = m[j]
  BY <1>2 DEF Held
<1>4. Held(d) \ {k} = R /\ k \in Held(d)
  BY <1>3
<1>5. \A j \in R : new[j] = 1 + Len(m[j]) /\ size[j] = 1 + Len(m[j]) /\ size[j] \in Nat
  BY <1>1, <1>3
<1>6. new[k] = 1 + Len(v)
  BY <1>3
<1>7. IsFiniteSet(R) /\ IsFiniteSet(Held(d))
  BY <1>1, <1>3, FS_Subset, FS_AddElement
<1>8. Needed(d) = Total(new, Held(d)) /\ Needed(m) = Total(size, Held(m))
  BY DEF Needed
<1>9. k \in Held(m) => size[k] = 1 + Len(m[k]) /\ size[k] \in Nat
  BY <1>1
<1> HIDE DEF new, size, d, R
<1>10. Total(new, R) = Total(size, R) /\ Total(size, R) \in Nat
  BY <1>5, <1>7, TotalSame, TotalIsNat
<1>11. Total(new, Held(d)) = 1 + Len(v) + Total(size, R)
  <2>1. \A j \in Held(d) : new[j] \in Nat
    <3>1. \A j \in R : new[j] \in Nat
      BY <1>5
    <3>2. new[k] \in Nat
      BY <1>2, <1>6
    <3>3. Held(d) = R \cup {k}
      BY <1>3
    <3> QED BY <3>1, <3>2, <3>3
  <2>2. Total(new, Held(d)) = new[k] + Total(new, Held(d) \ {k})
    BY <1>4, <1>7, <2>1, TotalTake
  <2> QED BY <1>4, <1>6, <1>10, <2>2
<1>12. CASE k \in Held(m)
  <2>1. \A j \in Held(m) : size[j] \in Nat
    BY <1>5, <1>9, <1>12 DEF R
  <2>2. Total(size, Held(m)) = size[k] + Total(size, Held(m) \ {k})
    BY <1>1, <1>12, <2>1, TotalTake
  <2>3. config_space_used_by_key(ws, k) = size[k]
    BY <1>1, <1>9, <1>12
  <2>4. Total(size, Held(m)) = size[k] + Total(size, R)
    BY <2>2 DEF R
  <2> QED BY <1>2, <1>8, <1>9, <1>10, <1>11, <1>12, <2>3, <2>4 DEF d
<1>13. CASE k \notin Held(m)
  <2>1. R = Held(m) /\ config_space_used_by_key(ws, k) = 0
    BY <1>1, <1>13 DEF R
  <2> QED BY <1>2, <1>8, <1>10, <1>11, <2>1 DEF d
<1> QED BY <1>12, <1>13

StoreSafe == PageInv /\ (~torn => StoreInv /\ Queued)

(* config_put's test for space is exact.                                   *)
LEMMA FitsExactly == StoreSafe => FitsIsExact
<1> SUFFICES ASSUME StoreSafe, phase = "idle", ~torn, NEW k \in Keys, NEW v \in Values
             PROVE  Fits(k, v) <=> Needed([Contents(flash[config_area]) EXCEPT ![k] = v])
                                     <= AreaWords - 1
  BY DEF FitsIsExact
<1> DEFINE m == Contents(flash[config_area])
<1>1. Log(Live) /\ Tidy(Live)
  BY IdlePage DEF StoreSafe, StoreNow
<1>2. m = [j \in Keys |-> config_get(Live, j)]
  BY DEF Contents, Live
<1> HIDE DEF m
<1>3. Needed(m) = TotalLength(Live, LiveHeaders(Live)) /\ Needed(m) \in Nat
  BY <1>1, <1>2, NeededIs
<1>4. /\ Needed([m EXCEPT ![k] = v]) \in Nat
      /\ config_space_used_by_key(Live, k) \in Nat
      /\ Needed([m EXCEPT ![k] = v]) = Needed(m) - config_space_used_by_key(Live, k) + 1 + Len(v)
  BY <1>1, <1>2, NeededWith
<1>5. Fits(k, v) <=> 1 + Len(v) - config_space_used_by_key(Live, k) <= AreaWords - 1 - Needed(m)
  BY <1>3 DEF Fits, config_freespace
<1>6. Len(v) \in Nat /\ AreaWords \in Nat
  BY ValuesAre, AreaAssumption
<1>7. Fits(k, v) <=> Needed([m EXCEPT ![k] = v]) <= AreaWords - 1
  <2>1. ASSUME NEW a \in Nat, NEW b \in Nat, NEW c \in Nat, NEW n \in Nat, NEW w \in Nat,
               w = n - b + 1 + a
        PROVE  1 + a - b <= c - 1 - n <=> w <= c - 1
    BY <2>1
  <2> QED BY <1>3, <1>4, <1>5, <1>6, <2>1
<1> QED BY <1>7 DEF m

(* A log that is tidy has one entry for a key.                             *)
LEMMA KeysAreUnique == StoreSafe => OneEntryPerKey
BY DEF StoreSafe, StoreInv, Logs, Tidy, W, OneEntryPerKey

(* The page in use between operations is the one config_init would choose. *)
LEMMA IdleIsDurable == StoreSafe => RunningIsDurable
<1> SUFFICES ASSUME StoreSafe, phase = "idle", ~torn
             PROVE  Contents(flash[config_area]) = Recovered
  BY DEF RunningIsDurable
<1>1. Logs /\ flash \in [Areas -> Page] /\ config_area \in Areas
      /\ flash[config_area].magic = "magic" /\ flash[Other(config_area)].magic # "magic"
  BY DEF StoreSafe, StoreInv, PageInv, PagesOK, Formatted, Alone
<1>2. ChosenArea(flash) = config_area
  BY <1>1, ValidPages
<1>3. config_area # 0
  BY <1>1 DEF Areas
<1> QED BY <1>2, <1>3 DEF Recovered

(* A torn store stays torn.                                                *)
LEMMA TornStays == ASSUME [Next]_vars, torn PROVE torn'
BY DEF Next, vars, job, InitFormat, config_init_area, InitOne, InitBoth, CompactErase, CompactMagic,
       CompactCopy, CompactRetire, PutAtOnce, PutBegin, PutWrite, PutCompact, PutReturn,
       config_delete, DeleteReturn, flash_write, PowerLoss

(* The invariant holds at first ...                                        *)
LEMMA StoreSafeInit == Init => StoreSafe
BY PageInit, StoreInit DEF StoreSafe

(* ... and is kept, or the store is torn and only the magic words are      *)
(* safe.                                                                   *)
LEMMA StoreSafeStep == StoreSafe /\ [Next]_vars => StoreSafe'
<1> SUFFICES ASSUME StoreSafe, [Next]_vars PROVE StoreSafe'
  OBVIOUS
<1>1. PageInv'
  BY PageStep DEF StoreSafe
<1>2. ASSUME ~torn' PROVE StoreInv' /\ Queued'
  <2>1. ~torn
    BY <1>2, TornStays
  <2>2. StoreNow
    BY <2>1 DEF StoreSafe, StoreNow
  <2> QED BY <1>2, <2>2, StoreStep
<1> QED BY <1>1, <1>2 DEF StoreSafe

(* The value that has been appended is the one config_get reads.           *)
LEMMA AppendedIsRead ==
  ASSUME StoreNow, phase = "write", queue = << >>
  PROVE  config_get(Live, key) = value
<1> USE DEF StoreNow, StoreInv, PageInv, PagesOK
<1>1. Log(Live) /\ Tidy(Live)
  BY DEF Logs, W, Live, Formatted
<1>2. key \in Keys /\ value \in Values /\ value \in Seq(Word)
  BY ValuesAre DEF Jobs
<1>3. PICK i \in Headers(Live) : /\ Live[i] = Header(key, Len(value))
                                 /\ \A d \in 1 .. Len(value) : Live[i + d] = value[d]
  BY DEF Writing, Appended
<1>4. Live[i].key = key /\ CONFIG_LENGTH(Live[i]) = Len(value)
  BY <1>2, <1>3, HeaderIs
<1>5. Data(Live, i) = [d \in 1 .. Len(value) |-> value[d]]
  BY <1>3, <1>4 DEF Data
<1>6. value = [d \in 1 .. Len(value) |-> value[d]]
  BY <1>2
<1>7. config_get(Live, key) = Data(Live, i)
  BY <1>1, <1>2, <1>4, FindEntry
<1> QED BY <1>5, <1>6, <1>7

(* config_put leaves its write by returning, while the power stays on.     *)
LEMMA WriteEnds ==
  ASSUME Next, phase = "write", phase' = "idle" PROVE PutReturn
BY DEF Next, InitFormat, config_init_area, InitOne, InitBoth, CompactErase, CompactMagic,
       CompactCopy, CompactRetire, PutAtOnce, PutBegin, PutWrite, PutCompact, PutReturn,
       config_delete, DeleteReturn, flash_write, PowerLoss

(* Then its value can be read.                                             *)
LEMMA StoredStep ==
  ASSUME StoreNow, [Next]_vars, phase = "write", phase' = "idle"
  PROVE  config_get(flash'[config_area'].words, key) = value
<1>1. PutReturn
  BY WriteEnds DEF vars
<1>2. queue = << >> /\ flash' = flash /\ config_area' = config_area
  BY <1>1 DEF PutReturn, ram
<1> QED BY <1>2, AppendedIsRead DEF Live

-----------------------------------------------------------------------------
(* The map that the pages hold.                                            *)

(* A key is read alike in two pages that have the same entries under it.   *)
LEMMA GetSame ==
  ASSUME NEW ws, Log(ws), Tidy(ws), NEW vs, Log(vs), Tidy(vs), NEW k \in Keys,
         \A h \in Headers(ws) : ws[h].key = k => \E j \in Headers(vs) : Same(ws, h, vs, j),
         \A j \in Headers(vs) : vs[j].key = k => \E h \in Headers(ws) : Same(ws, h, vs, j)
  PROVE  config_get(vs, k) = config_get(ws, k)
<1>1. CASE Lacks(ws, k)
  <2>1. ASSUME NEW j \in Headers(vs), vs[j].key = k PROVE FALSE
    <3>1. PICK h \in Headers(ws) : Same(ws, h, vs, j)
      BY <2>1
    <3>2. vs[j] = ws[h]
      BY <3>1, SameHeader, LogFacts
    <3> QED BY <1>1, <2>1, <3>2 DEF Lacks
  <2>2. Lacks(vs, k)
    BY <2>1 DEF Lacks
  <2> QED BY <1>1, <2>2, FindNone
<1>2. CASE ~Lacks(ws, k)
  <2>1. PICK h \in Headers(ws) : ws[h].key = k
    BY <1>2 DEF Lacks
  <2>2. PICK j \in Headers(vs) : Same(ws, h, vs, j)
    BY <2>1
  <2>3. vs[j] = ws[h]
    BY <2>2, SameHeader, LogFacts
  <2>4. config_get(ws, k) = Data(ws, h) /\ config_get(vs, k) = Data(vs, j)
    BY <2>1, <2>3, FindEntry
  <2>5. PICK n \in Nat : n = CONFIG_LENGTH(ws[h]) /\ n = CONFIG_LENGTH(vs[j])
    BY <2>3, LogFacts
  <2>6. \A d \in 0 .. n : vs[j + d] = ws[h + d]
    BY <2>2, <2>5 DEF Same
  <2>7. Data(vs, j) = Data(ws, h)
    <3>1. \A d \in 1 .. n : d \in 0 .. n
      OBVIOUS
    <3>2. \A d \in 1 .. n : vs[j + d] = ws[h + d]
      BY <2>6, <3>1
    <3> QED BY <2>5, <3>2 DEF Data
  <2> QED BY <2>4, <2>7
<1> QED BY <1>1, <1>2

(* Programming a header, or a word behind the log, leaves the other        *)
(* entries alone.                                                          *)
LEMMA EntryKept ==
  ASSUME NEW ws, Log(ws), NEW h \in Headers(ws), NEW x \in Nat, NEW vs,
         x # h, x \in Headers(ws) \/ x >= End(ws),
         \A j \in Offsets : j # x => vs[j] = ws[j]
  PROVE  Same(ws, h, vs, h) /\ vs[h] = ws[h]
<1>1. PICK n \in Nat, e \in Nat :
        /\ n = CONFIG_LENGTH(ws[h]) /\ e = End(ws) /\ h \in Nat
        /\ h + 1 + n <= e /\ e <= AreaWords - 1 /\ AreaWords \in Nat
        /\ \A j \in Headers(ws) : j \in Nat /\ (h < j => h + 1 + n <= j)
  <2>1. /\ CONFIG_LENGTH(ws[h]) \in Nat /\ End(ws) \in Nat
        /\ Skip(ws, h) = h + 1 + CONFIG_LENGTH(ws[h]) /\ Skip(ws, h) <= End(ws)
        /\ End(ws) <= AreaWords - 1 /\ AreaWords \in Nat /\ h \in Nat
        /\ \A j \in Headers(ws) : j \in Nat /\ (h < j => Skip(ws, h) <= j)
    BY LogFacts
  <2> QED BY <2>1
<1>2. ASSUME NEW d \in 0 .. n PROVE h + d \in Offsets /\ h + d # x
  <2>1. h + d \in Offsets /\ h + d < e /\ h + d < h + 1 + n /\ h + d >= h
    BY <1>1 DEF Offsets
  <2>2. x \in Headers(ws) /\ h < x => h + 1 + n <= x
    BY <1>1
  <2>3. CASE x < h
    BY <1>1, <2>1, <2>3
  <2>4. CASE x > h
    BY <1>1, <2>1, <2>2, <2>4
  <2> QED BY <1>1, <2>1, <2>3, <2>4
<1>3. \A d \in 0 .. n : vs[h + d] = ws[h + d]
  BY <1>2
<1>4. Same(ws, h, vs, h)
  BY <1>1, <1>3 DEF Same
<1> QED BY <1>1, <1>4, SameHeader

PageMap(ws) == [k \in Keys |-> config_get(ws, k)]

(* A deletion removes its key from the map and no other.                   *)
LEMMA NulledMap ==
  ASSUME NEW ws, Log(ws), Tidy(ws), NEW k \in Keys, NEW i \in Headers(ws), ws[i].key = k,
         NEW vs \in Pages,
         \A j \in Offsets : vs[j] = IF j = i THEN Program(ws[i], NullKey) ELSE ws[j]
  PROVE  PageMap(vs) = [PageMap(ws) EXCEPT ![k] = NoValue]
<1>1. /\ Log(vs) /\ Tidy(vs) /\ Headers(vs) = Headers(ws) /\ Lacks(vs, k)
      /\ vs[i].key = CONFIG_KEY_INVALID
  BY Nulled
<1>2. config_get(vs, k) = NoValue
  BY <1>1, FindNone
<1>3. ASSUME NEW j \in Keys, j # k PROVE config_get(vs, j) = config_get(ws, j)
  <2>1. ASSUME NEW h \in Headers(ws), h # i PROVE Same(ws, h, vs, h) /\ vs[h] = ws[h]
    <3>1. i \in Nat
      BY LogFacts
    <3> QED BY <2>1, <3>1, EntryKept
  <2>2. \A h \in Headers(ws) : ws[h].key = j => Same(ws, h, vs, h)
    BY <1>3, <2>1
  <2>3. \A h \in Headers(vs) : vs[h].key = j => Same(ws, h, vs, h)
    BY <1>1, <1>3, <2>1, ErasedWord
  <2> QED BY <1>1, <2>2, <2>3, GetSame
<1> QED BY <1>2, <1>3 DEF PageMap

(* The data of an entry without a header do not change the map.            *)
LEMMA DataMap ==
  ASSUME NEW ws, Log(ws), Tidy(ws), NEW x \in Nat, x > End(ws), NEW vs \in Pages,
         \A j \in Offsets : j # x => vs[j] = ws[j]
  PROVE  PageMap(vs) = PageMap(ws)
<1>1. \A h \in Headers(ws) : Same(ws, h, vs, h) /\ vs[h] = ws[h]
  <2>1. \A h \in Headers(ws) : h \in Nat /\ h < End(ws)
    BY LogFacts
  <2>2. End(ws) \in Nat
    BY LogFacts
  <2>3. ASSUME NEW h \in Headers(ws) PROVE x # h /\ x >= End(ws)
    <3>1. h \in Nat /\ h < End(ws)
      BY <2>1
    <3> QED BY <2>2, <3>1
  <2> QED BY <2>3, EntryKept
<1>2. vs[End(ws)] = ws[End(ws)]
  BY LogFacts
<1>3. Log(vs) /\ Tidy(vs) /\ Headers(vs) = Headers(ws)
  BY <1>1, <1>2, DataAppended
<1>4. ASSUME NEW k \in Keys PROVE config_get(vs, k) = config_get(ws, k)
  BY <1>1, <1>3, GetSame
<1> QED BY <1>4 DEF PageMap

(* The header adds its key.                                                *)
LEMMA HeaderMap ==
  ASSUME NEW ws, Log(ws), Tidy(ws), NEW k \in Keys, NEW vs, Log(vs), Tidy(vs),
         Headers(vs) = Headers(ws) \cup {End(ws)}, vs[End(ws)].key = k,
         \A j \in Offsets : j # End(ws) => vs[j] = ws[j]
  PROVE  PageMap(vs) = [PageMap(ws) EXCEPT ![k] = config_get(vs, k)]
<1>1. \A h \in Headers(ws) : Same(ws, h, vs, h) /\ vs[h] = ws[h]
  <2>1. End(ws) \in Nat /\ End(ws) >= End(ws)
    BY LogFacts
  <2>2. \A h \in Headers(ws) : End(ws) # h
    BY LogFacts
  <2> QED BY <2>1, <2>2, EntryKept
<1>2. ASSUME NEW j \in Keys, j # k PROVE config_get(vs, j) = config_get(ws, j)
  <2>1. \A h \in Headers(vs) : vs[h].key = j => h \in Headers(ws)
    BY <1>2
  <2> QED BY <1>1, <2>1, GetSame
<1> QED BY <1>2 DEF PageMap

(* The complete copy of a page holds the same map.                         *)
LEMMA CopyMap ==
  ASSUME NEW ws, Log(ws), Tidy(ws), NEW vs, Log(vs), Tidy(vs), Copied(ws, End(ws), vs, End(vs))
  PROVE  PageMap(vs) = PageMap(ws)
<1>1. /\ \A h \in Headers(ws) : h < End(ws)
      /\ \A j \in Headers(vs) : j < End(vs)
  BY LogFacts
<1>2. ASSUME NEW k \in Keys PROVE config_get(vs, k) = config_get(ws, k)
  <2>1. \A h \in Headers(ws) : ws[h].key = k => \E j \in Headers(vs) : Same(ws, h, vs, j)
    BY <1>1, ErasedWord DEF Copied
  <2>2. \A j \in Headers(vs) : vs[j].key = k => \E h \in Headers(ws) : Same(ws, h, vs, j)
    BY <1>1 DEF Copied
  <2> QED BY <2>1, <2>2, GetSame
<1> QED BY <1>2 DEF PageMap

(* An erased page holds the empty map.                                     *)
LEMMA BlankMap == PageMap(Blank.words) = Empty
<1>1. \A k \in Keys : Lacks(Blank.words, k)
  BY LogBlank DEF Lacks
<1> QED BY <1>1, FindNone DEF PageMap, Empty

(* What the page in use holds while an operation is in progress.           *)
Removed == [before EXCEPT ![key] = NoValue]
MapInv ==
    /\ phase \in {"place", "delete"} /\ queue # << >> => PageMap(Live) = before
    /\ \/ phase \in {"place", "delete"} /\ queue = << >>
       \/ phase \in {"erase", "magic", "copy", "replace"}
       \/ phase = "write" /\ queue # << >>
       => PageMap(Live) = Removed
    /\ phase = "write" /\ queue = << >> => PageMap(Live) = [before EXCEPT ![key] = value]

(* What a start-up would find, when the page in use is the one formatted.  *)
LEMMA InUse ==
  ASSUME StoreNow, phase \notin {"off", "format", "copy"}
  PROVE  Recovered = PageMap(Live)
<1> USE DEF StoreNow, StoreInv, PageInv, PagesOK
<1>1. flash[config_area].magic = "magic" /\ flash[Other(config_area)].magic # "magic"
  BY DEF Formatted, Alone
<1>2. ChosenArea(flash) = config_area
  BY <1>1, ValidPages
<1>3. config_area # 0
  BY DEF Areas
<1> QED BY <1>2, <1>3 DEF Recovered, Contents, PageMap, Live

(* One word more or less of a write in progress keeps MapInv.              *)
LEMMA WriteMap ==
  ASSUME StoreNow, StoreNow', MapInv, flash_write PROVE MapInv'
<1> USE DEF StoreNow, StoreInv, PageInv, PagesOK
<1>1. /\ phase' = phase /\ key' = key /\ value' = value /\ before' = before
      /\ queue # << >> /\ queue' = Tail(queue)
  BY DEF flash_write, job
<1>2. phase \in {"place", "delete", "write", "copy"}
  BY <1>1 DEF Jobs
<1>3. CASE phase \in {"place", "delete"}
  <2>1. PICK i \in Headers(Live) :
           /\ Live[i].key = key /\ Live' \in Pages /\ queue' = << >>
           /\ \A j \in Offsets : Live'[j] = IF j = i THEN Program(Live[i], NullKey) ELSE Live[j]
    BY <1>3, DeleteWritten
  <2>2. Log(Live) /\ Tidy(Live) /\ key \in Keys
    BY <1>3, IdlePage DEF Jobs
  <2>3. PageMap(Live') = [PageMap(Live) EXCEPT ![key] = NoValue]
    BY <2>1, <2>2, NulledMap
  <2>4. PageMap(Live)' = Removed'
    BY <1>1, <1>3, <2>3 DEF MapInv, Removed, PageMap
  <2> QED BY <1>1, <1>3, <2>1, <2>4 DEF MapInv
<1>4. CASE phase = "write"
  <2>1. PICK n \in Nat, i \in Offsets, w \in Word :
           /\ Appending(Live, n)
           /\ \/ n < Len(value) /\ i = End(Live) + n + 1 /\ w = value[n + 1]
              \/ n = Len(value) /\ i = End(Live) /\ w = Header(key, Len(value))
           /\ Live' \in Pages
           /\ \A j \in Offsets : Live'[j] = IF j = i THEN w ELSE Live[j]
    BY <1>4, AppendWritten
  <2>2. Log(Live) /\ Tidy(Live)
    BY <1>4 DEF Logs, W, Live, Formatted
  <2>3. PICK L \in Nat : L = Len(value) /\ value \in Values /\ key \in Keys
    BY <1>4, ValuesAre DEF Jobs
  <2>4. Len(queue) = L + 1 - n /\ queue # << >> /\ n \in Nat
    BY <1>1, <2>1, <2>3 DEF Appending
  <2>5. Len(queue') = L - n /\ (queue' = << >> <=> L - n = 0)
    <3>1. Tail(queue) \in Seq(Commands) /\ Len(Tail(queue)) = Len(queue) - 1
      BY <1>1, TailIs DEF Queued, Commands
    <3>2. \A q \in Seq(Commands) : q = << >> <=> Len(q) = 0
      OBVIOUS
    <3>3. L + 1 - n - 1 = L - n
      BY <2>3, <2>4
    <3>4. Len(Tail(queue)) = L - n
      BY <2>4, <3>1, <3>3
    <3>5. Tail(queue) = << >> <=> L - n = 0
      BY <3>1, <3>2, <3>4
    <3> QED BY <1>1, <3>4, <3>5
  <2>6. CASE n < L
    <3>1. i > End(Live) /\ i \in Nat
      BY <2>1, <2>2, <2>3, <2>6, LogFacts DEF Offsets
    <3>2. \A j \in Offsets : j # i => Live'[j] = Live[j]
      BY <2>1
    <3>3. PageMap(Live') = PageMap(Live)
      BY <2>1, <2>2, <3>1, <3>2, DataMap
    <3>4. queue' # << >>
      BY <2>3, <2>5, <2>6
    <3>5. PageMap(Live)' = Removed'
      BY <1>1, <1>4, <3>3 DEF MapInv, Removed, PageMap
    <3> QED BY <1>1, <1>4, <3>4, <3>5 DEF MapInv
  <2>7. CASE n = L
    <3>1. i = End(Live) /\ w = Header(key, L) /\ queue' = << >>
      BY <2>1, <2>3, <2>5, <2>7
    <3>2. Log(Live') /\ Tidy(Live')
      BY <1>1, <1>4 DEF Logs, W, Live, Formatted
    <3>3. Headers(Live') = Headers(Live) \cup {End(Live)}
      <4>1. PICK e \in Nat : e = End(Live) /\ e \in Offsets /\ e + L + 1 <= AreaWords - 1
        BY <2>1, <2>2, <2>3, LogFacts DEF Appending
      <4>2. \A j \in Offsets : j = e \/ j > e + L => Live[j] = Erased
        BY <2>1, <2>7, <4>1 DEF Appending
      <4>3. /\ \A j \in Offsets : j < e => Live'[j] = Live[j]
            /\ \A j \in Offsets : j > e + L => Live'[j] = Erased
            /\ Live'[e] = w
        <5>1. \A j \in Offsets : j < e \/ j > e + L => j # e
          BY <4>1 DEF Offsets
        <5> QED BY <2>1, <3>1, <4>1, <4>2, <5>1
      <4>4. w \in Word /\ CONFIG_LENGTH(w) = L /\ w.key # CONFIG_KEY_UNPROGRAMMED
        BY <2>3, <3>1, HeaderIs, ErasedWord
      <4> QED BY <2>1, <2>2, <2>3, <4>1, <4>3, <4>4, EntryAppended
    <3>4. Live'[End(Live)].key = key /\ \A j \in Offsets : j # End(Live) => Live'[j] = Live[j]
      <4>1. Live'[End(Live)] = Header(key, L)
        BY <2>1, <3>1
      <4> QED BY <2>1, <2>3, <3>1, <4>1, HeaderIs
    <3>5. PageMap(Live') = [PageMap(Live) EXCEPT ![key] = config_get(Live', key)]
      BY <2>2, <2>3, <3>2, <3>3, <3>4, HeaderMap
    <3>6. config_get(Live, key)' = value'
      <4>1. (StoreNow /\ phase = "write" /\ queue = << >> => config_get(Live, key) = value)'
        BY AppendedIsRead, PTL
      <4> QED BY <1>1, <1>4, <3>1, <4>1
    <3>7. PageMap(Live') = [PageMap(Live) EXCEPT ![key] = value]
      BY <1>1, <3>5, <3>6
    <3>8. PageMap(Live)' = [before EXCEPT ![key] = value]
      BY <1>1, <1>4, <3>7 DEF MapInv, Removed, PageMap
    <3> QED BY <1>1, <1>4, <3>1, <3>8 DEF MapInv
  <2> QED BY <2>1, <2>3, <2>6, <2>7
<1>5. CASE phase = "copy"
  <2>1. Live' = Live
    BY <1>5, CopyWriteStore
  <2> QED BY <1>1, <1>5, <2>1 DEF MapInv, PageMap, Removed
<1> QED BY <1>2, <1>3, <1>4, <1>5

(* So does every other step.                                               *)
LEMMA MapStep ==
  ASSUME StoreNow, StoreNow', MapInv, [Next]_vars PROVE MapInv'
<1> USE DEF StoreNow, StoreInv, PageInv, PagesOK
<1>1. CASE InitFormat \/ config_init_area \/ InitOne \/ InitBoth
  <2>1. phase' \in {"format", "idle"}
    BY <1>1, InitBothKeeps DEF InitFormat, config_init_area, InitOne
  <2> QED BY <2>1 DEF MapInv
<1>2. CASE CompactErase \/ CompactMagic \/ CompactCopy
  <2>1. /\ phase \in {"erase", "magic", "copy"} /\ phase' \in {"magic", "copy"}
        /\ config_area' = config_area /\ key' = key /\ before' = before
    BY <1>2 DEF CompactErase, CompactMagic, CompactCopy, ram, job
  <2>2. flash'[config_area].words = flash[config_area].words
    <3>1. CASE CompactErase
      BY <3>1, OtherArea DEF CompactErase
    <3>2. CASE CompactMagic
      BY <3>2, OtherArea, SetMagic DEF CompactMagic
    <3>3. CASE CompactCopy
      BY <3>3 DEF CompactCopy
    <3> QED BY <1>2, <3>1, <3>2, <3>3
  <2>3. Live' = Live
    BY <2>1, <2>2 DEF Live
  <2> QED BY <2>1, <2>3 DEF MapInv, Removed, PageMap
<1>3. CASE CompactRetire
  <2>1. /\ phase = "copy" /\ phase' = "replace" /\ key' = key /\ before' = before
        /\ Live' = Spare(config_area)
        /\ Copied(Live, End(Live), Spare(config_area), End(Spare(config_area)))
    BY <1>3, CopyDone DEF CompactRetire, job
  <2>2. PageMap(Live') = PageMap(Live)
    BY <2>1, CopyPages, CopyMap
  <2> QED BY <2>1, <2>2 DEF MapInv, Removed, PageMap
<1>4. ASSUME NEW k \in Keys, NEW v \in Values \cup {NoValue},
             phase = "idle", phase' \in {"place", "delete"}, queue' = Deletion(k),
             flash' = flash, config_area' = config_area, Call(k, v)
      PROVE  MapInv'
  <2>1. /\ key' = k /\ before' = PageMap(Live) /\ Live' = Live
    BY <1>4, InUse DEF Call, Live
  <2>2. Log(Live) /\ Tidy(Live)
    BY <1>4, IdlePage
  <2>3. queue' = << >> => PageMap(Live) = [PageMap(Live) EXCEPT ![k] = NoValue]
    <3>1. ASSUME NEW i, Deletion(k) = <<Write(config_area, i, NullKey)>> PROVE Deletion(k) # << >>
      BY <3>1
    <3>2. queue' = << >> => config_get(Live, k) = NoValue
      BY <1>4, <2>2, <3>1, DeletionIs, FindNone
    <3> QED BY <3>2 DEF PageMap
  <2> QED BY <1>4, <2>1, <2>3 DEF MapInv, Removed, PageMap
<1>5. ASSUME NEW k \in Keys, NEW v \in Values, PutAtOnce(k, v) PROVE MapInv'
  BY <1>5 DEF PutAtOnce, MapInv
<1>6. ASSUME NEW k \in Keys, NEW v \in Values, PutBegin(k, v) PROVE MapInv'
  BY <1>4, <1>6 DEF PutBegin, ram
<1>7. ASSUME NEW k \in Keys, config_delete(k) PROVE MapInv'
  BY <1>4, <1>7 DEF config_delete, ram
<1>8. CASE PutWrite
  <2>1. /\ phase \in {"place", "replace"} /\ phase' = "write" /\ queue = << >>
        /\ flash' = flash /\ config_area' = config_area /\ key' = key /\ value' = value
        /\ before' = before
    BY <1>8 DEF PutWrite, ram, job
  <2>2. Live' = Live
    BY <2>1 DEF Live
  <2>3. Lacks(Live, key) /\ key \in Keys /\ value \in Values
    BY <2>1 DEF Deleting, Jobs
  <2>4. queue' # << >>
    <3>1. queue' = << >> => Appended(Live)'
      BY <2>1 DEF Writing
    <3>2. ~Appended(Live)
      BY <2>3, HeaderIs DEF Appended, Lacks
    <3>3. Appended(Live)' <=> Appended(Live)
      BY <2>1, <2>2 DEF Appended
    <3> QED BY <3>1, <3>2, <3>3
  <2> QED BY <2>1, <2>2, <2>4 DEF MapInv, Removed, PageMap
<1>9. CASE PutCompact
  <2>1. /\ phase = "place" /\ phase' = "erase" /\ queue = << >>
        /\ flash' = flash /\ config_area' = config_area /\ key' = key /\ before' = before
    BY <1>9 DEF PutCompact, job
  <2>2. Live' = Live
    BY <2>1 DEF Live
  <2> QED BY <2>1, <2>2 DEF MapInv, Removed, PageMap
<1>10. CASE PutReturn \/ DeleteReturn
  BY <1>10 DEF PutReturn, DeleteReturn, Return, MapInv
<1>11. CASE flash_write
  BY <1>11, WriteMap
<1>12. CASE PowerLoss
  BY <1>12 DEF PowerLoss, MapInv
<1>13. CASE UNCHANGED vars
  BY <1>13 DEF vars, MapInv, Removed, PageMap, Live
<1> QED BY <1>1, <1>2, <1>3, <1>5, <1>6, <1>7, <1>8, <1>9, <1>10, <1>11, <1>12, <1>13 DEF Next

-----------------------------------------------------------------------------
(* config_compact copies no page that is filled up to its last word.       *)
RoomWhileCopying == phase = "copy" => config_findfree(Live) >= 0

(* Until the copy is complete the page it is made from has more entries,   *)
(* and is the one config_init would keep.                                  *)
LEMMA DurableIs ==
  ASSUME StoreNow, RoomWhileCopying
  PROVE  /\ phase = "format" => Recovered = Empty
         /\ phase \notin {"off", "format"} => Recovered = PageMap(Live)
<1> USE DEF StoreNow, StoreInv, PageInv, PagesOK
<1>1. CASE phase = "format"
  <2>1. \A a \in Areas : flash[a].magic # "magic"
    BY <1>1, OtherArea, BlankPage DEF Alone
  <2>2. \A a \in Areas : ~config_valid(flash[a])
    BY <2>1, ValidPages
  <2>3. ChosenArea(flash) = 0
    BY <2>2 DEF ChosenArea, Areas
  <2> QED BY <1>1, <2>3 DEF Recovered
<1>2. CASE phase = "copy"
  <2>1. /\ flash[config_area].magic = "magic" /\ flash[Other(config_area)].magic = "magic"
        /\ Log(Live) /\ Log(Spare(config_area))
        /\ End(Spare(config_area)) < End(Live)
    BY <1>2, CopyPages, CopyShorter
  <2>2. Live = W(config_area) /\ Spare(config_area) = W(Other(config_area))
        /\ Other(config_area) \in Areas
    BY OtherArea DEF Live, W, Spare
  <2>3. config_findfree(Live) >= 0
    BY <1>2 DEF RoomWhileCopying
  <2>4. config_findfree(Live) = End(Live) /\ config_findfree(Spare(config_area)) = End(Spare(config_area))
    <3>1. End(Live) \in Nat /\ End(Spare(config_area)) \in Nat /\ End(Live) <= AreaWords - 1 /\ AreaWords \in Nat
      BY <2>1, LogFacts
    <3>2. End(Spare(config_area)) < AreaWords - 1
      BY <2>1, <3>1
    <3> QED BY <2>1, <2>3, <3>1, <3>2, LogFacts
  <2>5. config_findfree(W(config_area)) > config_findfree(W(Other(config_area)))
    BY <2>1, <2>2, <2>4, LogFacts
  <2>6. \A a \in Areas : flash[a].magic = "magic"
    BY <2>1, OtherArea
  <2>7. ChosenArea(flash) = config_area
    BY <2>5, <2>6, ValidPages
  <2>8. config_area # 0
    BY DEF Areas
  <2> QED BY <1>2, <2>7, <2>8 DEF Recovered, Contents, PageMap, Live
<1>3. CASE phase \notin {"off", "format", "copy"}
  BY <1>3, InUse
<1> QED BY <1>1, <1>2, <1>3

(* The variables of ConfigMap, as the store implements them.               *)
mapVars == <<Recovered, key, value, before, result, torn>>

(* What a start-up would find, phase by phase.                             *)
LEMMA PhaseMap ==
  ASSUME StoreNow, RoomWhileCopying, MapInv
  PROVE  /\ phase = "idle" => Recovered = PageMap(Live) /\ key = CONFIG_KEY_INVALID
         /\ phase \in {"place", "delete"} /\ queue # << >> => Recovered = before
         /\ phase \in {"place", "delete"} /\ queue = << >> => Recovered = Removed
         /\ phase \in {"erase", "magic", "copy", "replace"} => Recovered = Removed
         /\ phase = "write" /\ queue # << >> => Recovered = Removed
         /\ phase = "write" /\ queue = << >> => Recovered = [before EXCEPT ![key] = value]
<1> USE DEF StoreNow, StoreInv
<1>1. phase \notin {"off", "format"} => Recovered = PageMap(Live)
  BY DurableIs
<1>2. phase = "idle" => key = CONFIG_KEY_INVALID
  BY DEF Jobs
<1> QED BY <1>1, <1>2 DEF MapInv

(* No caller uses the key of a deleted entry.                              *)
LEMMA InvalidKey == CONFIG_KEY_INVALID \notin Keys
BY WordAssumption

(* config_init does not change the map ...                                 *)
LEMMA StartUpMap ==
  ASSUME StoreNow, StoreNow', RoomWhileCopying, RoomWhileCopying',
         InitFormat \/ config_init_area \/ InitOne \/ InitBoth
  PROVE  UNCHANGED mapVars
<1>1. /\ (phase = "format" => Recovered = Empty)'
      /\ (phase \notin {"off", "format"} => Recovered = PageMap(Live))'
  <2>1. (StoreNow /\ RoomWhileCopying =>
           /\ phase = "format" => Recovered = Empty
           /\ phase \notin {"off", "format"} => Recovered = PageMap(Live))'
    BY DurableIs, PTL
  <2> QED BY <2>1
<1> USE DEF StoreNow, StoreInv, PageInv, PagesOK
<1>2. UNCHANGED <<key, value, before, result, torn>>
  BY DEF InitFormat, config_init_area, InitOne, InitBoth, job
<1>3. CASE InitFormat
  <2>1. Recovered = Empty /\ phase' = "format"
    BY <1>3 DEF InitFormat, Recovered
  <2> QED BY <1>2, <1>1, <2>1 DEF mapVars
<1>4. CASE config_init_area
  <2>1. phase = "format" /\ phase' = "idle" /\ config_area' = config_area
        /\ flash' = [flash EXCEPT ![config_area].magic = "magic"]
    BY <1>4 DEF config_init_area, ram
  <2>2. Recovered = Empty
    BY <2>1, DurableIs
  <2>3. flash[config_area] = Blank
    BY <2>1 DEF Alone
  <2>4. flash'[config_area].words = Blank.words
    BY <2>1, <2>3, SetMagic
  <2>5. PageMap(Live)' = PageMap(Blank.words)
    BY <2>1, <2>4 DEF PageMap, Live
  <2>6. Recovered' = Empty
    BY <1>1, <2>1, <2>5, BlankMap
  <2> QED BY <1>2, <2>2, <2>6 DEF mapVars
<1>5. CASE InitOne
  BY <1>2, <1>5 DEF InitOne, mapVars, Recovered
<1>6. CASE InitBoth
  <2>1. /\ config_area' = ChosenArea(flash) /\ flash' = [flash EXCEPT ![Other(ChosenArea(flash))] = Blank]
        /\ phase' \in {"idle", "erase"} /\ \A a \in Areas : flash[a].magic = "magic"
    BY <1>6, ValidPages DEF InitBoth
  <2>2. ChosenArea(flash) \in Areas /\ ChosenArea(flash) # 0
    BY <2>1, ValidPages DEF Areas
  <2>3. flash'[ChosenArea(flash)] = flash[ChosenArea(flash)]
    BY <2>1, <2>2, OtherArea
  <2>4. Recovered = PageMap(flash[ChosenArea(flash)].words)
    BY <2>2 DEF Recovered, Contents, PageMap
  <2>5. PageMap(Live)' = PageMap(flash[ChosenArea(flash)].words)
    BY <2>1, <2>3 DEF PageMap, Live
  <2> QED BY <1>2, <1>1, <2>1, <2>4, <2>5 DEF mapVars
<1> QED BY <1>3, <1>4, <1>5, <1>6

(* ... and no step of config_compact does, nor do the calls of it.         *)
LEMMA CompactionMap ==
  ASSUME StoreNow, StoreNow', RoomWhileCopying, RoomWhileCopying', MapInv, MapInv',
         \/ CompactErase \/ CompactMagic \/ CompactCopy \/ CompactRetire
         \/ PutWrite \/ PutCompact
  PROVE  UNCHANGED mapVars
<1>1. UNCHANGED <<key, value, before, result, torn>>
  BY DEF CompactErase, CompactMagic, CompactCopy, CompactRetire, PutWrite, PutCompact, job
<1>2. \/ phase \in {"erase", "magic", "copy", "replace"}
      \/ phase = "place" /\ queue = << >>
  BY DEF CompactErase, CompactMagic, CompactCopy, CompactRetire, PutWrite, PutCompact
<1>3. \/ phase' \in {"erase", "magic", "copy", "replace"}
      \/ phase' = "write" /\ queue' # << >>
  <2>1. CASE PutWrite
    <3>1. phase' = "write" /\ flash' = flash /\ config_area' = config_area /\ key' = key /\ value' = value
      BY <2>1 DEF PutWrite, ram, job
    <3>2. Lacks(Live, key) /\ key \in Keys /\ value \in Values
      BY <2>1 DEF PutWrite, StoreNow, StoreInv, Deleting, Jobs
    <3>3. ~Appended(Live)
      BY <3>2, HeaderIs DEF Appended, Lacks
    <3>4. Appended(Live)' <=> Appended(Live)
      BY <3>1 DEF Appended, Live
    <3>5. queue' = << >> => Appended(Live)'
      BY <3>1 DEF StoreNow, StoreInv, Writing
    <3> QED BY <3>1, <3>3, <3>4, <3>5
  <2>2. CASE CompactErase \/ CompactMagic \/ CompactCopy \/ PutCompact
    BY <2>2 DEF CompactErase, CompactMagic, CompactCopy, PutCompact
  <2>3. CASE CompactRetire
    BY <2>3 DEF CompactRetire, StoreNow, StoreInv, Jobs
  <2> QED BY <2>1, <2>2, <2>3
<1>4. Recovered = Removed
  BY <1>2, PhaseMap
<1>5. Recovered' = Removed'
  <2>1. (StoreNow /\ RoomWhileCopying /\ MapInv =>
           /\ phase = "idle" => Recovered = PageMap(Live) /\ key = CONFIG_KEY_INVALID
           /\ phase \in {"place", "delete"} /\ queue # << >> => Recovered = before
           /\ phase \in {"place", "delete"} /\ queue = << >> => Recovered = Removed
           /\ phase \in {"erase", "magic", "copy", "replace"} => Recovered = Removed
           /\ phase = "write" /\ queue # << >> => Recovered = Removed
           /\ phase = "write" /\ queue = << >> => Recovered = [before EXCEPT ![key] = value])'
    BY PhaseMap, PTL
  <2> QED BY <1>3, <2>1
<1>6. Removed' = Removed
  BY <1>1 DEF Removed
<1> QED BY <1>1, <1>4, <1>5, <1>6 DEF mapVars

(* The calls and the returns of config_put and config_delete are those of  *)
(* ConfigMap.                                                              *)
LEMMA OperationMap ==
  ASSUME StoreNow, RoomWhileCopying, MapInv,
         \/ \E k \in Keys, v \in Values : PutAtOnce(k, v) \/ PutBegin(k, v)
         \/ \E k \in Keys : config_delete(k)
         \/ PutReturn \/ DeleteReturn
  PROVE  ImplementsMap!Next
<1>1. ASSUME NEW k \in Keys, NEW v \in Values, PutAtOnce(k, v) PROVE ImplementsMap!AtOnce
  <2>1. /\ phase = "idle" /\ UNCHANGED <<Recovered, key, value, before, torn>>
        /\ result' \in {"stored", "refused"}
    BY <1>1 DEF PutAtOnce, Recovered
  <2>2. Recovered = PageMap(Live) /\ key = CONFIG_KEY_INVALID
    BY <2>1, PhaseMap
  <2>3. result' = "stored" => Recovered[k] = v
    BY <1>1, <2>2 DEF PutAtOnce, config_key_in_place, PageMap
  <2> QED BY <2>1, <2>2, <2>3 DEF ImplementsMap!AtOnce
<1>2. ASSUME NEW k \in Keys, NEW v \in Values \cup {NoValue}, phase = "idle",
             Call(k, v), flash' = flash, torn' = torn
      PROVE  ImplementsMap!Begin
  BY <1>2, PhaseMap DEF Call, ImplementsMap!Begin, Recovered
<1>3. ASSUME NEW k \in Keys, NEW v \in Values, PutBegin(k, v) PROVE ImplementsMap!Begin
  BY <1>2, <1>3 DEF PutBegin
<1>4. ASSUME NEW k \in Keys, config_delete(k) PROVE ImplementsMap!Begin
  BY <1>2, <1>4 DEF config_delete
<1>5. ASSUME PutReturn PROVE ImplementsMap!Stored
  <2>1. /\ phase = "write" /\ queue = << >> /\ Return("stored") /\ flash' = flash /\ torn' = torn
    BY <1>5 DEF PutReturn
  <2>2. Recovered = [before EXCEPT ![key] = value] /\ key # CONFIG_KEY_INVALID
    BY <2>1, PhaseMap, InvalidKey DEF StoreNow, StoreInv, Jobs
  <2> QED BY <2>1, <2>2 DEF Return, ImplementsMap!Stored, ImplementsMap!Finish, Recovered
<1>6. ASSUME DeleteReturn PROVE ImplementsMap!Deleted
  <2>1. /\ phase = "delete" /\ queue = << >> /\ Return("deleted") /\ flash' = flash /\ torn' = torn
    BY <1>6 DEF DeleteReturn
  <2>2. Recovered = [before EXCEPT ![key] = NoValue] /\ key # CONFIG_KEY_INVALID
    BY <2>1, PhaseMap, InvalidKey DEF StoreNow, StoreInv, Jobs, Removed
  <2> QED BY <2>1, <2>2 DEF Return, ImplementsMap!Deleted, ImplementsMap!Finish, Recovered
<1> QED BY <1>1, <1>3, <1>4, <1>5, <1>6 DEF ImplementsMap!Next

(* A word of a write removes the old value, or adds the new one, or        *)
(* changes nothing.                                                        *)
LEMMA FlashMap ==
  ASSUME StoreNow, StoreNow', RoomWhileCopying, RoomWhileCopying', MapInv, MapInv', flash_write
  PROVE  /\ ImplementsMap!Next \/ UNCHANGED mapVars
         /\ phase = "copy" => UNCHANGED mapVars
<1>1. /\ UNCHANGED <<phase, key, value, before, result, torn>> /\ queue # << >>
      /\ phase \in {"place", "delete", "write", "copy"}
  BY DEF flash_write, job, StoreNow, StoreInv, Jobs
<1>2. /\ phase \in {"place", "delete", "write"} => key \in Keys
      /\ phase = "write" => value \in Values
  BY DEF StoreNow, StoreInv, Jobs
<1>3. key \in Keys => key # CONFIG_KEY_INVALID
  BY InvalidKey
<1>4. value \in Values => value # NoValue
  BY WordAssumption, NoValueAssumption
<1>5. /\ (phase \in {"place", "delete"} /\ queue # << >> => Recovered = before)'
      /\ (phase \in {"place", "delete"} /\ queue = << >> => Recovered = Removed)'
      /\ (phase \in {"erase", "magic", "copy", "replace"} => Recovered = Removed)'
      /\ (phase = "write" /\ queue # << >> => Recovered = Removed)'
      /\ (phase = "write" /\ queue = << >> => Recovered = [before EXCEPT ![key] = value])'
  <2>1. (StoreNow /\ RoomWhileCopying /\ MapInv =>
           /\ phase = "idle" => Recovered = PageMap(Live) /\ key = CONFIG_KEY_INVALID
           /\ phase \in {"place", "delete"} /\ queue # << >> => Recovered = before
           /\ phase \in {"place", "delete"} /\ queue = << >> => Recovered = Removed
           /\ phase \in {"erase", "magic", "copy", "replace"} => Recovered = Removed
           /\ phase = "write" /\ queue # << >> => Recovered = Removed
           /\ phase = "write" /\ queue = << >> => Recovered = [before EXCEPT ![key] = value])'
    BY PhaseMap, PTL
  <2> QED BY <2>1
<1>6. Removed' = Removed
  BY <1>1 DEF Removed
<1>7. CASE phase \in {"place", "delete"}
  <2>1. Recovered = before
    BY <1>1, <1>7, PhaseMap
  <2>2. CASE queue' = << >>
    <3>1. Recovered' = [before EXCEPT ![key] = NoValue]
      BY <1>1, <1>5, <1>6, <1>7, <2>2 DEF Removed
    <3>2. ImplementsMap!Remove
      BY <1>1, <1>2, <1>3, <1>7, <2>1, <3>1 DEF ImplementsMap!Remove
    <3> QED BY <1>7, <3>2 DEF ImplementsMap!Next
  <2>3. CASE queue' # << >>
    BY <1>1, <1>5, <1>7, <2>1, <2>3 DEF mapVars
  <2> QED BY <2>2, <2>3
<1>8. CASE phase = "copy"
  <2>1. Recovered = Removed /\ Recovered' = Removed'
    BY <1>1, <1>5, <1>8, PhaseMap
  <2> QED BY <1>1, <1>6, <2>1 DEF mapVars
<1>9. CASE phase = "write"
  <2>1. Recovered = Removed
    BY <1>1, <1>9, PhaseMap
  <2>2. CASE queue' # << >>
    BY <1>1, <1>5, <1>6, <1>9, <2>1, <2>2 DEF mapVars
  <2>3. CASE queue' = << >>
    <3>1. Recovered' = [before EXCEPT ![key] = value]
      BY <1>1, <1>5, <1>9, <2>3
    <3>2. ImplementsMap!Store
      BY <1>1, <1>2, <1>3, <1>4, <1>9, <3>1 DEF ImplementsMap!Store
    <3> QED BY <1>9, <3>2 DEF ImplementsMap!Next
  <2> QED BY <2>2, <2>3
<1> QED BY <1>1, <1>7, <1>8, <1>9

(* A power loss forgets the operation.                                     *)
LEMMA LossMap ==
  ASSUME PowerLoss, torn \in BOOLEAN PROVE ImplementsMap!PowerLoss
<1>1. flash' = flash /\ key' = CONFIG_KEY_INVALID /\ value' = NoValue /\ before' = Recovered
      /\ result' = "none"
  BY DEF PowerLoss
<1>2. torn' \in BOOLEAN /\ (torn => torn')
  BY DEF PowerLoss
<1>3. Recovered' = Recovered
  BY <1>1 DEF Recovered
<1> QED BY <1>1, <1>2, <1>3 DEF ImplementsMap!PowerLoss

(* The invariant of the refinement.                                        *)
StoreSpec == StoreSafe /\ torn \in BOOLEAN /\ (~torn => MapInv)

(* The invariant holds at first ...                                        *)
LEMMA StoreSpecInit == Init => StoreSpec
BY StoreSafeInit DEF Init, MapInv, StoreSpec

(* Only a power loss can tear the store.                                   *)
LEMMA TornType == ASSUME [Next]_vars, torn \in BOOLEAN
                  PROVE  torn' \in BOOLEAN /\ (~PowerLoss => torn' = torn)
BY DEF Next, vars, job, InitFormat, config_init_area, InitOne, InitBoth, CompactErase, CompactMagic,
       CompactCopy, CompactRetire, PutAtOnce, PutBegin, PutWrite, PutCompact, PutReturn,
       config_delete, DeleteReturn, flash_write, PowerLoss

(* ... and is kept.                                                        *)
LEMMA StoreSpecStep == StoreSpec /\ [Next]_vars => StoreSpec'
<1> SUFFICES ASSUME StoreSpec, [Next]_vars PROVE StoreSpec'
  OBVIOUS
<1>1. StoreSafe' /\ torn' \in BOOLEAN
  BY StoreSafeStep, TornType DEF StoreSpec
<1>2. ASSUME ~torn' PROVE MapInv'
  <2>1. StoreNow /\ StoreNow' /\ MapInv
    BY <1>1, <1>2, TornStays DEF StoreSpec, StoreSafe, StoreNow
  <2> QED BY <2>1, MapStep
<1> QED BY <1>1, <1>2 DEF StoreSpec

(* Every step is a step of ConfigMap or invisible there.                   *)
LEMMA MapSafe ==
  ASSUME StoreSpec, StoreSpec', RoomWhileCopying, RoomWhileCopying', [Next]_vars
  PROVE  [ImplementsMap!Next]_mapVars
<1>1. CASE torn
  BY <1>1, TornStays DEF ImplementsMap!Next, ImplementsMap!Unspecified
<1>2. CASE UNCHANGED vars
  BY <1>2 DEF vars, job, mapVars, Recovered
<1>3. CASE PowerLoss
  BY <1>3, LossMap DEF ImplementsMap!Next, StoreSpec
<1>4. CASE ~torn /\ Next /\ ~PowerLoss
  <2>1. torn' = torn
    BY <1>4, TornType DEF StoreSpec
  <2>2. StoreNow /\ MapInv /\ StoreNow' /\ MapInv'
    BY <1>4, <2>1 DEF StoreSpec, StoreSafe, StoreNow
  <2> QED BY <1>4, <2>2, StartUpMap, CompactionMap, OperationMap, FlashMap DEF Next
<1> QED BY <1>1, <1>2, <1>3, <1>4

(* During a compaction it is invisible.                                    *)
LEMMA CompactionStep ==
  ASSUME StoreSpec, StoreSpec', RoomWhileCopying, RoomWhileCopying', [Next]_vars,
         phase \in {"erase", "magic", "copy"}, ~torn
  PROVE  UNCHANGED Recovered
<1>1. CASE PowerLoss \/ UNCHANGED vars
  BY <1>1 DEF PowerLoss, vars, Recovered
<1>2. CASE CompactErase \/ CompactMagic \/ CompactCopy \/ CompactRetire \/ flash_write
  <2>1. torn' = torn
    BY <1>2 DEF CompactErase, CompactMagic, CompactCopy, CompactRetire, flash_write
  <2>2. StoreNow /\ MapInv /\ StoreNow' /\ MapInv'
    BY <2>1 DEF StoreSpec, StoreSafe, StoreNow
  <2>3. flash_write => phase = "copy"
    BY <2>2 DEF flash_write, StoreNow, StoreInv, Jobs
  <2> QED BY <1>2, <2>2, <2>3, FlashMap, CompactionMap DEF mapVars
<1> QED BY <1>1, <1>2 DEF Next, InitFormat, config_init_area, InitOne, InitBoth, PutAtOnce, PutBegin,
     PutWrite, PutCompact, PutReturn, config_delete, DeleteReturn

(* Two erased pages hold the empty map.                                    *)
LEMMA MapInit == Init => ImplementsMap!Init
<1> SUFFICES ASSUME Init PROVE ImplementsMap!Init
  OBVIOUS
<1>1. flash[1] = Blank /\ flash[2] = Blank
  BY DEF Init, Areas
<1>2. Blank.magic # "magic"
  BY BlankPage
<1>3. Recovered = Empty
  BY <1>1, <1>2 DEF config_valid, ChosenArea, Recovered
<1> QED BY <1>3 DEF Init, ImplementsMap!Init, Empty

(* What config_put has checked before it deletes: the new map fits a page. *)
(* After a compaction there is no deleted entry in the way.                *)
RoomInv ==
    /\ phase \in {"place", "erase", "magic", "copy", "replace"}
         => Needed([before EXCEPT ![key] = value]) <= AreaWords - 1
    /\ phase = "replace" => ~HasDead(Live)

(* Every step keeps it.                                                    *)
LEMMA RoomStep ==
  ASSUME StoreNow, RoomInv, torn = FALSE, [Next]_vars PROVE RoomInv'
<1> DEFINE Storing == {"place", "erase", "magic", "copy", "replace"}
<1>1. ASSUME NEW k \in Keys, NEW v \in Values, PutBegin(k, v) PROVE RoomInv'
  <2>1. /\ phase = "idle" /\ phase' = "place" /\ Fits(k, v)
        /\ key' = k /\ value' = v /\ before' = Recovered
    BY <1>1 DEF PutBegin, Call
  <2>2. StoreSafe
    BY DEF StoreNow, StoreSafe
  <2>3. Contents(flash[config_area]) = Recovered
    BY <2>1, <2>2, IdleIsDurable DEF RunningIsDurable
  <2>4. Needed([Contents(flash[config_area]) EXCEPT ![k] = v]) <= AreaWords - 1
    BY <2>1, <2>2, FitsExactly DEF FitsIsExact
  <2>5. Needed([before' EXCEPT ![k] = v]) <= AreaWords - 1
    BY <2>1, <2>3, <2>4
  <2>6. Needed([before EXCEPT ![key] = value])' = Needed([before' EXCEPT ![k] = v])
    BY <2>1 DEF Needed, Held
  <2> QED BY <2>1, <2>5, <2>6 DEF RoomInv
<1>2. CASE CompactRetire
  <2>1. /\ phase = "copy" /\ phase' = "replace" /\ key' = key /\ value' = value /\ before' = before
        /\ Live' = Spare(config_area)
        /\ Copied(Live, End(Live), Spare(config_area), End(Spare(config_area)))
    BY <1>2, CopyDone DEF CompactRetire, job
  <2>2. ASSUME NEW j \in Headers(Spare(config_area)) PROVE Spare(config_area)[j].key # CONFIG_KEY_INVALID
    <3>1. j \in Nat /\ j < End(Spare(config_area))
      BY <2>1, CopyPages, LogFacts
    <3>2. PICK h \in Headers(Live) : Live[h].key # CONFIG_KEY_INVALID /\ Same(Live, h, Spare(config_area), j)
      BY <2>1, <3>1 DEF Copied
    <3> QED BY <2>1, <3>1, <3>2, CopyPages, SameHeader
  <2>3. ~HasDead(Live)'
    BY <2>1, <2>2 DEF HasDead
  <2>4. Needed([before EXCEPT ![key] = value])' = Needed([before EXCEPT ![key] = value])
    BY <2>1 DEF Needed, Held
  <2> QED BY <2>1, <2>3, <2>4 DEF RoomInv
<1>3. CASE CompactErase \/ CompactMagic \/ CompactCopy \/ PutCompact
  <2>1. /\ phase \in Storing /\ phase' # "replace"
        /\ key' = key /\ value' = value /\ before' = before
    BY <1>3 DEF CompactErase, CompactMagic, CompactCopy, PutCompact, job
  <2>2. Needed([before EXCEPT ![key] = value])' = Needed([before EXCEPT ![key] = value])
    BY <2>1 DEF Needed, Held
  <2> QED BY <2>1, <2>2 DEF RoomInv
<1>4. CASE flash_write
  <2>1. /\ phase' = phase /\ key' = key /\ value' = value /\ before' = before /\ queue # << >>
    BY <1>4 DEF flash_write, job
  <2>2. phase # "replace"
    BY <2>1 DEF StoreNow, StoreInv, Jobs
  <2>3. Needed([before EXCEPT ![key] = value])' = Needed([before EXCEPT ![key] = value])
    BY <2>1 DEF Needed, Held
  <2> QED BY <2>1, <2>2, <2>3 DEF RoomInv
<1>5. CASE UNCHANGED vars
  <2>1. /\ phase' = phase /\ key' = key /\ value' = value /\ before' = before /\ Live' = Live
    BY <1>5 DEF vars, Live
  <2>2. Needed([before EXCEPT ![key] = value])' = Needed([before EXCEPT ![key] = value])
    BY <2>1 DEF Needed, Held
  <2> QED BY <2>1, <2>2 DEF RoomInv
<1>6. ASSUME phase' \notin Storing PROVE RoomInv'
  BY <1>6 DEF RoomInv
<1>7. ASSUME \/ InitFormat \/ config_init_area \/ InitOne \/ InitBoth
             \/ \E k \in Keys, v \in Values : PutAtOnce(k, v)
             \/ PutWrite \/ PutReturn \/ \E k \in Keys : config_delete(k)
             \/ DeleteReturn \/ PowerLoss
      PROVE  phase' \notin Storing
  BY <1>7, InitBothKeeps DEF InitFormat, config_init_area, InitOne, PutAtOnce, PutWrite, PutReturn,
     config_delete, DeleteReturn, Return, PowerLoss
<1> QED BY <1>1, <1>2, <1>3, <1>4, <1>5, <1>6, <1>7 DEF Next

(* The space that config_put counted on is there after the compaction.     *)
LEMMA ReplaceRoom ==
  ASSUME StoreNow, MapInv, RoomInv, phase = "replace" PROVE Room
<1>1. Log(Live) /\ Tidy(Live) /\ Lacks(Live, key) /\ key \in Keys /\ value \in Values /\ ~HasDead(Live)
  BY IdlePage DEF RoomInv, StoreNow, StoreInv, Deleting, Jobs
<1>2. PageMap(Live) = [before EXCEPT ![key] = NoValue]
  BY DEF MapInv, Removed
<1> DEFINE m == PageMap(Live)
<1>3. m = [k \in Keys |-> config_get(Live, k)]
  BY DEF PageMap
<1>4. [m EXCEPT ![key] = value] = [before EXCEPT ![key] = value]
  BY <1>1, <1>2, <1>3
<1> HIDE DEF m
<1>5. /\ Needed([m EXCEPT ![key] = value]) \in Nat
      /\ config_space_used_by_key(Live, key) \in Nat
      /\ Needed([m EXCEPT ![key] = value]) = Needed(m) - config_space_used_by_key(Live, key) + 1 + Len(value)
      /\ Needed(m) = TotalLength(Live, LiveHeaders(Live)) /\ Needed(m) \in Nat
  BY <1>1, <1>3, NeededWith, NeededIs
<1>6. Needed([m EXCEPT ![key] = value]) <= AreaWords - 1
  BY <1>4 DEF RoomInv
<1>7. Len(value) \in Nat /\ AreaWords \in Nat
  BY <1>1, ValuesAre, AreaAssumption
<1>8. Fits(key, value)
  BY <1>5, <1>6, <1>7 DEF Fits, config_freespace
<1> QED BY <1>1, <1>8, FitsHasRoom DEF Room

-----------------------------------------------------------------------------
(* The theorems.                                                           *)

(* Compaction and start-up never give up the last formatted page, whatever *)
(* the sizes of pages, keys and values: config_compact erases and formats  *)
(* the new page before it copies, and retires the old one only after, and  *)
(* config_init erases one of two valid pages only (config.c:97-164).       *)
THEOREM ConfigStoreKeepsAFormattedPage == Spec => KeepsAFormattedPage
<1>1. PageInv /\ [Next]_vars
        => [\A a \in Areas : flash[a].magic = "magic" /\ flash'[a].magic # "magic"
               => flash'[Other(a)].magic = "magic" \/ ChosenArea(flash) = 0]_vars
  BY PageStep DEF Kept
<1> QED BY PageInit, PageStep, <1>1, PTL DEF Spec, KeepsAFormattedPage

(* No formatted page ever holds two live entries for a key, which          *)
(* config_find, stopping at the first, would confuse: config_put deletes   *)
(* the old entry before it appends the new one, and config_compact copies  *)
(* each live entry once.                                                   *)
THEOREM ConfigStoreOneEntryPerKey == Spec => []OneEntryPerKey
BY StoreSafeInit, StoreSafeStep, KeysAreUnique, PTL DEF Spec

(* Between operations the page in use is the one config_init would choose, *)
(* so that what config_get reads now it would read after a restart,        *)
(* wherever the power failed before.                                       *)
THEOREM ConfigStoreRunningIsDurable == Spec => []RunningIsDurable
BY StoreSafeInit, StoreSafeStep, IdleIsDurable, PTL DEF Spec

(* config_put's test for space, with the entry it replaces and the deleted *)
(* ones counted free, accepts a value exactly when the new map fits a      *)
(* page, for all sizes of pages and values.                                *)
THEOREM ConfigStoreFitsIsExact == Spec => []FitsIsExact
BY StoreSafeInit, StoreSafeStep, FitsExactly, PTL DEF Spec

(* config.h's promise that config_put returns true if it is successful: on *)
(* a steady supply, config_get then reads the value it was given.          *)
THEOREM ConfigStoreStoredMeansStored == PoweredSpec => StoredMeansStored
<1> DEFINE Inv == StoreSafe /\ ~torn
<1>1. Init => Inv
  BY StoreSafeInit DEF Init
<1>2. Inv /\ [Next /\ ~PowerLoss]_vars => Inv'
  <2>1. ASSUME [Next /\ ~PowerLoss]_vars PROVE torn' = torn
    BY <2>1 DEF Next, vars, job, InitFormat, config_init_area, InitOne, InitBoth, CompactErase,
       CompactMagic, CompactCopy, CompactRetire, PutAtOnce, PutBegin, PutWrite, PutCompact,
       PutReturn, config_delete, DeleteReturn, flash_write
  <2> QED BY <2>1, StoreSafeStep
<1>3. Inv /\ [Next /\ ~PowerLoss]_vars
        => [phase = "write" /\ phase' = "idle"
              => config_get(flash'[config_area'].words, key) = value]_vars
  BY StoredStep DEF StoreSafe, StoreNow
<1> HIDE DEF Inv
<1> QED BY <1>1, <1>2, <1>3, PTL DEF PoweredSpec, StoredMeansStored

(* The store is the map that config.h promises: a power loss anywhere in   *)
(* config_put, config_delete, config_compact or config_init leaves every   *)
(* key its value, but the key being written, which may have none. The      *)
(* promise needs RoomWhileCopying; the run config_full_loss shows what     *)
(* happens without.                                                        *)
THEOREM ConfigStoreImplementsMap == Spec /\ []RoomWhileCopying => ConfigMapSpec
<1>1. StoreSpec /\ StoreSpec' /\ RoomWhileCopying /\ RoomWhileCopying' /\ [Next]_vars
        => [ImplementsMap!Next]_(ImplementsMap!vars)
  BY MapSafe DEF mapVars, ImplementsMap!vars
<1> QED BY <1>1, MapInit, StoreSpecInit, StoreSpecStep, PTL DEF Spec, ConfigMapSpec, ImplementsMap!Spec

(* With RoomWhileCopying the comment in config_init is right, too, that of *)
(* two valid pages "the one with the least free space probably has all the *)
(* data that we care about": a power loss anywhere in a compaction does    *)
(* not change what a start-up finds.                                       *)
THEOREM ConfigStoreCompactionKeepsStore == Spec /\ []RoomWhileCopying => CompactionKeepsStore
<1>1. StoreSpec /\ StoreSpec' /\ RoomWhileCopying /\ RoomWhileCopying' /\ [Next]_vars
        => [(phase \in {"erase", "magic", "copy"} /\ ~torn) => UNCHANGED Recovered]_vars
  BY CompactionStep
<1> QED BY <1>1, StoreSpecInit, StoreSpecStep, PTL DEF Spec, CompactionKeepsStore

(* The `return false' that config_put has after config_compact             *)
(* (config.c:245-250) is never reached: what its first test counted on is  *)
(* there.                                                                  *)
THEOREM ConfigStoreReplaceHasRoom == Spec => [](phase = "replace" /\ ~torn => Room)
<1> DEFINE Inv == StoreSpec /\ (~torn => RoomInv)
<1>1. Init => Inv
  BY StoreSpecInit DEF Init, RoomInv
<1>2. Inv /\ [Next]_vars => Inv'
  <2>1. ASSUME Inv, [Next]_vars, ~torn' PROVE RoomInv'
    <3>1. StoreNow /\ RoomInv /\ torn = FALSE
      BY <2>1, TornStays DEF StoreSpec, StoreSafe, StoreNow
    <3> QED BY <2>1, <3>1, RoomStep
  <2> QED BY <2>1, StoreSpecStep
<1>3. Inv => (phase = "replace" /\ ~torn => Room)
  BY ReplaceRoom DEF StoreSpec, StoreSafe, StoreNow
<1> HIDE DEF Inv
<1> QED BY <1>1, <1>2, <1>3, PTL DEF Spec
=============================================================================
