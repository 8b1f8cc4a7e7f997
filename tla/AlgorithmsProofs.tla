-------------------------- MODULE AlgorithmsProofs --------------------------
(***************************************************************************)
(* The pure functions, for inputs of any length: the look-up of an         *)
(* account, login tokens, SASL LOGIN, the profile schema, recipients by    *)
(* domain, mailbox names, the lines of a message.                          *)
(*                                                                         *)
(* A function that is a fold or recursive is first shown to exist, by      *)
(* induction on the length of its input; what it computes is an induction  *)
(* of its own.  An induction is over the set of the numbers for which the  *)
(* statement holds, so that the provers can apply it.                      *)
(***************************************************************************)
EXTENDS Algorithms, FiniteSetTheorems, TLAPS

-----------------------------------------------------------------------------
\* An input is a sequence over its alphabet.
InputOK == kind \in Kinds /\ input \in Seq(Alphabet[kind])

LEMMA InputType == Spec => []InputOK
<1>1. Init => InputOK
  <2>1. \A S : <<>> \in Seq(S)
    OBVIOUS
  <2> QED
    BY <2>1 DEF Init, InputOK
<1>2. InputOK /\ [Next]_<<kind, input>> => InputOK'
  <2> SUFFICES ASSUME InputOK, [Next]_<<kind, input>> PROVE InputOK'
    OBVIOUS
  <2>1. CASE UNCHANGED <<kind, input>>
    BY <2>1 DEF InputOK
  <2>2. CASE Grow
    BY <2>2 DEF InputOK, Grow, Kinds
  <2> QED
    BY <2>1, <2>2 DEF Next
<1> QED
  BY <1>1, <1>2, PTL DEF Spec

-----------------------------------------------------------------------------
(* Induction and folds *)

\* Induction over the natural numbers, for a property given as a set.
LEMMA Induction ==
    ASSUME NEW T \in SUBSET Nat, 0 \in T, \A n \in T : n + 1 \in T
    PROVE  T = Nat
<1> DEFINE R == OpToRel(<, Nat)
           U == Nat \ T
<1> SUFFICES ASSUME U # {} PROVE FALSE
  OBVIOUS
<1>1. \A x, y \in Nat : y < x => <<y, x>> \in R
  BY DEF OpToRel
<1>2. U \subseteq Nat
  OBVIOUS
<1>3. \E x \in U : \A y \in U : ~(<<y, x>> \in R)
  <2> HIDE DEF R, U
  <2> IsWellFoundedOn(R, Nat)
    BY NatLessThanWellFounded DEF R
  <2> QED
    BY <1>2, WFMin
<1> HIDE DEF R
<1>4. PICK x \in U : \A y \in U : ~(<<y, x>> \in R)
  BY <1>3
<1>5. x # 0 /\ x - 1 \in Nat
  OBVIOUS
<1>6. x - 1 \notin U
  <2>1. x \in Nat /\ x - 1 < x
    OBVIOUS
  <2>2. <<x - 1, x>> \in R
    BY <1>1, <1>5, <2>1
  <2> QED
    BY <1>4, <2>2
<1>7. x - 1 + 1 = x
  BY <1>5
<1> QED
  BY <1>5, <1>6, <1>7

\* The largest element of a set of positions.
LEMMA MaxOfPositions ==
    ASSUME NEW n \in Nat, NEW s \in SUBSET (1 .. n), s # {}
    PROVE  Max(s) \in s /\ \A i \in s : i <= Max(s)
<1> DEFINE T == {k \in Nat : \A r \in SUBSET (1 .. k) :
                    r # {} => \E x \in r : \A i \in r : x >= i}
<1>1. 0 \in T
  <2>1. 1 .. 0 = {}
    OBVIOUS
  <2> QED
    BY <2>1
<1>2. ASSUME NEW k \in T PROVE k + 1 \in T
  <2> SUFFICES ASSUME NEW r \in SUBSET (1 .. k + 1), r # {}
               PROVE  \E x \in r : \A i \in r : x >= i
    OBVIOUS
  <2>1. CASE k + 1 \in r
    BY <2>1
  <2>2. CASE k + 1 \notin r
    <3>1. r \in SUBSET (1 .. k)
      BY <2>2
    <3> QED
      BY <3>1
  <2> QED
    BY <2>1, <2>2
<1>3. n \in T
  <2> HIDE DEF T
  <2>1. T \in SUBSET Nat
    BY DEF T
  <2> QED
    BY <1>1, <1>2, <2>1, Induction
<1>4. \E x \in s : \A i \in s : x >= i
  BY <1>3
<1>5. Max(s) \in s /\ \A i \in s : Max(s) >= i
  BY <1>4 DEF Max
<1> QED
  BY <1>5

LEMMA MaxIs ==
    ASSUME NEW n \in Nat, NEW s \in SUBSET (1 .. n), n \in s
    PROVE  Max(s) = n
<1>1. Max(s) \in s /\ \A i \in s : i <= Max(s)
  BY MaxOfPositions
<1>2. Max(s) \in 1 .. n /\ n <= Max(s)
  BY <1>1
<1> QED
  BY <1>2

\* A fold of n steps, as a function of the set of positions it goes through.
IsFold(it, n, base, g) ==
    \A s \in SUBSET (1 .. n) :
        it[s] = IF s = {} THEN base ELSE g[<<it[s \ {Max(s)}], Max(s)>>]

\* The recursive function behind a fold exists.
LEMMA FoldExists ==
    ASSUME NEW n \in Nat, NEW V, NEW base \in V, NEW g \in [V \X (1 .. n) -> V]
    PROVE  \E it \in [SUBSET (1 .. n) -> V] : IsFold(it, n, base, g)
<1> DEFINE P(k) == \E it \in [SUBSET (1 .. k) -> V] : IsFold(it, k, base, g)
           T == {k \in Nat : k <= n => P(k)}
<1>1. P(0)
  <2> DEFINE it == [s \in SUBSET (1 .. 0) |-> base]
  <2>1. it \in [SUBSET (1 .. 0) -> V] /\ IsFold(it, 0, base, g)
    BY DEF IsFold
  <2> QED
    BY <2>1
<1>2. ASSUME NEW k \in Nat, P(k), k + 1 <= n PROVE P(k + 1)
  <2>1. PICK f \in [SUBSET (1 .. k) -> V] : IsFold(f, k, base, g)
    BY <1>2
  <2> DEFINE it == [s \in SUBSET (1 .. k + 1) |->
                       IF k + 1 \in s THEN g[<<f[s \ {k + 1}], k + 1>>] ELSE f[s]]
  <2>2. \A s \in SUBSET (1 .. k + 1) :
            /\ s \ {k + 1} \in SUBSET (1 .. k)
            /\ k + 1 \notin s => s \in SUBSET (1 .. k)
    OBVIOUS
  <2>3. k + 1 \in 1 .. n
    BY <1>2
  <2>4. it \in [SUBSET (1 .. k + 1) -> V]
    <3> SUFFICES ASSUME NEW s \in SUBSET (1 .. k + 1)
                 PROVE  (IF k + 1 \in s THEN g[<<f[s \ {k + 1}], k + 1>>]
                         ELSE f[s]) \in V
      OBVIOUS
    <3> QED
      BY <2>2, <2>3
  <2>5. ASSUME NEW s \in SUBSET (1 .. k + 1), k + 1 \in s
        PROVE  it[s] = g[<<it[s \ {Max(s)}], Max(s)>>] /\ s # {}
    <3>1. Max(s) = k + 1
      BY <2>5, MaxIs
    <3>2. it[s \ {k + 1}] = f[s \ {k + 1}]
      BY <2>2
    <3> QED
      BY <2>5, <3>1, <3>2
  <2>6. ASSUME NEW s \in SUBSET (1 .. k + 1), k + 1 \notin s
        PROVE  it[s] = IF s = {} THEN base ELSE g[<<it[s \ {Max(s)}], Max(s)>>]
    <3>1. it[s] = f[s] /\ it[s \ {Max(s)}] = f[s \ {Max(s)}]
      BY <2>2, <2>6
    <3>2. f[s] = IF s = {} THEN base ELSE g[<<f[s \ {Max(s)}], Max(s)>>]
      BY <2>1, <2>2, <2>6 DEF IsFold
    <3> QED
      BY <3>1, <3>2
  <2>7. IsFold(it, k + 1, base, g)
    <3> HIDE DEF it
    <3> QED
      BY <2>5, <2>6 DEF IsFold
  <2> QED
    BY <2>4, <2>7
<1> HIDE DEF P
<1>3. n \in T
  <2>1. 0 \in T /\ \A k \in T : k + 1 \in T
    BY <1>1, <1>2
  <2>2. T \in SUBSET Nat
    OBVIOUS
  <2> HIDE DEF T
  <2> QED
    BY <2>1, <2>2, Induction
<1>4. P(n)
  BY <1>3
<1> QED
  BY <1>4 DEF P

\* The prefixes of a fold: the last position of 1 .. i is i.
LEMMA PositionsUpTo ==
    ASSUME NEW n \in Nat, NEW i \in 1 .. n
    PROVE  /\ (1 .. i) \in SUBSET (1 .. n)
           /\ (1 .. i) # {}
           /\ Max(1 .. i) = i
           /\ ((1 .. i) \ {i}) = (1 .. (i - 1))
           /\ i \in 0 .. n
           /\ i - 1 \in 0 .. n
<1>1. (1 .. i) \in SUBSET (1 .. n)
  OBVIOUS
<1>2. (1 .. i) # {} /\ i \in 1 .. i
  OBVIOUS
<1>3. ((1 .. i) \ {i}) = (1 .. (i - 1))
  OBVIOUS
<1>4. i \in 0 .. n /\ i - 1 \in 0 .. n
  OBVIOUS
<1>5. Max(1 .. i) = i
  <2>1. i \in Nat /\ (1 .. i) \in SUBSET (1 .. i)
    OBVIOUS
  <2> QED
    BY <1>2, <2>1, MaxIs
<1> QED
  BY <1>1, <1>2, <1>3, <1>4, <1>5

-----------------------------------------------------------------------------
(* The look-up of an account *)

\* The i-th user of a directory is the i-th from the end of the reverse.
LEMMA ReverseAt ==
    ASSUME NEW S, NEW s \in Seq(S)
    PROVE  /\ Reverse(s) \in Seq(S) /\ Len(Reverse(s)) = Len(s)
           /\ DOMAIN s = 1 .. Len(s) /\ DOMAIN Reverse(s) = 1 .. Len(s)
           /\ \A i \in 1 .. Len(s) : /\ Len(s) - i + 1 \in 1 .. Len(s)
                                     /\ Reverse(s)[i] = s[Len(s) - i + 1]
                                     /\ Reverse(s)[Len(s) - i + 1] = s[i]
<1>1. \A i \in 1 .. Len(s) : /\ Len(s) - i + 1 \in 1 .. Len(s)
                             /\ Len(s) - (Len(s) - i + 1) + 1 = i
  OBVIOUS
<1> QED
  BY <1>1 DEF Reverse

\* The users that match without case, read backwards.
LEMMA FoldedReverse ==
    ASSUME NEW S, NEW s \in Seq(S), NEW id, NEW i \in 1 .. Len(s)
    PROVE  /\ i \in FoldedMatches(s, id)
              <=> Len(s) - i + 1 \in FoldedMatches(Reverse(s), id)
           /\ i \in FoldedMatches(Reverse(s), id)
              <=> Len(s) - i + 1 \in FoldedMatches(s, id)
  BY ReverseAt DEF FoldedMatches

\* A match that is the only one is found, and otherwise nothing is.
LEMMA FoldedIsUnique ==
    ASSUME NEW S, NEW s \in Seq(S), NEW id
    PROVE  /\ \A i : FoldedMatches(s, id) = {i} => Folded(s, id) = i
           /\ (\A i : FoldedMatches(s, id) # {i}) => Folded(s, id) = NoAccount
<1>1. IsFiniteSet(FoldedMatches(s, id))
  <2>1. FoldedMatches(s, id) \in SUBSET (1 .. Len(s))
    BY DEF FoldedMatches
  <2>2. Len(s) \in Int
    OBVIOUS
  <2>3. IsFiniteSet(1 .. Len(s))
    BY <2>2, FS_Interval
  <2> QED
    BY <2>1, <2>3, FS_Subset
<1>2. Cardinality(FoldedMatches(s, id)) = 1
          <=> \E i : FoldedMatches(s, id) = {i}
  BY <1>1, FS_Singleton
<1> QED
  BY <1>2 DEF Folded

\* The ID that is there is found, whatever else matches.
LEMMA ExactIsFound ==
    ASSUME NEW S, NEW s \in Seq(S), NEW k \in 1 .. Len(s),
           \A i, j \in 1 .. Len(s) : i # j => s[i] # s[j]
    PROVE  FindByID(s, s[k]) = k
<1>1. {i \in DOMAIN s : s[i] = s[k]} = {k}
  OBVIOUS
<1> QED
  BY <1>1 DEF FindByID

\* The order of the directory makes no difference.
LEMMA FindReversed ==
    ASSUME NEW S, NEW s \in Seq(S), NEW id,
           \A i, j \in 1 .. Len(s) : i # j => s[i] # s[j]
    PROVE  /\ (FindByID(s, id) = 0) = (FindByID(Reverse(s), id) = 0)
           /\ FindByID(s, id) # 0 =>
                  s[FindByID(s, id)] = Reverse(s)[FindByID(Reverse(s), id)]
           /\ id \in ToSet(s) => FindByID(s, id) # 0 /\ s[FindByID(s, id)] = id
<1> DEFINE n == Len(s)
           r == Reverse(s)
<1>1. /\ r \in Seq(S) /\ Len(r) = n /\ DOMAIN s = 1 .. n /\ DOMAIN r = 1 .. n
      /\ \A i \in 1 .. n : /\ n - i + 1 \in 1 .. n
                           /\ r[i] = s[n - i + 1] /\ r[n - i + 1] = s[i]
  BY ReverseAt
<1>2. ASSUME NEW k \in 1 .. n, s[k] = id
      PROVE  FindByID(s, id) = k /\ FindByID(r, id) = n - k + 1
  <2>1. FindByID(s, id) = k
    BY <1>2, ExactIsFound
  <2>2. \A i, j \in 1 .. n : i # j => r[i] # r[j]
    <3> SUFFICES ASSUME NEW i \in 1 .. n, NEW j \in 1 .. n, i # j
                 PROVE  r[i] # r[j]
      OBVIOUS
    <3>1. n - i + 1 # n - j + 1
      OBVIOUS
    <3> HIDE DEF n, r
    <3> QED
      BY <1>1, <3>1 DEF n
  <2>3. n - k + 1 \in 1 .. Len(r) /\ r[n - k + 1] = id
    BY <1>1, <1>2
  <2>4. \A i, j \in 1 .. Len(r) : i # j => r[i] # r[j]
    BY <1>1, <2>2
  <2>5. r \in Seq(S)
    BY <1>1
  <2> HIDE DEF n, r
  <2>6. FindByID(r, r[n - k + 1]) = n - k + 1
    BY <2>3, <2>4, <2>5, ExactIsFound
  <2> QED
    BY <2>1, <2>3, <2>6
<1>3. CASE \E k \in 1 .. n : s[k] = id
  <2>1. PICK k \in 1 .. n : s[k] = id
    BY <1>3
  <2>2. FindByID(s, id) = k /\ FindByID(r, id) = n - k + 1
    BY <1>2, <2>1
  <2>3. k # 0 /\ n - k + 1 # 0 /\ r[n - k + 1] = id
    BY <1>1, <2>1
  <2> QED
    BY <2>1, <2>2, <2>3
<1>4. CASE \A k \in 1 .. n : s[k] # id
  <2>1. id \notin ToSet(s)
    BY <1>1, <1>4 DEF ToSet
  <2>2. FindByID(s, id) = Folded(s, id) /\ FindByID(r, id) = Folded(r, id)
    <3>1. {i \in DOMAIN s : s[i] = id} = {} /\ {i \in DOMAIN r : r[i] = id} = {}
      BY <1>1, <1>4
    <3> QED
      BY <3>1 DEF FindByID
  <2>3. /\ FoldedMatches(s, id) \subseteq 1 .. n
        /\ FoldedMatches(r, id) \subseteq 1 .. n
    BY <1>1 DEF FoldedMatches
  <2>4. \A i \in 1 .. n : /\ i \in FoldedMatches(s, id)
                             <=> n - i + 1 \in FoldedMatches(r, id)
                          /\ i \in FoldedMatches(r, id)
                             <=> n - i + 1 \in FoldedMatches(s, id)
    BY FoldedReverse
  <2>5. CASE \E i : FoldedMatches(s, id) = {i}
    <3>1. PICK i \in 1 .. n : FoldedMatches(s, id) = {i}
      BY <2>3, <2>5
    <3>2. FoldedMatches(r, id) = {n - i + 1}
      <4>1. ASSUME NEW j \in 1 .. n
            PROVE  j \in FoldedMatches(r, id) <=> j = n - i + 1
        <5>1. j \in FoldedMatches(r, id) <=> n - j + 1 = i
          BY <2>4, <3>1
        <5> QED
          BY <5>1
      <4>2. n - i + 1 \in 1 .. n
        BY <1>1
      <4> QED
        BY <2>3, <4>1, <4>2
    <3>3. Folded(s, id) = i /\ Folded(r, id) = n - i + 1
      <4>1. r \in Seq(S)
        BY <1>1
      <4> HIDE DEF r
      <4>2. Folded(s, id) = i
        BY <3>1, FoldedIsUnique
      <4>3. Folded(r, id) = n - i + 1
        BY <3>2, <4>1, FoldedIsUnique
      <4> QED
        BY <4>2, <4>3
    <3>4. i # 0 /\ n - i + 1 # 0 /\ r[n - i + 1] = s[i]
      BY <1>1
    <3> QED
      BY <2>1, <2>2, <3>3, <3>4
  <2>6. CASE \A i : FoldedMatches(s, id) # {i}
    <3>1. ASSUME NEW j, FoldedMatches(r, id) = {j}
          PROVE  FALSE
      <4>1. j \in 1 .. n
        BY <2>3, <3>1
      <4>2. ASSUME NEW i \in 1 .. n
            PROVE  i \in FoldedMatches(s, id) <=> i = n - j + 1
        <5>1. i \in FoldedMatches(s, id) <=> n - i + 1 = j
          BY <2>4, <3>1
        <5> QED
          BY <4>1, <5>1
      <4>3. n - j + 1 \in 1 .. n
        BY <1>1, <4>1
      <4>4. FoldedMatches(s, id) = {n - j + 1}
        BY <2>3, <4>2, <4>3
      <4> QED
        BY <2>6, <4>4
    <3>2. Folded(s, id) = 0 /\ Folded(r, id) = 0
      BY <1>1, <2>6, <3>1, FoldedIsUnique DEF NoAccount
    <3> QED
      BY <2>1, <2>2, <3>2
  <2> QED
    BY <2>5, <2>6
<1> QED
  BY <1>3, <1>4

\* Mail for an ID goes to the account with exactly that ID, or to the only one
\* that differs in case, or to nobody, whatever the order of the directory.
THEOREM LookupIsUnambiguous == Spec => []LookupUnambiguous
<1>1. InputOK => LookupUnambiguous
  <2> SUFFICES ASSUME kind = "users", input \in Seq(Ids), DistinctIds
               PROVE  LookupUnambiguous
    BY DEF InputOK, LookupUnambiguous, Kinds, Ids
  <2>1. \A i, j \in 1 .. Len(input) : i # j => input[i] # input[j]
    BY DEF DistinctIds
  <2>2. ASSUME NEW id \in Ids
        PROVE  /\ (FindByID(input, id) = 0) = (FindByID(Reverse(input), id) = 0)
               /\ FindByID(input, id) # 0 =>
                      input[FindByID(input, id)]
                          = Reverse(input)[FindByID(Reverse(input), id)]
               /\ id \in ToSet(input) => /\ FindByID(input, id) # 0
                                         /\ input[FindByID(input, id)] = id
    BY <2>1, FindReversed
  <2> QED
    BY <2>2 DEF LookupUnambiguous
<1> QED
  BY <1>1, InputType, PTL
-----------------------------------------------------------------------------
(* Tokens *)

\* cutLast takes off a last part without a separator, whatever is before it.
LEMMA CutLastPart ==
    ASSUME NEW S, Under \in S, NEW s \in Seq(S), NEW c \in S, c # Under
    PROVE  cutLast(s \o <<Under, c>>)
               = [ok |-> TRUE, before |-> s, after |-> <<c>>]
<1> DEFINE w == s \o <<Under, c>>
           n == Len(s)
<1>1. /\ w \in Seq(S) /\ Len(w) = n + 2 /\ n \in Nat
      /\ w[n + 1] = Under /\ w[n + 2] = c
      /\ \A i \in 1 .. n : w[i] = s[i]
  OBVIOUS
<1>2. DOMAIN w = 1 .. n + 2
  BY <1>1
<1> HIDE DEF w
<1>3. Separator(w) = n + 1
  <2>1. n + 1 \in DOMAIN w /\ w[n + 1] = Under
    BY <1>1, <1>2
  <2>2. \A j \in n + 2 .. Len(w) : w[j] # Under
    BY <1>1
  <2>3. ASSUME NEW i \in DOMAIN w, w[i] = Under,
               \A j \in i + 1 .. Len(w) : w[j] # Under
        PROVE  i = n + 1
    <3>1. i \in 1 .. n + 2
      BY <1>2
    <3>2. i # n + 2
      BY <1>1, <2>3
    <3>3. ~(i < n + 1)
      <4> SUFFICES ASSUME i < n + 1 PROVE FALSE
        OBVIOUS
      <4>1. n + 1 \in i + 1 .. Len(w)
        BY <1>1, <3>1
      <4> QED
        BY <1>1, <2>3, <4>1
    <3> QED
      BY <1>1, <3>1, <3>2, <3>3
  <2> QED
    BY <1>1, <2>1, <2>2, <2>3 DEF Separator
<1>4. Under \in ToSet(w)
  BY <1>1, <1>2 DEF ToSet
<1>5. SubSeq(w, 1, n) = s
  BY <1>1
<1>6. SubSeq(w, n + 2, n + 2) = <<c>>
  <2> DEFINE x == SubSeq(w, n + 2, n + 2)
  <2>1. x \in Seq(S) /\ Len(x) = 1 /\ x[1] = w[n + 2]
    BY <1>1
  <2> HIDE DEF x
  <2>2. x = <<c>>
    BY <1>1, <2>1
  <2> QED
    BY <2>2 DEF x
<1>7. cutLast(w) = [ok |-> TRUE, before |-> SubSeq(w, 1, Separator(w) - 1),
                    after |-> SubSeq(w, Separator(w) + 1, Len(w))]
  BY <1>4 DEF cutLast
<1>8. Separator(w) - 1 = n /\ Separator(w) + 1 = n + 2 /\ Len(w) = n + 2
  BY <1>1, <1>3
<1> QED
  BY <1>5, <1>6, <1>7, <1>8 DEF w

\* What comes after the prefix.
LEMMA AfterPrefix ==
    ASSUME NEW S, NEW p \in Seq(S), NEW id \in Seq(S)
    PROVE  /\ IsPrefix(p, p \o id)
           /\ SubSeq(p \o id, Len(p) + 1, Len(p \o id)) = id
<1> DEFINE w == p \o id
<1>1. /\ w \in Seq(S) /\ Len(w) = Len(p) + Len(id)
      /\ \A i \in 1 .. Len(p) : w[i] = p[i]
      /\ \A i \in 1 .. Len(id) : w[Len(p) + i] = id[i]
  OBVIOUS
<1> HIDE DEF w
<1>2. SubSeq(p, 1, Len(p)) = p /\ SubSeq(w, 1, Len(p)) = p
  BY <1>1
<1>3. SubSeq(w, Len(p) + 1, Len(w)) = id
  <2>1. Len(SubSeq(w, Len(p) + 1, Len(w))) = Len(id)
    BY <1>1
  <2>2. \A i \in 1 .. Len(id) : SubSeq(w, Len(p) + 1, Len(w))[i] = id[i]
    BY <1>1
  <2> QED
    BY <1>1, <2>1, <2>2
<1> QED
  BY <1>1, <1>2, <1>3 DEF w, IsPrefix

\* The digit of a time is no separator, and no other time has it.
LEMMA FormatIntInjective ==
    ASSUME NEW t \in 0 .. 5
    PROVE  /\ Digits[t + 1] # Under
           /\ {x \in 0 .. 5 : FormatInt(t) = FormatInt(x)} = {t}
<1>1. ASSUME NEW x \in 0 .. 5
      PROVE  /\ Digits[x + 1] # Under
             /\ FormatInt(t) = FormatInt(x) <=> t = x
  <2>1. \A a, b : <<a>> = <<b>> <=> a = b
    OBVIOUS
  <2>2. x \in {0, 1, 2, 3, 4, 5} /\ t \in {0, 1, 2, 3, 4, 5}
    OBVIOUS
  <2>3. Digits[x + 1] # Under /\ (Digits[t + 1] = Digits[x + 1] <=> t = x)
    <3>1. /\ Digits[1] = "0" /\ Digits[2] = "1" /\ Digits[3] = "2"
          /\ Digits[4] = "3" /\ Digits[5] = "4" /\ Digits[6] = "5"
      BY DEF Digits
    <3>2. /\ 0 + 1 = 1 /\ 1 + 1 = 2 /\ 2 + 1 = 3 /\ 3 + 1 = 4
          /\ 4 + 1 = 5 /\ 5 + 1 = 6
      OBVIOUS
    <3> QED
      BY <2>2, <3>1, <3>2 DEF Under
  <2> QED
    BY <2>1, <2>3 DEF FormatInt
<1> QED
  BY <1>1
\* Two parts that are appended one after the other.
LEMMA AppendTwo ==
    ASSUME NEW S, NEW s \in Seq(S), NEW a \in S, NEW b \in S
    PROVE  (s \o <<a>>) \o <<b>> = s \o <<a, b>>
<1> DEFINE x == (s \o <<a>>) \o <<b>>
           y == s \o <<a, b>>
<1>1. x \in Seq(S) /\ y \in Seq(S) /\ Len(x) = Len(s) + 2 /\ Len(y) = Len(s) + 2
  OBVIOUS
<1>2. \A i \in 1 .. Len(s) + 2 : x[i] = y[i]
  OBVIOUS
<1> HIDE DEF x, y
<1>3. x = y
  BY <1>1, <1>2
<1> QED
  BY <1>3 DEF x, y

\* The type and the length of a text put together from two.
LEMMA ConcatType ==
    ASSUME NEW S, NEW s \in Seq(S), NEW t \in Seq(S)
    PROVE  s \o t \in Seq(S) /\ Len(s \o t) = Len(s) + Len(t)
  OBVIOUS

\* The characters of a token for an ID over some alphabet.
TokenChars(chars) == chars \cup {Under, Sig, "a", "t", "0", "1", "2", "3", "4", "5"}

Payload(id, t) == ((Prefix \o <<Under>>) \o id) \o <<Under, Digits[t + 1]>>

\* What Issue signs, part by part.
LEMMA IssueParts ==
    ASSUME NEW chars, NEW id \in Seq(chars), NEW t \in 0 .. 5
    PROVE  /\ Issue(id, t) = [text |-> Payload(id, t) \o <<Under, Sig>>,
                              signed |-> Payload(id, t)]
           /\ Digits[t + 1] \in TokenChars(chars)
           /\ Prefix \o <<Under>> \in Seq(TokenChars(chars))
           /\ id \in Seq(TokenChars(chars))
           /\ Payload(id, t) \in Seq(TokenChars(chars))
           /\ Len(Payload(id, t)) = Len(id) + 6
<1> DEFINE S == TokenChars(chars)
           p == Prefix \o <<Under>>
<1>1. {Under, Sig, "a", "t"} \subseteq S /\ chars \subseteq S
  BY DEF TokenChars
<1>2. Digits[t + 1] \in S
  <2>1. t \in {0, 1, 2, 3, 4, 5}
    OBVIOUS
  <2>2. /\ Digits[1] = "0" /\ Digits[2] = "1" /\ Digits[3] = "2"
        /\ Digits[4] = "3" /\ Digits[5] = "4" /\ Digits[6] = "5"
    BY DEF Digits
  <2>3. {"0", "1", "2", "3", "4", "5"} \subseteq S
    BY DEF TokenChars
  <2>4. /\ 0 + 1 = 1 /\ 1 + 1 = 2 /\ 2 + 1 = 3 /\ 3 + 1 = 4
        /\ 4 + 1 = 5 /\ 5 + 1 = 6
    OBVIOUS
  <2> QED
    BY <2>1, <2>2, <2>3, <2>4
<1> HIDE DEF S
<1>3. id \in Seq(S)
  BY <1>1
<1>4. p \in Seq(S) /\ Len(p) = 4
  BY <1>1 DEF Prefix
<1> HIDE DEF p
<1>5. p \o id \in Seq(S) /\ Len(p \o id) = Len(id) + 4
  <2>1. p \o id \in Seq(S) /\ Len(p \o id) = Len(p) + Len(id)
    BY <1>3, <1>4, ConcatType
  <2>2. Len(id) \in Nat
    BY <1>3
  <2> QED
    BY <1>4, <2>1, <2>2
<1>6. PICK d \in S : d = Digits[t + 1]
  BY <1>2
<1>7. ((p \o id) \o <<Under>>) \o <<d>> = (p \o id) \o <<Under, d>>
  <2>1. PICK q \in Seq(S) : q = p \o id
    BY <1>5, Zenon
  <2>2. Under \in S
    BY <1>1
  <2>3. (q \o <<Under>>) \o <<d>> = q \o <<Under, d>>
    BY <2>2, AppendTwo, Zenon
  <2> QED
    BY <2>1, <2>3, Zenon
<1>8. /\ (p \o id) \o <<Under, d>> \in Seq(S)
      /\ Len((p \o id) \o <<Under, d>>) = Len(id) + 6
  BY <1>1, <1>5, <1>6
<1>9. Payload(id, t) = (p \o id) \o <<Under, d>>
  BY <1>6 DEF Payload, p
<1>10. Issue(id, t) = [text |-> Payload(id, t) \o <<Under, Sig>>,
                       signed |-> Payload(id, t)]
  BY <1>6, <1>7, <1>9 DEF Issue, FormatInt, p
<1> QED
  BY <1>2, <1>3, <1>4, <1>8, <1>9, <1>10 DEF S, p

\* Verify takes a token apart into what Issue put together.
LEMMA VerifyParts ==
    ASSUME NEW chars, NEW id \in Seq(chars), idPattern(id), NEW t \in 0 .. 5,
           NEW now \in 0 .. 5, NEW token, NEW valid \in Nat,
           token.text = Issue(id, t).text
    PROVE  Verify(token, now, valid) =
               IF token.signed = Issue(id, t).signed /\ Fresh(now - t, valid)
               THEN [ok |-> TRUE, id |-> id] ELSE Refusal
<1>1. PICK S : S = TokenChars(chars)
  OBVIOUS
<1>2. PICK d : d = Digits[t + 1]
  OBVIOUS
<1>3. PICK p : p = Prefix \o <<Under>>
  OBVIOUS
<1>4. PICK w : w = Payload(id, t)
  OBVIOUS
<1>5. /\ Issue(id, t).text = w \o <<Under, Sig>> /\ Issue(id, t).signed = w
      /\ d \in S /\ p \in Seq(S) /\ id \in Seq(S) /\ w \in Seq(S)
  <2>1. /\ Issue(id, t) = [text |-> Payload(id, t) \o <<Under, Sig>>,
                           signed |-> Payload(id, t)]
        /\ Digits[t + 1] \in TokenChars(chars)
        /\ Prefix \o <<Under>> \in Seq(TokenChars(chars))
        /\ id \in Seq(TokenChars(chars))
        /\ Payload(id, t) \in Seq(TokenChars(chars))
    BY IssueParts
  <2>2. Issue(id, t) = [text |-> w \o <<Under, Sig>>, signed |-> w]
    BY <1>4, <2>1
  <2>3. Issue(id, t).text = w \o <<Under, Sig>> /\ Issue(id, t).signed = w
    BY <2>2
  <2> QED
    BY <1>1, <1>2, <1>3, <1>4, <2>1, <2>3
<1>6. Under \in S /\ Sig \in S /\ Sig # Under
  BY <1>1 DEF TokenChars, Sig, Under
<1>7. d # Under /\ {x \in 0 .. 5 : FormatInt(t) = FormatInt(x)} = {t}
  BY <1>2, FormatIntInjective
<1>8. p \o id \in Seq(S)
  BY <1>5
<1>9. cutLast(token.text) = [ok |-> TRUE, before |-> w, after |-> <<Sig>>]
  BY <1>5, <1>6, CutLastPart
<1>10. w = (p \o id) \o <<Under, d>>
  BY <1>2, <1>3, <1>4 DEF Payload
<1>11. cutLast(w) = [ok |-> TRUE, before |-> p \o id, after |-> <<d>>]
  BY <1>5, <1>6, <1>7, <1>8, <1>10, CutLastPart
<1>12. /\ IsPrefix(p, p \o id)
       /\ SubSeq(p \o id, Len(p) + 1, Len(p \o id)) = id
  BY <1>5, AfterPrefix
<1>13. <<d>> = FormatInt(t)
  BY <1>2 DEF FormatInt
<1>14. {x \in 0 .. 5 : <<d>> = FormatInt(x)} = {t}
  BY <1>7, <1>13
<1>15. PICK sig : sig = cutLast(token.text)
  OBVIOUS
<1>16. PICK stamp : stamp = cutLast(sig.before)
  OBVIOUS
<1>17. /\ sig.ok /\ sig.before = w /\ sig.after = <<Sig>>
       /\ stamp.ok /\ stamp.before = p \o id /\ stamp.after = <<d>>
  BY <1>9, <1>11, <1>15, <1>16
<1>18. Verify(token, now, valid) =
           IF token.signed = w /\ Fresh(now - t, valid)
           THEN [ok |-> TRUE, id |-> id] ELSE Refusal
  <2>1. Verify(token, now, valid) =
            IF /\ sig.ok /\ stamp.ok
               /\ IsPrefix(p, stamp.before)
               /\ idPattern(SubSeq(stamp.before, Len(p) + 1, Len(stamp.before)))
               /\ {x \in 0 .. 5 : stamp.after = FormatInt(x)} # {}
               /\ sig.after = <<Sig>> /\ sig.before = token.signed
               /\ \A x \in {x \in 0 .. 5 : stamp.after = FormatInt(x)} :
                      Fresh(now - x, valid)
            THEN [ok |-> TRUE,
                  id |-> SubSeq(stamp.before, Len(p) + 1, Len(stamp.before))]
            ELSE Refusal
    BY <1>3, <1>15, <1>16 DEF Verify
  <2>2. {x \in 0 .. 5 : stamp.after = FormatInt(x)} = {t}
    BY <1>14, <1>17
  <2>3. SubSeq(stamp.before, Len(p) + 1, Len(stamp.before)) = id
    BY <1>12, <1>17
  <2>4. IsPrefix(p, stamp.before) /\ sig.before = w
    BY <1>12, <1>17
  <2>5. Verify(token, now, valid) =
            IF w = token.signed /\ \A x \in {t} : Fresh(now - x, valid)
            THEN [ok |-> TRUE, id |-> id] ELSE Refusal
    BY <1>17, <2>1, <2>2, <2>3, <2>4
  <2> QED
    BY <2>5
<1> QED
  BY <1>5, <1>18

\* A token gives back its ID for as long as it is valid and not longer, and
\* with another text it is refused, for IDs of any length over any alphabet.
THEOREM TokensRoundTrip == Spec => []TokenRoundTrip
<1>1. InputOK => TokenRoundTrip
  <2> SUFFICES ASSUME kind = "id", input \in Seq(Alphabet["id"]), idPattern(input)
               PROVE  TokenRoundTrip
    BY DEF InputOK, TokenRoundTrip, Kinds
  <2>1. PICK id : id = input
    OBVIOUS
  <2>2. PICK chars : chars = Alphabet["id"] \cup {"a"}
    OBVIOUS
  <2> DEFINE other == id \o <<"a">>
  <2>3. id \in Seq(chars) /\ other \in Seq(chars) /\ Len(other) = Len(id) + 1
    BY <2>1, <2>2
  <2>4. idPattern(other)
    <3>1. /\ \A i \in 1 .. Len(id) : other[i] = id[i]
          /\ other[Len(id) + 1] = "a" /\ DOMAIN other = 1 .. Len(id) + 1
      BY <2>3
    <3>2. \A i \in 1 .. Len(id) : id[i] # Sig
      BY <2>1, <2>3 DEF idPattern, ToSet
    <3>3. \A i \in 1 .. Len(id) + 1 : other[i] # Sig
      BY <2>3, <3>1, <3>2 DEF Sig
    <3>4. Sig \notin ToSet(other) /\ other # <<>>
      BY <2>3, <3>1, <3>3 DEF ToSet
    <3> QED
      BY <3>4 DEF idPattern
  <2> HIDE DEF other
  <2>5. ASSUME NEW t \in 0 .. 5, NEW now \in 0 .. 5
        PROVE  /\ Verify(Issue(id, t), now, 3).ok <=> now \in t .. t + 2
               /\ Verify(Issue(id, t), now, 3).ok =>
                      Verify(Issue(id, t), now, 3).id = id
               /\ ~Verify([Issue(id, t) EXCEPT !.text = Issue(other, t).text],
                          now, 3).ok
    <3>1. PICK token : token = Issue(id, t)
      OBVIOUS
    <3>2. PICK forged : forged = [token EXCEPT !.text = Issue(other, t).text]
      OBVIOUS
    <3>3. /\ token = [text |-> Payload(id, t) \o <<Under, Sig>>,
                      signed |-> Payload(id, t)]
          /\ Len(Payload(id, t)) = Len(id) + 6
      BY <2>3, <3>1, IssueParts
    <3>4. /\ Issue(other, t).signed = Payload(other, t)
          /\ Len(Payload(other, t)) = Len(other) + 6
      <4>1. /\ Issue(other, t) = [text |-> Payload(other, t) \o <<Under, Sig>>,
                                  signed |-> Payload(other, t)]
            /\ Len(Payload(other, t)) = Len(other) + 6
        BY <2>3, IssueParts
      <4>2. Issue(other, t).signed = Payload(other, t)
        BY <4>1
      <4> QED
        BY <4>1, <4>2
    <3>5. forged.text = Issue(other, t).text /\ forged.signed = Payload(id, t)
      BY <3>2, <3>3
    <3>6. Payload(id, t) # Payload(other, t)
      BY <2>3, <3>3, <3>4
    <3>7. idPattern(id)
      BY <2>1
    <3>8. Verify(token, now, 3) = IF Fresh(now - t, 3)
                                  THEN [ok |-> TRUE, id |-> id] ELSE Refusal
      BY <2>3, <3>1, <3>7, VerifyParts
    <3>9. Verify(forged, now, 3) = Refusal
      BY <2>3, <2>4, <3>4, <3>5, <3>6, VerifyParts
    <3>10. Fresh(now - t, 3) <=> now \in t .. t + 2
      BY DEF Fresh
    <3>11. /\ Verify(token, now, 3).ok <=> now \in t .. t + 2
           /\ Verify(token, now, 3).ok => Verify(token, now, 3).id = id
      BY <3>8, <3>10 DEF Refusal
    <3>12. ~Verify(forged, now, 3).ok
      BY <3>9 DEF Refusal
    <3> QED
      BY <3>1, <3>2, <3>11, <3>12
  <2> QED
    BY <2>1, <2>5 DEF TokenRoundTrip, other
<1> QED
  BY <1>1, InputType, PTL

-----------------------------------------------------------------------------
(* SASL LOGIN *)

LoginStart == [step |-> 0, username |-> <<>>, answer |-> "none"]

LoginStates(S) ==
    [step : {0, 1, 2}, username : S \cup {<<>>},
     answer : {"none", "Username:", "Password:", "done", "error"}]

\* The recursive function behind LoginAnswer.
IsLogin(it, logins, rs) ==
    it = [s \in SUBSET (1 .. Len(rs)) |->
             IF s = {} THEN LoginStart
             ELSE LoginNext(logins, it[s \ {Max(s)}], rs[Max(s)])]

\* What a response makes of the exchange: nothing after an error,
LEMMA AfterError ==
    ASSUME NEW logins, NEW S, NEW l \in LoginStates(S), NEW r \in S,
           l.answer = "error"
    PROVE  LoginNext(logins, l, r) = l
  BY DEF LoginNext

\* a prompt for the user name when there was none,
LEMMA AskUsername ==
    ASSUME NEW logins, NEW S, NEW l \in LoginStates(S), NEW r \in S,
           l.answer # "error", l.step = 0, r = Nil
    PROVE  /\ LoginNext(logins, l, r) \in LoginStates(S)
           /\ LoginNext(logins, l, r).step = 0
           /\ LoginNext(logins, l, r).answer = "Username:"
<1>1. LoginNext(logins, l, r) = [l EXCEPT !.answer = "Username:"]
  BY DEF LoginNext, NoResponse
<1> QED
  BY <1>1 DEF LoginStates

\* a prompt for the password after the user name,
LEMMA AskPassword ==
    ASSUME NEW logins, NEW S, NEW l \in LoginStates(S), NEW r \in S,
           l.answer # "error", l.step = 0, r # Nil
    PROVE  /\ LoginNext(logins, l, r) \in LoginStates(S)
           /\ LoginNext(logins, l, r).step = 1
           /\ LoginNext(logins, l, r).username = r
           /\ LoginNext(logins, l, r).answer = "Password:"
<1>1. LoginNext(logins, l, r) = [l EXCEPT !.step = 1, !.username = r,
                                          !.answer = "Password:"]
  BY DEF LoginNext, NoResponse, Text
<1>2. LoginNext(logins, l, r) = [step |-> 1, username |-> r, answer |-> "Password:"]
  BY <1>1 DEF LoginStates
<1> QED
  BY <1>2 DEF LoginStates

\* the verdict after the password,
Takes(logins, l, r) == <<l.username, Text(r)>> \in logins

LEMMA PasswordTaken ==
    ASSUME NEW logins, NEW S, NEW l \in LoginStates(S), NEW r \in S,
           l.answer # "error", l.step = 1, Takes(logins, l, r)
    PROVE  /\ LoginNext(logins, l, r) \in LoginStates(S)
           /\ LoginNext(logins, l, r).step = 2
           /\ LoginNext(logins, l, r).answer = "done"
<1>1. LoginNext(logins, l, r) = [l EXCEPT !.step = 2, !.answer = "done"]
  BY DEF LoginNext, Takes
<1>2. LoginNext(logins, l, r) = [step |-> 2, username |-> l.username, answer |-> "done"]
  BY <1>1 DEF LoginStates
<1> QED
  BY <1>2 DEF LoginStates

LEMMA PasswordRefused ==
    ASSUME NEW logins, NEW S, NEW l \in LoginStates(S), NEW r \in S,
           l.answer # "error", l.step = 1, ~Takes(logins, l, r)
    PROVE  /\ LoginNext(logins, l, r) \in LoginStates(S)
           /\ LoginNext(logins, l, r).answer = "error"
<1>1. LoginNext(logins, l, r) = [l EXCEPT !.answer = "error"]
  BY DEF LoginNext, Takes
<1> QED
  BY <1>1 DEF LoginStates

\* and an error after the verdict.
LEMMA AfterVerdict ==
    ASSUME NEW logins, NEW S, NEW l \in LoginStates(S), NEW r \in S,
           l.answer # "error", l.step = 2
    PROVE  /\ LoginNext(logins, l, r) \in LoginStates(S)
           /\ LoginNext(logins, l, r).answer = "error"
<1>1. LoginNext(logins, l, r) = [l EXCEPT !.answer = "error"]
  BY DEF LoginNext
<1> QED
  BY <1>1 DEF LoginStates

LEMMA LoginType ==
    ASSUME NEW logins, NEW S, NEW l \in LoginStates(S), NEW r \in S
    PROVE  LoginNext(logins, l, r) \in LoginStates(S)
<1>1. l.answer # "error" => l.step = 0 \/ l.step = 1 \/ l.step = 2
  BY DEF LoginStates
<1>2. CASE l.answer = "error"
  BY <1>2, AfterError
<1>3. CASE l.answer # "error" /\ l.step = 0
  BY <1>3, AskUsername, AskPassword
<1>4. CASE l.answer # "error" /\ l.step = 1
  BY <1>4, PasswordTaken, PasswordRefused
<1>5. CASE l.answer # "error" /\ l.step = 2
  BY <1>5, AfterVerdict
<1> QED
  BY <1>1, <1>2, <1>3, <1>4, <1>5

\* The recursive function exists.
LEMMA LoginExists ==
    ASSUME NEW logins, NEW S, NEW rs \in Seq(S)
    PROVE  \E it : IsLogin(it, logins, rs)
<1> DEFINE n == Len(rs)
           V == LoginStates(S)
           g == [x \in V \X (1 .. n) |-> LoginNext(logins, x[1], rs[x[2]])]
<1>1. n \in Nat /\ LoginStart \in V
  <2>1. <<>> \in S \cup {<<>>}
    BY Zenon
  <2> QED
    BY <2>1 DEF LoginStart, LoginStates
<1>2. ASSUME NEW l \in V, NEW i \in 1 .. n
      PROVE  LoginNext(logins, l, rs[i]) \in V
  <2>1. rs[i] \in S
    OBVIOUS
  <2> QED
    BY <2>1, LoginType
<1>3. g \in [V \X (1 .. n) -> V]
  BY <1>2
<1>4. PICK it \in [SUBSET (1 .. n) -> V] : IsFold(it, n, LoginStart, g)
  <2> HIDE DEF n, V, g
  <2> QED
    BY <1>1, <1>3, FoldExists
<1>5. ASSUME NEW s \in SUBSET (1 .. n)
      PROVE  it[s] = IF s = {} THEN LoginStart
                     ELSE LoginNext(logins, it[s \ {Max(s)}], rs[Max(s)])
  <2>1. CASE s = {}
    BY <1>4, <2>1 DEF IsFold
  <2>2. CASE s # {}
    <3>1. Max(s) \in s
      BY <1>1, <2>2, MaxOfPositions
    <3>2. <<it[s \ {Max(s)}], Max(s)>> \in V \X (1 .. n)
      <4> HIDE DEF V
      <4> QED
        BY <3>1
    <3>3. it[s] = g[<<it[s \ {Max(s)}], Max(s)>>]
      BY <1>4, <2>2 DEF IsFold
    <3> HIDE DEF V
    <3> QED
      BY <2>2, <3>2, <3>3
  <2> QED
    BY <2>1, <2>2
<1>6. it = [s \in SUBSET (1 .. n) |->
              IF s = {} THEN LoginStart
              ELSE LoginNext(logins, it[s \ {Max(s)}], rs[Max(s)])]
  <2> HIDE DEF V, g, n
  <2> QED
    BY <1>5
<1>7. IsLogin(it, logins, rs)
  BY <1>6 DEF IsLogin
<1> QED
  BY <1>7

\* The exchange, response by response.
LEMMA LoginSteps ==
    ASSUME NEW logins, NEW S, NEW rs \in Seq(S)
    PROVE  \E p : /\ p[0] = LoginStart
                  /\ \A i \in 1 .. Len(rs) : p[i] = LoginNext(logins, p[i - 1], rs[i])
                  /\ LoginAnswer(logins, rs) = p[Len(rs)].answer
<1>1. DOMAIN rs = 1 .. Len(rs) /\ Len(rs) \in Nat
  OBVIOUS
<1> DEFINE it == CHOOSE it : IsLogin(it, logins, rs)
           p == [i \in 0 .. Len(rs) |-> it[1 .. i]]
<1>2. IsLogin(it, logins, rs)
  BY LoginExists, Zenon
<1>3. LoginAnswer(logins, rs) = it[1 .. Len(rs)].answer
  BY <1>1, Zenon DEF LoginAnswer, FoldLeft, MapThenFoldSet, IsLogin, LoginStart
<1> HIDE DEF it
<1>4. p[0] = LoginStart
  <2>1. 1 .. 0 = {} /\ {} \in SUBSET (1 .. Len(rs)) /\ 0 \in 0 .. Len(rs)
    BY <1>1
  <2>2. it[{}] = LoginStart
    BY <1>2, <2>1, Zenon DEF IsLogin
  <2> QED
    BY <2>1, <2>2
<1>5. ASSUME NEW i \in 1 .. Len(rs)
      PROVE  p[i] = LoginNext(logins, p[i - 1], rs[i])
  <2>1. /\ 1 .. i \in SUBSET (1 .. Len(rs)) /\ 1 .. i # {}
        /\ Max(1 .. i) = i /\ (1 .. i) \ {i} = 1 .. i - 1
        /\ i \in 0 .. Len(rs) /\ i - 1 \in 0 .. Len(rs)
    BY <1>1, PositionsUpTo, Zenon
  <2>2. it[1 .. i] = LoginNext(logins, it[(1 .. i) \ {Max(1 .. i)}], rs[Max(1 .. i)])
    BY <1>2, <2>1, Zenon DEF IsLogin
  <2>3. it[1 .. i] = LoginNext(logins, it[1 .. i - 1], rs[i])
    BY <2>1, <2>2
  <2>4. p[i] = it[1 .. i] /\ p[i - 1] = it[1 .. i - 1]
    BY <2>1
  <2> QED
    BY <2>3, <2>4
<1>6. p[Len(rs)] = it[1 .. Len(rs)]
  BY <1>1
<1> HIDE DEF p
<1> QED
  BY <1>3, <1>4, <1>5, <1>6

\* p is an exchange with the first n responses.
IsExchange(p, n, logins, S, rs) ==
    /\ rs \in [1 .. n -> S]
    /\ \A i \in 1 .. n : p[i] = LoginNext(logins, p[i - 1], rs[i])

\* From position o on the client sends its responses.
Responds(rs, o, n) == \A i \in o + 1 .. n : rs[i] # Nil

\* An error is the end of the exchange.
LEMMA ErrorStays ==
    ASSUME NEW logins, NEW n \in Nat, NEW S, NEW p, NEW rs,
           IsExchange(p, n, logins, S, rs),
           NEW k \in 0 .. n, p[k] \in LoginStates(S), p[k].answer = "error"
    PROVE  p[n].answer = "error"
<1> DEFINE T == {j \in Nat : k + j <= n =>
                    p[k + j] \in LoginStates(S) /\ p[k + j].answer = "error"}
<1>1. 0 \in T
  <2>1. k + 0 = k
    OBVIOUS
  <2> QED
    BY <2>1
<1>2. ASSUME NEW j \in T PROVE j + 1 \in T
  <2> SUFFICES ASSUME k + (j + 1) <= n
               PROVE  /\ p[k + (j + 1)] \in LoginStates(S)
                      /\ p[k + (j + 1)].answer = "error"
    OBVIOUS
  <2>1. /\ k + j <= n /\ k + (j + 1) \in 1 .. n
        /\ (k + (j + 1)) - 1 = k + j
    OBVIOUS
  <2>2. p[k + j] \in LoginStates(S) /\ p[k + j].answer = "error"
    BY <2>1
  <2>3. /\ p[k + (j + 1)] = LoginNext(logins, p[k + j], rs[k + (j + 1)])
        /\ rs[k + (j + 1)] \in S
    BY <2>1 DEF IsExchange, Responds
  <2> QED
    BY <2>2, <2>3, AfterError
<1>3. n - k \in T
  <2>1. T \in SUBSET Nat /\ n - k \in Nat
    OBVIOUS
  <2> HIDE DEF T
  <2> QED
    BY <1>1, <1>2, <2>1, Induction
<1>4. k + (n - k) = n
  OBVIOUS
<1> QED
  BY <1>3, <1>4

\* A user name, a password, and nothing after them.
LEMMA LoginExchange ==
    ASSUME NEW logins, NEW n \in Nat, NEW S, NEW rs,
           NEW p, IsExchange(p, n, logins, S, rs),
           NEW o \in 0 .. n, p[o] \in LoginStates(S),
           p[o].step = 0, p[o].answer # "error",
           Responds(rs, o, n)
    PROVE  /\ n = o + 1 => p[n].answer = "Password:"
           /\ n = o + 2 /\ <<rs[o + 1], rs[o + 2]>> \in logins => p[n].answer = "done"
           /\ n = o + 2 /\ <<rs[o + 1], rs[o + 2]>> \notin logins => p[n].answer = "error"
           /\ n > o + 2 => p[n].answer = "error"
<1>1. ASSUME n >= o + 1
      PROVE  /\ p[o + 1] \in LoginStates(S) /\ p[o + 1].step = 1
             /\ p[o + 1].username = rs[o + 1] /\ p[o + 1].answer = "Password:"
  <2>1. o + 1 \in 1 .. n /\ (o + 1) - 1 = o /\ o + 1 \in o + 1 .. n
    BY <1>1
  <2>2. /\ p[o + 1] = LoginNext(logins, p[o], rs[o + 1])
        /\ rs[o + 1] \in S /\ rs[o + 1] # Nil
    BY <2>1 DEF IsExchange, Responds
  <2> QED
    BY <2>2, AskPassword
<1>2. ASSUME n >= o + 2
      PROVE  /\ p[o + 2] \in LoginStates(S)
             /\ <<rs[o + 1], rs[o + 2]>> \in logins =>
                    p[o + 2].step = 2 /\ p[o + 2].answer = "done"
             /\ <<rs[o + 1], rs[o + 2]>> \notin logins => p[o + 2].answer = "error"
  <2>1. /\ o + 2 \in 1 .. n /\ (o + 2) - 1 = o + 1 /\ o + 2 \in o + 1 .. n
        /\ n >= o + 1
    BY <1>2
  <2>2. /\ p[o + 2] = LoginNext(logins, p[o + 1], rs[o + 2])
        /\ rs[o + 2] \in S /\ rs[o + 2] # Nil
    BY <2>1 DEF IsExchange, Responds
  <2> QED
    <3>1. Text(rs[o + 2]) = rs[o + 2]
      BY <2>2 DEF Text
    <3>2. /\ p[o + 1] \in LoginStates(S) /\ p[o + 1].answer # "error"
          /\ p[o + 1].step = 1 /\ p[o + 1].username = rs[o + 1]
      BY <1>1, <2>1
    <3>3. Takes(logins, p[o + 1], rs[o + 2]) <=> <<rs[o + 1], rs[o + 2]>> \in logins
      BY <3>1, <3>2 DEF Takes
    <3>4. CASE Takes(logins, p[o + 1], rs[o + 2])
      BY <2>2, <3>2, <3>3, <3>4, PasswordTaken
    <3>5. CASE ~Takes(logins, p[o + 1], rs[o + 2])
      BY <2>2, <3>2, <3>3, <3>5, PasswordRefused
    <3> QED
      BY <3>4, <3>5
<1>3. ASSUME n > o + 2 PROVE p[n].answer = "error"
  <2>1. /\ o + 3 \in 1 .. n /\ (o + 3) - 1 = o + 2 /\ o + 3 \in 0 .. n
        /\ n >= o + 2
    BY <1>3
  <2>2. p[o + 3] = LoginNext(logins, p[o + 2], rs[o + 3]) /\ rs[o + 3] \in S
    BY <2>1 DEF IsExchange, Responds
  <2>3. p[o + 3] \in LoginStates(S) /\ p[o + 3].answer = "error"
    BY <1>2, <2>1, <2>2, AfterError, AfterVerdict
  <2> QED
    BY <2>1, <2>3, ErrorStays, Zenon
<1> QED
  BY <1>1, <1>2, <1>3

\* AUTH LOGIN takes a user name and a password, in this order and nothing
\* else, after any number of responses.
THEOREM LoginExchangeTakesTwo == Spec => []LoginTakesTwo
<1>1. ASSUME NEW S, NEW rs \in Seq(S), \A i \in 2 .. Len(rs) : rs[i] # Nil
      PROVE  /\ LoginAnswer({<<User, Secret>>}, rs) = "done"
                   <=> Given(rs) = <<User, Secret>>
             /\ Len(Given(rs)) > 2 => LoginAnswer({<<User, Secret>>}, rs) = "error"
  <2> DEFINE n == Len(rs)
             logins == {<<User, Secret>>}
  <2>1. PICK p : /\ p[0] = LoginStart
                 /\ IsExchange(p, n, logins, S, rs)
                 /\ LoginAnswer(logins, rs) = p[n].answer
    <3>1. rs \in [1 .. n -> S]
      OBVIOUS
    <3> QED
      BY <3>1, LoginSteps DEF IsExchange
  <2>2. LoginStart \in LoginStates(S)
    <3>1. <<>> \in S \cup {<<>>}
      BY Zenon
    <3> QED
      BY <3>1 DEF LoginStart, LoginStates
  <2>3. PICK o \in 0 .. n :
              /\ p[o] \in LoginStates(S) /\ p[o].step = 0
              /\ p[o].answer \in {"none", "Username:"}
              /\ \A i \in o + 1 .. n : rs[i] # Nil
              /\ Given(rs) \in Seq(S) /\ Len(Given(rs)) = n - o
              /\ \A i \in 1 .. n - o : Given(rs)[i] = rs[o + i]
    <3>1. CASE rs # <<>> /\ rs[1] = Nil
      <4>1. n >= 1 /\ 1 \in 1 .. n /\ 1 - 1 = 0 /\ 1 \in 0 .. n /\ rs[1] \in S
        BY <3>1
      <4>2. p[1] = LoginNext(logins, LoginStart, rs[1])
        BY <2>1, <4>1 DEF IsExchange
      <4>3. p[1] \in LoginStates(S) /\ p[1].step = 0 /\ p[1].answer = "Username:"
        <5>1. LoginStart.answer # "error" /\ LoginStart.step = 0
          BY DEF LoginStart
        <5> QED
          BY <2>2, <3>1, <4>1, <4>2, <5>1, AskUsername
      <4>4. Given(rs) = Tail(rs)
        BY <3>1 DEF Given
      <4>5. /\ Tail(rs) \in Seq(S) /\ Len(Tail(rs)) = n - 1
            /\ \A i \in 1 .. n - 1 : Tail(rs)[i] = rs[1 + i]
        BY <3>1
      <4>6. \A i \in 1 + 1 .. n : rs[i] # Nil
        BY <1>1
      <4> QED
        BY <4>1, <4>3, <4>4, <4>5, <4>6
    <3>2. CASE ~(rs # <<>> /\ rs[1] = Nil)
      <4>1. Given(rs) = rs
        BY <3>2 DEF Given
      <4>2. \A i \in 0 + 1 .. n : rs[i] # Nil
        BY <1>1, <3>2
      <4>3. p[0] \in LoginStates(S) /\ p[0].step = 0 /\ p[0].answer = "none"
        BY <2>1, <2>2 DEF LoginStart
      <4>4. /\ 0 \in 0 .. n /\ Len(rs) = n - 0
            /\ \A i \in 1 .. n - 0 : rs[i] = rs[0 + i]
        OBVIOUS
      <4> QED
        BY <4>1, <4>2, <4>3, <4>4
    <3> QED
      BY <3>1, <3>2
  <2>4. n \in Nat
    OBVIOUS
  <2> HIDE DEF n, logins
  <2>5. /\ n = o + 1 => p[n].answer = "Password:"
        /\ n = o + 2 /\ <<rs[o + 1], rs[o + 2]>> \in logins => p[n].answer = "done"
        /\ n = o + 2 /\ <<rs[o + 1], rs[o + 2]>> \notin logins => p[n].answer = "error"
        /\ n > o + 2 => p[n].answer = "error"
    <3>1. IsExchange(p, n, logins, S, rs)
      BY <2>1
    <3>2. p[o] \in LoginStates(S) /\ p[o].step = 0 /\ p[o].answer # "error"
      BY <2>3
    <3>3. Responds(rs, o, n)
      BY <2>3 DEF Responds
    <3>4. o \in 0 .. n
      BY <2>3
    <3> QED
      BY <2>4, <3>1, <3>2, <3>3, <3>4, LoginExchange, Zenon
  <2>6. Given(rs) = <<User, Secret>>
           <=> n = o + 2 /\ <<rs[o + 1], rs[o + 2]>> = <<User, Secret>>
    <3> DEFINE h == Given(rs)
    <3>1. h \in Seq(S) /\ Len(h) = n - o /\ \A i \in 1 .. n - o : h[i] = rs[o + i]
      BY <2>3
    <3> HIDE DEF h
    <3>2. h = <<User, Secret>> <=> Len(h) = 2 /\ h[1] = User /\ h[2] = Secret
      BY <3>1
    <3>3. Len(h) = 2 <=> n = o + 2
      BY <2>4, <3>1
    <3>4. n = o + 2 => h[1] = rs[o + 1] /\ h[2] = rs[o + 2]
      BY <2>4, <3>1
    <3>5. h = <<User, Secret>> <=> n = o + 2 /\ <<rs[o + 1], rs[o + 2]>> = <<User, Secret>>
      BY <3>2, <3>3, <3>4
    <3> QED
      BY <3>5 DEF h
  <2>7. <<rs[o + 1], rs[o + 2]>> \in logins
           <=> <<rs[o + 1], rs[o + 2]>> = <<User, Secret>>
    BY DEF logins
  <2>8. n = o \/ n = o + 1 \/ n = o + 2 \/ n > o + 2
    BY <2>4
  <2>9. p[n].answer = "done" <=> Given(rs) = <<User, Secret>>
    <3>1. n = o => p[n].answer # "done" /\ n # o + 2
      BY <2>3, <2>4
    <3> QED
      BY <2>4, <2>5, <2>6, <2>7, <2>8, <3>1
  <2>10. Len(Given(rs)) > 2 => p[n].answer = "error"
    BY <2>3, <2>4, <2>5
  <2> QED
    BY <2>1, <2>9, <2>10 DEF logins
<1>2. InputOK => LoginTakesTwo
  BY <1>1 DEF InputOK, LoginTakesTwo, Kinds
<1> QED
  BY <1>2, InputType, PTL

-----------------------------------------------------------------------------
(* The profile schema *)

Builtin == {"username", "register"}
SchemaStart == [ok |-> TRUE, fields |-> builtinFields]

FieldType == [type : Types, private : BOOLEAN, immutable : BOOLEAN, builtin : BOOLEAN]
FieldMaps(N) == UNION {[D -> FieldType] : D \in SUBSET N}
SchemaStates(N) == [ok : BOOLEAN, fields : FieldMaps(N)]

Proper(e) == e.name # "" /\ e.type \in Types /\ e.vis \in {"", "public", "private"}
FieldOf(e) == Field(e.type, e.vis = "private", FALSE, FALSE)
Extended(fields, e) ==
    [k \in DOMAIN fields \cup {e.name} |->
        IF k = e.name THEN FieldOf(e) ELSE fields[k]]

LEMMA BuiltinType ==
    /\ builtinFields \in [Builtin -> FieldType]
    /\ builtinFields["username"] = Field("string", FALSE, FALSE, TRUE)
    /\ builtinFields["register"] = Field("number", FALSE, TRUE, TRUE)
  BY DEF builtinFields, Builtin, FieldType, Field, Types

LEMMA FieldOfType ==
    ASSUME NEW e, Proper(e)
    PROVE  FieldOf(e) \in FieldType
<1>1. (e.vis = "private") \in BOOLEAN
  BY Zenon
<1> QED
  BY <1>1 DEF Proper, FieldOf, Field, FieldType

LEMMA ExtendedType ==
    ASSUME NEW D, NEW f \in [D -> FieldType], NEW e, Proper(e)
    PROVE  /\ Extended(f, e) \in [D \cup {e.name} -> FieldType]
           /\ Extended(f, e)[e.name] = FieldOf(e)
<1>1. FieldOf(e) \in FieldType
  BY FieldOfType
<1> HIDE DEF FieldType
<1> QED
  BY <1>1 DEF Extended

LEMMA ExtendedAt ==
    ASSUME NEW D, NEW f \in [D -> FieldType], NEW e, NEW k \in D, k # e.name
    PROVE  Extended(f, e)[k] = f[k]
  BY DEF Extended

\* An entry that is proper and new is added;
LEMMA DeclareNew ==
    ASSUME NEW N, NEW s \in SchemaStates(N), s.ok = TRUE,
           NEW e, e.name \in N, Proper(e), e.name \notin DOMAIN s.fields
    PROVE  /\ Declare(s, e) \in SchemaStates(N) /\ Declare(s, e).ok = TRUE
           /\ Declare(s, e).fields = Extended(s.fields, e)
<1>1. Declare(s, e) = [s EXCEPT !.fields = Extended(s.fields, e)]
  BY DEF Declare, Declarable, Proper, Extended, FieldOf
<1>2. PICK D \in SUBSET N : s.fields \in [D -> FieldType]
  BY DEF SchemaStates, FieldMaps
<1>3. Extended(s.fields, e) \in [D \cup {e.name} -> FieldType]
  BY <1>2, ExtendedType
<1>4. Extended(s.fields, e) \in FieldMaps(N)
  BY <1>3 DEF FieldMaps
<1> QED
  BY <1>1, <1>4 DEF SchemaStates

\* any other makes the schema invalid.
LEMMA DeclareRefused ==
    ASSUME NEW N, NEW s \in SchemaStates(N), NEW e,
           ~(s.ok = TRUE /\ Proper(e) /\ e.name \notin DOMAIN s.fields)
    PROVE  Declare(s, e) \in SchemaStates(N) /\ Declare(s, e).ok = FALSE
<1>1. s.ok \in BOOLEAN
  BY DEF SchemaStates
<1>2. Declare(s, e) = [s EXCEPT !.ok = FALSE]
  BY <1>1 DEF Declare, Declarable, Proper
<1> QED
  BY <1>2 DEF SchemaStates

\* The recursive function behind ParseProfileSchema exists.
IsParse(it, es) ==
    it = [s \in SUBSET (1 .. Len(es)) |->
             IF s = {} THEN SchemaStart
             ELSE Declare(it[s \ {Max(s)}], es[Max(s)])]

SchemaNames(S) == Builtin \cup {e.name : e \in S}

LEMMA SchemaStartType ==
    ASSUME NEW S
    PROVE  SchemaStart \in SchemaStates(SchemaNames(S))
<1>1. builtinFields \in FieldMaps(SchemaNames(S))
  BY BuiltinType DEF FieldMaps, SchemaNames
<1> QED
  BY <1>1 DEF SchemaStart, SchemaStates

LEMMA DeclareType ==
    ASSUME NEW S, NEW s \in SchemaStates(SchemaNames(S)), NEW e \in S
    PROVE  Declare(s, e) \in SchemaStates(SchemaNames(S))
<1>1. e.name \in SchemaNames(S)
  BY DEF SchemaNames
<1> QED
  BY <1>1, DeclareNew, DeclareRefused

LEMMA ParseExists ==
    ASSUME NEW S, NEW es \in Seq(S)
    PROVE  \E it : IsParse(it, es)
<1> DEFINE n == Len(es)
           V == SchemaStates(SchemaNames(S))
           g == [x \in V \X (1 .. n) |-> Declare(x[1], es[x[2]])]
<1>1. n \in Nat /\ SchemaStart \in V
  BY SchemaStartType
<1>2. ASSUME NEW s \in V, NEW i \in 1 .. n
      PROVE  Declare(s, es[i]) \in V
  <2>1. es[i] \in S
    OBVIOUS
  <2> QED
    BY <2>1, DeclareType
<1>3. g \in [V \X (1 .. n) -> V]
  BY <1>2
<1>4. PICK it \in [SUBSET (1 .. n) -> V] : IsFold(it, n, SchemaStart, g)
  <2> HIDE DEF n, V, g
  <2> QED
    BY <1>1, <1>3, FoldExists
<1>5. ASSUME NEW s \in SUBSET (1 .. n)
      PROVE  it[s] = IF s = {} THEN SchemaStart
                     ELSE Declare(it[s \ {Max(s)}], es[Max(s)])
  <2>1. CASE s = {}
    BY <1>4, <2>1 DEF IsFold
  <2>2. CASE s # {}
    <3>1. Max(s) \in s
      BY <1>1, <2>2, MaxOfPositions
    <3>2. <<it[s \ {Max(s)}], Max(s)>> \in V \X (1 .. n)
      <4> HIDE DEF V
      <4> QED
        BY <3>1
    <3>3. it[s] = g[<<it[s \ {Max(s)}], Max(s)>>]
      BY <1>4, <2>2 DEF IsFold
    <3> HIDE DEF V
    <3> QED
      BY <2>2, <3>2, <3>3
  <2> QED
    BY <2>1, <2>2
<1>6. it = [s \in SUBSET (1 .. n) |->
              IF s = {} THEN SchemaStart
              ELSE Declare(it[s \ {Max(s)}], es[Max(s)])]
  <2> HIDE DEF V, g, n
  <2> QED
    BY <1>5
<1>7. IsParse(it, es)
  BY <1>6 DEF IsParse
<1> QED
  BY <1>7

\* The schema, entry by entry.
LEMMA ParseSteps ==
    ASSUME NEW S, NEW es \in Seq(S)
    PROVE  \E p : /\ p[0] = SchemaStart
                  /\ \A i \in 1 .. Len(es) : p[i] = Declare(p[i - 1], es[i])
                  /\ ParseProfileSchema(es) = p[Len(es)]
<1>1. DOMAIN es = 1 .. Len(es) /\ Len(es) \in Nat
  OBVIOUS
<1> DEFINE it == CHOOSE it : IsParse(it, es)
           p == [i \in 0 .. Len(es) |-> it[1 .. i]]
<1>2. IsParse(it, es)
  BY ParseExists, Zenon
<1>3. ParseProfileSchema(es) = it[1 .. Len(es)]
  BY <1>1, Zenon DEF ParseProfileSchema, FoldLeft, MapThenFoldSet, IsParse, SchemaStart
<1> HIDE DEF it
<1>4. p[0] = SchemaStart
  <2>1. 1 .. 0 = {} /\ {} \in SUBSET (1 .. Len(es)) /\ 0 \in 0 .. Len(es)
    BY <1>1
  <2>2. it[{}] = SchemaStart
    BY <1>2, <2>1, Zenon DEF IsParse
  <2> QED
    BY <2>1, <2>2
<1>5. ASSUME NEW i \in 1 .. Len(es)
      PROVE  p[i] = Declare(p[i - 1], es[i])
  <2>1. /\ 1 .. i \in SUBSET (1 .. Len(es)) /\ 1 .. i # {}
        /\ Max(1 .. i) = i /\ (1 .. i) \ {i} = 1 .. i - 1
        /\ i \in 0 .. Len(es) /\ i - 1 \in 0 .. Len(es)
    BY <1>1, PositionsUpTo, Zenon
  <2>2. it[1 .. i] = Declare(it[(1 .. i) \ {Max(1 .. i)}], es[Max(1 .. i)])
    BY <1>2, <2>1, Zenon DEF IsParse
  <2>3. it[1 .. i] = Declare(it[1 .. i - 1], es[i])
    BY <2>1, <2>2
  <2>4. p[i] = it[1 .. i] /\ p[i - 1] = it[1 .. i - 1]
    BY <2>1
  <2> QED
    BY <2>3, <2>4
<1>6. p[Len(es)] = it[1 .. Len(es)]
  BY <1>1
<1> HIDE DEF p
<1> QED
  BY <1>3, <1>4, <1>5, <1>6

\* The first n entries are proper, and none of their keys is declared twice.
ValidEntries(es, n) ==
    /\ \A i \in 1 .. n : Proper(es[i]) /\ es[i].name \notin Builtin
    /\ \A i, j \in 1 .. n : i # j => es[i].name # es[j].name

DeclaredKeys(es, n) == Builtin \cup {es[i].name : i \in 1 .. n}

\* What they declare.
Declared(f, es, n) ==
    /\ f \in [DeclaredKeys(es, n) -> FieldType]
    /\ \A k \in Builtin : f[k] = builtinFields[k]
    /\ \A i \in 1 .. n : f[es[i].name] = FieldOf(es[i])

LEMMA DeclareStep ==
    ASSUME NEW N, NEW es, NEW i \in Nat, NEW s \in SchemaStates(N),
           es[i + 1].name \in N,
           s.ok = TRUE <=> ValidEntries(es, i),
           s.ok = TRUE => Declared(s.fields, es, i)
    PROVE  LET t == Declare(s, es[i + 1])
           IN  /\ t \in SchemaStates(N)
               /\ t.ok = TRUE <=> ValidEntries(es, i + 1)
               /\ t.ok = TRUE => Declared(t.fields, es, i + 1)
<1> DEFINE e == es[i + 1]
           f == s.fields
<1>1. /\ i + 1 \in 1 .. i + 1 /\ \A j \in 1 .. i : j \in 1 .. i + 1 /\ j # i + 1
      /\ \A j \in 1 .. i + 1 : j \in 1 .. i \/ j = i + 1
  OBVIOUS
<1>2. CASE s.ok = TRUE /\ Proper(e) /\ e.name \notin DOMAIN f
  <2>1. Declared(f, es, i) /\ ValidEntries(es, i)
    BY <1>2
  <2>2. /\ Declare(s, e) \in SchemaStates(N) /\ Declare(s, e).ok = TRUE
        /\ Declare(s, e).fields = Extended(f, e)
    <3>1. e.name \in N
      OBVIOUS
    <3> HIDE DEF e
    <3> QED
      BY <1>2, <3>1, DeclareNew
  <2>3. e.name \notin DeclaredKeys(es, i)
    BY <1>2, <2>1 DEF Declared
  <2>4. ValidEntries(es, i + 1)
    <3>1. e.name \notin Builtin /\ \A j \in 1 .. i : es[j].name # e.name
      BY <2>3 DEF DeclaredKeys
    <3>2. ASSUME NEW j \in 1 .. i + 1
          PROVE  Proper(es[j]) /\ es[j].name \notin Builtin
      <4>1. j \in 1 .. i \/ j = i + 1
        BY <1>1
      <4> QED
        BY <1>2, <2>1, <3>1, <4>1 DEF ValidEntries
    <3>3. ASSUME NEW j \in 1 .. i + 1, NEW k \in 1 .. i + 1, j # k
          PROVE  es[j].name # es[k].name
      <4>1. (j \in 1 .. i \/ j = i + 1) /\ (k \in 1 .. i \/ k = i + 1)
        BY <1>1
      <4> QED
        BY <2>1, <3>1, <3>3, <4>1 DEF ValidEntries
    <3> QED
      BY <3>2, <3>3 DEF ValidEntries
  <2>5. Declared(Extended(f, e), es, i + 1)
    <3>1. f \in [DeclaredKeys(es, i) -> FieldType]
      BY <2>1 DEF Declared
    <3>2. /\ Extended(f, e) \in [DeclaredKeys(es, i) \cup {e.name} -> FieldType]
          /\ Extended(f, e)[e.name] = FieldOf(e)
          /\ \A k \in DeclaredKeys(es, i) : Extended(f, e)[k] = f[k]
      <4>1. Proper(e)
        BY <1>2
      <4> HIDE DEF e, f
      <4>2. /\ Extended(f, e) \in [DeclaredKeys(es, i) \cup {e.name} -> FieldType]
            /\ Extended(f, e)[e.name] = FieldOf(e)
        BY <3>1, <4>1, ExtendedType
      <4>3. ASSUME NEW k \in DeclaredKeys(es, i) PROVE Extended(f, e)[k] = f[k]
        <5>1. k # e.name
          BY <2>3
        <5> QED
          BY <3>1, <5>1, ExtendedAt
      <4> QED
        BY <4>2, <4>3
    <3>3. DeclaredKeys(es, i + 1) = DeclaredKeys(es, i) \cup {e.name}
      BY <1>1 DEF DeclaredKeys
    <3>4. \A k \in Builtin : Extended(f, e)[k] = builtinFields[k]
      BY <2>1, <3>2 DEF Declared, DeclaredKeys
    <3>5. ASSUME NEW j \in 1 .. i + 1
          PROVE  Extended(f, e)[es[j].name] = FieldOf(es[j])
      <4>1. CASE j = i + 1
        BY <3>2, <4>1
      <4>2. CASE j \in 1 .. i
        <5>1. es[j].name \in DeclaredKeys(es, i)
          BY <4>2 DEF DeclaredKeys
        <5>2. f[es[j].name] = FieldOf(es[j])
          BY <2>1, <4>2 DEF Declared
        <5> QED
          BY <3>2, <5>1, <5>2
      <4> QED
        BY <1>1, <4>1, <4>2
    <3> HIDE DEF e, f
    <3> QED
      BY <3>2, <3>3, <3>4, <3>5 DEF Declared
  <2> QED
    BY <2>2, <2>4, <2>5
<1>3. CASE ~(s.ok = TRUE /\ Proper(e) /\ e.name \notin DOMAIN f)
  <2>1. Declare(s, e) \in SchemaStates(N) /\ Declare(s, e).ok = FALSE
    BY <1>3, DeclareRefused
  <2>2. ~ValidEntries(es, i + 1)
    <3> SUFFICES ASSUME ValidEntries(es, i + 1) PROVE FALSE
      OBVIOUS
    <3>1. ValidEntries(es, i)
      BY <1>1 DEF ValidEntries
    <3>2. s.ok = TRUE /\ DOMAIN f = DeclaredKeys(es, i)
      BY <3>1 DEF Declared
    <3>3. Proper(e)
      BY <1>1 DEF ValidEntries
    <3>4. e.name \notin DeclaredKeys(es, i)
      BY <1>1 DEF ValidEntries, DeclaredKeys
    <3> QED
      BY <1>3, <3>2, <3>3, <3>4
  <2> QED
    BY <2>1, <2>2
<1> QED
  BY <1>2, <1>3

\* The schema is accepted exactly when its entries are valid, and then it
\* consists of what they declare.
LEMMA ParseResult ==
    ASSUME NEW S, NEW es \in Seq(S)
    PROVE  /\ ParseProfileSchema(es) \in SchemaStates(SchemaNames(S))
           /\ ParseProfileSchema(es).ok = TRUE <=> ValidEntries(es, Len(es))
           /\ ParseProfileSchema(es).ok = TRUE =>
                  Declared(ParseProfileSchema(es).fields, es, Len(es))
<1>1. PICK p : /\ p[0] = SchemaStart
               /\ \A i \in 1 .. Len(es) : p[i] = Declare(p[i - 1], es[i])
               /\ ParseProfileSchema(es) = p[Len(es)]
  BY ParseSteps
<1> DEFINE N == SchemaNames(S)
           P(i) == /\ p[i] \in SchemaStates(N)
                   /\ p[i].ok = TRUE <=> ValidEntries(es, i)
                   /\ p[i].ok = TRUE => Declared(p[i].fields, es, i)
           T == {i \in Nat : i <= Len(es) => P(i)}
<1>2. P(0)
  <2>1. p[0] \in SchemaStates(N)
    BY <1>1, SchemaStartType
  <2>2. p[0].ok = TRUE /\ p[0].fields = builtinFields
    BY <1>1 DEF SchemaStart
  <2>3. 1 .. 0 = {}
    OBVIOUS
  <2>4. ValidEntries(es, 0)
    BY <2>3 DEF ValidEntries
  <2>5. DeclaredKeys(es, 0) = Builtin
    BY <2>3 DEF DeclaredKeys
  <2>6. Declared(builtinFields, es, 0)
    BY <2>3, <2>5, BuiltinType DEF Declared
  <2> QED
    BY <2>1, <2>2, <2>4, <2>6
<1>3. ASSUME NEW i \in Nat, P(i), i + 1 <= Len(es) PROVE P(i + 1)
  <2>1. i + 1 \in 1 .. Len(es) /\ (i + 1) - 1 = i
    BY <1>3
  <2>2. p[i + 1] = Declare(p[i], es[i + 1])
    BY <1>1, <2>1
  <2>3. es[i + 1].name \in N
    BY <2>1 DEF SchemaNames
  <2> HIDE DEF N
  <2> QED
    BY <1>3, <2>2, <2>3, DeclareStep
<1> HIDE DEF P
<1>4. Len(es) \in T
  <2>1. 0 \in T /\ \A i \in T : i + 1 \in T
    BY <1>2, <1>3
  <2>2. T \in SUBSET Nat /\ Len(es) \in Nat
    OBVIOUS
  <2> HIDE DEF T
  <2> QED
    BY <2>1, <2>2, Induction
<1>5. P(Len(es))
  BY <1>4
<1> QED
  BY <1>1, <1>5 DEF P

\* The order of valid entries makes no difference.
LEMMA ParseReversed ==
    ASSUME NEW S, NEW es \in Seq(S), ParseProfileSchema(es).ok = TRUE
    PROVE  ParseProfileSchema(Reverse(es)) = ParseProfileSchema(es)
<1> DEFINE n == Len(es)
           back == Reverse(es)
           a == ParseProfileSchema(es)
           b == ParseProfileSchema(back)
<1>1. /\ back \in Seq(S) /\ Len(back) = n
      /\ \A i \in 1 .. n : /\ n - i + 1 \in 1 .. n
                           /\ back[i] = es[n - i + 1]
                           /\ back[n - i + 1] = es[i]
  BY ReverseAt
<1>2. /\ a \in SchemaStates(SchemaNames(S)) /\ a.ok = TRUE
      /\ ValidEntries(es, n) /\ Declared(a.fields, es, n)
  BY ParseResult
<1>3. /\ b \in SchemaStates(SchemaNames(S))
      /\ b.ok = TRUE <=> ValidEntries(back, n)
      /\ b.ok = TRUE => Declared(b.fields, back, n)
  <2> HIDE DEF back
  <2> QED
    BY <1>1, ParseResult
<1>4. ValidEntries(back, n)
  <2>1. ASSUME NEW i \in 1 .. n
        PROVE  Proper(back[i]) /\ back[i].name \notin Builtin
    BY <1>1, <1>2 DEF ValidEntries
  <2>2. ASSUME NEW i \in 1 .. n, NEW j \in 1 .. n, i # j
        PROVE  back[i].name # back[j].name
    <3>1. /\ n - i + 1 \in 1 .. n /\ n - j + 1 \in 1 .. n
          /\ n - i + 1 # n - j + 1
      BY <1>1, <2>2
    <3>2. es[n - i + 1].name # es[n - j + 1].name
      BY <1>2, <3>1 DEF ValidEntries
    <3> QED
      BY <1>1, <3>2
  <2> QED
    BY <2>1, <2>2 DEF ValidEntries
<1>5. DeclaredKeys(back, n) = DeclaredKeys(es, n)
  <2>1. {back[i].name : i \in 1 .. n} = {es[i].name : i \in 1 .. n}
    <3>1. ASSUME NEW i \in 1 .. n
          PROVE  /\ \E j \in 1 .. n : back[i].name = es[j].name
                 /\ \E j \in 1 .. n : es[i].name = back[j].name
      BY <1>1
    <3>2. \A i \in 1 .. n : back[i].name \in {es[j].name : j \in 1 .. n}
      BY <3>1
    <3>3. \A i \in 1 .. n : es[i].name \in {back[j].name : j \in 1 .. n}
      BY <3>1
    <3> HIDE DEF n, back
    <3> QED
      BY <3>2, <3>3
  <2> QED
    BY <2>1 DEF DeclaredKeys
<1> DEFINE K == DeclaredKeys(es, n)
<1>6. a.fields \in [K -> FieldType] /\ b.fields \in [K -> FieldType]
  BY <1>2, <1>3, <1>4, <1>5 DEF Declared
<1>7. ASSUME NEW k \in K PROVE a.fields[k] = b.fields[k]
  <2>1. CASE k \in Builtin
    BY <1>2, <1>3, <1>4, <2>1 DEF Declared
  <2>2. CASE \E i \in 1 .. n : k = es[i].name
    <3>1. PICK i \in 1 .. n : k = es[i].name
      BY <2>2
    <3>2. a.fields[k] = FieldOf(es[i])
      BY <1>2, <3>1 DEF Declared
    <3>3. n - i + 1 \in 1 .. n /\ back[n - i + 1] = es[i]
      BY <1>1
    <3>4. b.fields[back[n - i + 1].name] = FieldOf(back[n - i + 1])
      <4> HIDE DEF n, back, b
      <4> QED
        BY <1>3, <1>4, <3>3 DEF Declared
    <3> QED
      BY <3>1, <3>2, <3>3, <3>4
  <2> QED
    BY <2>1, <2>2 DEF DeclaredKeys
<1>8. a.fields = b.fields
  <2> HIDE DEF a, b, K
  <2> QED
    BY <1>6, <1>7
<1>9. a = b
  <2> HIDE DEF a, b
  <2> QED
    BY <1>2, <1>3, <1>4, <1>8 DEF SchemaStates
<1> QED
  BY <1>9

\* An edit of two keys is made or refused as a whole, and never of register.
EditGuarded(f, r, q) ==
    LET edited == EditedKeys(f, <<r, q>>)
    IN  /\ "register" \notin edited
        /\ edited # {} => /\ edited = {r.key, q.key}
                          /\ {r.type, q.type} \subseteq Types

\* What an accepted schema lets a client do.
LEMMA AcceptedSchema ==
    ASSUME NEW es, NEW n \in Nat, NEW f, Declared(f, es, n), ValidEntries(es, n)
    PROVE  /\ \A r, q : EditGuarded(f, r, q)
           /\ visible(f, "username", FALSE)
           /\ accepts(f, "username", "string")
           /\ \A i \in 1 .. n : visible(f, es[i].name, FALSE)
                                   = (es[i].vis # "private")
<1> DEFINE K == DeclaredKeys(es, n)
<1>1. /\ f \in [K -> FieldType] /\ "username" \in K /\ "register" \in K
      /\ f["username"] = Field("string", FALSE, FALSE, TRUE)
      /\ f["register"] = Field("number", FALSE, TRUE, TRUE)
  BY BuiltinType DEF Declared, DeclaredKeys, Builtin
<1>2. ASSUME NEW r, NEW q
      PROVE  EditGuarded(f, r, q)
  <2>1. EditedKeys(f, <<r, q>>)
            = IF accepts(f, r.key, r.type) /\ accepts(f, q.key, q.type)
              THEN {r.key, q.key} ELSE {}
    <3>1. DOMAIN <<r, q>> = {1, 2} /\ <<r, q>>[1] = r /\ <<r, q>>[2] = q
      OBVIOUS
    <3> DEFINE c == <<r, q>>
    <3>2. DOMAIN c = {1, 2} /\ c[1] = r /\ c[2] = q
      BY <3>1
    <3> HIDE DEF c
    <3>3. EditedKeys(f, c)
              = IF accepts(f, r.key, r.type) /\ accepts(f, q.key, q.type)
                THEN {r.key, q.key} ELSE {}
      BY <3>2 DEF EditedKeys
    <3> QED
      BY <3>3 DEF c
  <2>2. \A type : ~accepts(f, "register", type)
    BY <1>1 DEF accepts, Field
  <2>3. \A key, type : accepts(f, key, type) => type \in Types
    BY <1>1 DEF accepts, FieldType
  <2> QED
    BY <2>1, <2>2, <2>3 DEF EditGuarded
<1>3. visible(f, "username", FALSE) /\ accepts(f, "username", "string")
  BY <1>1 DEF visible, accepts, Field
<1>4. ASSUME NEW i \in 1 .. n
      PROVE  visible(f, es[i].name, FALSE) = (es[i].vis # "private")
  <2>1. f[es[i].name] = FieldOf(es[i]) /\ es[i].name \in DOMAIN f
    BY <1>1 DEF Declared, DeclaredKeys
  <2>2. f[es[i].name].private = (es[i].vis = "private")
    BY <2>1 DEF FieldOf, Field
  <2>3. visible(f, es[i].name, FALSE) = ~f[es[i].name].private
    BY <2>1 DEF visible
  <2> QED
    BY <2>2, <2>3
<1> QED
  BY <1>2, <1>3, <1>4

\* Whatever ALLOWED_PROFILE_KEY declares, in whatever order.
THEOREM SchemaIsGuarded == Spec => []SchemaGuards
<1>1. ASSUME NEW S, NEW es \in Seq(S), NEW schema,
             schema = ParseProfileSchema(es), schema.ok = TRUE
      PROVE  /\ \A r, q : EditGuarded(schema.fields, r, q)
             /\ visible(schema.fields, "username", FALSE)
             /\ accepts(schema.fields, "username", "string")
             /\ \A i \in 1 .. Len(es) : visible(schema.fields, es[i].name, FALSE)
                                           = (es[i].vis # "private")
             /\ ParseProfileSchema(Reverse(es)) = schema
  <2>1. /\ Declared(schema.fields, es, Len(es)) /\ ValidEntries(es, Len(es))
        /\ Len(es) \in Nat
    <3>1. schema.ok = TRUE <=> ValidEntries(es, Len(es))
      BY <1>1, ParseResult
    <3>2. schema.ok = TRUE => Declared(schema.fields, es, Len(es))
      BY <1>1, ParseResult
    <3> QED
      BY <1>1, <3>1, <3>2
  <2>2. ParseProfileSchema(Reverse(es)) = schema
    BY <1>1, ParseReversed
  <2>3. PICK f : f = schema.fields
    OBVIOUS
  <2>4. /\ \A r, q : EditGuarded(f, r, q)
        /\ visible(f, "username", FALSE)
        /\ accepts(f, "username", "string")
        /\ \A i \in 1 .. Len(es) : visible(f, es[i].name, FALSE)
                                      = (es[i].vis # "private")
    BY <2>1, <2>3, AcceptedSchema
  <2> QED
    BY <2>2, <2>3, <2>4
<1>2. ASSUME kind = "schema", InputOK PROVE SchemaGuards
  <2>1. input \in Seq(Alphabet["schema"])
    BY <1>2 DEF InputOK, Kinds
  <2>2. PICK schema : schema = ParseProfileSchema(input)
    OBVIOUS
  <2>3. schema.ok \in BOOLEAN
    BY <2>1, <2>2, ParseResult DEF SchemaStates
  <2>4. \A e \in ToSet(input) : \E i \in 1 .. Len(input) : e = input[i]
    BY <2>1 DEF ToSet
  <2>5. schema.ok = TRUE =>
            /\ \A r, q : EditGuarded(schema.fields, r, q)
            /\ visible(schema.fields, "username", FALSE)
            /\ accepts(schema.fields, "username", "string")
            /\ \A i \in 1 .. Len(input) : visible(schema.fields, input[i].name, FALSE)
                                             = (input[i].vis # "private")
            /\ ParseProfileSchema(Reverse(input)) = schema
    BY <1>1, <2>1, <2>2
  <2>6. schema.ok => \A e \in ToSet(input) :
            visible(schema.fields, e.name, FALSE) = (e.vis # "private")
    BY <2>3, <2>4, <2>5
  <2> QED
    BY <2>2, <2>3, <2>5, <2>6 DEF SchemaGuards, EditGuarded
<1> QED
  BY <1>2, InputType, PTL DEF SchemaGuards

-----------------------------------------------------------------------------
(* Positions *)

\* The smallest element of a set of positions.
LEMMA LeastPosition ==
    ASSUME NEW n \in Nat, NEW s \in SUBSET (1 .. n), s # {}
    PROVE  \E m \in s : \A i \in s : m <= i
<1> DEFINE T == {k \in Nat : \A r \in SUBSET (1 .. k) :
                    r # {} => \E m \in r : \A i \in r : m <= i}
<1>1. 0 \in T
  <2>1. 1 .. 0 = {}
    OBVIOUS
  <2> QED
    BY <2>1
<1>2. ASSUME NEW k \in T PROVE k + 1 \in T
  <2> SUFFICES ASSUME NEW r \in SUBSET (1 .. k + 1), r # {}
               PROVE  \E m \in r : \A i \in r : m <= i
    OBVIOUS
  <2>1. r \ {k + 1} \in SUBSET (1 .. k)
    OBVIOUS
  <2>2. CASE r \ {k + 1} = {}
    BY <2>2
  <2>3. CASE r \ {k + 1} # {}
    <3>1. PICK m \in r \ {k + 1} : \A i \in r \ {k + 1} : m <= i
      BY <2>1, <2>3
    <3>2. m <= k + 1 /\ m \in r
      BY <2>1
    <3> QED
      BY <3>1, <3>2
  <2> QED
    BY <2>2, <2>3
<1>3. n \in T
  <2> HIDE DEF T
  <2>1. T \in SUBSET Nat
    BY DEF T
  <2> QED
    BY <1>1, <1>2, <2>1, Induction
<1> QED
  BY <1>3

LEMMA GreatestPosition ==
    ASSUME NEW n \in Nat, NEW s \in SUBSET (1 .. n), s # {}
    PROVE  \E m \in s : \A i \in s : i <= m
  BY MaxOfPositions

-----------------------------------------------------------------------------
(* Trimming *)

LEMMA FirstNotIs ==
    ASSUME NEW C, NEW s \in Seq(C), NEW cut
    PROVE  /\ FirstNot(s, cut) \in 1 .. Len(s) + 1
           /\ FirstNot(s, cut) = Len(s) + 1 \/ s[FirstNot(s, cut)] \notin cut
           /\ \A i \in 1 .. FirstNot(s, cut) - 1 : s[i] \in cut
<1> DEFINE n == Len(s)
           X == {i \in 1 .. n : s[i] \notin cut}
           Q(k) == /\ k = n + 1 \/ s[k] \notin cut
                   /\ \A i \in 1 .. k - 1 : s[i] \in cut
<1>1. n \in Nat
  OBVIOUS
<1>2. \E k \in 1 .. n + 1 : Q(k)
  <2>1. CASE X = {}
    <3>1. n + 1 \in 1 .. n + 1 /\ Q(n + 1)
      BY <1>1, <2>1
    <3> QED
      BY <3>1
  <2>2. CASE X # {}
    <3>1. X \in SUBSET (1 .. n)
      OBVIOUS
    <3>2. PICK m \in X : \A i \in X : m <= i
      <4> HIDE DEF X, n
      <4> QED
        BY <1>1, <2>2, <3>1, LeastPosition
    <3>3. m \in 1 .. n + 1 /\ Q(m)
      BY <1>1, <3>2
    <3> QED
      BY <3>3
  <2> QED
    BY <2>1, <2>2
<1>3. FirstNot(s, cut) \in 1 .. n + 1 /\ Q(FirstNot(s, cut))
  BY <1>2 DEF FirstNot
<1> QED
  BY <1>3

LEMMA LastNotIs ==
    ASSUME NEW C, NEW s \in Seq(C), NEW cut
    PROVE  /\ LastNot(s, cut) \in 0 .. Len(s)
           /\ LastNot(s, cut) = 0 \/ s[LastNot(s, cut)] \notin cut
           /\ \A i \in LastNot(s, cut) + 1 .. Len(s) : s[i] \in cut
<1> DEFINE n == Len(s)
           X == {i \in 1 .. n : s[i] \notin cut}
           Q(k) == /\ k = 0 \/ s[k] \notin cut
                   /\ \A i \in k + 1 .. n : s[i] \in cut
<1>1. n \in Nat
  OBVIOUS
<1>2. \E k \in 0 .. n : Q(k)
  <2>1. CASE X = {}
    <3>1. 0 \in 0 .. n /\ Q(0)
      BY <1>1, <2>1
    <3> QED
      BY <3>1
  <2>2. CASE X # {}
    <3>1. X \in SUBSET (1 .. n)
      OBVIOUS
    <3>2. PICK m \in X : \A i \in X : i <= m
      <4> HIDE DEF X, n
      <4> QED
        BY <1>1, <2>2, <3>1, GreatestPosition
    <3>3. m \in 0 .. n /\ Q(m)
      BY <1>1, <3>2
    <3> QED
      BY <3>3
  <2> QED
    BY <2>1, <2>2
<1>3. LastNot(s, cut) \in 0 .. n /\ Q(LastNot(s, cut))
  BY <1>2 DEF LastNot
<1> QED
  BY <1>3

LEMMA TrimBothType ==
    ASSUME NEW C, NEW s \in Seq(C), NEW cut
    PROVE  TrimBoth(s, cut) \in Seq(C)
<1>1. PICK a, b : /\ a = FirstNot(s, cut) /\ b = LastNot(s, cut)
                  /\ a \in 1 .. Len(s) + 1 /\ b \in 0 .. Len(s)
  BY FirstNotIs, LastNotIs
<1>2. SubSeq(s, a, b) \in Seq(C)
  BY <1>1
<1> QED
  BY <1>1, <1>2 DEF TrimBoth

-----------------------------------------------------------------------------
(* Addresses *)

LEMMA BareType ==
    ASSUME NEW C, NEW addr \in Seq(C)
    PROVE  Bare(addr) \in Seq(C)
<1>1. PICK a \in Seq(C) : a = TrimBoth(addr, Blanks)
  BY TrimBothType
<1>2. PICK b \in Seq(C) : b = IF a # <<>> /\ a[1] = Lt THEN Tail(a) ELSE a
  <2>1. a # <<>> => Tail(a) \in Seq(C)
    OBVIOUS
  <2>2. (IF a # <<>> /\ a[1] = Lt THEN Tail(a) ELSE a) \in Seq(C)
    BY <2>1
  <2> QED
    BY <2>2
<1>3. b # <<>> => Front(b) \in Seq(C)
  BY DEF Front
<1>4. Bare(addr) = IF b # <<>> /\ Last(b) = Gt THEN Front(b) ELSE b
  BY <1>1, <1>2 DEF Bare
<1> QED
  BY <1>3, <1>4

LEMMA AtSignIs ==
    ASSUME NEW C, NEW a \in Seq(C)
    PROVE  /\ At \notin ToSet(a) => AtSign(a) = 0 /\ \A i \in 1 .. Len(a) : a[i] # At
           /\ At \in ToSet(a) => /\ AtSign(a) \in 1 .. Len(a) /\ a[AtSign(a)] = At
                                 /\ \A j \in AtSign(a) + 1 .. Len(a) : a[j] # At
<1> DEFINE n == Len(a)
           X == {i \in 1 .. n : a[i] = At}
           Q(i) == a[i] = At /\ \A j \in i + 1 .. n : a[j] # At
<1>1. n \in Nat /\ DOMAIN a = 1 .. n
  OBVIOUS
<1>2. At \in ToSet(a) <=> X # {}
  BY <1>1 DEF ToSet
<1>3. CASE X = {}
  BY <1>2, <1>3 DEF AtSign
<1>4. CASE X # {}
  <2>1. X \in SUBSET (1 .. n)
    OBVIOUS
  <2>2. PICK m \in X : \A i \in X : i <= m
    <3> HIDE DEF X, n
    <3> QED
      BY <1>1, <1>4, <2>1, GreatestPosition
  <2>3. m \in 1 .. n /\ Q(m)
    BY <1>1, <2>2
  <2>4. \E i \in DOMAIN a : Q(i)
    BY <1>1, <2>3
  <2>5. AtSign(a) = CHOOSE i \in DOMAIN a : Q(i)
    BY <1>2, <1>4 DEF AtSign
  <2>6. AtSign(a) \in DOMAIN a /\ Q(AtSign(a))
    <3> HIDE DEF Q
    <3> QED
      BY <2>4, <2>5
  <2> QED
    BY <1>1, <1>2, <1>4, <2>6
<1> QED
  BY <1>3, <1>4

\* A part of a text.
LEMMA PartOf ==
    ASSUME NEW C, NEW s \in Seq(C), NEW m \in 1 .. Len(s) + 1,
           NEW k \in m - 1 .. Len(s)
    PROVE  /\ SubSeq(s, m, k) \in Seq(C) /\ Len(SubSeq(s, m, k)) = k - m + 1
           /\ \A i \in 1 .. k - m + 1 : SubSeq(s, m, k)[i] = s[m + i - 1]
<1>1. SubSeq(s, m, k) \in Seq(C)
  OBVIOUS
<1>2. Len(SubSeq(s, m, k)) = k - m + 1
  OBVIOUS
<1>3. \A i \in 1 .. k - m + 1 : SubSeq(s, m, k)[i] = s[m + i - 1]
  OBVIOUS
<1> QED
  BY <1>1, <1>2, <1>3

\* What makes an address well formed does not depend on case.
LEMMA LowerKeeps ==
    ASSUME NEW c
    PROVE  /\ Lower(c) \in Blanks <=> c \in Blanks
           /\ Lower(c) = At <=> c = At
<1>1. CASE c \in 65 .. 90
  <2>1. Lower(c) = c + 32
    BY <1>1 DEF Lower
  <2> QED
    BY <1>1, <2>1 DEF Blanks, At, LF, CR
<1>2. CASE c \notin 65 .. 90
  BY <1>2 DEF Lower
<1> QED
  BY <1>1, <1>2

\* SplitAddress takes exactly the well-formed addresses, by their domain.
LEMMA SplitIs ==
    ASSUME NEW C, NEW addr \in Seq(C)
    PROVE  /\ SplitAddress(addr).ok \in BOOLEAN
           /\ SplitAddress(addr).ok = TRUE <=> WellFormed(Bare(addr))
           /\ WellFormed(Bare(addr)) =>
                  SplitAddress(addr).domain = DomainPart(Bare(addr))
<1>1. PICK a \in Seq(C) : a = Bare(addr)
  BY BareType
<1> DEFINE n == Len(a)
<1>2. PICK at : at = AtSign(a)
  OBVIOUS
<1>3. /\ at \in 0 .. n /\ (at # 0 => a[at] = At)
      /\ \A j \in at + 1 .. n : a[j] # At
  BY <1>2, AtSignIs
<1>4. n \in Nat /\ DOMAIN a = 1 .. n
  OBVIOUS
<1> DEFINE local == SubSeq(a, 1, at - 1)
           rest == SubSeq(a, at + 1, n)
           domain == ToLower(rest)
           bad == \/ at <= 1 \/ at = n
                  \/ ToSet(local) \cap Blanks # {}
                  \/ ToSet(domain) \cap (Blanks \cup {At}) # {}
<1>5. SplitAddress(addr) = IF bad THEN Malformed
                           ELSE [ok |-> TRUE, local |-> local, domain |-> domain]
  BY <1>1, <1>2 DEF SplitAddress
<1>6. Ats(a) = IF at >= 2 /\ at < n THEN {at} ELSE {}
  <2>1. ASSUME NEW i \in Ats(a) PROVE i = at /\ at >= 2 /\ at < n
    <3>1. i \in 2 .. n - 1 /\ a[i] = At /\ \A j \in i + 1 .. n : a[j] # At
      BY <1>4 DEF Ats
    <3>2. ~(at < i)
      BY <1>3, <1>4, <3>1
    <3>3. ~(i < at)
      BY <1>3, <1>4, <3>1
    <3> QED
      BY <1>3, <1>4, <3>1, <3>2, <3>3
  <2>2. ASSUME at >= 2, at < n PROVE at \in Ats(a)
    BY <1>3, <1>4, <2>2 DEF Ats
  <2> QED
    BY <2>1, <2>2
<1>7. ASSUME at >= 2, at < n
      PROVE  /\ ToSet(local) \cap Blanks # {}
                   <=> \E i \in 1 .. at - 1 : a[i] \in Blanks
             /\ ToSet(domain) \cap (Blanks \cup {At}) # {}
                   <=> \E i \in at + 1 .. n : a[i] \in Blanks
  <2>1. /\ local \in Seq(C) /\ Len(local) = at - 1
        /\ \A i \in 1 .. at - 1 : local[i] = a[i]
    BY <1>3, <1>4, <1>7
  <2>2. /\ rest \in Seq(C) /\ Len(rest) = n - at
        /\ \A i \in 1 .. n - at : rest[i] = a[at + i]
    <3>1. /\ at + 1 \in 1 .. n + 1 /\ n \in (at + 1) - 1 .. n
          /\ n - (at + 1) + 1 = n - at
          /\ \A i \in 1 .. n - at : (at + 1) + i - 1 = at + i
      BY <1>3, <1>4, <1>7
    <3>2. /\ rest \in Seq(C) /\ Len(rest) = n - (at + 1) + 1
          /\ \A i \in 1 .. n - (at + 1) + 1 : rest[i] = a[(at + 1) + i - 1]
      BY <3>1, PartOf
    <3> HIDE DEF rest
    <3> QED
      BY <3>1, <3>2
  <2> HIDE DEF local, rest
  <2>3. ToSet(local) \cap Blanks # {} <=> \E i \in 1 .. at - 1 : a[i] \in Blanks
    BY <2>1 DEF ToSet
  <2>4. DOMAIN domain = 1 .. n - at /\ \A i \in 1 .. n - at : domain[i] = Lower(a[at + i])
    BY <2>2 DEF ToLower
  <2> HIDE DEF domain
  <2>5. ToSet(domain) \cap (Blanks \cup {At}) # {}
            <=> \E i \in 1 .. n - at : domain[i] \in Blanks \cup {At}
    BY <2>4 DEF ToSet
  <2>6. \A i \in 1 .. n - at : domain[i] \in Blanks \cup {At} <=> a[at + i] \in Blanks
    <3> SUFFICES ASSUME NEW i \in 1 .. n - at
                 PROVE  domain[i] \in Blanks \cup {At} <=> a[at + i] \in Blanks
      OBVIOUS
    <3>1. a[at + i] # At
      BY <1>3, <1>4
    <3> QED
      BY <2>4, <3>1, LowerKeeps
  <2>7. (\E i \in 1 .. n - at : a[at + i] \in Blanks)
            <=> \E i \in at + 1 .. n : a[i] \in Blanks
    <3>1. \A i \in 1 .. n - at : at + i \in at + 1 .. n
      BY <1>3, <1>4
    <3>2. \A i \in at + 1 .. n : i - at \in 1 .. n - at /\ at + (i - at) = i
      BY <1>3, <1>4
    <3> QED
      BY <3>1, <3>2
  <2> QED
    BY <2>3, <2>5, <2>6, <2>7
<1>8. bad <=> ~WellFormed(a)
  <2>1. CASE at >= 2 /\ at < n
    <3>1. ToSet(a) \cap Blanks = {} <=> \A i \in 1 .. n : a[i] \notin Blanks
      BY <1>4 DEF ToSet
    <3>2. a[at] \notin Blanks
      BY <1>3, <2>1 DEF Blanks, At, LF, CR
    <3>3. \A i \in 1 .. n : i \in 1 .. at - 1 \/ i = at \/ i \in at + 1 .. n
      BY <1>3, <1>4
    <3>4. 1 .. at - 1 \subseteq 1 .. n /\ at + 1 .. n \subseteq 1 .. n
      BY <1>3, <1>4
    <3>5. (\A i \in 1 .. n : a[i] \notin Blanks)
             <=> /\ \A i \in 1 .. at - 1 : a[i] \notin Blanks
                 /\ \A i \in at + 1 .. n : a[i] \notin Blanks
      BY <3>2, <3>3, <3>4
    <3>6. ~(at <= 1) /\ at # n
      <4>1. at \in Int /\ n \in Int
        BY <1>3, <1>4
      <4> HIDE DEF n
      <4> QED
        BY <2>1, <4>1
    <3> HIDE DEF local, domain
    <3> QED
      BY <1>6, <1>7, <2>1, <3>1, <3>5, <3>6 DEF WellFormed
  <2>2. CASE ~(at >= 2 /\ at < n)
    <3>1. at \in 0 .. n
      BY <1>3
    <3>2. at <= 1 \/ at = n
      <4> HIDE DEF n
      <4> QED
        BY <1>4, <2>2, <3>1
    <3>3. ~WellFormed(a)
      BY <1>6, <2>2 DEF WellFormed
    <3> QED
      BY <3>2, <3>3
  <2> QED
    BY <2>1, <2>2
<1>9. WellFormed(a) => domain = DomainPart(a)
  <2> SUFFICES ASSUME WellFormed(a) PROVE domain = DomainPart(a)
    OBVIOUS
  <2>1. Ats(a) = {at}
    BY <1>6 DEF WellFormed
  <2>2. (CHOOSE k \in Ats(a) : TRUE) = at
    BY <2>1
  <2> QED
    BY <2>2 DEF DomainPart
<1> HIDE DEF bad, domain, local
<1>10. CASE bad
  BY <1>1, <1>5, <1>8, <1>10 DEF Malformed
<1>11. CASE ~bad
  BY <1>1, <1>5, <1>8, <1>9, <1>11
<1> QED
  BY <1>10, <1>11

-----------------------------------------------------------------------------
(* Recipients by domain *)

\* How often r is among the first n elements of s.
Tally(s, n, r) == Cardinality({i \in 1 .. n : s[i] = r})

LEMMA TallyStep ==
    ASSUME NEW s, NEW n \in Nat, NEW r
    PROVE  /\ Tally(s, n, r) \in Nat /\ Tally(s, 0, r) = 0
           /\ s[n + 1] = r => Tally(s, n + 1, r) = Tally(s, n, r) + 1
           /\ s[n + 1] # r => Tally(s, n + 1, r) = Tally(s, n, r)
<1> DEFINE X == {i \in 1 .. n : s[i] = r}
           Y == {i \in 1 .. n + 1 : s[i] = r}
<1>1. IsFiniteSet(X)
  <2>1. IsFiniteSet(1 .. n)
    BY FS_Interval
  <2> QED
    BY <2>1, FS_Subset
<1>2. Cardinality(X) \in Nat
  BY <1>1, FS_CardinalityType
<1>3. {i \in 1 .. 0 : s[i] = r} = {}
  OBVIOUS
<1>4. n + 1 \notin X
  OBVIOUS
<1>5. s[n + 1] = r => Y = X \cup {n + 1}
  OBVIOUS
<1>6. s[n + 1] # r => Y = X
  OBVIOUS
<1>7. Cardinality(X \cup {n + 1}) = Cardinality(X) + 1
  <2> HIDE DEF X
  <2> QED
    BY <1>1, <1>4, FS_AddElement
<1> HIDE DEF X, Y
<1>8. /\ s[n + 1] = r => Cardinality(Y) = Cardinality(X) + 1
      /\ s[n + 1] # r => Cardinality(Y) = Cardinality(X)
  BY <1>5, <1>6, <1>7
<1> QED
  BY <1>2, <1>3, <1>8, FS_EmptySet DEF Tally, X, Y

LEMMA TallyNone ==
    ASSUME NEW s, NEW r
    PROVE  Tally(s, 0, r) = 0
  BY TallyStep

LEMMA TallyAppend ==
    ASSUME NEW R, NEW s \in Seq(R), NEW x \in R, NEW r
    PROVE  LET w == Append(s, x)
           IN  /\ w \in Seq(R)
               /\ x = r => Tally(w, Len(w), r) = Tally(s, Len(s), r) + 1
               /\ x # r => Tally(w, Len(w), r) = Tally(s, Len(s), r)
<1> DEFINE w == Append(s, x)
           n == Len(s)
<1>1. /\ w \in Seq(R) /\ Len(w) = n + 1 /\ n \in Nat /\ w[n + 1] = x
      /\ \A i \in 1 .. n : w[i] = s[i]
  OBVIOUS
<1> HIDE DEF w, n
<1>2. {i \in 1 .. n : w[i] = r} = {i \in 1 .. n : s[i] = r}
  BY <1>1
<1>3. Tally(w, n, r) = Tally(s, n, r)
  BY <1>2 DEF Tally
<1>4. /\ w[n + 1] = r => Tally(w, n + 1, r) = Tally(w, n, r) + 1
      /\ w[n + 1] # r => Tally(w, n + 1, r) = Tally(w, n, r)
  BY <1>1, TallyStep
<1>5. /\ x = r => Tally(w, Len(w), r) = Tally(s, n, r) + 1
      /\ x # r => Tally(w, Len(w), r) = Tally(s, n, r)
  BY <1>1, <1>3, <1>4
<1> QED
  BY <1>1, <1>5 DEF w, n

\* A recipient that is not among the first n has not been counted.
LEMMA TallyZero ==
    ASSUME NEW s, NEW n \in Nat, NEW r, \A i \in 1 .. n : s[i] # r
    PROVE  Tally(s, n, r) = 0
<1>1. {i \in 1 .. n : s[i] = r} = {}
  OBVIOUS
<1> QED
  BY <1>1, FS_EmptySet DEF Tally

Taken(r) == SplitAddress(r).ok = TRUE
DomainOf(r) == SplitAddress(r).domain
Group(g, d) == IF d \in DOMAIN g THEN g[d] ELSE <<>>

\* One round of groupByDomain.
LEMMA AddIs ==
    ASSUME NEW C, NEW x \in Seq(C), NEW g
    PROVE  /\ Taken(x) => AddRecipient(g, x)
                              = Put(g, DomainOf(x), Append(Group(g, DomainOf(x)), x))
           /\ ~Taken(x) => AddRecipient(g, x) = g
<1>1. SplitAddress(x).ok \in BOOLEAN
  BY SplitIs
<1> QED
  BY <1>1 DEF AddRecipient, Taken, DomainOf, Group

\* The groups of the first n recipients.
Keys(rs, n) == {DomainOf(rs[i]) : i \in {j \in 1 .. n : Taken(rs[j])}}

Grouped(g, C, rs, n) ==
    /\ g \in [Keys(rs, n) -> Seq(Seq(C))]
    /\ \A d \in Keys(rs, n), r \in Seq(C) :
          Tally(g[d], Len(g[d]), r)
              = IF Taken(r) /\ DomainOf(r) = d THEN Tally(rs, n, r) ELSE 0

LEMMA GroupStep ==
    ASSUME NEW C, NEW rs, NEW n \in Nat, rs[n + 1] \in Seq(C),
           NEW g, Grouped(g, C, rs, n)
    PROVE  Grouped(AddRecipient(g, rs[n + 1]), C, rs, n + 1)
<1>1. PICK x \in Seq(C) : x = rs[n + 1]
  OBVIOUS
<1> DEFINE K == Keys(rs, n)
           d0 == DomainOf(x)
           h == AddRecipient(g, x)
<1>2. /\ n + 1 \in 1 .. n + 1 /\ \A i \in 1 .. n : i \in 1 .. n + 1
      /\ \A i \in 1 .. n + 1 : i \in 1 .. n \/ i = n + 1
  OBVIOUS
<1>3. g \in [K -> Seq(Seq(C))]
  BY DEF Grouped
<1>4. \A r \in Seq(C) : /\ Tally(rs, n, r) \in Nat
                        /\ x = r => Tally(rs, n + 1, r) = Tally(rs, n, r) + 1
                        /\ x # r => Tally(rs, n + 1, r) = Tally(rs, n, r)
  BY <1>1, TallyStep
<1>5. CASE ~Taken(x)
  <2>1. Keys(rs, n + 1) = K
    <3>1. {j \in 1 .. n + 1 : Taken(rs[j])} = {j \in 1 .. n : Taken(rs[j])}
      BY <1>1, <1>2, <1>5
    <3> QED
      BY <3>1 DEF Keys
  <2>2. h = g
    BY <1>5, AddIs
  <2>3. ASSUME NEW d \in K, NEW r \in Seq(C)
        PROVE  Tally(g[d], Len(g[d]), r)
                   = IF Taken(r) /\ DomainOf(r) = d THEN Tally(rs, n + 1, r) ELSE 0
    <3>1. Tally(g[d], Len(g[d]), r)
              = IF Taken(r) /\ DomainOf(r) = d THEN Tally(rs, n, r) ELSE 0
      BY DEF Grouped
    <3>2. Taken(r) => x # r
      BY <1>5
    <3> HIDE DEF K
    <3> QED
      BY <1>4, <3>1, <3>2
  <2> HIDE DEF K
  <2> QED
    BY <1>1, <1>3, <2>1, <2>2, <2>3 DEF Grouped
<1>6. CASE Taken(x)
  <2>1. Keys(rs, n + 1) = K \cup {d0}
    <3>1. {j \in 1 .. n + 1 : Taken(rs[j])} = {j \in 1 .. n : Taken(rs[j])} \cup {n + 1}
      BY <1>1, <1>2, <1>6
    <3> QED
      BY <1>1, <3>1 DEF Keys
  <2>2. PICK old \in Seq(Seq(C)) : old = Group(g, d0)
    <3>1. <<>> \in Seq(Seq(C))
      OBVIOUS
    <3>2. d0 \in DOMAIN g => g[d0] \in Seq(Seq(C))
      BY <1>3
    <3>3. Group(g, d0) \in Seq(Seq(C))
      BY <3>1, <3>2 DEF Group
    <3> QED
      BY <3>3
  <2>3. PICK new \in Seq(Seq(C)) : new = Append(old, x)
    <3>1. Append(old, x) \in Seq(Seq(C))
      BY TallyAppend
    <3> QED
      BY <3>1
  <2>4. h = Put(g, d0, new)
    BY <1>6, <2>2, <2>3, AddIs
  <2>5. /\ h \in [K \cup {d0} -> Seq(Seq(C))] /\ h[d0] = new
        /\ \A d \in K : d # d0 => h[d] = g[d]
    <3> DEFINE W == Seq(Seq(C))
    <3>1. g \in [K -> W] /\ new \in W
      BY <1>3, <2>3
    <3> HIDE DEF K, d0, h, W
    <3>2. h \in [K \cup {d0} -> W] /\ h[d0] = new
      BY <2>4, <3>1 DEF Put
    <3>3. \A d \in K : d # d0 => h[d] = g[d]
      BY <2>4, <3>1 DEF Put
    <3> QED
      BY <3>2, <3>3 DEF W
  <2>6. ASSUME NEW r \in Seq(C)
        PROVE  /\ x = r => Tally(new, Len(new), r) = Tally(old, Len(old), r) + 1
               /\ x # r => Tally(new, Len(new), r) = Tally(old, Len(old), r)
    BY <2>3, TallyAppend
  <2>7. ASSUME NEW r \in Seq(C)
        PROVE  Tally(old, Len(old), r)
                   = IF Taken(r) /\ DomainOf(r) = d0 THEN Tally(rs, n, r) ELSE 0
    <3>1. CASE d0 \in K
      <4>1. old = g[d0]
        BY <1>3, <2>2, <3>1 DEF Group
      <4> HIDE DEF d0
      <4> QED
        BY <3>1, <4>1 DEF Grouped
    <3>2. CASE d0 \notin K
      <4>1. old = <<>>
        BY <1>3, <2>2, <3>2 DEF Group
      <4>2. Tally(old, Len(old), r) = 0
        <5>1. Len(old) = 0
          BY <4>1
        <5>2. Tally(old, 0, r) = 0
          BY TallyNone, Zenon
        <5> QED
          BY <5>1, <5>2, Zenon
      <4>3. ASSUME Taken(r), DomainOf(r) = d0 PROVE Tally(rs, n, r) = 0
        <5>1. \A i \in 1 .. n : rs[i] # r
          BY <3>2, <4>3 DEF Keys
        <5> QED
          BY <5>1, TallyZero
      <4> QED
        BY <4>2, <4>3
    <3> QED
      BY <3>1, <3>2
  <2>8. ASSUME NEW d \in K \cup {d0}, NEW r \in Seq(C)
        PROVE  Tally(h[d], Len(h[d]), r)
                   = IF Taken(r) /\ DomainOf(r) = d THEN Tally(rs, n + 1, r) ELSE 0
    <3>1. CASE d = d0
      <4>1. h[d] = new
        BY <2>5, <3>1
      <4>2. x = r => Taken(r) /\ DomainOf(r) = d
        BY <1>6, <3>1
      <4> HIDE DEF h, d0
      <4> QED
        BY <1>4, <2>6, <2>7, <3>1, <4>1, <4>2
    <3>2. CASE d # d0
      <4>1. d \in K /\ h[d] = g[d]
        BY <2>5, <3>2
      <4>2. Tally(g[d], Len(g[d]), r)
                = IF Taken(r) /\ DomainOf(r) = d THEN Tally(rs, n, r) ELSE 0
        BY <4>1 DEF Grouped
      <4>3. x = r => DomainOf(r) # d
        BY <3>2
      <4> HIDE DEF h, K, d0
      <4> QED
        BY <1>4, <4>1, <4>2, <4>3
    <3> QED
      BY <3>1, <3>2
  <2> HIDE DEF K, h, d0
  <2> QED
    BY <1>1, <2>1, <2>5, <2>8 DEF Grouped, h
<1> QED
  BY <1>5, <1>6

NoGroups == [d \in {} |-> <<>>]

\* The recursive function behind groupByDomain exists.
IsGrouping(it, rs) ==
    it = [s \in SUBSET (1 .. Len(rs)) |->
             IF s = {} THEN NoGroups
             ELSE AddRecipient(it[s \ {Max(s)}], rs[Max(s)])]

GroupMaps(C) ==
    UNION {[K -> Seq(Seq(C))] : K \in SUBSET {DomainOf(r) : r \in Seq(C)}}

LEMMA AddType ==
    ASSUME NEW C, NEW g \in GroupMaps(C), NEW x \in Seq(C)
    PROVE  AddRecipient(g, x) \in GroupMaps(C)
<1>1. CASE ~Taken(x)
  BY <1>1, AddIs
<1>2. CASE Taken(x)
  <2> DEFINE W == Seq(Seq(C))
             D == {DomainOf(r) : r \in Seq(C)}
             d0 == DomainOf(x)
  <2>1. PICK K \in SUBSET D : g \in [K -> W]
    BY DEF GroupMaps
  <2>2. Group(g, d0) \in W
    <3>1. <<>> \in W
      OBVIOUS
    <3>2. d0 \in DOMAIN g => g[d0] \in W
      BY <2>1
    <3> QED
      BY <3>1, <3>2 DEF Group
  <2>3. PICK new \in W : new = Append(Group(g, d0), x)
    <3>1. Append(Group(g, d0), x) \in W
      BY <2>2, TallyAppend
    <3> QED
      BY <3>1
  <2>4. AddRecipient(g, x) = Put(g, d0, new)
    BY <1>2, <2>3, AddIs
  <2>5. K \cup {d0} \in SUBSET D
    OBVIOUS
  <2>6. AddRecipient(g, x) \in [K \cup {d0} -> W]
    <3> HIDE DEF W, D, d0
    <3> QED
      BY <2>1, <2>3, <2>4 DEF Put
  <2> QED
    BY <2>5, <2>6 DEF GroupMaps
<1> QED
  BY <1>1, <1>2

LEMMA GroupingExists ==
    ASSUME NEW C, NEW rs \in Seq(Seq(C))
    PROVE  \E it : IsGrouping(it, rs)
<1> DEFINE n == Len(rs)
           V == GroupMaps(C)
           g == [x \in V \X (1 .. n) |-> AddRecipient(x[1], rs[x[2]])]
<1>1. n \in Nat /\ NoGroups \in V
  <2>1. NoGroups \in [{} -> Seq(Seq(C))]
    BY DEF NoGroups
  <2>2. \A W, D : \E K \in SUBSET D : [{} -> W] = [K -> W]
    OBVIOUS
  <2>3. NoGroups \in GroupMaps(C)
    BY <2>1, <2>2, Zenon DEF GroupMaps
  <2>4. n \in Nat
    OBVIOUS
  <2> QED
    BY <2>3, <2>4
<1>2. ASSUME NEW s \in V, NEW i \in 1 .. n
      PROVE  AddRecipient(s, rs[i]) \in V
  <2>1. rs[i] \in Seq(C)
    OBVIOUS
  <2> QED
    BY <2>1, AddType
<1>3. g \in [V \X (1 .. n) -> V]
  BY <1>2
<1>4. PICK it \in [SUBSET (1 .. n) -> V] : IsFold(it, n, NoGroups, g)
  <2> HIDE DEF n, V, g
  <2> QED
    BY <1>1, <1>3, FoldExists
<1>5. ASSUME NEW s \in SUBSET (1 .. n)
      PROVE  it[s] = IF s = {} THEN NoGroups
                     ELSE AddRecipient(it[s \ {Max(s)}], rs[Max(s)])
  <2>1. CASE s = {}
    BY <1>4, <2>1 DEF IsFold
  <2>2. CASE s # {}
    <3>1. Max(s) \in s
      BY <1>1, <2>2, MaxOfPositions
    <3>2. <<it[s \ {Max(s)}], Max(s)>> \in V \X (1 .. n)
      <4> HIDE DEF V
      <4> QED
        BY <3>1
    <3>3. it[s] = g[<<it[s \ {Max(s)}], Max(s)>>]
      BY <1>4, <2>2 DEF IsFold
    <3> HIDE DEF V
    <3> QED
      BY <2>2, <3>2, <3>3
  <2> QED
    BY <2>1, <2>2
<1>6. it = [s \in SUBSET (1 .. n) |->
              IF s = {} THEN NoGroups
              ELSE AddRecipient(it[s \ {Max(s)}], rs[Max(s)])]
  <2> HIDE DEF V, g, n
  <2> QED
    BY <1>5
<1>7. IsGrouping(it, rs)
  BY <1>6 DEF IsGrouping
<1> QED
  BY <1>7

\* The groups, recipient by recipient.
LEMMA GroupingSteps ==
    ASSUME NEW C, NEW rs \in Seq(Seq(C))
    PROVE  \E p : /\ p[0] = NoGroups
                  /\ \A i \in 1 .. Len(rs) : p[i] = AddRecipient(p[i - 1], rs[i])
                  /\ groupByDomain(rs) = p[Len(rs)]
<1>1. DOMAIN rs = 1 .. Len(rs) /\ Len(rs) \in Nat
  OBVIOUS
<1> DEFINE it == CHOOSE it : IsGrouping(it, rs)
           p == [i \in 0 .. Len(rs) |-> it[1 .. i]]
<1>2. IsGrouping(it, rs)
  BY GroupingExists, Zenon
<1>3. groupByDomain(rs) = it[1 .. Len(rs)]
  BY <1>1, Zenon DEF groupByDomain, FoldLeft, MapThenFoldSet, IsGrouping, NoGroups
<1> HIDE DEF it
<1>4. p[0] = NoGroups
  <2>1. 1 .. 0 = {} /\ {} \in SUBSET (1 .. Len(rs)) /\ 0 \in 0 .. Len(rs)
    BY <1>1
  <2>2. it[{}] = NoGroups
    BY <1>2, <2>1, Zenon DEF IsGrouping
  <2> QED
    BY <2>1, <2>2
<1>5. ASSUME NEW i \in 1 .. Len(rs)
      PROVE  p[i] = AddRecipient(p[i - 1], rs[i])
  <2>1. /\ 1 .. i \in SUBSET (1 .. Len(rs)) /\ 1 .. i # {}
        /\ Max(1 .. i) = i /\ (1 .. i) \ {i} = 1 .. i - 1
        /\ i \in 0 .. Len(rs) /\ i - 1 \in 0 .. Len(rs)
    BY <1>1, PositionsUpTo, Zenon
  <2>2. it[1 .. i] = AddRecipient(it[(1 .. i) \ {Max(1 .. i)}], rs[Max(1 .. i)])
    BY <1>2, <2>1, Zenon DEF IsGrouping
  <2>3. it[1 .. i] = AddRecipient(it[1 .. i - 1], rs[i])
    BY <2>1, <2>2
  <2>4. p[i] = it[1 .. i] /\ p[i - 1] = it[1 .. i - 1]
    BY <2>1
  <2> QED
    BY <2>3, <2>4
<1>6. p[Len(rs)] = it[1 .. Len(rs)]
  BY <1>1
<1> HIDE DEF p
<1> QED
  BY <1>3, <1>4, <1>5, <1>6

LEMMA GroupingResult ==
    ASSUME NEW C, NEW rs \in Seq(Seq(C))
    PROVE  Grouped(groupByDomain(rs), C, rs, Len(rs))
<1>1. PICK p : /\ p[0] = NoGroups
               /\ \A i \in 1 .. Len(rs) : p[i] = AddRecipient(p[i - 1], rs[i])
               /\ groupByDomain(rs) = p[Len(rs)]
  BY GroupingSteps
<1> DEFINE P(i) == Grouped(p[i], C, rs, i)
           T == {i \in Nat : i <= Len(rs) => P(i)}
<1>2. P(0)
  <2>1. 1 .. 0 = {}
    OBVIOUS
  <2>2. Keys(rs, 0) = {}
    BY <2>1 DEF Keys
  <2>3. NoGroups \in [{} -> Seq(Seq(C))]
    BY DEF NoGroups
  <2> QED
    BY <1>1, <2>2, <2>3 DEF Grouped
<1>3. ASSUME NEW i \in Nat, P(i), i + 1 <= Len(rs) PROVE P(i + 1)
  <2>1. i + 1 \in 1 .. Len(rs) /\ (i + 1) - 1 = i /\ rs[i + 1] \in Seq(C)
    BY <1>3
  <2>2. p[i + 1] = AddRecipient(p[i], rs[i + 1])
    BY <1>1, <2>1
  <2> QED
    BY <1>3, <2>1, <2>2, GroupStep
<1> HIDE DEF P
<1>4. Len(rs) \in T
  <2>1. 0 \in T /\ \A i \in T : i + 1 \in T
    BY <1>2, <1>3
  <2>2. T \in SUBSET Nat /\ Len(rs) \in Nat
    OBVIOUS
  <2> HIDE DEF T
  <2> QED
    BY <2>1, <2>2, Induction
<1>5. P(Len(rs))
  BY <1>4
<1> QED
  BY <1>1, <1>5 DEF P

\* What GroupsPartition says of the groups.
IsPartition(groups, rcpts) ==
    /\ \A r \in ToSet(rcpts), d \in DOMAIN groups :
          Cardinality({i \in DOMAIN groups[d] : groups[d][i] = r}) =
              IF WellFormed(Bare(r)) /\ d = DomainPart(Bare(r))
              THEN Cardinality({i \in DOMAIN rcpts : rcpts[i] = r}) ELSE 0
    /\ DOMAIN groups = {DomainPart(Bare(r)) :
                           r \in {x \in ToSet(rcpts) : WellFormed(Bare(x))}}

LEMMA GroupsArePartition ==
    ASSUME NEW C, NEW rcpts \in Seq(Seq(C))
    PROVE  IsPartition(groupByDomain(rcpts), rcpts)
<1> DEFINE n == Len(rcpts)
<1>1. PICK groups : groups = groupByDomain(rcpts) /\ Grouped(groups, C, rcpts, n)
  BY GroupingResult
<1>2. n \in Nat /\ DOMAIN rcpts = 1 .. n /\ \A i \in 1 .. n : rcpts[i] \in Seq(C)
  OBVIOUS
<1>3. ToSet(rcpts) = {rcpts[i] : i \in 1 .. n}
  BY <1>2 DEF ToSet
<1>4. ASSUME NEW r \in Seq(C)
      PROVE  /\ Taken(r) <=> WellFormed(Bare(r))
             /\ Taken(r) => DomainOf(r) = DomainPart(Bare(r))
  BY SplitIs DEF Taken, DomainOf
<1> DEFINE K == Keys(rcpts, n)
<1>5. groups \in [K -> Seq(Seq(C))]
  BY <1>1 DEF Grouped
<1>6. ASSUME NEW r \in ToSet(rcpts), NEW d \in K
      PROVE  Cardinality({i \in DOMAIN groups[d] : groups[d][i] = r}) =
                 IF WellFormed(Bare(r)) /\ d = DomainPart(Bare(r))
                 THEN Cardinality({i \in DOMAIN rcpts : rcpts[i] = r}) ELSE 0
  <2>1. r \in Seq(C)
    BY <1>2, <1>3
  <2>2. Tally(groups[d], Len(groups[d]), r)
            = IF Taken(r) /\ DomainOf(r) = d THEN Tally(rcpts, n, r) ELSE 0
    BY <1>1, <2>1 DEF Grouped
  <2>3. groups[d] \in Seq(Seq(C))
    BY <1>5
  <2>4. DOMAIN groups[d] = 1 .. Len(groups[d])
    BY <2>3
  <2>5. (Taken(r) /\ DomainOf(r) = d) <=> (WellFormed(Bare(r)) /\ d = DomainPart(Bare(r)))
    BY <1>4, <2>1
  <2> QED
    BY <1>2, <2>2, <2>4, <2>5 DEF Tally
<1>7. K = {DomainPart(Bare(r)) : r \in {x \in ToSet(rcpts) : WellFormed(Bare(x))}}
  <2> DEFINE D == {DomainPart(Bare(r)) : r \in {x \in ToSet(rcpts) : WellFormed(Bare(x))}}
  <2>1. ASSUME NEW d \in K PROVE d \in D
    <3>1. PICK i \in 1 .. n : Taken(rcpts[i]) /\ d = DomainOf(rcpts[i])
      BY DEF Keys
    <3>2. /\ rcpts[i] \in ToSet(rcpts) /\ WellFormed(Bare(rcpts[i]))
          /\ d = DomainPart(Bare(rcpts[i]))
      BY <1>2, <1>3, <1>4, <3>1
    <3> QED
      BY <3>2
  <2>2. ASSUME NEW d \in D PROVE d \in K
    <3>1. PICK r \in ToSet(rcpts) : WellFormed(Bare(r)) /\ d = DomainPart(Bare(r))
      OBVIOUS
    <3>2. PICK i \in 1 .. n : r = rcpts[i]
      BY <1>3
    <3>3. Taken(rcpts[i]) /\ d = DomainOf(rcpts[i])
      BY <1>2, <1>4, <3>1, <3>2
    <3> QED
      BY <3>3 DEF Keys
  <2> HIDE DEF K, D
  <2>3. K = D
    BY <2>1, <2>2
  <2> QED
    BY <2>3 DEF D
<1>8. DOMAIN groups = K
  BY <1>5
<1> HIDE DEF K
<1>9. IsPartition(groups, rcpts)
  BY <1>6, <1>7, <1>8, Zenon DEF IsPartition
<1> QED
  BY <1>1, <1>9

\* Spellings is a sequence of texts.
LEMMA SpellingsType ==
    ASSUME NEW C, NEW a \in Seq(C)
    PROVE  Spellings(a) \in Seq(Seq(C \cup Int))
<1> DEFINE B == C \cup Int
<1>1. a \in Seq(B)
  OBVIOUS
<1>2. <<Lt>> \in Seq(B) /\ <<Gt>> \in Seq(B) /\ <<32>> \in Seq(B)
  BY DEF Lt, Gt
<1>3. ToLower(a) \in Seq(B)
  <2>1. ASSUME NEW c \in C PROVE Lower(c) \in B
    <3>1. ASSUME c \in 65 .. 90 PROVE Lower(c) \in Int
      BY <3>1 DEF Lower
    <3>2. ASSUME c \notin 65 .. 90 PROVE Lower(c) = c
      BY <3>2 DEF Lower
    <3> QED
      BY <3>1, <3>2, Zenon
  <2> QED
    BY <2>1 DEF ToLower
<1> HIDE DEF B
<1>4. \A x, y, z \in Seq(B) : x \o y \o z \in Seq(B)
  OBVIOUS
<1>5. <<Lt>> \o a \o <<Gt>> \in Seq(B) /\ <<32>> \o a \o <<32>> \in Seq(B)
  BY <1>1, <1>2, <1>4
<1>6. ASSUME NEW W, NEW v \in W, NEW w \in W, NEW x \in W, NEW y \in W, NEW z \in W
      PROVE  <<v, w, x, y, z>> \in Seq(W)
  OBVIOUS
<1>7. PICK v, w \in Seq(B) : v = <<Lt>> \o a \o <<Gt>> /\ w = <<32>> \o a \o <<32>>
  BY <1>5
<1>8. <<a, v, w, ToLower(a), a>> \in Seq(Seq(B))
  BY <1>1, <1>3, <1>6
<1> QED
  BY <1>7, <1>8 DEF Spellings, B

\* groupByDomain is a partition of any list of recipients.
THEOREM GroupsArePartitioned == Spec => []GroupsPartition
<1>1. ASSUME InputOK PROVE GroupsPartition
  <2> DEFINE rcpts == IF kind = "rcpts" THEN input ELSE Spellings(input)
  <2>1. kind = "rcpts" => \E C : rcpts \in Seq(Seq(C))
    BY <1>1, AlgorithmAssumption DEF InputOK, Kinds
  <2>2. kind = "address" => \E C : rcpts \in Seq(Seq(C))
    BY <1>1, SpellingsType DEF InputOK, Kinds
  <2>3. kind \in {"rcpts", "address"} => IsPartition(groupByDomain(rcpts), rcpts)
    <3> HIDE DEF rcpts
    <3> QED
      BY <2>1, <2>2, GroupsArePartition
  <2> HIDE DEF rcpts
  <2>4. kind \in {"rcpts", "address"} <=> kind = "rcpts" \/ kind = "address"
    OBVIOUS
  <2> QED
    BY <2>3, <2>4, Zenon DEF GroupsPartition, IsPartition, rcpts
<1> QED
  BY <1>1, InputType, PTL

-----------------------------------------------------------------------------
(* Mailbox names *)

Byte == 0 .. 255

\* Two hex digits give back the rune.
LEMMA HexDigits ==
    ASSUME NEW d \in 0 .. 15
    PROVE  /\ HexDigit(d) \in Byte /\ HexDigit(d) # Slash /\ HexDigit(d) # Percent
           /\ HexValue(HexDigit(d)) = d
  BY DEF HexDigit, HexValue, Zero, Slash, Percent, Byte

LEMMA HexIs ==
    ASSUME NEW r \in Byte
    PROVE  /\ Hex(r) = <<HexDigit(r \div 16), HexDigit(r % 16)>>
           /\ r \div 16 \in 0 .. 15 /\ r % 16 \in 0 .. 15
           /\ 16 * (r \div 16) + (r % 16) = r
<1>1. /\ r \div 16 \in 0 .. 15 /\ r % 16 \in 0 .. 15
      /\ 16 * (r \div 16) + (r % 16) = r
  BY DEF Byte
<1>2. /\ Powers[1] = 1 /\ Powers[2] = 16 /\ Powers[3] = 256 /\ Powers[4] = 4096
      /\ Powers[5] = 65536 /\ Powers[6] = 1048576
  BY DEF Powers
<1>3. Width(r) = 2
  <2>1. 2 \in 2 .. 6 /\ r < 16 * Powers[2]
    BY <1>2 DEF Byte
  <2>2. ASSUME NEW w \in 2 .. 6, r < 16 * Powers[w] /\ (w = 2 \/ r >= Powers[w])
        PROVE  w = 2
    <3>1. w = 2 \/ w = 3 \/ w = 4 \/ w = 5 \/ w = 6
      OBVIOUS
    <3> QED
      BY <1>2, <2>2, <3>1 DEF Byte
  <2> QED
    BY <2>1, <2>2 DEF Width
<1>4. Hex(r) = [i \in 1 .. 2 |-> HexDigit((r \div Powers[2 - i + 1]) % 16)]
  BY <1>3 DEF Hex
<1>5. (r \div 16) % 16 = r \div 16 /\ (r \div 1) % 16 = r % 16
  BY DEF Byte
<1>6. 2 - 1 + 1 = 2 /\ 2 - 2 + 1 = 1
  OBVIOUS
<1>7. Hex(r)[1] = HexDigit(r \div 16) /\ Hex(r)[2] = HexDigit(r % 16)
  BY <1>2, <1>4, <1>5, <1>6
<1>8. Hex(r) = <<Hex(r)[1], Hex(r)[2]>>
  <2>1. \A f : f = [i \in 1 .. 2 |-> f[i]] => f = <<f[1], f[2]>>
    OBVIOUS
  <2> QED
    BY <1>4, <2>1
<1> QED
  BY <1>1, <1>7, <1>8

\* A rune is written as itself or as an escape, never with a slash, and only
\* an escape has a percent sign.
LEMMA EncodeIs ==
    ASSUME NEW r \in Byte
    PROVE  LET w == EncodeRune(r)
           IN  /\ w \in Seq(Byte) /\ \A j \in 1 .. Len(w) : w[j] # Slash
               /\ \/ Len(w) = 1 /\ w[1] = r /\ r # Percent
                  \/ /\ Len(w) = 3 /\ w[1] = Percent
                     /\ w[2] = HexDigit(r \div 16) /\ w[3] = HexDigit(r % 16)
<1>1. CASE r \in Safe
  <2>1. EncodeRune(r) = <<r>>
    BY <1>1 DEF EncodeRune
  <2>2. r # Percent /\ r # Slash
    BY <1>1 DEF Safe, Percent, Slash, Dot
  <2> QED
    BY <2>1, <2>2
<1>2. CASE r \notin Safe
  <2>1. PICK a, b : a = HexDigit(r \div 16) /\ b = HexDigit(r % 16)
    OBVIOUS
  <2>2. a \in Byte /\ b \in Byte /\ a # Slash /\ b # Slash
    BY <2>1, HexIs, HexDigits
  <2>3. EncodeRune(r) = <<Percent>> \o <<a, b>>
    BY <1>2, <2>1, HexIs DEF EncodeRune
  <2>4. Percent \in Byte /\ Percent # Slash
    BY DEF Percent, Byte, Slash
  <2>5. PICK w : w = <<Percent>> \o <<a, b>>
    OBVIOUS
  <2>6. /\ w \in Seq(Byte) /\ Len(w) = 3 /\ w[1] = Percent /\ w[2] = a /\ w[3] = b
    BY <2>2, <2>4, <2>5
  <2>7. \A j \in 1 .. 3 : w[j] # Slash
    <3>1. \A j \in 1 .. 3 : j = 1 \/ j = 2 \/ j = 3
      OBVIOUS
    <3> QED
      BY <2>2, <2>4, <2>6, <3>1
  <2> QED
    BY <2>1, <2>3, <2>5, <2>6, <2>7
<1> QED
  BY <1>1, <1>2

\* The recursive function behind encodeMailboxName exists.
IsEncoding(it, name) ==
    it = [s \in SUBSET (1 .. Len(name)) |->
             IF s = {} THEN <<>>
             ELSE it[s \ {Max(s)}] \o EncodeRune(name[Max(s)])]

LEMMA EncodingExists ==
    ASSUME NEW name \in Seq(Byte)
    PROVE  \E it : IsEncoding(it, name)
<1> DEFINE n == Len(name)
           V == Seq(Byte)
           g == [x \in V \X (1 .. n) |-> x[1] \o EncodeRune(name[x[2]])]
<1>1. n \in Nat /\ <<>> \in V
  OBVIOUS
<1>2. ASSUME NEW s \in V, NEW i \in 1 .. n
      PROVE  s \o EncodeRune(name[i]) \in V
  <2>1. name[i] \in Byte
    OBVIOUS
  <2>2. EncodeRune(name[i]) \in Seq(Byte)
    BY <2>1, EncodeIs
  <2> HIDE DEF n
  <2> QED
    BY <2>2
<1>3. g \in [V \X (1 .. n) -> V]
  <2> HIDE DEF V
  <2> QED
    BY <1>2
<1>4. PICK it \in [SUBSET (1 .. n) -> V] : IsFold(it, n, <<>>, g)
  <2> HIDE DEF n, V, g
  <2> QED
    BY <1>1, <1>3, FoldExists
<1>5. ASSUME NEW s \in SUBSET (1 .. n)
      PROVE  it[s] = IF s = {} THEN <<>>
                     ELSE it[s \ {Max(s)}] \o EncodeRune(name[Max(s)])
  <2>1. CASE s = {}
    BY <1>4, <2>1 DEF IsFold
  <2>2. CASE s # {}
    <3>1. Max(s) \in s
      BY <1>1, <2>2, MaxOfPositions
    <3>2. <<it[s \ {Max(s)}], Max(s)>> \in V \X (1 .. n)
      <4> HIDE DEF V
      <4> QED
        BY <3>1
    <3>3. it[s] = g[<<it[s \ {Max(s)}], Max(s)>>]
      BY <1>4, <2>2 DEF IsFold
    <3> HIDE DEF V
    <3> QED
      BY <2>2, <3>2, <3>3
  <2> QED
    BY <2>1, <2>2
<1>6. it = [s \in SUBSET (1 .. n) |->
              IF s = {} THEN <<>>
              ELSE it[s \ {Max(s)}] \o EncodeRune(name[Max(s)])]
  <2> HIDE DEF V, g, n
  <2> QED
    BY <1>5
<1>7. IsEncoding(it, name)
  BY <1>6 DEF IsEncoding
<1> QED
  BY <1>7

\* The directory, rune by rune.
LEMMA EncodingSteps ==
    ASSUME NEW name \in Seq(Byte)
    PROVE  \E p : /\ p[0] = <<>>
                  /\ \A i \in 1 .. Len(name) : p[i] = p[i - 1] \o EncodeRune(name[i])
                  /\ encodeMailboxName(name) = p[Len(name)]
<1>1. DOMAIN name = 1 .. Len(name) /\ Len(name) \in Nat
  OBVIOUS
<1> DEFINE it == CHOOSE it : IsEncoding(it, name)
           p == [i \in 0 .. Len(name) |-> it[1 .. i]]
<1>2. IsEncoding(it, name)
  BY EncodingExists, Zenon
<1>3. encodeMailboxName(name) = it[1 .. Len(name)]
  BY <1>1, Zenon DEF encodeMailboxName, FoldLeft, MapThenFoldSet, IsEncoding
<1> HIDE DEF it
<1>4. p[0] = <<>>
  <2>1. 1 .. 0 = {} /\ {} \in SUBSET (1 .. Len(name)) /\ 0 \in 0 .. Len(name)
    BY <1>1
  <2>2. it[{}] = <<>>
    BY <1>2, <2>1, Zenon DEF IsEncoding
  <2> QED
    BY <2>1, <2>2
<1>5. ASSUME NEW i \in 1 .. Len(name)
      PROVE  p[i] = p[i - 1] \o EncodeRune(name[i])
  <2>1. /\ 1 .. i \in SUBSET (1 .. Len(name)) /\ 1 .. i # {}
        /\ Max(1 .. i) = i /\ (1 .. i) \ {i} = 1 .. i - 1
        /\ i \in 0 .. Len(name) /\ i - 1 \in 0 .. Len(name)
    BY <1>1, PositionsUpTo, Zenon
  <2>2. it[1 .. i] = it[(1 .. i) \ {Max(1 .. i)}] \o EncodeRune(name[Max(1 .. i)])
    BY <1>2, <2>1, Zenon DEF IsEncoding
  <2>3. it[1 .. i] = it[1 .. i - 1] \o EncodeRune(name[i])
    BY <2>1, <2>2
  <2>4. p[i] = it[1 .. i] /\ p[i - 1] = it[1 .. i - 1]
    BY <2>1
  <2> QED
    BY <2>3, <2>4
<1>6. p[Len(name)] = it[1 .. Len(name)]
  BY <1>1
<1> HIDE DEF p
<1> QED
  BY <1>3, <1>4, <1>5, <1>6

\* The directories of the prefixes of a name.
Written(p, name) ==
    /\ p[0] = <<>>
    /\ \A i \in 1 .. Len(name) : p[i] = p[i - 1] \o EncodeRune(name[i])

Clean(s) == s \in Seq(Byte) /\ \A j \in 1 .. Len(s) : s[j] # Slash

LEMMA CleanJoin ==
    ASSUME NEW s, NEW t, Clean(s), Clean(t)
    PROVE  /\ Clean(s \o t) /\ Len(s \o t) = Len(s) + Len(t)
           /\ \A j \in 1 .. Len(s) : (s \o t)[j] = s[j]
           /\ \A j \in 1 .. Len(t) : (s \o t)[Len(s) + j] = t[j]
<1>1. s \in Seq(Byte) /\ t \in Seq(Byte)
  BY DEF Clean
<1>2. s \o t \in Seq(Byte) /\ Len(s \o t) = Len(s) + Len(t)
  BY <1>1
<1>3. \A j \in 1 .. Len(s) : (s \o t)[j] = s[j]
  BY <1>1
<1>4. \A j \in 1 .. Len(t) : (s \o t)[Len(s) + j] = t[j]
  BY <1>1
<1>5. ASSUME NEW j \in 1 .. Len(s) + Len(t) PROVE (s \o t)[j] # Slash
  <2>1. CASE j <= Len(s)
    BY <1>1, <1>3, <2>1 DEF Clean
  <2>2. CASE j > Len(s)
    <3>1. Len(s) \in Nat /\ Len(t) \in Nat
      BY <1>1
    <3>2. j - Len(s) \in 1 .. Len(t) /\ Len(s) + (j - Len(s)) = j
      BY <2>2, <3>1
    <3>3. (s \o t)[j] = t[j - Len(s)]
      BY <1>4, <3>2
    <3> QED
      BY <3>2, <3>3 DEF Clean
  <2> QED
    BY <1>1, <2>1, <2>2
<1> QED
  BY <1>2, <1>3, <1>4, <1>5 DEF Clean

LEMMA WrittenClean ==
    ASSUME NEW name \in Seq(Byte), NEW p, Written(p, name)
    PROVE  \A k \in 0 .. Len(name) : Clean(p[k])
<1> DEFINE P(k) == Clean(p[k])
           T == {k \in Nat : k <= Len(name) => P(k)}
<1>1. P(0)
  BY DEF Clean, Written
<1>2. ASSUME NEW k \in Nat, P(k), k + 1 <= Len(name) PROVE P(k + 1)
  <2>1. k + 1 \in 1 .. Len(name) /\ k + 1 - 1 = k
    BY <1>2
  <2>2. p[k + 1] = p[k] \o EncodeRune(name[k + 1])
    <3>1. PICK i \in 1 .. Len(name) : i = k + 1 /\ i - 1 = k
      BY <2>1
    <3>2. p[i] = p[i - 1] \o EncodeRune(name[i])
      BY DEF Written
    <3> QED
      BY <3>1, <3>2, Zenon
  <2>3. name[k + 1] \in Byte
    BY <2>1
  <2>4. Clean(EncodeRune(name[k + 1]))
    BY <2>3, EncodeIs DEF Clean
  <2> QED
    BY <1>2, <2>2, <2>4, CleanJoin
<1> HIDE DEF P
<1>3. 0 \in T /\ T \in SUBSET Nat
  BY <1>1
<1>4. ASSUME NEW k \in T PROVE k + 1 \in T
  <2>1. k \in Nat /\ (k + 1 <= Len(name) => k <= Len(name))
    OBVIOUS
  <2> QED
    BY <1>2, <2>1
<1> HIDE DEF T
<1>5. T = Nat
  BY <1>3, <1>4, Induction
<1>6. \A k \in 0 .. Len(name) : P(k)
  BY <1>5 DEF T
<1> QED
  BY <1>6 DEF P

\* The directory of a prefix is a prefix of the directory.
LEMMA WrittenPrefix ==
    ASSUME NEW name \in Seq(Byte), NEW p, Written(p, name), NEW k \in 0 .. Len(name)
    PROVE  \A m \in k .. Len(name) :
               /\ Len(p[k]) <= Len(p[m])
               /\ \A j \in 1 .. Len(p[k]) : p[m][j] = p[k][j]
<1> DEFINE P(i) == /\ Len(p[k]) <= Len(p[k + i])
                   /\ \A j \in 1 .. Len(p[k]) : p[k + i][j] = p[k][j]
           T == {i \in Nat : k + i <= Len(name) => P(i)}
<1>0. \A i \in 0 .. Len(name) : Clean(p[i]) /\ p[i] \in Seq(Byte) /\ Len(p[i]) \in Nat
  <2>1. \A i \in 0 .. Len(name) : Clean(p[i]) /\ p[i] \in Seq(Byte)
    BY WrittenClean DEF Clean
  <2> QED
    BY <2>1
<1>1. P(0)
  BY <1>0
<1>2. ASSUME NEW i \in Nat, P(i), k + (i + 1) <= Len(name) PROVE P(i + 1)
  <2>1. PICK m : m = k + i
    OBVIOUS
  <2>2. /\ m + 1 \in 1 .. Len(name) /\ m + 1 - 1 = m /\ k + (i + 1) = m + 1
        /\ m \in 0 .. Len(name)
    BY <1>2, <2>1
  <2>3. p[m + 1] = p[m] \o EncodeRune(name[m + 1])
    <3>1. PICK x \in 1 .. Len(name) : x = m + 1 /\ x - 1 = m
      BY <2>2
    <3>2. p[x] = p[x - 1] \o EncodeRune(name[x])
      BY DEF Written
    <3> QED
      BY <3>1, <3>2, Zenon
  <2>4. name[m + 1] \in Byte
    BY <2>2
  <2>5. PICK w : w = EncodeRune(name[m + 1]) /\ Clean(w) /\ w \in Seq(Byte)
    BY <2>4, EncodeIs DEF Clean
  <2>6. Clean(p[m])
    BY <1>0, <2>2
  <2>7. /\ Len(p[m + 1]) = Len(p[m]) + Len(w)
        /\ \A j \in 1 .. Len(p[m]) : p[m + 1][j] = p[m][j]
    <3>1. PICK q : q = p[m] /\ Clean(q)
      BY <2>6
    <3>2. p[m + 1] = q \o w
      BY <2>3, <2>5, <3>1
    <3>3. q \in Seq(Byte) /\ w \in Seq(Byte)
      BY <2>5, <3>1 DEF Clean
    <3>4. Len(q \o w) = Len(q) + Len(w)
      BY <3>3
    <3>5. \A j \in 1 .. Len(q) : (q \o w)[j] = q[j]
      BY <3>3
    <3> QED
      BY <3>1, <3>2, <3>4, <3>5, Zenon
  <2>8. Len(p[m]) \in Nat /\ Len(w) \in Nat /\ Len(p[k]) \in Nat
    BY <1>0, <2>2, <2>5
  <2>9. /\ Len(p[k]) <= Len(p[m])
        /\ \A j \in 1 .. Len(p[k]) : p[m][j] = p[k][j]
    BY <1>2, <2>1
  <2>10. Len(p[k]) <= Len(p[m + 1])
    BY <2>7, <2>8, <2>9
  <2>11. ASSUME NEW j \in 1 .. Len(p[k]) PROVE p[m + 1][j] = p[k][j]
    <3>1. j \in 1 .. Len(p[m])
      BY <2>8, <2>9
    <3> QED
      BY <2>7, <2>9, <3>1
  <2> QED
    BY <2>2, <2>10, <2>11
<1> HIDE DEF P
<1>3. 0 \in T /\ T \in SUBSET Nat
  BY <1>1
<1>4. ASSUME NEW i \in T PROVE i + 1 \in T
  <2>1. i \in Nat /\ (k + (i + 1) <= Len(name) => k + i <= Len(name))
    OBVIOUS
  <2> QED
    BY <1>2, <2>1
<1> HIDE DEF T
<1>5. T = Nat
  BY <1>3, <1>4, Induction
<1> SUFFICES ASSUME NEW m \in k .. Len(name)
             PROVE  /\ Len(p[k]) <= Len(p[m])
                    /\ \A j \in 1 .. Len(p[k]) : p[m][j] = p[k][j]
  OBVIOUS
<1>6. m - k \in Nat /\ k + (m - k) = m /\ k + (m - k) <= Len(name)
  OBVIOUS
<1>7. P(m - k)
  BY <1>5, <1>6 DEF T
<1> QED
  BY <1>6, <1>7 DEF P

\* A directory has w after its first o characters.
HasAt(dir, o, w) == \A j \in 1 .. Len(w) : dir[o + j] = w[j]

\* Where the k-th rune is written.
LEMMA RuneWritten ==
    ASSUME NEW name \in Seq(Byte), NEW p, Written(p, name), NEW k \in 1 .. Len(name)
    PROVE  /\ Len(p[k - 1]) \in Nat
           /\ Len(p[k]) = Len(p[k - 1]) + Len(EncodeRune(name[k]))
           /\ Len(p[k]) <= Len(p[Len(name)])
           /\ HasAt(p[Len(name)], Len(p[k - 1]), EncodeRune(name[k]))
<1>1. /\ k \in 0 .. Len(name) /\ k - 1 \in 0 .. Len(name) /\ name[k] \in Byte
      /\ Len(name) \in k .. Len(name)
  OBVIOUS
<1>2. PICK w : w = EncodeRune(name[k]) /\ Clean(w)
  BY <1>1, EncodeIs DEF Clean
<1>3. PICK q : q = p[k - 1] /\ Clean(q)
  BY <1>1, WrittenClean
<1>4. p[k] = q \o w
  BY <1>2, <1>3 DEF Written
<1>5. /\ Len(p[k]) = Len(q) + Len(w)
      /\ \A j \in 1 .. Len(w) : p[k][Len(q) + j] = w[j]
  <2>1. q \in Seq(Byte) /\ w \in Seq(Byte)
    BY <1>2, <1>3 DEF Clean
  <2>2. Len(q \o w) = Len(q) + Len(w)
    BY <2>1
  <2>3. \A j \in 1 .. Len(w) : (q \o w)[Len(q) + j] = w[j]
    BY <2>1
  <2> QED
    BY <1>4, <2>2, <2>3, Zenon
<1>6. Len(q) \in Nat /\ Len(w) \in Nat
  BY <1>2, <1>3 DEF Clean
<1>7. /\ Len(p[k]) <= Len(p[Len(name)])
      /\ \A j \in 1 .. Len(p[k]) : p[Len(name)][j] = p[k][j]
  BY <1>1, WrittenPrefix
<1>8. \A j \in 1 .. Len(w) : Len(q) + j \in 1 .. Len(p[k])
  BY <1>5, <1>6
<1>9. HasAt(p[Len(name)], Len(q), w)
  BY <1>5, <1>7, <1>8 DEF HasAt
<1> QED
  BY <1>2, <1>3, <1>5, <1>6, <1>7, <1>9

\* What a position of a directory decodes to, given what later ones do.
DecodeAt(f, dir, i) ==
    IF i > Len(dir) THEN <<>>
    ELSE IF Escaped(dir, i)
    THEN <<16 * HexValue(dir[i + 1]) + HexValue(dir[i + 2])>> \o f[i + 3]
    ELSE <<dir[i]>> \o f[i + 1]

IsDecode(f, dir) == f = [i \in 1 .. Len(dir) + 1 |-> DecodeAt(f, dir, i)]

Agree(f, g, i, n) == \A x \in i + 1 .. n + 1 : f[x] = g[x]

LEMMA DecodeLocal ==
    ASSUME NEW dir \in Seq(Byte), NEW f, NEW g, NEW i \in 1 .. Len(dir) + 1,
           Agree(f, g, i, Len(dir))
    PROVE  DecodeAt(f, dir, i) = DecodeAt(g, dir, i)
<1>1. Len(dir) \in Nat
  OBVIOUS
<1>2. CASE i > Len(dir)
  BY <1>2 DEF DecodeAt
<1>3. CASE ~(i > Len(dir)) /\ Escaped(dir, i)
  <2>1. i + 3 \in i + 1 .. Len(dir) + 1
    BY <1>1, <1>3 DEF Escaped
  <2>2. f[i + 3] = g[i + 3]
    BY <2>1 DEF Agree
  <2> QED
    BY <1>3, <2>2, Zenon DEF DecodeAt
<1>4. CASE ~(i > Len(dir)) /\ ~Escaped(dir, i)
  <2>1. i + 1 \in i + 1 .. Len(dir) + 1
    BY <1>1, <1>4
  <2>2. f[i + 1] = g[i + 1]
    BY <2>1 DEF Agree
  <2> QED
    BY <1>4, <2>2, Zenon DEF DecodeAt
<1> QED
  BY <1>2, <1>3, <1>4, Zenon

\* The recursive function of decodeMailboxName exists.
LEMMA DecodeExists ==
    ASSUME NEW dir \in Seq(Byte)
    PROVE  \E f : IsDecode(f, dir)
<1> DEFINE n == Len(dir)
           P(k) == \E f : \A i \in n + 1 - k .. n + 1 : f[i] = DecodeAt(f, dir, i)
           T == {k \in Nat : k <= n => P(k)}
<1>1. n \in Nat
  OBVIOUS
<1>2. P(0)
  <2> DEFINE f == [i \in {n + 1} |-> <<>>]
  <2>1. ASSUME NEW i \in n + 1 - 0 .. n + 1 PROVE f[i] = DecodeAt(f, dir, i)
    <3>1. i = n + 1 /\ i > Len(dir)
      BY <1>1
    <3>2. DecodeAt(f, dir, i) = <<>>
      BY <3>1, Zenon DEF DecodeAt
    <3> QED
      BY <3>1, <3>2
  <2> QED
    BY <2>1
<1>3. ASSUME NEW k \in Nat, P(k), k + 1 <= n PROVE P(k + 1)
  <2>1. PICK f : \A i \in n + 1 - k .. n + 1 : f[i] = DecodeAt(f, dir, i)
    BY <1>3
  <2>2. PICK m : m = n - k
    OBVIOUS
  <2>3. /\ m \in 1 .. n /\ n + 1 - k = m + 1 /\ n + 1 - (k + 1) = m
    <3> HIDE DEF n
    <3> QED
      BY <1>1, <1>3, <2>2
  <2>4. PICK v : v = DecodeAt(f, dir, m)
    OBVIOUS
  <2> DEFINE g == [i \in m .. n + 1 |-> IF i = m THEN v ELSE f[i]]
  <2> HIDE DEF n
  <2>5. ASSUME NEW i \in m .. n + 1 PROVE g[i] = DecodeAt(g, dir, i)
    <3>1. Agree(g, f, i, n)
      <4>1. ASSUME NEW x \in i + 1 .. n + 1 PROVE g[x] = f[x]
        BY <1>1, <2>3
      <4> QED
        BY <4>1 DEF Agree
    <3>2. i \in 1 .. n + 1
      BY <1>1, <2>3
    <3>3. DecodeAt(g, dir, i) = DecodeAt(f, dir, i)
      <4> HIDE DEF g
      <4> QED
        BY <3>1, <3>2, DecodeLocal DEF n
    <3>4. CASE i = m
      BY <2>4, <3>3, <3>4
    <3>5. CASE i # m
      <4>1. i \in m + 1 .. n + 1
        BY <1>1, <2>3, <3>5
      <4>2. f[i] = DecodeAt(f, dir, i)
        BY <2>1, <2>3, <4>1
      <4> QED
        BY <3>3, <3>5, <4>2
    <3> QED
      BY <3>4, <3>5
  <2> HIDE DEF g
  <2> QED
    BY <2>3, <2>5
<1> HIDE DEF P, n
<1>4. 0 \in T /\ T \in SUBSET Nat
  BY <1>2
<1>5. ASSUME NEW k \in T PROVE k + 1 \in T
  <2>1. k \in Nat /\ (k + 1 <= n => k <= n)
    BY <1>1
  <2> QED
    BY <1>3, <2>1
<1> HIDE DEF T
<1>6. T = Nat
  BY <1>4, <1>5, Induction
<1>7. P(n)
  BY <1>1, <1>6 DEF T
<1>8. n + 1 - n = 1
  BY <1>1
<1>9. PICK f : \A i \in 1 .. n + 1 : f[i] = DecodeAt(f, dir, i)
  BY <1>7, <1>8 DEF P
<1> DEFINE g == [i \in 1 .. n + 1 |-> f[i]]
<1>10. ASSUME NEW i \in 1 .. n + 1 PROVE g[i] = DecodeAt(g, dir, i)
  <2>1. Agree(g, f, i, n)
    <3>1. ASSUME NEW x \in i + 1 .. n + 1 PROVE g[x] = f[x]
      BY <1>1
    <3> QED
      BY <3>1 DEF Agree
  <2>2. DecodeAt(g, dir, i) = DecodeAt(f, dir, i)
    <3> HIDE DEF g
    <3> QED
      BY <2>1, DecodeLocal DEF n
  <2> QED
    BY <1>9, <2>2
<1>11. g = [i \in 1 .. n + 1 |-> g[i]]
  OBVIOUS
<1>12. IsDecode(g, dir)
  <2> HIDE DEF g
  <2> QED
    BY <1>10, <1>11 DEF IsDecode, n
<1> QED
  BY <1>12

LEMMA DecodeSteps ==
    ASSUME NEW dir \in Seq(Byte)
    PROVE  \E f : /\ decodeMailboxName(dir) = f[1]
                  /\ \A i \in 1 .. Len(dir) + 1 : f[i] = DecodeAt(f, dir, i)
<1> DEFINE f == CHOOSE f : IsDecode(f, dir)
<1>1. IsDecode(f, dir)
  BY DecodeExists, Zenon
<1>2. decodeMailboxName(dir) = f[1]
  BY Zenon DEF decodeMailboxName, IsDecode, DecodeAt
<1> HIDE DEF f
<1>3. \A i \in 1 .. Len(dir) + 1 : f[i] = DecodeAt(f, dir, i)
  BY <1>1, Zenon DEF IsDecode
<1> QED
  BY <1>2, <1>3

\* One rune in front of the rest.
LEMMA RestOf ==
    ASSUME NEW C, NEW s \in Seq(C), NEW k \in 1 .. Len(s)
    PROVE  <<s[k]>> \o SubSeq(s, k + 1, Len(s)) = SubSeq(s, k, Len(s))
<1>1. PICK a : a = SubSeq(s, k + 1, Len(s))
  OBVIOUS
<1>2. PICK b : b = SubSeq(s, k, Len(s))
  OBVIOUS
<1>3. /\ a \in Seq(C) /\ Len(a) = Len(s) - k
      /\ \A i \in 1 .. Len(s) - k : a[i] = s[k + i]
  <2>1. /\ k + 1 \in 1 .. Len(s) + 1 /\ Len(s) \in (k + 1) - 1 .. Len(s)
        /\ Len(s) - (k + 1) + 1 = Len(s) - k
        /\ \A i \in 1 .. Len(s) - k : (k + 1) + i - 1 = k + i
    OBVIOUS
  <2>2. a \in Seq(C) /\ Len(a) = Len(s) - (k + 1) + 1
    BY <1>1, <2>1, PartOf, Zenon
  <2>3. \A i \in 1 .. Len(s) - (k + 1) + 1 : a[i] = s[(k + 1) + i - 1]
    BY <1>1, <2>1, PartOf, Zenon
  <2> QED
    BY <2>1, <2>2, <2>3
<1>4. /\ b \in Seq(C) /\ Len(b) = Len(s) - k + 1
      /\ \A i \in 1 .. Len(s) - k + 1 : b[i] = s[k + i - 1]
  <2>1. k \in 1 .. Len(s) + 1 /\ Len(s) \in k - 1 .. Len(s)
    OBVIOUS
  <2> QED
    BY <1>2, <2>1, PartOf
<1>5. PICK x \in C : x = s[k]
  OBVIOUS
<1>6. PICK d : d = <<x>> \o a
  OBVIOUS
<1>7. /\ d \in Seq(C) /\ Len(d) = Len(s) - k + 1 /\ d[1] = x
      /\ \A i \in 1 .. Len(a) : d[i + 1] = a[i]
  <2>1. PICK u \in Seq(C) : u = <<x>> /\ Len(u) = 1 /\ u[1] = x
    <3>1. <<x>> \in Seq(C) /\ Len(<<x>>) = 1 /\ <<x>>[1] = x
      OBVIOUS
    <3> QED
      BY <3>1, Zenon
  <2>2. a \in Seq(C) /\ d = u \o a
    BY <1>3, <1>6, <2>1
  <2>3. d \in Seq(C) /\ Len(d) = 1 + Len(a) /\ Len(a) \in Nat
    BY <2>1, <2>2
  <2>4. d[1] = x
    BY <2>1, <2>2
  <2>5. \A i \in 1 .. Len(a) : d[i + 1] = a[i]
    BY <2>1, <2>2
  <2> QED
    BY <1>3, <2>3, <2>4, <2>5
<1>8. \A i \in 1 .. Len(s) - k + 1 : d[i] = b[i]
  <2> SUFFICES ASSUME NEW i \in 1 .. Len(s) - k + 1 PROVE d[i] = b[i]
    OBVIOUS
  <2>1. CASE i = 1
    BY <1>4, <1>5, <1>7, <2>1
  <2>2. CASE i # 1
    <3>1. i - 1 \in 1 .. Len(s) - k /\ i - 1 + 1 = i /\ k + (i - 1) = k + i - 1
      BY <2>2
    <3>2. d[i] = a[i - 1]
      BY <1>3, <1>7, <3>1
    <3>3. a[i - 1] = s[k + i - 1]
      BY <1>3, <3>1
    <3> QED
      BY <1>4, <3>2, <3>3
  <2> QED
    BY <2>1, <2>2
<1>9. d = b
  BY <1>4, <1>7, <1>8
<1> QED
  BY <1>1, <1>2, <1>5, <1>6, <1>9

\* decodeMailboxName undoes encodeMailboxName on bytes.
LEMMA RoundTrip ==
    ASSUME NEW name \in Seq(Byte)
    PROVE  /\ decodeMailboxName(encodeMailboxName(name)) = name
           /\ Clean(encodeMailboxName(name))
<1> DEFINE n == Len(name)
<1>1. PICK p : Written(p, name) /\ encodeMailboxName(name) = p[n]
  BY EncodingSteps, Zenon DEF Written
<1>2. n \in Nat
  OBVIOUS
<1>3. PICK dir : dir = p[n] /\ Clean(dir)
  BY <1>1, <1>2, WrittenClean
<1>4. dir \in Seq(Byte) /\ Len(dir) \in Nat
  <2>1. dir \in Seq(Byte)
    BY <1>3 DEF Clean
  <2> QED
    BY <2>1
<1>5. PICK f : /\ decodeMailboxName(dir) = f[1]
               /\ \A i \in 1 .. Len(dir) + 1 : f[i] = DecodeAt(f, dir, i)
  BY <1>4, DecodeSteps
<1> DEFINE P(j) == f[Len(p[n - j]) + 1] = SubSeq(name, n - j + 1, n)
           T == {j \in Nat : j <= n => P(j)}
<1>6. P(0)
  <2>1. n - 0 = n /\ n - 0 + 1 = n + 1
    BY <1>2
  <2>2. SubSeq(name, n + 1, n) = <<>>
    OBVIOUS
  <2>3. Len(dir) + 1 \in 1 .. Len(dir) + 1 /\ Len(dir) + 1 > Len(dir)
    BY <1>4
  <2>4. f[Len(dir) + 1] = <<>>
    BY <1>5, <2>3, Zenon DEF DecodeAt
  <2> QED
    BY <1>3, <2>1, <2>2, <2>4
<1>7. ASSUME NEW j \in Nat, P(j), j + 1 <= n PROVE P(j + 1)
  <2>1. PICK k : k = n - j
    OBVIOUS
  <2>2. /\ k \in 1 .. n /\ n - (j + 1) = k - 1 /\ n - j + 1 = k + 1
        /\ n - (j + 1) + 1 = k
    <3> HIDE DEF n
    <3> QED
      BY <1>2, <1>7, <2>1
  <2>3. PICK r \in Byte : r = name[k]
    BY <2>2
  <2>4. PICK w : w = EncodeRune(r)
    OBVIOUS
  <2>5. PICK o : o = Len(p[k - 1])
    OBVIOUS
  <2>6. /\ o \in Nat /\ Len(p[k]) = o + Len(w) /\ Len(p[k]) <= Len(dir)
        /\ \A x \in 1 .. Len(w) : dir[o + x] = w[x]
    <3>1. k \in 1 .. Len(name) /\ Written(p, name)
      BY <1>1, <2>2
    <3>2. Len(p[k - 1]) \in Nat
      BY <3>1, RuneWritten, Zenon
    <3>3. Len(p[k]) = Len(p[k - 1]) + Len(EncodeRune(name[k]))
      BY <3>1, RuneWritten, Zenon
    <3>4. Len(p[k]) <= Len(p[Len(name)])
      BY <3>1, RuneWritten, Zenon
    <3>5. HasAt(p[Len(name)], Len(p[k - 1]), EncodeRune(name[k]))
      BY <3>1, RuneWritten, Zenon
    <3>6. HasAt(dir, o, w)
      BY <1>3, <2>3, <2>4, <2>5, <3>5, Zenon
    <3> QED
      BY <1>3, <2>3, <2>4, <2>5, <3>2, <3>3, <3>4, <3>6, Zenon DEF HasAt
  <2>7. f[Len(p[k]) + 1] = SubSeq(name, k + 1, n)
    BY <1>7, <2>1, <2>2
  <2>8. \/ Len(w) = 1 /\ w[1] = r /\ r # Percent
        \/ /\ Len(w) = 3 /\ w[1] = Percent
           /\ w[2] = HexDigit(r \div 16) /\ w[3] = HexDigit(r % 16)
    BY <2>4, EncodeIs
  <2>9. f[o + 1] = <<r>> \o f[Len(p[k]) + 1]
    <3>1. CASE Len(w) = 1 /\ w[1] = r /\ r # Percent
      <4>1. dir[o + 1] = r /\ Len(p[k]) = o + 1 /\ o + 1 + 1 = Len(p[k]) + 1
        BY <2>6, <3>1
      <4>2. /\ o + 1 \in 1 .. Len(dir) + 1 /\ ~(o + 1 > Len(dir))
            /\ ~Escaped(dir, o + 1)
        BY <1>4, <2>6, <3>1, <4>1 DEF Escaped
      <4>3. f[o + 1] = DecodeAt(f, dir, o + 1)
        BY <1>5, <4>2
      <4>4. f[o + 1] = <<dir[o + 1]>> \o f[o + 1 + 1]
        BY <4>2, <4>3, Zenon DEF DecodeAt
      <4> QED
        BY <4>1, <4>4, Zenon
    <3>2. CASE /\ Len(w) = 3 /\ w[1] = Percent
               /\ w[2] = HexDigit(r \div 16) /\ w[3] = HexDigit(r % 16)
      <4>1. /\ o + 1 + 1 = o + 2 /\ o + 1 + 2 = o + 3
            /\ Len(p[k]) = o + 3 /\ o + 1 + 3 = Len(p[k]) + 1
        BY <2>6, <3>2
      <4>2. /\ dir[o + 1] = Percent /\ dir[o + 2] = HexDigit(r \div 16)
            /\ dir[o + 3] = HexDigit(r % 16)
        <5>1. 1 \in 1 .. Len(w) /\ 2 \in 1 .. Len(w) /\ 3 \in 1 .. Len(w)
          BY <3>2
        <5> QED
          BY <2>6, <3>2, <5>1, Zenon
      <4>3. /\ o + 1 \in 1 .. Len(dir) + 1 /\ ~(o + 1 > Len(dir))
            /\ o + 1 + 2 <= Len(dir)
        BY <1>4, <2>6, <4>1
      <4>4. Escaped(dir, o + 1)
        BY <4>2, <4>3, Zenon DEF Escaped
      <4>5. f[o + 1] = DecodeAt(f, dir, o + 1)
        BY <1>5, <4>3
      <4>6. f[o + 1] = <<16 * HexValue(dir[o + 1 + 1]) + HexValue(dir[o + 1 + 2])>>
                           \o f[o + 1 + 3]
        BY <4>3, <4>4, <4>5, Zenon DEF DecodeAt
      <4>7. 16 * HexValue(dir[o + 1 + 1]) + HexValue(dir[o + 1 + 2]) = r
        <5>1. /\ HexValue(HexDigit(r \div 16)) = r \div 16
              /\ HexValue(HexDigit(r % 16)) = r % 16
              /\ 16 * (r \div 16) + (r % 16) = r
          BY HexIs, HexDigits
        <5>2. /\ HexValue(dir[o + 1 + 1]) = r \div 16
              /\ HexValue(dir[o + 1 + 2]) = r % 16
          BY <4>1, <4>2, <5>1, Zenon
        <5> QED
          BY <5>1, <5>2, Zenon
      <4> QED
        BY <4>1, <4>6, <4>7, Zenon
    <3> QED
      BY <2>8, <3>1, <3>2, Zenon
  <2>10. <<name[k]>> \o SubSeq(name, k + 1, n) = SubSeq(name, k, n)
    BY <2>2, RestOf
  <2>11. f[o + 1] = SubSeq(name, k, n)
    BY <2>3, <2>7, <2>9, <2>10, Zenon
  <2> QED
    BY <2>2, <2>5, <2>11, Zenon
<1> HIDE DEF P
<1>8. 0 \in T /\ T \in SUBSET Nat
  BY <1>6
<1>9. ASSUME NEW j \in T PROVE j + 1 \in T
  <2>1. j \in Nat /\ (j + 1 <= n => j <= n)
    BY <1>2
  <2> HIDE DEF n
  <2> QED
    BY <1>7, <2>1
<1> HIDE DEF T
<1>10. T = Nat
  BY <1>8, <1>9, Induction
<1>11. P(n)
  BY <1>2, <1>10 DEF T
<1>12. n - n = 0 /\ n - n + 1 = 1
  BY <1>2
<1>13. p[0] = <<>> /\ Len(p[0]) + 1 = 1
  BY <1>1 DEF Written
<1>14. f[1] = SubSeq(name, 1, n)
  <2>1. f[Len(p[n - n]) + 1] = SubSeq(name, n - n + 1, n)
    BY <1>11 DEF P
  <2> QED
    BY <1>12, <1>13, <2>1, Zenon
<1>15. SubSeq(name, 1, n) = name
  OBVIOUS
<1> QED
  BY <1>1, <1>3, <1>5, <1>14, <1>15, Zenon

\* A text without the cut set at its ends.
Tight(t, cut) == t = <<>> \/ (t[1] \notin cut /\ t[Len(t)] \notin cut)

LEMMA TrimTight ==
    ASSUME NEW C, NEW s \in Seq(C), NEW cut
    PROVE  Tight(TrimBoth(s, cut), cut)
<1>1. PICK a, b : /\ a = FirstNot(s, cut) /\ b = LastNot(s, cut)
                  /\ a \in 1 .. Len(s) + 1 /\ b \in 0 .. Len(s)
                  /\ (a = Len(s) + 1 \/ s[a] \notin cut)
                  /\ (b = 0 \/ s[b] \notin cut)
  BY FirstNotIs, LastNotIs
<1>2. PICK t : t = SubSeq(s, a, b) /\ t = TrimBoth(s, cut)
  BY <1>1 DEF TrimBoth
<1>3. Len(s) \in Nat
  OBVIOUS
<1>4. CASE b < a
  <2>1. t = <<>>
    <3>1. a \in Nat /\ b \in Nat
      BY <1>1, <1>3
    <3>2. \A i, j \in Nat : j < i => SubSeq(s, i, j) = <<>>
      OBVIOUS
    <3> QED
      BY <1>2, <1>4, <3>1, <3>2
  <2> QED
    BY <1>2, <2>1 DEF Tight
<1>5. CASE a <= b
  <2>1. /\ a \in 1 .. Len(s) + 1 /\ b \in a - 1 .. Len(s)
        /\ a # Len(s) + 1 /\ b # 0
        /\ 1 \in 1 .. b - a + 1 /\ b - a + 1 \in 1 .. b - a + 1
        /\ a + 1 - 1 = a /\ a + (b - a + 1) - 1 = b
    BY <1>1, <1>3, <1>5
  <2>2. /\ Len(t) = b - a + 1
        /\ \A i \in 1 .. b - a + 1 : t[i] = s[a + i - 1]
    <3>1. /\ Len(SubSeq(s, a, b)) = b - a + 1
          /\ \A i \in 1 .. b - a + 1 : SubSeq(s, a, b)[i] = s[a + i - 1]
      BY <2>1, PartOf, Zenon
    <3> QED
      BY <1>2, <3>1, Zenon
  <2>3. t[1] = s[a] /\ t[Len(t)] = s[b]
    BY <2>1, <2>2
  <2> QED
    BY <1>1, <1>2, <2>1, <2>3 DEF Tight
<1> QED
  BY <1>1, <1>3, <1>4, <1>5

LEMMA TightKept ==
    ASSUME NEW C, NEW t \in Seq(C), NEW cut, Tight(t, cut)
    PROVE  TrimBoth(t, cut) = t
<1>1. /\ FirstNot(t, cut) \in 1 .. Len(t) + 1
      /\ \A i \in 1 .. FirstNot(t, cut) - 1 : t[i] \in cut
      /\ LastNot(t, cut) \in 0 .. Len(t)
      /\ \A i \in LastNot(t, cut) + 1 .. Len(t) : t[i] \in cut
  BY FirstNotIs, LastNotIs
<1>2. Len(t) \in Nat /\ (t = <<>> <=> Len(t) = 0)
  OBVIOUS
<1>3. FirstNot(t, cut) = 1
  BY <1>1, <1>2 DEF Tight
<1>4. LastNot(t, cut) = Len(t)
  BY <1>1, <1>2 DEF Tight
<1>5. SubSeq(t, 1, Len(t)) = t
  OBVIOUS
<1> QED
  BY <1>3, <1>4, <1>5 DEF TrimBoth

\* A canonical name is a text of bytes that is its own canonical name.
LEMMA CanonicalIs ==
    ASSUME NEW name \in Seq(Byte)
    PROVE  /\ CanonicalMailbox(name) \in Seq(Byte)
           /\ CanonicalMailbox(CanonicalMailbox(name)) = CanonicalMailbox(name)
<1>1. PICK t \in Seq(Byte) : t = TrimBoth(name, {Slash}) /\ Tight(t, {Slash})
  BY TrimBothType, TrimTight
<1>2. CanonicalMailbox(name) = IF EqualFold(t, Inbox) THEN Inbox ELSE t
  BY <1>1 DEF CanonicalMailbox
<1>3. CASE EqualFold(t, Inbox)
  <2>1. Inbox \in Seq(Byte) /\ Tight(Inbox, {Slash})
    BY DEF Inbox, Byte, Tight, Slash
  <2>2. TrimBoth(Inbox, {Slash}) = Inbox
    BY <2>1, TightKept
  <2>3. CanonicalMailbox(Inbox) = Inbox
    BY <2>2 DEF CanonicalMailbox
  <2> QED
    BY <1>2, <1>3, <2>1, <2>3
<1>4. CASE ~EqualFold(t, Inbox)
  <2>1. TrimBoth(t, {Slash}) = t
    BY <1>1, TightKept
  <2>2. CanonicalMailbox(t) = t
    BY <1>4, <2>1 DEF CanonicalMailbox
  <2> QED
    BY <1>2, <1>4, <2>2
<1> QED
  BY <1>3, <1>4

LEMMA ShortJoins ==
    ASSUME NEW S, NEW d \in S
    PROVE  <<>> \o <<d>> = <<d>> /\ <<d>> \o <<d>> = <<d, d>>
<1>1. <<>> \in Seq(S) /\ <<d>> \in Seq(S) /\ <<d, d>> \in Seq(S)
  OBVIOUS
<1>2. <<>> \o <<d>> = <<d>>
  BY <1>1
<1>3. <<d>> \o <<d>> \in Seq(S)
  BY <1>1
<1>4. PICK s \in Seq(S) : s = <<d>> \o <<d>>
  BY <1>3, Zenon
<1>5. Len(s) = 2 /\ s[1] = d /\ s[2] = d
  BY <1>1, <1>4
<1>6. s = <<d, d>>
  BY <1>5
<1> QED
  BY <1>2, <1>4, <1>6

\* The directories of the stray names.
LEMMA StrayEncoded ==
    ASSUME NEW t \in Stray
    PROVE  t \in Seq(Byte) /\ encodeMailboxName(t) = t
<1>1. Dot \in Byte /\ EncodeRune(Dot) = <<Dot>>
  BY DEF Dot, Byte, EncodeRune, Safe
<1>2. t \in Seq(Byte)
  <2>1. <<>> \in Seq(Byte) /\ \A d \in Byte : <<d>> \in Seq(Byte) /\ <<d, d>> \in Seq(Byte)
    OBVIOUS
  <2> QED
    BY <1>1, <2>1, Zenon DEF Stray
<1>3. PICK p : /\ p[0] = <<>>
               /\ \A i \in 1 .. Len(t) : p[i] = p[i - 1] \o EncodeRune(t[i])
               /\ encodeMailboxName(t) = p[Len(t)]
  BY <1>2, EncodingSteps
<1>4. CASE t = <<>>
  <2>1. Len(t) = 0
    BY <1>4
  <2>2. p[Len(t)] = t
    BY <1>3, <1>4, <2>1
  <2> QED
    BY <1>2, <1>3, <2>2, Zenon
<1>5. CASE t = <<Dot>> \/ t = <<Dot, Dot>>
  <2>1. Len(t) \in {1, 2} /\ t[1] = Dot /\ 1 \in 1 .. Len(t) /\ 1 - 1 = 0
    BY <1>5
  <2>2. p[1] = <<>> \o EncodeRune(Dot)
    BY <1>3, <2>1, Zenon
  <2>3. <<>> \o <<Dot>> = <<Dot>> /\ <<Dot>> \o <<Dot>> = <<Dot, Dot>>
    BY <1>1, ShortJoins
  <2>4. p[1] = <<Dot>>
    BY <1>1, <2>2, <2>3, Zenon
  <2>5. CASE t = <<Dot>>
    <3>1. Len(t) = 1
      BY <2>5
    <3>2. p[Len(t)] = t
      BY <2>4, <2>5, <3>1
    <3> QED
      BY <1>2, <1>3, <3>2, Zenon
  <2>6. CASE t = <<Dot, Dot>>
    <3>1. Len(t) = 2 /\ t[2] = Dot /\ 2 \in 1 .. Len(t) /\ 2 - 1 = 1
      BY <2>6
    <3>2. p[2] = p[1] \o EncodeRune(Dot)
      BY <1>3, <3>1, Zenon
    <3>3. p[2] = <<Dot, Dot>>
      BY <1>1, <2>3, <2>4, <3>2, Zenon
    <3>4. p[Len(t)] = t
      BY <2>6, <3>1, <3>3
    <3> QED
      BY <1>2, <1>3, <3>4, Zenon
  <2> QED
    BY <1>5, <2>5, <2>6
<1> QED
  BY <1>2, <1>4, <1>5 DEF Stray

LEMMA GrowsByLast ==
    ASSUME NEW S, NEW s \in Seq(S), NEW e \in S
    PROVE  Front(Append(s, e)) = s /\ Last(Append(s, e)) = e
<1>0. Append(s, e) \in Seq(S)
  OBVIOUS
<1>1. PICK t \in Seq(S) : t = Append(s, e)
  BY <1>0, Zenon
<1>2. Len(t) = Len(s) + 1 /\ t[Len(s) + 1] = e /\ \A i \in 1 .. Len(s) : t[i] = s[i]
  BY <1>1
<1>3. Last(t) = e
  BY <1>2 DEF Last
<1>4. PICK u \in Seq(S) : u = SubSeq(t, 1, Len(s))
  BY <1>2
<1>5. Len(u) = Len(s) /\ \A i \in 1 .. Len(s) : u[i] = s[i]
  BY <1>2, <1>4
<1>6. u = s
  BY <1>5
<1>7. Front(t) = u
  BY <1>2, <1>4 DEF Front
<1> QED
  BY <1>1, <1>3, <1>6, <1>7

\* A directory in the mail root.
LEMMA JoinIs ==
    ASSUME NEW elem, elem \notin Stray
    PROVE  /\ Join(MailRoot, elem) = Append(MailRoot, elem)
           /\ Front(Append(MailRoot, elem)) = MailRoot
           /\ Last(Append(MailRoot, elem)) = elem
<1>1. Join(MailRoot, elem) = Append(MailRoot, elem)
  BY Zenon DEF Join, Stray
<1>2. PICK S : S = {"mail", elem}
  OBVIOUS
<1>3. MailRoot \in Seq(S) /\ elem \in S
  BY <1>2 DEF MailRoot
<1>4. Front(Append(MailRoot, elem)) = MailRoot /\ Last(Append(MailRoot, elem)) = elem
  BY <1>3, GrowsByLast, Zenon
<1> QED
  BY <1>1, <1>4, Zenon

Opens(name) ==
    LET dir    == mailboxDir(name)
        listed == ListedName(Last(dir))
    IN  /\ Front(dir) = MailRoot /\ Slash \notin ToSet(Last(dir))
        /\ listed = CanonicalMailbox(name)
        /\ mailboxDir(listed) = dir

LEMMA ListedNameIs ==
    ASSUME NEW name \in Seq(Byte), CanonicalMailbox(name) \notin Stray
    PROVE  Opens(name)
<1>1. PICK c \in Seq(Byte) : c = CanonicalMailbox(name) /\ CanonicalMailbox(c) = c
  BY CanonicalIs
<1>2. PICK entry : entry = encodeMailboxName(c)
  OBVIOUS
<1>3. decodeMailboxName(entry) = c /\ Clean(entry)
  BY <1>2, RoundTrip
<1>4. entry \notin Stray
  <2>1. ASSUME entry \in Stray PROVE FALSE
    <3>1. entry \in Seq(Byte) /\ encodeMailboxName(entry) = entry
      BY <2>1, StrayEncoded
    <3>2. decodeMailboxName(entry) = entry
      BY <3>1, RoundTrip, Zenon
    <3> QED
      BY <1>1, <1>3, <2>1, <3>2, Zenon
  <2> QED
    BY <2>1
<1>5. PICK dir : dir = Append(MailRoot, entry)
  OBVIOUS
<1>6. Join(MailRoot, entry) = dir /\ Front(dir) = MailRoot /\ Last(dir) = entry
  BY <1>4, <1>5, JoinIs, Zenon
<1>7. mailboxDir(name) = dir /\ mailboxDir(c) = dir
  BY <1>1, <1>2, <1>6, Zenon DEF mailboxDir
<1>8. ListedName(entry) = c
  BY <1>1, <1>3, Zenon DEF ListedName
<1>9. Slash \notin ToSet(entry)
  BY <1>3 DEF Clean, ToSet
<1> QED
  BY <1>1, <1>6, <1>7, <1>8, <1>9, Zenon DEF Opens

\* A mailbox whose name is not "", "." or ".." has a directory of its own in the
\* mail root, whatever the length of the name and the bytes in it, and the name
\* that LIST shows for it opens that directory: decodeMailboxName undoes
\* encodeMailboxName, and no directory name has a delimiter in it.
THEOREM ListedNamesOpen == Spec => []ListedNameOpens
<1>1. InputOK => ListedNameOpens
  <2> SUFFICES ASSUME InputOK, kind = "name", Latin1(input),
                      CanonicalMailbox(input) \notin Stray
               PROVE  Opens(input)
    BY Zenon DEF ListedNameOpens, Opens
  <2>1. input \in Seq(Alphabet["name"])
    BY DEF InputOK, Kinds
  <2>2. Alphabet["name"] \subseteq Nat
    BY AlgorithmAssumption
  <2>3. input \in Seq(Byte)
    <3>1. DOMAIN input = 1 .. Len(input)
      BY <2>1
    <3>2. \A i \in 1 .. Len(input) : input[i] \in Nat
      BY <2>1, <2>2
    <3>3. \A i \in 1 .. Len(input) : input[i] \in Byte
      <4> SUFFICES ASSUME NEW i \in 1 .. Len(input) PROVE input[i] \in Byte
        OBVIOUS
      <4>1. PICK x \in Nat : x = input[i]
        BY <3>2
      <4>2. x < 256
        BY <3>1, <4>1, Zenon DEF Latin1
      <4>3. x \in Byte
        BY <4>2 DEF Byte
      <4> QED
        BY <4>1, <4>3, Zenon
    <3> QED
      BY <2>1, <3>3
  <2> QED
    BY <2>3, ListedNameIs, Zenon
<1> QED
  BY <1>1, InputType, PTL

-----------------------------------------------------------------------------
(* Sequences that grow at their end *)

Closed(T, A) == \A s \in T : \A c \in A : Append(s, c) \in T

LEMMA LastSplit ==
    ASSUME NEW A, NEW s \in Seq(A), NEW n \in Nat, Len(s) = n + 1
    PROVE  /\ SubSeq(s, 1, n) \in Seq(A) /\ Len(SubSeq(s, 1, n)) = n
           /\ s[n + 1] \in A /\ s = Append(SubSeq(s, 1, n), s[n + 1])
<1>1. SubSeq(s, 1, n) \in Seq(A) /\ Len(SubSeq(s, 1, n)) = n /\ s[n + 1] \in A
  OBVIOUS
<1>2. \A i \in 1 .. n : SubSeq(s, 1, n)[i] = s[i]
  OBVIOUS
<1>3. PICK t : t = SubSeq(s, 1, n)
  OBVIOUS
<1>4. PICK c : c = s[n + 1]
  OBVIOUS
<1>5. PICK u : u = Append(t, c)
  OBVIOUS
<1>6. /\ u \in Seq(A) /\ Len(u) = n + 1 /\ u[n + 1] = s[n + 1]
      /\ \A i \in 1 .. n : u[i] = s[i]
  BY <1>1, <1>2, <1>3, <1>4, <1>5
<1>7. u = s
  BY <1>6
<1> QED
  BY <1>1, <1>3, <1>4, <1>5, <1>7

LEMMA SeqInduction ==
    ASSUME NEW A, NEW T \in SUBSET Seq(A), <<>> \in T, Closed(T, A)
    PROVE  T = Seq(A)
<1> DEFINE N == {n \in Nat : \A s \in Seq(A) : Len(s) = n => s \in T}
<1>1. 0 \in N
  <2>1. \A s \in Seq(A) : Len(s) = 0 => s = <<>>
    OBVIOUS
  <2> QED
    BY <2>1
<1>2. ASSUME NEW n \in N PROVE n + 1 \in N
  <2> SUFFICES ASSUME NEW s \in Seq(A), Len(s) = n + 1 PROVE s \in T
    OBVIOUS
  <2>0. Len(s) = n + 1
    OBVIOUS
  <2>1. PICK t, c : t \in Seq(A) /\ Len(t) = n /\ c \in A /\ s = Append(t, c)
    <3>1. n \in Nat
      OBVIOUS
    <3>2. /\ SubSeq(s, 1, n) \in Seq(A) /\ Len(SubSeq(s, 1, n)) = n
          /\ s[n + 1] \in A /\ s = Append(SubSeq(s, 1, n), s[n + 1])
      BY <2>0, <3>1, LastSplit
    <3> QED
      BY <3>2, Zenon
  <2>2. t \in T
    BY <2>1
  <2> QED
    BY <2>1, <2>2 DEF Closed
<1> HIDE DEF N
<1>3. N \in SUBSET Nat
  BY DEF N
<1>4. N = Nat
  BY <1>1, <1>2, <1>3, Induction
<1>5. \A s \in Seq(A) : Len(s) \in Nat
  OBVIOUS
<1> QED
  BY <1>4, <1>5 DEF N

\* Two runs of the same steps.
Follows(p, q, n) == \A i \in 1 .. n : p[i - 1] = q[i - 1] => p[i] = q[i]

LEMMA SameRun ==
    ASSUME NEW p, NEW q, NEW n \in Nat, p[0] = q[0], Follows(p, q, n)
    PROVE  p[n] = q[n]
<1> DEFINE T == {i \in Nat : i <= n => p[i] = q[i]}
<1>1. 0 \in T /\ T \in SUBSET Nat
  OBVIOUS
<1>2. ASSUME NEW k \in T PROVE k + 1 \in T
  <2>1. CASE k + 1 <= n
    <3>1. PICK i \in 1 .. n : i = k + 1 /\ i - 1 = k
      BY <2>1
    <3>2. p[i - 1] = q[i - 1]
      BY <2>1, <3>1
    <3>3. p[i] = q[i]
      BY <3>2 DEF Follows
    <3> QED
      BY <3>1, <3>3
  <2>2. CASE ~(k + 1 <= n)
    BY <2>2
  <2> QED
    BY <2>1, <2>2
<1> HIDE DEF T
<1>3. T = Nat
  BY <1>1, <1>2, Induction
<1> QED
  BY <1>3 DEF T

-----------------------------------------------------------------------------
(* Cutting a text into pieces *)

CutStart == [pieces |-> <<>>, rest |-> <<>>]
CutStates(A) == [pieces : Seq(Seq(A)), rest : Seq(A)]

LEMMA CutIs ==
    ASSUME NEW A, NEW r \in CutStates(A), NEW c \in A, NEW sep
    PROVE  /\ CutChar(sep, r, c) \in CutStates(A)
           /\ EndsWith(Append(r.rest, c), sep) =>
                  /\ CutChar(sep, r, c).pieces = Append(r.pieces, Append(r.rest, c))
                  /\ CutChar(sep, r, c).rest = <<>>
           /\ ~EndsWith(Append(r.rest, c), sep) =>
                  /\ CutChar(sep, r, c).pieces = r.pieces
                  /\ CutChar(sep, r, c).rest = Append(r.rest, c)
<1>1. PICK ps \in Seq(Seq(A)), x \in Seq(A) : ps = r.pieces /\ x = r.rest
  BY DEF CutStates
<1>2. PICK t \in Seq(A) : t = Append(x, c)
  <2>1. Append(x, c) \in Seq(A)
    OBVIOUS
  <2> QED
    BY <2>1, Zenon
<1>3. Append(ps, t) \in Seq(Seq(A)) /\ <<>> \in Seq(A)
  OBVIOUS
<1>4. CASE EndsWith(t, sep)
  <2>1. CutChar(sep, r, c) = [pieces |-> Append(ps, t), rest |-> <<>>]
    BY <1>1, <1>2, <1>4 DEF CutChar
  <2> QED
    BY <1>1, <1>2, <1>3, <1>4, <2>1 DEF CutStates
<1>5. CASE ~EndsWith(t, sep)
  <2>1. CutChar(sep, r, c) = [pieces |-> ps, rest |-> t]
    BY <1>1, <1>2, <1>5 DEF CutChar
  <2> QED
    BY <1>1, <1>2, <1>5, <2>1 DEF CutStates
<1> QED
  BY <1>4, <1>5

\* The recursive function behind Cut exists.
IsCut(it, s, sep) ==
    it = [S \in SUBSET (1 .. Len(s)) |->
             IF S = {} THEN [pieces |-> <<>>, rest |-> <<>>]
             ELSE CutChar(sep, it[S \ {Max(S)}], s[Max(S)])]

LEMMA CutExists ==
    ASSUME NEW A, NEW s \in Seq(A), NEW sep
    PROVE  \E it : IsCut(it, s, sep) /\ \A S \in SUBSET (1 .. Len(s)) : it[S] \in CutStates(A)
<1> DEFINE n == Len(s)
           V == CutStates(A)
           g == [x \in V \X (1 .. n) |-> CutChar(sep, x[1], s[x[2]])]
<1>1. n \in Nat /\ CutStart \in V
  BY DEF CutStart, CutStates
<1>2. ASSUME NEW r \in V, NEW i \in 1 .. n
      PROVE  CutChar(sep, r, s[i]) \in V
  <2>1. s[i] \in A
    OBVIOUS
  <2> QED
    BY <2>1, CutIs
<1>3. g \in [V \X (1 .. n) -> V]
  <2> HIDE DEF V
  <2> QED
    BY <1>2
<1>4. PICK it \in [SUBSET (1 .. n) -> V] : IsFold(it, n, CutStart, g)
  <2> HIDE DEF n, V, g
  <2> QED
    BY <1>1, <1>3, FoldExists
<1>5. ASSUME NEW S \in SUBSET (1 .. n)
      PROVE  it[S] = IF S = {} THEN CutStart
                     ELSE CutChar(sep, it[S \ {Max(S)}], s[Max(S)])
  <2>1. CASE S = {}
    BY <1>4, <2>1 DEF IsFold
  <2>2. CASE S # {}
    <3>1. Max(S) \in S
      BY <1>1, <2>2, MaxOfPositions
    <3>2. <<it[S \ {Max(S)}], Max(S)>> \in V \X (1 .. n)
      <4> HIDE DEF V
      <4> QED
        BY <3>1
    <3>3. it[S] = g[<<it[S \ {Max(S)}], Max(S)>>]
      BY <1>4, <2>2 DEF IsFold
    <3> HIDE DEF V
    <3> QED
      BY <2>2, <3>2, <3>3
  <2> QED
    BY <2>1, <2>2
<1>6. it = [S \in SUBSET (1 .. n) |->
              IF S = {} THEN CutStart
              ELSE CutChar(sep, it[S \ {Max(S)}], s[Max(S)])]
  <2> HIDE DEF V, g, n
  <2> QED
    BY <1>5
<1>7. IsCut(it, s, sep)
  BY <1>6 DEF IsCut, CutStart
<1> QED
  BY <1>7

\* A cut, character by character.
CutRun(p, s, sep) ==
    /\ p[0] = CutStart
    /\ \A i \in 1 .. Len(s) : p[i] = CutChar(sep, p[i - 1], s[i])

LEMMA CutSteps ==
    ASSUME NEW A, NEW s \in Seq(A), NEW sep
    PROVE  \E p : CutRun(p, s, sep) /\ Cut(s, sep) = p[Len(s)]
<1>1. DOMAIN s = 1 .. Len(s) /\ Len(s) \in Nat
  OBVIOUS
<1> DEFINE it == CHOOSE it : IsCut(it, s, sep)
           p == [i \in 0 .. Len(s) |-> it[1 .. i]]
<1>2. IsCut(it, s, sep)
  BY CutExists, Zenon
<1>3. Cut(s, sep) = it[1 .. Len(s)]
  BY <1>1, Zenon DEF Cut, FoldLeft, MapThenFoldSet, IsCut
<1> HIDE DEF it
<1>4. p[0] = CutStart
  <2>1. 1 .. 0 = {} /\ {} \in SUBSET (1 .. Len(s)) /\ 0 \in 0 .. Len(s)
    BY <1>1
  <2>2. it[{}] = CutStart
    BY <1>2, <2>1, Zenon DEF IsCut, CutStart
  <2> QED
    BY <2>1, <2>2
<1>5. ASSUME NEW i \in 1 .. Len(s)
      PROVE  p[i] = CutChar(sep, p[i - 1], s[i])
  <2>1. /\ 1 .. i \in SUBSET (1 .. Len(s)) /\ 1 .. i # {}
        /\ Max(1 .. i) = i /\ (1 .. i) \ {i} = 1 .. i - 1
        /\ i \in 0 .. Len(s) /\ i - 1 \in 0 .. Len(s)
    BY <1>1, PositionsUpTo, Zenon
  <2>2. it[1 .. i] = CutChar(sep, it[(1 .. i) \ {Max(1 .. i)}], s[Max(1 .. i)])
    BY <1>2, <2>1, Zenon DEF IsCut
  <2>3. it[1 .. i] = CutChar(sep, it[1 .. i - 1], s[i])
    BY <2>1, <2>2
  <2>4. p[i] = it[1 .. i] /\ p[i - 1] = it[1 .. i - 1]
    BY <2>1
  <2> QED
    BY <2>3, <2>4
<1>6. p[Len(s)] = it[1 .. Len(s)]
  BY <1>1
<1> HIDE DEF p
<1> QED
  BY <1>3, <1>4, <1>5, <1>6 DEF CutRun

\* A text is cut from left to right.
LEMMA CutAppend ==
    ASSUME NEW A, NEW s \in Seq(A), NEW c \in A, NEW sep
    PROVE  Cut(Append(s, c), sep) = CutChar(sep, Cut(s, sep), c)
<1>1. PICK n \in Nat, t \in Seq(A) :
          /\ n = Len(s) /\ t = Append(s, c) /\ Len(t) = n + 1
          /\ t[n + 1] = c /\ \A i \in 1 .. n : t[i] = s[i]
  <2>1. /\ Append(s, c) \in Seq(A) /\ Len(s) \in Nat
        /\ Len(Append(s, c)) = Len(s) + 1
        /\ Append(s, c)[Len(s) + 1] = c
    OBVIOUS
  <2>2. \A i \in 1 .. Len(s) : Append(s, c)[i] = s[i]
    OBVIOUS
  <2> QED
    BY <2>1, <2>2, Zenon
<1>2. PICK p : CutRun(p, s, sep) /\ Cut(s, sep) = p[n]
  BY <1>1, CutSteps
<1>3. PICK q : CutRun(q, t, sep) /\ Cut(t, sep) = q[n + 1]
  BY <1>1, CutSteps
<1>4. p[0] = q[0]
  BY <1>2, <1>3 DEF CutRun
<1>5. Follows(p, q, n)
  <2>1. ASSUME NEW i \in 1 .. n, p[i - 1] = q[i - 1] PROVE p[i] = q[i]
    <3>1. i \in 1 .. Len(s) /\ i \in 1 .. Len(t) /\ t[i] = s[i]
      BY <1>1
    <3>2. p[i] = CutChar(sep, p[i - 1], s[i])
      BY <1>2, <3>1 DEF CutRun
    <3>3. q[i] = CutChar(sep, q[i - 1], t[i])
      BY <1>3, <3>1 DEF CutRun
    <3> QED
      BY <2>1, <3>1, <3>2, <3>3
  <2> QED
    BY <2>1 DEF Follows
<1>6. p[n] = q[n]
  BY <1>4, <1>5, SameRun
<1>7. q[n + 1] = CutChar(sep, q[n], c)
  <2>1. PICK i \in 1 .. Len(t) : i = n + 1 /\ i - 1 = n
    BY <1>1
  <2>2. q[i] = CutChar(sep, q[i - 1], t[i])
    BY <1>3 DEF CutRun
  <2> QED
    BY <1>1, <2>1, <2>2
<1> QED
  BY <1>1, <1>2, <1>3, <1>6, <1>7

LEMMA CutEmpty ==
    ASSUME NEW sep
    PROVE  Cut(<<>>, sep) = CutStart
<1>1. <<>> \in Seq({}) /\ Len(<<>>) = 0
  OBVIOUS
<1>2. PICK p : CutRun(p, <<>>, sep) /\ Cut(<<>>, sep) = p[0]
  BY <1>1, CutSteps
<1> QED
  BY <1>2 DEF CutRun

-----------------------------------------------------------------------------
(* Line endings *)

\* The recursive function of FlattenSeq exists.
IsFlat(f, ss) ==
    f = [i \in 1 .. Len(ss) |-> IF i = 1 THEN ss[i] ELSE f[i - 1] \o ss[i]]

LEMMA FlatExists ==
    ASSUME NEW A, NEW ss \in Seq(Seq(A))
    PROVE  \E f : IsFlat(f, ss)
<1> DEFINE n == Len(ss)
           V == Seq(A)
           g == [x \in V \X (1 .. n) |-> IF x[2] = 1 THEN ss[x[2]] ELSE x[1] \o ss[x[2]]]
<1>1. n \in Nat /\ <<>> \in V
  OBVIOUS
<1>2. ASSUME NEW r \in V, NEW i \in 1 .. n
      PROVE  (IF i = 1 THEN ss[i] ELSE r \o ss[i]) \in V
  <2>1. ss[i] \in Seq(A)
    OBVIOUS
  <2> HIDE DEF n
  <2> QED
    BY <2>1
<1>3. g \in [V \X (1 .. n) -> V]
  <2> HIDE DEF V
  <2> QED
    BY <1>2
<1>4. PICK it \in [SUBSET (1 .. n) -> V] : IsFold(it, n, <<>>, g)
  <2> HIDE DEF n, V, g
  <2> QED
    BY <1>1, <1>3, FoldExists
<1> DEFINE f == [i \in 1 .. n |-> it[1 .. i]]
<1> HIDE DEF V, n
<1>5. ASSUME NEW i \in 1 .. n
      PROVE  f[i] = IF i = 1 THEN ss[i] ELSE f[i - 1] \o ss[i]
  <2>1. /\ 1 .. i \in SUBSET (1 .. n) /\ 1 .. i # {}
        /\ Max(1 .. i) = i /\ (1 .. i) \ {i} = 1 .. i - 1
    BY <1>1, PositionsUpTo, Zenon
  <2>2. it[1 .. i] = g[<<it[1 .. i - 1], i>>]
    <3> HIDE DEF g
    <3>1. it[1 .. i] = g[<<it[(1 .. i) \ {Max(1 .. i)}], Max(1 .. i)>>]
      BY <1>4, <2>1, Zenon DEF IsFold
    <3> QED
      BY <2>1, <3>1
  <2>3. 1 .. i - 1 \in SUBSET (1 .. n)
    BY <2>1
  <2>4. <<it[1 .. i - 1], i>> \in V \X (1 .. n)
    BY <2>3
  <2>5. it[1 .. i] = IF i = 1 THEN ss[i] ELSE it[1 .. i - 1] \o ss[i]
    BY <2>2, <2>4
  <2>6. i # 1 => i - 1 \in 1 .. n
    BY <1>1
  <2>7. i # 1 => f[i - 1] = it[1 .. i - 1]
    BY <2>6
  <2> QED
    BY <2>5, <2>7
<1>6. f = [i \in 1 .. n |-> f[i]]
  OBVIOUS
<1> HIDE DEF f
<1>7. f = [i \in 1 .. n |-> IF i = 1 THEN ss[i] ELSE f[i - 1] \o ss[i]]
  BY <1>5, <1>6
<1>8. IsFlat(f, ss)
  BY <1>7 DEF IsFlat, n
<1> QED
  BY <1>8

FlatRun(p, ss) ==
    /\ p[0] = <<>>
    /\ \A i \in 1 .. Len(ss) : p[i] = p[i - 1] \o ss[i]

LEMMA FlatSteps ==
    ASSUME NEW A, NEW ss \in Seq(Seq(A))
    PROVE  \E p : FlatRun(p, ss) /\ FlattenSeq(ss) = p[Len(ss)]
<1>1. Len(ss) \in Nat /\ (Len(ss) = 0 => ss = <<>>)
  OBVIOUS
<1> DEFINE f == CHOOSE f : IsFlat(f, ss)
           p == [i \in 0 .. Len(ss) |-> IF i = 0 THEN <<>> ELSE f[i]]
<1>2. IsFlat(f, ss)
  BY FlatExists, Zenon
<1>3. Len(ss) # 0 => FlattenSeq(ss) = f[Len(ss)]
  BY Zenon DEF FlattenSeq, IsFlat
<1>4. Len(ss) = 0 => FlattenSeq(ss) = <<>>
  BY <1>1 DEF FlattenSeq
<1> HIDE DEF f
<1>5. FlattenSeq(ss) = p[Len(ss)]
  BY <1>1, <1>3, <1>4
<1>6. p[0] = <<>>
  BY <1>1
<1>7. ASSUME NEW i \in 1 .. Len(ss) PROVE p[i] = p[i - 1] \o ss[i]
  <2>1. f[i] = IF i = 1 THEN ss[i] ELSE f[i - 1] \o ss[i]
    BY <1>2, Zenon DEF IsFlat
  <2>2. ss[i] \in Seq(A)
    OBVIOUS
  <2>3. CASE i = 1
    <3>1. <<>> \o ss[i] = ss[i]
      BY <2>2
    <3>2. p[i] = f[i] /\ p[i - 1] = <<>>
      BY <1>1, <2>3
    <3> QED
      BY <2>1, <2>3, <3>1, <3>2, Zenon
  <2>4. CASE i # 1
    <3>1. p[i] = f[i] /\ p[i - 1] = f[i - 1]
      BY <1>1, <2>4
    <3> QED
      BY <2>1, <2>4, <3>1, Zenon
  <2> QED
    BY <2>3, <2>4
<1> HIDE DEF p
<1> QED
  BY <1>5, <1>6, <1>7 DEF FlatRun

LEMMA FlatAppend ==
    ASSUME NEW A, NEW ss \in Seq(Seq(A)), NEW x \in Seq(A)
    PROVE  FlattenSeq(Append(ss, x)) = FlattenSeq(ss) \o x
<1>1. PICK n \in Nat, tt \in Seq(Seq(A)) :
          /\ n = Len(ss) /\ tt = Append(ss, x) /\ Len(tt) = n + 1
          /\ tt[n + 1] = x /\ \A i \in 1 .. n : tt[i] = ss[i]
  <2>1. /\ Append(ss, x) \in Seq(Seq(A)) /\ Len(ss) \in Nat
        /\ Len(Append(ss, x)) = Len(ss) + 1
        /\ Append(ss, x)[Len(ss) + 1] = x
    OBVIOUS
  <2>2. \A i \in 1 .. Len(ss) : Append(ss, x)[i] = ss[i]
    OBVIOUS
  <2> QED
    BY <2>1, <2>2, Zenon
<1>2. PICK p : FlatRun(p, ss) /\ FlattenSeq(ss) = p[n]
  BY <1>1, FlatSteps
<1>3. PICK q : FlatRun(q, tt) /\ FlattenSeq(tt) = q[n + 1]
  BY <1>1, FlatSteps
<1>4. p[0] = q[0]
  BY <1>2, <1>3 DEF FlatRun
<1>5. Follows(p, q, n)
  <2>1. ASSUME NEW i \in 1 .. n, p[i - 1] = q[i - 1] PROVE p[i] = q[i]
    <3>1. i \in 1 .. Len(ss) /\ i \in 1 .. Len(tt) /\ tt[i] = ss[i]
      BY <1>1
    <3>2. p[i] = p[i - 1] \o ss[i]
      BY <1>2, <3>1 DEF FlatRun
    <3>3. q[i] = q[i - 1] \o tt[i]
      BY <1>3, <3>1 DEF FlatRun
    <3> QED
      BY <2>1, <3>1, <3>2, <3>3
  <2> QED
    BY <2>1 DEF Follows
<1>6. p[n] = q[n]
  BY <1>4, <1>5, SameRun
<1>7. q[n + 1] = q[n] \o x
  <2>1. PICK i \in 1 .. Len(tt) : i = n + 1 /\ i - 1 = n
    BY <1>1
  <2>2. q[i] = q[i - 1] \o tt[i]
    BY <1>3 DEF FlatRun
  <2> QED
    BY <1>1, <2>1, <2>2
<1> QED
  BY <1>1, <1>2, <1>3, <1>6, <1>7

LEMMA FlatType ==
    ASSUME NEW A, NEW ss \in Seq(Seq(A))
    PROVE  FlattenSeq(ss) \in Seq(A)
<1> DEFINE T == {tt \in Seq(Seq(A)) : FlattenSeq(tt) \in Seq(A)}
<1>1. T \in SUBSET Seq(Seq(A))
  OBVIOUS
<1>2. <<>> \in T
  BY DEF FlattenSeq
<1>3. ASSUME NEW tt \in T, NEW x \in Seq(A) PROVE Append(tt, x) \in T
  <2>1. tt \in Seq(Seq(A)) /\ FlattenSeq(tt) \in Seq(A)
    OBVIOUS
  <2>2. FlattenSeq(Append(tt, x)) = FlattenSeq(tt) \o x
    BY <2>1, FlatAppend
  <2>3. FlattenSeq(tt) \o x \in Seq(A) /\ Append(tt, x) \in Seq(Seq(A))
    BY <2>1
  <2> QED
    BY <2>2, <2>3
<1> HIDE DEF T
<1>4. Closed(T, Seq(A))
  BY <1>3 DEF Closed
<1>5. T = Seq(Seq(A))
  BY <1>1, <1>2, <1>4, SeqInduction
<1> QED
  BY <1>5 DEF T

EndsCR(s) == s # <<>> /\ s[Len(s)] = CR

LEMMA EndsCRAppend ==
    ASSUME NEW A, NEW s \in Seq(A), NEW c \in A
    PROVE  EndsCR(Append(s, c)) <=> c = CR
<1>1. PICK t : t = Append(s, c) /\ t # <<>> /\ t[Len(t)] = c
  <2>1. /\ Append(s, c) # <<>> /\ Len(Append(s, c)) = Len(s) + 1
        /\ Append(s, c)[Len(s) + 1] = c
    OBVIOUS
  <2> QED
    BY <2>1
<1> QED
  BY <1>1 DEF EndsCR

\* What normaliseLineEndings makes of each character.
NormalPieces(s) ==
    [i \in DOMAIN s |-> IF BareLF(s, i) THEN <<CR, LF>> ELSE <<s[i]>>]

LEMMA NormalPiecesType ==
    ASSUME NEW A, CR \in A, LF \in A, NEW s \in Seq(A)
    PROVE  /\ NormalPieces(s) \in Seq(Seq(A)) /\ Len(NormalPieces(s)) = Len(s)
           /\ \A i \in 1 .. Len(s) : NormalPieces(s)[i] =
                  IF BareLF(s, i) THEN <<CR, LF>> ELSE <<s[i]>>
<1> DEFINE e(i) == IF BareLF(s, i) THEN <<CR, LF>> ELSE <<s[i]>>
<1>1. ASSUME NEW i \in 1 .. Len(s) PROVE e(i) \in Seq(A)
  <2>1. s[i] \in A
    OBVIOUS
  <2>2. <<CR, LF>> \in Seq(A) /\ <<s[i]>> \in Seq(A)
    BY <2>1
  <2> QED
    BY <2>2
<1>2. DOMAIN s = 1 .. Len(s) /\ Len(s) \in Nat
  OBVIOUS
<1>3. NormalPieces(s) = [i \in 1 .. Len(s) |-> e(i)]
  BY <1>2 DEF NormalPieces
<1> HIDE DEF e
<1>4. [i \in 1 .. Len(s) |-> e(i)] \in Seq(Seq(A))
  BY <1>1, <1>2
<1>5. Len([i \in 1 .. Len(s) |-> e(i)]) = Len(s)
  BY <1>2
<1>6. \A i \in 1 .. Len(s) : NormalPieces(s)[i] = e(i)
  BY <1>3
<1> QED
  BY <1>3, <1>4, <1>5, <1>6 DEF e

LEMMA NormalAppend ==
    ASSUME NEW A, CR \in A, LF \in A, NEW s \in Seq(A), NEW c \in A
    PROVE  /\ normaliseLineEndings(s) \in Seq(A)
           /\ c = LF /\ ~EndsCR(s) =>
                  normaliseLineEndings(Append(s, c)) = normaliseLineEndings(s) \o <<CR, LF>>
           /\ ~(c = LF /\ ~EndsCR(s)) =>
                  normaliseLineEndings(Append(s, c)) = normaliseLineEndings(s) \o <<c>>
<1>1. PICK n \in Nat, t \in Seq(A) :
          /\ n = Len(s) /\ t = Append(s, c) /\ Len(t) = n + 1
          /\ t[n + 1] = c /\ \A i \in 1 .. n : t[i] = s[i]
  <2>1. /\ Append(s, c) \in Seq(A) /\ Len(s) \in Nat
        /\ Len(Append(s, c)) = Len(s) + 1
        /\ Append(s, c)[Len(s) + 1] = c
    OBVIOUS
  <2>2. \A i \in 1 .. Len(s) : Append(s, c)[i] = s[i]
    OBVIOUS
  <2> QED
    BY <2>1, <2>2, Zenon
<1>2. PICK a \in Seq(Seq(A)) :
          /\ a = NormalPieces(s) /\ Len(a) = n
          /\ \A i \in 1 .. n : a[i] = IF BareLF(s, i) THEN <<CR, LF>> ELSE <<s[i]>>
  BY <1>1, NormalPiecesType
<1>3. PICK b \in Seq(Seq(A)) :
          /\ b = NormalPieces(t) /\ Len(b) = n + 1
          /\ \A i \in 1 .. n + 1 : b[i] = IF BareLF(t, i) THEN <<CR, LF>> ELSE <<t[i]>>
  <2>1. /\ NormalPieces(t) \in Seq(Seq(A)) /\ Len(NormalPieces(t)) = Len(t)
        /\ \A i \in 1 .. Len(t) : NormalPieces(t)[i] =
               IF BareLF(t, i) THEN <<CR, LF>> ELSE <<t[i]>>
    BY NormalPiecesType
  <2>2. Len(t) = n + 1
    BY <1>1
  <2> QED
    BY <2>1, <2>2, Zenon
<1>4. PICK x : x = b[n + 1]
  OBVIOUS
<1>5. x \in Seq(A) /\ x = IF BareLF(t, n + 1) THEN <<CR, LF>> ELSE <<c>>
  <2>1. n + 1 \in 1 .. n + 1
    OBVIOUS
  <2>2. x \in Seq(A)
    BY <1>3, <1>4, <2>1
  <2> QED
    BY <1>1, <1>3, <1>4, <2>1, <2>2
<1>6. BareLF(t, n + 1) <=> c = LF /\ ~EndsCR(s)
  <2>1. s = <<>> <=> n = 0
    BY <1>1
  <2>2. n # 0 => t[n] = s[n]
    BY <1>1
  <2>3. n + 1 - 1 = n /\ (n + 1 = 1 <=> n = 0)
    OBVIOUS
  <2> QED
    BY <1>1, <2>1, <2>2, <2>3 DEF BareLF, EndsCR
<1>7. \A i \in 1 .. n : b[i] = a[i]
  <2> SUFFICES ASSUME NEW i \in 1 .. n PROVE b[i] = a[i]
    OBVIOUS
  <2>1. t[i] = s[i] /\ (i # 1 => t[i - 1] = s[i - 1]) /\ i \in 1 .. n + 1
    BY <1>1
  <2>2. BareLF(t, i) <=> BareLF(s, i)
    BY <2>1 DEF BareLF
  <2>3. a[i] = IF BareLF(s, i) THEN <<CR, LF>> ELSE <<s[i]>>
    BY <1>2
  <2>4. b[i] = IF BareLF(t, i) THEN <<CR, LF>> ELSE <<t[i]>>
    BY <1>3, <2>1
  <2> QED
    BY <2>1, <2>2, <2>3, <2>4, Zenon
<1>8. b = Append(a, x)
  <2>1. PICK d : d = Append(a, x)
    OBVIOUS
  <2>2. /\ d \in Seq(Seq(A)) /\ Len(d) = n + 1 /\ d[n + 1] = x
        /\ \A i \in 1 .. n : d[i] = a[i]
    BY <1>2, <1>5, <2>1
  <2>3. \A i \in 1 .. n + 1 : d[i] = b[i]
    <3>1. \A i \in 1 .. n + 1 : i = n + 1 \/ i \in 1 .. n
      OBVIOUS
    <3> QED
      BY <1>4, <1>7, <2>2, <3>1
  <2>4. d = b
    BY <1>3, <2>2, <2>3
  <2> QED
    BY <2>1, <2>4
<1>9. FlattenSeq(b) = FlattenSeq(a) \o x
  BY <1>2, <1>5, <1>8, FlatAppend
<1>10. normaliseLineEndings(s) = FlattenSeq(a) /\ normaliseLineEndings(t) = FlattenSeq(b)
  BY <1>2, <1>3 DEF normaliseLineEndings, NormalPieces
<1>11. FlattenSeq(a) \in Seq(A)
  BY <1>2, FlatType
<1> QED
  BY <1>1, <1>5, <1>6, <1>9, <1>10, <1>11, Zenon

LEMMA NormalEmpty == normaliseLineEndings(<<>>) = <<>>
<1>1. [i \in DOMAIN <<>> |-> IF BareLF(<<>>, i) THEN <<CR, LF>> ELSE << <<>>[i] >>] = <<>>
  OBVIOUS
<1> QED
  BY <1>1 DEF normaliseLineEndings, FlattenSeq

\* What Unix makes of each character.
UnixPieces(s) ==
    [i \in DOMAIN s |->
        IF s[i] = CR /\ i < Len(s) /\ s[i + 1] = LF THEN <<>> ELSE <<s[i]>>]

LEMMA UnixPiecesType ==
    ASSUME NEW A, NEW s \in Seq(A)
    PROVE  /\ UnixPieces(s) \in Seq(Seq(A)) /\ Len(UnixPieces(s)) = Len(s)
           /\ \A i \in 1 .. Len(s) : UnixPieces(s)[i] =
                  IF s[i] = CR /\ i < Len(s) /\ s[i + 1] = LF THEN <<>> ELSE <<s[i]>>
<1> DEFINE e(i) == IF s[i] = CR /\ i < Len(s) /\ s[i + 1] = LF THEN <<>> ELSE <<s[i]>>
<1>1. ASSUME NEW i \in 1 .. Len(s) PROVE e(i) \in Seq(A)
  <2>1. s[i] \in A
    OBVIOUS
  <2>2. <<>> \in Seq(A) /\ <<s[i]>> \in Seq(A)
    BY <2>1
  <2> QED
    BY <2>2
<1>2. DOMAIN s = 1 .. Len(s) /\ Len(s) \in Nat
  OBVIOUS
<1>3. UnixPieces(s) = [i \in 1 .. Len(s) |-> e(i)]
  BY <1>2 DEF UnixPieces
<1> HIDE DEF e
<1>4. [i \in 1 .. Len(s) |-> e(i)] \in Seq(Seq(A))
  BY <1>1, <1>2
<1>5. Len([i \in 1 .. Len(s) |-> e(i)]) = Len(s)
  BY <1>2
<1>6. \A i \in 1 .. Len(s) : UnixPieces(s)[i] = e(i)
  BY <1>3
<1> QED
  BY <1>3, <1>4, <1>5, <1>6 DEF e

\* A character that ends no CRLF is kept.
LEMMA UnixAppend ==
    ASSUME NEW A, NEW s \in Seq(A), NEW c \in A
    PROVE  /\ Unix(s) \in Seq(A)
           /\ ~(c = LF /\ EndsCR(s)) => Unix(Append(s, c)) = Unix(s) \o <<c>>
<1>1. PICK n \in Nat, t \in Seq(A) :
          /\ n = Len(s) /\ t = Append(s, c) /\ Len(t) = n + 1
          /\ t[n + 1] = c /\ \A i \in 1 .. n : t[i] = s[i]
  <2>1. /\ Append(s, c) \in Seq(A) /\ Len(s) \in Nat
        /\ Len(Append(s, c)) = Len(s) + 1
        /\ Append(s, c)[Len(s) + 1] = c
    OBVIOUS
  <2>2. \A i \in 1 .. Len(s) : Append(s, c)[i] = s[i]
    OBVIOUS
  <2> QED
    BY <2>1, <2>2, Zenon
<1> DEFINE cut(u, i) == u[i] = CR /\ i < Len(u) /\ u[i + 1] = LF
<1>2. PICK a \in Seq(Seq(A)) :
          /\ a = UnixPieces(s) /\ Len(a) = n
          /\ \A i \in 1 .. n : a[i] = IF cut(s, i) THEN <<>> ELSE <<s[i]>>
  <2>1. /\ UnixPieces(s) \in Seq(Seq(A)) /\ Len(UnixPieces(s)) = Len(s)
        /\ \A i \in 1 .. Len(s) : UnixPieces(s)[i] =
               IF cut(s, i) THEN <<>> ELSE <<s[i]>>
    BY UnixPiecesType
  <2> QED
    BY <1>1, <2>1, Zenon
<1>3. PICK b \in Seq(Seq(A)) :
          /\ b = UnixPieces(t) /\ Len(b) = n + 1
          /\ \A i \in 1 .. n + 1 : b[i] = IF cut(t, i) THEN <<>> ELSE <<t[i]>>
  <2>1. /\ UnixPieces(t) \in Seq(Seq(A)) /\ Len(UnixPieces(t)) = Len(t)
        /\ \A i \in 1 .. Len(t) : UnixPieces(t)[i] =
               IF cut(t, i) THEN <<>> ELSE <<t[i]>>
    BY UnixPiecesType
  <2>2. Len(t) = n + 1
    BY <1>1
  <2> QED
    BY <2>1, <2>2, Zenon
<1>4. Unix(s) = FlattenSeq(a) /\ Unix(t) = FlattenSeq(b)
  BY <1>2, <1>3 DEF Unix, UnixPieces
<1>5. FlattenSeq(a) \in Seq(A)
  BY <1>2, FlatType
<1>6. ASSUME ~(c = LF /\ EndsCR(s)) PROVE Unix(t) = Unix(s) \o <<c>>
  <2>1. b[n + 1] = <<c>>
    <3>1. n + 1 \in 1 .. n + 1 /\ ~cut(t, n + 1)
      BY <1>1
    <3> QED
      BY <1>1, <1>3, <3>1, Zenon
  <2>2. ASSUME NEW i \in 1 .. n PROVE b[i] = a[i]
    <3>1. t[i] = s[i] /\ i \in 1 .. n + 1
      BY <1>1
    <3>2. cut(t, i) <=> cut(s, i)
      <4>1. CASE i = n
        <5>1. i + 1 = n + 1 /\ t[i + 1] = c /\ ~(i < Len(s)) /\ s # <<>>
          BY <1>1, <4>1
        <5>2. s[i] = CR => EndsCR(s)
          BY <1>1, <4>1, <5>1 DEF EndsCR
        <5> QED
          BY <1>6, <3>1, <5>1, <5>2
      <4>2. CASE i # n
        <5>1. i + 1 \in 1 .. n /\ i < Len(s) /\ i < Len(t)
          BY <1>1, <4>2
        <5>2. t[i + 1] = s[i + 1]
          BY <1>1, <5>1
        <5> QED
          BY <3>1, <5>1, <5>2
      <4> QED
        BY <4>1, <4>2
    <3> HIDE DEF cut
    <3>3. a[i] = IF cut(s, i) THEN <<>> ELSE <<s[i]>>
      BY <1>2
    <3>4. b[i] = IF cut(t, i) THEN <<>> ELSE <<t[i]>>
      BY <1>3, <3>1
    <3> QED
      BY <3>1, <3>2, <3>3, <3>4, Zenon
  <2>3. PICK x \in Seq(A) : x = <<c>>
    <3>1. <<c>> \in Seq(A)
      OBVIOUS
    <3> QED
      BY <3>1, Zenon
  <2>4. b = Append(a, x)
    <3>1. PICK d : d = Append(a, x)
      OBVIOUS
    <3>2. /\ d \in Seq(Seq(A)) /\ Len(d) = n + 1 /\ d[n + 1] = x
          /\ \A i \in 1 .. n : d[i] = a[i]
      BY <1>2, <3>1
    <3>3. \A i \in 1 .. n + 1 : d[i] = b[i]
      <4>1. \A i \in 1 .. n + 1 : i = n + 1 \/ i \in 1 .. n
        OBVIOUS
      <4>2. d[n + 1] = b[n + 1]
        BY <2>1, <2>3, <3>2
      <4>3. \A i \in 1 .. n : d[i] = b[i]
        BY <2>2, <3>2
      <4> QED
        BY <4>1, <4>2, <4>3, Zenon
    <3>4. d = b
      BY <1>3, <3>2, <3>3
    <3> QED
      BY <3>1, <3>4
  <2>5. FlattenSeq(b) = FlattenSeq(a) \o x
    BY <1>2, <2>3, <2>4, FlatAppend
  <2> QED
    BY <1>4, <2>3, <2>5, Zenon
<1> QED
  BY <1>1, <1>4, <1>5, <1>6

\* A line end counts once.
LEMMA UnixCRLF ==
    ASSUME NEW A, CR \in A, LF \in A, NEW s \in Seq(A)
    PROVE  Unix(Append(Append(s, CR), LF)) = Unix(s) \o <<LF>>
<1>1. PICK n \in Nat, t \in Seq(A) :
          /\ n = Len(s) /\ t = Append(Append(s, CR), LF) /\ Len(t) = n + 2
          /\ t[n + 1] = CR /\ t[n + 2] = LF /\ \A i \in 1 .. n : t[i] = s[i]
  <2>1. PICK u \in Seq(A) :
            /\ u = Append(s, CR) /\ Len(u) = Len(s) + 1 /\ u[Len(s) + 1] = CR
            /\ \A i \in 1 .. Len(s) : u[i] = s[i]
    <3>1. /\ Append(s, CR) \in Seq(A) /\ Len(Append(s, CR)) = Len(s) + 1
          /\ Append(s, CR)[Len(s) + 1] = CR
      OBVIOUS
    <3>2. \A i \in 1 .. Len(s) : Append(s, CR)[i] = s[i]
      OBVIOUS
    <3> QED
      BY <3>1, <3>2, Zenon
  <2>2. /\ Append(u, LF) \in Seq(A) /\ Len(Append(u, LF)) = Len(u) + 1
        /\ Append(u, LF)[Len(u) + 1] = LF
    OBVIOUS
  <2>3. \A i \in 1 .. Len(u) : Append(u, LF)[i] = u[i]
    OBVIOUS
  <2>4. PICK v \in Seq(A) :
            /\ v = Append(u, LF) /\ Len(v) = Len(u) + 1 /\ v[Len(u) + 1] = LF
            /\ \A i \in 1 .. Len(u) : v[i] = u[i]
    BY <2>2, <2>3, Zenon
  <2>5. Len(s) \in Nat
    OBVIOUS
  <2>6. /\ Len(v) = Len(s) + 2 /\ v[Len(s) + 1] = CR /\ v[Len(s) + 2] = LF
        /\ \A i \in 1 .. Len(s) : v[i] = s[i]
    BY <2>1, <2>4, <2>5
  <2> QED
    BY <2>1, <2>4, <2>5, <2>6, Zenon
<1> DEFINE cut(u, i) == u[i] = CR /\ i < Len(u) /\ u[i + 1] = LF
<1>2. PICK a \in Seq(Seq(A)) :
          /\ a = UnixPieces(s) /\ Len(a) = n
          /\ \A i \in 1 .. n : a[i] = IF cut(s, i) THEN <<>> ELSE <<s[i]>>
  <2>1. /\ UnixPieces(s) \in Seq(Seq(A)) /\ Len(UnixPieces(s)) = Len(s)
        /\ \A i \in 1 .. Len(s) : UnixPieces(s)[i] =
               IF cut(s, i) THEN <<>> ELSE <<s[i]>>
    BY UnixPiecesType
  <2> QED
    BY <1>1, <2>1, Zenon
<1>3. PICK b \in Seq(Seq(A)) :
          /\ b = UnixPieces(t) /\ Len(b) = n + 2
          /\ \A i \in 1 .. n + 2 : b[i] = IF cut(t, i) THEN <<>> ELSE <<t[i]>>
  <2>1. /\ UnixPieces(t) \in Seq(Seq(A)) /\ Len(UnixPieces(t)) = Len(t)
        /\ \A i \in 1 .. Len(t) : UnixPieces(t)[i] =
               IF cut(t, i) THEN <<>> ELSE <<t[i]>>
    BY UnixPiecesType
  <2>2. Len(t) = n + 2
    BY <1>1
  <2> QED
    BY <2>1, <2>2, Zenon
<1>4. Unix(s) = FlattenSeq(a) /\ Unix(t) = FlattenSeq(b)
  BY <1>2, <1>3 DEF Unix, UnixPieces
<1>5. FlattenSeq(a) \in Seq(A)
  BY <1>2, FlatType
<1>6. b[n + 1] = <<>> /\ b[n + 2] = <<LF>>
  <2>1. n + 1 \in 1 .. n + 2 /\ n + 2 \in 1 .. n + 2 /\ n + 1 + 1 = n + 2
    OBVIOUS
  <2>2. cut(t, n + 1) /\ ~cut(t, n + 2)
    BY <1>1, <2>1
  <2> HIDE DEF cut
  <2> QED
    BY <1>1, <1>3, <2>1, <2>2, Zenon
<1>7. ASSUME NEW i \in 1 .. n PROVE b[i] = a[i]
  <2>1. t[i] = s[i] /\ i \in 1 .. n + 2
    BY <1>1
  <2>2. cut(t, i) <=> cut(s, i)
    <3>1. CASE i = n
      <4>1. i + 1 = n + 1 /\ t[i + 1] = CR /\ ~(i < Len(s)) /\ CR # LF
        BY <1>1, <3>1 DEF CR, LF
      <4> QED
        BY <2>1, <4>1
    <3>2. CASE i # n
      <4>1. i + 1 \in 1 .. n /\ i < Len(s) /\ i < Len(t)
        BY <1>1, <3>2
      <4>2. t[i + 1] = s[i + 1]
        BY <1>1, <4>1
      <4> QED
        BY <2>1, <4>1, <4>2
    <3> QED
      BY <3>1, <3>2
  <2> HIDE DEF cut
  <2>3. a[i] = IF cut(s, i) THEN <<>> ELSE <<s[i]>>
    BY <1>2
  <2>4. b[i] = IF cut(t, i) THEN <<>> ELSE <<t[i]>>
    BY <1>3, <2>1
  <2> QED
    BY <2>1, <2>2, <2>3, <2>4, Zenon
<1>8. PICK e \in Seq(A), x \in Seq(A) : e = <<>> /\ x = <<LF>>
  <2>1. <<>> \in Seq(A) /\ <<LF>> \in Seq(A)
    OBVIOUS
  <2> QED
    BY <2>1, Zenon
<1>9. PICK d \in Seq(Seq(A)) :
          /\ d = Append(a, e) /\ Len(d) = n + 1 /\ d[n + 1] = e
          /\ \A i \in 1 .. n : d[i] = a[i]
  <2>1. /\ Append(a, e) \in Seq(Seq(A)) /\ Len(Append(a, e)) = Len(a) + 1
        /\ Append(a, e)[Len(a) + 1] = e
    OBVIOUS
  <2>2. \A i \in 1 .. Len(a) : Append(a, e)[i] = a[i]
    OBVIOUS
  <2> QED
    BY <1>2, <2>1, <2>2, Zenon
<1>10. b = Append(d, x)
  <2>1. PICK f : f = Append(d, x)
    OBVIOUS
  <2>2. /\ f \in Seq(Seq(A)) /\ Len(f) = n + 2 /\ f[n + 2] = x
        /\ \A i \in 1 .. n + 1 : f[i] = d[i]
    BY <1>9, <2>1
  <2>3. \A i \in 1 .. n + 2 : f[i] = b[i]
    <3>1. \A i \in 1 .. n + 2 : i = n + 2 \/ i = n + 1 \/ i \in 1 .. n
      OBVIOUS
    <3>2. f[n + 2] = b[n + 2] /\ f[n + 1] = b[n + 1]
      BY <1>6, <1>8, <1>9, <2>2
    <3>3. \A i \in 1 .. n : f[i] = b[i]
      BY <1>7, <1>9, <2>2
    <3> QED
      BY <3>1, <3>2, <3>3, Zenon
  <2>4. f = b
    <3>1. f \in Seq(Seq(A)) /\ Len(f) = n + 2 /\ Len(b) = n + 2
      BY <1>3, <2>2
    <3> QED
      BY <2>3, <3>1
  <2> QED
    BY <2>1, <2>4
<1>11. FlattenSeq(b) = FlattenSeq(d) \o x /\ FlattenSeq(d) = FlattenSeq(a) \o e
  BY <1>2, <1>8, <1>9, <1>10, FlatAppend
<1>12. FlattenSeq(a) \o e = FlattenSeq(a)
  BY <1>5, <1>8
<1> QED
  BY <1>1, <1>4, <1>8, <1>11, <1>12, Zenon

LEMMA JoinOne ==
    ASSUME NEW A, NEW s \in Seq(A), NEW c \in A
    PROVE  s \o <<c>> = Append(s, c) /\ Append(s, c) \in Seq(A)
  OBVIOUS

LEMMA JoinTwo ==
    ASSUME NEW A, NEW s \in Seq(A), NEW c \in A, NEW d \in A
    PROVE  s \o <<c, d>> = Append(Append(s, c), d)
<1>1. PICK u : u = s \o <<c, d>>
  OBVIOUS
<1>2. PICK v : v = Append(Append(s, c), d)
  OBVIOUS
<1>3. Len(s) \in Nat
  OBVIOUS
<1>4. /\ u \in Seq(A) /\ Len(u) = Len(s) + 2
  BY <1>1
<1>5. \A i \in 1 .. Len(s) : u[i] = s[i]
  BY <1>1
<1>6. u[Len(s) + 1] = c /\ u[Len(s) + 2] = d
  BY <1>1, <1>3
<1>7. PICK w \in Seq(A) : /\ w = Append(s, c) /\ Len(w) = Len(s) + 1 /\ w[Len(s) + 1] = c
                          /\ \A i \in 1 .. Len(s) : w[i] = s[i]
  <2>1. /\ Append(s, c) \in Seq(A) /\ Len(Append(s, c)) = Len(s) + 1
        /\ Append(s, c)[Len(s) + 1] = c
    OBVIOUS
  <2>2. \A i \in 1 .. Len(s) : Append(s, c)[i] = s[i]
    OBVIOUS
  <2> QED
    BY <2>1, <2>2, Zenon
<1>8. /\ v \in Seq(A) /\ Len(v) = Len(s) + 2 /\ v[Len(s) + 2] = d
      /\ \A i \in 1 .. Len(s) + 1 : v[i] = w[i]
  BY <1>2, <1>3, <1>7
<1>9. \A i \in 1 .. Len(s) + 2 : u[i] = v[i]
  <2>1. \A i \in 1 .. Len(s) + 2 : i \in 1 .. Len(s) \/ i = Len(s) + 1 \/ i = Len(s) + 2
    BY <1>3
  <2>2. \A i \in 1 .. Len(s) : i \in 1 .. Len(s) + 1
    BY <1>3
  <2>3. Len(s) + 1 \in 1 .. Len(s) + 1
    BY <1>3
  <2> QED
    BY <1>5, <1>6, <1>7, <1>8, <2>1, <2>2, <2>3, Zenon
<1>10. u = v
  BY <1>4, <1>8, <1>9
<1> QED
  BY <1>1, <1>2, <1>10

LEMMA CancelLast ==
    ASSUME NEW A, NEW x \in Seq(A), NEW y \in Seq(A), NEW c \in A,
           Append(x, c) = Append(y, c)
    PROVE  x = y
<1>1. Len(Append(x, c)) = Len(x) + 1 /\ Len(Append(y, c)) = Len(y) + 1
  OBVIOUS
<1>2. Len(x) \in Nat /\ Len(y) \in Nat
  OBVIOUS
<1>3. Len(x) = Len(y)
  <2>1. Len(x) + 1 = Len(y) + 1
    BY <1>1, Zenon
  <2> QED
    BY <1>2, <2>1
<1>4. \A i \in 1 .. Len(x) : Append(x, c)[i] = x[i]
  OBVIOUS
<1>5. \A i \in 1 .. Len(y) : Append(y, c)[i] = y[i]
  OBVIOUS
<1>6. \A i \in 1 .. Len(x) : x[i] = y[i]
  BY <1>3, <1>4, <1>5, Zenon
<1> QED
  BY <1>3, <1>6

\* A text that ends in CR, without it.
LEMMA BeforeCR ==
    ASSUME NEW A, NEW s \in Seq(A), EndsCR(s)
    PROVE  \E v \in Seq(A) : s = Append(v, CR)
<1>1. PICK n \in Nat : Len(s) = n + 1
  <2>1. Len(s) \in Nat /\ Len(s) # 0
    BY DEF EndsCR
  <2>2. Len(s) - 1 \in Nat /\ Len(s) = Len(s) - 1 + 1
    BY <2>1
  <2> QED
    BY <2>2
<1>2. /\ SubSeq(s, 1, n) \in Seq(A) /\ s = Append(SubSeq(s, 1, n), s[n + 1])
  BY <1>1, LastSplit
<1>3. s[n + 1] = CR
  BY <1>1 DEF EndsCR
<1> QED
  BY <1>2, <1>3, Zenon

\* Every LF has its CR.
CrlfOnly(b) == \A i \in 1 .. Len(b) : b[i] = LF => i > 1 /\ b[i - 1] = CR

LEMMA CrlfOnlyAppend ==
    ASSUME NEW A, NEW b \in Seq(A), NEW c \in A, CrlfOnly(b), ~(c = LF /\ ~EndsCR(b))
    PROVE  CrlfOnly(Append(b, c))
<1>1. PICK n \in Nat, t \in Seq(A) :
          /\ n = Len(b) /\ t = Append(b, c) /\ Len(t) = n + 1
          /\ t[n + 1] = c /\ \A i \in 1 .. n : t[i] = b[i]
  <2>1. /\ Append(b, c) \in Seq(A) /\ Len(b) \in Nat
        /\ Len(Append(b, c)) = Len(b) + 1
        /\ Append(b, c)[Len(b) + 1] = c
    OBVIOUS
  <2>2. \A i \in 1 .. Len(b) : Append(b, c)[i] = b[i]
    OBVIOUS
  <2> QED
    BY <2>1, <2>2, Zenon
<1>2. ASSUME NEW i \in 1 .. n + 1, t[i] = LF PROVE i > 1 /\ t[i - 1] = CR
  <2>1. CASE i \in 1 .. n
    <3>1. b[i] = LF
      BY <1>1, <1>2, <2>1
    <3>2. i > 1 /\ b[i - 1] = CR
      BY <1>1, <2>1, <3>1 DEF CrlfOnly
    <3>3. i - 1 \in 1 .. n
      BY <2>1, <3>2
    <3> QED
      BY <1>1, <3>2, <3>3
  <2>2. CASE i = n + 1
    <3>1. EndsCR(b)
      BY <1>1, <1>2, <2>2
    <3>2. n # 0 /\ b[n] = CR
      BY <1>1, <3>1 DEF EndsCR
    <3>3. n \in 1 .. n /\ i - 1 = n /\ i > 1
      BY <2>2, <3>2
    <3> QED
      BY <1>1, <3>2, <3>3
  <2> QED
    BY <2>1, <2>2
<1> QED
  BY <1>1, <1>2 DEF CrlfOnly

\* What DATA stores: every LF has its CR, nothing else has changed, and a
\* second normalisation would change nothing.
IsNormal(s, b) ==
    /\ EndsCR(b) <=> EndsCR(s)
    /\ CrlfOnly(b)
    /\ normaliseLineEndings(b) = b
    /\ Unix(b) = Unix(s)

\* One more character that is no bare LF.
LEMMA NormalStep ==
    ASSUME NEW A, CR \in A, LF \in A, NEW s \in Seq(A), NEW b \in Seq(A), NEW c \in A,
           IsNormal(s, b), ~(c = LF /\ ~EndsCR(s)),
           EndsCR(s) => \E v \in Seq(A), w \in Seq(A) :
               s = Append(v, CR) /\ b = Append(w, CR)
    PROVE  IsNormal(Append(s, c), Append(b, c))
<1>1. Append(s, c) \in Seq(A) /\ Append(b, c) \in Seq(A)
  OBVIOUS
<1>2. ~(c = LF /\ ~EndsCR(b))
  BY DEF IsNormal
<1>3. EndsCR(Append(b, c)) <=> EndsCR(Append(s, c))
  BY EndsCRAppend
<1>4. CrlfOnly(Append(b, c))
  BY <1>2, CrlfOnlyAppend DEF IsNormal
<1>5. normaliseLineEndings(Append(b, c)) = Append(b, c)
  <2>1. normaliseLineEndings(Append(b, c)) = normaliseLineEndings(b) \o <<c>>
    BY <1>2, NormalAppend
  <2>2. normaliseLineEndings(b) = b
    BY DEF IsNormal
  <2> QED
    BY <2>1, <2>2, JoinOne
<1>6. Unix(Append(b, c)) = Unix(Append(s, c))
  <2>1. CASE ~(c = LF /\ EndsCR(s))
    <3>1. Unix(Append(s, c)) = Unix(s) \o <<c>>
      BY <2>1, UnixAppend
    <3>2. Unix(Append(b, c)) = Unix(b) \o <<c>>
      BY <2>1, UnixAppend DEF IsNormal
    <3> QED
      BY <3>1, <3>2 DEF IsNormal
  <2>2. CASE c = LF /\ EndsCR(s)
    <3>1. PICK v \in Seq(A), w \in Seq(A) : s = Append(v, CR) /\ b = Append(w, CR)
      BY <2>2
    <3>2. CR # LF
      BY DEF CR, LF
    <3>3. Unix(v) \in Seq(A) /\ Unix(w) \in Seq(A)
      BY <3>1, UnixAppend
    <3>4. Unix(s) = Unix(v) \o <<CR>> /\ Unix(b) = Unix(w) \o <<CR>>
      BY <3>1, <3>2, UnixAppend
    <3>5. Unix(s) = Append(Unix(v), CR) /\ Unix(b) = Append(Unix(w), CR)
      BY <3>3, <3>4, JoinOne
    <3>6. Append(Unix(v), CR) = Append(Unix(w), CR)
      BY <3>5 DEF IsNormal
    <3>7. Unix(v) = Unix(w)
      BY <3>3, <3>6, CancelLast
    <3>8. Unix(Append(Append(v, CR), LF)) = Unix(v) \o <<LF>>
      BY UnixCRLF
    <3>9. Unix(Append(Append(w, CR), LF)) = Unix(w) \o <<LF>>
      BY UnixCRLF
    <3> QED
      BY <2>2, <3>1, <3>7, <3>8, <3>9, Zenon
  <2> QED
    BY <2>1, <2>2
<1> QED
  BY <1>3, <1>4, <1>5, <1>6 DEF IsNormal

\* A bare LF, for which CRLF is written.
LEMMA NormalBareLF ==
    ASSUME NEW A, CR \in A, LF \in A, NEW s \in Seq(A), NEW b \in Seq(A),
           IsNormal(s, b), ~EndsCR(s)
    PROVE  IsNormal(Append(s, LF), Append(Append(b, CR), LF))
<1>1. PICK d \in Seq(A) : d = Append(b, CR)
  <2>1. Append(b, CR) \in Seq(A)
    OBVIOUS
  <2> QED
    BY <2>1, Zenon
<1>2. CR # LF
  BY DEF CR, LF
<1>3. EndsCR(d)
  BY <1>1, EndsCRAppend
<1>4. EndsCR(Append(d, LF)) <=> EndsCR(Append(s, LF))
  BY <1>2, EndsCRAppend
<1>5. CrlfOnly(d)
  BY <1>1, <1>2, CrlfOnlyAppend DEF IsNormal
<1>6. CrlfOnly(Append(d, LF))
  BY <1>3, <1>5, CrlfOnlyAppend
<1>7. normaliseLineEndings(d) = d
  <2>1. normaliseLineEndings(d) = normaliseLineEndings(b) \o <<CR>>
    BY <1>1, <1>2, NormalAppend
  <2>2. normaliseLineEndings(b) = b
    BY DEF IsNormal
  <2> QED
    BY <1>1, <2>1, <2>2, JoinOne
<1>8. normaliseLineEndings(Append(d, LF)) = Append(d, LF)
  <2>1. normaliseLineEndings(Append(d, LF)) = normaliseLineEndings(d) \o <<LF>>
    BY <1>3, NormalAppend
  <2> QED
    BY <1>7, <2>1, JoinOne
<1>9. Unix(Append(d, LF)) = Unix(Append(s, LF))
  <2>1. Unix(Append(d, LF)) = Unix(b) \o <<LF>>
    BY <1>1, UnixCRLF
  <2>2. Unix(Append(s, LF)) = Unix(s) \o <<LF>>
    BY UnixAppend
  <2> QED
    BY <2>1, <2>2 DEF IsNormal
<1>10. IsNormal(Append(s, LF), Append(d, LF))
  BY <1>4, <1>6, <1>8, <1>9 DEF IsNormal
<1> QED
  BY <1>1, <1>10

LEMMA NormalForm ==
    ASSUME NEW A, CR \in A, LF \in A, NEW s \in Seq(A)
    PROVE  normaliseLineEndings(s) \in Seq(A) /\ IsNormal(s, normaliseLineEndings(s))
<1> DEFINE T == {x \in Seq(A) : IsNormal(x, normaliseLineEndings(x))}
<1>1. T \in SUBSET Seq(A)
  OBVIOUS
<1>2. <<>> \in T
  <2>1. <<>> \in Seq(A) /\ normaliseLineEndings(<<>>) = <<>>
    BY NormalEmpty
  <2>2. CrlfOnly(<<>>)
    BY DEF CrlfOnly
  <2> QED
    BY <2>1, <2>2, Zenon DEF IsNormal
<1>3. ASSUME NEW x \in T, NEW c \in A PROVE Append(x, c) \in T
  <2>1. x \in Seq(A) /\ Append(x, c) \in Seq(A)
    OBVIOUS
  <2>2. PICK b \in Seq(A) : b = normaliseLineEndings(x) /\ IsNormal(x, b)
    BY <2>1, NormalAppend
  <2>3. CASE c = LF /\ ~EndsCR(x)
    <3>1. normaliseLineEndings(Append(x, c)) = b \o <<CR, LF>>
      BY <2>1, <2>2, <2>3, NormalAppend
    <3>2. normaliseLineEndings(Append(x, c)) = Append(Append(b, CR), LF)
      BY <3>1, JoinTwo
    <3>3. IsNormal(Append(x, LF), Append(Append(b, CR), LF))
      BY <2>1, <2>2, <2>3, NormalBareLF
    <3> QED
      BY <2>1, <2>3, <3>2, <3>3
  <2>4. CASE ~(c = LF /\ ~EndsCR(x))
    <3>1. normaliseLineEndings(Append(x, c)) = b \o <<c>>
      BY <2>1, <2>2, <2>4, NormalAppend
    <3>2. normaliseLineEndings(Append(x, c)) = Append(b, c)
      BY <3>1, JoinOne
    <3>3. ASSUME EndsCR(x)
          PROVE  \E v \in Seq(A), w \in Seq(A) : x = Append(v, CR) /\ b = Append(w, CR)
      <4>1. \E v \in Seq(A) : x = Append(v, CR)
        BY <2>1, <3>3, BeforeCR
      <4>2. EndsCR(b)
        BY <2>2, <3>3 DEF IsNormal
      <4>3. \E w \in Seq(A) : b = Append(w, CR)
        BY <4>2, BeforeCR
      <4> QED
        BY <4>1, <4>3, Zenon
    <3>4. IsNormal(Append(x, c), Append(b, c))
      BY <2>1, <2>2, <2>4, <3>3, NormalStep
    <3> QED
      BY <2>1, <3>2, <3>4
  <2> QED
    BY <2>3, <2>4
<1> HIDE DEF T
<1>4. Closed(T, A)
  BY <1>3 DEF Closed
<1>5. T = Seq(A)
  BY <1>1, <1>2, <1>4, SeqInduction
<1> QED
  BY <1>5, NormalAppend DEF T

-----------------------------------------------------------------------------
(* The lines of a message *)

NoLF(s) == \A i \in 1 .. Len(s) : s[i] # LF
Line(s) == TrimRight(s, {CR, LF})

LEMMA LineType ==
    ASSUME NEW A, NEW s \in Seq(A)
    PROVE  Line(s) \in Seq(A) /\ (NoLF(s) => NoLF(Line(s)))
<1>1. PICK k \in 0 .. Len(s) : k = LastNot(s, {CR, LF})
  BY LastNotIs
<1>2. PICK t \in Seq(A) : t = SubSeq(s, 1, k)
  <2>1. SubSeq(s, 1, k) \in Seq(A)
    OBVIOUS
  <2> QED
    BY <2>1, Zenon
<1>3. Len(t) = k /\ \A i \in 1 .. k : t[i] = s[i]
  BY <1>2
<1>4. t = Line(s)
  BY <1>1, <1>2 DEF Line, TrimRight
<1>5. NoLF(s) => NoLF(t)
  BY <1>3 DEF NoLF
<1> QED
  BY <1>4, <1>5

\* A line is the same with one more CR or LF at its end.
LEMMA LineAppend ==
    ASSUME NEW A, NEW s \in Seq(A), NEW c \in A, c = CR \/ c = LF
    PROVE  Line(Append(s, c)) = Line(s)
<1>1. PICK n \in Nat, t \in Seq(A) :
          /\ n = Len(s) /\ t = Append(s, c) /\ Len(t) = n + 1
          /\ t[n + 1] = c /\ \A i \in 1 .. n : t[i] = s[i]
  <2>1. /\ Append(s, c) \in Seq(A) /\ Len(s) \in Nat
        /\ Len(Append(s, c)) = Len(s) + 1
        /\ Append(s, c)[Len(s) + 1] = c
    OBVIOUS
  <2>2. \A i \in 1 .. Len(s) : Append(s, c)[i] = s[i]
    OBVIOUS
  <2> QED
    BY <2>1, <2>2, Zenon
<1> DEFINE E == {CR, LF}
<1>2. PICK k : /\ k = LastNot(s, E) /\ k \in 0 .. n
               /\ (k = 0 \/ s[k] \notin E) /\ \A i \in k + 1 .. n : s[i] \in E
  BY <1>1, LastNotIs
<1>3. PICK m : /\ m = LastNot(t, E) /\ m \in 0 .. n + 1
               /\ (m = 0 \/ t[m] \notin E) /\ \A i \in m + 1 .. n + 1 : t[i] \in E
  <2>1. /\ LastNot(t, E) \in 0 .. Len(t)
        /\ LastNot(t, E) = 0 \/ t[LastNot(t, E)] \notin E
        /\ \A i \in LastNot(t, E) + 1 .. Len(t) : t[i] \in E
    BY LastNotIs
  <2>2. Len(t) = n + 1
    BY <1>1
  <2> HIDE DEF E
  <2> QED
    BY <2>1, <2>2, Zenon
<1>4. c \in E
  OBVIOUS
<1> HIDE DEF E
<1>5. m \in 0 .. n
  BY <1>1, <1>3, <1>4
<1>6. ~(k < m)
  <2> SUFFICES ASSUME k < m PROVE FALSE
    OBVIOUS
  <2>1. m \in k + 1 .. n /\ m \in 1 .. n /\ m # 0
    BY <1>2, <1>5
  <2> QED
    BY <1>1, <1>2, <1>3, <2>1
<1>7. ~(m < k)
  <2> SUFFICES ASSUME m < k PROVE FALSE
    OBVIOUS
  <2>1. k \in m + 1 .. n + 1 /\ k \in 1 .. n /\ k # 0
    BY <1>2, <1>5
  <2> QED
    BY <1>1, <1>2, <1>3, <2>1
<1>8. k = m
  BY <1>2, <1>5, <1>6, <1>7
<1>9. SubSeq(t, 1, k) = SubSeq(s, 1, k)
  <2>1. PICK a : a = SubSeq(s, 1, k)
    OBVIOUS
  <2>2. PICK b : b = SubSeq(t, 1, k)
    OBVIOUS
  <2>3. a \in Seq(A) /\ Len(a) = k /\ \A i \in 1 .. k : a[i] = s[i]
    BY <1>1, <1>2, <2>1
  <2>4. b \in Seq(A) /\ Len(b) = k /\ \A i \in 1 .. k : b[i] = t[i]
    BY <1>1, <1>2, <2>2
  <2>5. \A i \in 1 .. k : a[i] = b[i]
    BY <1>1, <1>2, <2>3, <2>4
  <2>6. a = b
    BY <2>3, <2>4, <2>5
  <2> QED
    BY <2>1, <2>2, <2>6
<1> QED
  BY <1>1, <1>2, <1>3, <1>8, <1>9, Zenon DEF Line, TrimRight, E

\* Where a text is cut.
LEMMA EndsWithLF ==
    ASSUME NEW A, NEW s \in Seq(A), NEW c \in A
    PROVE  EndsWith(Append(s, c), <<LF>>) <=> c = LF
<1>1. PICK n, t : /\ n \in Nat /\ n = Len(s) /\ t = Append(s, c)
                  /\ Len(t) = n + 1 /\ t[n + 1] = c
  <2>1. /\ Len(s) \in Nat /\ Len(Append(s, c)) = Len(s) + 1
        /\ Append(s, c)[Len(s) + 1] = c
    OBVIOUS
  <2> QED
    BY <2>1, Zenon
<1>2. PICK sep : sep = <<LF>> /\ Len(sep) = 1 /\ sep[1] = LF
  <2>1. Len(<<LF>>) = 1 /\ <<LF>>[1] = LF
    OBVIOUS
  <2> QED
    BY <2>1, Zenon
<1>3. n + 1 - 1 + 1 = n + 1 /\ 1 <= n + 1
  BY <1>1
<1>4. 1 .. 1 = {1}
  OBVIOUS
<1>5. EndsWith(t, sep) <=> t[n + 1] = LF
  BY <1>1, <1>2, <1>3, <1>4 DEF EndsWith
<1> QED
  BY <1>1, <1>2, <1>5

LEMMA EndsWithCRLF ==
    ASSUME NEW A, NEW s \in Seq(A), NEW c \in A
    PROVE  EndsWith(Append(s, c), <<CR, LF>>) <=> c = LF /\ EndsCR(s)
<1>1. PICK n, t :
          /\ n \in Nat /\ n = Len(s) /\ t = Append(s, c) /\ Len(t) = n + 1 /\ t[n + 1] = c
          /\ \A i \in 1 .. n : t[i] = s[i]
  <2>1. /\ Len(s) \in Nat /\ Len(Append(s, c)) = Len(s) + 1
        /\ Append(s, c)[Len(s) + 1] = c
    OBVIOUS
  <2>2. \A i \in 1 .. Len(s) : Append(s, c)[i] = s[i]
    OBVIOUS
  <2> QED
    BY <2>1, <2>2, Zenon
<1>2. PICK sep : sep = <<CR, LF>> /\ Len(sep) = 2 /\ sep[1] = CR /\ sep[2] = LF
  <2>1. Len(<<CR, LF>>) = 2 /\ <<CR, LF>>[1] = CR /\ <<CR, LF>>[2] = LF
    OBVIOUS
  <2> QED
    BY <2>1, Zenon
<1>3. n + 1 - 2 + 1 = n /\ n + 1 - 2 + 2 = n + 1 /\ (2 <= n + 1 <=> n # 0)
  BY <1>1
<1>4. 1 .. 2 = {1, 2}
  OBVIOUS
<1>5. EndsWith(t, sep) <=> n # 0 /\ t[n] = CR /\ t[n + 1] = LF
  <2>1. EndsWith(t, sep) <=> 2 <= n + 1 /\ \A i \in 1 .. 2 : t[n + 1 - 2 + i] = sep[i]
    BY <1>1, <1>2 DEF EndsWith
  <2>2. (\A i \in 1 .. 2 : t[n + 1 - 2 + i] = sep[i])
            <=> t[n + 1 - 2 + 1] = sep[1] /\ t[n + 1 - 2 + 2] = sep[2]
    BY <1>4, Zenon
  <2> QED
    BY <1>2, <1>3, <2>1, <2>2, Zenon
<1>6. EndsCR(s) <=> n # 0 /\ s[n] = CR
  BY <1>1 DEF EndsCR
<1>7. n # 0 => t[n] = s[n]
  BY <1>1
<1> QED
  BY <1>1, <1>2, <1>5, <1>6, <1>7

\* A cut at the end of a piece, and inside one.
CutAt(r, ps, x) == r.pieces = ps /\ r.rest = x

LEMMA CutEnds ==
    ASSUME NEW A, NEW r \in CutStates(A), NEW c \in A, NEW sep, NEW ps, NEW x,
           CutAt(r, ps, x), EndsWith(Append(x, c), sep)
    PROVE  /\ CutChar(sep, r, c) \in CutStates(A)
           /\ CutAt(CutChar(sep, r, c), Append(ps, Append(x, c)), <<>>)
<1>1. r.pieces = ps /\ r.rest = x
  BY DEF CutAt
<1>2. EndsWith(Append(r.rest, c), sep)
  BY <1>1
<1>3. /\ CutChar(sep, r, c) \in CutStates(A)
      /\ CutChar(sep, r, c).pieces = Append(r.pieces, Append(r.rest, c))
      /\ CutChar(sep, r, c).rest = <<>>
  BY <1>2, CutIs
<1> QED
  BY <1>1, <1>3, Zenon DEF CutAt

LEMMA CutGoesOn ==
    ASSUME NEW A, NEW r \in CutStates(A), NEW c \in A, NEW sep, NEW ps, NEW x,
           CutAt(r, ps, x), ~EndsWith(Append(x, c), sep)
    PROVE  /\ CutChar(sep, r, c) \in CutStates(A)
           /\ CutAt(CutChar(sep, r, c), ps, Append(x, c))
<1>1. r.pieces = ps /\ r.rest = x
  BY DEF CutAt
<1>2. ~EndsWith(Append(r.rest, c), sep)
  BY <1>1
<1>3. /\ CutChar(sep, r, c) \in CutStates(A)
      /\ CutChar(sep, r, c).pieces = r.pieces
      /\ CutChar(sep, r, c).rest = Append(r.rest, c)
  BY <1>2, CutIs
<1> QED
  BY <1>1, <1>3, Zenon DEF CutAt

\* Pieces that are the same lines, and lines without LF.
SameLines(ps, qs) ==
    /\ Len(ps) = Len(qs)
    /\ \A k \in 1 .. Len(ps) : Line(ps[k]) = Line(qs[k]) /\ NoLF(Line(ps[k]))

LEMMA SameLinesAppend ==
    ASSUME NEW A, NEW ps \in Seq(Seq(A)), NEW qs \in Seq(Seq(A)), SameLines(ps, qs),
           NEW x \in Seq(A), NEW y \in Seq(A), Line(x) = Line(y), NoLF(Line(x))
    PROVE  SameLines(Append(ps, x), Append(qs, y))
<1>1. PICK n \in Nat : n = Len(ps) /\ n = Len(qs)
  BY DEF SameLines
<1>2. PICK u : /\ u = Append(ps, x) /\ Len(u) = n + 1 /\ u[n + 1] = x
               /\ \A i \in 1 .. n : u[i] = ps[i]
  <2>1. Len(Append(ps, x)) = Len(ps) + 1 /\ Append(ps, x)[Len(ps) + 1] = x
    OBVIOUS
  <2>2. \A i \in 1 .. Len(ps) : Append(ps, x)[i] = ps[i]
    OBVIOUS
  <2> QED
    BY <1>1, <2>1, <2>2, Zenon
<1>3. PICK v : /\ v = Append(qs, y) /\ Len(v) = n + 1 /\ v[n + 1] = y
               /\ \A i \in 1 .. n : v[i] = qs[i]
  <2>1. Len(Append(qs, y)) = Len(qs) + 1 /\ Append(qs, y)[Len(qs) + 1] = y
    OBVIOUS
  <2>2. \A i \in 1 .. Len(qs) : Append(qs, y)[i] = qs[i]
    OBVIOUS
  <2> QED
    BY <1>1, <2>1, <2>2, Zenon
<1>4. ASSUME NEW k \in 1 .. n + 1 PROVE Line(u[k]) = Line(v[k]) /\ NoLF(Line(u[k]))
  <2>1. CASE k = n + 1
    BY <1>2, <1>3, <2>1
  <2>2. CASE k # n + 1
    <3>1. k \in 1 .. n
      BY <2>2
    <3>2. Line(ps[k]) = Line(qs[k]) /\ NoLF(Line(ps[k]))
      BY <1>1, <3>1 DEF SameLines
    <3>3. u[k] = ps[k] /\ v[k] = qs[k]
      BY <1>2, <1>3, <3>1
    <3> QED
      BY <3>2, <3>3
  <2> QED
    BY <2>1, <2>2
<1>5. SameLines(u, v)
  BY <1>2, <1>3, <1>4 DEF SameLines
<1> QED
  BY <1>2, <1>3, <1>5

\* Two texts cut so far into the same lines.
SameCut(A, r, q) ==
    /\ r \in CutStates(A) /\ q \in CutStates(A)
    /\ \E ps \in Seq(Seq(A)), qs \in Seq(Seq(A)), x \in Seq(A) :
          /\ CutAt(r, ps, x) /\ CutAt(q, qs, x)
          /\ NoLF(x) /\ SameLines(ps, qs)

LEMMA NoLFAppend ==
    ASSUME NEW A, NEW s \in Seq(A), NEW c \in A, NoLF(s), c # LF
    PROVE  NoLF(Append(s, c))
<1>1. Len(Append(s, c)) = Len(s) + 1 /\ Append(s, c)[Len(s) + 1] = c
  OBVIOUS
<1>2. \A i \in 1 .. Len(s) : Append(s, c)[i] = s[i]
  OBVIOUS
<1>3. \A i \in 1 .. Len(s) + 1 : i = Len(s) + 1 \/ i \in 1 .. Len(s)
  OBVIOUS
<1> QED
  BY <1>1, <1>2, <1>3, Zenon DEF NoLF

LEMMA SameCutStep ==
    ASSUME NEW A, NEW r, NEW q, SameCut(A, r, q), NEW c \in A
    PROVE  SameCut(A, CutChar(<<LF>>, r, c), CutChar(<<LF>>, q, c))
<1>1. PICK ps \in Seq(Seq(A)), qs \in Seq(Seq(A)), x \in Seq(A) :
          /\ r \in CutStates(A) /\ q \in CutStates(A)
          /\ CutAt(r, ps, x) /\ CutAt(q, qs, x) /\ NoLF(x) /\ SameLines(ps, qs)
  BY DEF SameCut
<1>2. PICK y \in Seq(A) : y = Append(x, c)
  <2>1. Append(x, c) \in Seq(A)
    OBVIOUS
  <2> QED
    BY <2>1, Zenon
<1>3. PICK sep : sep = <<LF>>
  OBVIOUS
<1>4. CASE c = LF
  <2>1. EndsWith(Append(x, c), sep)
    BY <1>3, <1>4, EndsWithLF
  <2>2. /\ CutChar(sep, r, c) \in CutStates(A)
        /\ CutAt(CutChar(sep, r, c), Append(ps, y), <<>>)
    BY <1>1, <1>2, <2>1, CutEnds
  <2>3. /\ CutChar(sep, q, c) \in CutStates(A)
        /\ CutAt(CutChar(sep, q, c), Append(qs, y), <<>>)
    BY <1>1, <1>2, <2>1, CutEnds
  <2>4. NoLF(Line(y))
    <3>1. Line(y) = Line(x)
      BY <1>2, <1>4, LineAppend
    <3> QED
      BY <1>1, <3>1, LineType
  <2>5. SameLines(Append(ps, y), Append(qs, y))
    BY <1>1, <2>4, SameLinesAppend
  <2>6. NoLF(<<>>)
    BY DEF NoLF
  <2>7. /\ Append(ps, y) \in Seq(Seq(A)) /\ Append(qs, y) \in Seq(Seq(A))
        /\ <<>> \in Seq(A)
    OBVIOUS
  <2>8. SameCut(A, CutChar(sep, r, c), CutChar(sep, q, c))
    BY <2>2, <2>3, <2>5, <2>6, <2>7, Zenon DEF SameCut
  <2> QED
    BY <1>3, <2>8
<1>5. CASE c # LF
  <2>1. ~EndsWith(Append(x, c), sep)
    BY <1>3, <1>5, EndsWithLF
  <2>2. /\ CutChar(sep, r, c) \in CutStates(A)
        /\ CutAt(CutChar(sep, r, c), ps, y)
    BY <1>1, <1>2, <2>1, CutGoesOn
  <2>3. /\ CutChar(sep, q, c) \in CutStates(A)
        /\ CutAt(CutChar(sep, q, c), qs, y)
    BY <1>1, <1>2, <2>1, CutGoesOn
  <2>4. NoLF(y)
    BY <1>1, <1>2, <1>5, NoLFAppend
  <2>5. SameCut(A, CutChar(sep, r, c), CutChar(sep, q, c))
    BY <1>1, <2>2, <2>3, <2>4, Zenon DEF SameCut
  <2> QED
    BY <1>3, <2>5
<1> QED
  BY <1>4, <1>5

\* The CR that normaliseLineEndings inserts does not change the line.
LEMMA SameCutBareLF ==
    ASSUME NEW A, CR \in A, LF \in A, NEW r, NEW q, SameCut(A, r, q)
    PROVE  SameCut(A, CutChar(<<LF>>, r, LF),
                      CutChar(<<LF>>, CutChar(<<LF>>, q, CR), LF))
<1>1. PICK ps \in Seq(Seq(A)), qs \in Seq(Seq(A)), x \in Seq(A) :
          /\ r \in CutStates(A) /\ q \in CutStates(A)
          /\ CutAt(r, ps, x) /\ CutAt(q, qs, x) /\ NoLF(x) /\ SameLines(ps, qs)
  BY DEF SameCut
<1>2. PICK y \in Seq(A) : y = Append(x, LF)
  <2>1. Append(x, LF) \in Seq(A)
    OBVIOUS
  <2> QED
    BY <2>1, Zenon
<1>3. PICK z \in Seq(A) : z = Append(x, CR)
  <2>1. Append(x, CR) \in Seq(A)
    OBVIOUS
  <2> QED
    BY <2>1, Zenon
<1>4. PICK u \in Seq(A) : u = Append(z, LF)
  <2>1. Append(z, LF) \in Seq(A)
    OBVIOUS
  <2> QED
    BY <2>1, Zenon
<1>5. PICK sep : sep = <<LF>>
  OBVIOUS
<1>6. CR # LF
  BY DEF CR, LF
<1>7. EndsWith(Append(x, LF), sep) /\ EndsWith(Append(z, LF), sep)
  BY <1>5, EndsWithLF
<1>8. ~EndsWith(Append(x, CR), sep)
  BY <1>5, <1>6, EndsWithLF
<1>9. PICK q1 \in CutStates(A) : q1 = CutChar(sep, q, CR) /\ CutAt(q1, qs, z)
  BY <1>1, <1>3, <1>8, CutGoesOn
<1>10. /\ CutChar(sep, r, LF) \in CutStates(A)
       /\ CutAt(CutChar(sep, r, LF), Append(ps, y), <<>>)
  BY <1>1, <1>2, <1>7, CutEnds
<1>11. /\ CutChar(sep, q1, LF) \in CutStates(A)
       /\ CutAt(CutChar(sep, q1, LF), Append(qs, u), <<>>)
  BY <1>4, <1>7, <1>9, CutEnds
<1>12. Line(y) = Line(x) /\ Line(u) = Line(z) /\ Line(z) = Line(x)
  BY <1>2, <1>3, <1>4, LineAppend
<1>13. NoLF(Line(y)) /\ Line(y) = Line(u)
  BY <1>1, <1>12, LineType
<1>14. SameLines(Append(ps, y), Append(qs, u))
  BY <1>1, <1>13, SameLinesAppend
<1>15. NoLF(<<>>)
  BY DEF NoLF
<1>16. /\ Append(ps, y) \in Seq(Seq(A)) /\ Append(qs, u) \in Seq(Seq(A))
       /\ <<>> \in Seq(A)
  OBVIOUS
<1>17. SameCut(A, CutChar(sep, r, LF), CutChar(sep, q1, LF))
  BY <1>10, <1>11, <1>14, <1>15, <1>16, Zenon DEF SameCut
<1> QED
  BY <1>5, <1>9, <1>17

\* The lines of pieces.
LinesIn(ls) == [k \in DOMAIN ls |-> Line(ls[k])]

\* What ReadString returns, as a line without LF.
Readable(A) == {x \in Seq(A) : NoLF(Line(x))}

LEMMA SameLinesIn ==
    ASSUME NEW A, NEW ps \in Seq(Seq(A)), NEW qs \in Seq(Seq(A)), SameLines(ps, qs)
    PROVE  LinesIn(ps) = LinesIn(qs) /\ qs \in Seq(Readable(A))
<1>1. PICK n \in Nat : /\ n = Len(ps) /\ n = Len(qs)
                       /\ DOMAIN ps = 1 .. n /\ DOMAIN qs = 1 .. n
  BY DEF SameLines
<1>2. \A k \in 1 .. n : Line(ps[k]) = Line(qs[k]) /\ NoLF(Line(qs[k]))
  <2> SUFFICES ASSUME NEW k \in 1 .. n
               PROVE  Line(ps[k]) = Line(qs[k]) /\ NoLF(Line(qs[k]))
    OBVIOUS
  <2>1. Line(ps[k]) = Line(qs[k]) /\ NoLF(Line(ps[k]))
    BY <1>1 DEF SameLines
  <2> QED
    BY <2>1, Zenon
<1>3. LinesIn(ps) = LinesIn(qs)
  BY <1>1, <1>2 DEF LinesIn
<1>4. \A k \in 1 .. n : qs[k] \in Readable(A)
  <2> SUFFICES ASSUME NEW k \in 1 .. n PROVE qs[k] \in Readable(A)
    OBVIOUS
  <2>1. qs[k] \in Seq(A)
    BY <1>1
  <2> QED
    BY <1>2, <2>1 DEF Readable
<1>5. qs \in Seq(Readable(A))
  BY <1>1, <1>4
<1> QED
  BY <1>3, <1>5

LEMMA NormalCut ==
    ASSUME NEW A, CR \in A, LF \in A, NEW s \in Seq(A)
    PROVE  SameCut(A, Cut(s, <<LF>>), Cut(normaliseLineEndings(s), <<LF>>))
<1> DEFINE P(x) == SameCut(A, Cut(x, <<LF>>), Cut(normaliseLineEndings(x), <<LF>>))
           T == {x \in Seq(A) : P(x)}
<1>1. P(<<>>)
  <2>1. Cut(<<>>, <<LF>>) = CutStart /\ normaliseLineEndings(<<>>) = <<>>
    BY CutEmpty, NormalEmpty
  <2>2. CutStart \in CutStates(A) /\ CutAt(CutStart, <<>>, <<>>)
    BY DEF CutStart, CutStates, CutAt
  <2>3. SameLines(<<>>, <<>>)
    BY DEF SameLines
  <2>4. NoLF(<<>>)
    BY DEF NoLF
  <2>5. <<>> \in Seq(Seq(A)) /\ <<>> \in Seq(A)
    OBVIOUS
  <2>6. SameCut(A, CutStart, CutStart)
    BY <2>2, <2>3, <2>4, <2>5, Zenon DEF SameCut
  <2> QED
    BY <2>1, <2>6
<1>2. ASSUME NEW x \in Seq(A), P(x), NEW c \in A PROVE P(Append(x, c))
  <2>1. PICK b \in Seq(A) : b = normaliseLineEndings(x)
    BY NormalAppend
  <2>2. PICK sep : sep = <<LF>>
    OBVIOUS
  <2>3. PICK r : r = Cut(x, sep)
    OBVIOUS
  <2>4. PICK q : q = Cut(b, sep)
    OBVIOUS
  <2>5. SameCut(A, r, q)
    BY <1>2, <2>1, <2>2, <2>3, <2>4
  <2>6. Cut(Append(x, c), sep) = CutChar(sep, r, c)
    BY <2>3, CutAppend
  <2>7. CASE c = LF /\ ~EndsCR(x)
    <3>1. normaliseLineEndings(Append(x, c)) = b \o <<CR, LF>>
      BY <2>1, <2>7, NormalAppend
    <3>2. PICK d \in Seq(A) : d = Append(b, CR)
      BY JoinOne
    <3>3. normaliseLineEndings(Append(x, c)) = Append(d, LF)
      BY <3>1, <3>2, JoinTwo
    <3>4. Cut(d, sep) = CutChar(sep, q, CR)
      BY <2>4, <3>2, CutAppend
    <3>5. Cut(Append(d, LF), sep) = CutChar(sep, CutChar(sep, q, CR), LF)
      BY <3>4, CutAppend
    <3>6. SameCut(A, CutChar(sep, r, LF), CutChar(sep, CutChar(sep, q, CR), LF))
      BY <2>2, <2>5, SameCutBareLF
    <3> QED
      BY <2>2, <2>6, <2>7, <3>3, <3>5, <3>6, Zenon
  <2>8. CASE ~(c = LF /\ ~EndsCR(x))
    <3>1. normaliseLineEndings(Append(x, c)) = b \o <<c>>
      BY <2>1, <2>8, NormalAppend
    <3>2. normaliseLineEndings(Append(x, c)) = Append(b, c)
      BY <3>1, JoinOne
    <3>3. Cut(Append(b, c), sep) = CutChar(sep, q, c)
      BY <2>4, CutAppend
    <3>4. SameCut(A, CutChar(sep, r, c), CutChar(sep, q, c))
      BY <2>2, <2>5, SameCutStep
    <3> QED
      BY <2>2, <2>6, <3>2, <3>3, <3>4, Zenon
  <2> QED
    BY <2>7, <2>8
<1> HIDE DEF P
<1>3. T \in SUBSET Seq(A) /\ <<>> \in T
  BY <1>1
<1>4. Closed(T, A)
  <2>1. ASSUME NEW x \in T, NEW c \in A PROVE Append(x, c) \in T
    <3>1. Append(x, c) \in Seq(A)
      OBVIOUS
    <3> QED
      BY <1>2, <3>1
  <2> HIDE DEF T
  <2> QED
    BY <2>1 DEF Closed
<1> HIDE DEF T
<1>5. T = Seq(A)
  BY <1>3, <1>4, SeqInduction
<1>6. P(s)
  BY <1>5 DEF T
<1> QED
  BY <1>6 DEF P

LEMMA LinesAre ==
    ASSUME NEW s, NEW ps, NEW x, CutAt(Cut(s, <<LF>>), ps, x)
    PROVE  Lines(s) = IF x = <<>> THEN ps ELSE Append(ps, x)
  BY DEF Lines, CutAt

\* Normalising changes no line, and no line contains an LF.
LEMMA NormalLines ==
    ASSUME NEW A, CR \in A, LF \in A, NEW s \in Seq(A)
    PROVE  LET ls == Lines(normaliseLineEndings(s))
           IN  ls \in Seq(Readable(A)) /\ Trimmed(s) = LinesIn(ls)
<1>1. PICK b : b = normaliseLineEndings(s)
  OBVIOUS
<1>2. SameCut(A, Cut(s, <<LF>>), Cut(b, <<LF>>))
  BY <1>1, NormalCut
<1>3. PICK ps \in Seq(Seq(A)), qs \in Seq(Seq(A)), x \in Seq(A) :
          /\ CutAt(Cut(s, <<LF>>), ps, x) /\ CutAt(Cut(b, <<LF>>), qs, x)
          /\ NoLF(x) /\ SameLines(ps, qs)
  BY <1>2, Zenon DEF SameCut
<1>4. PICK us \in Seq(Seq(A)), vs \in Seq(Seq(A)) :
          us = Lines(s) /\ vs = Lines(b) /\ SameLines(us, vs)
  <2>1. CASE x = <<>>
    BY <1>3, <2>1, LinesAre
  <2>2. CASE x # <<>>
    <3>1. Lines(s) = Append(ps, x) /\ Lines(b) = Append(qs, x)
      BY <1>3, <2>2, LinesAre
    <3>2. NoLF(Line(x))
      BY <1>3, LineType
    <3>3. SameLines(Append(ps, x), Append(qs, x))
      BY <1>3, <3>2, SameLinesAppend
    <3>4. Append(ps, x) \in Seq(Seq(A)) /\ Append(qs, x) \in Seq(Seq(A))
      OBVIOUS
    <3> QED
      BY <3>1, <3>3, <3>4, Zenon
  <2> QED
    BY <2>1, <2>2
<1>5. LinesIn(us) = LinesIn(vs) /\ vs \in Seq(Readable(A))
  BY <1>4, SameLinesIn
<1>6. Trimmed(s) = LinesIn(us)
  BY <1>4 DEF Trimmed, LinesIn, Line
<1> QED
  BY <1>1, <1>4, <1>5, <1>6, Zenon

-----------------------------------------------------------------------------
(* What POP3 sends *)

WriteStart(m) == [headerDone |-> m < 0, emitted |-> 0, stop |-> FALSE, out |-> <<>>]
WriteStates(A) == [headerDone : BOOLEAN, emitted : Nat, stop : BOOLEAN, out : Seq(A)]
Wired(A) == CR \in A /\ LF \in A /\ Dot \in A

LEMMA StuffedType ==
    ASSUME NEW A, Wired(A), NEW t \in Seq(A)
    PROVE  /\ Stuffed(t) \in Seq(A) /\ (NoLF(t) => NoLF(Stuffed(t)))
           /\ Stuffed(t) \o <<CR, LF>> \in Seq(A)
           /\ (t # <<>> /\ t[1] = Dot) => Stuffed(t) = <<Dot>> \o t
           /\ ~(t # <<>> /\ t[1] = Dot) => Stuffed(t) = t
<1>1. PICK e \in Seq(A) : e = <<CR, LF>>
  <2>1. <<CR, LF>> \in Seq(A)
    BY DEF Wired
  <2> QED
    BY <2>1, Zenon
<1>2. CASE t # <<>> /\ t[1] = Dot
  <2>1. PICK d \in Seq(A) : d = <<Dot>> /\ Len(d) = 1 /\ d[1] = Dot
    <3>1. <<Dot>> \in Seq(A) /\ Len(<<Dot>>) = 1 /\ <<Dot>>[1] = Dot
      BY DEF Wired
    <3> QED
      BY <3>1, Zenon
  <2>2. Stuffed(t) = d \o t
    BY <1>2, <2>1 DEF Stuffed
  <2>3. PICK u \in Seq(A) : u = d \o t
    <3>1. d \o t \in Seq(A)
      OBVIOUS
    <3> QED
      BY <3>1, Zenon
  <2>4. Len(u) = Len(t) + 1 /\ u[1] = Dot
    BY <2>1, <2>3
  <2>5. \A i \in 1 .. Len(t) : u[i + 1] = t[i]
    BY <2>1, <2>3
  <2>6. NoLF(t) => NoLF(u)
    <3> SUFFICES ASSUME NoLF(t), NEW i \in 1 .. Len(u) PROVE u[i] # LF
      BY DEF NoLF
    <3>1. CASE i = 1
      BY <2>4, <3>1 DEF Dot, LF
    <3>2. CASE i # 1
      <4>1. i - 1 \in 1 .. Len(t) /\ i - 1 + 1 = i
        BY <2>4, <3>2
      <4>2. u[i] = t[i - 1]
        BY <2>5, <4>1
      <4> QED
        BY <4>1, <4>2 DEF NoLF
    <3> QED
      BY <3>1, <3>2
  <2>7. u \o e \in Seq(A)
    OBVIOUS
  <2> QED
    BY <1>1, <1>2, <2>1, <2>2, <2>3, <2>6, <2>7, Zenon
<1>3. CASE ~(t # <<>> /\ t[1] = Dot)
  <2>1. Stuffed(t) = t
    BY <1>3 DEF Stuffed
  <2>2. t \o e \in Seq(A)
    OBVIOUS
  <2> QED
    BY <1>1, <1>3, <2>1, <2>2, Zenon
<1> QED
  BY <1>2, <1>3

\* A round of the loop that stops it, and one that writes a line.
Stops(m, w) == w.stop = TRUE \/ (w.headerDone = TRUE /\ m >= 0 /\ w.emitted >= m)

Stopped(w, v) ==
    /\ v.stop = TRUE /\ v.out = w.out
    /\ v.headerDone = w.headerDone /\ v.emitted = w.emitted

LEMMA WriteStops ==
    ASSUME NEW A, NEW m \in Int, NEW w \in WriteStates(A), NEW l \in Seq(A), Stops(m, w)
    PROVE  /\ WriteLine(m, w, l) \in WriteStates(A)
           /\ Stopped(w, WriteLine(m, w, l))
<1>1. WriteLine(m, w, l) = [w EXCEPT !.stop = TRUE]
  BY DEF WriteLine, Stops, WriteStates
<1>2. PICK v : v = [w EXCEPT !.stop = TRUE]
  OBVIOUS
<1>3. v \in WriteStates(A) /\ Stopped(w, v)
  BY <1>2 DEF WriteStates, Stopped
<1> QED
  BY <1>1, <1>2, <1>3

Wrote(m, w, t, v) ==
    /\ v.stop = FALSE
    /\ v.out = w.out \o Stuffed(t) \o <<CR, LF>>
    /\ v.headerDone = TRUE <=> w.headerDone = TRUE \/ t = <<>>
    /\ (w.headerDone = TRUE /\ m >= 0) => v.emitted = w.emitted + 1
    /\ ~(w.headerDone = TRUE /\ m >= 0) => v.emitted = w.emitted

LEMMA WriteWrites ==
    ASSUME NEW A, Wired(A), NEW m \in Int, NEW w \in WriteStates(A), NEW l \in Seq(A),
           ~Stops(m, w)
    PROVE  /\ WriteLine(m, w, l) \in WriteStates(A)
           /\ Wrote(m, w, Line(l), WriteLine(m, w, l))
<1>1. PICK t \in Seq(A) : t = Line(l)
  BY LineType
<1>2. PICK o : o = w.out \o Stuffed(t) \o <<CR, LF>>
  OBVIOUS
<1>3. o \in Seq(A)
  <2>1. w.out \in Seq(A) /\ Stuffed(t) \in Seq(A) /\ <<CR, LF>> \in Seq(A)
    <3>1. <<CR, LF>> \in Seq(A)
      BY DEF Wired
    <3> QED
      BY <3>1, StuffedType DEF WriteStates
  <2>2. PICK a \in Seq(A), b \in Seq(A), c \in Seq(A) :
            a = w.out /\ b = Stuffed(t) /\ c = <<CR, LF>>
    BY <2>1, Zenon
  <2>3. a \o b \o c \in Seq(A)
    OBVIOUS
  <2> QED
    BY <1>2, <2>2, <2>3
<1>4. PICK h \in BOOLEAN : h = TRUE <=> w.headerDone = TRUE \/ t = <<>>
  OBVIOUS
<1>5. PICK e \in Nat : e = IF w.headerDone = TRUE /\ m >= 0 THEN w.emitted + 1 ELSE w.emitted
  BY DEF WriteStates
<1>6. w.headerDone \in BOOLEAN /\ w.stop = FALSE /\ w.emitted \in Nat
  BY DEF WriteStates, Stops
<1>7. PICK v : v = [w EXCEPT !.headerDone = h, !.emitted = e, !.out = o]
  OBVIOUS
<1>8. WriteLine(m, w, l) = v
  <2>1. ~(w.stop \/ (w.headerDone /\ m >= 0 /\ w.emitted >= m))
    BY <1>6 DEF Stops
  <2>2. (w.headerDone \/ (~w.headerDone /\ t = <<>>)) = h
    BY <1>4, <1>6
  <2>3. (IF w.headerDone /\ m >= 0 THEN w.emitted + 1 ELSE w.emitted) = e
    BY <1>5, <1>6
  <2>4. TrimRight(l, {CR, LF}) = t
    BY <1>1 DEF Line
  <2>5. WriteLine(m, w, l) =
          [w EXCEPT !.headerDone = w.headerDone \/ (~w.headerDone /\ t = <<>>),
                    !.emitted = IF w.headerDone /\ m >= 0 THEN w.emitted + 1 ELSE w.emitted,
                    !.out = w.out \o Stuffed(t) \o <<CR, LF>>]
    BY <2>1, <2>4 DEF WriteLine
  <2> QED
    BY <1>2, <1>7, <2>2, <2>3, <2>5
<1>9. /\ v \in WriteStates(A) /\ v.stop = FALSE /\ v.out = o
      /\ v.headerDone = h /\ v.emitted = e
  <2>1. v = [headerDone |-> h, emitted |-> e, stop |-> w.stop, out |-> o]
    BY <1>7 DEF WriteStates
  <2> QED
    BY <1>3, <1>6, <2>1 DEF WriteStates
<1>10. Wrote(m, w, t, v)
  BY <1>2, <1>4, <1>5, <1>9 DEF Wrote
<1> QED
  BY <1>1, <1>8, <1>9, <1>10

LEMMA WriteType ==
    ASSUME NEW A, Wired(A), NEW m \in Int, NEW w \in WriteStates(A), NEW l \in Seq(A)
    PROVE  WriteLine(m, w, l) \in WriteStates(A)
  BY WriteStops, WriteWrites

\* The loop of writeDotted, and the recursive function behind it.
Write(ls, m) ==
    FoldLeft(LAMBDA w, line : WriteLine(m, w, line),
             [headerDone |-> m < 0, emitted |-> 0, stop |-> FALSE, out |-> <<>>], ls)

IsWrite(it, ls, m) ==
    it = [S \in SUBSET (1 .. Len(ls)) |->
             IF S = {}
             THEN [headerDone |-> m < 0, emitted |-> 0, stop |-> FALSE, out |-> <<>>]
             ELSE WriteLine(m, it[S \ {Max(S)}], ls[Max(S)])]

LEMMA WriteExists ==
    ASSUME NEW A, Wired(A), NEW ls \in Seq(Seq(A)), NEW m \in Int
    PROVE  \E it : IsWrite(it, ls, m)
<1> DEFINE n == Len(ls)
           V == WriteStates(A)
           g == [x \in V \X (1 .. n) |-> WriteLine(m, x[1], ls[x[2]])]
<1>1. n \in Nat /\ WriteStart(m) \in V
  BY DEF WriteStart, WriteStates
<1>2. ASSUME NEW w \in V, NEW i \in 1 .. n
      PROVE  WriteLine(m, w, ls[i]) \in V
  <2>1. ls[i] \in Seq(A)
    OBVIOUS
  <2> QED
    BY <2>1, WriteType
<1>3. g \in [V \X (1 .. n) -> V]
  <2> HIDE DEF V
  <2> QED
    BY <1>2
<1>4. PICK it \in [SUBSET (1 .. n) -> V] : IsFold(it, n, WriteStart(m), g)
  <2> HIDE DEF n, V, g
  <2> QED
    BY <1>1, <1>3, FoldExists
<1>5. ASSUME NEW S \in SUBSET (1 .. n)
      PROVE  it[S] = IF S = {} THEN WriteStart(m)
                     ELSE WriteLine(m, it[S \ {Max(S)}], ls[Max(S)])
  <2>1. CASE S = {}
    BY <1>4, <2>1 DEF IsFold
  <2>2. CASE S # {}
    <3>1. Max(S) \in S
      BY <1>1, <2>2, MaxOfPositions
    <3>2. <<it[S \ {Max(S)}], Max(S)>> \in V \X (1 .. n)
      <4> HIDE DEF V
      <4> QED
        BY <3>1
    <3>3. it[S] = g[<<it[S \ {Max(S)}], Max(S)>>]
      BY <1>4, <2>2 DEF IsFold
    <3> HIDE DEF V
    <3> QED
      BY <2>2, <3>2, <3>3
  <2> QED
    BY <2>1, <2>2
<1>6. it = [S \in SUBSET (1 .. n) |->
              IF S = {} THEN WriteStart(m)
              ELSE WriteLine(m, it[S \ {Max(S)}], ls[Max(S)])]
  <2> HIDE DEF V, g, n
  <2> QED
    BY <1>5
<1>7. IsWrite(it, ls, m)
  BY <1>6 DEF IsWrite, WriteStart
<1> QED
  BY <1>7

WriteRun(p, ls, m) ==
    /\ p[0] = WriteStart(m)
    /\ \A i \in 1 .. Len(ls) : p[i] = WriteLine(m, p[i - 1], ls[i])

LEMMA WriteSteps ==
    ASSUME NEW A, Wired(A), NEW ls \in Seq(Seq(A)), NEW m \in Int
    PROVE  \E p : WriteRun(p, ls, m) /\ Write(ls, m) = p[Len(ls)]
<1>1. DOMAIN ls = 1 .. Len(ls) /\ Len(ls) \in Nat
  OBVIOUS
<1> DEFINE it == CHOOSE it : IsWrite(it, ls, m)
           p == [i \in 0 .. Len(ls) |-> it[1 .. i]]
<1>2. IsWrite(it, ls, m)
  BY WriteExists, Zenon
<1>3. Write(ls, m) = it[1 .. Len(ls)]
  BY <1>1, Zenon DEF Write, FoldLeft, MapThenFoldSet, IsWrite
<1> HIDE DEF it
<1>4. p[0] = WriteStart(m)
  <2>1. 1 .. 0 = {} /\ {} \in SUBSET (1 .. Len(ls)) /\ 0 \in 0 .. Len(ls)
    BY <1>1
  <2>2. it[{}] = WriteStart(m)
    BY <1>2, <2>1, Zenon DEF IsWrite, WriteStart
  <2> QED
    BY <2>1, <2>2
<1>5. ASSUME NEW i \in 1 .. Len(ls)
      PROVE  p[i] = WriteLine(m, p[i - 1], ls[i])
  <2>1. /\ 1 .. i \in SUBSET (1 .. Len(ls)) /\ 1 .. i # {}
        /\ Max(1 .. i) = i /\ (1 .. i) \ {i} = 1 .. i - 1
        /\ i \in 0 .. Len(ls) /\ i - 1 \in 0 .. Len(ls)
    BY <1>1, PositionsUpTo, Zenon
  <2>2. it[1 .. i] = WriteLine(m, it[(1 .. i) \ {Max(1 .. i)}], ls[Max(1 .. i)])
    BY <1>2, <2>1, Zenon DEF IsWrite
  <2>3. it[1 .. i] = WriteLine(m, it[1 .. i - 1], ls[i])
    BY <2>1, <2>2
  <2>4. p[i] = it[1 .. i] /\ p[i - 1] = it[1 .. i - 1]
    BY <2>1
  <2> QED
    BY <2>3, <2>4
<1>6. p[Len(ls)] = it[1 .. Len(ls)]
  BY <1>1
<1> HIDE DEF p
<1> QED
  BY <1>3, <1>4, <1>5, <1>6 DEF WriteRun

LEMMA WriteAppend ==
    ASSUME NEW A, Wired(A), NEW ls \in Seq(Seq(A)), NEW l \in Seq(A), NEW m \in Int
    PROVE  Write(Append(ls, l), m) = WriteLine(m, Write(ls, m), l)
<1>1. PICK n \in Nat, t \in Seq(Seq(A)) :
          /\ n = Len(ls) /\ t = Append(ls, l) /\ Len(t) = n + 1
          /\ t[n + 1] = l /\ \A i \in 1 .. n : t[i] = ls[i]
  <2>1. /\ Append(ls, l) \in Seq(Seq(A)) /\ Len(ls) \in Nat
        /\ Len(Append(ls, l)) = Len(ls) + 1
        /\ Append(ls, l)[Len(ls) + 1] = l
    OBVIOUS
  <2>2. \A i \in 1 .. Len(ls) : Append(ls, l)[i] = ls[i]
    OBVIOUS
  <2> QED
    BY <2>1, <2>2, Zenon
<1>2. PICK p : WriteRun(p, ls, m) /\ Write(ls, m) = p[n]
  BY <1>1, WriteSteps
<1>3. PICK q : WriteRun(q, t, m) /\ Write(t, m) = q[n + 1]
  BY <1>1, WriteSteps
<1>4. p[0] = q[0]
  BY <1>2, <1>3 DEF WriteRun
<1>5. Follows(p, q, n)
  <2>1. ASSUME NEW i \in 1 .. n, p[i - 1] = q[i - 1] PROVE p[i] = q[i]
    <3>1. i \in 1 .. Len(ls) /\ i \in 1 .. Len(t) /\ t[i] = ls[i]
      BY <1>1
    <3>2. p[i] = WriteLine(m, p[i - 1], ls[i])
      BY <1>2, <3>1 DEF WriteRun
    <3>3. q[i] = WriteLine(m, q[i - 1], t[i])
      BY <1>3, <3>1 DEF WriteRun
    <3> QED
      BY <2>1, <3>1, <3>2, <3>3
  <2> QED
    BY <2>1 DEF Follows
<1>6. p[n] = q[n]
  BY <1>4, <1>5, SameRun
<1>7. q[n + 1] = WriteLine(m, q[n], l)
  <2>1. PICK i \in 1 .. Len(t) : i = n + 1 /\ i - 1 = n
    BY <1>1
  <2>2. q[i] = WriteLine(m, q[i - 1], t[i])
    BY <1>3 DEF WriteRun
  <2> QED
    BY <1>1, <2>1, <2>2
<1> QED
  BY <1>1, <1>2, <1>3, <1>6, <1>7

LEMMA WriteEmpty ==
    ASSUME NEW A, Wired(A), NEW m \in Int
    PROVE  Write(<<>>, m) = WriteStart(m)
<1>1. <<>> \in Seq(Seq(A)) /\ Len(<<>>) = 0
  OBVIOUS
<1>2. PICK p : WriteRun(p, <<>>, m) /\ Write(<<>>, m) = p[0]
  BY <1>1, WriteSteps
<1> QED
  BY <1>2 DEF WriteRun

-----------------------------------------------------------------------------
\* The first blank line, and a header without one.
NoBlank(L) == \A k \in 1 .. Len(L) : L[k] # <<>>
FirstBlank(L, h) ==
    /\ h \in 1 .. Len(L) /\ L[h] = <<>>
    /\ \A k \in 1 .. h - 1 : L[k] # <<>>

\* Where the loop stands after the lines L, of which it has written S.
InHeader(m, L, w, S) ==
    m >= 0 /\ NoBlank(L) /\ w.headerDone = FALSE /\ w.emitted = 0 /\ w.stop = FALSE /\ S = L
InBody(m, L, w, S, h) ==
    /\ m >= 0 /\ FirstBlank(L, h) /\ w.headerDone = TRUE /\ w.stop = FALSE
    /\ w.emitted = Len(L) - h /\ w.emitted <= m /\ S = L
PastBody(m, L, w, S, h) ==
    /\ m >= 0 /\ FirstBlank(L, h) /\ w.headerDone = TRUE /\ w.stop = TRUE
    /\ w.emitted = m /\ Len(L) > h + m /\ S = SubSeq(L, 1, h + m)
Whole(m, L, w, S) == m < 0 /\ w.headerDone = TRUE /\ w.stop = FALSE /\ S = L

WriterAt(m, L, w, S) ==
    \/ Whole(m, L, w, S) \/ InHeader(m, L, w, S)
    \/ \E h \in Nat : InBody(m, L, w, S, h) \/ PastBody(m, L, w, S, h)

LEMMA BlankAppend ==
    ASSUME NEW A, NEW L \in Seq(Seq(A)), NEW t \in Seq(A)
    PROVE  /\ NoBlank(L) /\ t # <<>> => NoBlank(Append(L, t))
           /\ NoBlank(L) /\ t = <<>> => FirstBlank(Append(L, t), Len(L) + 1)
           /\ \A h \in Nat : FirstBlank(L, h) => FirstBlank(Append(L, t), h)
<1>1. PICK n, u : /\ n \in Nat /\ n = Len(L) /\ u = Append(L, t)
                  /\ Len(u) = n + 1 /\ u[n + 1] = t
                  /\ \A i \in 1 .. n : u[i] = L[i]
  <2>1. /\ Len(L) \in Nat /\ Len(Append(L, t)) = Len(L) + 1
        /\ Append(L, t)[Len(L) + 1] = t
    OBVIOUS
  <2>2. \A i \in 1 .. Len(L) : Append(L, t)[i] = L[i]
    OBVIOUS
  <2> QED
    BY <2>1, <2>2, Zenon
<1>2. \A i \in 1 .. n + 1 : i = n + 1 \/ i \in 1 .. n
  BY <1>1
<1>3. NoBlank(L) /\ t # <<>> => NoBlank(u)
  BY <1>1, <1>2, Zenon DEF NoBlank
<1>4. NoBlank(L) /\ t = <<>> => FirstBlank(u, n + 1)
  <2>1. n + 1 \in 1 .. n + 1 /\ n + 1 - 1 = n
    BY <1>1
  <2> QED
    BY <1>1, <2>1 DEF NoBlank, FirstBlank
<1>5. ASSUME NEW h \in Nat, FirstBlank(L, h) PROVE FirstBlank(u, h)
  <2>1. /\ h \in 1 .. n /\ L[h] = <<>> /\ \A k \in 1 .. h - 1 : L[k] # <<>>
    BY <1>1, <1>5 DEF FirstBlank
  <2>2. h \in 1 .. n + 1 /\ \A k \in 1 .. h - 1 : k \in 1 .. n
    BY <1>1, <2>1
  <2>3. u[h] = <<>> /\ \A k \in 1 .. h - 1 : u[k] # <<>>
    BY <1>1, <2>1, <2>2, Zenon
  <2> QED
    BY <1>1, <2>2, <2>3 DEF FirstBlank
<1> QED
  BY <1>1, <1>3, <1>4, <1>5

LEMMA FirstPart ==
    ASSUME NEW A, NEW L \in Seq(A), NEW t \in A, NEW k \in 0 .. Len(L)
    PROVE  SubSeq(Append(L, t), 1, k) = SubSeq(L, 1, k)
<1>1. PICK u \in Seq(A) : /\ u = Append(L, t) /\ Len(u) = Len(L) + 1
                          /\ \A i \in 1 .. Len(L) : u[i] = L[i]
  <2>1. /\ Append(L, t) \in Seq(A) /\ Len(Append(L, t)) = Len(L) + 1
    OBVIOUS
  <2>2. \A i \in 1 .. Len(L) : Append(L, t)[i] = L[i]
    OBVIOUS
  <2> QED
    BY <2>1, <2>2, Zenon
<1>2. PICK a : a = SubSeq(L, 1, k)
  OBVIOUS
<1>3. PICK b : b = SubSeq(u, 1, k)
  OBVIOUS
<1>4. a \in Seq(A) /\ Len(a) = k /\ \A i \in 1 .. k : a[i] = L[i]
  BY <1>2
<1>5. b \in Seq(A) /\ Len(b) = k /\ \A i \in 1 .. k : b[i] = u[i]
  BY <1>1, <1>3
<1>6. \A i \in 1 .. k : a[i] = b[i]
  BY <1>1, <1>4, <1>5
<1>7. a = b
  BY <1>4, <1>5, <1>6
<1> QED
  BY <1>1, <1>2, <1>3, <1>7

\* One round: the line is written, or it is not and none will be.
OneRound(m, L, w, S, t, v) ==
    \/ WriterAt(m, Append(L, t), v, S) /\ v.out = w.out
    \/ /\ WriterAt(m, Append(L, t), v, Append(S, t))
       /\ v.out = w.out \o Stuffed(t) \o <<CR, LF>>

LEMMA WriterStep ==
    ASSUME NEW A, Wired(A), NEW m \in Int, NEW w \in WriteStates(A),
           NEW L \in Seq(Seq(A)), NEW S, WriterAt(m, L, w, S), NEW l \in Seq(A)
    PROVE  OneRound(m, L, w, S, Line(l), WriteLine(m, w, l))
<1>1. PICK t \in Seq(A) : t = Line(l)
  BY LineType
<1>2. PICK v \in WriteStates(A) : v = WriteLine(m, w, l)
  BY WriteType
<1>3. PICK M, n : /\ n \in Nat /\ n = Len(L) /\ M = Append(L, t) /\ Len(M) = n + 1
  <2>1. Len(L) \in Nat /\ Len(Append(L, t)) = Len(L) + 1
    OBVIOUS
  <2> QED
    BY <2>1, Zenon
<1>4. ASSUME Stops(m, w)
      PROVE  /\ v.stop = TRUE /\ v.out = w.out
             /\ v.headerDone = w.headerDone /\ v.emitted = w.emitted
  <2>1. Stopped(w, v)
    BY <1>2, <1>4, WriteStops, Zenon
  <2> QED
    BY <2>1 DEF Stopped
<1>5. ASSUME ~Stops(m, w)
      PROVE  /\ v.stop = FALSE
             /\ v.out = w.out \o Stuffed(t) \o <<CR, LF>>
             /\ v.headerDone = TRUE <=> w.headerDone = TRUE \/ t = <<>>
             /\ (w.headerDone = TRUE /\ m >= 0) => v.emitted = w.emitted + 1
             /\ ~(w.headerDone = TRUE /\ m >= 0) => v.emitted = w.emitted
  <2>1. Wrote(m, w, t, v)
    BY <1>1, <1>2, <1>5, WriteWrites, Zenon
  <2> QED
    BY <2>1 DEF Wrote
<1>6. /\ w.headerDone \in BOOLEAN /\ w.stop \in BOOLEAN /\ w.emitted \in Nat
      /\ v.headerDone \in BOOLEAN /\ v.stop \in BOOLEAN /\ v.emitted \in Nat
  BY DEF WriteStates
<1> DEFINE Written1 == /\ WriterAt(m, M, v, Append(S, t))
                       /\ v.out = w.out \o Stuffed(t) \o <<CR, LF>>
           Left1 == WriterAt(m, M, v, S) /\ v.out = w.out
<1>7. ASSUME Whole(m, L, w, S) PROVE Left1 \/ Written1
  <2>1. ~Stops(m, w)
    BY <1>6, <1>7 DEF Whole, Stops
  <2>2. Whole(m, M, v, Append(S, t))
    BY <1>3, <1>5, <1>7, <2>1 DEF Whole
  <2> QED
    BY <1>1, <1>2, <1>3, <1>5, <2>1, <2>2, Zenon DEF WriterAt
<1>8. ASSUME InHeader(m, L, w, S) PROVE Left1 \/ Written1
  <2>1. ~Stops(m, w)
    BY <1>6, <1>8 DEF InHeader, Stops
  <2>2. v.emitted = 0
    BY <1>5, <1>8, <2>1 DEF InHeader
  <2>3. CASE t # <<>>
    <3>1. v.headerDone = FALSE
      BY <1>5, <1>6, <1>8, <2>1, <2>3 DEF InHeader
    <3>2. NoBlank(M)
      BY <1>3, <1>8, <2>3, BlankAppend DEF InHeader
    <3>3. InHeader(m, M, v, Append(S, t))
      BY <1>3, <1>5, <1>8, <2>1, <2>2, <3>1, <3>2 DEF InHeader
    <3> QED
      BY <1>1, <1>2, <1>3, <1>5, <2>1, <3>3, Zenon DEF WriterAt
  <2>4. CASE t = <<>>
    <3>1. v.headerDone = TRUE
      BY <1>5, <2>1, <2>4
    <3>2. FirstBlank(M, n + 1)
      BY <1>3, <1>8, <2>4, BlankAppend DEF InHeader
    <3>3. v.emitted = Len(M) - (n + 1) /\ v.emitted <= m /\ n + 1 \in Nat
      BY <1>3, <1>8, <2>2 DEF InHeader
    <3>4. InBody(m, M, v, Append(S, t), n + 1)
      BY <1>3, <1>5, <1>8, <2>1, <3>1, <3>2, <3>3 DEF InHeader, InBody
    <3> QED
      BY <1>1, <1>2, <1>3, <1>5, <2>1, <3>3, <3>4, Zenon DEF WriterAt
  <2> QED
    BY <2>3, <2>4
<1>9. ASSUME NEW h \in Nat, InBody(m, L, w, S, h)
      PROVE  Left1 \/ Written1
  <2>1. FirstBlank(M, h)
    BY <1>3, <1>9, BlankAppend DEF InBody
  <2>2. h \in 1 .. n /\ w.emitted = n - h /\ m >= 0 /\ w.emitted <= m
    BY <1>3, <1>9 DEF InBody, FirstBlank
  <2>3. CASE w.emitted >= m
    <3>1. Stops(m, w)
      BY <1>9, <2>3 DEF InBody, Stops
    <3>2. w.emitted = m /\ h + m = n /\ Len(M) > h + m
      BY <1>3, <1>6, <2>2, <2>3
    <3>3. S = SubSeq(M, 1, h + m)
      <4>1. S = L /\ SubSeq(L, 1, n) = L
        BY <1>3, <1>9 DEF InBody
      <4>2. n \in 0 .. Len(L)
        BY <1>3
      <4>3. SubSeq(M, 1, n) = SubSeq(L, 1, n)
        BY <1>3, <4>2, FirstPart
      <4> QED
        BY <3>2, <4>1, <4>3
    <3>4. PastBody(m, M, v, S, h)
      BY <1>4, <1>9, <2>1, <2>2, <3>1, <3>2, <3>3 DEF InBody, PastBody
    <3> QED
      BY <1>4, <3>1, <3>4, Zenon DEF WriterAt
  <2>4. CASE ~(w.emitted >= m)
    <3>1. ~Stops(m, w)
      BY <1>9, <2>4 DEF InBody, Stops
    <3>2. v.emitted = w.emitted + 1 /\ v.headerDone = TRUE /\ v.stop = FALSE
      BY <1>5, <1>9, <3>1 DEF InBody
    <3>3. v.emitted = Len(M) - h /\ v.emitted <= m
      BY <1>3, <1>6, <2>2, <2>4, <3>2
    <3>4. InBody(m, M, v, Append(S, t), h)
      BY <1>3, <1>9, <2>1, <2>2, <3>2, <3>3 DEF InBody
    <3> QED
      BY <1>5, <3>1, <3>4, Zenon DEF WriterAt
  <2> QED
    BY <2>3, <2>4
<1>10. ASSUME NEW h \in Nat, PastBody(m, L, w, S, h)
       PROVE  Left1
  <2>1. FirstBlank(M, h)
    BY <1>3, <1>10, BlankAppend DEF PastBody
  <2>2. Stops(m, w) /\ m >= 0 /\ n > h + m
    BY <1>3, <1>10 DEF PastBody, Stops
  <2>3. Len(M) > h + m /\ h + m \in 0 .. Len(L)
    BY <1>3, <2>2
  <2>4. SubSeq(M, 1, h + m) = SubSeq(L, 1, h + m)
    BY <1>3, <2>3, FirstPart
  <2>5. PastBody(m, M, v, S, h)
    BY <1>4, <1>10, <2>1, <2>2, <2>3, <2>4 DEF PastBody
  <2> QED
    BY <1>4, <2>2, <2>5, Zenon DEF WriterAt
<1>11. Left1 \/ Written1
  <2> HIDE DEF Left1, Written1
  <2> QED
    BY <1>7, <1>8, <1>9, <1>10, Zenon DEF WriterAt
<1> QED
  BY <1>1, <1>2, <1>3, <1>11, Zenon DEF OneRound

-----------------------------------------------------------------------------
(* What a POP3 client reads *)

LEMMA JoinAppend ==
    ASSUME NEW A, NEW o \in Seq(A), NEW x \in Seq(A), NEW c \in A
    PROVE  /\ o \o Append(x, c) = Append(o \o x, c)
           /\ o \o x \in Seq(A) /\ Append(x, c) \in Seq(A)
<1>1. PICK y \in Seq(A) : y = Append(x, c) /\ Len(y) = Len(x) + 1
  <2>1. Append(x, c) \in Seq(A) /\ Len(Append(x, c)) = Len(x) + 1
    OBVIOUS
  <2> QED
    BY <2>1, Zenon
<1>2. y[Len(x) + 1] = c /\ \A i \in 1 .. Len(x) : y[i] = x[i]
  BY <1>1
<1>3. PICK u \in Seq(A) : u = o \o x /\ Len(u) = Len(o) + Len(x)
  <2>1. o \o x \in Seq(A) /\ Len(o \o x) = Len(o) + Len(x)
    OBVIOUS
  <2> QED
    BY <2>1, Zenon
<1>4. PICK a \in Seq(A) : a = o \o y /\ Len(a) = Len(o) + Len(x) + 1
  <2>1. o \o y \in Seq(A) /\ Len(o \o y) = Len(o) + Len(y)
    OBVIOUS
  <2>2. Len(o) + Len(y) = Len(o) + Len(x) + 1
    BY <1>1
  <2> QED
    BY <2>1, <2>2, Zenon
<1>5. PICK b \in Seq(A) : b = Append(u, c) /\ Len(b) = Len(u) + 1
  <2>1. Append(u, c) \in Seq(A) /\ Len(Append(u, c)) = Len(u) + 1
    OBVIOUS
  <2> QED
    BY <2>1, Zenon
<1>6. \A i \in 1 .. Len(a) : a[i] = b[i]
  <2> SUFFICES ASSUME NEW i \in 1 .. Len(a) PROVE a[i] = b[i]
    OBVIOUS
  <2>1. CASE i <= Len(o)
    <3>1. a[i] = o[i] /\ u[i] = o[i]
      BY <1>3, <1>4, <2>1
    <3>2. b[i] = u[i]
      BY <1>3, <1>5, <2>1
    <3> QED
      BY <3>1, <3>2
  <2>2. CASE i > Len(o) /\ i <= Len(o) + Len(x)
    <3>1. a[i] = y[i - Len(o)] /\ u[i] = x[i - Len(o)]
      BY <1>1, <1>3, <1>4, <2>2
    <3>2. b[i] = u[i]
      BY <1>3, <1>5, <2>2
    <3>3. i - Len(o) \in 1 .. Len(x)
      BY <2>2
    <3>4. y[i - Len(o)] = x[i - Len(o)]
      BY <1>2, <3>3, Zenon
    <3> QED
      BY <3>1, <3>2, <3>4
  <2>3. CASE i = Len(o) + Len(x) + 1
    <3>1. a[i] = y[i - Len(o)] /\ i - Len(o) = Len(x) + 1
      BY <1>1, <1>4, <2>3
    <3>2. b[i] = c
      BY <1>3, <1>5, <2>3
    <3> QED
      BY <1>2, <3>1, <3>2
  <2>4. Len(o) \in Nat /\ Len(x) \in Nat /\ i \in 1 .. Len(o) + Len(x) + 1
    BY <1>4
  <2>5. i <= Len(o) \/ (i > Len(o) /\ i <= Len(o) + Len(x)) \/ i = Len(o) + Len(x) + 1
    <3>1. PICK j \in Nat, k \in Nat : j = Len(o) /\ k = Len(x)
      BY <2>4, Zenon
    <3>2. i \in 1 .. j + k + 1
      BY <2>4, <3>1, Zenon
    <3>3. i <= j \/ (i > j /\ i <= j + k) \/ i = j + k + 1
      BY <3>2
    <3> QED
      BY <3>1, <3>3, Zenon
  <2> QED
    BY <2>1, <2>2, <2>3, <2>5
<1>7. a = b
  <2>1. Len(a) = Len(b)
    BY <1>3, <1>4, <1>5
  <2> QED
    BY <1>6, <2>1
<1> QED
  BY <1>1, <1>3, <1>4, <1>5, <1>7

LEMMA CutType ==
    ASSUME NEW A, NEW s \in Seq(A), NEW sep
    PROVE  Cut(s, sep) \in CutStates(A)
<1> DEFINE T == {x \in Seq(A) : Cut(x, sep) \in CutStates(A)}
<1>1. T \in SUBSET Seq(A) /\ <<>> \in T
  <2>1. CutStart \in CutStates(A)
    BY DEF CutStart, CutStates
  <2>2. <<>> \in Seq(A)
    OBVIOUS
  <2> QED
    BY <2>1, <2>2, CutEmpty
<1>2. Closed(T, A)
  <2>1. ASSUME NEW x \in T, NEW c \in A PROVE Append(x, c) \in T
    <3>1. Append(x, c) \in Seq(A)
      OBVIOUS
    <3>2. PICK r \in CutStates(A) : r = Cut(x, sep)
      OBVIOUS
    <3>3. Cut(Append(x, c), sep) = CutChar(sep, r, c)
      BY <3>2, CutAppend
    <3> QED
      BY <3>1, <3>3, CutIs
  <2> HIDE DEF T
  <2> QED
    BY <2>1 DEF Closed
<1>3. T = Seq(A)
  <2> HIDE DEF T
  <2> QED
    BY <1>1, <1>2, SeqInduction
<1> QED
  BY <1>3

\* A line without LF is not cut.
LEMMA CutInside ==
    ASSUME NEW A, NEW o \in Seq(A), NEW ps, CutAt(Cut(o, <<CR, LF>>), ps, <<>>),
           NEW t \in Seq(A), NoLF(t)
    PROVE  CutAt(Cut(o \o t, <<CR, LF>>), ps, t)
<1> DEFINE sep == <<CR, LF>>
           P(x) == NoLF(x) => CutAt(Cut(o \o x, sep), ps, x)
           T == {x \in Seq(A) : P(x)}
<1>1. T \in SUBSET Seq(A) /\ <<>> \in T
  <2>1. o \o <<>> = o /\ <<>> \in Seq(A)
    OBVIOUS
  <2>2. P(<<>>)
    BY <2>1
  <2> HIDE DEF P
  <2> QED
    BY <2>1, <2>2
<1>2. Closed(T, A)
  <2>1. ASSUME NEW x \in Seq(A), P(x), NEW c \in A PROVE P(Append(x, c))
    <3> SUFFICES ASSUME NoLF(Append(x, c))
                 PROVE  CutAt(Cut(o \o Append(x, c), sep), ps, Append(x, c))
      OBVIOUS
    <3>1. NoLF(x) /\ c # LF
      <4>1. Len(Append(x, c)) = Len(x) + 1 /\ Append(x, c)[Len(x) + 1] = c /\ Len(x) \in Nat
        OBVIOUS
      <4>2. \A i \in 1 .. Len(x) : Append(x, c)[i] = x[i]
        OBVIOUS
      <4>3. Len(x) + 1 \in 1 .. Len(x) + 1 /\ \A i \in 1 .. Len(x) : i \in 1 .. Len(x) + 1
        BY <4>1
      <4> QED
        BY <4>1, <4>2, <4>3, Zenon DEF NoLF
    <3>2. CutAt(Cut(o \o x, sep), ps, x)
      BY <2>1, <3>1
    <3> HIDE DEF sep
    <3>3. PICK z \in Seq(A) : z = o \o x
      BY JoinAppend
    <3>4. PICK r \in CutStates(A) : r = Cut(z, sep)
      BY CutType
    <3>5. Cut(o \o Append(x, c), sep) = CutChar(sep, r, c)
      <4>1. o \o Append(x, c) = Append(z, c)
        BY <3>3, JoinAppend
      <4>2. Cut(Append(z, c), sep) = CutChar(sep, r, c)
        BY <3>4, CutAppend
      <4> QED
        BY <4>1, <4>2, Zenon
    <3>6. ~EndsWith(Append(x, c), sep)
      <4>1. EndsWith(Append(x, c), <<CR, LF>>) <=> c = LF /\ EndsCR(x)
        BY EndsWithCRLF, Zenon
      <4>2. ~EndsWith(Append(x, c), <<CR, LF>>)
        BY <3>1, <4>1, Zenon
      <4> QED
        BY <4>2, Zenon DEF sep
    <3>7. CutAt(r, ps, x)
      BY <3>2, <3>3, <3>4, Zenon
    <3>8. CutAt(CutChar(sep, r, c), ps, Append(x, c))
      BY <3>6, <3>7, CutGoesOn
    <3> QED
      BY <3>5, <3>8
  <2> HIDE DEF P
  <2>2. ASSUME NEW x \in T, NEW c \in A PROVE Append(x, c) \in T
    <3>1. Append(x, c) \in Seq(A)
      OBVIOUS
    <3> QED
      BY <2>1, <3>1
  <2> HIDE DEF T
  <2> QED
    BY <2>2 DEF Closed
<1>3. T = Seq(A)
  <2> HIDE DEF T
  <2> QED
    BY <1>1, <1>2, SeqInduction
<1> QED
  BY <1>3

\* A line without LF and its CRLF are one piece.
LEMMA CutLine ==
    ASSUME NEW A, CR \in A, LF \in A, NEW o \in Seq(A), NEW ps,
           CutAt(Cut(o, <<CR, LF>>), ps, <<>>), NEW t \in Seq(A), NoLF(t)
    PROVE  /\ CutAt(Cut(o \o t \o <<CR, LF>>, <<CR, LF>>), Append(ps, t \o <<CR, LF>>), <<>>)
           /\ o \o t \o <<CR, LF>> \in Seq(A)
<1>1. PICK z \in Seq(A) : z = o \o t
  BY JoinAppend
<1>2. PICK y \in Seq(A), x \in Seq(A) : y = Append(z, CR) /\ x = Append(t, CR)
  BY JoinOne
<1>3. o \o t \o <<CR, LF>> = Append(y, LF) /\ t \o <<CR, LF>> = Append(x, LF)
  BY <1>1, <1>2, JoinTwo
<1>4. PICK sep : sep = <<CR, LF>>
  OBVIOUS
<1>5. CutAt(Cut(z, sep), ps, t)
  BY <1>1, <1>4, CutInside, Zenon
<1>6. PICK r \in CutStates(A) : r = Cut(z, sep)
  BY CutType
<1>7. ~EndsWith(Append(t, CR), sep)
  BY <1>4, EndsWithCRLF DEF CR, LF
<1>8. PICK q : q = CutChar(sep, r, CR) /\ q \in CutStates(A) /\ CutAt(q, ps, x)
  <2>1. CutAt(r, ps, t)
    BY <1>5, <1>6
  <2>2. CutChar(sep, r, CR) \in CutStates(A) /\ CutAt(CutChar(sep, r, CR), ps, Append(t, CR))
    BY <1>7, <2>1, CutGoesOn
  <2> QED
    BY <1>2, <2>2, Zenon
<1>9. Cut(y, sep) = q
  BY <1>2, <1>6, <1>8, CutAppend
<1>10. EndsWith(Append(x, LF), sep)
  <2>1. EndsCR(x)
    BY <1>2, EndsCRAppend
  <2> QED
    BY <1>4, <2>1, EndsWithCRLF
<1>11. CutAt(CutChar(sep, q, LF), Append(ps, Append(x, LF)), <<>>)
  BY <1>8, <1>10, CutEnds
<1>12. Cut(Append(y, LF), sep) = CutChar(sep, q, LF)
  BY <1>9, CutAppend
<1>13. Append(y, LF) \in Seq(A)
  BY JoinOne
<1> QED
  BY <1>3, <1>4, <1>11, <1>12, <1>13, Zenon

\* Lines as they are sent.
Sent(S) == [k \in DOMAIN S |-> Stuffed(S[k]) \o <<CR, LF>>]
Plain(A) == {x \in Seq(A) : NoLF(x)}

\* A function applied to the elements of a sequence.
Mapped(g, s) == [k \in DOMAIN s |-> g[s[k]]]
Maps(g, A, B) == g \in [A -> B]

LEMMA MapAppend ==
    ASSUME NEW A, NEW B, NEW g, Maps(g, A, B), NEW s \in Seq(A), NEW c \in A
    PROVE  /\ Mapped(g, s) \in Seq(B)
           /\ Mapped(g, Append(s, c)) = Append(Mapped(g, s), g[c])
<1> USE DEF Maps
<1>1. PICK n \in Nat, t \in Seq(A) :
          /\ n = Len(s) /\ t = Append(s, c) /\ Len(t) = n + 1
          /\ t[n + 1] = c /\ \A i \in 1 .. n : t[i] = s[i]
  <2>1. /\ Append(s, c) \in Seq(A) /\ Len(s) \in Nat
        /\ Len(Append(s, c)) = Len(s) + 1
        /\ Append(s, c)[Len(s) + 1] = c
    OBVIOUS
  <2>2. \A i \in 1 .. Len(s) : Append(s, c)[i] = s[i]
    OBVIOUS
  <2> QED
    BY <2>1, <2>2, Zenon
<1>2. DOMAIN s = 1 .. n /\ DOMAIN t = 1 .. n + 1
  BY <1>1
<1>3. PICK a : a = [k \in 1 .. n |-> g[s[k]]]
  OBVIOUS
<1>4. PICK b : b = [k \in 1 .. n + 1 |-> g[t[k]]]
  OBVIOUS
<1>5. \A k \in 1 .. n : s[k] \in A
  BY <1>1
<1>6. a \in Seq(B) /\ Len(a) = n /\ \A k \in 1 .. n : a[k] = g[s[k]]
  <2>1. \A k \in 1 .. n : g[s[k]] \in B
    BY <1>5
  <2>2. a \in [1 .. n -> B]
    BY <1>3, <2>1
  <2> QED
    BY <1>1, <1>3, <2>2
<1>7. \A k \in 1 .. n + 1 : t[k] \in A
  BY <1>1
<1>8. b \in Seq(B) /\ Len(b) = n + 1 /\ \A k \in 1 .. n + 1 : b[k] = g[t[k]]
  <2>1. \A k \in 1 .. n + 1 : g[t[k]] \in B
    BY <1>7
  <2>2. b \in [1 .. n + 1 -> B]
    BY <1>4, <2>1
  <2> QED
    BY <1>1, <1>4, <2>2
<1>9. PICK d \in B : d = g[c]
  OBVIOUS
<1>10. PICK u \in Seq(B) :
           /\ u = Append(a, d) /\ Len(u) = n + 1
           /\ u[n + 1] = d /\ \A i \in 1 .. n : u[i] = a[i]
  <2>1. /\ Append(a, d) \in Seq(B) /\ Len(Append(a, d)) = n + 1
        /\ Append(a, d)[n + 1] = d
    BY <1>1, <1>6
  <2>2. \A i \in 1 .. n : Append(a, d)[i] = a[i]
    BY <1>1, <1>6
  <2> QED
    BY <2>1, <2>2, Zenon
<1>11. \A i \in 1 .. n + 1 : u[i] = b[i]
  <2> SUFFICES ASSUME NEW i \in 1 .. n + 1 PROVE u[i] = b[i]
    OBVIOUS
  <2>1. i = n + 1 \/ i \in 1 .. n
    BY <1>1
  <2> QED
    BY <1>1, <1>6, <1>8, <1>9, <1>10, <2>1
<1>12. u = b
  BY <1>8, <1>10, <1>11
<1> QED
  BY <1>1, <1>2, <1>3, <1>4, <1>6, <1>9, <1>10, <1>12 DEF Mapped

LEMMA LinesInAppend ==
    ASSUME NEW A, NEW ls \in Seq(Seq(A)), NEW l \in Seq(A)
    PROVE  /\ LinesIn(ls) \in Seq(Seq(A))
           /\ LinesIn(Append(ls, l)) = Append(LinesIn(ls), Line(l))
<1>1. PICK g : g = [x \in Seq(A) |-> Line(x)]
  OBVIOUS
<1>2. Maps(g, Seq(A), Seq(A))
  BY <1>1, LineType DEF Maps
<1>3. PICK t \in Seq(Seq(A)) : t = Append(ls, l)
  BY JoinOne
<1>4. /\ \A k \in DOMAIN ls : ls[k] \in Seq(A)
      /\ \A k \in DOMAIN t : t[k] \in Seq(A)
  OBVIOUS
<1>5. LinesIn(ls) = Mapped(g, ls)
  BY <1>1, <1>4 DEF LinesIn, Mapped
<1>6. LinesIn(t) = Mapped(g, t)
  BY <1>1, <1>4 DEF LinesIn, Mapped
<1>7. g[l] = Line(l)
  BY <1>1
<1>8. Mapped(g, ls) \in Seq(Seq(A))
  BY <1>2, MapAppend
<1>9. Mapped(g, Append(ls, l)) = Append(Mapped(g, ls), g[l])
  BY <1>2, MapAppend
<1> QED
  BY <1>3, <1>5, <1>6, <1>7, <1>8, <1>9, Zenon

LEMMA SentAppend ==
    ASSUME NEW A, Wired(A), NEW S \in Seq(Seq(A)), NEW t \in Seq(A)
    PROVE  /\ Sent(S) \in Seq(Seq(A))
           /\ Sent(Append(S, t)) = Append(Sent(S), Stuffed(t) \o <<CR, LF>>)
<1>1. PICK g : g = [x \in Seq(A) |-> Stuffed(x) \o <<CR, LF>>]
  OBVIOUS
<1>2. Maps(g, Seq(A), Seq(A))
  BY <1>1, StuffedType DEF Maps
<1>3. PICK u \in Seq(Seq(A)) : u = Append(S, t)
  BY JoinOne
<1>4. /\ \A k \in DOMAIN S : S[k] \in Seq(A)
      /\ \A k \in DOMAIN u : u[k] \in Seq(A)
  OBVIOUS
<1>5. Sent(S) = Mapped(g, S)
  BY <1>1, <1>4, Zenon DEF Sent, Mapped
<1>6. Sent(u) = Mapped(g, u)
  BY <1>1, <1>4, Zenon DEF Sent, Mapped
<1>7. g[t] = Stuffed(t) \o <<CR, LF>>
  BY <1>1
<1>8. Mapped(g, S) \in Seq(Seq(A))
  BY <1>2, MapAppend
<1>9. Mapped(g, Append(S, t)) = Append(Mapped(g, S), g[t])
  BY <1>2, MapAppend
<1> QED
  BY <1>3, <1>5, <1>6, <1>7, <1>8, <1>9, Zenon

\* What the loop has sent after the lines ls are whole lines, none with an LF.
HasSent(A, m, ls) ==
    /\ Write(ls, m) \in WriteStates(A)
    /\ \E S \in Seq(Plain(A)) :
          /\ WriterAt(m, LinesIn(ls), Write(ls, m), S)
          /\ CutAt(Cut(Write(ls, m).out, <<CR, LF>>), Sent(S), <<>>)

LEMMA HasSentStep ==
    ASSUME NEW A, Wired(A), NEW m \in Int, NEW ls \in Seq(Readable(A)),
           HasSent(A, m, ls), NEW l \in Readable(A)
    PROVE  HasSent(A, m, Append(ls, l))
<1>1. ls \in Seq(Seq(A)) /\ l \in Seq(A)
  BY DEF Readable
<1>2. PICK w \in WriteStates(A) : w = Write(ls, m)
  BY DEF HasSent
<1>3. PICK S \in Seq(Plain(A)) :
          WriterAt(m, LinesIn(ls), w, S) /\ CutAt(Cut(w.out, <<CR, LF>>), Sent(S), <<>>)
  BY <1>2, Zenon DEF HasSent
<1>4. PICK v \in WriteStates(A) : v = WriteLine(m, w, l) /\ v = Write(Append(ls, l), m)
  <2>1. WriteLine(m, w, l) \in WriteStates(A)
    BY <1>1, WriteType
  <2>2. Write(Append(ls, l), m) = WriteLine(m, w, l)
    BY <1>1, <1>2, WriteAppend
  <2> QED
    BY <2>1, <2>2, Zenon
<1>5. PICK t \in Plain(A) : t = Line(l)
  <2>1. Line(l) \in Seq(A) /\ NoLF(Line(l))
    BY <1>1, LineType DEF Readable
  <2> QED
    BY <2>1 DEF Plain
<1>6. PICK L \in Seq(Seq(A)) : L = LinesIn(ls) /\ LinesIn(Append(ls, l)) = Append(L, t)
  <2>1. LinesIn(ls) \in Seq(Seq(A)) /\ LinesIn(Append(ls, l)) = Append(LinesIn(ls), Line(l))
    BY <1>1, LinesInAppend, Zenon
  <2> QED
    BY <1>5, <2>1, Zenon
<1>7. \/ WriterAt(m, Append(L, t), v, S) /\ v.out = w.out
      \/ /\ WriterAt(m, Append(L, t), v, Append(S, t))
         /\ v.out = w.out \o Stuffed(t) \o <<CR, LF>>
  <2>1. WriterAt(m, L, w, S)
    BY <1>3, <1>6
  <2>2. OneRound(m, L, w, S, Line(l), WriteLine(m, w, l))
    BY <1>1, <2>1, WriterStep
  <2> QED
    BY <1>4, <1>5, <2>2, Zenon DEF OneRound
<1>8. CASE WriterAt(m, Append(L, t), v, S) /\ v.out = w.out
  BY <1>3, <1>4, <1>6, <1>8, Zenon DEF HasSent
<1>9. CASE /\ WriterAt(m, Append(L, t), v, Append(S, t))
           /\ v.out = w.out \o Stuffed(t) \o <<CR, LF>>
  <2>1. PICK U \in Seq(Plain(A)) : U = Append(S, t)
    BY JoinOne
  <2>2. S \in Seq(Seq(A)) /\ t \in Seq(A) /\ NoLF(t)
    BY DEF Plain
  <2>3. PICK x \in Seq(A) : x = Stuffed(t) /\ NoLF(x)
    BY <2>2, StuffedType
  <2>4. PICK ps : ps = Sent(S) /\ Sent(U) = Append(ps, x \o <<CR, LF>>)
    <3>1. Sent(Append(S, t)) = Append(Sent(S), Stuffed(t) \o <<CR, LF>>)
      BY <2>2, SentAppend, Zenon
    <3> QED
      BY <2>1, <2>3, <3>1, Zenon
  <2>5. PICK o \in Seq(A) : o = w.out
    BY DEF WriteStates
  <2>6. CutAt(Cut(o, <<CR, LF>>), ps, <<>>) /\ CR \in A /\ LF \in A
    BY <1>3, <2>4, <2>5, Zenon DEF Wired
  <2>7. CutAt(Cut(o \o x \o <<CR, LF>>, <<CR, LF>>), Append(ps, x \o <<CR, LF>>), <<>>)
    BY <2>3, <2>6, CutLine, Zenon
  <2>8. CutAt(Cut(v.out, <<CR, LF>>), Sent(U), <<>>)
    BY <1>9, <2>3, <2>4, <2>5, <2>7, Zenon
  <2>9. WriterAt(m, LinesIn(Append(ls, l)), v, U)
    BY <1>6, <1>9, <2>1, Zenon
  <2> QED
    BY <1>4, <2>8, <2>9, Zenon DEF HasSent
<1> QED
  BY <1>7, <1>8, <1>9

LEMMA HasSentAll ==
    ASSUME NEW A, Wired(A), NEW m \in Int, NEW ls \in Seq(Readable(A))
    PROVE  HasSent(A, m, ls)
<1> DEFINE T == {x \in Seq(Readable(A)) : HasSent(A, m, x)}
<1>1. HasSent(A, m, <<>>)
  <2>1. Write(<<>>, m) = WriteStart(m)
    BY WriteEmpty
  <2>2. /\ WriteStart(m) \in WriteStates(A) /\ WriteStart(m).out = <<>>
        /\ WriteStart(m).headerDone = (m < 0)
        /\ WriteStart(m).emitted = 0 /\ WriteStart(m).stop = FALSE
    BY DEF WriteStart, WriteStates
  <2>3. LinesIn(<<>>) = <<>> /\ Sent(<<>>) = <<>> /\ <<>> \in Seq(Plain(A))
    <3>1. DOMAIN <<>> = {} /\ <<>> \in Seq(Plain(A))
      OBVIOUS
    <3>2. [k \in {} |-> Line(<<>>[k])] = <<>>
      OBVIOUS
    <3>3. [k \in {} |-> Stuffed(<<>>[k]) \o <<CR, LF>>] = <<>>
      OBVIOUS
    <3> QED
      BY <3>1, <3>2, <3>3, Zenon DEF LinesIn, Sent
  <2>4. CutAt(Cut(<<>>, <<CR, LF>>), <<>>, <<>>)
    BY CutEmpty DEF CutStart, CutAt
  <2>5. CASE m < 0
    <3>1. Whole(m, <<>>, WriteStart(m), <<>>)
      BY <2>2, <2>5 DEF Whole
    <3> QED
      BY <2>1, <2>2, <2>3, <2>4, <3>1, Zenon DEF HasSent, WriterAt
  <2>6. CASE ~(m < 0)
    <3>1. NoBlank(<<>>)
      BY DEF NoBlank
    <3>2. InHeader(m, <<>>, WriteStart(m), <<>>)
      <4>1. (m < 0) = FALSE /\ m >= 0
        BY <2>6
      <4> QED
        BY <2>2, <3>1, <4>1, Zenon DEF InHeader
    <3> QED
      BY <2>1, <2>2, <2>3, <2>4, <3>2, Zenon DEF HasSent, WriterAt
  <2> QED
    BY <2>5, <2>6
<1>2. T \in SUBSET Seq(Readable(A)) /\ <<>> \in T
  <2>1. <<>> \in Seq(Readable(A))
    OBVIOUS
  <2> QED
    BY <1>1, <2>1
<1>3. Closed(T, Readable(A))
  <2>1. ASSUME NEW x \in T, NEW l \in Readable(A) PROVE Append(x, l) \in T
    <3>1. Append(x, l) \in Seq(Readable(A))
      OBVIOUS
    <3>2. HasSent(A, m, Append(x, l))
      BY HasSentStep
    <3> QED
      BY <3>1, <3>2
  <2> HIDE DEF T
  <2> QED
    BY <2>1 DEF Closed
<1>4. T = Seq(Readable(A))
  <2> HIDE DEF T
  <2> QED
    BY <1>2, <1>3, SeqInduction
<1> QED
  BY <1>4

LEMMA WholePrefix ==
    ASSUME NEW A, NEW L \in Seq(A)
    PROVE  SubSeq(L, 1, Len(L)) = L
  OBVIOUS

\* When the lines are at an end, RETR has sent them all, and TOP the header,
\* the blank line and the first m lines of the body.
LEMMA WriterDone ==
    ASSUME NEW A, NEW m \in Int, NEW L \in Seq(Seq(A)), NEW w, NEW S, WriterAt(m, L, w, S)
    PROVE  /\ m < 0 => S = L
           /\ m >= 0 => S = TopLines(L, m)
<1>1. DOMAIN L = 1 .. Len(L) /\ Len(L) \in Nat /\ SubSeq(L, 1, Len(L)) = L
  BY WholePrefix
<1>2. ASSUME m < 0 PROVE S = L
  BY <1>2 DEF WriterAt, Whole, InHeader, InBody, PastBody
<1> DEFINE blank == {k \in DOMAIN L : L[k] = <<>>}
           first == CHOOSE k \in blank : \A j \in blank : k <= j
<1>3. ASSUME InHeader(m, L, w, S) PROVE S = TopLines(L, m)
  <2>1. blank = {} /\ S = L /\ m >= 0
    BY <1>1, <1>3 DEF InHeader, NoBlank
  <2>2. TopLines(L, m) = SubSeq(L, 1, IF Len(L) + m < Len(L) THEN Len(L) + m ELSE Len(L))
    BY <2>1 DEF TopLines
  <2>3. ~(Len(L) + m < Len(L))
    BY <1>1, <2>1
  <2> QED
    BY <1>1, <2>1, <2>2, <2>3, Zenon
<1>4. ASSUME NEW h, FirstBlank(L, h) PROVE first = h /\ blank # {} /\ h \in 1 .. Len(L)
  <2>1. h \in blank /\ \A j \in blank : h <= j
    <3>1. h \in 1 .. Len(L) /\ L[h] = <<>> /\ \A k \in 1 .. h - 1 : L[k] # <<>>
      BY <1>4 DEF FirstBlank
    <3>2. \A j \in 1 .. Len(L) : j < h => j \in 1 .. h - 1
      BY <1>1, <3>1
    <3>3. \A j \in 1 .. Len(L) : j < h \/ h <= j
      BY <1>1, <3>1
    <3> QED
      BY <1>1, <3>1, <3>2, <3>3, Zenon
  <2>2. \A x, y \in blank : x <= y /\ y <= x => x = y
    BY <1>1
  <2>3. blank \subseteq 1 .. Len(L)
    BY <1>1
  <2> HIDE DEF blank
  <2>4. first \in blank /\ \A j \in blank : first <= j
    BY <2>1, Zenon
  <2> QED
    BY <2>1, <2>2, <2>3, <2>4
<1>5. ASSUME NEW h, FirstBlank(L, h)
      PROVE  TopLines(L, m) = SubSeq(L, 1, IF h + m < Len(L) THEN h + m ELSE Len(L))
  <2>1. first = h /\ blank # {}
    BY <1>4, <1>5
  <2>2. TopLines(L, m) = LET head == IF blank = {} THEN Len(L) ELSE first
                         IN  SubSeq(L, 1, IF head + m < Len(L) THEN head + m ELSE Len(L))
    BY DEF TopLines
  <2> QED
    BY <2>1, <2>2, Zenon
<1>6. ASSUME NEW h \in Nat, InBody(m, L, w, S, h) PROVE S = TopLines(L, m)
  <2>1. FirstBlank(L, h) /\ S = L /\ ~(h + m < Len(L))
    BY <1>1, <1>6 DEF InBody
  <2> QED
    BY <1>1, <1>5, <2>1, Zenon
<1>7. ASSUME NEW h \in Nat, PastBody(m, L, w, S, h) PROVE S = TopLines(L, m)
  <2>1. FirstBlank(L, h) /\ S = SubSeq(L, 1, h + m) /\ h + m < Len(L)
    BY <1>1, <1>7 DEF PastBody
  <2> QED
    BY <1>5, <2>1, Zenon
<1>8. ASSUME m >= 0 PROVE ~Whole(m, L, w, S)
  BY <1>8 DEF Whole
<1>9. ASSUME m >= 0 PROVE S = TopLines(L, m)
  BY <1>3, <1>6, <1>7, <1>8, <1>9, Zenon DEF WriterAt
<1> QED
  BY <1>2, <1>9

\* A client finds the line in what was sent for it.
LEMMA StuffedBack ==
    ASSUME NEW A, Wired(A), NEW x \in Seq(A)
    PROVE  /\ Stuffed(x) # <<Dot>>
           /\ x = IF Stuffed(x) # <<>> /\ Stuffed(x)[1] = Dot
                  THEN Tail(Stuffed(x)) ELSE Stuffed(x)
<1>1. CASE x # <<>> /\ x[1] = Dot
  <2>1. PICK d \in Seq(A) : d = <<Dot>> /\ Len(d) = 1 /\ d[1] = Dot
    <3>1. <<Dot>> \in Seq(A) /\ Len(<<Dot>>) = 1 /\ <<Dot>>[1] = Dot
      BY DEF Wired
    <3> QED
      BY <3>1, Zenon
  <2>2. PICK u \in Seq(A) : u = d \o x /\ Len(u) = 1 + Len(x)
    <3>1. d \o x \in Seq(A) /\ Len(d \o x) = Len(d) + Len(x)
      OBVIOUS
    <3> QED
      BY <2>1, <3>1, Zenon
  <2>3. Stuffed(x) = u
    BY <1>1, <2>1, <2>2 DEF Stuffed
  <2>4. u[1] = Dot /\ \A i \in 1 .. Len(x) : u[i + 1] = x[i]
    BY <2>1, <2>2
  <2>5. Len(x) > 0 /\ Len(x) \in Nat
    BY <1>1
  <2>6. u # <<>> /\ u # d
    BY <2>1, <2>2, <2>5
  <2>7. PICK y \in Seq(A) : y = Tail(u) /\ Len(y) = Len(x)
    <3>1. Tail(u) \in Seq(A) /\ Len(Tail(u)) = Len(x)
      BY <2>2, <2>5
    <3> QED
      BY <3>1, Zenon
  <2>8. \A i \in 1 .. Len(x) : y[i] = u[i + 1]
    BY <2>2, <2>7
  <2>9. y = x
    <3>1. \A i \in 1 .. Len(x) : y[i] = x[i]
      BY <2>4, <2>8, Zenon
    <3>2. Len(y) = Len(x)
      BY <2>7
    <3> QED
      BY <3>1, <3>2
  <2> QED
    BY <2>1, <2>3, <2>4, <2>6, <2>7, <2>9, Zenon
<1>2. CASE ~(x # <<>> /\ x[1] = Dot)
  <2>1. Stuffed(x) = x
    BY <1>2 DEF Stuffed
  <2>2. <<Dot>> # <<>> /\ <<Dot>>[1] = Dot
    OBVIOUS
  <2>3. x # <<Dot>>
    BY <1>2, <2>2, Zenon
  <2> QED
    BY <1>2, <2>1, <2>3, Zenon
<1> QED
  BY <1>1, <1>2

LEMMA WithoutCRLF ==
    ASSUME NEW A, Wired(A), NEW x \in Seq(A)
    PROVE  LET y == x \o <<CR, LF>> IN SubSeq(y, 1, Len(y) - 2) = x
<1>1. PICK e \in Seq(A) : e = <<CR, LF>> /\ Len(e) = 2
  <2>1. <<CR, LF>> \in Seq(A) /\ Len(<<CR, LF>>) = 2
    BY DEF Wired
  <2> QED
    BY <2>1, Zenon
<1>2. PICK y \in Seq(A) : y = x \o e /\ Len(y) = Len(x) + 2
  <2>1. x \o e \in Seq(A) /\ Len(x \o e) = Len(x) + Len(e)
    OBVIOUS
  <2> QED
    BY <1>1, <2>1, Zenon
<1>3. \A i \in 1 .. Len(x) : y[i] = x[i]
  BY <1>2
<1>4. Len(y) - 2 = Len(x)
  BY <1>2
<1>5. PICK z \in Seq(A) : z = SubSeq(y, 1, Len(x)) /\ Len(z) = Len(x)
  <2>1. SubSeq(y, 1, Len(x)) \in Seq(A) /\ Len(SubSeq(y, 1, Len(x))) = Len(x)
    BY <1>2
  <2> QED
    BY <2>1, Zenon
<1>6. \A i \in 1 .. Len(x) : z[i] = y[i]
  BY <1>2, <1>5
<1>7. z = x
  BY <1>3, <1>5, <1>6
<1> QED
  BY <1>1, <1>2, <1>4, <1>5, <1>7, Zenon

\* The dot that ends the answer is a line of its own.
LEMMA LastLine ==
    ASSUME NEW A, Wired(A), NEW o \in Seq(A), NEW ps, CutAt(Cut(o, <<CR, LF>>), ps, <<>>)
    PROVE  CutAt(Cut(o \o <<Dot, CR, LF>>, <<CR, LF>>), Append(ps, <<Dot>> \o <<CR, LF>>), <<>>)
<1>1. PICK d \in Seq(A) : d = <<Dot>> /\ NoLF(d)
  <2>1. <<Dot>> \in Seq(A) /\ Len(<<Dot>>) = 1 /\ <<Dot>>[1] = Dot
    BY DEF Wired
  <2>2. NoLF(<<Dot>>)
    BY <2>1 DEF NoLF, Dot, LF
  <2> QED
    BY <2>1, <2>2, Zenon
<1>2. CR \in A /\ LF \in A /\ Dot \in A
  BY DEF Wired
<1>3. CutAt(Cut(o \o d \o <<CR, LF>>, <<CR, LF>>), Append(ps, d \o <<CR, LF>>), <<>>)
  BY <1>1, <1>2, CutLine, Zenon
<1>4. o \o d \o <<CR, LF>> = o \o <<Dot, CR, LF>>
  <2>1. PICK e \in Seq(A) : e = <<CR, LF>> /\ Len(e) = 2 /\ e[1] = CR /\ e[2] = LF
    <3>1. <<CR, LF>> \in Seq(A) /\ Len(<<CR, LF>>) = 2 /\ <<CR, LF>>[1] = CR /\ <<CR, LF>>[2] = LF
      BY <1>2
    <3> QED
      BY <3>1, Zenon
  <2>2. PICK f \in Seq(A) : /\ f = <<Dot, CR, LF>> /\ Len(f) = 3
                            /\ f[1] = Dot /\ f[2] = CR /\ f[3] = LF
    <3>1. /\ <<Dot, CR, LF>> \in Seq(A) /\ Len(<<Dot, CR, LF>>) = 3
          /\ <<Dot, CR, LF>>[1] = Dot /\ <<Dot, CR, LF>>[2] = CR /\ <<Dot, CR, LF>>[3] = LF
      BY <1>2
    <3> QED
      BY <3>1, Zenon
  <2>3. Len(d) = 1 /\ d[1] = Dot
    BY <1>1
  <2>4. PICK n \in Nat : n = Len(o)
    OBVIOUS
  <2>5. PICK a \in Seq(A) : a = o \o d /\ Len(a) = n + 1
    <3>1. o \o d \in Seq(A) /\ Len(o \o d) = Len(o) + Len(d)
      OBVIOUS
    <3> QED
      BY <2>3, <2>4, <3>1, Zenon
  <2>6. a[n + 1] = Dot /\ \A i \in 1 .. n : a[i] = o[i]
    BY <2>3, <2>4, <2>5
  <2>7. PICK b \in Seq(A) : b = a \o e /\ Len(b) = n + 3
    <3>1. a \o e \in Seq(A) /\ Len(a \o e) = Len(a) + Len(e)
      OBVIOUS
    <3>2. Len(a) + Len(e) = n + 3
      BY <2>1, <2>4, <2>5
    <3> QED
      BY <3>1, <3>2, Zenon
  <2>8. b[n + 2] = CR /\ b[n + 3] = LF /\ \A i \in 1 .. n + 1 : b[i] = a[i]
    BY <2>1, <2>4, <2>5, <2>7
  <2>9. PICK g \in Seq(A) : g = o \o f /\ Len(g) = n + 3
    <3>1. o \o f \in Seq(A) /\ Len(o \o f) = Len(o) + Len(f)
      OBVIOUS
    <3> QED
      BY <2>2, <2>4, <3>1, Zenon
  <2>10. g[n + 1] = Dot /\ g[n + 2] = CR /\ g[n + 3] = LF /\ \A i \in 1 .. n : g[i] = o[i]
    BY <2>2, <2>4, <2>9
  <2>11. \A i \in 1 .. n + 3 : b[i] = g[i]
    <3> SUFFICES ASSUME NEW i \in 1 .. n + 3 PROVE b[i] = g[i]
      OBVIOUS
    <3>1. i \in 1 .. n \/ i = n + 1 \/ i = n + 2 \/ i = n + 3
      OBVIOUS
    <3>2. n + 1 \in 1 .. n + 1 /\ \A j \in 1 .. n : j \in 1 .. n + 1
      OBVIOUS
    <3> QED
      BY <2>6, <2>8, <2>10, <3>1, <3>2, Zenon
  <2>12. b = g
    <3>1. Len(b) = Len(g) /\ \A i \in 1 .. Len(b) : b[i] = g[i]
      BY <2>7, <2>9, <2>11, Zenon
    <3> QED
      BY <3>1
  <2> QED
    BY <2>1, <2>2, <2>5, <2>7, <2>9, <2>12
<1> QED
  BY <1>1, <1>3, <1>4, Zenon

\* A client reads the lines that were sent before the dot.
LEMMA ReadsSent ==
    ASSUME NEW A, Wired(A), NEW o \in Seq(A), NEW S \in Seq(Seq(A)),
           CutAt(Cut(o, <<CR, LF>>), Sent(S), <<>>)
    PROVE  ClientReads(o \o <<Dot, CR, LF>>, S)
<1>1. PICK n \in Nat : n = Len(S) /\ DOMAIN S = 1 .. n
  OBVIOUS
<1>2. PICK ps : ps = Sent(S) /\ ps \in Seq(Seq(A)) /\ Len(ps) = n
  <2>1. Sent(S) \in Seq(Seq(A))
    <3>1. <<>> \in Seq(A)
      OBVIOUS
    <3> QED
      BY <3>1, SentAppend
  <2>2. DOMAIN Sent(S) = 1 .. n
    BY <1>1, Zenon DEF Sent
  <2>3. PICK ps \in Seq(Seq(A)) : ps = Sent(S) /\ DOMAIN ps = 1 .. n
    BY <2>1, <2>2
  <2>4. Len(ps) = n
    BY <1>1, <2>3
  <2> QED
    BY <2>3, <2>4
<1>3. \A k \in 1 .. n : ps[k] = Stuffed(S[k]) \o <<CR, LF>>
  BY <1>1, <1>2, Zenon DEF Sent
<1>4. PICK d \in Seq(A) : d = <<Dot>> \o <<CR, LF>> /\ SubSeq(d, 1, Len(d) - 2) = <<Dot>>
  <2>1. PICK x \in Seq(A) : x = <<Dot>>
    <3>1. <<Dot>> \in Seq(A)
      BY DEF Wired
    <3> QED
      BY <3>1, Zenon
  <2>2. PICK y \in Seq(A) : y = x \o <<CR, LF>>
    <3>1. PICK e \in Seq(A) : e = <<CR, LF>>
      <4>1. <<CR, LF>> \in Seq(A)
        BY DEF Wired
      <4> QED
        BY <4>1, Zenon
    <3>2. x \o e \in Seq(A)
      OBVIOUS
    <3> QED
      BY <3>1, <3>2, Zenon
  <2>3. SubSeq(y, 1, Len(y) - 2) = x
    BY <2>2, WithoutCRLF, Zenon
  <2> QED
    BY <2>1, <2>2, <2>3, Zenon
<1>5. PICK qs \in Seq(Seq(A)) : qs = Append(ps, d) /\ Len(qs) = n + 1
  <2>1. Append(ps, d) \in Seq(Seq(A)) /\ Len(Append(ps, d)) = Len(ps) + 1
    BY <1>2
  <2> QED
    BY <1>2, <2>1, Zenon
<1>6. qs[n + 1] = d /\ DOMAIN qs = 1 .. n + 1 /\ \A k \in 1 .. n : qs[k] = ps[k]
  BY <1>2, <1>5
<1>7. CutAt(Cut(o \o <<Dot, CR, LF>>, <<CR, LF>>), qs, <<>>)
  BY <1>2, <1>4, <1>5, LastLine, Zenon
<1>8. PICK sent : sent = [k \in 1 .. n + 1 |-> SubSeq(qs[k], 1, Len(qs[k]) - 2)]
  OBVIOUS
<1>9. CrlfLines(o \o <<Dot, CR, LF>>) = sent
  BY <1>6, <1>7, <1>8, Zenon DEF CrlfLines, CutAt
<1>10. sent[n + 1] = <<Dot>>
  <2>1. n + 1 \in 1 .. n + 1
    OBVIOUS
  <2> QED
    BY <1>4, <1>6, <1>8, <2>1, Zenon
<1>11. \A k \in 1 .. n : sent[k] = Stuffed(S[k])
  <2> SUFFICES ASSUME NEW k \in 1 .. n PROVE sent[k] = Stuffed(S[k])
    OBVIOUS
  <2>1. k \in 1 .. n + 1
    OBVIOUS
  <2>2. S[k] \in Seq(A)
    BY <1>1
  <2>3. PICK x \in Seq(A) : x = Stuffed(S[k])
    BY <2>2, StuffedType
  <2>4. PICK y : y = x \o <<CR, LF>>
    OBVIOUS
  <2>5. qs[k] = y
    BY <1>3, <1>6, <2>3, <2>4, Zenon
  <2>6. SubSeq(y, 1, Len(y) - 2) = x
    BY <2>4, WithoutCRLF, Zenon
  <2>7. sent[k] = SubSeq(qs[k], 1, Len(qs[k]) - 2)
    BY <1>8, <2>1, Zenon
  <2> QED
    BY <2>3, <2>5, <2>6, <2>7, Zenon
<1>12. Len(sent) = n + 1 /\ n + 1 - 1 = n
  <2>1. PICK B : B = {sent[k] : k \in 1 .. n + 1}
    OBVIOUS
  <2>2. PICK j \in Nat : j = n + 1
    OBVIOUS
  <2>3. sent \in [1 .. j -> B]
    BY <1>8, <2>1, <2>2
  <2>4. Len(sent) = j
    BY <2>3
  <2> QED
    BY <2>2, <2>4
<1>13. \A k \in 1 .. n : sent[k] # <<Dot>>
  <2>1. \A k \in 1 .. n : S[k] \in Seq(A)
    BY <1>1
  <2>2. \A k \in 1 .. n : Stuffed(S[k]) # <<Dot>>
    BY <2>1, StuffedBack, Zenon
  <2> QED
    BY <1>11, <2>2, Zenon
<1>14. \A k \in 1 .. n :
          S[k] = IF sent[k] # <<>> /\ sent[k][1] = Dot THEN Tail(sent[k]) ELSE sent[k]
  <2> SUFFICES ASSUME NEW k \in 1 .. n
               PROVE  S[k] = IF sent[k] # <<>> /\ sent[k][1] = Dot
                             THEN Tail(sent[k]) ELSE sent[k]
    OBVIOUS
  <2>1. PICK x \in Seq(A) : x = S[k]
    BY <1>1
  <2>2. x = IF Stuffed(x) # <<>> /\ Stuffed(x)[1] = Dot THEN Tail(Stuffed(x)) ELSE Stuffed(x)
    BY StuffedBack
  <2>3. sent[k] = Stuffed(x)
    BY <1>11, <2>1
  <2> QED
    BY <2>1, <2>2, <2>3, Zenon
<1>15. S = [k \in 1 .. n |->
              IF sent[k] # <<>> /\ sent[k][1] = Dot THEN Tail(sent[k]) ELSE sent[k]]
  <2>1. S = [k \in 1 .. n |-> S[k]]
    BY <1>1
  <2> QED
    BY <1>14, <2>1, Zenon
<1>16. PICK j : j = Len(sent) /\ 1 .. j - 1 = 1 .. n /\ sent[j] = <<Dot>>
  <2>1. n + 1 - 1 = n
    OBVIOUS
  <2>2. PICK j : j = Len(sent) /\ j = n + 1
    BY <1>12
  <2>3. 1 .. j - 1 = 1 .. n
    BY <2>1, <2>2
  <2>4. sent[j] = <<Dot>>
    BY <1>10, <2>2
  <2> QED
    BY <2>2, <2>3, <2>4, Zenon
<1>17. S = [k \in 1 .. j - 1 |->
              IF sent[k] # <<>> /\ sent[k][1] = Dot THEN Tail(sent[k]) ELSE sent[k]]
  BY <1>15, <1>16, Zenon
<1> QED
  BY <1>9, <1>13, <1>16, <1>17, Zenon DEF ClientReads

\* What a client reads of a message that is stored as body.
LEMMA DottedReads ==
    ASSUME NEW A, Wired(A), NEW m \in Int, NEW body, Lines(body) \in Seq(Readable(A))
    PROVE  \E S : /\ ClientReads(writeDotted(body, m), S)
                  /\ m < 0 => S = LinesIn(Lines(body))
                  /\ m >= 0 => S = TopLines(LinesIn(Lines(body)), m)
<1>1. PICK ls \in Seq(Readable(A)) : ls = Lines(body)
  OBVIOUS
<1>2. writeDotted(body, m) = Write(ls, m).out \o <<Dot, CR, LF>>
  BY <1>1, Zenon DEF writeDotted, Write
<1>3. HasSent(A, m, ls)
  BY HasSentAll
<1>4. PICK w \in WriteStates(A) : w = Write(ls, m)
  BY <1>3 DEF HasSent
<1>5. PICK S \in Seq(Plain(A)) :
          WriterAt(m, LinesIn(ls), w, S) /\ CutAt(Cut(w.out, <<CR, LF>>), Sent(S), <<>>)
  BY <1>3, <1>4, Zenon DEF HasSent
<1>6. PICK o \in Seq(A) : o = w.out
  BY DEF WriteStates
<1>7. S \in Seq(Seq(A)) /\ ls \in Seq(Seq(A))
  BY DEF Plain, Readable
<1>8. ClientReads(o \o <<Dot, CR, LF>>, S)
  BY <1>5, <1>6, <1>7, ReadsSent, Zenon
<1>9. LinesIn(ls) \in Seq(Seq(A))
  <2>1. <<>> \in Seq(A)
    OBVIOUS
  <2> QED
    BY <1>7, <2>1, LinesInAppend
<1>10. (m < 0 => S = LinesIn(ls)) /\ (m >= 0 => S = TopLines(LinesIn(ls), m))
  BY <1>5, <1>9, WriterDone
<1> QED
  BY <1>1, <1>2, <1>4, <1>6, <1>8, <1>10, Zenon

\* What ClientReadsMessage says of one message.
LEMMA MessageReads ==
    ASSUME NEW A, Wired(A), NEW s \in Seq(A)
    PROVE  LET body  == normaliseLineEndings(s)
               lines == Trimmed(s)
           IN  /\ \A i \in DOMAIN body : body[i] = LF => i > 1 /\ body[i - 1] = CR
               /\ Unix(body) = Unix(s)
               /\ normaliseLineEndings(body) = body
               /\ ClientReads(writeDotted(body, -1), lines)
               /\ \A n \in 0 .. 2 : ClientReads(writeDotted(body, n), TopLines(lines, n))
<1>1. CR \in A /\ LF \in A
  BY DEF Wired
<1>2. PICK body \in Seq(A) : body = normaliseLineEndings(s) /\ IsNormal(s, body)
  BY <1>1, NormalForm
<1>3. PICK ls \in Seq(Readable(A)) : ls = Lines(body) /\ Trimmed(s) = LinesIn(ls)
  BY <1>1, <1>2, NormalLines
<1>4. /\ CrlfOnly(body) /\ Unix(body) = Unix(s) /\ normaliseLineEndings(body) = body
  BY <1>2 DEF IsNormal
<1>5. \A i \in DOMAIN body : body[i] = LF => i > 1 /\ body[i - 1] = CR
  <2>1. DOMAIN body = 1 .. Len(body)
    OBVIOUS
  <2> QED
    BY <1>4, <2>1, Zenon DEF CrlfOnly
<1>6. ClientReads(writeDotted(body, -1), LinesIn(ls))
  <2>1. -1 \in Int /\ -1 < 0
    OBVIOUS
  <2> QED
    BY <1>3, <2>1, DottedReads, Zenon
<1>7. ASSUME NEW n \in 0 .. 2
      PROVE  ClientReads(writeDotted(body, n), TopLines(LinesIn(ls), n))
  <2>1. n \in Int /\ n >= 0
    OBVIOUS
  <2> QED
    BY <1>3, <2>1, DottedReads, Zenon
<1> QED
  BY <1>2, <1>3, <1>4, <1>5, <1>6, <1>7, Zenon

\* A message of any length and any characters reaches a POP3 client as it was
\* sent: normaliseLineEndings only adds the CR a bare LF lacks and is
\* idempotent, and from writeDotted the client reads the lines of the message
\* (after TOP n the header, the blank line and n lines), dots at their start
\* included, and the dot that ends the answer nowhere else.
THEOREM ClientsReadMessages == Spec => []ClientReadsMessage
<1>1. InputOK => ClientReadsMessage
  <2> SUFFICES ASSUME InputOK, kind = "body"
               PROVE  ClientReadsMessage
    BY Zenon DEF ClientReadsMessage
  <2> DEFINE A == Alphabet["body"] \cup {CR, LF, Dot}
  <2>1. input \in Seq(Alphabet["body"])
    BY DEF InputOK, Kinds
  <2>2. PICK s \in Seq(A) : s = input
    BY <2>1
  <2>3. Wired(A)
    BY DEF Wired
  <2> HIDE DEF A
  <2> QED
    BY <2>2, <2>3, MessageReads, Zenon DEF ClientReadsMessage
<1> QED
  BY <1>1, InputType, PTL
=============================================================================
