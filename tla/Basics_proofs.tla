---------------------------- MODULE Basics_proofs ----------------------------
(***************************************************************************)
(* Facts the other proofs rest on: what pushing, popping and erasing do to *)
(* a queue without repetitions, and the extreme members of sets of numbers.*)
(***************************************************************************)
EXTENDS Queues, FiniteSets, FiniteSetTheorems, WellFoundedInduction, TLAPS

(***************************************************************************)
(* Erasing an element of a queue without repetitions (a peer among the      *)
(* entries of a block) leaves the other elements, each of them once.        *)
(***************************************************************************)
LEMMA WithoutLemma ==
    ASSUME NEW S, NEW s \in Seq(S), IsInjective(s), NEW e
    PROVE  /\ Without(s, e) \in Seq(S)
           /\ Range(Without(s, e)) = Range(s) \ {e}
           /\ IsInjective(Without(s, e))
           /\ Len(Without(s, e)) <= Len(s)
<1>1. CASE e \notin Range(s)
  BY <1>1 DEF Without, Range
<1>2. CASE e \in Range(s)
  <2> DEFINE k == CHOOSE i \in DOMAIN s : s[i] = e
             t == [i \in 1 .. (Len(s) - 1) |-> IF i < k THEN s[i] ELSE s[i + 1]]
  <2>1. Without(s, e) = t
    BY <1>2 DEF Without
  <2>2. DOMAIN s = 1 .. Len(s) /\ Len(s) \in Nat
    OBVIOUS
  <2>3. k \in 1 .. Len(s) /\ s[k] = e
    BY <1>2, <2>2 DEF Range
  <2> HIDE DEF k
  <2>4. t \in Seq(S) /\ Len(t) = Len(s) - 1 /\ DOMAIN t = 1 .. (Len(s) - 1)
    BY <2>2, <2>3
  <2>5. \A i, j \in DOMAIN s : s[i] = s[j] => i = j
    BY DEF IsInjective
  <2>6. \A x \in Range(t) : x \in Range(s) \ {e}
    BY <2>2, <2>3, <2>4, <2>5 DEF Range
  <2>7. ASSUME NEW x \in Range(s) \ {e} PROVE x \in Range(t)
    <3>1. PICK i \in 1 .. Len(s) : s[i] = x
      BY <2>2 DEF Range
    <3>2. CASE i < k
      <4>1. i \in DOMAIN t /\ t[i] = x
        BY <3>1, <3>2, <2>2, <2>3, <2>4
      <4> QED BY <4>1 DEF Range
    <3>3. CASE i > k
      <4>1. i - 1 \in DOMAIN t /\ t[i - 1] = x
        BY <3>1, <3>3, <2>3, <2>4, <2>2
      <4> QED BY <4>1 DEF Range
    <3> QED BY <3>1, <3>2, <3>3, <2>3, <2>2
  <2>8. IsInjective(t)
    BY <2>2, <2>3, <2>4, <2>5 DEF IsInjective
  <2>9. Range(t) = Range(s) \ {e}
    BY <2>6, <2>7
  <2> HIDE DEF t
  <2> QED BY <2>1, <2>2, <2>4, <2>8, <2>9
<1> QED BY <1>1, <1>2

(***************************************************************************)
(* Pushing a new element behind the others (a request, an announcement).   *)
(***************************************************************************)
LEMMA AppendLemma ==
    ASSUME NEW S, NEW s \in Seq(S), IsInjective(s), NEW e \in S, e \notin Range(s)
    PROVE  /\ Append(s, e) \in Seq(S)
           /\ Range(Append(s, e)) = Range(s) \cup {e}
           /\ IsInjective(Append(s, e))
           /\ Len(Append(s, e)) = Len(s) + 1
<1> DEFINE t == Append(s, e)
<1>1. /\ t \in Seq(S) /\ Len(t) = Len(s) + 1 /\ Len(s) \in Nat
      /\ DOMAIN t = 1 .. (Len(s) + 1) /\ DOMAIN s = 1 .. Len(s)
      /\ \A i \in 1 .. Len(s) : t[i] = s[i]
      /\ t[Len(s) + 1] = e
  OBVIOUS
<1> HIDE DEF t
<1>2. Range(t) = Range(s) \cup {e}
  <2>1. ASSUME NEW i \in DOMAIN t PROVE t[i] \in Range(s) \cup {e}
    <3>1. CASE i \in 1 .. Len(s)
      <4>1. i \in DOMAIN s /\ t[i] = s[i]
        BY <1>1, <3>1
      <4> QED BY <4>1 DEF Range
    <3>2. CASE i = Len(s) + 1
      BY <1>1, <3>2
    <3> QED BY <1>1, <3>1, <3>2
  <2>2. ASSUME NEW i \in DOMAIN s PROVE s[i] \in Range(t)
    <3>1. i \in DOMAIN t /\ t[i] = s[i]
      BY <1>1
    <3> QED BY <3>1 DEF Range
  <2>3. e \in Range(t)
    <3>1. Len(s) + 1 \in DOMAIN t /\ t[Len(s) + 1] = e
      BY <1>1
    <3> QED BY <3>1 DEF Range
  <2>4. \A x \in Range(s) : x \in Range(t)
    BY <2>2 DEF Range
  <2>5. \A x \in Range(t) : x \in Range(s) \cup {e}
    BY <2>1 DEF Range
  <2> QED BY <2>3, <2>4, <2>5
<1>3. IsInjective(t)
  BY <1>1 DEF Range, IsInjective
<1> QED BY <1>1, <1>2, <1>3 DEF t

(***************************************************************************)
(* A container is empty exactly when it has no elements.                   *)
(***************************************************************************)
LEMMA EmptySeqLemma ==
    ASSUME NEW S
    PROVE  /\ <<>> \in Seq(S) /\ Range(<<>>) = {} /\ IsInjective(<<>>) /\ Len(<<>>) = 0
           /\ \A s \in Seq(S) : Range(s) = {} <=> s = <<>>
<1>1. <<>> \in Seq(S) /\ Range(<<>>) = {} /\ IsInjective(<<>>) /\ Len(<<>>) = 0
  BY DEF Range, IsInjective
<1>2. ASSUME NEW s \in Seq(S), s # <<>> PROVE Range(s) # {}
  <2>1. Len(s) \in Nat /\ Len(s) # 0 /\ DOMAIN s = 1 .. Len(s)
    BY <1>2
  <2>2. 1 \in DOMAIN s
    BY <2>1
  <2> QED BY <2>2 DEF Range
<1> QED BY <1>1, <1>2

(***************************************************************************)
(* A container with one entry, as FetchBlock leaves it.                    *)
(***************************************************************************)
LEMMA SingletonSeqLemma ==
    ASSUME NEW S, NEW e \in S
    PROVE  /\ <<e>> \in Seq(S) /\ Range(<<e>>) = {e} /\ IsInjective(<<e>>) /\ Len(<<e>>) = 1
BY DEF Range, IsInjective

(***************************************************************************)
(* It makes the queue shorter, and the first element stays the first       *)
(* unless it is the one erased.                                            *)
(***************************************************************************)
LEMMA WithoutFront ==
    ASSUME NEW S, NEW s \in Seq(S), IsInjective(s), NEW e \in Range(s)
    PROVE  /\ Len(Without(s, e)) = Len(s) - 1
           /\ Head(s) # e => Head(Without(s, e)) = Head(s)
<1> DEFINE t == Without(s, e)
           k == CHOOSE i \in DOMAIN s : s[i] = e
<1>1. k \in DOMAIN s /\ s[k] = e
  BY DEF Range
<1>2. t = [i \in 1 .. (Len(s) - 1) |-> IF i < k THEN s[i] ELSE s[i + 1]]
  BY DEF Without
<1>3. t \in Seq(S)
  BY WithoutLemma
<1> HIDE DEF k, t
<1>4. k \in 1 .. Len(s) /\ Len(s) \in Nat
  BY <1>1
<1>5. Len(t) = Len(s) - 1
  <2>1. DOMAIN t = 1 .. (Len(s) - 1) /\ DOMAIN t = 1 .. Len(t) /\ Len(t) \in Nat
    BY <1>2, <1>3
  <2>2. Len(s) - 1 \in Nat
    BY <1>4
  <2> QED BY <2>1, <2>2
<1>6. ASSUME Head(s) # e PROVE Head(t) = Head(s)
  <2>1. Head(s) = s[1] /\ k # 1
    BY <1>1, <1>4, <1>6
  <2>2. 1 \in 1 .. (Len(s) - 1) /\ 1 < k
    BY <1>4, <2>1
  <2>3. t[1] = s[1]
    BY <1>2, <2>2
  <2>4. t # <<>>
    BY <1>2, <2>2
  <2> QED BY <1>3, <2>1, <2>3, <2>4
<1> QED BY <1>5, <1>6 DEF t

(***************************************************************************)
(* Popping the front of a queue without repetitions leaves the others.     *)
(***************************************************************************)
LEMMA TailLemma ==
    ASSUME NEW S, NEW s \in Seq(S), IsInjective(s), s # <<>>
    PROVE  /\ Tail(s) \in Seq(S)
           /\ Range(Tail(s)) = Range(s) \ {Head(s)}
           /\ IsInjective(Tail(s))
           /\ Len(Tail(s)) = Len(s) - 1
           /\ Head(s) \in Range(s)
<1> DEFINE t == Tail(s)
<1>1. /\ t \in Seq(S) /\ Len(s) \in Nat \ {0} /\ Len(t) = Len(s) - 1
      /\ DOMAIN t = 1 .. (Len(s) - 1) /\ DOMAIN s = 1 .. Len(s)
      /\ \A i \in 1 .. (Len(s) - 1) : t[i] = s[i + 1]
      /\ Head(s) = s[1]
  OBVIOUS
<1>2. \A i, j \in DOMAIN s : s[i] = s[j] => i = j
  BY DEF IsInjective
<1> HIDE DEF t
<1>3. IsInjective(t)
  <2>1. ASSUME NEW i \in DOMAIN t, NEW j \in DOMAIN t, t[i] = t[j] PROVE i = j
    <3>1. i + 1 \in DOMAIN s /\ j + 1 \in DOMAIN s /\ s[i + 1] = s[j + 1]
      BY <1>1, <2>1
    <3>2. i + 1 = j + 1 /\ i \in Nat /\ j \in Nat
      BY <1>1, <1>2, <3>1
    <3> QED BY <3>2
  <2> QED BY <2>1 DEF IsInjective
<1>4. Head(s) \in Range(s)
  <2>1. 1 \in DOMAIN s /\ s[1] = Head(s)
    BY <1>1
  <2> QED BY <2>1 DEF Range
<1>5. ASSUME NEW x \in Range(t) PROVE x \in Range(s) \ {Head(s)}
  <2>1. PICK i \in DOMAIN t : t[i] = x
    BY DEF Range
  <2>2. i + 1 \in DOMAIN s /\ s[i + 1] = x /\ 1 \in DOMAIN s /\ i + 1 # 1
    BY <1>1, <2>1
  <2>3. x # Head(s)
    BY <1>1, <1>2, <2>2
  <2> QED BY <2>2, <2>3 DEF Range
<1>6. ASSUME NEW x \in Range(s) \ {Head(s)} PROVE x \in Range(t)
  <2>1. PICK i \in DOMAIN s : s[i] = x
    BY DEF Range
  <2>2. i # 1
    BY <1>1, <2>1
  <2>3. i - 1 \in DOMAIN t /\ t[i - 1] = x
    BY <1>1, <2>1, <2>2
  <2> QED BY <2>3 DEF Range
<1>7. Range(t) = Range(s) \ {Head(s)}
  BY <1>5, <1>6
<1> QED BY <1>1, <1>3, <1>4, <1>7 DEF t

(***************************************************************************)
(* The first element of a sequence is one of its elements.                 *)
(***************************************************************************)
LEMMA HeadLemma ==
    ASSUME NEW S, NEW s \in Seq(S), s # <<>>
    PROVE  Head(s) \in Range(s)
<1>1. 1 \in DOMAIN s /\ Head(s) = s[1]
  OBVIOUS
<1> QED BY <1>1, Zenon DEF Range

(***************************************************************************)
(* A queue with an element is not empty.                                   *)
(***************************************************************************)
LEMMA InQueue == ASSUME NEW s, NEW e \in Range(s) PROVE s # <<>>
BY DEF Range

(***************************************************************************)
(* Pushing an element unless it is there, as BlockRequested does: it is    *)
(* the first only of an empty queue.                                       *)
(***************************************************************************)
LEMMA PushedOnce ==
    ASSUME NEW S, NEW s \in Seq(S), IsInjective(s), NEW e \in S,
           NEW t, t = IF e \in Range(s) THEN s ELSE Append(s, e)
    PROVE  /\ s = <<>> => Head(t) = e
           /\ e \notin Range(s) =>
                 /\ Range(t) = Range(s) \cup {e} /\ Len(t) = Len(s) + 1
                 /\ s # <<>> => Head(t) # e
<1>1. CASE e \in Range(s)
  BY <1>1, InQueue
<1>2. CASE e \notin Range(s)
  <2>1. t = Append(s, e)
    BY <1>2
  <2>2. Range(t) = Range(s) \cup {e} /\ Len(t) = Len(s) + 1
    BY <1>2, <2>1, AppendLemma
  <2>3. s = <<>> => Head(t) = e
    BY <2>1
  <2>4. ASSUME s # <<>> PROVE Head(t) # e
    <3>1. Head(t) = Head(s)
      BY <2>1, <2>4
    <3> QED BY <1>2, <2>4, <3>1, HeadLemma
  <2> QED BY <1>2, <2>2, <2>3, <2>4, Zenon
<1> QED BY <1>1, <1>2

(***************************************************************************)
(* A non-empty set of heights has a highest member.                        *)
(***************************************************************************)
LEMMA HighestExists ==
    ASSUME NEW n \in Nat, NEW S \in SUBSET (0 .. n), S # {}
    PROVE  \E m \in S : \A s \in S : s <= m
<1> DEFINE U == {u \in Nat : \A s \in S : s <= u}
<1>1. U # {} /\ U \subseteq Nat
  <2>1. n \in U
    OBVIOUS
  <2> QED BY <2>1
<1>2. \E x \in U : \A y \in U : ~ (<<y, x>> \in OpToRel(<, Nat))
  <2> HIDE DEF U
  <2> QED BY <1>1, NatLessThanWellFounded, WFMin, Zenon
<1>3. PICK m \in U : \A y \in U : ~ (y < m)
  BY <1>2, Zenon DEF OpToRel
<1>4. m \in S
  <2>1. SUFFICES ASSUME m \notin S PROVE FALSE
    OBVIOUS
  <2>2. \A s \in S : s <= m - 1 /\ s >= 0
    BY <1>3, <2>1
  <2>3. m - 1 \in Nat
    <3>1. PICK s \in S : TRUE
      BY Zenon
    <3>2. s \in Nat /\ m \in Nat /\ s <= m - 1
      BY <1>3, <2>2
    <3> QED BY <3>2
  <2>4. m - 1 \in U /\ m - 1 < m
    BY <2>2, <2>3
  <2> QED BY <2>4, <1>3
<1> QED BY <1>3, <1>4

(***************************************************************************)
(* And a lowest one.                                                       *)
(***************************************************************************)
LEMMA LowestExists ==
    ASSUME NEW n \in Nat, NEW S \in SUBSET (1 .. n), S # {}
    PROVE  \E m \in S : \A s \in S : m <= s
<1>1. S \subseteq Nat
  OBVIOUS
<1>2. PICK m \in S : \A s \in S : ~ (<<s, m>> \in OpToRel(<, Nat))
  BY <1>1, NatLessThanWellFounded, WFMin, Zenon
<1>3. \A s \in S : ~ (s < m)
  BY <1>1, <1>2, Zenon DEF OpToRel
<1> QED BY <1>1, <1>3

(***************************************************************************)
(* A finite set of numbers has a greatest member.                          *)
(***************************************************************************)
LEMMA GreatestExists ==
    ASSUME NEW S \in SUBSET Nat, IsFiniteSet(S), S # {}
    PROVE  \E m \in S : \A s \in S : s <= m
<1> DEFINE Above(p) == {s \in S : s > p}
           C == {Cardinality(Above(p)) : p \in S}
<1>1. \A p \in S : IsFiniteSet(Above(p)) /\ Cardinality(Above(p)) \in Nat
  BY FS_Subset, FS_CardinalityType
<1>2. C \subseteq Nat /\ C # {}
  BY <1>1, Zenon
<1>3. PICK c \in C : \A d \in C : ~ (<<d, c>> \in OpToRel(<, Nat))
  <2> HIDE DEF C
  <2> QED BY <1>2, NatLessThanWellFounded, WFMin, Zenon
<1>4. \A d \in C : ~ (d < c)
  BY <1>2, <1>3, Zenon DEF OpToRel
<1>5. PICK m \in S : c = Cardinality(Above(m))
  OBVIOUS
<1>6. ASSUME NEW s \in S, ~ (s <= m) PROVE FALSE
  <2>0. s \in Nat /\ m \in Nat /\ m < s /\ \A x \in S : x \in Nat
    BY <1>6
  <2>1. Above(s) \subseteq Above(m) /\ s \in Above(m) /\ s \notin Above(s)
    <3>1. \A x \in S : x > s => x > m
      BY <2>0
    <3>2. s > m /\ ~ (s > s)
      BY <2>0
    <3> QED BY <3>1, <3>2, Zenon
  <2>2. Cardinality(Above(s)) <= Cardinality(Above(m)) /\ Cardinality(Above(s)) # Cardinality(Above(m))
    BY <1>1, <2>1, FS_Subset
  <2>3. Cardinality(Above(s)) < c
    BY <1>1, <1>5, <2>2
  <2> QED BY <1>4, <2>3
<1> QED BY <1>6
==============================================================================
