--------------------------- MODULE SequenceFacts ---------------------------
(***************************************************************************)
(* Facts about sequences and finite index sets that the proofs about       *)
(* tables, queues and packet streams keep needing: what ToSet and          *)
(* IsInjective become when a sequence grows, shrinks or has an entry       *)
(* deleted the way stb_ds's hmdel does, and that Max is well defined on a  *)
(* set of positions.                                                       *)
(***************************************************************************)
EXTENDS SequencesExt, SequenceTheorems, WellFoundedInduction, TLAPS

\* Nothing is in the empty sequence.
LEMMA EmptyFacts ==
    /\ ToSet(<<>>) = {}
    /\ IsInjective(<<>>)
  BY DEF ToSet, IsInjective

\* One thing is in a sequence of one.
LEMMA SingletonFacts ==
    ASSUME NEW e
    PROVE  ToSet(<<e>>) = {e} /\ IsInjective(<<e>>)
<1>1. DOMAIN <<e>> = {1} /\ <<e>>[1] = e
  OBVIOUS
<1> QED
  BY <1>1 DEF ToSet, IsInjective

\* The positions of a sequence tell its length.
LEMMA LenOfDomain ==
    ASSUME NEW S, NEW s \in Seq(S), NEW n \in Nat, DOMAIN s = 1 .. n
    PROVE  Len(s) = n
<1>1. Len(s) \in Nat /\ 1 .. Len(s) = 1 .. n
  BY LenProperties
<1>2. Len(s) <= n
  <2>1. Len(s) > 0 => Len(s) \in 1 .. n
    BY <1>1
  <2> QED
    BY <1>1, <2>1
<1>3. n <= Len(s)
  <2>1. n > 0 => n \in 1 .. Len(s)
    BY <1>1
  <2> QED
    BY <1>1, <2>1
<1> QED
  BY <1>1, <1>2, <1>3

\* What is in a sequence is at one of its positions.
LEMMA ToSetMembers ==
    ASSUME NEW S, NEW s \in Seq(S)
    PROVE  /\ ToSet(s) \subseteq S
           /\ \A i \in 1 .. Len(s) : s[i] \in ToSet(s)
           /\ \A x \in ToSet(s) : \E i \in 1 .. Len(s) : s[i] = x
  BY LenProperties DEF ToSet

\* A sequence without members is empty.
LEMMA ToSetEmpty ==
    ASSUME NEW S, NEW s \in Seq(S)
    PROVE  ToSet(s) = {} <=> s = <<>>
<1>1. s # <<>> => Len(s) \in Nat \ {0}
  BY EmptySeq
<1>2. s # <<>> => 1 \in 1 .. Len(s)
  BY <1>1
<1> QED
  BY <1>2, EmptyFacts, ToSetMembers

\* A sequence is injective if no member is at two positions.
LEMMA InjectiveMeans ==
    ASSUME NEW S, NEW s \in Seq(S)
    PROVE  IsInjective(s) <=> \A i, j \in 1 .. Len(s) : s[i] = s[j] => i = j
  BY LenProperties DEF IsInjective

\* Append adds a member, which is new or not.
LEMMA AppendFacts ==
    ASSUME NEW S, NEW s \in Seq(S), NEW e \in S
    PROVE  /\ ToSet(Append(s, e)) = ToSet(s) \cup {e}
           /\ IsInjective(s) /\ e \notin ToSet(s) => IsInjective(Append(s, e))
<1> DEFINE t == Append(s, e)
<1>1. /\ t \in Seq(S) /\ Len(t) = Len(s) + 1 /\ Len(s) \in Nat
      /\ \A i \in 1 .. Len(s) : t[i] = s[i]
      /\ t[Len(s) + 1] = e
  BY AppendProperties, LenProperties
<1> HIDE DEF t
<1>2. \A i \in 1 .. Len(t) : i = Len(s) + 1 \/ i \in 1 .. Len(s)
  BY <1>1
<1>3. ToSet(t) = ToSet(s) \cup {e}
  <2>1. ToSet(t) \subseteq ToSet(s) \cup {e}
    BY <1>1, <1>2, ToSetMembers
  <2>2. ToSet(s) \cup {e} \subseteq ToSet(t)
    <3>1. \A i \in 1 .. Len(s) : i \in 1 .. Len(t)
      BY <1>1
    <3>2. Len(s) + 1 \in 1 .. Len(t)
      BY <1>1
    <3> QED
      BY <1>1, <3>1, <3>2, ToSetMembers
  <2> QED
    BY <2>1, <2>2
<1>4. IsInjective(s) /\ e \notin ToSet(s) => IsInjective(t)
  <2> SUFFICES ASSUME IsInjective(s), e \notin ToSet(s),
                      NEW i \in 1 .. Len(t), NEW j \in 1 .. Len(t), t[i] = t[j]
               PROVE  i = j
    BY <1>1, InjectiveMeans
  <2>1. \A k \in 1 .. Len(s) : s[k] # e
    BY ToSetMembers
  <2> QED
    BY <1>1, <1>2, <2>1, InjectiveMeans
<1> QED
  BY <1>3, <1>4 DEF t

\* Tail takes the first member away, and all of it if there is no other.
LEMMA TailFacts ==
    ASSUME NEW S, NEW s \in Seq(S), s # <<>>
    PROVE  /\ Head(s) \in ToSet(s)
           /\ ToSet(s) = {Head(s)} \cup ToSet(Tail(s))
           /\ IsInjective(s) => /\ IsInjective(Tail(s))
                                /\ Head(s) \notin ToSet(Tail(s))
<1> DEFINE t == Tail(s)
<1>1. /\ t \in Seq(S) /\ Len(s) \in Nat \ {0} /\ Len(t) = Len(s) - 1
      /\ \A i \in 1 .. Len(t) : t[i] = s[i + 1]
      /\ Head(s) = s[1]
  BY HeadTailProperties, EmptySeq
<1> HIDE DEF t
<1>2. 1 \in 1 .. Len(s) /\ \A i \in 1 .. Len(t) : i + 1 \in 1 .. Len(s)
  BY <1>1
<1>3. \A i \in 1 .. Len(s) : i = 1 \/ (i - 1 \in 1 .. Len(t) /\ s[i] = t[i - 1])
  BY <1>1
<1>4. Head(s) \in ToSet(s)
  BY <1>1, <1>2, ToSetMembers
<1>5. ToSet(s) = {Head(s)} \cup ToSet(t)
  <2>1. ToSet(t) \subseteq ToSet(s)
    BY <1>1, <1>2, ToSetMembers
  <2>2. \A i \in 1 .. Len(t) : t[i] \in ToSet(t)
    BY <1>1, ToSetMembers
  <2>3. \A x \in ToSet(s) : \E i \in 1 .. Len(s) : s[i] = x
    BY ToSetMembers
  <2>4. ToSet(s) \subseteq {Head(s)} \cup ToSet(t)
    BY <1>1, <1>3, <2>2, <2>3
  <2> QED
    BY <1>4, <2>1, <2>4
<1>6. IsInjective(s) => IsInjective(t) /\ Head(s) \notin ToSet(t)
  <2> SUFFICES ASSUME IsInjective(s)
               PROVE  IsInjective(t) /\ Head(s) \notin ToSet(t)
    OBVIOUS
  <2>1. \A i, j \in 1 .. Len(s) : s[i] = s[j] => i = j
    BY InjectiveMeans
  <2>2. \A i, j \in 1 .. Len(t) : t[i] = t[j] => i = j
    <3> SUFFICES ASSUME NEW i \in 1 .. Len(t), NEW j \in 1 .. Len(t), t[i] = t[j]
                 PROVE  i = j
      OBVIOUS
    <3>1. s[i + 1] = s[j + 1]
      BY <1>1
    <3>2. i + 1 = j + 1
      BY <1>2, <2>1, <3>1
    <3> QED
      BY <3>2
  <2>3. \A i \in 1 .. Len(t) : t[i] # s[1]
    <3> SUFFICES ASSUME NEW i \in 1 .. Len(t), s[i + 1] = s[1]
                 PROVE  FALSE
      BY <1>1
    <3>1. i + 1 = 1
      BY <1>2, <2>1
    <3> QED
      BY <3>1
  <2>4. IsInjective(t)
    BY <1>1, <2>2, InjectiveMeans
  <2>5. ASSUME Head(s) \in ToSet(t) PROVE FALSE
    <3>1. PICK i \in 1 .. Len(t) : t[i] = Head(s)
      BY <1>1, <2>5, ToSetMembers
    <3> QED
      BY <1>1, <2>3, <3>1
  <2> QED
    BY <2>4, <2>5
<1> QED
  BY <1>4, <1>5, <1>6 DEF t

\* Of a concatenation: each part is injective and they share nothing.
LEMMA ConcatFacts ==
    ASSUME NEW S, NEW s \in Seq(S), NEW t \in Seq(S)
    PROVE  /\ ToSet(s \o t) = ToSet(s) \cup ToSet(t)
           /\ IsInjective(s \o t) <=>
                  IsInjective(s) /\ IsInjective(t) /\ ToSet(s) \cap ToSet(t) = {}
<1> DEFINE u == s \o t
<1>1. /\ u \in Seq(S) /\ Len(s) \in Nat /\ Len(t) \in Nat
      /\ Len(u) = Len(s) + Len(t)
      /\ \A i \in 1 .. Len(s) + Len(t) : u[i] = IF i <= Len(s) THEN s[i] ELSE t[i - Len(s)]
  BY ConcatProperties, LenProperties
<1> HIDE DEF u
<1>2. \A i \in 1 .. Len(s) : i \in 1 .. Len(u) /\ u[i] = s[i]
  BY <1>1
<1>3. \A i \in 1 .. Len(t) : i + Len(s) \in 1 .. Len(u) /\ u[i + Len(s)] = t[i]
  BY SMTT(30), <1>1
<1>4. \A i \in 1 .. Len(u) : \/ i \in 1 .. Len(s) /\ u[i] = s[i]
                             \/ i > Len(s) /\ i - Len(s) \in 1 .. Len(t) /\ u[i] = t[i - Len(s)]
  BY <1>1
<1>5. ToSet(u) = ToSet(s) \cup ToSet(t)
  <2>1. /\ \A i \in 1 .. Len(u) : u[i] \in ToSet(u)
        /\ \A x \in ToSet(u) : \E i \in 1 .. Len(u) : u[i] = x
    BY <1>1, ToSetMembers
  <2>2. /\ \A i \in 1 .. Len(s) : s[i] \in ToSet(s)
        /\ \A x \in ToSet(s) : \E i \in 1 .. Len(s) : s[i] = x
    BY ToSetMembers
  <2>3. /\ \A i \in 1 .. Len(t) : t[i] \in ToSet(t)
        /\ \A x \in ToSet(t) : \E i \in 1 .. Len(t) : t[i] = x
    BY ToSetMembers
  <2>4. ToSet(s) \subseteq ToSet(u)
    BY <1>2, <2>1, <2>2
  <2>5. ToSet(t) \subseteq ToSet(u)
    BY <1>3, <2>1, <2>3
  <2>6. ToSet(u) \subseteq ToSet(s) \cup ToSet(t)
    <3> SUFFICES ASSUME NEW i \in 1 .. Len(u)
                 PROVE  u[i] \in ToSet(s) \cup ToSet(t)
      BY <2>1
    <3> QED
      BY <1>4, <2>2, <2>3
  <2> QED
    BY <2>4, <2>5, <2>6
<1>6. ASSUME IsInjective(u)
      PROVE  IsInjective(s) /\ IsInjective(t) /\ ToSet(s) \cap ToSet(t) = {}
  <2>1. \A i, j \in 1 .. Len(u) : u[i] = u[j] => i = j
    BY <1>1, <1>6, InjectiveMeans
  <2>2. \A i, j \in 1 .. Len(s) : s[i] = s[j] => i = j
    BY <1>2, <2>1
  <2>3. \A i, j \in 1 .. Len(t) : t[i] = t[j] => i = j
    <3> SUFFICES ASSUME NEW i \in 1 .. Len(t), NEW j \in 1 .. Len(t), t[i] = t[j]
                 PROVE  i = j
      OBVIOUS
    <3>1. i + Len(s) = j + Len(s)
      BY <1>3, <2>1
    <3> QED
      BY <1>1, <3>1
  <2>4. \A i \in 1 .. Len(s), j \in 1 .. Len(t) : s[i] # t[j]
    <3> SUFFICES ASSUME NEW i \in 1 .. Len(s), NEW j \in 1 .. Len(t), s[i] = t[j]
                 PROVE  FALSE
      OBVIOUS
    <3>1. i = j + Len(s)
      BY <1>2, <1>3, <2>1
    <3> QED
      BY <1>1, <3>1
  <2>5. ToSet(s) \cap ToSet(t) = {}
    BY <2>4, ToSetMembers
  <2> QED
    BY <2>2, <2>3, <2>5, InjectiveMeans
<1>7. ASSUME IsInjective(s), IsInjective(t), ToSet(s) \cap ToSet(t) = {}
      PROVE  IsInjective(u)
  <2>1. /\ \A i, j \in 1 .. Len(s) : s[i] = s[j] => i = j
        /\ \A i, j \in 1 .. Len(t) : t[i] = t[j] => i = j
    BY <1>7, InjectiveMeans
  <2>2. \A i \in 1 .. Len(s), j \in 1 .. Len(t) : s[i] # t[j]
    BY <1>7, ToSetMembers
  <2> SUFFICES ASSUME NEW i \in 1 .. Len(u), NEW j \in 1 .. Len(u), u[i] = u[j]
               PROVE  i = j
    BY <1>1, InjectiveMeans
  <2>3. CASE i \in 1 .. Len(s) /\ j \in 1 .. Len(s)
    BY <1>2, <2>1, <2>3
  <2>4. CASE i \notin 1 .. Len(s) /\ j \notin 1 .. Len(s)
    <3>1. i - Len(s) = j - Len(s)
      BY <1>4, <2>1, <2>4
    <3> QED
      BY <1>1, <3>1
  <2>5. CASE i \in 1 .. Len(s) <=> j \notin 1 .. Len(s)
    BY <1>4, <2>2, <2>5
  <2> QED
    BY <2>3, <2>4, <2>5
<1> QED
  BY <1>5, <1>6, <1>7 DEF u

\* What is in a sequence whose last entry went where another was.
LEMMA ReplacedFacts ==
    ASSUME NEW S, NEW s \in Seq(S), NEW i \in 1 .. Len(s), IsInjective(s),
           NEW d \in Seq(S), Len(d) = Len(s) - 1,
           \A k \in 1 .. Len(d) : d[k] = IF k = i THEN s[Len(s)] ELSE s[k]
    PROVE  IsInjective(d) /\ ToSet(d) = ToSet(s) \ {s[i]}
<1>1. Len(s) \in Nat \ {0}
  BY LenProperties
<1>2. \A k, l \in 1 .. Len(s) : s[k] = s[l] => k = l
  BY InjectiveMeans
<1>3. /\ \A k \in 1 .. Len(s) : s[k] \in ToSet(s)
      /\ \A x \in ToSet(s) : \E k \in 1 .. Len(s) : s[k] = x
  BY ToSetMembers
<1>4. /\ \A k \in 1 .. Len(d) : d[k] \in ToSet(d)
      /\ \A x \in ToSet(d) : \E k \in 1 .. Len(d) : d[k] = x
  BY ToSetMembers
<1>5. \A k \in 1 .. Len(d) : k \in 1 .. Len(s) /\ k # Len(s)
  BY <1>1
<1>6. Len(s) \in 1 .. Len(s)
  BY <1>1
<1>7. IsInjective(d)
  <2>1. \A k, l \in 1 .. Len(d) : d[k] = d[l] => k = l
    BY <1>2, <1>5, <1>6
  <2> QED
    BY <2>1, InjectiveMeans
<1>8. ToSet(d) \subseteq ToSet(s) \ {s[i]}
  <2> SUFFICES ASSUME NEW k \in 1 .. Len(d)
               PROVE  d[k] \in ToSet(s) /\ d[k] # s[i]
    BY <1>4
  <2>1. d[k] = IF k = i THEN s[Len(s)] ELSE s[k]
    OBVIOUS
  <2> QED
    BY <1>2, <1>3, <1>5, <1>6, <2>1
<1>9. ToSet(s) \ {s[i]} \subseteq ToSet(d)
  <2> SUFFICES ASSUME NEW k \in 1 .. Len(s), s[k] # s[i]
               PROVE  s[k] \in ToSet(d)
    BY <1>3
  <2>1. CASE k = Len(s)
    <3>1. i \in 1 .. Len(d)
      BY <1>1, <2>1
    <3> QED
      BY <1>4, <2>1, <3>1
  <2>2. CASE k # Len(s)
    <3>1. k \in 1 .. Len(d) /\ k # i
      BY <1>1, <2>2
    <3> QED
      BY <1>4, <3>1
  <2> QED
    BY <2>1, <2>2
<1> QED
  BY <1>7, <1>8, <1>9

\* Front leaves the last entry out.
LEMMA FrontIs ==
    ASSUME NEW S, NEW s \in Seq(S), s # <<>>
    PROVE  /\ Front(s) \in Seq(S)
           /\ Len(Front(s)) = Len(s) - 1
           /\ \A k \in 1 .. Len(Front(s)) : Front(s)[k] = s[k]
           /\ Last(s) = s[Len(s)] /\ Len(s) \in 1 .. Len(s)
<1>1. Len(s) \in Nat \ {0} /\ s \in [1 .. Len(s) -> S]
  BY LenProperties, EmptySeq
<1>2. Front(s) = SubSeq(s, 1, Len(s) - 1)
  BY DEF Front
<1>3. /\ SubSeq(s, 1, Len(s) - 1) \in Seq(S)
      /\ Len(SubSeq(s, 1, Len(s) - 1)) = Len(s) - 1
  <2>1. \A k \in 1 .. Len(s) - 1 : s[k] \in S
    BY <1>1
  <2>2. Len(SubSeq(s, 1, Len(s) - 1)) = IF 1 <= Len(s) - 1 THEN Len(s) - 1 - 1 + 1 ELSE 0
    BY <1>1, <2>1, SubSeqProperties
  <2>3. SubSeq(s, 1, Len(s) - 1) \in Seq(S)
    BY <1>1, <2>1, SubSeqProperties
  <2> QED
    BY <1>1, <2>2, <2>3
<1>4. \A k \in 1 .. Len(s) - 1 : SubSeq(s, 1, Len(s) - 1)[k] = s[k]
  <2>1. \A k \in 1 .. Len(s) - 1 : s[k] \in S
    BY <1>1
  <2>2. \A k \in 1 .. Len(s) - 1 - 1 + 1 : SubSeq(s, 1, Len(s) - 1)[k] = s[1 + k - 1]
    BY <1>1, <2>1, SubSeqProperties
  <2> QED
    BY <1>1, <2>2
<1> QED
  BY <1>1, <1>2, <1>3, <1>4 DEF Last

\* hmdel's way of deleting: the last entry takes the place of the deleted one.
Without(s, i) ==
    IF i = Len(s) THEN Front(s) ELSE [Front(s) EXCEPT ![i] = Last(s)]

\* It takes that one member away.
LEMMA WithoutFacts ==
    ASSUME NEW S, NEW s \in Seq(S), NEW i \in 1 .. Len(s), IsInjective(s)
    PROVE  /\ Without(s, i) \in Seq(S)
           /\ IsInjective(Without(s, i))
           /\ ToSet(Without(s, i)) = ToSet(s) \ {s[i]}
<1> DEFINE d == Without(s, i)
<1> HIDE DEF d
<1>1. Len(s) \in Nat \ {0}
  BY LenProperties
<1>2. /\ Front(s) \in Seq(S)
      /\ Len(Front(s)) = Len(s) - 1
      /\ \A k \in 1 .. Len(Front(s)) : Front(s)[k] = s[k]
      /\ Last(s) = s[Len(s)] /\ Len(s) \in 1 .. Len(s)
  <2>1. s # <<>>
    BY <1>1, EmptySeq
  <2> QED
    BY <2>1, FrontIs
<1>3. /\ d \in Seq(S)
      /\ Len(d) = Len(s) - 1
      /\ \A k \in 1 .. Len(d) : d[k] = IF k = i THEN s[Len(s)] ELSE s[k]
  <2>1. CASE i = Len(s)
    <3>1. d = Front(s)
      BY <2>1 DEF d, Without
    <3>2. \A k \in 1 .. Len(s) - 1 : k # i
      BY <1>1, <2>1
    <3> QED
      BY <1>2, <3>1, <3>2
  <2>2. CASE i # Len(s)
    <3>0. Last(s) \in S
      BY <1>2, ElementOfSeq
    <3>1. i \in 1 .. Len(Front(s))
      BY <1>1, <1>2, <2>2
    <3>2. d = [Front(s) EXCEPT ![i] = Last(s)]
      BY <2>2 DEF d, Without
    <3>3. /\ [Front(s) EXCEPT ![i] = Last(s)] \in Seq(S)
          /\ Len([Front(s) EXCEPT ![i] = Last(s)]) = Len(Front(s))
          /\ \A k \in 1 .. Len(Front(s)) :
                 [Front(s) EXCEPT ![i] = Last(s)][k] = IF k = i THEN Last(s) ELSE Front(s)[k]
      BY <1>2, <3>0, <3>1, ExceptSeq
    <3> QED
      BY <1>2, <3>2, <3>3
  <2> QED
    BY <2>1, <2>2
<1> QED
  <2>1. IsInjective(d) /\ ToSet(d) = ToSet(s) \ {s[i]}
    BY <1>3, ReplacedFacts
  <2> QED
    BY <1>3, <2>1 DEF d

\* Front takes the last member away, and all of it if there is no other.
LEMMA FrontFacts ==
    ASSUME NEW S, NEW s \in Seq(S), s # <<>>, IsInjective(s)
    PROVE  /\ Front(s) \in Seq(S)
           /\ IsInjective(Front(s))
           /\ ToSet(Front(s)) = ToSet(s) \ {Last(s)}
           /\ Last(s) \in ToSet(s)
<1>1. Len(s) \in 1 .. Len(s) /\ Last(s) = s[Len(s)]
  BY FrontIs
<1>2. Front(s) = Without(s, Len(s))
  BY DEF Without
<1>3. /\ Front(s) \in Seq(S)
      /\ IsInjective(Front(s))
      /\ ToSet(Front(s)) = ToSet(s) \ {s[Len(s)]}
  BY <1>1, <1>2, WithoutFacts
<1> QED
  BY <1>1, <1>3, ToSetMembers

\* A set of positions that is not empty has a greatest one, which Max chooses.
LEMMA MaxFacts ==
    ASSUME NEW n \in Nat, NEW P, P \subseteq 1 .. n, P # {}
    PROVE  Max(P) \in P /\ \A j \in P : Max(P) >= j
<1> DEFINE T == {n - i : i \in P}
           R == OpToRel(<, Nat)
<1>1. T \subseteq Nat /\ T # {}
  <2>1. \A i \in P : n - i \in Nat
    OBVIOUS
  <2>2. \E i \in P : n - i \in T
    OBVIOUS
  <2> QED
    BY <2>1, <2>2
<1>2. PICK x \in T : \A y \in T : ~ (<<y, x>> \in R)
  <2>1. IsWellFoundedOn(R, Nat)
    BY NatLessThanWellFounded
  <2> HIDE DEF T, R
  <2> QED
    BY <1>1, <2>1, WFMin
<1>3. \A y \in T : ~ (y < x)
  BY <1>1, <1>2 DEF OpToRel
<1>4. PICK i \in P : x = n - i
  OBVIOUS
<1>5. \A j \in P : i >= j
  <2> SUFFICES ASSUME NEW j \in P PROVE i >= j
    OBVIOUS
  <2>1. n - j \in T /\ ~ (n - j < n - i)
    BY <1>3, <1>4
  <2>2. i \in Nat /\ j \in Nat
    OBVIOUS
  <2> QED
    BY <2>1, <2>2
<1>6. \E k \in P : \A j \in P : k >= j
  BY <1>5
<1> QED
  BY <1>6 DEF Max

\* A list in two parts, its first entry and the rest.
LEMMA HeadThenTail ==
    ASSUME NEW S, NEW s \in Seq(S), s # <<>>
    PROVE  /\ <<Head(s)>> \in Seq(S) /\ Tail(s) \in Seq(S) /\ s = <<Head(s)>> \o Tail(s)
           /\ DOMAIN <<Head(s)>> = {1} /\ <<Head(s)>>[1] = Head(s)
<1> DEFINE m == Head(s)
           t == Tail(s)
<1>1. /\ m \in S /\ t \in Seq(S) /\ m = s[1]
      /\ Len(s) \in Nat \ {0} /\ Len(t) = Len(s) - 1
      /\ \A i \in 1 .. Len(t) : t[i] = s[i + 1]
  BY HeadTailProperties, EmptySeq
<1>2. <<m>> \in Seq(S) /\ Len(<<m>>) = 1 /\ <<m>>[1] = m /\ DOMAIN <<m>> = {1}
  BY <1>1
<1> HIDE DEF m, t
<1> DEFINE u == <<m>> \o t
<1>3. /\ u \in Seq(S) /\ Len(u) = 1 + Len(t)
      /\ \A i \in 1 .. 1 + Len(t) : u[i] = IF i <= 1 THEN <<m>>[i] ELSE t[i - 1]
  BY <1>1, <1>2, ConcatProperties
<1> HIDE DEF u
<1>4. Len(u) = Len(s)
  BY <1>1, <1>3
<1>5. \A i \in 1 .. Len(s) : u[i] = s[i]
  <2> SUFFICES ASSUME NEW i \in 1 .. Len(s) PROVE u[i] = s[i]
    OBVIOUS
  <2>1. CASE i = 1
    <3>1. 1 \in 1 .. 1 + Len(t) /\ 1 <= 1
      BY <1>1
    <3> QED
      BY <1>1, <1>2, <1>3, <2>1, <3>1
  <2>2. CASE i # 1
    <3>1. i \in 1 .. 1 + Len(t) /\ ~ (i <= 1) /\ i - 1 \in 1 .. Len(t) /\ (i - 1) + 1 = i
      BY <1>1, <2>2
    <3>2. u[i] = t[i - 1]
      BY <1>3, <3>1
    <3>3. t[i - 1] = s[(i - 1) + 1]
      BY <1>1, <3>1
    <3> QED
      BY <3>1, <3>2, <3>3
  <2> QED
    BY <2>1, <2>2
<1>6. u = s
  BY <1>3, <1>4, <1>5, SeqEqual
<1> QED
  BY <1>1, <1>2, <1>6 DEF m, t, u

\* A sequence and the one with e at its end, position by position.
LEMMA AppendIs ==
    ASSUME NEW S, NEW s \in Seq(S), NEW e \in S, NEW t, t = Append(s, e)
    PROVE  /\ t \in Seq(S) /\ Len(s) \in Nat /\ Len(t) = Len(s) + 1
           /\ DOMAIN s = 1 .. Len(s) /\ DOMAIN t = 1 .. (Len(s) + 1)
           /\ \A i \in 1 .. Len(s) : t[i] = s[i]
           /\ t[Len(s) + 1] = e
  BY AppendProperties, LenProperties

\* A sequence and the one without its head, position by position.
LEMMA TailIs ==
    ASSUME NEW S, NEW s \in Seq(S), s # <<>>, NEW t, t = Tail(s)
    PROVE  /\ t \in Seq(S) /\ Len(s) \in Nat \ {0} /\ Len(t) = Len(s) - 1
           /\ DOMAIN s = 1 .. Len(s) /\ DOMAIN t = 1 .. (Len(s) - 1)
           /\ \A i \in 1 .. (Len(s) - 1) : t[i] = s[i + 1]
           /\ Head(s) = s[1] /\ Head(s) \in S
  BY HeadTailProperties, LenProperties, EmptySeq

\* A set of naturals that is not empty has a least one.
LEMMA LeastOne ==
    ASSUME NEW P \in SUBSET Nat, P # {}
    PROVE  \E x \in P : \A y \in P : x <= y
<1> DEFINE R == OpToRel(<, Nat)
<1>1. IsWellFoundedOn(R, Nat)
  BY NatLessThanWellFounded
<1> HIDE DEF R
<1>2. PICK x \in P : \A y \in P : ~ (<<y, x>> \in R)
  BY <1>1, WFMin
<1>3. \A y \in P : ~ (y < x)
  BY <1>2 DEF R, OpToRel
<1>4. \A y \in P : x <= y
  BY <1>3
<1> QED
  BY <1>4
=============================================================================
