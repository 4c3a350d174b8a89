------------------------------ MODULE SequenceSets ------------------------------
(***************************************************************************)
(* Sequences and the sets of their elements: what appending, joining and   *)
(* taking the tail do to ToSet and IsInjective.                            *)
(***************************************************************************)
EXTENDS Naturals, SequencesExt, SequenceTheorems, TLAPS

\* The set of the elements of a sequence.
LEMMA SetOfSeq ==
  ASSUME NEW S, NEW s \in Seq(S)
  PROVE  /\ ToSet(s) \subseteq S
         /\ Len(s) \in Nat /\ DOMAIN s = 1..Len(s)
         /\ \A i \in 1..Len(s) : s[i] \in ToSet(s)
         /\ \A e \in ToSet(s) : \E i \in 1..Len(s) : s[i] = e
BY LenProperties, ElementOfSeq DEF ToSet

\* The empty sequence.
LEMMA SetOfEmpty == ToSet(<<>>) = {} /\ IsInjective(<<>>)
BY DEF ToSet, IsInjective

\* Appending an element adds it to the set, and repeats nothing if it is new.
LEMMA SetOfAppend ==
  ASSUME NEW S, NEW s \in Seq(S), NEW e \in S
  PROVE  /\ ToSet(Append(s, e)) = ToSet(s) \cup {e}
         /\ IsInjective(s) /\ e \notin ToSet(s) => IsInjective(Append(s, e))
<1> DEFINE t == Append(s, e)
<1>1. /\ t \in Seq(S) /\ Len(t) = Len(s) + 1
      /\ \A i \in 1..Len(s) : t[i] = s[i]
      /\ t[Len(s) + 1] = e
  BY AppendProperties
<1>2. Len(s) \in Nat /\ DOMAIN s = 1..Len(s) /\ DOMAIN t = 1..Len(t)
  BY <1>1, LenProperties
<1> HIDE DEF t
<1>3. 1..Len(t) = 1..Len(s) \cup {Len(s) + 1}
  BY <1>1, <1>2
<1>4. ToSet(t) = ToSet(s) \cup {e}
  BY <1>1, <1>2, <1>3 DEF ToSet
<1>5. ASSUME IsInjective(s), e \notin ToSet(s) PROVE IsInjective(t)
  BY <1>1, <1>2, <1>3, <1>5 DEF IsInjective, ToSet
<1> QED
  BY <1>4, <1>5 DEF t

\* The head is an element, and the only one the tail may lack.
LEMMA SetOfTail ==
  ASSUME NEW S, NEW s \in Seq(S), s # <<>>
  PROVE  /\ Head(s) \in ToSet(s) /\ ToSet(s) = {Head(s)} \cup ToSet(Tail(s))
         /\ IsInjective(s) => Head(s) \notin ToSet(Tail(s)) /\ IsInjective(Tail(s))
<1> DEFINE t == Tail(s)
<1>1. /\ t \in Seq(S) /\ Len(t) = Len(s) - 1
      /\ \A i \in 1..Len(t) : t[i] = s[i+1]
  BY HeadTailProperties
<1>2. Len(s) \in Nat \ {0} /\ DOMAIN s = 1..Len(s) /\ DOMAIN t = 1..Len(t)
  BY <1>1, LenProperties, EmptySeq
<1>3. Head(s) = s[1]
  OBVIOUS
<1> HIDE DEF t
<1>4. \A i \in 1..Len(s) : i = 1 \/ (i - 1 \in 1..Len(t) /\ s[i] = t[i-1])
  BY <1>1, <1>2
<1>5. \A i \in 1..Len(t) : i + 1 \in 1..Len(s) /\ i + 1 # 1
  BY <1>1, <1>2
<1>6. Head(s) \in ToSet(s)
  BY <1>2, <1>3 DEF ToSet
<1>7. ToSet(s) = {Head(s)} \cup ToSet(t)
  <2>1. ASSUME NEW e \in ToSet(s) PROVE e = Head(s) \/ e \in ToSet(t)
    <3>1. PICK i \in 1..Len(s) : s[i] = e
      BY <1>2 DEF ToSet
    <3> QED
      BY <1>2, <1>3, <1>4, <3>1 DEF ToSet
  <2>2. ASSUME NEW e \in ToSet(t) PROVE e \in ToSet(s)
    <3>1. PICK i \in 1..Len(t) : t[i] = e
      BY <1>2 DEF ToSet
    <3> QED
      BY <1>1, <1>2, <1>5, <3>1 DEF ToSet
  <2> QED
    BY <1>6, <2>1, <2>2
<1>8. ASSUME IsInjective(s) PROVE Head(s) \notin ToSet(t)
  BY <1>1, <1>2, <1>3, <1>5, <1>8 DEF IsInjective, ToSet
<1>9. ASSUME IsInjective(s) PROVE IsInjective(t)
  BY <1>1, <1>2, <1>5, <1>9 DEF IsInjective
<1> QED
  BY <1>6, <1>7, <1>8, <1>9 DEF t

\* Concatenation joins the sets.
LEMMA SetOfConcat ==
  ASSUME NEW S, NEW s \in Seq(S), NEW t \in Seq(S)
  PROVE  ToSet(s \o t) = ToSet(s) \cup ToSet(t)
<1> DEFINE u == s \o t
<1>1. /\ u \in Seq(S) /\ Len(u) = Len(s) + Len(t)
      /\ \A i \in 1..Len(s) + Len(t) : u[i] = IF i <= Len(s) THEN s[i] ELSE t[i - Len(s)]
  BY ConcatProperties
<1>2. /\ Len(s) \in Nat /\ DOMAIN s = 1..Len(s)
      /\ Len(t) \in Nat /\ DOMAIN t = 1..Len(t) /\ DOMAIN u = 1..Len(u)
  BY <1>1, LenProperties
<1> HIDE DEF u
<1>3. ASSUME NEW i \in 1..Len(u) PROVE u[i] \in ToSet(s) \cup ToSet(t)
  <2>1. CASE i <= Len(s)
    <3>1. i \in 1..Len(s) /\ u[i] = s[i]
      BY <1>1, <1>2, <2>1
    <3> QED
      BY <3>1, SetOfSeq
  <2>2. CASE ~(i <= Len(s))
    <3>1. i - Len(s) \in 1..Len(t) /\ u[i] = t[i - Len(s)]
      BY <1>1, <1>2, <2>2
    <3> QED
      BY <3>1, SetOfSeq
  <2> QED
    BY <2>1, <2>2
<1>4. ASSUME NEW i \in 1..Len(s) PROVE s[i] \in ToSet(u)
  <2>1. i \in 1..Len(u) /\ u[i] = s[i]
    BY <1>1, <1>2
  <2> QED
    BY <1>1, <2>1, SetOfSeq
<1>5. ASSUME NEW i \in 1..Len(t) PROVE t[i] \in ToSet(u)
  <2>1. i + Len(s) \in 1..Len(u) /\ u[i + Len(s)] = t[i]
    BY <1>1, <1>2
  <2> QED
    BY <1>1, <2>1, SetOfSeq
<1>6. ToSet(u) \subseteq ToSet(s) \cup ToSet(t)
  BY <1>1, <1>3, SetOfSeq
<1>7. ToSet(s) \subseteq ToSet(u)
  BY <1>4, SetOfSeq
<1>8. ToSet(t) \subseteq ToSet(u)
  BY <1>5, SetOfSeq
<1> QED
  BY <1>6, <1>7, <1>8 DEF u
=================================================================================
