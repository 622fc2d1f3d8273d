--------------------------- MODULE SequenceLemmas ---------------------------
(***************************************************************************)
(* What the proofs need to know of queues: concatenations, their fronts    *)
(* and elements, and the first element that moves on to the next queue.    *)
(***************************************************************************)
EXTENDS Queues, SequenceTheorems, TLAPS

(* A sequence that is not empty is its first element and the rest. *)
LEMMA HeadAndTail ==
    ASSUME NEW S, NEW s \in Seq(S), s # <<>>
    PROVE  /\ Head(s) \in S /\ Tail(s) \in Seq(S)
           /\ s = <<Head(s)>> \o Tail(s)
           /\ Len(s) = 1 => Tail(s) = <<>>
           /\ Len(s) # 1 => Tail(s) # <<>>
<1>1. Head(s) \in S /\ Tail(s) \in Seq(S)
  OBVIOUS
<1>2. s = <<Head(s)>> \o Tail(s)
  OBVIOUS
<1>3. /\ Len(s) \in Nat \ {0} /\ Len(Tail(s)) = Len(s) - 1
      /\ Tail(s) # <<>> => Len(Tail(s)) \in Nat \ {0}
      /\ Tail(s) = <<>> => Len(Tail(s)) = 0
  BY <1>1, EmptySeq, HeadTailProperties
<1> QED
  BY <1>1, <1>2, <1>3

(* What queues are made of: none, one more, and two together. *)
LEMMA QueuesGrow ==
    ASSUME NEW S
    PROVE  /\ <<>> \in Seq(S)
           /\ \A s \in Seq(S), x \in S : Append(s, x) \in Seq(S)
           /\ \A s, t \in Seq(S) : s \o t \in Seq(S)
<1>1. <<>> \in Seq(S)
  OBVIOUS
<1>2. \A s \in Seq(S), x \in S : Append(s, x) \in Seq(S)
  OBVIOUS
<1>3. \A s, t \in Seq(S) : s \o t \in Seq(S)
  OBVIOUS
<1> QED
  BY <1>1, <1>2, <1>3

(* Concatenations are sequences, and the empty one is the unit. *)
LEMMA ConcatLaws ==
    ASSUME NEW S
    PROVE  /\ \A s, t \in Seq(S) : s \o t \in Seq(S)
           /\ \A s \in Seq(S) : s \o <<>> = s
BY ConcatEmptySeq

(* What is handled first in a concatenation is what is first in its first   *)
(* part.                                                                    *)
LEMMA HeadOfConcat ==
    ASSUME NEW S, NEW s \in Seq(S), NEW t \in Seq(S), s # <<>>
    PROVE  /\ s \o t \in Seq(S) /\ s \o t # <<>>
           /\ Head(s \o t) = Head(s)
           /\ Tail(s \o t) = Tail(s) \o t
<1>1. /\ s \o t \in Seq(S) /\ Len(s \o t) = Len(s) + Len(t)
      /\ Len(s) \in Nat \ {0} /\ Len(t) \in Nat
      /\ (s \o t)[1] = s[1]
  BY EmptySeq
<1>2. s \o t # <<>>
  BY <1>1, EmptySeq
<1>3. Head(s \o t) = Head(s)
  BY <1>1, <1>2
<1>4. Tail(s \o t) = Tail(s) \o t
  <2>1. \A k \in 1..(Len(s) + Len(t)) - 1 : (s \o t)[k + 1] = (Tail(s) \o t)[k]
    BY <1>1
  <2> QED
    BY <1>1, <2>1
<1> QED
  BY <1>1, <1>2, <1>3, <1>4

(* One element more at the end: there is something, and the front stays.    *)
LEMMA HeadOfAppend ==
    ASSUME NEW S, NEW s \in Seq(S), NEW x \in S
    PROVE  /\ Append(s, x) # <<>>
           /\ s # <<>> => /\ Head(Append(s, x)) = Head(s)
                          /\ Tail(Append(s, x)) = Append(Tail(s), x)
<1> DEFINE t == <<x>>
<1>1. t \in Seq(S) /\ t # <<>> /\ Append(s, x) = s \o t
  OBVIOUS
<1>2. Append(s, x) # <<>>
  <2>1. Len(Append(s, x)) = Len(s) + 1 /\ Len(s) \in Nat
    OBVIOUS
  <2> QED
    BY <2>1, EmptySeq
<1>3. ASSUME s # <<>> PROVE Tail(s) \in Seq(S) /\ Append(Tail(s), x) = Tail(s) \o t
  <2>1. Tail(s) \in Seq(S)
    BY <1>3, HeadAndTail, Zenon
  <2> QED
    BY <2>1
<1> HIDE DEF t
<1>4. ASSUME s # <<>> PROVE Head(s \o t) = Head(s) /\ Tail(s \o t) = Tail(s) \o t
  BY <1>1, <1>4, HeadOfConcat, Zenon
<1> QED
  BY <1>1, <1>2, <1>3, <1>4, Zenon

(* It may be added to the second of two sequences, or to both together. *)
LEMMA AppendToConcat ==
    ASSUME NEW S, NEW s \in Seq(S), NEW t \in Seq(S), NEW x \in S
    PROVE  s \o Append(t, x) = Append(s \o t, x)
<1> DEFINE u == <<x>>
<1>1. /\ u \in Seq(S) /\ Append(t, x) = t \o u
      /\ Append(s \o t, x) = (s \o t) \o u
  OBVIOUS
<1> HIDE DEF u
<1>2. (s \o t) \o u = s \o (t \o u)
  BY <1>1, ConcatAssociative
<1> QED
  BY <1>1, <1>2, Zenon

\* The grouping of three sequences does not matter.  A predicate of its own,
\* and so is MovesOn: the provers then look for no other grouping.
Regroups(s, t, u) == (s \o t) \o u = s \o (t \o u)

(* Concatenation is associative. *)
LEMMA Regrouping ==
    ASSUME NEW S, NEW s \in Seq(S), NEW t \in Seq(S), NEW u \in Seq(S)
    PROVE  Regroups(s, t, u)
BY ConcatAssociative DEF Regroups

\* The first of queue c becomes the last of the queue d before it.
MovesOn(d, c) ==
    /\ Append(d, Head(c)) \o Tail(c) = d \o c
    /\ Append(d, Head(c)) = d \o <<Head(c)>>

(* The line of both queues together is the same after such a move. *)
LEMMA HeadMovesOn ==
    ASSUME NEW S, NEW d \in Seq(S), NEW c \in Seq(S), c # <<>>
    PROVE  MovesOn(d, c) /\ <<Head(c)>> \in Seq(S) /\ Append(d, Head(c)) \in Seq(S)
<1> DEFINE h == <<Head(c)>>
           t == Tail(c)
<1>1. h \in Seq(S) /\ t \in Seq(S) /\ c = h \o t
  BY HeadAndTail
<1>2. Append(d, Head(c)) = d \o h /\ d \o h \in Seq(S)
  BY <1>1
<1> HIDE DEF h, t
<1>3. (d \o h) \o t = d \o (h \o t)
  <2>1. Regroups(d, h, t)
    BY <1>1, Regrouping, Zenon
  <2> QED
    BY <2>1 DEF Regroups
<1> QED
  BY <1>1, <1>2, <1>3 DEF h, t, MovesOn

\* s is the beginning of u.
IsFront(s, u) == s = SubSeq(u, 1, Len(s)) /\ Len(s) <= Len(u)

(* A concatenation begins with its first part, and a sequence with itself. *)
LEMMA FrontOfConcat ==
    ASSUME NEW S, NEW s \in Seq(S), NEW t \in Seq(S)
    PROVE  IsFront(s, s \o t) /\ IsFront(s, s)
BY DEF IsFront

\* m is a front of u that begins with no less than s.
Reaches(s, m, u) == Len(m) \in Len(s)..Len(u) /\ m = SubSeq(u, 1, Len(m))

(* In a line of three, the first two together reach further than the first. *)
LEMMA FrontReaches ==
    ASSUME NEW S, NEW s \in Seq(S), NEW t \in Seq(S), NEW u \in Seq(S)
    PROVE  Reaches(s, s \o t, (s \o t) \o u)
<1>1. s \o t \in Seq(S) /\ (s \o t) \o u \in Seq(S)
  OBVIOUS
<1>2. /\ Len(s) \in Nat /\ Len(t) \in Nat /\ Len(u) \in Nat
      /\ Len(s \o t) = Len(s) + Len(t)
      /\ Len((s \o t) \o u) = Len(s \o t) + Len(u)
  BY <1>1
<1>3. Len(s \o t) \in Len(s)..Len((s \o t) \o u)
  BY <1>2
<1>4. s \o t = SubSeq((s \o t) \o u, 1, Len(s \o t))
  BY <1>1, FrontOfConcat, Zenon DEF IsFront
<1> QED
  BY <1>3, <1>4 DEF Reaches

-----------------------------------------------------------------------------
(* Sequences and their elements *)

(* The elements of a concatenation are those of its parts. *)
LEMMA ElementsOfConcat ==
    ASSUME NEW S, NEW s \in Seq(S), NEW t \in Seq(S)
    PROVE  Elements(s \o t) = Elements(s) \cup Elements(t)
<1>1. s \o t \in Seq(S) /\ Len(s \o t) = Len(s) + Len(t)
  OBVIOUS
<1>2. \A k \in 1..Len(s) : (s \o t)[k] = s[k]
  OBVIOUS
<1>3. \A k \in 1..Len(t) : (s \o t)[Len(s) + k] = t[k]
  OBVIOUS
<1>4. ASSUME NEW x \in Elements(s \o t)
      PROVE  x \in Elements(s) \cup Elements(t)
  <2>1. PICK k \in 1..Len(s \o t) : x = (s \o t)[k]
    BY DEF Elements
  <2>2. CASE k \in 1..Len(s)
    BY <2>1, <2>2, <1>2 DEF Elements
  <2>3. CASE k \notin 1..Len(s)
    <3>1. k - Len(s) \in 1..Len(t) /\ k = Len(s) + (k - Len(s))
      BY <2>1, <2>3, <1>1
    <3>2. x = t[k - Len(s)]
      BY <3>1, <1>3, <2>1
    <3> QED
      BY <3>1, <3>2 DEF Elements
  <2> QED
    BY <2>2, <2>3
<1>5. Elements(s) \subseteq Elements(s \o t)
  <2>1. 1..Len(s) \subseteq 1..Len(s \o t)
    BY <1>1
  <2> QED
    BY <2>1, <1>2 DEF Elements
<1>6. Elements(t) \subseteq Elements(s \o t)
  <2>1. \A k \in 1..Len(t) : Len(s) + k \in 1..Len(s \o t)
    BY <1>1
  <2> QED
    BY <2>1, <1>3 DEF Elements
<1> QED
  BY <1>4, <1>5, <1>6

(* The elements of the smallest sequences. *)
LEMMA ElementsOfSmall ==
    /\ Elements(<<>>) = {}
    /\ \A x : Elements(<<x>>) = {x}
BY DEF Elements

(* A concatenation has no duplicates if neither part has, and no common     *)
(* element.                                                                 *)
LEMMA NoDuplicatesInConcat ==
    ASSUME NEW S, NEW s \in Seq(S), NEW t \in Seq(S)
    PROVE  NoDuplicates(s \o t) <=>
             /\ NoDuplicates(s) /\ NoDuplicates(t)
             /\ Elements(s) \cap Elements(t) = {}
<1>1. s \o t \in Seq(S) /\ Len(s \o t) = Len(s) + Len(t)
  OBVIOUS
<1>2. \A k \in 1..Len(s) : (s \o t)[k] = s[k]
  OBVIOUS
<1>3. \A k \in 1..Len(t) : (s \o t)[Len(s) + k] = t[k]
  OBVIOUS
<1>4. \A k \in 1..Len(s) : k \in 1..Len(s \o t)
  BY <1>1
<1>5. \A k \in 1..Len(t) : Len(s) + k \in 1..Len(s \o t)
  BY <1>1
<1>6. ASSUME NoDuplicates(s \o t)
      PROVE  /\ NoDuplicates(s) /\ NoDuplicates(t)
             /\ Elements(s) \cap Elements(t) = {}
  <2>1. NoDuplicates(s)
    BY <1>6, <1>2, <1>4 DEF NoDuplicates
  <2>2. NoDuplicates(t)
    <3>1. SUFFICES ASSUME NEW k \in 1..Len(t), NEW l \in 1..Len(t), t[k] = t[l]
                   PROVE  k = l
      BY DEF NoDuplicates
    <3>2. Len(s) + k = Len(s) + l
      BY <3>1, <1>3, <1>5, <1>6 DEF NoDuplicates
    <3> QED
      BY <3>2
  <2>3. SUFFICES ASSUME NEW k \in 1..Len(s), NEW l \in 1..Len(t), s[k] = t[l]
                 PROVE  FALSE
    BY <2>1, <2>2 DEF Elements
  <2>4. k = Len(s) + l
    BY <2>3, <1>2, <1>3, <1>4, <1>5, <1>6 DEF NoDuplicates
  <2> QED
    BY <2>4
<1>7. ASSUME NoDuplicates(s), NoDuplicates(t), Elements(s) \cap Elements(t) = {},
             NEW k \in 1..Len(s \o t), NEW l \in 1..Len(s \o t),
             (s \o t)[k] = (s \o t)[l]
      PROVE  k = l
  <2>1. \A n \in 1..Len(s \o t) : n \notin 1..Len(s) =>
          n - Len(s) \in 1..Len(t) /\ (s \o t)[n] = t[n - Len(s)]
    <3>1. TAKE n \in 1..Len(s \o t)
    <3>2. HAVE n \notin 1..Len(s)
    <3>3. n - Len(s) \in 1..Len(t) /\ n = Len(s) + (n - Len(s))
      BY <3>2, <1>1
    <3> QED
      BY <3>3, <1>3
  <2>2. CASE k \in 1..Len(s) /\ l \in 1..Len(s)
    BY <2>2, <1>7, <1>2 DEF NoDuplicates
  <2>3. CASE k \notin 1..Len(s) /\ l \notin 1..Len(s)
    <3>1. k - Len(s) = l - Len(s)
      BY <2>1, <2>3, <1>7 DEF NoDuplicates
    <3> QED
      BY <3>1
  <2>4. CASE k \in 1..Len(s) /\ l \notin 1..Len(s)
    <3>1. (s \o t)[k] \in Elements(s) /\ (s \o t)[l] \in Elements(t)
      BY <2>1, <2>4, <1>2 DEF Elements
    <3> QED
      BY <3>1, <1>7
  <2>5. CASE k \notin 1..Len(s) /\ l \in 1..Len(s)
    <3>1. (s \o t)[k] \in Elements(t) /\ (s \o t)[l] \in Elements(s)
      BY <2>1, <2>5, <1>2 DEF Elements
    <3> QED
      BY <3>1, <1>7
  <2> QED
    BY <2>2, <2>3, <2>4, <2>5
<1> QED
  BY <1>6, <1>7 DEF NoDuplicates

(* The smallest sequences repeat nothing. *)
LEMMA NoDuplicatesInSmall == NoDuplicates(<<>>) /\ \A x : NoDuplicates(<<x>>)
BY DEF NoDuplicates

\* What concatenation does to the elements, of two sequences and of a sequence
\* and one more element.
Joins(s, t) ==
    /\ Elements(s \o t) = Elements(s) \cup Elements(t)
    /\ NoDuplicates(s \o t) <=> /\ NoDuplicates(s) /\ NoDuplicates(t)
                               /\ Elements(s) \cap Elements(t) = {}

JoinsOne(s, x) ==
    /\ Elements(s \o <<x>>) = Elements(s) \cup {x}
    /\ NoDuplicates(s \o <<x>>) <=> NoDuplicates(s) /\ x \notin Elements(s)
    /\ Elements(<<x>> \o s) = Elements(s) \cup {x}
    /\ NoDuplicates(<<x>> \o s) <=> NoDuplicates(s) /\ x \notin Elements(s)

(* Sequences are joined element by element. *)
LEMMA Joining ==
    ASSUME NEW S, NEW s \in Seq(S), NEW t \in Seq(S)
    PROVE  Joins(s, t)
BY ElementsOfConcat, NoDuplicatesInConcat DEF Joins

(* A sequence and one element more, at its end or at its front. *)
LEMMA JoiningOne ==
    ASSUME NEW S, NEW s \in Seq(S), NEW x \in S
    PROVE  JoinsOne(s, x)
<1> DEFINE t == <<x>>
<1>1. t \in Seq(S) /\ Elements(t) = {x} /\ NoDuplicates(t)
  BY ElementsOfSmall, NoDuplicatesInSmall
<1> HIDE DEF t
<1>2. Joins(s, t) /\ Joins(t, s)
  BY <1>1, Joining, Zenon
<1> QED
  BY <1>1, <1>2 DEF t, Joins, JoinsOne

=============================================================================
