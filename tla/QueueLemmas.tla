---------------------------- MODULE QueueLemmas ----------------------------
(***************************************************************************)
(* What the operations of a queue do to its elements, for queues in which   *)
(* no element occurs twice: the facts the proofs about the pool's queues    *)
(* rest on.                                                                *)
(***************************************************************************)
EXTENDS Integers, Sequences, FiniteSets, SequencesExt, TLAPS, FiniteSetTheorems,
        SequenceTheorems

\* No element occurs twice in the sequence s.
Distinct(s) == \A i, j \in 1..Len(s) : s[i] = s[j] => i = j

\* The elements of a sequence, by index.
LEMMA ToSetIndex ==
  ASSUME NEW S, NEW s \in Seq(S)
  PROVE  /\ ToSet(s) = {s[i] : i \in 1..Len(s)}
         /\ ToSet(s) \subseteq S
BY LenProperties, ElementOfSeq DEF ToSet

\* The empty queue.
LEMMA EmptyQueue == ToSet(<<>>) = {} /\ Distinct(<<>>) /\ Len(<<>>) = 0
<1> DEFINE S == {}
<1>1. Len(<<>>) = 0 /\ <<>> \in Seq(S)
  OBVIOUS
<1>2. 1..0 = {}
  OBVIOUS
<1>3. ToSet(<<>>) = {<<>>[i] : i \in 1..Len(<<>>)}
  BY <1>1, ToSetIndex
<1> QED BY <1>1, <1>2, <1>3 DEF Distinct

\* Concatenation joins the elements, and keeps them distinct exactly when the
\* parts are distinct and share none.
LEMMA ConcatElements ==
  ASSUME NEW S, NEW s \in Seq(S), NEW t \in Seq(S)
  PROVE  /\ ToSet(s \o t) = ToSet(s) \cup ToSet(t)
         /\ Distinct(s \o t) <=> /\ Distinct(s)
                                 /\ Distinct(t)
                                 /\ ToSet(s) \cap ToSet(t) = {}
<1> DEFINE u == s \o t
<1>1. /\ u \in Seq(S)
      /\ Len(u) = Len(s) + Len(t)
      /\ \A i \in 1..Len(s) : u[i] = s[i]
      /\ \A i \in 1..Len(t) : u[Len(s) + i] = t[i]
      /\ Len(s) \in Nat
      /\ Len(t) \in Nat
  OBVIOUS
<1> HIDE DEF u
<1>2. ToSet(u) = {u[i] : i \in 1..Len(u)}
      /\ ToSet(s) = {s[i] : i \in 1..Len(s)}
      /\ ToSet(t) = {t[i] : i \in 1..Len(t)}
  BY <1>1, ToSetIndex
<1>3. ToSet(u) = ToSet(s) \cup ToSet(t)
  <2>1. ASSUME NEW x \in ToSet(u) PROVE x \in ToSet(s) \cup ToSet(t)
    <3>1. PICK i \in 1..Len(u) : x = u[i]
      BY <1>2
    <3>2. CASE i <= Len(s)
      BY <3>1, <3>2, <1>1, <1>2
    <3>3. CASE i > Len(s)
      <4>1. i - Len(s) \in 1..Len(t) /\ Len(s) + (i - Len(s)) = i
        BY <3>1, <3>3, <1>1
      <4>2. x = t[i - Len(s)]
        BY <4>1, <3>1, <1>1
      <4> QED BY <4>1, <4>2, <1>2
    <3> QED BY <3>1, <3>2, <3>3, <1>1
  <2>2. ASSUME NEW x \in ToSet(s) PROVE x \in ToSet(u)
    <3>1. PICK i \in 1..Len(s) : x = s[i]
      BY <1>2
    <3>2. i \in 1..Len(u)
      BY <3>1, <1>1
    <3> QED BY <3>1, <3>2, <1>1, <1>2
  <2>3. ASSUME NEW x \in ToSet(t) PROVE x \in ToSet(u)
    <3>1. PICK i \in 1..Len(t) : x = t[i]
      BY <1>2
    <3>2. Len(s) + i \in 1..Len(u)
      BY <3>1, <1>1
    <3> QED BY <3>1, <3>2, <1>1, <1>2
  <2> QED BY <2>1, <2>2, <2>3
<1>4. ASSUME Distinct(u)
      PROVE  Distinct(s) /\ Distinct(t) /\ ToSet(s) \cap ToSet(t) = {}
  <2>1. Distinct(s)
    <3>1. \A i \in 1..Len(s) : i \in 1..Len(u)
      BY <1>1
    <3> QED BY <3>1, <1>1, <1>4 DEF Distinct
  <2>2. Distinct(t)
    <3>1. SUFFICES ASSUME NEW i \in 1..Len(t), NEW j \in 1..Len(t), t[i] = t[j]
                   PROVE  i = j
      BY DEF Distinct
    <3>2. Len(s) + i \in 1..Len(u) /\ Len(s) + j \in 1..Len(u)
      BY <1>1
    <3>3. Len(s) + i = Len(s) + j
      BY <3>1, <3>2, <1>1, <1>4 DEF Distinct
    <3> QED BY <3>3, <1>1
  <2>3. ASSUME NEW x \in ToSet(s), x \in ToSet(t) PROVE FALSE
    <3>1. PICK i \in 1..Len(s) : x = s[i]
      BY <1>2
    <3>2. PICK j \in 1..Len(t) : x = t[j]
      BY <2>3, <1>2
    <3>3. i \in 1..Len(u) /\ Len(s) + j \in 1..Len(u)
      BY <1>1
    <3>4. u[i] = x /\ u[Len(s) + j] = x
      BY <3>1, <3>2, <1>1
    <3>5. i = Len(s) + j
      BY <3>3, <3>4, <1>4 DEF Distinct
    <3> QED BY <3>5, <1>1
  <2> QED BY <2>1, <2>2, <2>3
<1>5. ASSUME Distinct(s), Distinct(t), ToSet(s) \cap ToSet(t) = {}
      PROVE  Distinct(u)
  <2>1. SUFFICES ASSUME NEW i \in 1..Len(u), NEW j \in 1..Len(u), u[i] = u[j],
                        i <= j
                 PROVE  i = j
    BY <1>1 DEF Distinct
  <2>2. CASE j <= Len(s)
    BY <2>1, <2>2, <1>1, <1>5 DEF Distinct
  <2>3. CASE i > Len(s)
    <3>1. /\ i - Len(s) \in 1..Len(t) /\ Len(s) + (i - Len(s)) = i
          /\ j - Len(s) \in 1..Len(t) /\ Len(s) + (j - Len(s)) = j
      BY <2>1, <2>3, <1>1
    <3>2. t[i - Len(s)] = t[j - Len(s)]
      BY <3>1, <2>1, <1>1
    <3>3. i - Len(s) = j - Len(s)
      BY <3>1, <3>2, <1>5 DEF Distinct
    <3> QED BY <3>3, <2>1, <1>1
  <2>4. CASE i <= Len(s) /\ j > Len(s)
    <3>1. j - Len(s) \in 1..Len(t) /\ Len(s) + (j - Len(s)) = j
      BY <2>1, <2>4, <1>1
    <3>2. u[j] = t[j - Len(s)] /\ u[i] = s[i] /\ i \in 1..Len(s)
      BY <3>1, <2>1, <2>4, <1>1
    <3>3. u[j] \in ToSet(t) /\ u[i] \in ToSet(s)
      BY <3>1, <3>2, <1>2
    <3> QED BY <3>3, <2>1, <1>5
  <2> QED BY <2>1, <2>2, <2>3, <2>4, <1>1
<1> QED BY <1>3, <1>4, <1>5 DEF u

\* Append adds one element.
LEMMA AppendElements ==
  ASSUME NEW S, NEW s \in Seq(S), NEW e \in S
  PROVE  /\ Append(s, e) \in Seq(S)
         /\ Len(Append(s, e)) = Len(s) + 1
         /\ ToSet(Append(s, e)) = ToSet(s) \cup {e}
         /\ Distinct(s) /\ e \notin ToSet(s) => Distinct(Append(s, e))
<1> DEFINE w == <<e>>
<1>1. w \in Seq(S) /\ Len(w) = 1 /\ w[1] = e
  OBVIOUS
<1>2. Append(s, e) = s \o w
  BY AppendIsConcat
<1> HIDE DEF w
<1>3. 1..Len(w) = {1}
  BY <1>1
<1>4. ToSet(w) = {e}
  <2>1. ToSet(w) = {w[i] : i \in 1..Len(w)}
    BY <1>1, ToSetIndex
  <2> QED BY <2>1, <1>1, <1>3
<1>5. Distinct(w)
  BY <1>3 DEF Distinct
<1>6. /\ ToSet(s \o w) = ToSet(s) \cup {e}
      /\ Distinct(s) /\ e \notin ToSet(s) => Distinct(s \o w)
  <2>1. e \notin ToSet(s) => ToSet(s) \cap ToSet(w) = {}
    BY <1>4
  <2>2. /\ ToSet(s \o w) = ToSet(s) \cup ToSet(w)
        /\ Distinct(s \o w) <=> /\ Distinct(s)
                                /\ Distinct(w)
                                /\ ToSet(s) \cap ToSet(w) = {}
    BY <1>1, ConcatElements
  <2> QED BY <2>1, <2>2, <1>4, <1>5
<1> QED BY <1>2, <1>6, AppendProperties

\* A part of a queue: its length, its elements, and what it shares with the
\* rest of the queue when no element occurs twice.
LEMMA SubSeqElements ==
  ASSUME NEW S, NEW s \in Seq(S), NEW m \in 1..Len(s) + 1, NEW n \in m - 1..Len(s)
  PROVE  /\ SubSeq(s, m, n) \in Seq(S)
         /\ Len(SubSeq(s, m, n)) = n - m + 1
         /\ ToSet(SubSeq(s, m, n)) = {s[i] : i \in m..n}
         /\ ToSet(SubSeq(s, m, n)) \subseteq ToSet(s)
         /\ Distinct(s) => Distinct(SubSeq(s, m, n))
<1> DEFINE u == SubSeq(s, m, n)
<1>0. Len(s) \in Nat /\ m \in Int /\ n \in Int
  BY LenProperties
<1>1. /\ u \in Seq(S)
      /\ Len(u) = n - m + 1
      /\ \A i \in 1..(n - m + 1) : u[i] = s[m + i - 1]
  <2>1. \A i \in m..n : s[i] \in S
    BY <1>0, ElementOfSeq
  <2> QED BY <2>1, <1>0, SubSeqProperties
<1> HIDE DEF u
<1>2. ToSet(u) = {u[i] : i \in 1..Len(u)} /\ ToSet(s) = {s[i] : i \in 1..Len(s)}
  BY <1>1, ToSetIndex
<1>3. ToSet(u) = {s[i] : i \in m..n}
  <2>1. ASSUME NEW x \in ToSet(u) PROVE x \in {s[i] : i \in m..n}
    <3>1. PICK i \in 1..(n - m + 1) : x = u[i]
      BY <1>1, <1>2
    <3>2. m + i - 1 \in m..n
      BY <1>0
    <3> QED BY <3>1, <3>2, <1>1
  <2>2. ASSUME NEW i \in m..n PROVE s[i] \in ToSet(u)
    <3>1. i - m + 1 \in 1..(n - m + 1) /\ m + (i - m + 1) - 1 = i
      BY <1>0
    <3>2. u[i - m + 1] = s[i]
      BY <3>1, <1>1
    <3> QED BY <3>1, <3>2, <1>1, <1>2
  <2> QED BY <2>1, <2>2
<1>4. ToSet(u) \subseteq ToSet(s)
  <2>1. m..n \subseteq 1..Len(s)
    BY <1>0
  <2> QED BY <2>1, <1>2, <1>3
<1>5. ASSUME Distinct(s) PROVE Distinct(u)
  <2>1. SUFFICES ASSUME NEW i \in 1..Len(u), NEW j \in 1..Len(u), u[i] = u[j]
                 PROVE  i = j
    BY DEF Distinct
  <2>2. /\ m + i - 1 \in 1..Len(s)
        /\ m + j - 1 \in 1..Len(s)
        /\ i \in 1..(n - m + 1)
        /\ j \in 1..(n - m + 1)
    BY <1>0, <1>1
  <2>3. s[m + i - 1] = s[m + j - 1]
    BY <2>1, <2>2, <1>1
  <2>4. m + i - 1 = m + j - 1
    BY <2>2, <2>3, <1>5 DEF Distinct
  <2> QED BY <2>4, <2>2, <1>0
<1> QED BY <1>1, <1>3, <1>4, <1>5 DEF u

\* The elements popped off the front of s, and what is left.
Popped(s, t) == {s[i] : i \in 1..t}
Rest(s, t) == SubSeq(s, t + 1, Len(s))

\* Popping t elements off a queue without repetitions gives t connections, and
\* none of them is left in the queue.
LEMMA PopElements ==
  ASSUME NEW S, NEW s \in Seq(S), Distinct(s), NEW t \in 0..Len(s)
  PROVE  /\ IsFiniteSet(Popped(s, t))
         /\ Cardinality(Popped(s, t)) = t
         /\ Popped(s, t) \cap ToSet(Rest(s, t)) = {}
         /\ Popped(s, t) \cup ToSet(Rest(s, t)) = ToSet(s)
<1> DEFINE popped == {s[i] : i \in 1..t}
           rest == SubSeq(s, t + 1, Len(s))
           f == [i \in 1..t |-> s[i]]
<1>0. Len(s) \in Nat /\ t \in Nat /\ t <= Len(s)
  BY LenProperties
<1>1. ToSet(rest) = {s[i] : i \in (t + 1)..Len(s)}
  <2>1. t + 1 \in 1..Len(s) + 1 /\ Len(s) \in (t + 1) - 1..Len(s)
    BY <1>0
  <2> QED BY <2>1, SubSeqElements
<1>2. ToSet(s) = {s[i] : i \in 1..Len(s)}
  BY ToSetIndex
<1>3. popped \cap ToSet(rest) = {}
  <2>1. ASSUME NEW i \in 1..t, NEW j \in (t + 1)..Len(s), s[i] = s[j] PROVE FALSE
    <3>1. i \in 1..Len(s) /\ j \in 1..Len(s) /\ i # j
      BY <1>0
    <3> QED BY <3>1, <2>1 DEF Distinct
  <2> QED BY <2>1, <1>1
<1>4. popped \cup ToSet(rest) = ToSet(s)
  <2>1. 1..Len(s) = (1..t) \cup ((t + 1)..Len(s))
    BY <1>0
  <2> QED BY <2>1, <1>1, <1>2
<1>5. f \in Surjection(1..t, popped) /\ f \in Injection(1..t, popped)
  <2>1. f \in [1..t -> popped]
    OBVIOUS
  <2>2. \A y \in popped : \E x \in 1..t : f[x] = y
    OBVIOUS
  <2>3. ASSUME NEW a \in 1..t, NEW b \in 1..t, f[a] = f[b] PROVE a = b
    <3>1. a \in 1..Len(s) /\ b \in 1..Len(s) /\ s[a] = s[b]
      BY <1>0, <2>3
    <3> QED BY <3>1 DEF Distinct
  <2> QED BY <2>1, <2>2, <2>3 DEF Surjection, Injection, IsInjective
<1>6. IsFiniteSet(1..t) /\ Cardinality(1..t) = t
  BY <1>0, FS_Interval
<1>7. IsFiniteSet(popped) /\ Cardinality(popped) = t
  BY <1>5, <1>6, FS_Surjection
<1> QED BY <1>3, <1>4, <1>7 DEF Popped, Rest
=============================================================================
