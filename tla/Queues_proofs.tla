---------------------------- MODULE Queues_proofs ---------------------------
(***************************************************************************)
(* Facts about the lists of Queues: which nodes a list holds after each    *)
(* operation, and that no operation makes it hold a node twice.            *)
(***************************************************************************)
EXTENDS Queues, SequenceTheorems, TLAPS

(* enqueue of a node the list does not hold appends it. *)
LEMMA LinkNew ==
  ASSUME NEW S, NEW s \in Seq(S), NEW n \in S, n \notin ToSet(s)
  PROVE  Link(s, n) = Append(s, n)
BY DEF Link

(* enqueue of the k-th member keeps the members up to it. *)
LEMMA LinkOld ==
  ASSUME NEW S, NEW s \in Seq(S), NEW k \in 1..Len(s),
         \A i, j \in 1..Len(s) : s[i] = s[j] => i = j
  PROVE  Link(s, s[k]) = SubSeq(s, 1, k)
<1>1. s[k] \in ToSet(s)
  BY DEF ToSet
<1>2. PlaceOf(s, s[k]) = k
  BY DEF PlaceOf
<1> QED
  BY <1>1, <1>2 DEF Link

(* delete_item of a node that is not there changes nothing. *)
LEMMA WithoutAbsent ==
  ASSUME NEW s, NEW n, n \notin ToSet(s)
  PROVE  Without(s, n) = s
BY DEF Without

(* delete_item of the k-th member keeps the others, in order. *)
LEMMA WithoutMember ==
  ASSUME NEW S, NEW s \in Seq(S), NEW k \in 1..Len(s),
         \A i, j \in 1..Len(s) : s[i] = s[j] => i = j
  PROVE  /\ Without(s, s[k]) \in Seq(S)
         /\ Len(Without(s, s[k])) = Len(s) - 1
         /\ \A i \in 1..(Len(s) - 1) :
               Without(s, s[k])[i] = IF i < k THEN s[i] ELSE s[i + 1]
<1>1. s[k] \in ToSet(s)
  BY DEF ToSet
<1>2. PlaceOf(s, s[k]) = k
  BY DEF PlaceOf
<1> DEFINE front == SubSeq(s, 1, k - 1)
           back  == SubSeq(s, k + 1, Len(s))
<1>3. Without(s, s[k]) = front \o back
  BY <1>1, <1>2 DEF Without, RemoveAt
<1>4. /\ front \in Seq(S) /\ Len(front) = k - 1
      /\ \A i \in 1..(k - 1) : front[i] = s[i]
  OBVIOUS
<1>5. /\ back \in Seq(S) /\ Len(back) = Len(s) - k
      /\ \A i \in 1..(Len(s) - k) : back[i] = s[k + i]
  OBVIOUS
<1> HIDE DEF front, back
<1>6. /\ front \o back \in Seq(S)
      /\ Len(front \o back) = Len(front) + Len(back)
      /\ \A i \in 1..(Len(front) + Len(back)) :
            (front \o back)[i] = IF i <= Len(front) THEN front[i] ELSE back[i - Len(front)]
  <2>1. front \in Seq(S) /\ back \in Seq(S)
    BY <1>4, <1>5
  <2> QED
    BY <2>1, ConcatProperties
<1>7. Len(front) + Len(back) = Len(s) - 1
  BY <1>4, <1>5
<1>8. ASSUME NEW i \in 1..(Len(s) - 1)
      PROVE  (front \o back)[i] = IF i < k THEN s[i] ELSE s[i + 1]
  <2>0. i \in Int /\ k \in Int
    OBVIOUS
  <2>1. CASE i < k
    BY <2>1, <1>4, <1>6, <1>7
  <2>2. CASE ~(i < k)
    <3>1. (front \o back)[i] = back[i - (k - 1)]
      BY <2>0, <2>2, <1>4, <1>6, <1>7
    <3>2. i - (k - 1) \in 1..(Len(s) - k) /\ k + (i - (k - 1)) = i + 1
      BY <2>0, <2>2
    <3> QED
      BY <3>1, <3>2, <2>2, <1>5
  <2> QED
    BY <2>1, <2>2, Zenon
<1> QED
  BY <1>3, <1>6, <1>7, <1>8

-----------------------------------------------------------------------------
(* The empty list and the list of one node. *)
LEMMA ShortQueues ==
  ASSUME NEW S, NEW e \in S
  PROVE  /\ <<>> \in Seq(S) /\ ToSet(<<>>) = {} /\ IsInjective(<<>>)
         /\ <<e>> \in Seq(S) /\ ToSet(<<e>>) = {e} /\ IsInjective(<<e>>)
BY DEF ToSet, IsInjective

(* A list is empty exactly when it holds no node. *)
LEMMA EmptyQueue ==
  ASSUME NEW S, NEW s \in Seq(S)
  PROVE  s = <<>> <=> ToSet(s) = {}
<1>1. s # <<>> => s[1] \in ToSet(s)
  BY DEF ToSet
<1> QED
  BY <1>1 DEF ToSet

(* A node that joins at the tail. *)
LEMMA AppendQueue ==
  ASSUME NEW S, NEW s \in Seq(S), NEW e \in S
  PROVE  /\ Append(s, e) \in Seq(S) /\ Append(s, e) # <<>>
         /\ ToSet(Append(s, e)) = ToSet(s) \cup {e}
         /\ Append(s, e)[Len(Append(s, e))] = e
         /\ s # <<>> => Append(s, e)[1] = s[1]
         /\ IsInjective(s) /\ e \notin ToSet(s) => IsInjective(Append(s, e))
<1> DEFINE t == Append(s, e)
<1>1. /\ t \in Seq(S) /\ Len(t) = Len(s) + 1 /\ Len(s) \in Nat
      /\ \A i \in 1..Len(s) : t[i] = s[i]
      /\ t[Len(s) + 1] = e
  OBVIOUS
<1> HIDE DEF t
<1>2. ToSet(t) = ToSet(s) \cup {e}
  BY <1>1 DEF ToSet
<1>3. IsInjective(s) /\ e \notin ToSet(s) => IsInjective(t)
  BY <1>1 DEF ToSet, IsInjective
<1>4. s # <<>> => 1 \in 1..Len(s)
  BY <1>1
<1>5. t # <<>>
  BY <1>1
<1> QED
  BY <1>1, <1>2, <1>3, <1>4, <1>5 DEF t

(* The oldest node leaves. *)
LEMMA TailQueue ==
  ASSUME NEW S, NEW s \in Seq(S), s # <<>>, IsInjective(s)
  PROVE  /\ Head(s) \in S /\ Head(s) \in ToSet(s) /\ Head(s) = s[1]
         /\ Tail(s) \in Seq(S)
         /\ ToSet(Tail(s)) = ToSet(s) \ {Head(s)}
         /\ IsInjective(Tail(s))
         /\ Len(s) # 1 => Tail(s) # <<>> /\ Tail(s)[Len(Tail(s))] = s[Len(s)]
<1> DEFINE t == Tail(s)
<1>1. /\ t \in Seq(S) /\ Len(t) = Len(s) - 1 /\ Len(s) \in Nat \ {0} /\ Head(s) = s[1]
      /\ DOMAIN t = 1..Len(t) /\ DOMAIN s = 1..Len(s)
      /\ \A i \in 1..Len(t) : t[i] = s[i + 1]
  OBVIOUS
<1> HIDE DEF t
<1>2. \A i, j \in 1..Len(s) : s[i] = s[j] => i = j
  BY <1>1 DEF IsInjective
<1>3. \A i \in 1..Len(t) : i + 1 \in 1..Len(s) /\ i + 1 # 1
  BY <1>1
<1>4. \A i \in 1..Len(s) : i # 1 => s[i] = t[i - 1] /\ i - 1 \in 1..Len(t)
  BY <1>1
<1>5. IsInjective(t)
  <2>1. ASSUME NEW i \in 1..Len(t), NEW j \in 1..Len(t), t[i] = t[j] PROVE i = j
    <3>1. s[i + 1] = s[j + 1]
      BY <1>1, <2>1
    <3>2. i + 1 = j + 1
      BY <3>1, <1>2, <1>3
    <3> QED
      BY <3>2, <1>1
  <2> QED
    BY <2>1, <1>1 DEF IsInjective
<1>6. 1 \in 1..Len(s)
  BY <1>1
<1>7. ToSet(t) = ToSet(s) \ {s[1]}
  <2>1. ASSUME NEW i \in 1..Len(t) PROVE t[i] \in ToSet(s) \ {s[1]}
    <3>1. t[i] = s[i + 1] /\ i + 1 \in 1..Len(s) /\ i + 1 # 1
      BY <1>1, <1>3
    <3>2. s[i + 1] # s[1]
      BY <3>1, <1>2, <1>6
    <3> QED
      BY <3>1, <3>2, <1>1, Zenon DEF ToSet
  <2>2. ASSUME NEW i \in 1..Len(s), s[i] # s[1] PROVE s[i] \in ToSet(t)
    <3>1. s[i] = t[i - 1] /\ i - 1 \in 1..Len(t)
      BY <2>2, <1>4
    <3> QED
      BY <3>1, <1>1, Zenon DEF ToSet
  <2>3. ToSet(t) \subseteq ToSet(s) \ {s[1]}
    BY <2>1, <1>1, Zenon DEF ToSet
  <2>4. ToSet(s) \ {s[1]} \subseteq ToSet(t)
    <3>1. ASSUME NEW x \in ToSet(s), x # s[1] PROVE x \in ToSet(t)
      <4>1. PICK i \in 1..Len(s) : x = s[i]
        BY <1>1, Zenon DEF ToSet
      <4> QED
        BY <3>1, <4>1, <2>2, Zenon
    <3> QED
      BY <3>1
  <2> QED
    BY <2>3, <2>4
<1>8. s[1] \in ToSet(s) /\ s[1] \in S
  BY <1>6 DEF ToSet
<1>9. Len(s) # 1 => t # <<>> /\ t[Len(t)] = s[Len(s)]
  <2> SUFFICES ASSUME Len(s) # 1 PROVE t # <<>> /\ t[Len(t)] = s[Len(s)]
    OBVIOUS
  <2>1. Len(t) \in 1..Len(t) /\ Len(t) + 1 = Len(s)
    BY <1>1
  <2> QED
    BY <2>1, <1>1
<1> QED
  BY <1>1, <1>5, <1>7, <1>8, <1>9 DEF t

(* A list of nodes that all join behind another. *)
LEMMA ConcatQueue ==
  ASSUME NEW S, NEW s \in Seq(S), NEW w \in Seq(S)
  PROVE  /\ s \o w \in Seq(S)
         /\ ToSet(s \o w) = ToSet(s) \cup ToSet(w)
         /\ s # <<>> => (s \o w)[1] = s[1]
         /\ IsInjective(s) /\ IsInjective(w) /\ ToSet(s) \cap ToSet(w) = {}
              => IsInjective(s \o w)
<1> DEFINE t == s \o w
<1>1. /\ t \in Seq(S) /\ Len(t) = Len(s) + Len(w) /\ Len(s) \in Nat /\ Len(w) \in Nat
      /\ DOMAIN t = 1..Len(t) /\ DOMAIN s = 1..Len(s) /\ DOMAIN w = 1..Len(w)
  BY ConcatProperties
<1>2. \A i \in 1..(Len(s) + Len(w)) : t[i] = IF i <= Len(s) THEN s[i] ELSE w[i - Len(s)]
  BY ConcatProperties
<1> HIDE DEF t
<1>3. \A i \in 1..Len(s) : i \in 1..Len(t) /\ t[i] = s[i]
  BY <1>1, <1>2
<1>4. ASSUME NEW i \in 1..Len(w)
      PROVE  i + Len(s) \in 1..Len(t) /\ t[i + Len(s)] = w[i]
  <2>1. i + Len(s) \in 1..(Len(s) + Len(w)) /\ ~(i + Len(s) <= Len(s)) /\ (i + Len(s)) - Len(s) = i
    BY <1>1
  <2> QED
    BY <2>1, <1>1, <1>2
<1>5. ASSUME NEW i \in 1..Len(t), i \notin 1..Len(s)
      PROVE  i - Len(s) \in 1..Len(w) /\ t[i] = w[i - Len(s)]
  BY <1>1, <1>2, <1>5
<1>6. ToSet(t) = ToSet(s) \cup ToSet(w)
  <2>1. ASSUME NEW x \in ToSet(t) PROVE x \in ToSet(s) \cup ToSet(w)
    <3>1. PICK i \in 1..Len(t) : x = t[i]
      BY <1>1, Zenon DEF ToSet
    <3>2. CASE i \in 1..Len(s)
      BY <3>1, <3>2, <1>1, <1>3, Zenon DEF ToSet
    <3>3. CASE i \notin 1..Len(s)
      BY <3>1, <3>3, <1>1, <1>5, Zenon DEF ToSet
    <3> QED
      BY <3>2, <3>3
  <2>2. ASSUME NEW x \in ToSet(s) PROVE x \in ToSet(t)
    <3>1. PICK i \in 1..Len(s) : x = s[i]
      BY <1>1, Zenon DEF ToSet
    <3> QED
      BY <3>1, <1>1, <1>3, Zenon DEF ToSet
  <2>3. ASSUME NEW x \in ToSet(w) PROVE x \in ToSet(t)
    <3>1. PICK i \in 1..Len(w) : x = w[i]
      BY <1>1, Zenon DEF ToSet
    <3>2. x = t[i + Len(s)] /\ i + Len(s) \in 1..Len(t)
      BY <3>1, <1>4
    <3> QED
      BY <3>2, <1>1, Zenon DEF ToSet
  <2> QED
    BY <2>1, <2>2, <2>3
<1>7. IsInjective(s) /\ IsInjective(w) /\ ToSet(s) \cap ToSet(w) = {} => IsInjective(t)
  <2> SUFFICES ASSUME IsInjective(s), IsInjective(w), ToSet(s) \cap ToSet(w) = {},
                      NEW i \in 1..Len(t), NEW j \in 1..Len(t), t[i] = t[j]
               PROVE  i = j
    BY <1>1 DEF IsInjective
  <2>1. CASE i \in 1..Len(s) /\ j \in 1..Len(s)
    BY <2>1, <1>1, <1>3 DEF IsInjective
  <2>2. CASE i \notin 1..Len(s) /\ j \notin 1..Len(s)
    <3>1. /\ i - Len(s) \in 1..Len(w) /\ j - Len(s) \in 1..Len(w)
          /\ w[i - Len(s)] = w[j - Len(s)]
      BY <2>2, <1>5
    <3>2. i - Len(s) = j - Len(s)
      BY <3>1, <1>1, Zenon DEF IsInjective
    <3> QED
      BY <3>2, <1>1
  <2>5. ASSUME NEW k \in 1..Len(t), NEW m \in 1..Len(t), k \in 1..Len(s), m \notin 1..Len(s)
        PROVE  t[k] # t[m]
    <3>1. t[k] \in ToSet(s)
      BY <2>5, <1>1, <1>3, Zenon DEF ToSet
    <3>2. t[m] \in ToSet(w)
      BY <2>5, <1>1, <1>5, Zenon DEF ToSet
    <3> QED
      BY <3>1, <3>2
  <2> QED
    BY <2>1, <2>2, <2>5
<1>8. s # <<>> => t[1] = s[1]
  <2>1. s # <<>> => 1 \in 1..Len(s)
    BY <1>1
  <2> QED
    BY <2>1, <1>3
<1> QED
  BY <1>1, <1>6, <1>7, <1>8 DEF t

(* enqueue of the node that is the tail already changes nothing. *)
LEMMA LinkLast ==
  ASSUME NEW S, NEW s \in Seq(S), s # <<>>, IsInjective(s)
  PROVE  Link(s, s[Len(s)]) = s
<1>1. Len(s) \in 1..Len(s) /\ \A i, j \in 1..Len(s) : s[i] = s[j] => i = j
  BY DEF IsInjective
<1>2. Link(s, s[Len(s)]) = SubSeq(s, 1, Len(s))
  BY <1>1, LinkOld
<1> QED
  BY <1>2, SubSeqFull

=============================================================================
