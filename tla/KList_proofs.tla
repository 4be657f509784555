----------------------------- MODULE KList_proofs ---------------------------
(***************************************************************************)
(* list.c computes queues, for any number of lists and nodes: the lists    *)
(* stay well linked, and every function is an operation of Fifo.           *)
(***************************************************************************)
EXTENDS KList, Queues_proofs

-----------------------------------------------------------------------------
(* The inductive invariant. *)
Inv == TypeOK /\ WellLinked

(* enqueue keeps the first m members and makes n the one after them. *)
LEMMA LinkKeeps ==
  ASSUME TypeOK, HeldOnce, NEW l \in Lists, NEW n \in Nodes
  PROVE  \E m \in 0..Len(queue[l]) :
           /\ Link(queue[l], n) \in Seq(Nodes)
           /\ Len(Link(queue[l], n)) = m + 1
           /\ \A i \in 1..m : Link(queue[l], n)[i] = queue[l][i]
           /\ Link(queue[l], n)[m + 1] = n
           /\ \/ m = Len(queue[l]) /\ n \notin ToSet(queue[l])
              \/ m < Len(queue[l]) /\ queue[l][m + 1] = n
<1> DEFINE q == queue[l]
<1>0. q \in Seq(Nodes) /\ \A i, j \in 1..Len(q) : q[i] = q[j] => i = j
  BY DEF TypeOK, HeldOnce
<1> HIDE DEF q
<1>1. CASE n \notin ToSet(q)
  <2>1. Link(q, n) = Append(q, n)
    BY <1>0, <1>1, LinkNew
  <2>2. /\ Append(q, n) \in Seq(Nodes) /\ Len(Append(q, n)) = Len(q) + 1
        /\ \A i \in 1..Len(q) : Append(q, n)[i] = q[i]
        /\ Append(q, n)[Len(q) + 1] = n
    BY <1>0
  <2>3. Len(q) \in 0..Len(q)
    BY <1>0
  <2> QED
    BY <2>1, <2>2, <2>3, <1>1 DEF q
<1>2. CASE n \in ToSet(q)
  <2>1. PICK k \in 1..Len(q) : q[k] = n
    BY <1>0, <1>2 DEF ToSet
  <2>2. Link(q, n) = SubSeq(q, 1, k)
    BY <1>0, <2>1, LinkOld
  <2>3. /\ SubSeq(q, 1, k) \in Seq(Nodes) /\ Len(SubSeq(q, 1, k)) = k
        /\ \A i \in 1..k : SubSeq(q, 1, k)[i] = q[i]
    BY <1>0
  <2>4. /\ k - 1 \in 0..Len(q) /\ k - 1 < Len(q) /\ (k - 1) + 1 = k
        /\ \A i \in 1..(k - 1) : i \in 1..k
        /\ k \in 1..k
    BY <1>0
  <2>5. /\ Link(q, n) \in Seq(Nodes)
        /\ Len(Link(q, n)) = (k - 1) + 1
        /\ \A i \in 1..(k - 1) : Link(q, n)[i] = q[i]
        /\ Link(q, n)[(k - 1) + 1] = n
        /\ k - 1 < Len(q) /\ q[(k - 1) + 1] = n
    BY <2>1, <2>2, <2>3, <2>4
  <2> QED
    BY <2>4, <2>5 DEF q
<1> QED
  BY <1>1, <1>2

(* At the start every list is initialised and holds nothing. *)
LEMMA InitInv == Init => Inv
BY ListAssumption DEF Init, Inv, TypeOK, WellLinked, HeldOnce, Represents, Cells

(* enqueue: the four stores link the node behind the old tail. *)
LEMMA EnqueueInv ==
  ASSUME Inv, NEW l \in Lists, NEW n \in Nodes, enqueue(l, n)
  PROVE  Inv'
<1> DEFINE q == queue[l]
           t == prev[l]
<1>1. PICK m \in 0..Len(q) :
           /\ Link(q, n) \in Seq(Nodes)
           /\ Len(Link(q, n)) = m + 1
           /\ \A i \in 1..m : Link(q, n)[i] = q[i]
           /\ Link(q, n)[m + 1] = n
           /\ \/ m = Len(q) /\ n \notin ToSet(q)
              \/ m < Len(q) /\ q[m + 1] = n
  BY LinkKeeps DEF Inv, WellLinked
<1>2. /\ q \in Seq(Nodes) /\ n # l /\ n # NULL /\ l # NULL
      /\ t = IF q = <<>> THEN l ELSE q[Len(q)]
      /\ t \in Cells /\ t # NULL /\ n \in Cells /\ l \in Cells
  BY ListAssumption DEF Inv, TypeOK, WellLinked, Represents, Cells
<1>3. /\ next' = [next EXCEPT ![t] = n, ![n] = l]
      /\ prev' = [prev EXCEPT ![n] = t, ![l] = n]
      /\ queue' = [queue EXCEPT ![l] = Link(q, n)]
      /\ ret' = NULL
      /\ \A k \in Lists \ {l} : n \notin ToSet(queue[k])
  BY DEF enqueue, MayEnqueue
<1>4. TypeOK'
  BY <1>1, <1>2, <1>3 DEF Inv, TypeOK
<1>5. HeldOnce'
  <2> SUFFICES ASSUME NEW h \in Lists, NEW k \in Lists,
                      NEW i \in 1..Len(queue'[h]), NEW j \in 1..Len(queue'[k]),
                      queue'[h][i] = queue'[k][j]
               PROVE  h = k /\ i = j
    BY DEF HeldOnce
  <2>1. CASE h # l /\ k # l
    BY <2>1, <1>3 DEF Inv, TypeOK, WellLinked, HeldOnce
  <2>2. CASE h = l /\ k = l
    <3>1. i \in 1..(m + 1) /\ j \in 1..(m + 1) /\ Link(q, n)[i] = Link(q, n)[j]
      BY <2>2, <1>1, <1>3 DEF Inv, TypeOK
    <3>2. \A a, b \in 1..Len(q) : q[a] = q[b] => a = b
      BY DEF Inv, WellLinked, HeldOnce
    <3>3. ASSUME NEW a \in 1..m PROVE q[a] # n
      <4>1. a \in 1..Len(q) /\ q[a] \in ToSet(q)
        BY <1>2 DEF ToSet
      <4>2. CASE m < Len(q) /\ q[m + 1] = n
        BY <4>1, <4>2, <3>2
      <4> QED
        BY <4>1, <4>2, <1>1
    <3>4. \A a \in 1..m : a \in 1..Len(q) /\ Link(q, n)[a] = q[a]
      <4>1. Len(q) \in Nat
        BY <1>2
      <4> QED
        BY <4>1, <1>1
    <3>5. CASE i = m + 1
      BY <3>1, <3>3, <3>4, <3>5, <2>2, <1>1
    <3>6. CASE i \in 1..m
      BY <3>1, <3>2, <3>3, <3>4, <3>6, <2>2, <1>1
    <3> QED
      BY <3>1, <3>5, <3>6
  <2>3. \A g \in Lists \ {l} : \A a \in 1..Len(queue[g]), b \in 1..(m + 1) :
           queue[g][a] # Link(q, n)[b]
    <3> SUFFICES ASSUME NEW g \in Lists \ {l}, NEW a \in 1..Len(queue[g]),
                        NEW b \in 1..(m + 1)
                 PROVE  queue[g][a] # Link(q, n)[b]
      OBVIOUS
    <3>1. CASE b = m + 1
      <4>1. queue[g][a] \in ToSet(queue[g])
        BY DEF ToSet, Inv, TypeOK
      <4> QED
        BY <3>1, <4>1, <1>1, <1>3
    <3>2. CASE b \in 1..m
      <4>1. b \in 1..Len(q) /\ Link(q, n)[b] = q[b]
        BY <3>2, <1>1, <1>2
      <4> QED
        BY <4>1 DEF Inv, WellLinked, HeldOnce
    <3> QED
      BY <3>1, <3>2, <1>1
  <2> QED
    BY <2>1, <2>2, <2>3, <1>1, <1>3 DEF Inv, TypeOK
<1>6. ASSUME NEW h \in Lists PROVE Represents(h, queue[h])'
  <2>1. CASE h # l
    <3>1. /\ queue'[h] = queue[h] /\ queue[h] \in Seq(Nodes)
          /\ Represents(h, queue[h])
          /\ h # t /\ h # n
      BY <2>1, <1>2, <1>3, ListAssumption DEF Inv, TypeOK, WellLinked
    <3>2. ASSUME NEW i \in 1..Len(queue[h])
          PROVE  queue[h][i] \in Nodes /\ queue[h][i] # n /\ queue[h][i] # t
      <4>1. queue[h][i] \in ToSet(queue[h]) /\ queue[h][i] \in Nodes
        BY <3>1 DEF ToSet
      <4>2. queue[h][i] # t
        BY <2>1, <1>2, <4>1, ListAssumption DEF Inv, WellLinked, HeldOnce
      <4> QED
        BY <4>1, <4>2, <2>1, <1>3
    <3>3. \A c \in Cells : c # n /\ c # t => next'[c] = next[c]
      BY <1>2, <1>3 DEF Inv, TypeOK
    <3>4. \A c \in Cells : c # n /\ c # l => prev'[c] = prev[c]
      BY <1>2, <1>3 DEF Inv, TypeOK
    <3>5. next'[h] = next[h] /\ prev'[h] = prev[h]
      BY <3>1, <3>3, <3>4, <2>1 DEF Cells
    <3>6. ASSUME NEW i \in 1..Len(queue[h])
          PROVE  /\ next'[queue[h][i]] = next[queue[h][i]]
                 /\ prev'[queue[h][i]] = prev[queue[h][i]]
      BY <3>2, <3>3, <3>4, ListAssumption DEF Cells
    <3> QED
      BY <3>1, <3>5, <3>6 DEF Represents
  <2>2. CASE h = l
    <3> DEFINE p == Link(q, n)
    <3>1. queue'[l] = p /\ p # <<>> /\ Len(p) = m + 1
      BY <1>1, <1>3 DEF Inv, TypeOK
    <3>2. prev'[l] = n /\ p[Len(p)] = n
      BY <1>1, <1>2, <1>3 DEF Inv, TypeOK
    <3>3. next'[n] = l /\ prev'[n] # NULL
      BY <1>2, <1>3 DEF Inv, TypeOK
    <3>4. next'[l] = p[1]
      <4>1. CASE m = 0 /\ Len(q) = 0
        BY <4>1, <1>1, <1>2, <1>3 DEF Inv, TypeOK
      <4>2. CASE Len(q) # 0
        <5>1. t = q[Len(q)] /\ t \in Nodes /\ t # l /\ next[l] = q[1]
          BY <4>2, <1>2, ListAssumption DEF Inv, WellLinked, Represents
        <5>2. next'[l] = q[1]
          BY <5>1, <1>2, <1>3 DEF Inv, TypeOK
        <5>3. p[1] = q[1]
          BY <4>2, <1>1, <1>2
        <5> QED
          BY <5>2, <5>3
      <4> QED
        BY <4>1, <4>2, <1>1, <1>2
    <3>5. ASSUME NEW i \in 1..m
          PROVE  next'[p[i]] = p[i + 1] /\ prev'[p[i]] # NULL
      <4>1. /\ i \in 1..Len(q) /\ p[i] = q[i] /\ q[i] \in Nodes
            /\ q[i] # n /\ q[i] # l /\ q[i] \in Cells /\ prev[q[i]] # NULL
        BY <1>1, <1>2, ListAssumption DEF ToSet, Inv, WellLinked, HeldOnce, Represents, Cells
      <4>2. prev'[p[i]] # NULL
        BY <4>1, <1>2, <1>3 DEF Inv, TypeOK
      <4>3. CASE i = Len(q)
        <5>1. i = m /\ q[i] = t /\ p[i + 1] = n
          BY <4>3, <4>1, <1>1, <1>2
        <5> QED
          BY <5>1, <4>1, <4>2, <1>2, <1>3 DEF Inv, TypeOK
      <4>4. CASE i # Len(q)
        <5>0. /\ Len(q) \in 1..Len(q) /\ t = q[Len(q)]
              /\ \A a, b \in 1..Len(q) : q[a] = q[b] => a = b
          BY <4>1, <1>2 DEF Inv, WellLinked, HeldOnce
        <5>1. q[i] # t /\ next[q[i]] = q[i + 1]
          BY <5>0, <4>4, <4>1 DEF Inv, WellLinked, Represents
        <5>2. next'[q[i]] = q[i + 1]
          BY <5>1, <4>1, <1>2, <1>3 DEF Inv, TypeOK
        <5>3. p[i + 1] = q[i + 1]
          BY SMTT(30), <4>4, <4>1, <1>1, <1>2
        <5> QED
          BY <5>2, <5>3, <4>1, <4>2
      <4> QED
        BY <4>3, <4>4
    <3> QED
      BY <3>1, <3>2, <3>3, <3>4, <3>5, <1>1, <2>2 DEF Represents
  <2> QED
    BY <2>1, <2>2
<1> QED
  BY <1>4, <1>5, <1>6 DEF Inv, WellLinked

(* list_init: the head is alone in its circle. *)
LEMMA ListInitInv ==
  ASSUME Inv, NEW l \in Lists, list_init(l)
  PROVE  Inv'
<1>1. /\ next' = [next EXCEPT ![l] = l] /\ prev' = [prev EXCEPT ![l] = l]
      /\ queue' = [queue EXCEPT ![l] = <<>>] /\ ret' = NULL /\ l \in Cells
  BY DEF list_init, Cells
<1>2. TypeOK'
  BY <1>1 DEF Inv, TypeOK
<1>3. \A h \in Lists : IF h = l THEN queue'[h] = <<>> ELSE queue'[h] = queue[h]
  BY <1>1 DEF Inv, TypeOK
<1>4. HeldOnce'
  BY <1>3 DEF Inv, TypeOK, WellLinked, HeldOnce
<1>5. ASSUME NEW h \in Lists PROVE Represents(h, queue[h])'
  <2>1. CASE h = l
    BY <2>1, <1>1, <1>3 DEF Inv, TypeOK, Represents
  <2>2. CASE h # l
    <3>1. /\ \A c \in Cells : c # l => next'[c] = next[c] /\ prev'[c] = prev[c]
          /\ queue'[h] = queue[h] /\ h \in Cells
          /\ \A i \in 1..Len(queue[h]) : queue[h][i] \in Cells /\ queue[h][i] # l
      BY <2>2, <1>1, <1>3, ListAssumption DEF Inv, TypeOK, Cells
    <3> QED
      BY <2>2, <3>1 DEF Inv, WellLinked, Represents
  <2> QED
    BY <2>1, <2>2
<1> QED
  BY <1>2, <1>4, <1>5 DEF Inv, WellLinked

(* dequeue: the first node leaves, and is what the call returns. *)
LEMMA DequeueInv ==
  ASSUME Inv, NEW l \in Lists, dequeue(l)
  PROVE  Inv' /\ (queue[l] # <<>> => next[l] = Head(queue[l]))
              /\ (queue[l] = <<>> <=> is_list_empty(l))
<1> DEFINE q == queue[l]
<1>1. /\ q \in Seq(Nodes) /\ Represents(l, q)
      /\ \A a, b \in 1..Len(q) : q[a] = q[b] => a = b
      /\ \A a \in 1..Len(q) : q[a] \in Nodes /\ q[a] # l /\ q[a] # NULL /\ q[a] \in Cells
  BY ListAssumption DEF Inv, TypeOK, WellLinked, HeldOnce, Cells
<1>2. q = <<>> <=> is_list_empty(l)
  BY <1>1 DEF Represents, is_list_empty
<1>3. CASE q = <<>>
  <2>1. ret' = NULL /\ next' = next /\ prev' = prev /\ queue' = queue
    BY <1>2, <1>3 DEF dequeue
  <2> QED
    BY <1>2, <1>3, <2>1 DEF Inv, TypeOK, WellLinked, HeldOnce, Represents
<1>4. CASE q # <<>>
  <2> DEFINE d == next[l]
             x == next[d]
             r == Tail(q)
  <2>1. /\ d = q[1] /\ d = Head(q) /\ d \in Nodes /\ d \in Cells /\ d # l
        /\ Len(q) \in Nat \ {0} /\ l \in Cells
    BY <1>1, <1>4 DEF Represents, Cells
  <2>2. /\ r \in Seq(Nodes) /\ Len(r) = Len(q) - 1
        /\ \A i \in 1..Len(r) : i + 1 \in 1..Len(q) /\ r[i] = q[i + 1]
    BY <1>1, <1>4
  <2>0. d = next[l] /\ x = next[d]
    OBVIOUS
  <2>4. /\ next' = [next EXCEPT ![l] = x, ![d] = NULL]
        /\ prev' = [prev EXCEPT ![x] = l, ![d] = NULL]
        /\ queue' = [queue EXCEPT ![l] = r]
        /\ ret' = d
    BY <1>2, <1>4 DEF dequeue
  <2> HIDE DEF r, d, x
  <2>3. x = (IF r = <<>> THEN l ELSE r[1]) /\ x \in Cells
    <3>0. \A i \in 1..Len(q) : next[q[i]] = IF i = Len(q) THEN l ELSE q[i + 1]
      BY <1>1 DEF Represents
    <3>1. 1 \in 1..Len(q) /\ x = next[q[1]]
      BY <2>1, <2>0
    <3>2. CASE Len(q) = 1
      <4>1. r = <<>>
        BY <3>2, <2>2
      <4>2. x = l
        BY <3>0, <3>1, <3>2
      <4> QED
        BY <4>1, <4>2, <2>1
    <3>3. CASE Len(q) # 1
      <4>1. Len(r) \in Nat \ {0}
        BY <3>3, <2>1, <2>2
      <4>2. r # <<>> /\ 1 \in 1..Len(r)
        BY <4>1
      <4>3. 2 \in 1..Len(q) /\ r[1] = q[2]
        BY <4>2, <2>2
      <4>4. x = q[1 + 1]
        BY <3>0, <3>1, <3>3, Zenon
      <4>5. 1 + 1 = 2
        OBVIOUS
      <4> QED
        BY <4>2, <4>3, <4>4, <4>5, <1>1
    <3> QED
      BY <3>2, <3>3
  <2>5. TypeOK'
    BY <2>1, <2>2, <2>3, <2>4 DEF Inv, TypeOK
  <2>6. /\ queue'[l] = r
        /\ \A h \in Lists : h # l => queue'[h] = queue[h]
    BY <2>4 DEF Inv, TypeOK
  <2>7. HeldOnce'
    <3> SUFFICES ASSUME NEW h \in Lists, NEW k \in Lists,
                        NEW i \in 1..Len(queue'[h]), NEW j \in 1..Len(queue'[k]),
                        queue'[h][i] = queue'[k][j]
                 PROVE  h = k /\ i = j
      BY DEF HeldOnce
    <3>1. CASE h # l /\ k # l
      BY <3>1, <2>6 DEF Inv, WellLinked, HeldOnce
    <3>2. CASE h = l /\ k = l
      BY <3>2, <2>6, <2>2, <1>1
    <3>3. CASE h = l /\ k # l
      BY <3>3, <2>6, <2>2 DEF Inv, WellLinked, HeldOnce
    <3>4. CASE h # l /\ k = l
      BY SMTT(30), <3>4, <2>6, <2>2 DEF Inv, WellLinked, HeldOnce
    <3> QED
      BY <3>1, <3>2, <3>3, <3>4
  <2>8. \A c \in Cells : /\ c # l /\ c # d => next'[c] = next[c]
                         /\ c # x /\ c # d => prev'[c] = prev[c]
    BY <2>1, <2>3, <2>4 DEF Inv, TypeOK
  <2>9. ASSUME NEW h \in Lists PROVE Represents(h, queue[h])'
    <3>1. CASE h # l
      <4>1. /\ h \in Cells /\ h # d /\ Represents(h, queue[h])
            /\ queue'[h] = queue[h] /\ queue[h] \in Seq(Nodes)
        BY <3>1, <2>1, <2>6, ListAssumption DEF Inv, TypeOK, WellLinked, Cells
      <4>2. h # x
        BY <3>1, <2>2, <2>3, ListAssumption
      <4>3. ASSUME NEW i \in 1..Len(queue[h])
            PROVE  /\ queue[h][i] \in Cells /\ queue[h][i] # d
                   /\ queue[h][i] # l /\ queue[h][i] # x
        <5>1. queue[h][i] \in Nodes /\ queue[h][i] # l /\ queue[h][i] \in Cells
          BY <4>1, ListAssumption DEF Cells
        <5>2. \A j \in 1..Len(q) : queue[h][i] # q[j]
          BY <3>1 DEF Inv, WellLinked, HeldOnce
        <5>3. queue[h][i] # d
          BY <5>2, <2>1
        <5>4. CASE r = <<>>
          BY <5>1, <5>3, <5>4, <2>3
        <5>5. CASE r # <<>>
          <6>1. 1 \in 1..Len(r) /\ 1 + 1 \in 1..Len(q) /\ x = q[1 + 1]
            BY <5>5, <2>2, <2>3
          <6> QED
            BY <5>1, <5>2, <5>3, <6>1
        <5> QED
          BY <5>4, <5>5
      <4> QED
        BY <4>1, <4>2, <4>3, <2>8, <3>1 DEF Represents
    <3>2. CASE h = l
      <4>1. next'[l] = IF r = <<>> THEN l ELSE r[1]
        BY <2>1, <2>3, <2>4 DEF Inv, TypeOK
      <4>2. prev'[l] = IF r = <<>> THEN l ELSE r[Len(r)]
        <5>1. CASE r = <<>>
          BY <5>1, <2>1, <2>3, <2>4 DEF Inv, TypeOK
        <5>2. CASE r # <<>>
          <6>1. x # l /\ prev'[l] = prev[l]
            BY <5>2, <1>1, <2>1, <2>2, <2>3, <2>8
          <6>2. r[Len(r)] = q[Len(q)] /\ prev[l] = q[Len(q)]
            BY <5>2, <1>1, <1>4, <2>2 DEF Represents
          <6> QED
            BY <5>2, <6>1, <6>2
        <5> QED
          BY <5>1, <5>2
      <4>3. ASSUME NEW i \in 1..Len(r)
            PROVE  /\ next'[r[i]] = IF i = Len(r) THEN l ELSE r[i + 1]
                   /\ prev'[r[i]] # NULL
        <5>1. /\ i + 1 \in 1..Len(q) /\ r[i] = q[i + 1] /\ r[i] \in Cells
              /\ r[i] # l /\ r[i] # d /\ prev[r[i]] # NULL
              /\ next[r[i]] = IF i + 1 = Len(q) THEN l ELSE q[i + 2]
          BY <1>1, <2>1, <2>2 DEF Represents
        <5>2. next'[r[i]] = next[r[i]]
          BY <5>1, <2>8
        <5>3. i # Len(r) => q[i + 2] = r[i + 1]
          BY <2>2
        <5>4. prev'[r[i]] # NULL
          <6>1. l # NULL
            BY ListAssumption
          <6> QED
            BY <5>1, <6>1, <2>1, <2>3, <2>4 DEF Inv, TypeOK
        <5> QED
          BY <5>1, <5>2, <5>3, <5>4, <2>1, <2>2
      <4> QED
        BY <4>1, <4>2, <4>3, <3>2, <2>6 DEF Represents
    <3> QED
      BY <3>1, <3>2
  <2> QED
    BY <2>0, <2>1, <2>5, <2>7, <2>9, <1>2, <1>4 DEF Inv, WellLinked
<1> QED
  BY <1>3, <1>4

(* A node with a NULL pointer is in no list: delete_item has nothing to do. *)
LEMMA LooseNode ==
  ASSUME Inv, NEW n \in Nodes, prev[n] = NULL \/ next[n] = NULL
  PROVE  \A h \in Lists : n \notin ToSet(queue[h])
<1> SUFFICES ASSUME NEW h \in Lists, NEW i \in DOMAIN queue[h], queue[h][i] = n
             PROVE  FALSE
  BY DEF ToSet
<1>1. queue[h] \in Seq(Nodes) /\ i \in 1..Len(queue[h])
  BY DEF Inv, TypeOK
<1>2. prev[n] # NULL
  BY <1>1 DEF Inv, WellLinked, Represents
<1>3. next[n] = IF i = Len(queue[h]) THEN h ELSE queue[h][i + 1]
  BY <1>1 DEF Inv, WellLinked, Represents
<1>4. next[n] \in Lists \cup Nodes
  <2>1. i # Len(queue[h]) => i + 1 \in 1..Len(queue[h])
    BY <1>1
  <2> QED
    BY <1>1, <1>3, <2>1
<1> QED
  BY <1>2, <1>4, ListAssumption

(* delete_item: the neighbours of the node are tied together. *)
LEMMA DeleteInv ==
  ASSUME Inv, NEW n \in Nodes, delete_item(n)
  PROVE  Inv' /\ queue' = [l \in Lists |-> Without(queue[l], n)]
<1>1. CASE prev[n] = NULL \/ next[n] = NULL
  <2>1. next' = next /\ prev' = prev /\ queue' = queue /\ ret' = NULL
    BY <1>1 DEF delete_item
  <2>2. Inv'
    BY <2>1 DEF Inv, TypeOK, WellLinked, HeldOnce, Represents
  <2>3. \A h \in Lists : Without(queue[h], n) = queue[h]
    BY <1>1, LooseNode, WithoutAbsent
  <2> QED
    BY <2>1, <2>2, <2>3 DEF Inv, TypeOK
<1>2. CASE prev[n] # NULL /\ next[n] # NULL
  <2>1. PICK l \in Lists : \E k \in 1..Len(queue[l]) :
            /\ queue[l][k] = n
            /\ prev[n] = IF k = 1 THEN l ELSE queue[l][k - 1]
    BY <1>2 DEF delete_item, MayDelete
  <2> DEFINE q == queue[l]
             r == Without(q, n)
             a == prev[n]
             z == next[n]
  <2>2. PICK k \in 1..Len(q) : /\ q[k] = n
                               /\ a = IF k = 1 THEN l ELSE q[k - 1]
    BY <2>1
  <2>3. /\ q \in Seq(Nodes) /\ Represents(l, q) /\ Len(q) \in Nat \ {0} /\ k \in Int
        /\ \A i, j \in 1..Len(q) : q[i] = q[j] => i = j
        /\ \A i \in 1..Len(q) : q[i] \in Nodes /\ q[i] # l /\ q[i] # NULL /\ q[i] \in Cells
        /\ l \in Cells /\ l # NULL /\ n \in Cells /\ n # l
    BY <2>2, ListAssumption DEF Inv, TypeOK, WellLinked, HeldOnce, Cells
  <2>4. /\ r \in Seq(Nodes) /\ Len(r) = Len(q) - 1
        /\ \A i \in 1..(Len(q) - 1) : r[i] = IF i < k THEN q[i] ELSE q[i + 1]
    BY ZenonT(60), <2>2, <2>3, WithoutMember
  <2>5. /\ next' = [next EXCEPT ![a] = z, ![n] = NULL]
        /\ prev' = [prev EXCEPT ![z] = a, ![n] = NULL]
        /\ queue' = [h \in Lists |-> Without(queue[h], n)]
        /\ ret' = NULL
    BY <1>2 DEF delete_item
  <2>6. ASSUME NEW h \in Lists, h # l
        PROVE  /\ queue'[h] = queue[h]
               /\ \A i \in 1..Len(queue[h]) : \A j \in 1..Len(q) : queue[h][i] # q[j]
    <3>1. \A i \in 1..Len(queue[h]) : \A j \in 1..Len(q) : queue[h][i] # q[j]
      BY <2>6 DEF Inv, WellLinked, HeldOnce
    <3>2. n \notin ToSet(queue[h])
      BY <2>2, <3>1 DEF ToSet, Inv, TypeOK
    <3> QED
      BY <3>1, <3>2, <2>5, WithoutAbsent
  <2>7. queue'[l] = r
    BY <2>5
  <2>8. z = IF k = Len(q) THEN l ELSE q[k + 1]
    BY <2>2, <2>3 DEF Represents
  <2> HIDE DEF r, a, z
  <2>9. /\ k # 1 => k - 1 \in 1..Len(q) /\ a = q[k - 1]
        /\ k # Len(q) => k + 1 \in 1..Len(q) /\ z = q[k + 1]
        /\ a \in Cells /\ z \in Cells /\ a # n /\ z # n /\ a # NULL
    BY <2>2, <2>3, <2>8
  <2>10. TypeOK'
    <3>1. queue' \in [Lists -> Seq(Nodes)]
      BY <2>4, <2>5, <2>6, <2>7 DEF Inv, TypeOK
    <3> QED
      BY <3>1, <2>5, <2>9 DEF Inv, TypeOK
  <2>11. \A i \in 1..Len(r) :
           /\ IF i < k THEN i \in 1..Len(q) /\ r[i] = q[i]
                       ELSE i + 1 \in 1..Len(q) /\ r[i] = q[i + 1]
           /\ r[i] # n /\ r[i] \in Cells /\ r[i] # l /\ prev[r[i]] # NULL
    <3> SUFFICES ASSUME NEW i \in 1..Len(r)
                 PROVE  /\ IF i < k THEN i \in 1..Len(q) /\ r[i] = q[i]
                                    ELSE i + 1 \in 1..Len(q) /\ r[i] = q[i + 1]
                        /\ r[i] # n /\ r[i] \in Cells /\ r[i] # l /\ prev[r[i]] # NULL
      OBVIOUS
    <3>1. IF i < k THEN i \in 1..Len(q) /\ r[i] = q[i]
                   ELSE i + 1 \in 1..Len(q) /\ r[i] = q[i + 1]
      BY <2>3, <2>4
    <3>2. \E j \in 1..Len(q) : j # k /\ r[i] = q[j]
      BY <3>1, <2>3
    <3> QED
      BY <3>1, <3>2, <2>2, <2>3 DEF Represents
  <2>12. HeldOnce'
    <3> SUFFICES ASSUME NEW g \in Lists, NEW h \in Lists,
                        NEW i \in 1..Len(queue'[g]), NEW j \in 1..Len(queue'[h]),
                        queue'[g][i] = queue'[h][j]
                 PROVE  g = h /\ i = j
      BY DEF HeldOnce
    <3>1. CASE g # l /\ h # l
      BY <3>1, <2>6 DEF Inv, WellLinked, HeldOnce
    <3>2. CASE g = l /\ h = l
      <4>1. i \in 1..Len(r) /\ j \in 1..Len(r) /\ r[i] = r[j]
        BY <3>2, <2>7
      <4>2. PICK x \in 1..Len(q) : r[i] = q[x] /\ x = IF i < k THEN i ELSE i + 1
        BY <4>1, <2>3, <2>4, <2>11
      <4>3. PICK y \in 1..Len(q) : r[j] = q[y] /\ y = IF j < k THEN j ELSE j + 1
        BY <4>1, <2>3, <2>4, <2>11
      <4>4. x = y
        BY <4>1, <4>2, <4>3, <2>3
      <4> QED
        BY <3>2, <4>1, <4>2, <4>3, <4>4, <2>3, <2>4
    <3>3. CASE g = l /\ h # l
      BY <3>3, <2>6, <2>7, <2>11
    <3>4. CASE g # l /\ h = l
      BY <3>4, <2>6, <2>7, <2>11
    <3> QED
      BY <3>1, <3>2, <3>3, <3>4
  <2>13. \A c \in Cells : /\ c # a /\ c # n => next'[c] = next[c]
                          /\ c # z /\ c # n => prev'[c] = prev[c]
    BY <2>3, <2>5, <2>9 DEF Inv, TypeOK
  <2>14. next'[a] = z /\ prev'[z] = a
    BY <2>3, <2>5, <2>9 DEF Inv, TypeOK
  <2>15. ASSUME NEW h \in Lists, h # l PROVE Represents(h, queue[h])'
    <3>1. /\ h \in Cells /\ Represents(h, queue[h]) /\ queue[h] \in Seq(Nodes)
          /\ h # n /\ h # a /\ h # z
      BY <2>15, <2>3, <2>9, <2>2, <2>8, ListAssumption DEF Inv, TypeOK, WellLinked, Cells
    <3>2. ASSUME NEW i \in 1..Len(queue[h])
          PROVE  /\ queue[h][i] \in Cells /\ queue[h][i] # n
                 /\ queue[h][i] # a /\ queue[h][i] # z
      <4>1. queue[h][i] \in Nodes /\ queue[h][i] # l /\ queue[h][i] \in Cells
        BY <3>1, ListAssumption DEF Cells
      <4>2. \A j \in 1..Len(q) : queue[h][i] # q[j]
        BY <2>6, <2>15
      <4> QED
        BY <4>1, <4>2, <2>2, <2>8, <2>9
    <3> QED
      BY SMTT(30), <3>1, <3>2, <2>6, <2>13, <2>15 DEF Represents
  <2>16. Represents(l, queue[l])'
    <3>1. next'[l] = IF r = <<>> THEN l ELSE r[1]
      <4>1. CASE k = 1
        <5>1. a = l
          BY <4>1, <2>2
        <5>2. CASE Len(q) = 1
          BY <4>1, <5>1, <5>2, <2>4, <2>8, <2>14
        <5>3. CASE Len(q) # 1
          <6>0. Len(q) \in Nat \ {0} /\ Len(r) = Len(q) - 1 /\ k # Len(q)
            BY <4>1, <5>3, <2>3, <2>4
          <6>1. z = q[k + 1] /\ Len(r) \in Nat \ {0} /\ 1 \in 1..(Len(q) - 1)
            BY <5>3, <6>0, <2>8
          <6>2. r # <<>> /\ r[1] = q[1 + 1]
            BY <4>1, <6>1, <2>4
          <6> QED
            BY <4>1, <5>1, <6>1, <6>2, <2>14
        <5> QED
          BY <5>2, <5>3
      <4>2. CASE k # 1
        <5>1. a # l /\ next'[l] = next[l] /\ next[l] = q[1]
          BY <4>2, <2>3, <2>9, <2>13 DEF Represents
        <5>2. Len(r) \in Nat \ {0} /\ 1 \in 1..(Len(q) - 1) /\ 1 < k
          BY <4>2, <2>3, <2>4
        <5>3. r # <<>> /\ r[1] = q[1]
          BY <5>2, <2>4
        <5> QED
          BY <5>1, <5>3
      <4> QED
        BY <4>1, <4>2
    <3>2. prev'[l] = IF r = <<>> THEN l ELSE r[Len(r)]
      <4>1. CASE k = Len(q)
        <5>1. z = l /\ prev'[l] = a
          BY <4>1, <2>8, <2>14
        <5>2. CASE k = 1
          BY <4>1, <5>1, <5>2, <2>2, <2>4
        <5>3. CASE k # 1
          <6>0. Len(q) \in Nat \ {0} /\ Len(r) = Len(q) - 1 /\ Len(q) # 1
            BY <4>1, <5>3, <2>3, <2>4
          <6>1. Len(r) = k - 1 /\ Len(r) \in Nat \ {0} /\ Len(r) \in 1..(Len(q) - 1) /\ Len(r) < k
            <7>1. ASSUME NEW m \in Nat \ {0}, m # 1
                  PROVE  m - 1 \in Nat \ {0} /\ m - 1 \in 1..(m - 1) /\ m - 1 < m
              BY <7>1
            <7>2. Len(q) - 1 \in Nat \ {0} /\ Len(q) - 1 \in 1..(Len(q) - 1) /\ Len(q) - 1 < Len(q)
              BY <6>0, <7>1
            <7> QED
              BY <4>1, <6>0, <7>2
          <6>2. r # <<>> /\ r[Len(r)] = q[k - 1]
            BY <6>1, <2>4
          <6> QED
            BY <5>1, <5>3, <6>2, <2>9
        <5> QED
          BY <5>2, <5>3
      <4>2. CASE k # Len(q)
        <5>1. z # l /\ prev'[l] = prev[l] /\ prev[l] = q[Len(q)]
          BY <4>2, <2>3, <2>9, <2>13 DEF Represents
        <5>2. Len(r) \in Nat \ {0} /\ Len(r) \in 1..(Len(q) - 1) /\ ~(Len(r) < k) /\ Len(r) + 1 = Len(q)
          BY <4>2, <2>3, <2>4
        <5>3. r # <<>> /\ r[Len(r)] = q[Len(q)]
          BY <5>2, <2>4
        <5> QED
          BY <5>1, <5>3
      <4> QED
        BY <4>1, <4>2
    <3>3. ASSUME NEW i \in 1..Len(r)
          PROVE  /\ next'[r[i]] = IF i = Len(r) THEN l ELSE r[i + 1]
                 /\ prev'[r[i]] # NULL
      <4>0. i \in Int /\ Len(r) \in Nat /\ i >= 1 /\ i <= Len(r) /\ Len(r) = Len(q) - 1
        BY <2>3, <2>4
      <4>1. prev'[r[i]] # NULL
        BY <2>9, <2>11, <2>13, <2>14
      <4>2. CASE i < k - 1
        <5>1. /\ i \in 1..Len(q) /\ r[i] = q[i] /\ i + 1 \in 1..Len(r) /\ i + 1 < k
              /\ i # k - 1 /\ i # Len(q) /\ i # Len(r)
          BY <4>0, <4>2, <2>3, <2>11
        <5>2. r[i] # a
          BY <5>1, <2>3, <2>9, <2>2
        <5>3. next[r[i]] = q[i + 1] /\ r[i + 1] = q[i + 1]
          BY <5>1, <2>3, <2>11 DEF Represents
        <5> QED
          BY <4>1, <5>1, <5>2, <5>3, <2>11, <2>13
      <4>3. CASE i = k - 1
        <5>1. k # 1 /\ i < k /\ r[i] = a
          BY <4>0, <4>3, <2>3, <2>9, <2>11
        <5>2. next'[r[i]] = z
          BY <5>1, <2>14
        <5>3. CASE k = Len(q)
          BY <4>0, <4>1, <4>3, <5>2, <5>3, <2>8
        <5>4. CASE k # Len(q)
          <6>1. i # Len(r) /\ i + 1 \in 1..Len(r) /\ ~(i + 1 < k) /\ (i + 1) + 1 = k + 1
            BY <4>0, <4>3, <5>4, <2>3
          <6>2. r[i + 1] = q[k + 1]
            BY <6>1, <2>11
          <6> QED
            BY <4>1, <5>2, <5>4, <6>1, <6>2, <2>9
        <5> QED
          BY <5>3, <5>4
      <4>4. CASE i >= k
        <5>1. /\ ~(i < k) /\ i + 1 \in 1..Len(q) /\ r[i] = q[i + 1]
          BY <4>0, <4>4, <2>3, <2>11
        <5>2. r[i] # a
          <6>1. CASE k = 1
            BY <6>1, <2>2, <2>11
          <6>2. CASE k # 1
            BY <4>0, <4>4, <5>1, <6>2, <2>3, <2>9
          <6> QED
            BY <6>1, <6>2
        <5>3. next'[r[i]] = IF i + 1 = Len(q) THEN l ELSE q[(i + 1) + 1]
          BY SMTT(30), <5>1, <5>2, <2>3, <2>11, <2>13 DEF Represents
        <5>4. i # Len(r) => r[i + 1] = q[(i + 1) + 1]
          <6>1. i # Len(r) => i + 1 \in 1..Len(r) /\ ~(i + 1 < k)
            BY <4>0, <4>4, <2>3
          <6> QED
            BY <6>1, <2>11
        <5> QED
          BY <4>0, <4>1, <5>3, <5>4
      <4> QED
        BY <4>0, <4>2, <4>3, <4>4, <2>3
    <3> QED
      BY <3>1, <3>2, <3>3, <2>7 DEF Represents
  <2> QED
    BY <2>5, <2>10, <2>12, <2>15, <2>16 DEF Inv, WellLinked
<1> QED
  BY <1>1, <1>2

(***************************************************************************)
(* Whatever calls the kernel makes on list.c, in any order and on any      *)
(* number of lists and PCBs: the types are kept and every list stays a     *)
(* closed circle of exactly the nodes it should hold.                      *)
(***************************************************************************)
THEOREM ListsWellLinked == Spec => [](TypeOK /\ WellLinked)
<1>1. Init => Inv
  BY InitInv
<1>2. Inv /\ [Next]_vars => Inv'
  <2> SUFFICES ASSUME Inv, [Next]_vars PROVE Inv'
    OBVIOUS
  <2>1. ASSUME NEW l \in Lists, list_init(l) PROVE Inv'
    BY <2>1, ListInitInv
  <2>2. ASSUME NEW l \in Lists, dequeue(l) PROVE Inv'
    BY <2>2, DequeueInv
  <2>3. ASSUME NEW l \in Lists, NEW n \in Nodes, enqueue(l, n) PROVE Inv'
    BY <2>3, EnqueueInv
  <2>4. ASSUME NEW n \in Nodes, delete_item(n) PROVE Inv'
    BY <2>4, DeleteInv
  <2>5. CASE UNCHANGED vars
    BY <2>5 DEF vars, Inv, TypeOK, WellLinked, HeldOnce, Represents
  <2> QED
    BY <2>1, <2>2, <2>3, <2>4, <2>5 DEF Next
<1>3. Inv => TypeOK /\ WellLinked
  BY DEF Inv
<1> QED
  BY <1>1, <1>2, <1>3, PTL DEF Spec

(* No call leaves a pointer that is neither NULL, nor a head, nor a node. *)
THEOREM ListTypesKept == Spec => []TypeOK
BY ListsWellLinked, PTL

(***************************************************************************)
(* list.c implements a queue: enqueue, dequeue, delete_item and list_init  *)
(* are Insert, Take, Delete and Clear of Fifo.  In particular dequeue      *)
(* returns the node that has waited longest, in every list.                *)
(***************************************************************************)
THEOREM ListsImplementFifo == Spec => ImplementsFifo
<1>1. Init => FifoOrder!Init
  BY DEF Init, FifoOrder!Init
<1>2. TypeOK /\ WellLinked /\ [Next]_vars => [FifoOrder!Next]_(FifoOrder!vars)
  <2> SUFFICES ASSUME Inv, [Next]_vars PROVE [FifoOrder!Next]_(FifoOrder!vars)
    BY DEF Inv
  <2>1. ASSUME NEW l \in Lists, list_init(l) PROVE FifoOrder!Next
    BY <2>1 DEF list_init, FifoOrder!Next, FifoOrder!Clear
  <2>2. ASSUME NEW l \in Lists, dequeue(l) PROVE FifoOrder!Next
    <3>1. FifoOrder!Take(l)
      BY <2>2, DequeueInv DEF dequeue, FifoOrder!Take
    <3> QED
      BY <3>1 DEF FifoOrder!Next
  <2>3. ASSUME NEW l \in Lists, NEW n \in Nodes, enqueue(l, n) PROVE FifoOrder!Next
    <3>1. FifoOrder!Insert(l, n)
      BY <2>3 DEF enqueue, MayEnqueue, FifoOrder!Insert, Link, FifoOrder!Link,
                  PlaceOf, FifoOrder!PlaceOf, ToSet, FifoOrder!ToSet
    <3> QED
      BY <3>1 DEF FifoOrder!Next
  <2>4. ASSUME NEW n \in Nodes, delete_item(n) PROVE FifoOrder!Next
    <3>1. FifoOrder!Delete(n)
      BY <2>4, DeleteInv DEF delete_item, FifoOrder!Delete, Without, FifoOrder!Without,
                  PlaceOf, FifoOrder!PlaceOf, ToSet, FifoOrder!ToSet, RemoveAt, FifoOrder!RemoveAt
    <3> QED
      BY <3>1 DEF FifoOrder!Next
  <2>5. CASE UNCHANGED vars
    BY <2>5 DEF vars, FifoOrder!vars
  <2> QED
    BY <2>1, <2>2, <2>3, <2>4, <2>5 DEF Next
<1> QED
  BY <1>1, <1>2, ListsWellLinked, PTL DEF Spec, ImplementsFifo, FifoOrder!Spec

=============================================================================
