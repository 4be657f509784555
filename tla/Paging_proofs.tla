---------------------------- MODULE Paging_proofs ----------------------------
(***************************************************************************)
(* Proofs about Paging, for every size of tables and pool, every set of    *)
(* slots and every set of programs.                                        *)
(*                                                                         *)
(* The invariant gives every page in use a level: directories, first and   *)
(* second tables, data, kernel stacks of threads.  Levels are disjoint and *)
(* a page is pointed to by one entry at most, so a walk of the tables ends *)
(* in a page that no other walk ends in.  alloc_page_helper is followed    *)
(* through its three steps, load_elf by induction over the image.          *)
(***************************************************************************)
EXTENDS Paging, FiniteSetTheorems, Recursion_proofs

Memory == [Frame -> [Entries -> Nat]]
State  == [mem : Memory, memCurr : FREEMEM..(PGDIR - 1), kva : Nat]

(* Every page in use has one level: tables A under the directories D,       *)
(* tables B under these, pages P under those, and kernel stacks K.         *)
Tree(s, D, A, B, P, K) ==
    /\ D \cup A \cup B \cup P \cup K \subseteq (FREEMEM + 1)..s.memCurr
    /\ D \cap (A \cup B \cup P \cup K) = {}
    /\ A \cap (B \cup P \cup K) = {}
    /\ B \cap (P \cup K) = {}
    /\ P \cap K = {}
    /\ \A d \in D, i \in UserTop : s.mem[d][i] # 0 => s.mem[d][i] \in A
    /\ \A f \in A, i \in Entries : s.mem[f][i] # 0 => s.mem[f][i] \in B
    /\ \A f \in B, i \in Entries : s.mem[f][i] # 0 => s.mem[f][i] \in P
    /\ \A d, e \in D, i, j \in UserTop :
          s.mem[d][i] # 0 /\ s.mem[d][i] = s.mem[e][j] => d = e /\ i = j
    /\ \A d, e \in A, i, j \in Entries :
          s.mem[d][i] # 0 /\ s.mem[d][i] = s.mem[e][j] => d = e /\ i = j
    /\ \A d, e \in B, i, j \in Entries :
          s.mem[d][i] # 0 /\ s.mem[d][i] = s.mem[e][j] => d = e /\ i = j

Sound(s, D, P, K) == \E A, B \in SUBSET Frame : Tree(s, D, A, B, P, K)

(* What a step of a handler leaves: at most n pages are taken, the pages F  *)
(* and the walks from D, or all but one of them, end where they did.       *)
Grew(s, r, n) == r \in State /\ s.memCurr <= r.memCurr /\ r.memCurr <= s.memCurr + n
SamePages(s, r, F) == \A f \in F : r.mem[f] = s.mem[f]
SameWalks(s, r, D) ==
    \A e \in D, va \in User : find_pte(r.mem, va, e) = find_pte(s.mem, va, e)
Leads(s, d, va, f) ==
    s.mem[d][vpn2(va)] # 0 /\ s.mem[s.mem[d][vpn2(va)]][vpn1(va)] = f
WordPut(s, r, D, P, K, f, i, w) ==
    /\ Grew(s, r, 0) /\ r.kva = s.kva
    /\ Sound(r, D, P, K)
    /\ SameWalks(s, r, D)
    /\ SamePages(s, r, Frame \ {f})
    /\ r.mem[f][i] = w
    /\ \A j \in Entries \ {i} : r.mem[f][j] = s.mem[f][j]
OneEntry(s, r, B, f, i, w) == \A e \in B, j \in Entries :
    r.mem[e][j] = IF e = f /\ j = i THEN w ELSE s.mem[e][j]
OtherWalks(s, r, D, d, va) ==
    \A e \in D, v \in User : <<e, v>> # <<d, va>> =>
        find_pte(r.mem, v, e) = find_pte(s.mem, v, e)
PageMapped(s, r, D, P, K, d, va) ==
    /\ Grew(s, r, 3)
    /\ SamePages(s, r, P \cup K \cup {PGDIR})
    /\ OtherWalks(s, r, D, d, va)
    /\ r.kva \in (s.memCurr + 1)..r.memCurr /\ find_pte(r.mem, va, d) = r.kva
    /\ Sound(r, D, P \cup {r.kva}, K)
PageThere(s, r, D, P, K, d, va) ==
    /\ Grew(s, r, 3)
    /\ SamePages(s, r, P \cup K \cup {PGDIR})
    /\ OtherWalks(s, r, D, d, va)
    /\ r.kva = 0 /\ find_pte(r.mem, va, d) = find_pte(s.mem, va, d)
    /\ Sound(r, D, P, K)


-----------------------------------------------------------------------------
(* Positions in the tables.                                                *)

(* The digits of a number: a quotient and a remainder determine it.        *)
LEMMA Digits ==
  ASSUME NEW a \in Nat
  PROVE  /\ a \div BASE \in Nat /\ a % BASE \in Entries
         /\ a = BASE * (a \div BASE) + (a % BASE)
BY PagingAssumption DEF Entries

(* Half of the entries of a directory are the user's.                      *)
LEMMA HalfTop ==
  /\ KernelTop = BASE \div 2 /\ KernelTop \in Nat /\ KernelTop < BASE
  /\ UserTop \subseteq Entries /\ KernelTop \in Entries
  /\ KERNEL_STACK_ADDR \in Nat
<1> DEFINE h == BASE \div 2
<1>1. h \in Nat /\ 0 < h /\ h < BASE
  BY PagingAssumption
<1>2. KERNEL_STACK_ADDR = (h * BASE) * BASE
  BY PagingAssumption
<1>3. \A x \in Nat : (x * BASE) \div BASE = x
  BY PagingAssumption
<1> HIDE DEF h
<1>4. h * BASE \in Nat /\ (h * BASE) * BASE \in Nat
  BY <1>1, PagingAssumption
<1>5. KernelTop = h
  BY <1>1, <1>2, <1>3, <1>4 DEF KernelTop
<1> QED  BY <1>1, <1>2, <1>4, <1>5, PagingAssumption DEF UserTop, Entries, h

(* A page of the user lies below an entry of the user.                     *)
LEMMA Position ==
  ASSUME NEW va \in User
  PROVE  vpn2(va) \in UserTop /\ vpn1(va) \in Entries /\ vpn0(va) \in Entries
<1> DEFINE h == BASE \div 2
<1>1. va \in Nat /\ va < KERNEL_STACK_ADDR /\ KERNEL_STACK_ADDR = (h * BASE) * BASE
  BY PagingAssumption, HalfTop DEF User
<1>2. \A k, x \in Nat : x < k * BASE => x \div BASE < k
  <2> SUFFICES ASSUME NEW k \in Nat, NEW x \in Nat, x < k * BASE
               PROVE  x \div BASE < k
    OBVIOUS
  <2> DEFINE q == x \div BASE
  <2>1. q \in Nat /\ x % BASE \in Nat /\ x = BASE * q + (x % BASE)
    BY Digits DEF Entries
  <2> HIDE DEF q
  <2>2. q * BASE <= x
    BY <2>1, PagingAssumption
  <2>3. q * BASE < k * BASE
    BY <2>1, <2>2, PagingAssumption
  <2>4. q < k
    BY <2>1, <2>3, PagingAssumption
  <2> QED  BY <2>4 DEF q
<1>3. h \in Nat
  BY PagingAssumption
<1>4. va \div BASE \in Nat /\ va \div BASE < h * BASE
  <2> HIDE DEF h
  <2>1. h * BASE \in Nat
    BY <1>3, PagingAssumption
  <2> QED  BY <1>1, <1>2, <2>1, Digits
<1>5. (va \div BASE) \div BASE \in Nat /\ (va \div BASE) \div BASE < h
  <2> HIDE DEF h
  <2> QED  BY <1>2, <1>3, <1>4, Digits
<1>6. vpn2(va) \in UserTop
  BY <1>5, HalfTop DEF vpn2, UserTop
<1> QED  BY <1>1, <1>4, <1>6, Digits DEF vpn1, vpn0

(* The three positions of a page determine it.                             *)
LEMMA PositionOnce ==
  ASSUME NEW a \in User, NEW b \in User,
         vpn2(a) = vpn2(b), vpn1(a) = vpn1(b), vpn0(a) = vpn0(b)
  PROVE  a = b
<1>1. a \in Nat /\ b \in Nat
  BY HalfTop DEF User
<1>2. a \div BASE \in Nat /\ b \div BASE \in Nat
  BY <1>1, Digits
<1>3. a \div BASE = b \div BASE
  <2> DEFINE x == a \div BASE  y == b \div BASE
  <2>1. x = BASE * (x \div BASE) + (x % BASE) /\ y = BASE * (y \div BASE) + (y % BASE)
    BY <1>2, Digits
  <2>2. x \div BASE = y \div BASE /\ x % BASE = y % BASE
    BY DEF vpn2, vpn1
  <2> QED  BY <2>1, <2>2
<1>4. a = BASE * (a \div BASE) + (a % BASE) /\ b = BASE * (b \div BASE) + (b % BASE)
  BY <1>1, Digits
<1> QED  BY <1>3, <1>4 DEF vpn0

-----------------------------------------------------------------------------
(* The three steps of alloc_page_helper.                                   *)

(* A page of the pool is a page of memory, and the boot table is not one.  *)
LEMMA Pool ==
  /\ FREEMEM \in Nat /\ PGDIR \in Nat /\ 0 \notin Frame
  /\ \A f \in (FREEMEM + 1)..(PGDIR - 1) : f \in Frame /\ f \in Nat \ {0} /\ f # PGDIR
  /\ Frame \subseteq Nat /\ PGDIR \in Frame /\ 0 \in Entries
  /\ Cleared \in [Entries -> Nat] /\ \A i \in Entries : Cleared[i] = 0
BY PagingAssumption DEF Frame, Entries, Cleared

(* A missing first table is made, empty; no walk ends elsewhere.           *)
LEMMA BelowDirectory ==
  ASSUME NEW s \in State, NEW D, NEW A, NEW B, NEW P, NEW K,
         Tree(s, D, A, B, P, K), s.memCurr + 1 < PGDIR,
         NEW d \in D, NEW i \in UserTop, NEW r, r = Below(s, d, i)
  PROVE  /\ Grew(s, r, 1)
         /\ Tree(r, D, A \cup {r.mem[d][i]}, B, P, K)
         /\ r.mem[d][i] # 0
         /\ SamePages(s, r, P \cup K \cup {PGDIR})
         /\ SameWalks(s, r, D)
<1> DEFINE a == s.memCurr + 1
<1>1. s.memCurr \in Nat /\ a \in (FREEMEM + 1)..(PGDIR - 1) /\ a \in Frame /\ a # PGDIR /\ a # 0
  BY Pool DEF State
<1>2. d \in Frame /\ i \in Entries /\ d # a /\ d # PGDIR
  BY Pool, HalfTop DEF Tree, State
<1>3. CASE s.mem[d][i] # 0
  <2>1. r = s
    BY <1>3 DEF Below
  <2>2. A \cup {r.mem[d][i]} = A
    BY <1>3, <2>1 DEF Tree
  <2>3. Tree(r, D, A \cup {r.mem[d][i]}, B, P, K)
    BY <2>1, <2>2
  <2>4. r \in State /\ s.memCurr <= r.memCurr /\ r.memCurr <= s.memCurr + 1
    BY <2>1, <1>1
  <2> QED  BY <2>1, <2>3, <2>4, <1>3 DEF Grew, SamePages, SameWalks
<1>4. CASE s.mem[d][i] = 0
  <2> DEFINE m == [[s.mem EXCEPT ![d][i] = a] EXCEPT ![a] = Cleared]
  <2>1. r.mem = m /\ r.memCurr = a /\ r = [s EXCEPT !.memCurr = a, !.kva = a, !.mem = m]
    BY <1>4 DEF Below, clear_pgdir, Write, allocPage, State
  <2>2. m \in Memory /\ r \in State
    <3>1. s.mem \in Memory /\ a \in FREEMEM..(PGDIR - 1)
      BY <1>1, Pool DEF State
    <3>2. m \in Memory
      BY <3>1, <1>1, <1>2, Pool DEF Memory
    <3> HIDE DEF m, a
    <3>3. a \in Nat
      BY <1>1, Pool
    <3> QED  BY <2>1, <3>1, <3>2, <3>3 DEF State
  <2>3. /\ m[d][i] = a
        /\ m[a] = Cleared
        /\ \A j \in Entries \ {i} : m[d][j] = s.mem[d][j]
        /\ \A f \in Frame \ {d, a} : m[f] = s.mem[f]
    BY <1>1, <1>2 DEF State, Memory
  <2>4. /\ \A f \in D \cup A \cup B \cup P \cup K : f # a /\ f \in Frame /\ f # PGDIR
        /\ d \notin A \cup B \cup P \cup K
    BY <1>1, Pool DEF Tree, State
  <2> HIDE DEF m, a
  <2>5. \A e \in D, j \in UserTop : m[e][j] = IF e = d /\ j = i THEN a ELSE s.mem[e][j]
    BY <2>3, <2>4, HalfTop
  <2>6. \A f \in A \cup B \cup P \cup K \cup {PGDIR} : m[f] = s.mem[f]
    BY <2>3, <2>4, <1>2, <1>1, Pool
  <2>7. Tree(r, D, A \cup {a}, B, P, K)
    <3>1. a \notin D \cup A \cup B \cup P \cup K
      BY <2>4
    <3>2. \A j \in Entries : m[a][j] = 0
      BY <2>3, Pool
    <3>3. \A x \in (FREEMEM + 1)..s.memCurr : x \in (FREEMEM + 1)..r.memCurr
      BY <1>1, <2>1 DEF a
    <3>4. a \in (FREEMEM + 1)..r.memCurr
      BY <1>1, <2>1 DEF a, State
    <3> QED  BY <2>1, <2>5, <2>6, <3>1, <3>2, <3>3, <3>4 DEF Tree
  <2>8. ASSUME NEW e \in D, NEW va \in User
        PROVE  find_pte(m, va, e) = find_pte(s.mem, va, e)
    <3>1. vpn2(va) \in UserTop /\ vpn1(va) \in Entries /\ vpn0(va) \in Entries
      BY Position
    <3>2. CASE e = d /\ vpn2(va) = i
      BY <3>1, <3>2, <2>3, <1>1, <1>4, Pool DEF find_pte
    <3>3. CASE ~ (e = d /\ vpn2(va) = i)
      <4>1. m[e][vpn2(va)] = s.mem[e][vpn2(va)]
        BY <3>1, <3>3, <2>5
      <4>2. CASE s.mem[e][vpn2(va)] = 0
        BY <4>1, <4>2 DEF find_pte
      <4>3. CASE s.mem[e][vpn2(va)] # 0
        <5>1. s.mem[e][vpn2(va)] \in A
          BY <4>3, <3>1 DEF Tree
        <5>2. m[s.mem[e][vpn2(va)]] = s.mem[s.mem[e][vpn2(va)]]
          BY <5>1, <2>6
        <5>3. CASE s.mem[s.mem[e][vpn2(va)]][vpn1(va)] # 0
          <6>1. s.mem[s.mem[e][vpn2(va)]][vpn1(va)] \in B
            BY <5>1, <5>3, <3>1 DEF Tree
          <6> QED  BY <6>1, <4>1, <5>2, <2>6 DEF find_pte
        <5>4. CASE s.mem[s.mem[e][vpn2(va)]][vpn1(va)] = 0
          BY <5>4, <4>1, <5>2 DEF find_pte
        <5> QED  BY <5>3, <5>4
      <4> QED  BY <4>2, <4>3
    <3> QED  BY <3>2, <3>3
  <2> QED  BY <2>1, <2>2, <2>3, <2>6, <2>7, <2>8, <1>1 DEF a, Grew, SamePages, SameWalks
<1> QED  BY <1>3, <1>4

(* A missing second table is made, empty; no walk ends elsewhere.          *)
LEMMA BelowFirst ==
  ASSUME NEW s \in State, NEW D, NEW A, NEW B, NEW P, NEW K,
         Tree(s, D, A, B, P, K), s.memCurr + 1 < PGDIR,
         NEW f \in A, NEW i \in Entries, NEW r, r = Below(s, f, i)
  PROVE  /\ Grew(s, r, 1)
         /\ Tree(r, D, A, B \cup {r.mem[f][i]}, P, K)
         /\ r.mem[f][i] # 0
         /\ SamePages(s, r, D \cup P \cup K \cup {PGDIR})
         /\ SameWalks(s, r, D)
<1> DEFINE a == s.memCurr + 1
<1>1. s.memCurr \in Nat /\ a \in (FREEMEM + 1)..(PGDIR - 1) /\ a \in Frame /\ a # PGDIR /\ a # 0
  BY Pool DEF State
<1>2. f \in Frame /\ f # a /\ f # PGDIR
  BY Pool DEF Tree, State
<1>3. CASE s.mem[f][i] # 0
  <2>1. r = s
    BY <1>3 DEF Below
  <2>2. B \cup {r.mem[f][i]} = B
    BY <1>3, <2>1 DEF Tree
  <2>3. Tree(r, D, A, B \cup {r.mem[f][i]}, P, K)
    BY <2>1, <2>2
  <2>4. r \in State /\ s.memCurr <= r.memCurr /\ r.memCurr <= s.memCurr + 1
    BY <2>1, <1>1
  <2> QED  BY <2>1, <2>3, <2>4, <1>3 DEF Grew, SamePages, SameWalks
<1>4. CASE s.mem[f][i] = 0
  <2> DEFINE m == [[s.mem EXCEPT ![f][i] = a] EXCEPT ![a] = Cleared]
  <2>1. r.mem = m /\ r.memCurr = a /\ r = [s EXCEPT !.memCurr = a, !.kva = a, !.mem = m]
    BY <1>4 DEF Below, clear_pgdir, Write, allocPage, State
  <2>2. m \in Memory /\ r \in State
    <3>1. s.mem \in Memory /\ a \in FREEMEM..(PGDIR - 1)
      BY <1>1, Pool DEF State
    <3>2. m \in Memory
      BY <3>1, <1>1, <1>2, Pool DEF Memory
    <3> HIDE DEF m, a
    <3>3. a \in Nat
      BY <1>1, Pool
    <3> QED  BY <2>1, <3>1, <3>2, <3>3 DEF State
  <2>3. /\ m[f][i] = a
        /\ m[a] = Cleared
        /\ \A j \in Entries \ {i} : m[f][j] = s.mem[f][j]
        /\ \A g \in Frame \ {f, a} : m[g] = s.mem[g]
    BY <1>1, <1>2 DEF State, Memory
  <2>4. /\ \A g \in D \cup A \cup B \cup P \cup K : g # a /\ g \in Frame /\ g # PGDIR
        /\ f \notin D \cup B \cup P \cup K
    BY <1>1, Pool DEF Tree, State
  <2> HIDE DEF m, a
  <2>5. \A e \in A, j \in Entries : m[e][j] = IF e = f /\ j = i THEN a ELSE s.mem[e][j]
    BY <2>3, <2>4
  <2>6. \A g \in D \cup B \cup P \cup K \cup {PGDIR} : m[g] = s.mem[g]
    BY <2>3, <2>4, <1>2, <1>1, Pool
  <2>7. Tree(r, D, A, B \cup {a}, P, K)
    <3>1. a \notin D \cup A \cup B \cup P \cup K
      BY <2>4
    <3>2. \A j \in Entries : m[a][j] = 0
      BY <2>3, Pool
    <3>3. \A x \in (FREEMEM + 1)..s.memCurr : x \in (FREEMEM + 1)..r.memCurr
      BY <1>1, <2>1 DEF a
    <3>4. a \in (FREEMEM + 1)..r.memCurr
      BY <1>1, <2>1 DEF a, State
    <3> QED  BY <2>1, <2>5, <2>6, <3>1, <3>2, <3>3, <3>4 DEF Tree
  <2>8. ASSUME NEW e \in D, NEW va \in User
        PROVE  find_pte(m, va, e) = find_pte(s.mem, va, e)
    <3> DEFINE e1 == s.mem[e][vpn2(va)]
               e0 == s.mem[e1][vpn1(va)]
    <3>1. vpn2(va) \in UserTop /\ vpn1(va) \in Entries /\ vpn0(va) \in Entries
      BY Position
    <3>2. m[e][vpn2(va)] = e1
      BY <2>6
    <3>3. CASE e1 = 0
      BY <3>2, <3>3 DEF find_pte
    <3>4. CASE e1 # 0 /\ e1 = f /\ vpn1(va) = i
      BY <3>1, <3>2, <3>4, <2>3, <1>1, <1>4, Pool DEF find_pte
    <3>5. CASE e1 # 0 /\ ~ (e1 = f /\ vpn1(va) = i)
      <4>1. e1 \in A
        BY <3>1, <3>5 DEF Tree
      <4>2. m[e1][vpn1(va)] = e0
        BY <4>1, <3>1, <3>5, <2>5
      <4>3. CASE e0 = 0
        BY <4>3, <4>2, <3>2 DEF find_pte
      <4>4. CASE e0 # 0
        <5>1. e0 \in B
          BY <4>1, <4>4, <3>1 DEF Tree
        <5> QED  BY <5>1, <4>2, <3>2, <2>6 DEF find_pte
      <4> QED  BY <4>3, <4>4
    <3> QED  BY <3>3, <3>4, <3>5
  <2> QED  BY <2>1, <2>2, <2>3, <2>6, <2>7, <2>8, <1>1 DEF a, Grew, SamePages, SameWalks
<1> QED  BY <1>3, <1>4

(* A fresh page is put in an empty entry of a second table.                *)
LEMMA PutSecond ==
  ASSUME NEW s \in State, NEW D, NEW A, NEW B, NEW P, NEW K,
         Tree(s, D, A, B, P, K), s.memCurr + 1 < PGDIR,
         NEW f \in B, NEW i \in Entries, s.mem[f][i] = 0,
         NEW r, r = Write(allocPage(s), f, i, s.memCurr + 1)
  PROVE  /\ r \in State /\ r.memCurr = s.memCurr + 1 /\ r.kva = r.memCurr
         /\ r.kva \in Frame \ {0}
         /\ Tree(r, D, A, B, P \cup {r.kva}, K)
         /\ SamePages(s, r, D \cup A \cup P \cup K \cup {r.kva, PGDIR})
         /\ OneEntry(s, r, B, f, i, r.kva)
<1> DEFINE a == s.memCurr + 1
           m == [s.mem EXCEPT ![f][i] = a]
<1>1. s.memCurr \in Nat /\ a \in (FREEMEM + 1)..(PGDIR - 1) /\ a \in Frame /\ a # PGDIR /\ a # 0
  BY Pool DEF State
<1>2. f \in Frame /\ f # a /\ f # PGDIR /\ f # 0
  BY Pool DEF Tree, State
<1>4. r.mem = m /\ r.memCurr = a /\ r.kva = a /\ r = [s EXCEPT !.memCurr = a, !.kva = a, !.mem = m]
  BY DEF Write, allocPage, State
<1>5. m \in Memory /\ r \in State
  <2>1. s.mem \in Memory /\ a \in FREEMEM..(PGDIR - 1) /\ a \in Nat
    BY <1>1, Pool DEF State
  <2>2. m \in Memory
    BY <2>1, <1>2 DEF Memory
  <2> HIDE DEF m, a
  <2> QED  BY <1>4, <2>1, <2>2 DEF State
<1>6. /\ m[f][i] = a
      /\ \A j \in Entries \ {i} : m[f][j] = s.mem[f][j]
      /\ \A g \in Frame \ {f} : m[g] = s.mem[g]
  BY <1>2 DEF State, Memory
<1>7. /\ \A g \in D \cup A \cup B \cup P \cup K : g # a /\ g \in Frame /\ g # PGDIR
      /\ f \notin D \cup A \cup P \cup K
  BY <1>1, Pool DEF Tree, State
<1> HIDE DEF m, a
<1>8. \A e \in B, j \in Entries : m[e][j] = IF e = f /\ j = i THEN a ELSE s.mem[e][j]
  BY <1>6, <1>7
<1>9. \A g \in D \cup A \cup P \cup K \cup {a, PGDIR} : m[g] = s.mem[g]
  <2> SUFFICES ASSUME NEW g \in D \cup A \cup P \cup K \cup {a, PGDIR} PROVE g \in Frame \ {f}
    BY <1>6
  <2>1. CASE g \in D \cup A \cup P \cup K
    BY <2>1, <1>7
  <2>2. CASE g = a \/ g = PGDIR
    BY <2>2, <1>1, <1>2, Pool
  <2> QED  BY <2>1, <2>2
<1>10. Tree(r, D, A, B, P \cup {a}, K)
  <2>1. a \notin D \cup A \cup B \cup P \cup K
    BY <1>7
  <2>2. \A x \in (FREEMEM + 1)..s.memCurr : x \in (FREEMEM + 1)..r.memCurr
    BY <1>1, <1>4 DEF a
  <2>3. a \in (FREEMEM + 1)..r.memCurr
    BY <1>1, <1>4
  <2>4. /\ \A g \in D \cup A : r.mem[g] = s.mem[g]
        /\ \A e \in B, j \in Entries : r.mem[e][j] = IF e = f /\ j = i THEN a ELSE s.mem[e][j]
    BY <1>4, <1>8, <1>9
  <2>5. /\ \A e \in B, j \in Entries : s.mem[e][j] # 0 => s.mem[e][j] \in P
        /\ \A e, g \in B, j, k \in Entries :
              s.mem[e][j] # 0 /\ s.mem[e][j] = s.mem[g][k] => e = g /\ j = k
    BY DEF Tree
  <2>6. \A e \in B, j \in Entries : r.mem[e][j] # 0 => r.mem[e][j] \in P \cup {a}
    BY <2>4, <2>5
  <2>7. \A e \in B, j \in Entries : s.mem[e][j] # a
    BY <2>1, <2>5, <1>1
  <2>8. ASSUME NEW e \in B, NEW g \in B, NEW j \in Entries, NEW k \in Entries,
               r.mem[e][j] # 0, r.mem[e][j] = r.mem[g][k]
        PROVE  e = g /\ j = k
    <3>1. CASE e = f /\ j = i
      BY <3>1, <2>4, <2>7, <2>8
    <3>2. CASE ~ (e = f /\ j = i) /\ (g = f /\ k = i)
      BY <3>2, <2>4, <2>7, <2>8
    <3>3. CASE ~ (e = f /\ j = i) /\ ~ (g = f /\ k = i)
      BY <3>3, <2>4, <2>5, <2>8
    <3> QED  BY <3>1, <3>2, <3>3
  <2>9. /\ D \cup A \cup B \cup (P \cup {a}) \cup K \subseteq (FREEMEM + 1)..r.memCurr
        /\ D \cap (A \cup B \cup (P \cup {a}) \cup K) = {}
        /\ A \cap (B \cup (P \cup {a}) \cup K) = {}
        /\ B \cap ((P \cup {a}) \cup K) = {}
        /\ (P \cup {a}) \cap K = {}
    BY <2>1, <2>2, <2>3 DEF Tree
  <2>10. /\ \A e \in D, j \in UserTop : r.mem[e][j] # 0 => r.mem[e][j] \in A
         /\ \A e \in A, j \in Entries : r.mem[e][j] # 0 => r.mem[e][j] \in B
         /\ \A e, g \in D, j, k \in UserTop :
              r.mem[e][j] # 0 /\ r.mem[e][j] = r.mem[g][k] => e = g /\ j = k
         /\ \A e, g \in A, j, k \in Entries :
              r.mem[e][j] # 0 /\ r.mem[e][j] = r.mem[g][k] => e = g /\ j = k
    BY <2>4 DEF Tree
  <2> QED  BY <2>6, <2>8, <2>9, <2>10 DEF Tree
<1> QED  BY <1>1, <1>4, <1>5, <1>8, <1>9, <1>10 DEF a, SamePages, OneEntry

(* A page in the entry of an address is the page of this address, and of   *)
(* no other.                                                               *)
LEMMA PutPage ==
  ASSUME NEW s \in State, NEW D, NEW A, NEW B, NEW P, NEW K,
         Tree(s, D, A, B, P, K),
         NEW d \in D, NEW va \in User, NEW f \in B, Leads(s, d, va, f),
         NEW r, NEW a, SamePages(s, r, D \cup A), OneEntry(s, r, B, f, vpn0(va), a)
  PROVE  find_pte(r.mem, va, d) = a /\ OtherWalks(s, r, D, d, va)
<1> DEFINE i == vpn0(va)
           m == r.mem
<1>2. f # 0
  BY Pool DEF Tree, State
<1>3. vpn2(va) \in UserTop /\ vpn1(va) \in Entries /\ i \in Entries
  BY Position
<1>8. /\ \A g \in D \cup A : m[g] = s.mem[g]
      /\ \A e \in B, j \in Entries : m[e][j] = IF e = f /\ j = i THEN a ELSE s.mem[e][j]
  BY DEF SamePages, OneEntry
<1>4. s.mem[d][vpn2(va)] # 0 /\ s.mem[s.mem[d][vpn2(va)]][vpn1(va)] = f
  BY DEF Leads
<1> HIDE DEF i, m
<1>11. find_pte(m, va, d) = a
  <2> DEFINE d1 == s.mem[d][vpn2(va)]
  <2>1. d1 \in A /\ m[d][vpn2(va)] = d1 /\ m[d1][vpn1(va)] = f
    BY <1>3, <1>4, <1>8 DEF Tree
  <2> HIDE DEF d1
  <2> QED  BY <2>1, <1>2, <1>3, <1>4, <1>8, Pool DEF find_pte, i, d1
<1>12. ASSUME NEW e \in D, NEW v \in User, <<e, v>> # <<d, va>>
       PROVE  find_pte(m, v, e) = find_pte(s.mem, v, e)
  <2> DEFINE e1 == s.mem[e][vpn2(v)]
             e0 == s.mem[e1][vpn1(v)]
  <2>1. vpn2(v) \in UserTop /\ vpn1(v) \in Entries /\ vpn0(v) \in Entries
    BY Position
  <2>2. m[e][vpn2(v)] = e1
    BY <1>8
  <2>3. CASE e1 = 0
    BY <2>2, <2>3 DEF find_pte
  <2>4. CASE e1 # 0
    <3>1. e1 \in A
      BY <2>1, <2>4 DEF Tree
    <3>2. m[e1][vpn1(v)] = e0
      BY <3>1, <1>8
    <3>3. CASE e0 = 0
      BY <3>3, <3>2, <2>2 DEF find_pte
    <3>4. CASE e0 # 0
      <4>1. e0 \in B
        BY <3>1, <3>4, <2>1 DEF Tree
      <4>2. ~ (e0 = f /\ vpn0(v) = i)
        <5> SUFFICES ASSUME e0 = f, vpn0(v) = i PROVE FALSE
          OBVIOUS
        <5>1. s.mem[d][vpn2(va)] \in A
          BY <1>3, <1>4 DEF Tree
        <5>2. e1 = s.mem[d][vpn2(va)] /\ vpn1(v) = vpn1(va)
          BY <5>1, <3>1, <3>4, <2>1, <1>3, <1>4 DEF Tree
        <5>3. e = d /\ vpn2(v) = vpn2(va)
          BY <5>2, <2>4, <2>1, <1>3 DEF Tree
        <5> QED  BY <5>2, <5>3, <1>12, PositionOnce DEF i
      <4>3. m[e0][vpn0(v)] = s.mem[e0][vpn0(v)]
        BY <4>1, <4>2, <2>1, <1>8
      <4> QED  BY <4>3, <3>2, <2>2 DEF find_pte
    <3> QED  BY <3>3, <3>4
  <2> QED  BY <2>3, <2>4
<1> QED  BY <1>11, <1>12 DEF OtherWalks, m

-----------------------------------------------------------------------------
(* alloc_page_helper takes at most three pages, maps the address to a page *)
(* of its own if it had none, and changes no other walk and no data.       *)
LEMMA HelperSound ==
  ASSUME NEW s \in State, NEW D, NEW P, NEW K, Sound(s, D, P, K),
         s.memCurr + 3 < PGDIR, NEW d \in D, NEW va \in User,
         NEW r, r = alloc_page_helper(s, va, d)
  PROVE  IF find_pte(s.mem, va, d) = 0 THEN PageMapped(s, r, D, P, K, d, va)
                                       ELSE PageThere(s, r, D, P, K, d, va)
<1> DEFINE s2 == Below(s, d, vpn2(va))
           d1 == s2.mem[d][vpn2(va)]
           s1 == Below(s2, d1, vpn1(va))
           d0 == s1.mem[d1][vpn1(va)]
           u  == Write(allocPage(s1), d0, vpn0(va), s1.memCurr + 1)
<1>1. PICK A \in SUBSET Frame, B \in SUBSET Frame : Tree(s, D, A, B, P, K)
  BY DEF Sound
<1>2. vpn2(va) \in UserTop /\ vpn1(va) \in Entries /\ vpn0(va) \in Entries
  BY Position
<1>3. s.memCurr \in Nat /\ PGDIR \in Nat
  BY Pool DEF State
<1>4. /\ Grew(s, s2, 1)
      /\ Tree(s2, D, A \cup {d1}, B, P, K)
      /\ d1 # 0
      /\ SamePages(s, s2, P \cup K \cup {PGDIR})
      /\ SameWalks(s, s2, D)
  <2> HIDE DEF s2
  <2>1. s.memCurr + 1 < PGDIR /\ s2 = Below(s, d, vpn2(va))
    BY <1>3 DEF s2
  <2> QED  BY <2>1, <1>1, <1>2, BelowDirectory
<1>5. s2.memCurr \in Nat /\ s2 \in State /\ s2.memCurr + 1 < PGDIR
  BY <1>3, <1>4, Pool DEF Grew, State
<1>6. /\ Grew(s2, s1, 1)
      /\ Tree(s1, D, A \cup {d1}, B \cup {d0}, P, K)
      /\ d0 # 0
      /\ SamePages(s2, s1, D \cup P \cup K \cup {PGDIR})
      /\ SameWalks(s2, s1, D)
  <2> HIDE DEF s1, s2, d1
  <2>1. s1 = Below(s2, d1, vpn1(va)) /\ d1 \in A \cup {d1}
    BY DEF s1
  <2> QED  BY <2>1, <1>2, <1>4, <1>5, BelowFirst
<1>7. r = IF s1.mem[d0][vpn0(va)] = 0 THEN u ELSE [s1 EXCEPT !.kva = 0]
  <2> HIDE DEF s2
  <2>1. allocPage(s1).kva = s1.memCurr + 1
    <3>1. s1 \in State
      BY <1>6 DEF Grew
    <3> HIDE DEF s1
    <3> QED  BY <3>1 DEF allocPage, State
  <2> QED  BY <2>1 DEF alloc_page_helper, s2
<1>8. s1.mem[d][vpn2(va)] = d1
  BY <1>6 DEF SamePages
<1> HIDE DEF s2, d1, s1, d0, u
<1>9. s1 \in State /\ s1.memCurr \in Nat /\ s.memCurr <= s1.memCurr /\ s1.memCurr <= s.memCurr + 2
  BY <1>3, <1>4, <1>5, <1>6 DEF State, Grew
<1>10. /\ SamePages(s, s1, P \cup K \cup {PGDIR})
       /\ SameWalks(s, s1, D)
  BY <1>4, <1>6 DEF SamePages, SameWalks
<1>11. find_pte(s.mem, va, d) = s1.mem[d0][vpn0(va)]
  <2>1. find_pte(s.mem, va, d) = find_pte(s1.mem, va, d)
    BY <1>10 DEF SameWalks
  <2> QED  BY <2>1, <1>4, <1>6, <1>8 DEF find_pte, d0
<1>12. \E X, Y \in SUBSET Frame : X = A \cup {d1} /\ Y = B \cup {d0}
  <2>1. d1 \in Frame /\ d0 \in Frame
    BY <1>6, <1>9, Pool DEF Tree, State
  <2> QED  BY <2>1
<1>13. CASE s1.mem[d0][vpn0(va)] # 0
  <2>1. r = [s1 EXCEPT !.kva = 0]
    BY <1>7, <1>13
  <2>2. r \in State /\ r.mem = s1.mem /\ r.memCurr = s1.memCurr /\ r.kva = 0
    BY <2>1, <1>9 DEF State
  <2>3. Tree(r, D, A \cup {d1}, B \cup {d0}, P, K)
    BY <1>6, <2>2 DEF Tree
  <2>4. Sound(r, D, P, K)
    BY <2>3, <1>12 DEF Sound
  <2>5. Grew(s, r, 3)
    BY <2>2, <1>3, <1>9 DEF Grew
  <2>6. SamePages(s, r, P \cup K \cup {PGDIR}) /\ OtherWalks(s, r, D, d, va)
    BY <2>2, <1>10 DEF SamePages, SameWalks, OtherWalks
  <2>7. find_pte(r.mem, va, d) = find_pte(s.mem, va, d)
    BY <2>2, <1>10 DEF SameWalks
  <2> QED  BY <2>2, <2>4, <2>5, <2>6, <2>7, <1>11, <1>13 DEF PageThere
<1>14. CASE s1.mem[d0][vpn0(va)] = 0
  <2>1. r = u /\ s1.memCurr + 1 < PGDIR
    BY <1>7, <1>14, <1>9, <1>3
  <2>2. /\ r \in State /\ r.memCurr = s1.memCurr + 1 /\ r.kva = r.memCurr
        /\ r.kva \in Frame \ {0}
        /\ Tree(r, D, A \cup {d1}, B \cup {d0}, P \cup {r.kva}, K)
        /\ SamePages(s1, r, D \cup (A \cup {d1}) \cup P \cup K \cup {r.kva, PGDIR})
        /\ OneEntry(s1, r, B \cup {d0}, d0, vpn0(va), r.kva)
    <3>1. r = Write(allocPage(s1), d0, vpn0(va), s1.memCurr + 1) /\ d0 \in B \cup {d0}
      BY <2>1 DEF u
    <3> QED  BY <3>1, <2>1, <1>2, <1>6, <1>9, <1>14, PutSecond
  <2>3. /\ find_pte(r.mem, va, d) = r.kva
        /\ OtherWalks(s1, r, D, d, va)
    <3>1. Leads(s1, d, va, d0) /\ d0 \in B \cup {d0}
      BY <1>8, <1>4 DEF d0, Leads
    <3>2. SamePages(s1, r, D \cup (A \cup {d1}))
      BY <2>2 DEF SamePages
    <3>3. /\ Tree(s1, D, A \cup {d1}, B \cup {d0}, P, K)
          /\ OneEntry(s1, r, B \cup {d0}, d0, vpn0(va), r.kva)
      BY <2>2, <1>6
    <3> QED  BY <3>1, <3>2, <3>3, <1>9, PutPage
  <2>4. Sound(r, D, P \cup {r.kva}, K)
    BY <2>2, <1>12 DEF Sound
  <2>5. Grew(s, r, 3) /\ r.kva \in (s.memCurr + 1)..r.memCurr
    BY <2>2, <1>3, <1>9 DEF Grew
  <2>6. SamePages(s, r, P \cup K \cup {PGDIR})
    BY <2>2, <1>10 DEF SamePages
  <2>7. OtherWalks(s, r, D, d, va)
    BY <2>3, <1>10 DEF SameWalks, OtherWalks
  <2> QED  BY <2>3, <2>4, <2>5, <2>6, <2>7, <1>11, <1>14 DEF PageMapped
<1> QED  BY <1>13, <1>14

-----------------------------------------------------------------------------
(* Words of a page, and the image of a program.                            *)

(* Where the tables stay, every walk ends where it did.                    *)
LEMMA TablesSame ==
  ASSUME NEW s, NEW r, NEW D, NEW A, NEW B, NEW P, NEW K,
         Tree(s, D, A, B, P, K), SamePages(s, r, D \cup A \cup B)
  PROVE  SameWalks(s, r, D)
<1> SUFFICES ASSUME NEW e \in D, NEW v \in User
             PROVE  find_pte(r.mem, v, e) = find_pte(s.mem, v, e)
  BY DEF SameWalks
<1> DEFINE e1 == s.mem[e][vpn2(v)]
           e0 == s.mem[e1][vpn1(v)]
<1>1. vpn2(v) \in UserTop /\ vpn1(v) \in Entries /\ vpn0(v) \in Entries
  BY Position
<1>2. r.mem[e][vpn2(v)] = e1
  BY DEF SamePages
<1>3. CASE e1 = 0
  BY <1>2, <1>3 DEF find_pte
<1>4. CASE e1 # 0
  <2>1. e1 \in A
    BY <1>1, <1>4 DEF Tree
  <2>2. r.mem[e1] = s.mem[e1]
    BY <2>1 DEF SamePages
  <2>3. CASE e0 = 0
    BY <1>2, <2>2, <2>3 DEF find_pte
  <2>4. CASE e0 # 0
    <3>1. e0 \in B
      BY <2>1, <2>4, <1>1 DEF Tree
    <3> QED  BY <3>1, <1>2, <2>2 DEF find_pte, SamePages
  <2> QED  BY <2>3, <2>4
<1> QED  BY <1>3, <1>4

(* A walk ends at a page of data, or nowhere.                              *)
LEMMA WalkEnds ==
  ASSUME NEW s, NEW D, NEW P, NEW K, Sound(s, D, P, K), NEW e \in D, NEW v \in User,
         find_pte(s.mem, v, e) # 0
  PROVE  find_pte(s.mem, v, e) \in P
<1>1. PICK A, B \in SUBSET Frame : Tree(s, D, A, B, P, K)
  BY DEF Sound
<1>2. vpn2(v) \in UserTop /\ vpn1(v) \in Entries /\ vpn0(v) \in Entries
  BY Position
<1> DEFINE e1 == s.mem[e][vpn2(v)]
           e0 == s.mem[e1][vpn1(v)]
<1>3. e1 # 0 /\ e0 # 0 /\ find_pte(s.mem, v, e) = s.mem[e0][vpn0(v)]
  BY DEF find_pte
<1>4. e1 \in A
  BY <1>1, <1>2, <1>3 DEF Tree
<1>5. e0 \in B
  BY <1>1, <1>2, <1>3, <1>4 DEF Tree
<1> HIDE DEF e0
<1> QED  BY <1>1, <1>2, <1>3, <1>5 DEF Tree

(* Two walks do not end at one page.                                       *)
LEMMA WalksApart ==
  ASSUME NEW s, NEW D, NEW P, NEW K, Sound(s, D, P, K),
         NEW e \in D, NEW v \in User, NEW d \in D, NEW u \in User,
         find_pte(s.mem, v, e) # 0, find_pte(s.mem, v, e) = find_pte(s.mem, u, d)
  PROVE  e = d /\ v = u
<1>1. PICK A, B \in SUBSET Frame : Tree(s, D, A, B, P, K)
  BY DEF Sound
<1>2. /\ vpn2(v) \in UserTop /\ vpn1(v) \in Entries /\ vpn0(v) \in Entries
      /\ vpn2(u) \in UserTop /\ vpn1(u) \in Entries /\ vpn0(u) \in Entries
  BY Position
<1> DEFINE e1 == s.mem[e][vpn2(v)]
           e0 == s.mem[e1][vpn1(v)]
           d1 == s.mem[d][vpn2(u)]
           d0 == s.mem[d1][vpn1(u)]
<1>3. /\ e1 # 0 /\ e0 # 0 /\ find_pte(s.mem, v, e) = s.mem[e0][vpn0(v)]
      /\ d1 # 0 /\ d0 # 0 /\ find_pte(s.mem, u, d) = s.mem[d0][vpn0(u)]
  BY DEF find_pte
<1>4. e1 \in A /\ d1 \in A
  BY <1>1, <1>2, <1>3 DEF Tree
<1>5. e0 \in B /\ d0 \in B
  BY <1>1, <1>2, <1>3, <1>4 DEF Tree
<1>6. e0 = d0 /\ vpn0(v) = vpn0(u)
  <2> HIDE DEF e0, d0
  <2>1. \A f, g \in B, i, j \in Entries :
           s.mem[f][i] # 0 /\ s.mem[f][i] = s.mem[g][j] => f = g /\ i = j
    BY <1>1 DEF Tree
  <2>2. s.mem[e0][vpn0(v)] # 0 /\ s.mem[e0][vpn0(v)] = s.mem[d0][vpn0(u)]
    BY <1>3
  <2> QED  BY <1>2, <1>5, <2>1, <2>2
<1>7. e1 = d1 /\ vpn1(v) = vpn1(u)
  <2> HIDE DEF e1, d1
  <2> QED  BY <1>1, <1>2, <1>3, <1>4, <1>6 DEF Tree
<1>8. e = d /\ vpn2(v) = vpn2(u)
  <2>1. \A f, g \in D, i, j \in UserTop :
           s.mem[f][i] # 0 /\ s.mem[f][i] = s.mem[g][j] => f = g /\ i = j
    BY <1>1 DEF Tree
  <2>2. s.mem[e][vpn2(v)] # 0 /\ s.mem[e][vpn2(v)] = s.mem[d][vpn2(u)]
    BY <1>3, <1>7
  <2> QED  BY <1>2, <2>1, <2>2
<1> QED  BY <1>6, <1>7, <1>8, PositionOnce

(* A word of a page of data, or of a kernel stack, is no part of a table.  *)
LEMMA WordWritten ==
  ASSUME NEW s \in State, NEW D, NEW P, NEW K, Sound(s, D, P, K),
         NEW f \in P \cup K, NEW i \in Entries, NEW w \in Nat, NEW r, r = Write(s, f, i, w)
  PROVE  WordPut(s, r, D, P, K, f, i, w)
<1>1. PICK A, B \in SUBSET Frame : Tree(s, D, A, B, P, K)
  BY DEF Sound
<1>2. s.memCurr \in Nat /\ f \in Frame
  BY <1>1, Pool DEF Tree, State
<1> DEFINE m == [s.mem EXCEPT ![f][i] = w]
<1>3. r = [s EXCEPT !.mem = m] /\ r.mem = m /\ r.memCurr = s.memCurr /\ r.kva = s.kva
  BY DEF Write, State
<1>4. m \in Memory
  BY <1>2 DEF State, Memory
<1>5. /\ m[f][i] = w
      /\ \A j \in Entries \ {i} : m[f][j] = s.mem[f][j]
      /\ \A g \in Frame \ {f} : m[g] = s.mem[g]
  BY <1>2 DEF State, Memory
<1> HIDE DEF m
<1>6. r \in State
  BY <1>3, <1>4 DEF State
<1>7. SamePages(s, r, D \cup A \cup B)
  <2> SUFFICES ASSUME NEW g \in D \cup A \cup B PROVE g \in Frame \ {f}
    BY <1>3, <1>5 DEF SamePages
  <2> QED  BY <1>1, <1>2, Pool DEF Tree, State
<1>8. Tree(r, D, A, B, P, K)
  BY <1>1, <1>3, <1>7 DEF Tree, SamePages
<1>9. SameWalks(s, r, D)
  BY <1>1, <1>7, TablesSame
<1>10. Grew(s, r, 0)
  BY <1>2, <1>3, <1>6 DEF Grew
<1> QED  BY <1>3, <1>5, <1>8, <1>9, <1>10 DEF Sound, SamePages, WordPut

(* After n pages of an image: each is mapped and holds its word, and no     *)
(* other page has changed, nor another walk.                               *)
Loaded(s, r, image, d, D, P, K, n) ==
    /\ Grew(s, r, 3 * n)
    /\ SamePages(s, r, P \cup K \cup {PGDIR})
    /\ \A e \in D, v \in User : e # d \/ v \notin ENTRY..(ENTRY + n - 1) =>
          find_pte(r.mem, v, e) = find_pte(s.mem, v, e)
    /\ \E Q : P \subseteq Q /\ Sound(r, D, Q, K)
    /\ \A k \in 1..n : /\ find_pte(r.mem, ENTRY + k - 1, d) # 0
                       /\ r.mem[find_pte(r.mem, ENTRY + k - 1, d)][0] = image[k]

LoadPage(s, image, d, k) ==
    LET a == alloc_page_helper(s, ENTRY + k - 1, d) IN Write(a, a.kva, 0, image[k])

(* load_elf is the last of a sequence of states, one per page.             *)
LEMMA LoadSequence ==
  ASSUME NEW s, NEW image \in Seq(Nat), NEW d
  PROVE  \E f : /\ f[0] = s /\ load_elf(s, image, d) = f[Len(image)]
                /\ \A k \in 1..Len(image) : f[k] = LoadPage(f[k - 1], image, d, k)
<1> DEFINE n == Len(image)
           Body(f, m) == [k \in 0..m |-> IF k = 0 THEN s ELSE LoadPage(f[k - 1], image, d, k)]
           T == {m \in Nat : \E f : f = Body(f, m)}
           loaded == CHOOSE f : f = Body(f, n)
<1>1. n \in Nat
  OBVIOUS
<1>2. 0 \in T
  <2> DEFINE f0 == [k \in 0..0 |-> s]
  <2>1. f0 = Body(f0, 0)
    OBVIOUS
  <2> HIDE DEF f0
  <2> QED  BY <2>1
<1>3. ASSUME NEW m \in 0..(n - 1), m \in T PROVE m + 1 \in T
  <2>1. PICK f : f = Body(f, m)
    BY <1>3
  <2> DEFINE g == [k \in 0..(m + 1) |-> IF k = m + 1 THEN LoadPage(f[m], image, d, m + 1) ELSE f[k]]
  <2>2. m \in Nat
    OBVIOUS
  <2>3. \A k \in 0..m : g[k] = f[k] /\ f[k] = IF k = 0 THEN s ELSE LoadPage(f[k - 1], image, d, k)
    BY <2>1, <2>2
  <2>4. g[m + 1] = LoadPage(g[m], image, d, m + 1)
    BY <2>2, <2>3
  <2>5. \A k \in 0..(m + 1) : g[k] = IF k = 0 THEN s ELSE LoadPage(g[k - 1], image, d, k)
    <3> SUFFICES ASSUME NEW k \in 0..(m + 1)
                 PROVE  g[k] = IF k = 0 THEN s ELSE LoadPage(g[k - 1], image, d, k)
      OBVIOUS
    <3>1. CASE k = m + 1
      <4>1. k # 0 /\ k - 1 = m
        BY <3>1, <2>2
      <4> HIDE DEF g
      <4> QED  BY <3>1, <4>1, <2>4
    <3>2. CASE k \in 0..m
      <4>1. k = 0 \/ k - 1 \in 0..m
        BY <3>2, <2>2
      <4> HIDE DEF g
      <4> QED  BY <3>2, <4>1, <2>3
    <3> QED  BY <3>1, <3>2, <2>2
  <2>6. g = Body(g, m + 1)
    <3>1. g = [k \in 0..(m + 1) |-> g[k]]
      OBVIOUS
    <3> HIDE DEF g
    <3> QED  BY <3>1, <2>5
  <2> HIDE DEF g
  <2>7. \E h : h = Body(h, m + 1)
    <3> HIDE DEF Body
    <3> QED  BY ONLY <2>6
  <2>8. m + 1 \in Nat
    BY ONLY <2>2
  <2> HIDE DEF Body
  <2> QED  BY ONLY <2>7, <2>8
<1>4. n \in T
  <2> HIDE DEF T, n
  <2>1. 0..n \subseteq T
    BY <1>1, <1>2, <1>3, NumbersUpTo
  <2> QED  BY <1>1, <2>1
<1>5. loaded = Body(loaded, n)
  BY <1>4
<1>6. load_elf(s, image, d) = loaded[n]
  BY DEF load_elf, LoadPage
<1> HIDE DEF loaded
<1>7. \A k \in 0..n : loaded[k] = IF k = 0 THEN s ELSE LoadPage(loaded[k - 1], image, d, k)
  BY <1>5
<1> HIDE DEF n
<1>8. loaded[0] = s /\ \A k \in 1..n : loaded[k] = LoadPage(loaded[k - 1], image, d, k)
  BY <1>1, <1>7
<1> QED  BY <1>6, <1>8 DEF n

(* One more page of an image.                                              *)
LEMMA LoadStep ==
  ASSUME NEW s \in State, NEW image \in Seq(Nat), NEW D, NEW d \in D, NEW P, NEW K,
         \A k \in 1..Len(image) : ENTRY + k - 1 \in User /\ find_pte(s.mem, ENTRY + k - 1, d) = 0,
         P \cup K \subseteq Frame,
         s.memCurr + 3 * Len(image) < PGDIR,
         NEW n \in 0..(Len(image) - 1), NEW t, Loaded(s, t, image, d, D, P, K, n),
         NEW r, r = LoadPage(t, image, d, n + 1)
  PROVE  Loaded(s, r, image, d, D, P, K, n + 1)
<1> DEFINE va == ENTRY + n
           a == alloc_page_helper(t, va, d)
<1>1. n \in Nat /\ n + 1 \in 1..Len(image) /\ Len(image) \in Nat /\ ENTRY \in Nat /\ image[n + 1] \in Nat
  BY PagingAssumption, HalfTop DEF User
<1>2. va \in User /\ find_pte(s.mem, va, d) = 0 /\ ENTRY + (n + 1) - 1 = va
  BY <1>1
<1>3. PICK Q : P \subseteq Q /\ Sound(t, D, Q, K)
  BY DEF Loaded
<1>4. t \in State /\ t.memCurr \in Nat /\ s.memCurr \in Nat /\ t.memCurr + 3 < PGDIR
  <2>1. t \in State /\ t.memCurr \in Nat /\ s.memCurr \in Nat /\ PGDIR \in Nat
        /\ s.memCurr <= t.memCurr /\ t.memCurr <= s.memCurr + 3 * n
    BY SMTT(30), Pool DEF Loaded, Grew, State
  <2>2. \A l \in Nat : n \in 0..(l - 1) => 3 * n + 3 <= 3 * l
    BY ONLY <1>1
  <2>3. 3 * n + 3 <= 3 * Len(image)
    BY ONLY <2>2, <1>1, n \in 0..(Len(image) - 1)
  <2> DEFINE N == 3 * n
             L == 3 * Len(image)
  <2>4. N \in Nat /\ L \in Nat /\ N + 3 <= L /\ s.memCurr + L < PGDIR /\ t.memCurr <= s.memCurr + N
    BY <1>1, <2>1, <2>3
  <2> HIDE DEF N, L
  <2>5. t.memCurr + 3 < PGDIR
    BY ONLY SMTT(30), <2>1, <2>4
  <2> QED  BY ONLY <2>1, <2>5
<1>18. s.memCurr <= t.memCurr /\ t.memCurr <= s.memCurr + 3 * n
  BY DEF Loaded, Grew
<1>5. find_pte(t.mem, va, d) = 0
  BY <1>1, <1>2 DEF Loaded
<1>6. PageMapped(t, a, D, Q, K, d, va)
  <2> HIDE DEF va, a
  <2>1. a = alloc_page_helper(t, va, d)
    BY DEF a
  <2>2. t \in State /\ t.memCurr + 3 < PGDIR /\ va \in User /\ Sound(t, D, Q, K)
    BY <1>2, <1>3, <1>4
  <2> QED  BY <1>5, <2>1, <2>2, HelperSound
<1>7. r = Write(a, a.kva, 0, image[n + 1])
  BY <1>2 DEF LoadPage
<1> HIDE DEF a, va
<1>15. /\ Grew(t, a, 3)
       /\ SamePages(t, a, Q \cup K \cup {PGDIR})
       /\ OtherWalks(t, a, D, d, va)
       /\ a.kva \in (t.memCurr + 1)..a.memCurr /\ find_pte(a.mem, va, d) = a.kva
       /\ Sound(a, D, Q \cup {a.kva}, K)
       /\ a \in State
  BY <1>6 DEF PageMapped, Grew
<1>17. /\ a.memCurr \in Nat /\ a.memCurr < PGDIR /\ a.kva \in Nat
       /\ t.memCurr <= a.memCurr /\ a.memCurr <= t.memCurr + 3
       /\ a.kva > t.memCurr /\ a.kva <= a.memCurr /\ a.kva < PGDIR
  <2>1. a.memCurr \in Nat /\ a.memCurr < PGDIR /\ a.kva \in Nat
    BY SMTT(30), <1>15, Pool DEF State
  <2>2. a.kva \in (t.memCurr + 1)..a.memCurr
    BY <1>15
  <2>3. t.memCurr <= a.memCurr /\ a.memCurr <= t.memCurr + 3
    BY <1>15 DEF Grew
  <2> QED  BY SMTT(30), <2>1, <2>2, <2>3, <1>4, Pool
<1>16. WordPut(a, r, D, Q \cup {a.kva}, K, a.kva, 0, image[n + 1])
  <2>1. a.kva \in (Q \cup {a.kva}) \cup K /\ 0 \in Entries /\ image[n + 1] \in Nat
    BY <1>1, Pool
  <2> QED  BY <2>1, <1>15, <1>7, WordWritten
<1>8. /\ Grew(a, r, 0) /\ Sound(r, D, Q \cup {a.kva}, K) /\ SameWalks(a, r, D)
      /\ SamePages(a, r, Frame \ {a.kva}) /\ r.mem[a.kva][0] = image[n + 1]
      /\ r \in State /\ r.memCurr = a.memCurr
  <2>1. r \in State /\ a.memCurr <= r.memCurr /\ r.memCurr <= a.memCurr + 0
    BY <1>16 DEF WordPut, Grew
  <2>2. r.memCurr \in Nat
    BY <2>1, Pool DEF State
  <2>3. r.memCurr = a.memCurr
    BY <1>17, <2>1, <2>2
  <2> QED  BY <1>16, <2>1, <2>3 DEF WordPut
<1>9. /\ a.kva \notin Q \cup K /\ a.kva # PGDIR /\ a.kva # 0
  <2>1. \A f \in Q \cup K : f <= t.memCurr /\ f \in Nat
    <3>1. PICK A, B \in SUBSET Frame : Tree(t, D, A, B, Q, K)
      BY <1>3 DEF Sound
    <3> QED  BY <3>1, <1>4, Pool DEF Tree
  <2>3. a.kva \notin Q \cup K
    <3> SUFFICES ASSUME a.kva \in Q \cup K PROVE FALSE
      OBVIOUS
    <3>1. a.kva <= t.memCurr /\ a.kva \in Nat
      BY <2>1
    <3> QED  BY <3>1, <1>17, <1>4
  <2> QED  BY SMTT(30), <2>3, <1>4, <1>17, Pool
<1>10. Grew(s, r, 3 * (n + 1))
  <2> DEFINE c == 3 * n
  <2>1. 3 * (n + 1) = c + 3
    BY <1>1
  <2>4. c \in Nat
    BY <1>1
  <2>2. s.memCurr <= t.memCurr /\ t.memCurr <= s.memCurr + c /\ r.memCurr = a.memCurr
    BY <1>18, <1>8
  <2> HIDE DEF c
  <2>3. s.memCurr <= r.memCurr /\ r.memCurr <= s.memCurr + (c + 3)
    BY ONLY SMTT(30), <2>4, <2>2, <1>4, <1>17
  <2> QED  BY <1>8, <2>1, <2>3 DEF Grew
<1>11. SamePages(s, r, P \cup K \cup {PGDIR})
  <2> SUFFICES ASSUME NEW f \in P \cup K \cup {PGDIR} PROVE r.mem[f] = s.mem[f]
    BY DEF SamePages
  <2>1. t.mem[f] = s.mem[f]
    BY DEF Loaded, SamePages
  <2>2. a.mem[f] = t.mem[f]
    BY <1>3, <1>15 DEF SamePages
  <2>3. f \in Frame \ {a.kva}
    BY <1>3, <1>9, Pool
  <2> QED  BY <2>1, <2>2, <2>3, <1>8 DEF SamePages
<1>12. ASSUME NEW e \in D, NEW v \in User, e # d \/ v \notin ENTRY..(ENTRY + (n + 1) - 1)
       PROVE  find_pte(r.mem, v, e) = find_pte(s.mem, v, e)
  <2>1. e # d \/ v \notin ENTRY..(ENTRY + n - 1)
    BY <1>1, <1>12
  <2>2. <<e, v>> # <<d, va>>
    BY <1>1, <1>12 DEF va
  <2>3. find_pte(t.mem, v, e) = find_pte(s.mem, v, e)
    BY <2>1 DEF Loaded
  <2>4. find_pte(a.mem, v, e) = find_pte(t.mem, v, e)
    BY <2>2, <1>15 DEF OtherWalks
  <2> QED  BY <2>3, <2>4, <1>8 DEF SameWalks
<1>13. ASSUME NEW k \in 1..(n + 1)
       PROVE  /\ find_pte(r.mem, ENTRY + k - 1, d) # 0
              /\ r.mem[find_pte(r.mem, ENTRY + k - 1, d)][0] = image[k]
  <2>1. CASE k = n + 1
    <3>1. find_pte(r.mem, va, d) = a.kva
      BY <1>2, <1>15, <1>8 DEF SameWalks
    <3> QED  BY <3>1, <2>1, <1>2, <1>8, <1>9
  <2>2. CASE k \in 1..n
    <3>8. k \in 1..Len(image)
      BY <1>1, <2>2
    <3> DEFINE u == ENTRY + k - 1
               f == find_pte(t.mem, u, d)
    <3>1. f # 0 /\ t.mem[f][0] = image[k]
      BY <2>2 DEF Loaded
    <3>2. u \in User /\ u # va
      BY <1>1, <2>2, <3>8 DEF va
    <3>3. f \in Q
      <4> HIDE DEF u
      <4> QED  BY <3>1, <3>2, <1>3, WalkEnds
    <3>4. find_pte(r.mem, u, d) = f
      BY <3>2, <1>15, <1>8 DEF SameWalks, OtherWalks
    <3>5. a.mem[f] = t.mem[f]
      BY <3>3, <1>15 DEF SamePages
    <3>6. f \in Frame \ {a.kva}
      <4>1. PICK A, B \in SUBSET Frame : Tree(t, D, A, B, Q, K)
        BY <1>3 DEF Sound
      <4>2. f \in (FREEMEM + 1)..t.memCurr
        BY <4>1, <3>3 DEF Tree
      <4>3. f \in Frame
        BY <4>2, <1>4, Pool DEF State
      <4> QED  BY <4>3, <3>3, <1>9
    <3>7. r.mem[f] = a.mem[f]
      BY <3>6, <1>8 DEF SamePages
    <3> HIDE DEF f
    <3> QED  BY <3>1, <3>4, <3>5, <3>7
  <2> QED  BY <2>1, <2>2, <1>1
<1>14. P \subseteq Q \cup {a.kva}
  BY <1>3
<1> QED  BY <1>8, <1>10, <1>11, <1>12, <1>13, <1>14 DEF Loaded

(* load_elf maps every page of the image, fills it, and changes no other.  *)
LEMMA LoadSound ==
  ASSUME NEW s \in State, NEW image \in Seq(Nat), NEW D, NEW d \in D, NEW P, NEW K,
         Sound(s, D, P, K),
         \A k \in 1..Len(image) : ENTRY + k - 1 \in User /\ find_pte(s.mem, ENTRY + k - 1, d) = 0,
         s.memCurr + 3 * Len(image) < PGDIR
  PROVE  Loaded(s, load_elf(s, image, d), image, d, D, P, K, Len(image))
<1> DEFINE b == Len(image)
<1>1. PICK f : /\ f[0] = s /\ load_elf(s, image, d) = f[b]
               /\ \A k \in 1..b : f[k] = LoadPage(f[k - 1], image, d, k)
  BY LoadSequence
<1>2. b \in Nat
  OBVIOUS
<1> DEFINE T == {n \in 0..b : Loaded(s, f[n], image, d, D, P, K, n)}
<1>3. 0 \in T
  <2>1. s.memCurr \in Nat
    BY Pool DEF State
  <2>2. Loaded(s, s, image, d, D, P, K, 0)
    BY <2>1 DEF Loaded, Grew, SamePages
  <2> QED  BY <1>1, <1>2, <2>2
<1>4. ASSUME NEW n \in 0..(b - 1), n \in T PROVE n + 1 \in T
  <2>1. n + 1 \in 1..b /\ n + 1 - 1 = n /\ n + 1 \in 0..b
    BY <1>2
  <2>2. f[n + 1] = LoadPage(f[n], image, d, n + 1)
    BY <2>1, <1>1
  <2>3. P \cup K \subseteq Frame
    <3>1. PICK A, B \in SUBSET Frame : Tree(s, D, A, B, P, K)
      BY DEF Sound
    <3> QED  BY SMTT(30), <3>1, Pool DEF Tree, State
  <2>4. Loaded(s, f[n], image, d, D, P, K, n)
    BY <1>4
  <2>5. Loaded(s, f[n + 1], image, d, D, P, K, n + 1)
    BY <2>2, <2>3, <2>4, LoadStep
  <2> QED  BY <2>1, <2>5
<1>5. 0..b \subseteq T
  <2> HIDE DEF T, b
  <2> QED  BY <1>2, <1>3, <1>4, NumbersUpTo
<1> QED  BY <1>1, <1>2, <1>5

-----------------------------------------------------------------------------
(* What the handlers build from these steps.                               *)

(* Forgetting directories and stacks, and kva, which is no part of memory. *)
LEMMA Forget ==
  ASSUME NEW s, NEW D, NEW P, NEW K, Sound(s, D, P, K),
         NEW C, C \subseteq D, NEW J, J \subseteq K,
         NEW r, r.mem = s.mem, r.memCurr = s.memCurr
  PROVE  Sound(r, C, P, J)
<1>1. PICK A \in SUBSET Frame, B \in SUBSET Frame : Tree(s, D, A, B, P, K)
  BY DEF Sound
<1>2. Tree(r, C, A, B, P, J)
  BY <1>1 DEF Tree
<1> QED  BY <1>2 DEF Sound

(* What is in use has been handed out.                                     *)
LEMMA InUse ==
  ASSUME NEW s \in State, NEW D, NEW P, NEW K, Sound(s, D, P, K)
  PROVE  /\ D \cup P \cup K \subseteq (FREEMEM + 1)..s.memCurr
         /\ D \cup P \cup K \subseteq Frame \ {PGDIR}
         /\ D \cap (P \cup K) = {} /\ P \cap K = {}
<1>1. PICK A, B \in SUBSET Frame : Tree(s, D, A, B, P, K)
  BY DEF Sound
<1>2. s.memCurr \in Nat /\ s.memCurr < PGDIR
  BY Pool DEF State
<1>3. D \cup P \cup K \subseteq (FREEMEM + 1)..s.memCurr
  BY <1>1 DEF Tree
<1>4. D \cap (P \cup K) = {} /\ P \cap K = {}
  BY <1>1 DEF Tree
<1>5. ASSUME NEW f \in D \cup P \cup K PROVE f \in Frame \ {PGDIR}
  <2>1. f \in (FREEMEM + 1)..(PGDIR - 1)
    BY <1>2, <1>3, Pool
  <2> QED  BY <2>1, Pool
<1> QED  BY <1>3, <1>4, <1>5

(* A page for the kernel stack of a thread.                                *)
StackTaken(s, r, D, P, K) ==
    /\ r \in State /\ r.mem = s.mem /\ r.memCurr = s.memCurr + 1 /\ r.kva = s.memCurr + 1
    /\ Sound(r, D, P, K \cup {r.kva})

LEMMA TakeStack ==
  ASSUME NEW s \in State, NEW D, NEW P, NEW K, Sound(s, D, P, K),
         s.memCurr + 1 < PGDIR, NEW r, r = allocPage(s)
  PROVE  StackTaken(s, r, D, P, K)
<1> DEFINE a == s.memCurr + 1
<1>1. PICK A \in SUBSET Frame, B \in SUBSET Frame : Tree(s, D, A, B, P, K)
  BY DEF Sound
<1>2. s.memCurr \in Nat /\ a \in (FREEMEM + 1)..(PGDIR - 1) /\ a \in Nat /\ a \in FREEMEM..(PGDIR - 1)
  BY Pool DEF State
<1>3. r = [s EXCEPT !.memCurr = a, !.kva = a] /\ r.mem = s.mem /\ r.memCurr = a /\ r.kva = a
  BY DEF allocPage, State
<1>4. r \in State
  <2> HIDE DEF a
  <2> QED  BY <1>2, <1>3 DEF State
<1>5. /\ \A f \in D \cup A \cup B \cup P \cup K : f # a
      /\ \A f \in (FREEMEM + 1)..s.memCurr : f \in (FREEMEM + 1)..a
      /\ a \in (FREEMEM + 1)..a
  BY <1>1, <1>2, Pool DEF Tree
<1>6. Tree(r, D, A, B, P, K \cup {a})
  <2> HIDE DEF a
  <2> QED  BY <1>1, <1>3, <1>5 DEF Tree
<1> QED  BY <1>3, <1>4, <1>6 DEF StackTaken, Sound

(* A new directory: the user's half is empty.                              *)
DirectoryMade(s, r, D, P, K, d) ==
    /\ r \in State /\ r.memCurr = s.memCurr + 1 /\ d = s.memCurr + 1
    /\ Sound(r, D \cup {d}, P, K)
    /\ SamePages(s, r, Frame \ {d})
    /\ SameWalks(s, r, D)
    /\ \A va \in User : find_pte(r.mem, va, d) = 0

LEMMA MakeDirectory ==
  ASSUME NEW s \in State, NEW D, NEW P, NEW K, Sound(s, D, P, K),
         \A i \in UserTop : s.mem[PGDIR][i] = 0,
         s.memCurr + 1 < PGDIR, NEW d, d = allocPage(s).kva,
         NEW r, r = share_pgtable(clear_pgdir(allocPage(s), d), d, PGDIR)
  PROVE  DirectoryMade(s, r, D, P, K, d)
<1>1. PICK A \in SUBSET Frame, B \in SUBSET Frame : Tree(s, D, A, B, P, K)
  BY DEF Sound
<1>2. d = s.memCurr + 1
  BY DEF allocPage, State
<1>3. /\ s.memCurr \in Nat /\ d \in (FREEMEM + 1)..(PGDIR - 1) /\ d \in Nat
      /\ d \in FREEMEM..(PGDIR - 1) /\ d \in Frame /\ d # PGDIR
  BY <1>2, Pool DEF State
<1> DEFINE m == [[s.mem EXCEPT ![d] = Cleared] EXCEPT ![d] = s.mem[PGDIR]]
<1>4. r = [s EXCEPT !.memCurr = d, !.kva = d, !.mem = m] /\ r.mem = m /\ r.memCurr = d
  <2> DEFINE c == clear_pgdir(allocPage(s), d)
             m0 == [s.mem EXCEPT ![d] = Cleared]
  <2>1. c = [s EXCEPT !.memCurr = d, !.kva = d, !.mem = m0] /\ c.mem = m0
    BY <1>2 DEF clear_pgdir, allocPage, State
  <2>2. m0[PGDIR] = s.mem[PGDIR]
    BY <1>3, Pool DEF State, Memory
  <2> HIDE DEF c, m0
  <2>3. share_pgtable(c, d, PGDIR) =
          [s EXCEPT !.memCurr = d, !.kva = d, !.mem = [m0 EXCEPT ![d] = m0[PGDIR]]]
    BY <2>1 DEF share_pgtable, State
  <2>4. r = [s EXCEPT !.memCurr = d, !.kva = d, !.mem = m]
    BY <2>2, <2>3 DEF c, m0
  <2> HIDE DEF m
  <2> QED  BY <2>4 DEF State
<1>5. m[d] = s.mem[PGDIR] /\ \A f \in Frame \ {d} : m[f] = s.mem[f]
  BY <1>3, Pool DEF State, Memory
<1>6. m \in Memory
  BY <1>3, Pool DEF State, Memory
<1> HIDE DEF m
<1>7. r \in State
  BY <1>3, <1>4, <1>6 DEF State
<1>8. /\ \A f \in D \cup A \cup B \cup P \cup K : f # d /\ f \in Frame
      /\ \A f \in (FREEMEM + 1)..s.memCurr : f \in (FREEMEM + 1)..d
      /\ d \in (FREEMEM + 1)..d
  BY <1>1, <1>2, <1>3, Pool DEF Tree, State
<1>9. SamePages(s, r, Frame \ {d}) /\ SamePages(s, r, D \cup A \cup B)
  BY <1>4, <1>5, <1>8 DEF SamePages
<1>10. \A i \in UserTop : m[d][i] = 0
  BY <1>5
<1>11. Tree(r, D \cup {d}, A, B, P, K)
  <2>1. /\ \A f \in D \cup A \cup B : r.mem[f] = s.mem[f]
        /\ \A i \in UserTop : r.mem[d][i] = 0
        /\ r.memCurr = d
    BY <1>4, <1>9, <1>10 DEF SamePages
  <2>2. \A e, f \in D \cup {d}, i, j \in UserTop :
          r.mem[e][i] # 0 /\ r.mem[e][i] = r.mem[f][j] => e = f /\ i = j
    <3>1. \A e, f \in D, i, j \in UserTop :
            s.mem[e][i] # 0 /\ s.mem[e][i] = s.mem[f][j] => e = f /\ i = j
      BY <1>1 DEF Tree
    <3> QED  BY <2>1, <3>1
  <2>3. \A e \in D \cup {d}, i \in UserTop : r.mem[e][i] # 0 => r.mem[e][i] \in A
    BY <1>1, <2>1 DEF Tree
  <2>4. /\ \A f \in A, i \in Entries : r.mem[f][i] # 0 => r.mem[f][i] \in B
        /\ \A f \in B, i \in Entries : r.mem[f][i] # 0 => r.mem[f][i] \in P
        /\ \A e, f \in A, i, j \in Entries :
              r.mem[e][i] # 0 /\ r.mem[e][i] = r.mem[f][j] => e = f /\ i = j
        /\ \A e, f \in B, i, j \in Entries :
              r.mem[e][i] # 0 /\ r.mem[e][i] = r.mem[f][j] => e = f /\ i = j
    BY <1>1, <2>1 DEF Tree
  <2>5. /\ (D \cup {d}) \cup A \cup B \cup P \cup K \subseteq (FREEMEM + 1)..r.memCurr
        /\ (D \cup {d}) \cap (A \cup B \cup P \cup K) = {}
        /\ A \cap (B \cup P \cup K) = {} /\ B \cap (P \cup K) = {} /\ P \cap K = {}
    BY <1>1, <1>8, <2>1 DEF Tree
  <2> QED  BY <2>2, <2>3, <2>4, <2>5 DEF Tree
<1>12. SameWalks(s, r, D)
  BY <1>1, <1>9, TablesSame
<1>13. \A va \in User : find_pte(r.mem, va, d) = 0
  BY <1>4, <1>10, Position DEF find_pte
<1>14. Sound(r, D \cup {d}, P, K)
  BY <1>11 DEF Sound
<1> QED  BY <1>2, <1>4, <1>7, <1>9, <1>12, <1>13, <1>14 DEF DirectoryMade

(* Where programs and stacks lie.                                          *)
LEMMA Layout ==
  /\ USER_STACK_ADDR \in Nat /\ USER_STACK_ADDR - 1 \in User /\ KERNEL_STACK_ADDR - 1 \in User
  /\ USER_STACK_ADDR - 1 # KERNEL_STACK_ADDR - 1
  /\ \A n \in 0..(PGDIR - FREEMEM - 1) :
        /\ USER_STACK_ADDR - 1 - n \in User /\ USER_STACK_ADDR - n \in User
        /\ USER_STACK_ADDR - 1 - n # KERNEL_STACK_ADDR - 1
        /\ \A va \in Touched : va \in User /\ va # USER_STACK_ADDR - 1 - n
  /\ \A image \in Images : \A k \in 1..Len(image) :
        /\ ENTRY + k - 1 \in User /\ ENTRY + k - 1 # KERNEL_STACK_ADDR - 1
        /\ \A n \in 0..(PGDIR - FREEMEM - 1) : ENTRY + k - 1 # USER_STACK_ADDR - 1 - n
<1> DEFINE g == PGDIR - FREEMEM
<1>1. /\ KERNEL_STACK_ADDR \in Nat /\ USER_STACK_ADDR \in Nat /\ ENTRY \in Nat
      /\ USER_STACK_ADDR < KERNEL_STACK_ADDR
      /\ g \in Nat /\ g > 0
  BY PagingAssumption, HalfTop DEF User
<1>2. /\ \A va \in Touched : va \in Nat /\ va + g < USER_STACK_ADDR /\ va \in User
      /\ \A image \in Images : Len(image) \in Nat /\ ENTRY + Len(image) - 1 + g < USER_STACK_ADDR
  <2>1. \A va \in Program : va + g < USER_STACK_ADDR
    BY PagingAssumption
  <2>2. \A va \in Touched : va \in Program /\ va \in User /\ va \in Nat
    BY PagingAssumption, HalfTop DEF Program, User
  <2>3. \A image \in Images : ENTRY + Len(image) - 1 \in Program /\ Len(image) \in Nat
    BY PagingAssumption DEF Program
  <2> HIDE DEF g
  <2> QED  BY ONLY <2>1, <2>2, <2>3
<1>8. ENTRY \in Program
  BY DEF Program
<1>9. ENTRY + g < USER_STACK_ADDR
  BY <1>8, PagingAssumption
<1> HIDE DEF g
<1>3. /\ USER_STACK_ADDR - 1 \in User /\ KERNEL_STACK_ADDR - 1 \in User
      /\ USER_STACK_ADDR - 1 # KERNEL_STACK_ADDR - 1
  BY ONLY <1>1, <1>9 DEF User
<1>4. ASSUME NEW n \in 0..(g - 1)
      PROVE  /\ USER_STACK_ADDR - 1 - n \in User /\ USER_STACK_ADDR - n \in User
             /\ USER_STACK_ADDR - 1 - n # KERNEL_STACK_ADDR - 1
             /\ \A va \in Touched : va \in User /\ va # USER_STACK_ADDR - 1 - n
  <2>1. n \in Nat /\ n < g
    BY ONLY <1>1, n \in 0..(g - 1)
  <2>2. USER_STACK_ADDR - 1 - n \in 0..(KERNEL_STACK_ADDR - 1)
    BY ONLY <2>1, <1>1, <1>9
  <2>3. USER_STACK_ADDR - n \in 0..(KERNEL_STACK_ADDR - 1)
    BY ONLY <2>1, <1>1, <1>9
  <2>4. USER_STACK_ADDR - 1 - n # KERNEL_STACK_ADDR - 1
    BY ONLY <2>1, <1>1
  <2>5. ASSUME NEW va \in Touched PROVE va \in User /\ va # USER_STACK_ADDR - 1 - n
    <3>1. va \in Nat /\ va + g < USER_STACK_ADDR /\ va \in User
      BY <1>2
    <3>2. va # USER_STACK_ADDR - 1 - n
      BY ONLY <3>1, <2>1, <1>1
    <3> QED  BY <3>1, <3>2
  <2> QED  BY <2>2, <2>3, <2>4, <2>5 DEF User
<1>5. ASSUME NEW image \in Images, NEW k \in 1..Len(image)
      PROVE  /\ ENTRY + k - 1 \in User /\ ENTRY + k - 1 # KERNEL_STACK_ADDR - 1
             /\ \A n \in 0..(g - 1) : ENTRY + k - 1 # USER_STACK_ADDR - 1 - n
  <2> DEFINE b == Len(image)
  <2>1. b \in Nat /\ ENTRY + b - 1 + g < USER_STACK_ADDR
    BY <1>2
  <2>2. k \in 1..b
    OBVIOUS
  <2> HIDE DEF b
  <2>3. k \in Nat /\ k >= 1 /\ ENTRY + k - 1 + g < USER_STACK_ADDR
    BY ONLY <2>1, <2>2, <1>1
  <2>4. ENTRY + k - 1 \in 0..(KERNEL_STACK_ADDR - 1)
    BY ONLY <2>3, <1>1
  <2>5. ENTRY + k - 1 # KERNEL_STACK_ADDR - 1
    BY ONLY <2>3, <1>1
  <2>6. ASSUME NEW n \in 0..(g - 1) PROVE ENTRY + k - 1 # USER_STACK_ADDR - 1 - n
    <3>1. n \in Nat /\ n < g
      BY ONLY <1>1, n \in 0..(g - 1)
    <3> QED  BY ONLY <3>1, <2>3, <1>1
  <2> QED  BY <2>4, <2>5, <2>6 DEF User
<1> QED  BY <1>1, <1>3, <1>4, <1>5 DEF g

(* A new address space, with the context on its kernel stack.              *)
Built(s, r, dir, ker, i, image, D, P, K) ==
    /\ Grew(s, r, PGDIR) /\ dir = s.memCurr + 1
    /\ \E Q : P \subseteq Q /\ ker \in Q /\ Sound(r, D \cup {dir}, Q, K)
    /\ ker > s.memCurr
    /\ SamePages(s, r, P \cup K \cup {PGDIR})
    /\ SameWalks(s, r, D)
    /\ r.mem[ker][BASE - 1] = Context(i)
    /\ find_pte(r.mem, USER_STACK_ADDR - 1, dir) # 0
    /\ \A n \in 1..(PGDIR - FREEMEM - 1) : find_pte(r.mem, USER_STACK_ADDR - 1 - n, dir) = 0
    /\ \A k \in 1..Len(image) :
          /\ find_pte(r.mem, ENTRY + k - 1, dir) # 0
          /\ r.mem[find_pte(r.mem, ENTRY + k - 1, dir)][0] = image[k]

(* Both stacks, and the argument on the user's.                            *)
StacksMade(s, v, dir, ker, D, P, K) ==
    /\ v \in State /\ s.memCurr <= v.memCurr /\ v.memCurr <= s.memCurr + 7 /\ dir = s.memCurr + 1
    /\ \E Q : P \subseteq Q /\ ker \in Q /\ Sound(v, D \cup {dir}, Q, K)
    /\ ker > s.memCurr
    /\ SamePages(s, v, P \cup K \cup {PGDIR})
    /\ SameWalks(s, v, D)
    /\ find_pte(v.mem, USER_STACK_ADDR - 1, dir) # 0
    /\ \A va \in User \ {USER_STACK_ADDR - 1, KERNEL_STACK_ADDR - 1} : find_pte(v.mem, va, dir) = 0

LEMMA MakeStacks ==
  ASSUME NEW s \in State, NEW D, NEW P, NEW K, Sound(s, D, P, K), s.memCurr + 7 < PGDIR,
         NEW dir, NEW c, DirectoryMade(s, c, D, P, K, dir),
         NEW k, k = alloc_page_helper(c, KERNEL_STACK_ADDR - 1, dir),
         NEW u, u = alloc_page_helper(k, USER_STACK_ADDR - 1, dir),
         NEW arg \in Nat, NEW v, v = IF arg = 0 THEN u ELSE Write(u, u.kva, 0, arg)
  PROVE  StacksMade(s, v, dir, k.kva, D, P, K)
<1> DEFINE E == D \cup {dir}
<1>1. s.memCurr \in Nat /\ PGDIR \in Nat
  BY Pool DEF State
<1>2. /\ c \in State /\ c.memCurr = s.memCurr + 1 /\ dir = s.memCurr + 1
      /\ Sound(c, E, P, K) /\ SamePages(s, c, Frame \ {dir}) /\ SameWalks(s, c, D)
      /\ \A va \in User : find_pte(c.mem, va, dir) = 0
  BY DEF DirectoryMade
<1>3. dir \in E
  OBVIOUS
<1>4. PageMapped(c, k, E, P, K, dir, KERNEL_STACK_ADDR - 1)
  <2>1. c.memCurr + 3 < PGDIR /\ KERNEL_STACK_ADDR - 1 \in User
    BY <1>1, <1>2, Layout
  <2>2. find_pte(c.mem, KERNEL_STACK_ADDR - 1, dir) = 0
    BY <1>2, <2>1
  <2> HIDE DEF E
  <2> QED  BY <1>2, <1>3, <2>1, <2>2, HelperSound
<1>5. /\ k \in State /\ c.memCurr <= k.memCurr /\ k.memCurr <= c.memCurr + 3
      /\ SamePages(c, k, P \cup K \cup {PGDIR})
      /\ OtherWalks(c, k, E, dir, KERNEL_STACK_ADDR - 1)
      /\ k.kva \in (c.memCurr + 1)..k.memCurr
      /\ Sound(k, E, P \cup {k.kva}, K)
  BY <1>4 DEF PageMapped, Grew
<1>6. k.memCurr \in Nat /\ k.kva \in Nat
  BY <1>5, Pool DEF State
<1>7. PageMapped(k, u, E, P \cup {k.kva}, K, dir, USER_STACK_ADDR - 1)
  <2>1. k.memCurr + 3 < PGDIR /\ USER_STACK_ADDR - 1 \in User
    BY SMTT(30), <1>1, <1>2, <1>5, <1>6, Layout
  <2>2. <<dir, USER_STACK_ADDR - 1>> # <<dir, KERNEL_STACK_ADDR - 1>>
    BY Layout
  <2>3. find_pte(k.mem, USER_STACK_ADDR - 1, dir) = find_pte(c.mem, USER_STACK_ADDR - 1, dir)
    BY <2>1, <2>2, <1>3, <1>5 DEF OtherWalks
  <2>4. find_pte(k.mem, USER_STACK_ADDR - 1, dir) = 0
    BY <1>2, <2>1, <2>3
  <2> HIDE DEF E
  <2> QED  BY <1>3, <1>5, <2>1, <2>4, HelperSound
<1> DEFINE Q == P \cup {k.kva} \cup {u.kva}
<1>8. /\ u \in State /\ k.memCurr <= u.memCurr /\ u.memCurr <= k.memCurr + 3
      /\ SamePages(k, u, P \cup {k.kva} \cup K \cup {PGDIR})
      /\ OtherWalks(k, u, E, dir, USER_STACK_ADDR - 1)
      /\ u.kva \in (k.memCurr + 1)..u.memCurr /\ find_pte(u.mem, USER_STACK_ADDR - 1, dir) = u.kva
      /\ Sound(u, E, Q, K)
  BY <1>7 DEF PageMapped, Grew
<1>9. u.memCurr \in Nat /\ u.kva \in Nat /\ u.kva # 0 /\ u.kva > k.memCurr /\ u.kva < PGDIR
  <2>1. u.memCurr \in Nat /\ u.memCurr < PGDIR /\ u.kva \in Nat
    BY <1>8, Pool DEF State
  <2> QED  BY <2>1, <1>6, <1>8, <1>1
<1>10. /\ v \in State /\ v.memCurr = u.memCurr /\ Sound(v, E, Q, K)
       /\ SameWalks(u, v, E) /\ SamePages(u, v, Frame \ {u.kva})
  <2>1. CASE arg = 0
    BY <2>1, <1>8 DEF SameWalks, SamePages
  <2>2. CASE arg # 0
    <3>1. WordPut(u, v, E, Q, K, u.kva, 0, arg)
      <4>1. v = Write(u, u.kva, 0, arg) /\ u.kva \in Q \cup K /\ 0 \in Entries
        BY <2>2, Pool
      <4> HIDE DEF E, Q
      <4> QED  BY <4>1, <1>8, WordWritten
    <3>2. v \in State /\ u.memCurr <= v.memCurr /\ v.memCurr <= u.memCurr + 0
      BY <3>1 DEF WordPut, Grew
    <3>3. v.memCurr \in Nat
      BY <3>2, Pool DEF State
    <3> QED  BY <3>1, <3>2, <3>3, <1>9 DEF WordPut
  <2> QED  BY <2>1, <2>2
<1>11. /\ P \cup K \subseteq (FREEMEM + 1)..s.memCurr /\ P \cup K \subseteq Frame \ {PGDIR}
  BY InUse
<1>12. SamePages(s, v, P \cup K \cup {PGDIR})
  <2> SUFFICES ASSUME NEW f \in P \cup K \cup {PGDIR} PROVE v.mem[f] = s.mem[f]
    BY DEF SamePages
  <2>1. f \in Frame /\ (f \in (FREEMEM + 1)..s.memCurr \/ f = PGDIR)
    BY <1>11, Pool
  <2>2. f # dir
    BY <2>1, <1>1, <1>2, Pool
  <2>3. f # u.kva
    BY <2>1, <1>1, <1>2, <1>5, <1>6, <1>9, Pool
  <2> QED  BY SMTT(30), <2>1, <2>2, <2>3, <1>2, <1>5, <1>8, <1>10 DEF SamePages
<1>13. SameWalks(s, v, D)
  <2> SUFFICES ASSUME NEW e \in D, NEW va \in User
               PROVE  find_pte(v.mem, va, e) = find_pte(s.mem, va, e)
    BY DEF SameWalks
  <2>1. e # dir /\ e \in E
    <3>1. D \subseteq (FREEMEM + 1)..s.memCurr
      BY InUse
    <3> QED  BY <3>1, <1>1, <1>2, Pool
  <2>2. <<e, va>> # <<dir, KERNEL_STACK_ADDR - 1>> /\ <<e, va>> # <<dir, USER_STACK_ADDR - 1>>
    BY <2>1
  <2> QED  BY SMTT(30), <2>1, <2>2, <1>2, <1>5, <1>8, <1>10 DEF SameWalks, OtherWalks
<1>14. find_pte(v.mem, USER_STACK_ADDR - 1, dir) # 0
  BY <1>3, <1>8, <1>9, <1>10, Layout DEF SameWalks
<1>15. \A va \in User \ {USER_STACK_ADDR - 1, KERNEL_STACK_ADDR - 1} : find_pte(v.mem, va, dir) = 0
  <2> SUFFICES ASSUME NEW va \in User \ {USER_STACK_ADDR - 1, KERNEL_STACK_ADDR - 1}
               PROVE  find_pte(v.mem, va, dir) = 0
    OBVIOUS
  <2>1. <<dir, va>> # <<dir, KERNEL_STACK_ADDR - 1>> /\ <<dir, va>> # <<dir, USER_STACK_ADDR - 1>>
    OBVIOUS
  <2> QED  BY SMTT(30), <2>1, <1>2, <1>3, <1>5, <1>8, <1>10 DEF SameWalks, OtherWalks
<1>16. /\ s.memCurr <= v.memCurr /\ v.memCurr <= s.memCurr + 7 /\ k.kva > s.memCurr
  BY SMTT(30), <1>1, <1>2, <1>5, <1>6, <1>8, <1>9, <1>10
<1>17. P \subseteq Q /\ k.kva \in Q
  OBVIOUS
<1> QED  BY <1>2, <1>10, <1>12, <1>13, <1>14, <1>15, <1>16, <1>17 DEF StacksMade

(* The memory half of init_shell and do_exec.                              *)
LEMMA SpaceBuilt ==
  ASSUME Now \in State, NEW D, NEW P, NEW K, Sound(Now, D, P, K),
         \A i \in UserTop : mem[PGDIR][i] = 0,
         NEW image \in Images, NEW arg \in Nat, NEW i \in Nat, Room(7 + 3 * Len(image)),
         NEW sp, sp = Space(image, arg), NEW r, r = init_pcb_stack(sp.end, sp.kernel, i)
  PROVE  Built(Now, r, sp.dir, sp.kernel, i, image, D, P, K)
<1> DEFINE s == Now
           d == allocPage(s).kva
           c == share_pgtable(clear_pgdir(allocPage(s), d), d, PGDIR)
           k == alloc_page_helper(c, KERNEL_STACK_ADDR - 1, d)
           u == alloc_page_helper(k, USER_STACK_ADDR - 1, d)
           v == IF arg = 0 THEN u ELSE Write(u, u.kva, 0, arg)
           e == load_elf(v, image, d)
           E == D \cup {d}
           b == 3 * Len(image)
<1>1. sp.end = e /\ sp.dir = d /\ sp.kernel = k.kva
  <2>1. sp = [end |-> e, dir |-> d, kernel |-> k.kva]
    BY DEF Space
  <2> HIDE DEF e, d, k
  <2> QED  BY <2>1
<1>2. image \in Seq(Nat) /\ b \in Nat /\ s.memCurr \in Nat /\ PGDIR \in Nat /\ s.memCurr + (7 + b) < PGDIR
  <2>1. image \in Seq(Nat)
    BY PagingAssumption
  <2>2. s.memCurr = memCurr
    BY DEF Now
  <2>3. s.memCurr \in Nat /\ PGDIR \in Nat
    BY Pool DEF State
  <2> QED  BY <2>1, <2>2, <2>3 DEF Room
<1> HIDE DEF b
<1>3. DirectoryMade(s, c, D, P, K, d)
  <2>1. s.memCurr + 1 < PGDIR
    BY ONLY <1>2
  <2>2. \A j \in UserTop : s.mem[PGDIR][j] = 0
    BY DEF Now
  <2>3. s \in State /\ d = allocPage(s).kva /\ c = share_pgtable(clear_pgdir(allocPage(s), d), d, PGDIR)
    OBVIOUS
  <2> HIDE DEF s, d, c
  <2> QED  BY <2>1, <2>2, <2>3, Sound(s, D, P, K), MakeDirectory DEF s
<1>4. StacksMade(s, v, d, k.kva, D, P, K)
  <2>1. s.memCurr + 7 < PGDIR
    BY ONLY <1>2
  <2>2. /\ s \in State /\ Sound(s, D, P, K)
        /\ k = alloc_page_helper(c, KERNEL_STACK_ADDR - 1, d)
        /\ u = alloc_page_helper(k, USER_STACK_ADDR - 1, d)
        /\ v = IF arg = 0 THEN u ELSE Write(u, u.kva, 0, arg)
    OBVIOUS
  <2> HIDE DEF s, d, c, k, u, v
  <2> QED  BY <1>3, <2>1, <2>2, MakeStacks
<1> HIDE DEF s
<1>20. e = load_elf(v, image, d)
  OBVIOUS
<1>21. r = Write(e, k.kva, BASE - 1, Context(i))
  BY <1>1 DEF init_pcb_stack
<1> DEFINE ker == k.kva
<1> HIDE DEF d, c, k, u, v, e, ker
<1>5. /\ v \in State /\ s.memCurr <= v.memCurr /\ v.memCurr <= s.memCurr + 7 /\ d = s.memCurr + 1
      /\ ker > s.memCurr
      /\ SamePages(s, v, P \cup K \cup {PGDIR}) /\ SameWalks(s, v, D)
      /\ find_pte(v.mem, USER_STACK_ADDR - 1, d) # 0
      /\ \A va \in User \ {USER_STACK_ADDR - 1, KERNEL_STACK_ADDR - 1} : find_pte(v.mem, va, d) = 0
  BY <1>4 DEF StacksMade, ker
<1>6. PICK Q : P \subseteq Q /\ ker \in Q /\ Sound(v, E, Q, K)
  BY <1>4 DEF StacksMade, ker
<1>7. v.memCurr \in Nat
  BY <1>5, Pool DEF State
<1>8. \A n \in 1..Len(image) : /\ ENTRY + n - 1 \in User /\ find_pte(v.mem, ENTRY + n - 1, d) = 0
                               /\ ENTRY + n - 1 # USER_STACK_ADDR - 1
  <2> SUFFICES ASSUME NEW n \in 1..Len(image)
               PROVE  /\ ENTRY + n - 1 \in User /\ find_pte(v.mem, ENTRY + n - 1, d) = 0
                      /\ ENTRY + n - 1 # USER_STACK_ADDR - 1
    OBVIOUS
  <2>1. 0 \in 0..(PGDIR - FREEMEM - 1) /\ USER_STACK_ADDR - 1 - 0 = USER_STACK_ADDR - 1
    BY Layout, PagingAssumption
  <2>2. /\ ENTRY + n - 1 \in User /\ ENTRY + n - 1 # KERNEL_STACK_ADDR - 1
        /\ ENTRY + n - 1 # USER_STACK_ADDR - 1
    BY <2>1, Layout
  <2> QED  BY <1>5, <2>2
<1>9. Loaded(v, e, image, d, E, Q, K, Len(image))
  <2>1. v.memCurr + b < PGDIR
    BY ONLY <1>2, <1>5, <1>7
  <2>2. v.memCurr + 3 * Len(image) < PGDIR
    BY <2>1 DEF b
  <2>3. d \in E
    OBVIOUS
  <2> HIDE DEF E
  <2> QED  BY <1>2, <1>5, <1>6, <1>8, <1>20, <2>2, <2>3, LoadSound
<1>10. /\ e \in State /\ v.memCurr <= e.memCurr
       /\ SamePages(v, e, Q \cup K \cup {PGDIR})
       /\ \A f \in E, va \in User : f # d \/ va \notin ENTRY..(ENTRY + Len(image) - 1) =>
             find_pte(e.mem, va, f) = find_pte(v.mem, va, f)
       /\ \A n \in 1..Len(image) : /\ find_pte(e.mem, ENTRY + n - 1, d) # 0
                                   /\ e.mem[find_pte(e.mem, ENTRY + n - 1, d)][0] = image[n]
  BY <1>9 DEF Loaded, Grew
<1>11. PICK Q2 : Q \subseteq Q2 /\ Sound(e, E, Q2, K)
  BY <1>9 DEF Loaded
<1>12. e.memCurr \in Nat /\ e.memCurr < PGDIR
  BY <1>10, Pool DEF State
<1>13. WordPut(e, r, E, Q2, K, ker, BASE - 1, Context(i))
  <2>1. ker \in Q2 \cup K /\ BASE - 1 \in Entries /\ Context(i) \in Nat
    BY <1>6, <1>11, PagingAssumption DEF Entries, Context
  <2>2. r = Write(e, ker, BASE - 1, Context(i))
    BY <1>21 DEF ker
  <2> HIDE DEF E
  <2> QED  BY <1>10, <1>11, <2>1, <2>2, WordWritten
<1>14. /\ r \in State /\ e.memCurr <= r.memCurr /\ r.memCurr <= e.memCurr + 0
       /\ Sound(r, E, Q2, K) /\ SameWalks(e, r, E)
       /\ SamePages(e, r, Frame \ {ker})
       /\ r.mem[ker][BASE - 1] = Context(i)
       /\ \A j \in Entries \ {BASE - 1} : r.mem[ker][j] = e.mem[ker][j]
  BY <1>13 DEF WordPut, Grew
<1>15. r.memCurr \in Nat /\ r.memCurr < PGDIR
  BY <1>14, Pool DEF State
<1>16. Grew(s, r, PGDIR)
  <2>1. s.memCurr <= r.memCurr /\ r.memCurr <= s.memCurr + PGDIR
    BY ONLY SMTT(30), <1>2, <1>5, <1>7, <1>10, <1>12, <1>14, <1>15
  <2> QED  BY <2>1, <1>14 DEF Grew
<1>17. SamePages(s, r, P \cup K \cup {PGDIR})
  <2>1. P \cup K \subseteq (FREEMEM + 1)..s.memCurr /\ P \cup K \subseteq Frame \ {PGDIR}
    BY InUse DEF s
  <2>2. ker \in Frame \ {PGDIR} /\ ker \in Nat
    BY <1>6, <1>5, InUse, Pool
  <2> SUFFICES ASSUME NEW f \in P \cup K \cup {PGDIR} PROVE r.mem[f] = s.mem[f]
    BY DEF SamePages
  <2>3. f \in Frame \ {ker}
    BY <2>1, <2>2, <1>2, <1>5, Pool
  <2> QED  BY <2>3, <1>5, <1>6, <1>10, <1>14 DEF SamePages
<1>18. SameWalks(s, r, D)
  <2> SUFFICES ASSUME NEW f \in D, NEW va \in User
               PROVE  find_pte(r.mem, va, f) = find_pte(s.mem, va, f)
    BY DEF SameWalks
  <2>1. f # d /\ f \in E
    <3>1. D \subseteq (FREEMEM + 1)..s.memCurr
      BY InUse DEF s
    <3> QED  BY <3>1, <1>2, <1>5, Pool
  <2> QED  BY <2>1, <1>5, <1>10, <1>14 DEF SameWalks
<1>19. /\ find_pte(r.mem, USER_STACK_ADDR - 1, d) # 0
       /\ \A n \in 1..(PGDIR - FREEMEM - 1) : find_pte(r.mem, USER_STACK_ADDR - 1 - n, d) = 0
  <2> DEFINE g == PGDIR - FREEMEM - 1
  <2>1. /\ \A n \in 0..g :
             /\ USER_STACK_ADDR - 1 - n \in User
             /\ USER_STACK_ADDR - 1 - n # KERNEL_STACK_ADDR - 1
             /\ \A m \in 1..Len(image) : ENTRY + m - 1 # USER_STACK_ADDR - 1 - n
        /\ USER_STACK_ADDR - 1 \in User /\ USER_STACK_ADDR \in Nat /\ g \in Nat
    <3>1. g \in Nat
      BY PagingAssumption
    <3> QED  BY ONLY <3>1, Layout, image \in Images
  <2>2. \A va \in User : va \in ENTRY..(ENTRY + Len(image) - 1) =>
            \E m \in 1..Len(image) : va = ENTRY + m - 1
    <3> SUFFICES ASSUME NEW va \in User, va \in ENTRY..(ENTRY + Len(image) - 1)
                 PROVE  \E m \in 1..Len(image) : va = ENTRY + m - 1
      OBVIOUS
    <3> DEFINE z == Len(image)  m == va - ENTRY + 1
    <3>1. ENTRY \in Nat /\ z \in Nat /\ va \in ENTRY..(ENTRY + z - 1)
      BY <1>2, PagingAssumption, HalfTop DEF User
    <3> HIDE DEF z
    <3>2. m \in 1..z /\ va = ENTRY + m - 1
      BY ONLY <3>1
    <3> QED  BY <3>2 DEF z
  <2> HIDE DEF g
  <2>3. \A n \in 0..g : find_pte(r.mem, USER_STACK_ADDR - 1 - n, d) = find_pte(v.mem, USER_STACK_ADDR - 1 - n, d)
    <3> SUFFICES ASSUME NEW n \in 0..g
                 PROVE  find_pte(r.mem, USER_STACK_ADDR - 1 - n, d) = find_pte(v.mem, USER_STACK_ADDR - 1 - n, d)
      OBVIOUS
    <3> DEFINE va == USER_STACK_ADDR - 1 - n
    <3>1. va \in User /\ \A m \in 1..Len(image) : ENTRY + m - 1 # va
      BY <2>1
    <3>2. va \notin ENTRY..(ENTRY + Len(image) - 1) /\ d \in E
      BY <2>2, <3>1
    <3> HIDE DEF va
    <3>3. find_pte(e.mem, va, d) = find_pte(v.mem, va, d) /\ find_pte(r.mem, va, d) = find_pte(e.mem, va, d)
      BY <3>1, <3>2, <1>10, <1>14 DEF SameWalks
    <3> QED  BY <3>3 DEF va
  <2>4. 0 \in 0..g /\ USER_STACK_ADDR - 1 - 0 = USER_STACK_ADDR - 1
    BY ONLY <2>1
  <2>5. \A n \in 1..g : n \in 0..g /\ USER_STACK_ADDR - 1 - n # USER_STACK_ADDR - 1
    BY ONLY <2>1
  <2>6. \A n \in 1..g : find_pte(v.mem, USER_STACK_ADDR - 1 - n, d) = 0
    BY <2>1, <2>5, <1>5
  <2> QED  BY <2>3, <2>4, <2>5, <2>6, <1>5 DEF g
<1>22. ASSUME NEW n \in 1..Len(image)
       PROVE  /\ find_pte(r.mem, ENTRY + n - 1, d) # 0
              /\ r.mem[find_pte(r.mem, ENTRY + n - 1, d)][0] = image[n]
  <2> DEFINE va == ENTRY + n - 1  f == find_pte(e.mem, va, d)
  <2>1. va \in User /\ f # 0 /\ e.mem[f][0] = image[n] /\ d \in E
    BY <1>8, <1>10
  <2>2. find_pte(r.mem, va, d) = f
    BY <2>1, <1>14 DEF SameWalks
  <2>3. f \in Frame
    <3>1. f \in Q2
      <4> HIDE DEF va
      <4> QED  BY <2>1, <1>11, WalkEnds
    <3> QED  BY <3>1, <1>10, <1>11, InUse
  <2> HIDE DEF f
  <2>4. r.mem[f][0] = e.mem[f][0]
    <3>1. 0 \in Entries \ {BASE - 1}
      BY PagingAssumption DEF Entries
    <3> QED  BY <3>1, <2>3, <1>14 DEF SamePages
  <2> QED  BY <2>1, <2>2, <2>4
<1>23. P \subseteq Q2 /\ ker \in Q2
  BY <1>6, <1>11
<1> QED
  <2>1. sp.dir = d /\ sp.kernel = ker /\ d = s.memCurr + 1 /\ ker > s.memCurr
    BY <1>1, <1>5 DEF ker
  <2> QED  BY <2>1, <1>14, <1>16, <1>17, <1>18, <1>19, <1>22, <1>23 DEF Built, s

-----------------------------------------------------------------------------
(* The inductive invariant.                                                *)

ThreadStacks == {kernel_sp[t] : t \in {u \in Slot : Runs(u) /\ type[u] = "USER_THREAD"}}

(* The pages in use have levels, the kernel stack of a process among the    *)
(* data of its space: the map of the kernel's half is never reached.       *)
Levels == \E P :
    /\ Sound(Now, Dirs, P, ThreadStacks)
    /\ \A t \in Slot : Runs(t) /\ type[t] = "USER_PROCESS" => kernel_sp[t] \in P

(* A slot that is taken has an address space, and the boot table, which     *)
(* every directory starts as a copy of, leaves the user's half empty.      *)
Started ==
    /\ pid \in [Slot -> Nat]
    /\ \A t \in Slot : pid[t] # 0 => Runs(t)
    /\ \A i \in UserTop : mem[PGDIR][i] = 0

(* The kernel stacks: one for each task, with its context.                 *)
KernelStacks ==
    /\ \A t \in Slot : Runs(t) => kernel_sp[t] # 0 /\ mem[kernel_sp[t]][BASE - 1] = Context(t)
    /\ \A t, u \in Slot : Runs(t) /\ Runs(u) /\ t # u => kernel_sp[t] # kernel_sp[u]

(* The user stacks: a process has the first, its n-th thread the n-th below *)
(* it, and below the last that was handed out nothing is mapped, as far    *)
(* as the pool reaches.                                                    *)
UserStacks ==
    /\ \A t \in Slot : num_thread[t] <= memCurr - FREEMEM
    /\ \A t \in Slot : Runs(t) =>
          /\ user_sp[t] - 1 \in User
          /\ find_pte(mem, user_sp[t] - 1, pgdir[t]) # 0
          /\ type[t] = "USER_PROCESS" => user_sp[t] = USER_STACK_ADDR
    /\ \A t, u \in Slot : Runs(t) /\ Runs(u) /\ t # u /\ pgdir[t] = pgdir[u] =>
          /\ user_sp[t] # user_sp[u]
          /\ type[t] = "USER_PROCESS" =>
                \E n \in 1..num_thread[t] : user_sp[u] = USER_STACK_ADDR - n
    /\ \A t \in Slot : Runs(t) /\ type[t] = "USER_PROCESS" =>
          \A n \in (num_thread[t] + 1)..(PGDIR - FREEMEM - 1) :
              find_pte(mem, USER_STACK_ADDR - 1 - n, pgdir[t]) = 0

PgInv == PagingTypeOK /\ Started /\ Levels /\ KernelStacks /\ UserStacks
(* Memory as the handlers find it.                                         *)
LEMMA MemoryNow ==
  ASSUME PagingTypeOK
  PROVE  /\ Now \in State /\ Now.mem = mem /\ Now.memCurr = memCurr
         /\ memCurr \in Nat /\ PGDIR \in Nat /\ FREEMEM \in Nat /\ FREEMEM <= memCurr /\ memCurr < PGDIR
         /\ Slot \subseteq Nat
BY PagingAssumption DEF PagingTypeOK, Now, State, Memory, Entries

(* What a task works with is in use.                                       *)
Witness(P) ==
    /\ Sound(Now, Dirs, P, ThreadStacks)
    /\ \A t \in Slot : Runs(t) /\ type[t] = "USER_PROCESS" => kernel_sp[t] \in P

LEMMA TaskPages ==
  ASSUME PgInv, NEW P, Witness(P), NEW t \in Slot, Runs(t)
  PROVE  /\ pgdir[t] \in Dirs /\ pgdir[t] <= memCurr /\ pgdir[t] \in Nat
         /\ kernel_sp[t] \in P \cup ThreadStacks
         /\ kernel_sp[t] \in Nat /\ kernel_sp[t] # 0 /\ kernel_sp[t] <= memCurr
         /\ kernel_sp[t] \in Frame
         /\ user_sp[t] - 1 \in User
<1>1. PagingTypeOK /\ memCurr \in Nat /\ FREEMEM \in Nat /\ Now \in State
  BY MemoryNow DEF PgInv
<1>2. pgdir[t] \in Dirs /\ pgdir[t] \in (FREEMEM + 1)..memCurr
  BY <1>1 DEF PagingTypeOK, Runs, Dirs
<1>3. kernel_sp[t] # 0 /\ user_sp[t] - 1 \in User
  BY DEF PgInv, KernelStacks, UserStacks
<1>4. kernel_sp[t] \in (FREEMEM + 1)..memCurr
  BY <1>1, <1>3 DEF PagingTypeOK
<1>5. kernel_sp[t] \in P \cup ThreadStacks
  <2>1. type[t] = "USER_PROCESS" \/ type[t] = "USER_THREAD"
    BY <1>1 DEF PagingTypeOK
  <2> QED  BY <2>1 DEF Witness, ThreadStacks
<1>6. kernel_sp[t] \in Frame
  BY <1>1, <1>5, InUse DEF Witness
<1> QED  BY <1>1, <1>2, <1>3, <1>4, <1>5, <1>6

-----------------------------------------------------------------------------
(* init_shell and do_exec.                                                 *)

MadeProcess(i, image, r, dir, ker, P) ==
    /\ Witness(P)
    /\ Built(Now, r, dir, ker, i, image, Dirs, P, ThreadStacks)
    /\ mem' = r.mem /\ memCurr' = r.memCurr
    /\ pid' = [pid EXCEPT ![i] = i + 1]
    /\ type' = [type EXCEPT ![i] = "USER_PROCESS"]
    /\ pgdir' = [pgdir EXCEPT ![i] = dir]
    /\ kernel_sp' = [kernel_sp EXCEPT ![i] = ker]
    /\ user_sp' = [user_sp EXCEPT ![i] = USER_STACK_ADDR]
    /\ num_thread' = [num_thread EXCEPT ![i] = 0]

(* What a new process finds.                                               *)
LEMMA ProcessMakes ==
  ASSUME PgInv, NEW i \in Slot, NEW image \in Images, NEW arg \in Nat, Process(i, image, arg)
  PROVE  \E r, dir, ker, P : MadeProcess(i, image, r, dir, ker, P)
<1> DEFINE sp == Space(image, arg)
           r == init_pcb_stack(sp.end, sp.kernel, i)
<1>1. PICK P : Witness(P)
  BY DEF PgInv, Levels, Witness
<1>2. /\ Now \in State /\ Sound(Now, Dirs, P, ThreadStacks) /\ i \in Nat
      /\ \A j \in UserTop : mem[PGDIR][j] = 0
  BY <1>1, MemoryNow DEF PgInv, Witness, Started
<1>3. Room(7 + 3 * Len(image))
  BY DEF Process
<1>4. /\ Become(r)
      /\ pid' = [pid EXCEPT ![i] = i + 1]
      /\ type' = [type EXCEPT ![i] = "USER_PROCESS"]
      /\ pgdir' = [pgdir EXCEPT ![i] = sp.dir]
      /\ kernel_sp' = [kernel_sp EXCEPT ![i] = sp.kernel]
      /\ user_sp' = [user_sp EXCEPT ![i] = USER_STACK_ADDR]
      /\ num_thread' = [num_thread EXCEPT ![i] = 0]
  BY DEF Process
<1>5. Built(Now, r, sp.dir, sp.kernel, i, image, Dirs, P, ThreadStacks)
  <2>1. sp = Space(image, arg) /\ r = init_pcb_stack(sp.end, sp.kernel, i)
    OBVIOUS
  <2> HIDE DEF sp, r
  <2> QED  BY <2>1, <1>2, <1>3, SpaceBuilt
<1> HIDE DEF sp, r
<1>6. MadeProcess(i, image, r, sp.dir, sp.kernel, P)
  BY <1>1, <1>4, <1>5 DEF MadeProcess, Become
<1> QED  BY <1>6

(* A new process keeps the invariant.                                      *)
LEMMA ProcessKeeps ==
  ASSUME PgInv, NEW i \in Slot, NEW image, NEW r, NEW dir, NEW ker, NEW P,
         MadeProcess(i, image, r, dir, ker, P)
  PROVE  PgInv'
<1>1. /\ PagingTypeOK /\ Started /\ KernelStacks /\ UserStacks
      /\ Now \in State /\ Now.mem = mem /\ Now.memCurr = memCurr
      /\ memCurr \in Nat /\ PGDIR \in Nat /\ FREEMEM \in Nat /\ FREEMEM <= memCurr
      /\ i \in Nat
  BY MemoryNow DEF PgInv
<1>2. /\ mem' = r.mem /\ memCurr' = r.memCurr
      /\ pid' = [pid EXCEPT ![i] = i + 1]
      /\ type' = [type EXCEPT ![i] = "USER_PROCESS"]
      /\ pgdir' = [pgdir EXCEPT ![i] = dir]
      /\ kernel_sp' = [kernel_sp EXCEPT ![i] = ker]
      /\ user_sp' = [user_sp EXCEPT ![i] = USER_STACK_ADDR]
      /\ num_thread' = [num_thread EXCEPT ![i] = 0]
      /\ Witness(P)
  BY DEF MadeProcess
<1>3. PICK Q : P \subseteq Q /\ ker \in Q /\ Sound(r, Dirs \cup {dir}, Q, ThreadStacks)
  BY DEF MadeProcess, Built
<1>4. /\ dir = memCurr + 1 /\ ker > memCurr
      /\ r \in State /\ memCurr <= memCurr'
      /\ SamePages(Now, r, P \cup ThreadStacks \cup {PGDIR})
      /\ SameWalks(Now, r, Dirs)
      /\ mem'[ker][BASE - 1] = Context(i)
      /\ find_pte(mem', USER_STACK_ADDR - 1, dir) # 0
      /\ \A n \in 1..(PGDIR - FREEMEM - 1) : find_pte(mem', USER_STACK_ADDR - 1 - n, dir) = 0
  BY <1>1, <1>2 DEF MadeProcess, Built, Grew
<1>5. memCurr' \in FREEMEM..(PGDIR - 1) /\ memCurr' \in Nat /\ mem' \in [Frame -> [Entries -> Nat]]
  BY <1>1, <1>2, <1>4 DEF State, Memory
<1>6. dir \in (FREEMEM + 1)..memCurr' /\ ker \in (FREEMEM + 1)..memCurr'
  BY <1>2, <1>3, <1>4, InUse
<1>7. ASSUME NEW t \in Slot \ {i}
      PROVE  /\ pid'[t] = pid[t] /\ type'[t] = type[t] /\ pgdir'[t] = pgdir[t]
             /\ kernel_sp'[t] = kernel_sp[t] /\ user_sp'[t] = user_sp[t]
             /\ num_thread'[t] = num_thread[t] /\ (Runs(t))' = Runs(t)
  BY <1>1, <1>2 DEF PagingTypeOK, Started, Runs
<1>8. /\ pid'[i] = i + 1 /\ type'[i] = "USER_PROCESS" /\ pgdir'[i] = dir
      /\ kernel_sp'[i] = ker /\ user_sp'[i] = USER_STACK_ADDR /\ num_thread'[i] = 0 /\ (Runs(i))'
  BY <1>1, <1>2, <1>4 DEF PagingTypeOK, Started, Runs
<1>9. ASSUME NEW t \in Slot \ {i}, Runs(t)
      PROVE  /\ pgdir[t] \in Dirs /\ pgdir[t] # dir
             /\ kernel_sp[t] # ker /\ mem'[kernel_sp[t]] = mem[kernel_sp[t]]
             /\ \A va \in User : find_pte(mem', va, pgdir[t]) = find_pte(mem, va, pgdir[t])
  <2>1. /\ pgdir[t] \in Dirs /\ pgdir[t] <= memCurr /\ pgdir[t] \in Nat
        /\ kernel_sp[t] \in P \cup ThreadStacks
        /\ kernel_sp[t] \in Nat /\ kernel_sp[t] <= memCurr
    BY <1>2, <1>9, TaskPages
  <2>2. pgdir[t] # dir
    BY ONLY <2>1, <1>4, <1>1
  <2>3. kernel_sp[t] # ker
    BY ONLY <2>1, <1>4, <1>1, <1>5, <1>6
  <2> QED  BY <2>1, <2>2, <2>3, <1>1, <1>2, <1>4 DEF SamePages, SameWalks
<1>10. PagingTypeOK'
  <2>1. (FREEMEM + 1)..memCurr \subseteq (FREEMEM + 1)..memCurr'
    BY ONLY <1>1, <1>4, <1>5
  <2>2. USER_STACK_ADDR \in User
    BY PagingAssumption
  <2>3. \A t \in Slot : pid'[t] \in {0, t + 1}
    BY <1>1, <1>7, <1>8 DEF PagingTypeOK
  <2>4. pgdir' \in [Slot -> {0} \cup (FREEMEM + 1)..memCurr']
    BY <1>1, <1>2, <1>6, <2>1 DEF PagingTypeOK
  <2>5. kernel_sp' \in [Slot -> {0} \cup (FREEMEM + 1)..memCurr']
    BY <1>1, <1>2, <1>6, <2>1 DEF PagingTypeOK
  <2>6. /\ type' \in [Slot -> {"USER_PROCESS", "USER_THREAD"}]
        /\ user_sp' \in [Slot -> {0} \cup User]
        /\ num_thread' \in [Slot -> Nat]
    BY <1>1, <1>2, <2>2 DEF PagingTypeOK
  <2> QED  BY <1>5, <2>3, <2>4, <2>5, <2>6 DEF PagingTypeOK, Entries
<1>11. Started'
  <2>1. pid' \in [Slot -> Nat]
    BY <1>1, <1>2 DEF Started
  <2>2. \A t \in Slot : pid'[t] # 0 => (Runs(t))'
    BY <1>1, <1>7, <1>8 DEF Started
  <2>3. \A j \in UserTop : mem'[PGDIR][j] = 0
    BY <1>1, <1>2, <1>4 DEF Started, SamePages
  <2> QED  BY <2>1, <2>2, <2>3 DEF Started
<1>12. Levels'
  <2>1. Dirs' \subseteq Dirs \cup {dir}
    BY <1>7, <1>8 DEF Dirs
  <2>2. ThreadStacks' \subseteq ThreadStacks
    BY <1>7, <1>8 DEF ThreadStacks
  <2>3. (Now').mem = r.mem /\ (Now').memCurr = r.memCurr
    BY <1>2 DEF Now
  <2>4. Sound(Now', Dirs', Q, ThreadStacks')
    BY <1>3, <2>1, <2>2, <2>3, Forget
  <2>5. \A t \in Slot : (Runs(t))' /\ type'[t] = "USER_PROCESS" => kernel_sp'[t] \in Q
    BY <1>2, <1>3, <1>7, <1>8 DEF Witness
  <2> QED  BY <2>4, <2>5 DEF Levels
<1>13. KernelStacks'
  <2>1. ker # 0
    BY ONLY <1>4, <1>1, <1>5, <1>6
  <2>2. \A t \in Slot : (Runs(t))' => kernel_sp'[t] # 0 /\ mem'[kernel_sp'[t]][BASE - 1] = Context(t)
    BY <2>1, <1>1, <1>4, <1>7, <1>8, <1>9 DEF KernelStacks
  <2>3. \A t, u \in Slot : (Runs(t))' /\ (Runs(u))' /\ t # u => kernel_sp'[t] # kernel_sp'[u]
    BY <1>1, <1>7, <1>8, <1>9 DEF KernelStacks
  <2> QED  BY <2>2, <2>3 DEF KernelStacks
<1>14. UserStacks'
  <2>1. \A t \in Slot : num_thread'[t] <= memCurr' - FREEMEM
    <3> SUFFICES ASSUME NEW t \in Slot PROVE num_thread'[t] <= memCurr' - FREEMEM
      OBVIOUS
    <3>1. num_thread[t] \in Nat /\ num_thread[t] <= memCurr - FREEMEM
      BY <1>1 DEF UserStacks, PagingTypeOK
    <3>2. num_thread'[t] = num_thread[t] \/ num_thread'[t] = 0
      BY <1>7, <1>8
    <3> QED  BY ONLY <3>1, <3>2, <1>1, <1>4, <1>5
  <2>2. ASSUME NEW t \in Slot, (Runs(t))'
        PROVE  /\ user_sp'[t] - 1 \in User
               /\ find_pte(mem', user_sp'[t] - 1, pgdir'[t]) # 0
               /\ type'[t] = "USER_PROCESS" => user_sp'[t] = USER_STACK_ADDR
    <3>1. CASE t = i
      BY <3>1, <1>4, <1>8, Layout
    <3>2. CASE t # i
      BY <3>2, <2>2, <1>1, <1>7, <1>9 DEF UserStacks
    <3> QED  BY <3>1, <3>2
  <2>3. ASSUME NEW t \in Slot, NEW u \in Slot, (Runs(t))', (Runs(u))', t # u, pgdir'[t] = pgdir'[u]
        PROVE  /\ user_sp'[t] # user_sp'[u]
               /\ type'[t] = "USER_PROCESS" =>
                     \E n \in 1..num_thread'[t] : user_sp'[u] = USER_STACK_ADDR - n
    <3>1. t # i /\ u # i
      BY <2>3, <1>7, <1>8, <1>9
    <3> QED  BY <3>1, <2>3, <1>1, <1>7 DEF UserStacks
  <2>4. ASSUME NEW t \in Slot, (Runs(t))', type'[t] = "USER_PROCESS",
               NEW n \in (num_thread'[t] + 1)..(PGDIR - FREEMEM - 1)
        PROVE  find_pte(mem', USER_STACK_ADDR - 1 - n, pgdir'[t]) = 0
    <3>1. CASE t = i
      <4>1. n \in 1..(PGDIR - FREEMEM - 1)
        BY <3>1, <1>8
      <4> QED  BY <4>1, <3>1, <1>4, <1>8
    <3>2. CASE t # i
      <4>1. num_thread[t] \in Nat /\ n \in (num_thread[t] + 1)..(PGDIR - FREEMEM - 1)
        BY <3>2, <1>1, <1>7 DEF PagingTypeOK
      <4>2. n \in 0..(PGDIR - FREEMEM - 1)
        BY ONLY <4>1, <1>1
      <4>3. USER_STACK_ADDR - 1 - n \in User
        BY <4>2, Layout
      <4>4. find_pte(mem, USER_STACK_ADDR - 1 - n, pgdir[t]) = 0
        BY <4>1, <3>2, <2>4, <1>1, <1>7 DEF UserStacks
      <4> QED  BY <4>3, <4>4, <3>2, <2>4, <1>7, <1>9
    <3> QED  BY <3>1, <3>2
  <2> QED  BY <2>1, <2>2, <2>3, <2>4 DEF UserStacks
<1> QED  BY <1>10, <1>11, <1>12, <1>13, <1>14 DEF PgInv

-----------------------------------------------------------------------------
(* do_mthread_create.                                                      *)

(* The next stack below the ones handed out.                               *)
NextStack(t) == USER_STACK_ADDR - 1 - (num_thread[t] + 1)

MadeThread(t, i, r, ker, P) ==
    /\ Witness(P) /\ t # i /\ Runs(t) /\ type[t] = "USER_PROCESS"
    /\ NextStack(t) \in User /\ num_thread[t] + 1 < PGDIR - FREEMEM
    /\ ker = memCurr + 1 /\ r \in State /\ ker <= r.memCurr
    /\ \E Q : P \subseteq Q /\ Sound(r, Dirs, Q, ThreadStacks \cup {ker})
    /\ SamePages(Now, r, P \cup ThreadStacks \cup {PGDIR})
    /\ OtherWalks(Now, r, Dirs, pgdir[t], NextStack(t))
    /\ find_pte(mem, NextStack(t), pgdir[t]) = 0 /\ find_pte(r.mem, NextStack(t), pgdir[t]) # 0
    /\ r.mem[ker][BASE - 1] = Context(i)
    /\ mem' = r.mem /\ memCurr' = r.memCurr
    /\ pid' = [pid EXCEPT ![i] = i + 1]
    /\ type' = [type EXCEPT ![i] = "USER_THREAD"]
    /\ pgdir' = [pgdir EXCEPT ![i] = pgdir[t]]
    /\ kernel_sp' = [kernel_sp EXCEPT ![i] = ker]
    /\ user_sp' = [user_sp EXCEPT ![i] = USER_STACK_ADDR - (num_thread[t] + 1)]
    /\ num_thread' = [num_thread EXCEPT ![t] = @ + 1]

(* What a new thread finds.                                                *)
LEMMA ThreadMakes ==
  ASSUME PgInv, NEW t \in Slot, do_mthread_create(t)
  PROVE  \E i \in Slot : \E r, ker, P : MadeThread(t, i, r, ker, P)
<1> DEFINE a == allocPage(Now)
<1>1. PICK P : Witness(P)
  BY DEF PgInv, Levels, Witness
<1>2. /\ Now \in State /\ Sound(Now, Dirs, P, ThreadStacks) /\ Now.mem = mem /\ Now.memCurr = memCurr
      /\ memCurr \in Nat /\ PGDIR \in Nat /\ FREEMEM \in Nat /\ FREEMEM <= memCurr
      /\ PagingTypeOK /\ Started /\ UserStacks
  BY <1>1, MemoryNow DEF PgInv, Witness
<1>3. PICK i \in Slot : /\ pid[t] # 0 /\ type[t] = "USER_PROCESS" /\ Free(i) /\ Room(4)
                        /\ num_thread' = [num_thread EXCEPT ![t] = @ + 1]
                        /\ Thread(t, i, num_thread'[t], a.kva, a)
  BY DEF do_mthread_create
<1>4. t # i /\ Runs(t) /\ i \in Nat
  BY <1>2, <1>3, MemoryNow DEF Free, Started
<1> DEFINE n == num_thread[t] + 1
           va == NextStack(t)
           d == pgdir[t]
           K == ThreadStacks \cup {a.kva}
<1>5. num_thread[t] \in Nat /\ n \in Nat /\ num_thread'[t] = n
  BY <1>2, <1>3 DEF PagingTypeOK
<1>6. n \in (num_thread[t] + 1)..(PGDIR - FREEMEM - 1) /\ n < PGDIR - FREEMEM
  <2>1. num_thread[t] <= memCurr - FREEMEM /\ memCurr + 4 < PGDIR
    BY <1>2, <1>3 DEF UserStacks, Room
  <2> QED  BY <2>1, <1>2, <1>5
<1>7. va \in User /\ USER_STACK_ADDR - 1 - n = va /\ find_pte(mem, va, d) = 0
  <2>1. n \in 0..(PGDIR - FREEMEM - 1)
    BY <1>5, <1>6
  <2>2. USER_STACK_ADDR - 1 - n \in User /\ USER_STACK_ADDR - 1 - n = va
    BY <2>1, Layout DEF NextStack
  <2> QED  BY <2>2, <1>2, <1>3, <1>4, <1>6 DEF UserStacks
<1>8. StackTaken(Now, a, Dirs, P, ThreadStacks)
  <2>1. Now.memCurr + 1 < PGDIR
    BY <1>2, <1>3 DEF Room
  <2> QED  BY <2>1, <1>2, TakeStack
<1>9. PICK u \in {alloc_page_helper(a, USER_STACK_ADDR - 1 - num_thread'[t], pgdir[t])} :
        /\ Become(init_pcb_stack(u, a.kva, i))
        /\ pid' = [pid EXCEPT ![i] = i + 1]
        /\ type' = [type EXCEPT ![i] = "USER_THREAD"]
        /\ pgdir' = [pgdir EXCEPT ![i] = pgdir[t]]
        /\ kernel_sp' = [kernel_sp EXCEPT ![i] = a.kva]
        /\ user_sp' = [user_sp EXCEPT ![i] = USER_STACK_ADDR - num_thread'[t]]
  BY <1>3 DEF Thread
<1>10. u = alloc_page_helper(a, va, d)
  BY <1>5, <1>7, <1>9
<1> DEFINE ker == a.kva
           r == init_pcb_stack(u, ker, i)
<1>11. /\ a \in State /\ a.mem = mem /\ a.memCurr = memCurr + 1 /\ ker = memCurr + 1
       /\ Sound(a, Dirs, P, K)
  BY <1>2, <1>8 DEF StackTaken
<1> HIDE DEF a, va, n
<1>12. d \in Dirs
  BY <1>1, <1>4, TaskPages
<1>13. PageMapped(a, u, Dirs, P, K, d, va)
  <2>1. a.memCurr + 3 < PGDIR
    BY <1>2, <1>3, <1>11 DEF Room
  <2>2. find_pte(a.mem, va, d) = 0
    BY <1>7, <1>11
  <2> HIDE DEF d, K
  <2> QED  BY <2>1, <2>2, <1>7, <1>10, <1>11, <1>12, HelperSound
<1>14. /\ u \in State /\ a.memCurr <= u.memCurr
       /\ SamePages(a, u, P \cup K \cup {PGDIR})
       /\ OtherWalks(a, u, Dirs, d, va)
       /\ u.kva \in (a.memCurr + 1)..u.memCurr /\ find_pte(u.mem, va, d) = u.kva
       /\ Sound(u, Dirs, P \cup {u.kva}, K)
  BY <1>13 DEF PageMapped, Grew
<1>15. u.memCurr \in Nat /\ u.kva \in Nat /\ u.kva # 0
  <2>1. u.memCurr \in Nat /\ u.kva \in Nat
    BY <1>14, Pool DEF State
  <2> QED  BY ONLY <2>1, <1>14, <1>11, <1>2
<1>16. WordPut(u, r, Dirs, P \cup {u.kva}, K, ker, BASE - 1, Context(i))
  <2>1. ker \in (P \cup {u.kva}) \cup K /\ BASE - 1 \in Entries /\ Context(i) \in Nat
    BY <1>4, PagingAssumption DEF Entries, Context
  <2>2. r = Write(u, ker, BASE - 1, Context(i))
    BY DEF init_pcb_stack
  <2> HIDE DEF K, r
  <2> QED  BY <1>14, <2>1, <2>2, WordWritten
<1>17. /\ r \in State /\ u.memCurr <= r.memCurr
       /\ Sound(r, Dirs, P \cup {u.kva}, K) /\ SameWalks(u, r, Dirs)
       /\ SamePages(u, r, Frame \ {ker})
       /\ r.mem[ker][BASE - 1] = Context(i)
  BY <1>16 DEF WordPut, Grew
<1>18. SamePages(Now, r, P \cup ThreadStacks \cup {PGDIR})
  <2>1. P \cup ThreadStacks \subseteq (FREEMEM + 1)..memCurr /\ P \cup ThreadStacks \subseteq Frame \ {PGDIR}
    BY <1>2, InUse
  <2>2. ker \in Frame \ {PGDIR}
    BY <1>11, InUse
  <2> SUFFICES ASSUME NEW f \in P \cup ThreadStacks \cup {PGDIR} PROVE r.mem[f] = mem[f]
    BY <1>2 DEF SamePages
  <2>3. f \in Frame \ {ker}
    BY <2>1, <2>2, <1>2, <1>11, Pool
  <2> QED  BY <2>3, <1>11, <1>14, <1>17 DEF SamePages
<1>19. OtherWalks(Now, r, Dirs, d, va)
  BY <1>2, <1>11, <1>14, <1>17 DEF OtherWalks, SameWalks
<1>20. find_pte(r.mem, va, d) # 0
  BY <1>7, <1>12, <1>14, <1>15, <1>17 DEF SameWalks
<1>21. ker <= r.memCurr
  <2>1. r.memCurr \in Nat
    BY <1>17, Pool DEF State
  <2> QED  BY ONLY <2>1, <1>2, <1>11, <1>14, <1>15, <1>17
<1>22. mem' = r.mem /\ memCurr' = r.memCurr
  BY <1>9 DEF Become
<1> HIDE DEF r, ker
<1>23. \E Q : P \subseteq Q /\ Sound(r, Dirs, Q, ThreadStacks \cup {ker})
  BY <1>17 DEF ker
<1>24. /\ kernel_sp' = [kernel_sp EXCEPT ![i] = ker]
       /\ user_sp' = [user_sp EXCEPT ![i] = USER_STACK_ADDR - (num_thread[t] + 1)]
  BY <1>5, <1>9 DEF ker, n
<1>25. MadeThread(t, i, r, ker, P)
  BY <1>1, <1>3, <1>4, <1>6, <1>7, <1>9, <1>11, <1>17, <1>18, <1>19, <1>20, <1>21, <1>22, <1>23, <1>24
     DEF MadeThread, va, n
<1> QED  BY <1>25

(* A new thread keeps the invariant.                                       *)
LEMMA ThreadKeeps ==
  ASSUME PgInv, NEW t \in Slot, NEW i \in Slot, NEW r, NEW ker, NEW P,
         MadeThread(t, i, r, ker, P)
  PROVE  PgInv'
<1> DEFINE n == num_thread[t] + 1
           va == NextStack(t)
           d == pgdir[t]
<1>1. /\ PagingTypeOK /\ Started /\ KernelStacks /\ UserStacks
      /\ Now \in State /\ Now.mem = mem /\ Now.memCurr = memCurr
      /\ memCurr \in Nat /\ PGDIR \in Nat /\ FREEMEM \in Nat /\ FREEMEM <= memCurr
      /\ i \in Nat
  BY MemoryNow DEF PgInv
<1>2. /\ mem' = r.mem /\ memCurr' = r.memCurr
      /\ pid' = [pid EXCEPT ![i] = i + 1]
      /\ type' = [type EXCEPT ![i] = "USER_THREAD"]
      /\ pgdir' = [pgdir EXCEPT ![i] = d]
      /\ kernel_sp' = [kernel_sp EXCEPT ![i] = ker]
      /\ user_sp' = [user_sp EXCEPT ![i] = USER_STACK_ADDR - n]
      /\ num_thread' = [num_thread EXCEPT ![t] = n]
      /\ Witness(P) /\ t # i /\ Runs(t) /\ type[t] = "USER_PROCESS"
  BY <1>1 DEF MadeThread, PagingTypeOK
<1>3. PICK Q : P \subseteq Q /\ Sound(r, Dirs, Q, ThreadStacks \cup {ker})
  BY DEF MadeThread
<1>4. /\ ker = memCurr + 1 /\ r \in State /\ ker <= memCurr'
      /\ va \in User /\ n < PGDIR - FREEMEM
      /\ SamePages(Now, r, P \cup ThreadStacks \cup {PGDIR})
      /\ OtherWalks(Now, r, Dirs, d, va)
      /\ mem'[ker][BASE - 1] = Context(i)
      /\ find_pte(mem', va, d) # 0
  BY <1>2 DEF MadeThread
<1>5. /\ memCurr' \in FREEMEM..(PGDIR - 1) /\ memCurr' \in Nat /\ mem' \in [Frame -> [Entries -> Nat]]
      /\ memCurr < memCurr'
  BY <1>1, <1>2, <1>4 DEF State, Memory
<1>6. ker \in (FREEMEM + 1)..memCurr' /\ ker # 0
  BY ONLY <1>1, <1>4, <1>5
<1>7. ASSUME NEW u \in Slot \ {i}
      PROVE  /\ pid'[u] = pid[u] /\ type'[u] = type[u] /\ pgdir'[u] = pgdir[u]
             /\ kernel_sp'[u] = kernel_sp[u] /\ user_sp'[u] = user_sp[u]
             /\ (Runs(u))' = Runs(u)
  BY <1>1, <1>2 DEF PagingTypeOK, Started, Runs
<1>8. /\ pid'[i] = i + 1 /\ type'[i] = "USER_THREAD" /\ pgdir'[i] = d
      /\ kernel_sp'[i] = ker /\ user_sp'[i] = USER_STACK_ADDR - n /\ (Runs(i))'
      /\ num_thread[t] \in Nat /\ n \in Nat /\ num_thread'[t] = n
      /\ \A u \in Slot \ {t} : num_thread'[u] = num_thread[u]
  BY <1>1, <1>2 DEF PagingTypeOK, Started, Runs
<1>20. d \in Dirs /\ d \in (FREEMEM + 1)..memCurr /\ user_sp[t] = USER_STACK_ADDR
  <2>1. d \in Dirs
    BY <1>2, TaskPages
  <2>2. d \in (FREEMEM + 1)..memCurr
    BY <1>1, <1>2 DEF PagingTypeOK, Runs
  <2> QED  BY <2>1, <2>2, <1>1, <1>2 DEF UserStacks
<1>21. /\ USER_STACK_ADDR \in Nat /\ va = USER_STACK_ADDR - 1 - n /\ USER_STACK_ADDR - n \in User
       /\ USER_STACK_ADDR - n - 1 = va
  <2>1. n \in 0..(PGDIR - FREEMEM - 1)
    BY <1>1, <1>4, <1>8
  <2>2. USER_STACK_ADDR - n \in User /\ USER_STACK_ADDR \in Nat
    BY <2>1, Layout
  <2> HIDE DEF n
  <2>3. va = USER_STACK_ADDR - 1 - n
    BY DEF NextStack, n
  <2>4. USER_STACK_ADDR - n - 1 = USER_STACK_ADDR - 1 - n
    BY <2>2, <1>8
  <2> QED  BY <2>2, <2>3, <2>4
<1> HIDE DEF va, n
<1>9. ASSUME NEW u \in Slot \ {i}, Runs(u)
      PROVE  /\ pgdir[u] \in Dirs
             /\ kernel_sp[u] # ker /\ mem'[kernel_sp[u]] = mem[kernel_sp[u]]
             /\ \A v \in User : pgdir[u] # d \/ v # va =>
                   find_pte(mem', v, pgdir[u]) = find_pte(mem, v, pgdir[u])
  <2>1. /\ pgdir[u] \in Dirs
        /\ kernel_sp[u] \in P \cup ThreadStacks
        /\ kernel_sp[u] \in Nat /\ kernel_sp[u] <= memCurr
    BY <1>2, <1>9, TaskPages
  <2>3. kernel_sp[u] # ker
    BY ONLY <2>1, <1>4, <1>1, <1>5
  <2> QED  BY <2>1, <2>3, <1>1, <1>2, <1>4 DEF SamePages, OtherWalks
(* Two tasks of the space with a process among them have stacks apart.      *)
<1>22. ASSUME NEW u \in Slot \ {i}, Runs(u), pgdir[u] = d, u # t
       PROVE  /\ \E m \in 1..num_thread[t] : user_sp[u] = USER_STACK_ADDR - m
              /\ user_sp[u] # USER_STACK_ADDR - n
              /\ type[u] # "USER_PROCESS"
  <2>1. PICK m \in 1..num_thread[t] : user_sp[u] = USER_STACK_ADDR - m
    BY <1>22, <1>1, <1>2 DEF UserStacks
  <2>2. user_sp[u] # USER_STACK_ADDR - n
    <3>1. m \in Nat /\ m <= num_thread[t] /\ n = num_thread[t] + 1
      BY <1>8 DEF n
    <3> QED  BY ONLY <3>1, <2>1, <1>8, <1>21
  <2>3. user_sp[u] # USER_STACK_ADDR
    <3>1. m \in Nat /\ m >= 1
      BY <1>8
    <3> QED  BY ONLY <3>1, <2>1, <1>21
  <2> QED  BY <2>1, <2>2, <2>3, <1>22, <1>1 DEF UserStacks
<1>10. PagingTypeOK'
  <2>1. (FREEMEM + 1)..memCurr \subseteq (FREEMEM + 1)..memCurr'
    BY ONLY <1>1, <1>5
  <2>3. \A u \in Slot : pid'[u] \in {0, u + 1}
    BY <1>1, <1>7, <1>8 DEF PagingTypeOK
  <2>4. pgdir' \in [Slot -> {0} \cup (FREEMEM + 1)..memCurr']
    BY <1>1, <1>2, <1>20, <2>1 DEF PagingTypeOK
  <2>5. kernel_sp' \in [Slot -> {0} \cup (FREEMEM + 1)..memCurr']
    BY <1>1, <1>2, <1>6, <2>1 DEF PagingTypeOK
  <2>6. /\ type' \in [Slot -> {"USER_PROCESS", "USER_THREAD"}]
        /\ user_sp' \in [Slot -> {0} \cup User]
        /\ num_thread' \in [Slot -> Nat]
    BY <1>1, <1>2, <1>8, <1>21 DEF PagingTypeOK
  <2> QED  BY <1>5, <2>3, <2>4, <2>5, <2>6 DEF PagingTypeOK, Entries
<1>11. Started'
  <2>1. pid' \in [Slot -> Nat]
    BY <1>1, <1>2 DEF Started
  <2>2. \A u \in Slot : pid'[u] # 0 => (Runs(u))'
    BY <1>1, <1>7, <1>8 DEF Started
  <2>3. \A j \in UserTop : mem'[PGDIR][j] = 0
    BY <1>1, <1>2, <1>4 DEF Started, SamePages
  <2> QED  BY <2>1, <2>2, <2>3 DEF Started
<1>12. Levels'
  <2>1. Dirs' \subseteq Dirs
    BY <1>7, <1>8, <1>20 DEF Dirs
  <2>2. ThreadStacks' \subseteq ThreadStacks \cup {ker}
    BY <1>7, <1>8 DEF ThreadStacks
  <2>3. (Now').mem = r.mem /\ (Now').memCurr = r.memCurr
    BY <1>2 DEF Now
  <2>4. Sound(Now', Dirs', Q, ThreadStacks')
    BY <1>3, <2>1, <2>2, <2>3, Forget
  <2>5. \A u \in Slot : (Runs(u))' /\ type'[u] = "USER_PROCESS" => kernel_sp'[u] \in Q
    BY <1>2, <1>3, <1>7, <1>8 DEF Witness
  <2> QED  BY <2>4, <2>5 DEF Levels
<1>13. KernelStacks'
  <2>2. \A u \in Slot : (Runs(u))' => kernel_sp'[u] # 0 /\ mem'[kernel_sp'[u]][BASE - 1] = Context(u)
    BY <1>1, <1>4, <1>6, <1>7, <1>8, <1>9 DEF KernelStacks
  <2>3. \A u, v \in Slot : (Runs(u))' /\ (Runs(v))' /\ u # v => kernel_sp'[u] # kernel_sp'[v]
    BY <1>1, <1>7, <1>8, <1>9 DEF KernelStacks
  <2> QED  BY <2>2, <2>3 DEF KernelStacks
<1>14. UserStacks'
  <2>1. \A u \in Slot : num_thread'[u] <= memCurr' - FREEMEM
    <3> SUFFICES ASSUME NEW u \in Slot PROVE num_thread'[u] <= memCurr' - FREEMEM
      OBVIOUS
    <3>1. num_thread[u] \in Nat /\ num_thread[u] <= memCurr - FREEMEM
      BY <1>1 DEF UserStacks, PagingTypeOK
    <3>2. num_thread'[u] = num_thread[u] \/ num_thread'[u] = num_thread[u] + 1
      BY <1>8 DEF n
    <3> QED  BY ONLY <3>1, <3>2, <1>1, <1>5
  <2>2. ASSUME NEW u \in Slot, (Runs(u))'
        PROVE  /\ user_sp'[u] - 1 \in User
               /\ find_pte(mem', user_sp'[u] - 1, pgdir'[u]) # 0
               /\ type'[u] = "USER_PROCESS" => user_sp'[u] = USER_STACK_ADDR
    <3>1. CASE u = i
      BY <3>1, <1>4, <1>8, <1>21
    <3>2. CASE u # i
      <4>1. user_sp[u] - 1 \in User /\ find_pte(mem, user_sp[u] - 1, pgdir[u]) # 0
        BY <3>2, <2>2, <1>1, <1>7 DEF UserStacks
      <4>2. pgdir[u] = d => user_sp[u] - 1 # va
        <5> SUFFICES ASSUME pgdir[u] = d, user_sp[u] - 1 = va PROVE FALSE
          OBVIOUS
        <5>1. user_sp[u] = USER_STACK_ADDR - n
          <6>1. user_sp[u] \in Nat
            <7>1. user_sp[u] \in {0} \cup User
              BY <1>1 DEF PagingTypeOK
            <7> QED  BY <7>1, HalfTop DEF User
          <6> QED  BY <6>1, <1>8, <1>21
        <5>2. u = t \/ user_sp[u] # USER_STACK_ADDR - n
          BY <3>2, <2>2, <1>7, <1>22
        <5>3. n >= 1
          BY <1>8 DEF n
        <5> QED  BY <5>1, <5>2, <5>3, <1>8, <1>20, <1>21
      <4> QED  BY <4>1, <4>2, <3>2, <2>2, <1>1, <1>7, <1>9 DEF UserStacks
    <3> QED  BY <3>1, <3>2
  <2>3. ASSUME NEW u \in Slot, NEW v \in Slot, (Runs(u))', (Runs(v))', u # v, pgdir'[u] = pgdir'[v]
        PROVE  /\ user_sp'[u] # user_sp'[v]
               /\ type'[u] = "USER_PROCESS" =>
                     \E m \in 1..num_thread'[u] : user_sp'[v] = USER_STACK_ADDR - m
    <3>3. n >= 1 /\ n \in 1..n /\ USER_STACK_ADDR # USER_STACK_ADDR - n
      BY <1>8, <1>21 DEF n
    <3>1. CASE u = i
      BY <3>1, <3>3, <2>3, <1>7, <1>8, <1>20, <1>22
    <3>2. CASE v = i
      <4>1. u # i /\ pgdir[u] = d /\ Runs(u)
        BY <3>2, <2>3, <1>7, <1>8
      <4>2. CASE u = t
        BY <4>1, <4>2, <3>2, <3>3, <1>7, <1>8, <1>20
      <4>3. CASE u # t
        BY <4>1, <4>3, <3>2, <1>7, <1>8, <1>22
      <4> QED  BY <4>2, <4>3
    <3>4. CASE u # i /\ v # i
      <4>1. /\ user_sp[u] # user_sp[v]
            /\ type[u] = "USER_PROCESS" =>
                   \E m \in 1..num_thread[u] : user_sp[v] = USER_STACK_ADDR - m
        BY <3>4, <2>3, <1>1, <1>7 DEF UserStacks
      <4>2. 1..num_thread[u] \subseteq 1..num_thread'[u]
        <5>1. num_thread[u] \in Nat
          BY <1>1 DEF PagingTypeOK
        <5>2. num_thread'[u] = num_thread[u] \/ num_thread'[u] = num_thread[u] + 1
          BY <1>8 DEF n
        <5> QED  BY ONLY <5>1, <5>2
      <4> QED  BY <4>1, <4>2, <3>4, <1>7
    <3> QED  BY <3>1, <3>2, <3>4
  <2>4. ASSUME NEW u \in Slot, (Runs(u))', type'[u] = "USER_PROCESS",
               NEW m \in (num_thread'[u] + 1)..(PGDIR - FREEMEM - 1)
        PROVE  find_pte(mem', USER_STACK_ADDR - 1 - m, pgdir'[u]) = 0
    <3>1. u # i
      BY <2>4, <1>8
    <3>2. num_thread[u] \in Nat /\ (num_thread'[u] = num_thread[u] \/ num_thread'[u] = num_thread[u] + 1)
      BY <1>1, <1>8 DEF PagingTypeOK, n
    <3>3. m \in Nat /\ m \in 0..(PGDIR - FREEMEM - 1) /\ m \in (num_thread[u] + 1)..(PGDIR - FREEMEM - 1)
      BY ONLY <3>2, <1>1, m \in (num_thread'[u] + 1)..(PGDIR - FREEMEM - 1)
    <3>4. USER_STACK_ADDR - 1 - m \in User
      BY <3>3, Layout
    <3>5. find_pte(mem, USER_STACK_ADDR - 1 - m, pgdir[u]) = 0
      BY <3>1, <3>3, <2>4, <1>1, <1>7 DEF UserStacks
    <3>6. pgdir[u] # d \/ USER_STACK_ADDR - 1 - m # va
      <4> SUFFICES ASSUME pgdir[u] = d PROVE USER_STACK_ADDR - 1 - m # va
        OBVIOUS
      <4>1. u = t
        BY <3>1, <2>4, <1>7, <1>22
      <4>2. m > n
        BY <4>1, <3>3, <1>8
      <4> QED  BY ONLY <4>2, <3>3, <1>8, <1>21
    <3> QED  BY <3>1, <3>4, <3>5, <3>6, <2>4, <1>7, <1>9
  <2> QED  BY <2>1, <2>2, <2>3, <2>4 DEF UserStacks
<1> QED  BY <1>10, <1>11, <1>12, <1>13, <1>14 DEF PgInv

-----------------------------------------------------------------------------
(* The other steps.                                                        *)

(* An exit or a kill.                                                      *)
LEMMA EndKeeps ==
  ASSUME PgInv, NEW t \in Slot, EndTask(t)
  PROVE  PgInv'
<1>1. /\ pid' = [pid EXCEPT ![t] = 0]
      /\ memCurr' = memCurr /\ mem' = mem /\ type' = type /\ pgdir' = pgdir
      /\ kernel_sp' = kernel_sp /\ user_sp' = user_sp /\ num_thread' = num_thread
  BY DEF EndTask
<1>2. PagingTypeOK /\ Started
  BY DEF PgInv
<1>3. Started' /\ \A i \in Slot : pid'[i] \in {0, i + 1}
  BY <1>1, <1>2 DEF Started, PagingTypeOK, Runs
<1>4. PagingTypeOK'
  BY <1>1, <1>2, <1>3 DEF PagingTypeOK
<1>5. Levels'
  <2>1. Dirs' = Dirs /\ ThreadStacks' = ThreadStacks /\ Now' = Now /\ \A u \in Slot : (Runs(u))' = Runs(u)
    BY <1>1 DEF ThreadStacks, Dirs, Now, Runs
  <2>2. PICK P : Witness(P)
    BY DEF PgInv, Levels, Witness
  <2>3. Sound(Now', Dirs', P, ThreadStacks')
    BY <2>1, <2>2 DEF Witness
  <2>4. \A u \in Slot : (Runs(u))' /\ type'[u] = "USER_PROCESS" => kernel_sp'[u] \in P
    BY <1>1, <2>1, <2>2 DEF Witness
  <2> QED  BY <2>3, <2>4 DEF Levels
<1>6. KernelStacks'
  BY <1>1 DEF PgInv, KernelStacks, Runs
<1>7. UserStacks'
  BY <1>1 DEF PgInv, UserStacks, Runs
<1> QED  BY <1>3, <1>4, <1>5, <1>6, <1>7 DEF PgInv

(* A step that maps a page at most, and one that is nobody's stack: the    *)
(* invariant needs no more of it.                                          *)
MemoryMoved(r, P) ==
    /\ Witness(P)
    /\ r \in State /\ memCurr <= r.memCurr
    /\ \E Q : P \subseteq Q /\ Sound(r, Dirs, Q, ThreadStacks)
    /\ \A f \in P \cup ThreadStacks \cup {PGDIR}, i \in Entries \ {0} : r.mem[f][i] = mem[f][i]
    /\ r.mem[PGDIR] = mem[PGDIR]
    /\ \A d \in Dirs, va \in User :
          \/ find_pte(r.mem, va, d) = find_pte(mem, va, d)
          \/ /\ find_pte(mem, va, d) = 0
             /\ \A n \in 0..(PGDIR - FREEMEM - 1) : va # USER_STACK_ADDR - 1 - n
    /\ mem' = r.mem /\ memCurr' = r.memCurr
    /\ UNCHANGED <<pid, type, pgdir, kernel_sp, user_sp, num_thread>>

LEMMA MovedKeeps ==
  ASSUME PgInv, NEW r, NEW P, MemoryMoved(r, P)
  PROVE  PgInv'
<1>1. /\ PagingTypeOK /\ Started /\ KernelStacks /\ UserStacks
      /\ memCurr \in Nat /\ PGDIR \in Nat /\ FREEMEM \in Nat /\ FREEMEM <= memCurr
  BY MemoryNow DEF PgInv
<1>2. /\ mem' = r.mem /\ memCurr' = r.memCurr /\ Witness(P) /\ r \in State /\ memCurr <= memCurr'
      /\ pid' = pid /\ type' = type /\ pgdir' = pgdir /\ kernel_sp' = kernel_sp
      /\ user_sp' = user_sp /\ num_thread' = num_thread /\ \A t \in Slot : (Runs(t))' = Runs(t)
      /\ Dirs' = Dirs /\ ThreadStacks' = ThreadStacks
  BY DEF MemoryMoved, Runs, Dirs, ThreadStacks
<1>3. memCurr' \in FREEMEM..(PGDIR - 1) /\ memCurr' \in Nat /\ mem' \in [Frame -> [Entries -> Nat]]
  BY <1>1, <1>2 DEF State, Memory
<1>4. PICK Q : P \subseteq Q /\ Sound(r, Dirs, Q, ThreadStacks)
  BY DEF MemoryMoved
<1>5. PagingTypeOK'
  <2>1. (FREEMEM + 1)..memCurr \subseteq (FREEMEM + 1)..memCurr'
    BY ONLY <1>1, <1>2, <1>3
  <2>2. /\ pgdir' \in [Slot -> {0} \cup (FREEMEM + 1)..memCurr']
        /\ kernel_sp' \in [Slot -> {0} \cup (FREEMEM + 1)..memCurr']
    BY <1>1, <1>2, <2>1 DEF PagingTypeOK
  <2> QED  BY <1>1, <1>2, <1>3, <2>2 DEF PagingTypeOK, Entries
<1>6. Started'
  BY <1>1, <1>2 DEF Started, MemoryMoved
<1>7. Levels'
  <2>1. (Now').mem = r.mem /\ (Now').memCurr = r.memCurr
    BY <1>2 DEF Now
  <2>2. Sound(Now', Dirs', Q, ThreadStacks')
    BY <1>2, <1>4, <2>1, Forget
  <2> QED  BY <1>2, <1>4, <2>2 DEF Levels, Witness
<1>8. KernelStacks'
  <2>1. ASSUME NEW t \in Slot, Runs(t)
        PROVE  mem'[kernel_sp[t]][BASE - 1] = mem[kernel_sp[t]][BASE - 1]
    <3>1. kernel_sp[t] \in P \cup ThreadStacks
      BY <1>2, <2>1, TaskPages
    <3>2. BASE - 1 \in Entries \ {0}
      BY PagingAssumption DEF Entries
    <3> QED  BY <3>1, <3>2, <1>2 DEF MemoryMoved
  <2> QED  BY <1>1, <1>2, <2>1 DEF KernelStacks
<1>9. UserStacks'
  <2>1. \A t \in Slot : num_thread'[t] <= memCurr' - FREEMEM
    <3> SUFFICES ASSUME NEW t \in Slot PROVE num_thread'[t] <= memCurr' - FREEMEM
      OBVIOUS
    <3>1. num_thread[t] \in Nat /\ num_thread[t] <= memCurr - FREEMEM /\ num_thread'[t] = num_thread[t]
      BY <1>1, <1>2 DEF UserStacks, PagingTypeOK
    <3> QED  BY ONLY <3>1, <1>1, <1>2, <1>3
  <2>2. ASSUME NEW t \in Slot, Runs(t)
        PROVE  find_pte(mem', user_sp[t] - 1, pgdir[t]) # 0
    <3>1. pgdir[t] \in Dirs /\ user_sp[t] - 1 \in User
      BY <1>2, <2>2, TaskPages
    <3> QED  BY <3>1, <2>2, <1>1, <1>2 DEF UserStacks, MemoryMoved
  <2>3. ASSUME NEW t \in Slot, Runs(t), type[t] = "USER_PROCESS",
               NEW n \in (num_thread[t] + 1)..(PGDIR - FREEMEM - 1)
        PROVE  find_pte(mem', USER_STACK_ADDR - 1 - n, pgdir[t]) = 0
    <3>1. pgdir[t] \in Dirs
      BY <1>2, <2>3, TaskPages
    <3>2. n \in 0..(PGDIR - FREEMEM - 1)
      <4>1. num_thread[t] \in Nat
        BY <1>1 DEF PagingTypeOK
      <4> QED  BY ONLY <4>1, <1>1, n \in (num_thread[t] + 1)..(PGDIR - FREEMEM - 1)
    <3>3. USER_STACK_ADDR - 1 - n \in User
      BY <3>2, Layout
    <3>4. find_pte(mem, USER_STACK_ADDR - 1 - n, pgdir[t]) = 0
      BY <2>3, <1>1 DEF UserStacks
    <3> HIDE DEF Dirs
    <3> QED  BY <3>1, <3>2, <3>3, <3>4, <1>2 DEF MemoryMoved
  <2> QED  BY <1>1, <1>2, <2>1, <2>2, <2>3 DEF UserStacks
<1> QED  BY <1>5, <1>6, <1>7, <1>8, <1>9 DEF PgInv

(* A page fault maps the page.                                             *)
FaultMapped(t, va, r, P) ==
    /\ Witness(P) /\ va \in User /\ find_pte(mem, va, pgdir[t]) = 0
    /\ PageMapped(Now, r, Dirs, P, ThreadStacks, pgdir[t], va)
    /\ Become(r)

LEMMA FaultMaps ==
  ASSUME PgInv, NEW t \in Slot, NEW va \in Touched, handle_ldst_pagefault(t, va)
  PROVE  /\ \E r, P : FaultMapped(t, va, r, P)
         /\ PgInv'
<1> DEFINE r == alloc_page_helper(Now, va, pgdir[t])
<1>1. PICK P : Witness(P)
  BY DEF PgInv, Levels, Witness
<1>2. /\ Now \in State /\ Now.mem = mem /\ Now.memCurr = memCurr /\ Sound(Now, Dirs, P, ThreadStacks)
      /\ memCurr \in Nat /\ PGDIR \in Nat /\ FREEMEM \in Nat
  BY <1>1, MemoryNow DEF PgInv, Witness
<1>3. /\ Runs(t) /\ Room(3) /\ find_pte(mem, va, pgdir[t]) = 0 /\ Become(r)
      /\ UNCHANGED <<pid, type, pgdir, kernel_sp, user_sp, num_thread>>
  BY DEF handle_ldst_pagefault
<1>4. va \in User /\ \A n \in 0..(PGDIR - FREEMEM - 1) : va # USER_STACK_ADDR - 1 - n
  <2>1. va \in User
    BY PagingAssumption
  <2> QED  BY <2>1, Layout
<1>5. pgdir[t] \in Dirs
  BY <1>1, <1>3, TaskPages
<1>6. PageMapped(Now, r, Dirs, P, ThreadStacks, pgdir[t], va)
  <2>1. r = alloc_page_helper(Now, va, pgdir[t]) /\ Now.memCurr + 3 < PGDIR
        /\ find_pte(Now.mem, va, pgdir[t]) = 0
    BY <1>2, <1>3 DEF Room
  <2> HIDE DEF r
  <2> QED  BY <2>1, <1>2, <1>4, <1>5, HelperSound
<1> HIDE DEF r
<1>7. FaultMapped(t, va, r, P)
  BY <1>1, <1>3, <1>4, <1>6 DEF FaultMapped
<1>8. MemoryMoved(r, P)
  <2>1. /\ r \in State /\ memCurr <= r.memCurr
        /\ SamePages(Now, r, P \cup ThreadStacks \cup {PGDIR})
        /\ OtherWalks(Now, r, Dirs, pgdir[t], va)
        /\ Sound(r, Dirs, P \cup {r.kva}, ThreadStacks)
    BY <1>2, <1>6 DEF PageMapped, Grew
  <2>2. \A d \in Dirs, v \in User :
          \/ find_pte(r.mem, v, d) = find_pte(mem, v, d)
          \/ /\ find_pte(mem, v, d) = 0
             /\ \A n \in 0..(PGDIR - FREEMEM - 1) : v # USER_STACK_ADDR - 1 - n
    BY <2>1, <1>2, <1>3, <1>4 DEF OtherWalks
  <2>3. \E Q : P \subseteq Q /\ Sound(r, Dirs, Q, ThreadStacks)
    BY <2>1
  <2> QED  BY <2>1, <2>2, <2>3, <1>1, <1>2, <1>3 DEF MemoryMoved, SamePages, Become
<1> QED  BY <1>7, <1>8, MovedKeeps

(* A store reaches one word of one page.                                   *)
Stored(t, va, w, r, P) ==
    /\ Witness(P) /\ va \in User /\ find_pte(mem, va, pgdir[t]) # 0
    /\ WordPut(Now, r, Dirs, P, ThreadStacks, find_pte(mem, va, pgdir[t]), 0, w)
    /\ Become(r)

LEMMA StoreWrites ==
  ASSUME PgInv, NEW t \in Slot, NEW w \in Values, NEW va \in Touched \cup {user_sp[t] - 1},
         Store(t, va, w)
  PROVE  /\ \E r, P : Stored(t, va, w, r, P)
         /\ PgInv'
<1> DEFINE f == find_pte(mem, va, pgdir[t])
           r == Write(Now, f, 0, w)
<1>1. PICK P : Witness(P)
  BY DEF PgInv, Levels, Witness
<1>2. /\ Now \in State /\ Now.mem = mem /\ Now.memCurr = memCurr /\ Sound(Now, Dirs, P, ThreadStacks)
      /\ memCurr \in Nat
  BY <1>1, MemoryNow DEF PgInv, Witness
<1>3. /\ Runs(t) /\ f # 0 /\ Become(r)
      /\ UNCHANGED <<pid, type, pgdir, kernel_sp, user_sp, num_thread>>
  BY DEF Store
<1>4. pgdir[t] \in Dirs /\ va \in User /\ w \in Nat
  BY <1>1, <1>3, TaskPages, PagingAssumption
<1>5. f \in P
  <2>1. find_pte(Now.mem, va, pgdir[t]) # 0
    BY <1>2, <1>3
  <2>2. find_pte(Now.mem, va, pgdir[t]) \in P
    BY <2>1, <1>2, <1>4, WalkEnds
  <2> QED  BY <2>2, <1>2
<1>6. r = Write(Now, f, 0, w)
  OBVIOUS
<1>9. Stored(t, va, w, r, P) <=> WordPut(Now, r, Dirs, P, ThreadStacks, f, 0, w)
  BY <1>1, <1>3, <1>4 DEF Stored
<1> HIDE DEF f, r
<1>7. WordPut(Now, r, Dirs, P, ThreadStacks, f, 0, w)
  <2>1. 0 \in Entries /\ f \in P \cup ThreadStacks
    BY <1>5, Pool
  <2> QED  BY <2>1, <1>2, <1>4, <1>6, WordWritten
<1>8. MemoryMoved(r, P)
  <2>1. /\ r \in State /\ memCurr <= r.memCurr
        /\ Sound(r, Dirs, P, ThreadStacks) /\ SameWalks(Now, r, Dirs)
        /\ SamePages(Now, r, Frame \ {f})
        /\ \A j \in Entries \ {0} : r.mem[f][j] = mem[f][j]
    BY <1>2, <1>7 DEF WordPut, Grew
  <2>2. P \cup ThreadStacks \subseteq Frame \ {PGDIR} /\ PGDIR \in Frame
    BY <1>2, InUse, Pool
  <2>3. \A g \in P \cup ThreadStacks \cup {PGDIR}, i \in Entries \ {0} : r.mem[g][i] = mem[g][i]
    BY <2>1, <2>2, <1>2 DEF SamePages
  <2>4. r.mem[PGDIR] = mem[PGDIR]
    BY <2>1, <2>2, <1>2, <1>5 DEF SamePages
  <2>5. \A d \in Dirs, v \in User : find_pte(r.mem, v, d) = find_pte(mem, v, d)
    BY <2>1, <1>2 DEF SameWalks
  <2> QED  BY <2>1, <2>3, <2>4, <2>5, <1>1, <1>3 DEF MemoryMoved, Become
<1> QED  BY <1>7, <1>8, <1>9, MovedKeeps

-----------------------------------------------------------------------------
(* The initial states, and every step.                                     *)

LEMMA PgInit ==
  ASSUME Init
  PROVE  PgInv
<1>1. /\ memCurr = FREEMEM /\ pid = [i \in Slot |-> 0] /\ type = [i \in Slot |-> "USER_PROCESS"]
      /\ pgdir = [i \in Slot |-> 0] /\ kernel_sp = [i \in Slot |-> 0]
      /\ user_sp = [i \in Slot |-> 0] /\ num_thread = [i \in Slot |-> 0]
      /\ mem = [f \in Frame |-> IF f = PGDIR THEN [Cleared EXCEPT ![KernelTop] = PGDIR + 1]
                                ELSE [i \in 0..(BASE - 1) |-> GARBAGE]]
  BY DEF Init
<1>2. /\ mem \in [Frame -> [Entries -> Nat]] /\ mem[PGDIR] = [Cleared EXCEPT ![KernelTop] = PGDIR + 1]
  <2>1. GARBAGE \in Nat /\ PGDIR + 1 \in Nat
    BY PagingAssumption, Pool
  <2>2. [Cleared EXCEPT ![KernelTop] = PGDIR + 1] \in [Entries -> Nat]
    BY <2>1, Pool
  <2>3. [i \in 0..(BASE - 1) |-> GARBAGE] \in [Entries -> Nat]
    BY <2>1 DEF Entries
  <2> QED  BY <1>1, <2>2, <2>3, Pool
<1>3. PagingTypeOK
  <2>1. memCurr \in FREEMEM..(PGDIR - 1)
    BY <1>1, PagingAssumption
  <2> QED  BY <2>1, <1>1, <1>2 DEF PagingTypeOK, Entries
<1>4. \A t \in Slot : ~ Runs(t)
  BY <1>1 DEF Runs
<1>5. Started
  <2>1. \A j \in UserTop : mem[PGDIR][j] = 0
    <3> SUFFICES ASSUME NEW j \in UserTop PROVE mem[PGDIR][j] = 0
      OBVIOUS
    <3>1. j # KernelTop /\ j \in Entries
      BY HalfTop DEF UserTop
    <3> QED  BY <3>1, <1>2, Pool
  <2> QED  BY <2>1, <1>1, <1>4 DEF Started
<1>6. Levels
  <2>1. Dirs = {} /\ ThreadStacks = {}
    BY <1>1, <1>4 DEF Dirs, ThreadStacks
  <2>2. Tree(Now, {}, {}, {}, {}, {})
    BY DEF Tree
  <2>3. Sound(Now, Dirs, {}, ThreadStacks)
    BY <2>1, <2>2 DEF Sound
  <2> QED  BY <2>3, <1>4 DEF Levels
<1>7. KernelStacks
  BY <1>4 DEF KernelStacks
<1>8. UserStacks
  <2>1. memCurr - FREEMEM = 0
    BY <1>1, PagingAssumption
  <2> QED  BY <2>1, <1>1, <1>4 DEF UserStacks
<1> QED  BY <1>3, <1>5, <1>6, <1>7, <1>8 DEF PgInv

(* Init_shell and do_exec are the two ways to start a process.             *)
LEMMA ShellSteps ==
  ASSUME PgInv, NEW image \in Images, init_shell(image)
  PROVE  \E i \in Slot : \E r, dir, ker, P : MadeProcess(i, image, r, dir, ker, P)
<1>1. 0 \in Slot /\ 0 \in Nat /\ Process(0, image, 0)
  BY PagingAssumption DEF init_shell
<1> QED  BY <1>1, ProcessMakes

LEMMA ExecSteps ==
  ASSUME PgInv, NEW image \in Images, NEW arg \in Args, do_exec(image, arg)
  PROVE  \E i \in Slot : \E r, dir, ker, P : MadeProcess(i, image, r, dir, ker, P)
<1>1. PICK i \in Slot : Process(i, image, arg)
  BY DEF do_exec
<1>2. arg \in Nat
  BY PagingAssumption
<1> QED  BY <1>1, <1>2, ProcessMakes

(* What a step does, for the proofs about steps.                           *)
PgStep ==
    \/ \E i \in Slot, image \in Images : \E r, dir, ker, P : MadeProcess(i, image, r, dir, ker, P)
    \/ \E t, i \in Slot : \E r, ker, P : MadeThread(t, i, r, ker, P)
    \/ \E t \in Slot : EndTask(t)
    \/ \E t \in Slot, va \in Touched : \E r, P :
          Runs(t) /\ FaultMapped(t, va, r, P) /\ UNCHANGED <<pid, type, pgdir, kernel_sp, user_sp, num_thread>>
    \/ \E t \in Slot, w \in Values : \E va, r, P :
          Runs(t) /\ Stored(t, va, w, r, P) /\ UNCHANGED <<pid, type, pgdir, kernel_sp, user_sp, num_thread>>

LEMMA Steps ==
  ASSUME PgInv, Next
  PROVE  PgStep /\ PgInv'
<1>1. CASE \E image \in Images : init_shell(image)
  BY <1>1, ShellSteps, ProcessKeeps DEF PgStep
<1>2. CASE \E image \in Images, arg \in Args : do_exec(image, arg)
  BY <1>2, ExecSteps, ProcessKeeps DEF PgStep
<1>3. CASE \E t \in Slot : do_mthread_create(t)
  BY <1>3, ThreadMakes, ThreadKeeps DEF PgStep
<1>4. CASE \E t \in Slot : EndTask(t)
  BY <1>4, EndKeeps DEF PgStep
<1>5. CASE \E t \in Slot, va \in Touched : handle_ldst_pagefault(t, va)
  <2>1. PICK t \in Slot, va \in Touched : handle_ldst_pagefault(t, va)
    BY <1>5
  <2>2. Runs(t) /\ UNCHANGED <<pid, type, pgdir, kernel_sp, user_sp, num_thread>>
    BY <2>1 DEF handle_ldst_pagefault
  <2>3. PgInv' /\ \E r, P : FaultMapped(t, va, r, P)
    BY <2>1, FaultMaps
  <2> QED  BY <2>2, <2>3 DEF PgStep
<1>6. CASE \E t \in Slot, w \in Values : \E va \in Touched \cup {user_sp[t] - 1} : Store(t, va, w)
  <2>4. PICK t \in Slot : \E w \in Values : \E va \in Touched \cup {user_sp[t] - 1} : Store(t, va, w)
    BY <1>6
  <2>1. PICK w \in Values : \E va \in Touched \cup {user_sp[t] - 1} : Store(t, va, w)
    BY <2>4
  <2>5. PICK va \in Touched \cup {user_sp[t] - 1} : Store(t, va, w)
    BY <2>1
  <2>2. Runs(t) /\ UNCHANGED <<pid, type, pgdir, kernel_sp, user_sp, num_thread>>
    BY <2>5 DEF Store
  <2>3. PgInv' /\ \E r, P : Stored(t, va, w, r, P)
    BY <2>5, StoreWrites
  <2> QED  BY <2>2, <2>3 DEF PgStep
<1> QED  BY <1>1, <1>2, <1>3, <1>4, <1>5, <1>6 DEF Next

(* A step that changes nothing.                                            *)
LEMMA PgStutter ==
  ASSUME PgInv, UNCHANGED vars
  PROVE  PgInv'
<1>1. /\ memCurr' = memCurr /\ mem' = mem /\ pid' = pid /\ type' = type /\ pgdir' = pgdir
      /\ kernel_sp' = kernel_sp /\ user_sp' = user_sp /\ num_thread' = num_thread
  BY DEF vars
<1>2. Dirs' = Dirs /\ ThreadStacks' = ThreadStacks /\ Now' = Now /\ \A u \in Slot : (Runs(u))' = Runs(u)
  BY <1>1 DEF ThreadStacks, Dirs, Now, Runs
<1>3. Levels'
  <2>1. PICK P : Witness(P)
    BY DEF PgInv, Levels, Witness
  <2>2. Sound(Now', Dirs', P, ThreadStacks')
    BY <1>2, <2>1 DEF Witness
  <2>3. \A u \in Slot : (Runs(u))' /\ type'[u] = "USER_PROCESS" => kernel_sp'[u] \in P
    BY <1>1, <1>2, <2>1 DEF Witness
  <2> QED  BY <2>2, <2>3 DEF Levels
<1>4. PagingTypeOK' /\ Started'
  BY <1>1 DEF PgInv, PagingTypeOK, Started, Runs
<1>5. KernelStacks'
  BY <1>1 DEF PgInv, KernelStacks, Runs
<1>6. UserStacks'
  BY <1>1 DEF PgInv, UserStacks, Runs
<1> QED  BY <1>3, <1>4, <1>5, <1>6 DEF PgInv

(* The invariant holds in every state.                                     *)
THEOREM PagingInvariant == Spec => []PgInv
<1>1. Init => PgInv
  BY PgInit
<1>2. PgInv /\ [Next]_vars => PgInv'
  BY Steps, PgStutter
<1> QED  BY <1>1, <1>2, PTL DEF Spec

(* Every slot is free or has its own pid, and stacks and tables are pages  *)
(* of the pool: init_shell, do_exec, do_mthread_create.                    *)
THEOREM PagesTyped == Spec => []PagingTypeOK
<1>1. PgInv => PagingTypeOK
  BY DEF PgInv
<1> QED  BY <1>1, PagingInvariant, PTL

(* The tasks of a space have stack pages of their own, mapped, and find    *)
(* their context on the kernel stack: do_mthread_create, init_pcb_stack.   *)
THEOREM StacksAlwaysApart == Spec => []StacksApart
<1>1. PgInv => StacksApart
  BY DEF PgInv, KernelStacks, UserStacks, StacksApart
<1> QED  BY <1>1, PagingInvariant, PTL

-----------------------------------------------------------------------------
(* No page serves two purposes.                                            *)

(* Uses of pages that differ are as many as the pages.                     *)
LEMMA OneForOne ==
  ASSUME NEW U, NEW a \in Int, NEW b \in Int, \A u \in U : u[2] \in a..b,
         \A u, v \in U : u[2] = v[2] => u = v
  PROVE  Cardinality({u[2] : u \in U}) = Cardinality(U)
<1> DEFINE T == {u[2] : u \in U}
           f == [x \in T |-> CHOOSE u \in U : u[2] = x]
<1>1. IsFiniteSet(T)
  <2>1. T \subseteq a..b
    OBVIOUS
  <2> HIDE DEF T
  <2> QED  BY <2>1, FS_Interval, FS_Subset
<1>2. \A x \in T : f[x] \in U /\ f[x][2] = x
  OBVIOUS
<1>3. f \in [T -> U]
  <2> HIDE DEF T
  <2> QED  BY <1>2
<1>4. \A u \in U : u[2] \in T /\ f[u[2]] = u
  <2> SUFFICES ASSUME NEW u \in U PROVE u[2] \in T /\ f[u[2]] = u
    OBVIOUS
  <2>1. u[2] \in T
    OBVIOUS
  <2> HIDE DEF T, f
  <2>2. f[u[2]] \in U /\ f[u[2]][2] = u[2]
    BY <1>2, <2>1
  <2> QED  BY <2>1, <2>2
<1>5. f \in Bijection(T, U)
  <2> HIDE DEF T, f
  <2>1. IsInjective(f)
    BY <1>2, <1>3 DEF IsInjective
  <2>2. \A u \in U : \E x \in T : f[x] = u
    BY <1>4
  <2> QED  BY <2>1, <2>2, <1>3 DEF Bijection, Injection, Surjection
<1> HIDE DEF T, f
<1>6. Cardinality(U) = Cardinality(T)
  BY <1>1, <1>5, FS_Bijection DEF ExistsBijection
<1> QED  BY <1>6 DEF T

(* A page in use has the purpose of its level, and within a level an entry  *)
(* that points to it.                                                      *)
LEMMA UsesApart ==
  ASSUME PgInv
  PROVE  FramesUsedOnce
<1>1. PICK P : Witness(P)
  BY DEF PgInv, Levels, Witness
<1>2. /\ Now.mem = mem /\ Now.memCurr = memCurr /\ Sound(Now, Dirs, P, ThreadStacks)
      /\ memCurr \in Nat /\ FREEMEM \in Nat
  BY <1>1, MemoryNow DEF PgInv, Witness
<1>3. PICK A, B \in SUBSET Frame : Tree(Now, Dirs, A, B, P, ThreadStacks)
  BY <1>2 DEF Sound
<1> DEFINE U1 == {<<<<"directory", d>>, d>> : d \in Dirs}
           U2 == {<<<<"first", u>>, mem[u[1]][u[2]]>> : u \in Tables1}
           U3 == {<<<<"second", u>>, mem[mem[u[1]][u[2]]][u[3]]>> : u \in Tables0}
           U4 == {<<<<"page", u>>, find_pte(mem, u[2], u[1])>> : u \in Mapped}
           U5 == {<<<<"thread", t>>, kernel_sp[t]>> :
                     t \in {u \in Slot : Runs(u) /\ type[u] = "USER_THREAD"}}
<1>4. /\ \A u \in U1 : u[2] \in Dirs
      /\ \A u, v \in U1 : u[2] = v[2] => u = v
  OBVIOUS
<1>5. /\ \A u \in U2 : u[2] \in A
      /\ \A u, v \in U2 : u[2] = v[2] => u = v
  <2>1. \A w \in Tables1 : /\ w[1] \in Dirs /\ w[2] \in UserTop /\ w = <<w[1], w[2]>>
                           /\ mem[w[1]][w[2]] # 0 /\ mem[w[1]][w[2]] \in A
    BY <1>2, <1>3 DEF Tables1, Tree
  <2>2. \A w, z \in Tables1 : mem[w[1]][w[2]] = mem[z[1]][z[2]] => w = z
    <3>1. \A d, e \in Dirs, i, j \in UserTop :
            mem[d][i] # 0 /\ mem[d][i] = mem[e][j] => d = e /\ i = j
      BY <1>2, <1>3 DEF Tree
    <3> QED  BY <2>1, <3>1
  <2> QED  BY <2>1, <2>2
<1>6. /\ \A u \in U3 : u[2] \in B
      /\ \A u, v \in U3 : u[2] = v[2] => u = v
  <2> DEFINE first(w) == mem[w[1]][w[2]]
  <2>1. \A w \in Tables0 : /\ w[1] \in Dirs /\ w[2] \in UserTop /\ w[3] \in Entries
                           /\ w = <<w[1], w[2], w[3]>>
                           /\ first(w) # 0 /\ mem[first(w)][w[3]] # 0 /\ first(w) \in A
    BY <1>2, <1>3 DEF Tables0, Tree
  <2>2. \A w \in Tables0 : mem[first(w)][w[3]] \in B
    <3>1. \A f \in A, i \in Entries : mem[f][i] # 0 => mem[f][i] \in B
      BY <1>2, <1>3 DEF Tree
    <3> QED  BY <2>1, <3>1
  <2>3. \A w, z \in Tables0 : mem[first(w)][w[3]] = mem[first(z)][z[3]] => w = z
    <3> SUFFICES ASSUME NEW w \in Tables0, NEW z \in Tables0, mem[first(w)][w[3]] = mem[first(z)][z[3]]
                 PROVE  w = z
      OBVIOUS
    <3>1. \A d, e \in Dirs, i, j \in UserTop :
            mem[d][i] # 0 /\ mem[d][i] = mem[e][j] => d = e /\ i = j
      BY <1>2, <1>3 DEF Tree
    <3>2. \A d, e \in A, i, j \in Entries :
            mem[d][i] # 0 /\ mem[d][i] = mem[e][j] => d = e /\ i = j
      BY <1>2, <1>3 DEF Tree
    <3>3. first(w) = first(z) /\ w[3] = z[3]
      <4> HIDE DEF first
      <4> QED  BY <2>1, <3>2
    <3>4. w[1] = z[1] /\ w[2] = z[2]
      BY <2>1, <3>1, <3>3
    <3> QED  BY <2>1, <3>3, <3>4
  <2> QED  BY <2>2, <2>3
<1>7. /\ \A u \in U4 : u[2] \in P
      /\ \A u, v \in U4 : u[2] = v[2] => u = v
  <2>1. \A w \in Mapped : /\ w[1] \in Dirs /\ w[2] \in User /\ w = <<w[1], w[2]>>
                          /\ find_pte(Now.mem, w[2], w[1]) # 0
                          /\ find_pte(Now.mem, w[2], w[1]) = find_pte(mem, w[2], w[1])
    BY <1>2 DEF Mapped
  <2>2. \A w \in Mapped : find_pte(mem, w[2], w[1]) \in P
    <3> SUFFICES ASSUME NEW w \in Mapped PROVE find_pte(mem, w[2], w[1]) \in P
      OBVIOUS
    <3>1. find_pte(Now.mem, w[2], w[1]) \in P
      BY <1>2, <2>1, WalkEnds
    <3> QED  BY <2>1, <3>1
  <2>3. \A w, z \in Mapped : find_pte(mem, w[2], w[1]) = find_pte(mem, z[2], z[1]) => w = z
    <3> SUFFICES ASSUME NEW w \in Mapped, NEW z \in Mapped,
                        find_pte(mem, w[2], w[1]) = find_pte(mem, z[2], z[1])
                 PROVE  w = z
      OBVIOUS
    <3>1. find_pte(Now.mem, w[2], w[1]) = find_pte(Now.mem, z[2], z[1])
      BY <1>2
    <3>2. w[1] = z[1] /\ w[2] = z[2]
      BY <1>2, <2>1, <3>1, WalksApart
    <3> QED  BY <2>1, <3>2
  <2> QED  BY <2>2, <2>3
<1>8. /\ \A u \in U5 : u[2] \in ThreadStacks
      /\ \A u, v \in U5 : u[2] = v[2] => u = v
  BY DEF ThreadStacks, PgInv, KernelStacks
<1>9. Uses = U1 \cup U2 \cup U3 \cup U4 \cup U5
  BY DEF Uses
<1>10. /\ Dirs \cup A \cup B \cup P \cup ThreadStacks \subseteq (FREEMEM + 1)..memCurr
       /\ Dirs \cap (A \cup B \cup P \cup ThreadStacks) = {}
       /\ A \cap (B \cup P \cup ThreadStacks) = {}
       /\ B \cap (P \cup ThreadStacks) = {} /\ P \cap ThreadStacks = {}
  BY <1>2, <1>3 DEF Tree
<1> HIDE DEF U1, U2, U3, U4, U5
<1>11. \A u \in Uses : u[2] \in (FREEMEM + 1)..memCurr
  BY <1>4, <1>5, <1>6, <1>7, <1>8, <1>9, <1>10
<1>12. \A u, v \in Uses : u[2] = v[2] => u = v
  <2> SUFFICES ASSUME NEW u \in Uses, NEW v \in Uses, u[2] = v[2] PROVE u = v
    OBVIOUS
  <2> QED  BY <1>4, <1>5, <1>6, <1>7, <1>8, <1>9, <1>10
<1>13. Cardinality({u[2] : u \in Uses}) = Cardinality(Uses)
  <2>1. FREEMEM + 1 \in Int /\ memCurr \in Int
    BY <1>2
  <2> QED  BY <2>1, <1>11, <1>12, OneForOne
<1> QED  BY <1>11, <1>13 DEF FramesUsedOnce

(* No page serves two purposes, whatever processes, threads, faults and    *)
(* stores come and go: allocPage, alloc_page_helper, share_pgtable and     *)
(* do_mthread_create.                                                      *)
THEOREM PagesUsedOnce == Spec => []FramesUsedOnce
<1>1. PgInv => FramesUsedOnce
  BY UsesApart
<1> QED  BY <1>1, PagingInvariant, PTL

-----------------------------------------------------------------------------
(* The tables implement separate address spaces.                           *)

(* What a space holds for a page.                                          *)
Word(m, va, d) == LET f == find_pte(m, va, d) IN IF f = 0 THEN -1 ELSE m[f][0]

LEMMA SpaceWords ==
  /\ \A d : SpaceOf(d) = [va \in User |-> Word(mem, va, d)]
  /\ \A d : (SpaceOf(d))' = [va \in User |-> Word(mem', va, d)]
  /\ Spaces!Used = Dirs
  /\ (Spaces!Used)' = Dirs'
BY DEF SpaceOf, Word, Spaces!Used, Dirs

(* A space that changes in one page.                                       *)
LEMMA OnePage ==
  ASSUME NEW d \in Dirs, d \in Dirs', NEW va \in User,
         Word(mem, va, d) # Word(mem', va, d), Word(mem', va, d) # -1,
         \A v \in User \ {va} : Word(mem', v, d) = Word(mem, v, d)
  PROVE  /\ Spaces!OneChanges(d, FALSE)
         /\ Word(mem, va, d) = -1 => Spaces!OneChanges(d, TRUE)
<1> DEFINE before == SpaceOf(d)
           after == [v \in User |-> Word(mem', v, d)]
<1>1. /\ before = [v \in User |-> Word(mem, v, d)]
      /\ [e \in Dirs |-> SpaceOf(e)][d] = before
      /\ ([e \in Dirs |-> SpaceOf(e)])'[d] = after
  BY SpaceWords
<1>2. /\ after[va] \notin {before[va], -1}
      /\ \A other \in User \ {va} : after[other] = before[other]
      /\ before[va] = Word(mem, va, d)
  BY <1>1
<1> HIDE DEF before, after
<1> QED  BY <1>1, <1>2 DEF Spaces!OneChanges

(* Spaces nothing happened to.                                             *)
LEMMA KeptSpaces ==
  ASSUME NEW d, Dirs' \ {d} \subseteq Dirs,
         \A e \in Dirs' \ {d}, va \in User : Word(mem', va, e) = Word(mem, va, e)
  PROVE  Spaces!OthersKept(d)
<1> DEFINE g == [e \in Dirs |-> SpaceOf(e)]
           h == ([e \in Dirs |-> SpaceOf(e)])'
<1>1. h = [e \in Dirs' |-> (SpaceOf(e))']
  OBVIOUS
<1>2. ASSUME NEW e \in Dirs' \ {d} PROVE e \in Dirs /\ h[e] = g[e]
  <2>1. e \in Dirs /\ h[e] = (SpaceOf(e))' /\ g[e] = SpaceOf(e)
    BY <1>1
  <2>2. (SpaceOf(e))' = SpaceOf(e)
    <3>1. \A va \in User : Word(mem', va, e) = Word(mem, va, e)
      OBVIOUS
    <3>2. (SpaceOf(e))' = [va \in User |-> Word(mem', va, e)] /\ SpaceOf(e) = [va \in User |-> Word(mem, va, e)]
      BY SpaceWords
    <3> QED  BY <3>1, <3>2
  <2> QED  BY <2>1, <2>2
<1>3. DOMAIN h = Dirs'
  BY <1>1
<1> HIDE DEF g, h
<1> QED  BY <1>2, <1>3, SpaceWords DEF Spaces!OthersKept, g, h

(* Words of pages that neither moved nor changed.                          *)
LEMMA SameWord ==
  ASSUME NEW P, Witness(P), Now.mem = mem, NEW d \in Dirs, NEW va \in User, NEW m,
         find_pte(m, va, d) = find_pte(mem, va, d),
         \A f \in P : m[f][0] = mem[f][0]
  PROVE  Word(m, va, d) = Word(mem, va, d)
<1>1. CASE find_pte(mem, va, d) = 0
  BY <1>1 DEF Word
<1>2. CASE find_pte(mem, va, d) # 0
  <2>1. Sound(Now, Dirs, P, ThreadStacks) /\ find_pte(Now.mem, va, d) # 0
    BY <1>2 DEF Witness
  <2>2. find_pte(Now.mem, va, d) \in P
    BY <2>1, WalkEnds
  <2> QED  BY <2>2 DEF Word
<1> QED  BY <1>1, <1>2

(* A page that is present holds a word, not the mark of absence.           *)
LEMMA PresentWord ==
  ASSUME NEW r \in State, NEW D, NEW P, NEW K, Sound(r, D, P, K), NEW d \in D, NEW va \in User,
         find_pte(r.mem, va, d) # 0
  PROVE  Word(r.mem, va, d) \in Nat
<1>1. find_pte(r.mem, va, d) \in Frame
  BY WalkEnds, InUse
<1>2. 0 \in Entries /\ r.mem \in Memory
  BY Pool DEF State
<1> QED  BY <1>1, <1>2 DEF Word, Memory

LEMMA StartStep ==
  ASSUME PgInv, NEW i \in Slot, NEW image \in Images, NEW r, NEW dir, NEW ker, NEW P,
         MadeProcess(i, image, r, dir, ker, P)
  PROVE  Spaces!Start(i, image)
<1>1. /\ mem' = r.mem /\ Witness(P) /\ pgdir' = [pgdir EXCEPT ![i] = dir]
      /\ dir = Now.memCurr + 1
      /\ SamePages(Now, r, P \cup ThreadStacks \cup {PGDIR})
      /\ SameWalks(Now, r, Dirs)
      /\ \A k \in 1..Len(image) :
          /\ find_pte(r.mem, ENTRY + k - 1, dir) # 0
          /\ r.mem[find_pte(r.mem, ENTRY + k - 1, dir)][0] = image[k]
  BY DEF MadeProcess, Built
<1>2. /\ PagingTypeOK /\ Now.mem = mem /\ Now.memCurr = memCurr /\ memCurr \in Nat /\ FREEMEM \in Nat
  BY MemoryNow DEF PgInv
<1>3. pgdir'[i] = dir /\ \A t \in Slot \ {i} : pgdir'[t] = pgdir[t]
  BY <1>1, <1>2 DEF PagingTypeOK
<1>4. dir # 0 /\ dir \notin Dirs
  <2>1. \A d \in Dirs : d \in Nat /\ d <= memCurr
    BY <1>2 DEF PagingTypeOK, Dirs
  <2> QED  BY <2>1, <1>1, <1>2
<1>5. dir \in Dirs' /\ Dirs' \ {dir} \subseteq Dirs
  BY <1>3, <1>4 DEF Dirs
<1>6. Spaces!OthersKept(dir)
  <2> SUFFICES ASSUME NEW e \in Dirs' \ {dir}, NEW va \in User
               PROVE  Word(mem', va, e) = Word(mem, va, e)
    BY <1>5, KeptSpaces
  <2>1. e \in Dirs
    BY <1>5
  <2>2. find_pte(mem', va, e) = find_pte(mem, va, e)
    BY <2>1, <1>1, <1>2 DEF SameWalks
  <2>3. \A f \in P : mem'[f][0] = mem[f][0]
    BY <1>1, <1>2 DEF SamePages
  <2> QED  BY <2>1, <2>2, <2>3, <1>1, <1>2, SameWord
<1>7. ASSUME NEW k \in DOMAIN image
      PROVE  ([e \in Dirs |-> SpaceOf(e)])'[dir][ENTRY + k - 1] = image[k]
  <2>1. k \in 1..Len(image)
    BY PagingAssumption
  <2>2. ENTRY + k - 1 \in User
    BY <2>1, Layout
  <2>3. Word(mem', ENTRY + k - 1, dir) = image[k]
    BY <2>1, <1>1 DEF Word
  <2>4. ([e \in Dirs |-> SpaceOf(e)])'[dir] = [va \in User |-> Word(mem', va, dir)]
    BY <1>5, SpaceWords
  <2> QED  BY <2>2, <2>3, <2>4
<1>8. /\ pgdir'[i] \notin Spaces!Used \cup {0}
      /\ pgdir' = [pgdir EXCEPT ![i] = pgdir'[i]]
      /\ \A k \in DOMAIN image : ([e \in Dirs |-> SpaceOf(e)])'[pgdir'[i]][ENTRY + k - 1] = image[k]
      /\ Spaces!OthersKept(pgdir'[i])
  <2>1. pgdir'[i] \notin Spaces!Used \cup {0}
    BY <1>3, <1>4, SpaceWords
  <2>2. pgdir' = [pgdir EXCEPT ![i] = pgdir'[i]]
    BY <1>1, <1>3
  <2>3. Spaces!OthersKept(pgdir'[i])
    BY <1>3, <1>6
  <2>4. \A k \in DOMAIN image : ([e \in Dirs |-> SpaceOf(e)])'[pgdir'[i]][ENTRY + k - 1] = image[k]
    <3> DEFINE h == ([e \in Dirs |-> SpaceOf(e)])'
    <3>1. \A k \in DOMAIN image : h[dir][ENTRY + k - 1] = image[k]
      BY <1>7
    <3> HIDE DEF h
    <3>2. \A k \in DOMAIN image : h[pgdir'[i]][ENTRY + k - 1] = image[k]
      BY ONLY <3>1, <1>3
    <3> QED  BY <3>2 DEF h
  <2> QED  BY <2>1, <2>2, <2>3, <2>4
<1> QED  BY ONLY <1>8 DEF Spaces!Start

(* The space a page is mapped in changes in that page, which was absent.   *)
LEMMA MappedOnce ==
  ASSUME PgInv, NEW P, Witness(P), NEW r \in State, NEW Q, NEW K, Sound(r, Dirs, Q, K), mem' = r.mem,
         SamePages(Now, r, P \cup ThreadStacks \cup {PGDIR}), Dirs' \subseteq Dirs,
         NEW d \in Dirs, d \in Dirs', NEW va \in User, OtherWalks(Now, r, Dirs, d, va),
         find_pte(mem, va, d) = 0, find_pte(r.mem, va, d) # 0
  PROVE  /\ Spaces!OneChanges(d, FALSE) /\ Spaces!OneChanges(d, TRUE)
         /\ Spaces!OthersKept(d)
<1>1. Now.mem = mem /\ \A f \in P : mem'[f][0] = mem[f][0]
  BY MemoryNow DEF PgInv, SamePages
<1>2. \A e \in Dirs, v \in User : <<e, v>> # <<d, va>> => Word(mem', v, e) = Word(mem, v, e)
  <2> SUFFICES ASSUME NEW e \in Dirs, NEW v \in User, <<e, v>> # <<d, va>>
               PROVE  Word(mem', v, e) = Word(mem, v, e)
    OBVIOUS
  <2>1. find_pte(mem', v, e) = find_pte(mem, v, e)
    BY <1>1 DEF OtherWalks
  <2> QED  BY <2>1, <1>1, SameWord
<1>3. Word(mem, va, d) = -1 /\ Word(mem', va, d) \in Nat
  BY PresentWord DEF Word
<1>4. Spaces!OthersKept(d)
  <2> SUFFICES ASSUME NEW e \in Dirs' \ {d}, NEW v \in User
               PROVE  Word(mem', v, e) = Word(mem, v, e)
    BY KeptSpaces
  <2> QED  BY <1>2
<1>5. \A v \in User \ {va} : Word(mem', v, d) = Word(mem, v, d)
  BY <1>2
<1>6. Word(mem, va, d) # Word(mem', va, d) /\ Word(mem', va, d) # -1
  BY <1>3
<1> QED  BY <1>3, <1>4, <1>5, <1>6, OnePage

LEMMA ForkStep ==
  ASSUME PgInv, NEW t \in Slot, NEW i \in Slot, NEW r, NEW ker, NEW P,
         MadeThread(t, i, r, ker, P)
  PROVE  Spaces!Fork(i, t)
<1> DEFINE d == pgdir[t]
           va == NextStack(t)
<1>1. /\ Witness(P) /\ t # i /\ Runs(t) /\ r \in State
      /\ va \in User
      /\ SamePages(Now, r, P \cup ThreadStacks \cup {PGDIR})
      /\ OtherWalks(Now, r, Dirs, d, va)
      /\ find_pte(mem, va, d) = 0 /\ find_pte(r.mem, va, d) # 0
      /\ mem' = r.mem /\ pgdir' = [pgdir EXCEPT ![i] = d]
  BY DEF MadeThread
<1>2. PICK Q : Sound(r, Dirs, Q, ThreadStacks \cup {ker})
  BY DEF MadeThread
<1>3. d \in Dirs /\ d # 0
  BY <1>1, TaskPages DEF Runs
<1>4. pgdir'[i] = d /\ \A u \in Slot \ {i} : pgdir'[u] = pgdir[u]
  BY <1>1 DEF PgInv, PagingTypeOK
<1>5. d \in Dirs' /\ Dirs' \subseteq Dirs
  BY <1>3, <1>4 DEF Dirs
<1> HIDE DEF va, d
<1>6. Spaces!OneChanges(d, TRUE) /\ Spaces!OthersKept(d)
  BY <1>1, <1>2, <1>3, <1>5, MappedOnce
<1> QED  BY <1>1, <1>3, <1>6 DEF Spaces!Fork, d

LEMMA FaultStep ==
  ASSUME PgInv, NEW t \in Slot, NEW va, NEW r, NEW P, Runs(t), FaultMapped(t, va, r, P), UNCHANGED pgdir
  PROVE  Spaces!Access(t)
<1> DEFINE d == pgdir[t]
<1>1. /\ Witness(P) /\ va \in User /\ find_pte(mem, va, d) = 0
      /\ PageMapped(Now, r, Dirs, P, ThreadStacks, d, va)
      /\ mem' = r.mem
  BY DEF FaultMapped, Become
<1>2. /\ r \in State
      /\ SamePages(Now, r, P \cup ThreadStacks \cup {PGDIR})
      /\ OtherWalks(Now, r, Dirs, d, va)
      /\ r.kva \in (Now.memCurr + 1)..r.memCurr /\ find_pte(r.mem, va, d) = r.kva
      /\ Sound(r, Dirs, P \cup {r.kva}, ThreadStacks)
  BY <1>1 DEF PageMapped, Grew
<1>3. find_pte(r.mem, va, d) # 0
  <2>1. Now.memCurr \in Nat /\ r.memCurr \in Nat
    BY <1>2, MemoryNow, Pool DEF PgInv, State
  <2> QED  BY ONLY <2>1, <1>2
<1>4. d \in Dirs /\ d # 0
  BY <1>1, TaskPages DEF Runs
<1>5. d \in Dirs' /\ Dirs' \subseteq Dirs
  BY <1>4 DEF Dirs
<1> HIDE DEF d
<1>6. Spaces!OneChanges(d, FALSE) /\ Spaces!OthersKept(d)
  BY <1>1, <1>2, <1>3, <1>4, <1>5, MappedOnce
<1> QED  BY <1>4, <1>6 DEF Spaces!Access, d

(* A store changes one word of one page, or nothing.                       *)
LEMMA StoreStep ==
  ASSUME PgInv, NEW t \in Slot, NEW w \in Values, NEW va, NEW r, NEW P, Runs(t),
         Stored(t, va, w, r, P), UNCHANGED pgdir
  PROVE  Spaces!Access(t) \/ UNCHANGED (Spaces!vars)
<1> DEFINE d == pgdir[t]
           f == find_pte(mem, va, d)
<1>1. /\ Witness(P) /\ va \in User /\ f # 0
      /\ WordPut(Now, r, Dirs, P, ThreadStacks, f, 0, w)
      /\ mem' = r.mem
  BY DEF Stored, Become
<1>2. Now.mem = mem /\ Sound(Now, Dirs, P, ThreadStacks) /\ w \in Nat
  BY <1>1, MemoryNow, PagingAssumption DEF PgInv, Witness
<1>3. /\ SameWalks(Now, r, Dirs) /\ SamePages(Now, r, Frame \ {f})
      /\ r.mem[f][0] = w
  BY <1>1 DEF WordPut
<1>4. d \in Dirs /\ d # 0 /\ Dirs' = Dirs
  BY <1>1, TaskPages DEF Runs, Dirs
<1>5. find_pte(mem', va, d) = f /\ Word(mem', va, d) = w /\ Word(mem, va, d) = mem[f][0]
  BY <1>1, <1>2, <1>3, <1>4 DEF SameWalks, Word
<1>6. \A e \in Dirs, v \in User : <<e, v>> # <<d, va>> => Word(mem', v, e) = Word(mem, v, e)
  <2> SUFFICES ASSUME NEW e \in Dirs, NEW v \in User, <<e, v>> # <<d, va>>
               PROVE  Word(mem', v, e) = Word(mem, v, e)
    OBVIOUS
  <2> DEFINE g == find_pte(mem, v, e)
  <2>1. find_pte(mem', v, e) = g
    BY <1>1, <1>2, <1>3 DEF SameWalks
  <2>2. CASE g = 0
    BY <2>1, <2>2 DEF Word
  <2>3. CASE g # 0
    <3>1. g # f
      <4> SUFFICES ASSUME g = f PROVE FALSE
        OBVIOUS
      <4>1. find_pte(Now.mem, v, e) # 0 /\ find_pte(Now.mem, v, e) = find_pte(Now.mem, va, d)
        BY <1>2, <2>3
      <4>2. e = d /\ v = va
        BY <4>1, <1>1, <1>2, <1>4, WalksApart
      <4> QED  BY <4>2
    <3>2. g \in Frame
      <4>1. find_pte(Now.mem, v, e) # 0
        BY <1>2, <2>3
      <4>2. find_pte(Now.mem, v, e) \in P
        BY <4>1, <1>2, WalkEnds
      <4> QED  BY <4>2, <1>2, MemoryNow, InUse DEF PgInv
    <3>3. mem'[g] = mem[g]
      BY <3>1, <3>2, <1>1, <1>2, <1>3 DEF SamePages
    <3> HIDE DEF g
    <3> QED  BY <3>3, <2>1 DEF Word, g
  <2> QED  BY <2>2, <2>3
<1> HIDE DEF f, d
<1>7. CASE Word(mem', va, d) # Word(mem, va, d)
  <2>1. Word(mem', va, d) # -1
    BY <1>2, <1>5
  <2>2. \A v \in User \ {va} : Word(mem', v, d) = Word(mem, v, d)
    BY <1>4, <1>6
  <2>3. Spaces!OneChanges(d, FALSE)
    BY <2>1, <2>2, <1>1, <1>4, <1>7, OnePage
  <2>4. Spaces!OthersKept(d)
    <3> SUFFICES ASSUME NEW e \in Dirs' \ {d}, NEW v \in User
                 PROVE  Word(mem', v, e) = Word(mem, v, e)
      BY <1>4, KeptSpaces
    <3> QED  BY <1>4, <1>6
  <2> QED  BY <2>3, <2>4, <1>4 DEF Spaces!Access, d
<1>8. CASE Word(mem', va, d) = Word(mem, va, d)
  <2>1. \A e \in Dirs, v \in User : Word(mem', v, e) = Word(mem, v, e)
    BY <1>6, <1>8
  <2>2. \A e \in Dirs : (SpaceOf(e))' = SpaceOf(e)
    <3> SUFFICES ASSUME NEW e \in Dirs PROVE (SpaceOf(e))' = SpaceOf(e)
      OBVIOUS
    <3>1. (SpaceOf(e))' = [v \in User |-> Word(mem', v, e)] /\ SpaceOf(e) = [v \in User |-> Word(mem, v, e)]
      BY SpaceWords
    <3>2. \A v \in User : Word(mem', v, e) = Word(mem, v, e)
      BY <2>1
    <3> QED  BY <3>1, <3>2
  <2>3. ([e \in Dirs |-> SpaceOf(e)])' = [e \in Dirs |-> SpaceOf(e)]
    <3>1. ([e \in Dirs |-> SpaceOf(e)])' = [e \in Dirs' |-> (SpaceOf(e))']
      OBVIOUS
    <3> QED  BY <3>1, <2>2, <1>4
  <2> QED  BY <2>3 DEF Spaces!vars
<1> QED  BY <1>7, <1>8

(* A step whose tables and memory are as they were.                        *)
LEMMA SpacesStutter ==
  ASSUME UNCHANGED <<mem, pgdir>>
  PROVE  UNCHANGED (Spaces!vars)
<1>1. \A e : (SpaceOf(e))' = SpaceOf(e)
  <2> SUFFICES ASSUME NEW e PROVE (SpaceOf(e))' = SpaceOf(e)
    OBVIOUS
  <2>1. (SpaceOf(e))' = [v \in User |-> Word(mem', v, e)] /\ SpaceOf(e) = [v \in User |-> Word(mem, v, e)]
    BY SpaceWords
  <2> QED  BY <2>1
<1>2. Dirs' = Dirs
  BY DEF Dirs
<1>3. ([e \in Dirs |-> SpaceOf(e)])' = [e \in Dirs |-> SpaceOf(e)]
  <2>1. ([e \in Dirs |-> SpaceOf(e)])' = [e \in Dirs' |-> (SpaceOf(e))']
    OBVIOUS
  <2> QED  BY <2>1, <1>1, <1>2
<1> QED  BY <1>3 DEF Spaces!vars

LEMMA SpacesNext ==
  ASSUME PgInv, [Next]_vars
  PROVE  [Spaces!ASNext]_(Spaces!vars)
<1>1. CASE UNCHANGED vars
  BY <1>1, SpacesStutter DEF vars
<1>2. CASE Next
  <2>1. CASE \E i \in Slot, image \in Images : \E r, dir, ker, P : MadeProcess(i, image, r, dir, ker, P)
    BY <2>1, StartStep DEF Spaces!ASNext
  <2>2. CASE \E t, i \in Slot : \E r, ker, P : MadeThread(t, i, r, ker, P)
    BY <2>2, ForkStep DEF Spaces!ASNext
  <2>3. CASE \E t \in Slot : EndTask(t)
    BY <2>3, SpacesStutter DEF EndTask
  <2>4. CASE \E t \in Slot, va \in Touched : \E r, P :
          Runs(t) /\ FaultMapped(t, va, r, P) /\ UNCHANGED <<pid, type, pgdir, kernel_sp, user_sp, num_thread>>
    BY <2>4, FaultStep DEF Spaces!ASNext
  <2>5. CASE \E t \in Slot, w \in Values : \E va, r, P :
          Runs(t) /\ Stored(t, va, w, r, P) /\ UNCHANGED <<pid, type, pgdir, kernel_sp, user_sp, num_thread>>
    BY <2>5, StoreStep DEF Spaces!ASNext
  <2> QED  BY <2>1, <2>2, <2>3, <2>4, <2>5, <1>2, Steps DEF PgStep
<1> QED  BY <1>1, <1>2

(* Nothing that maps, starts or stores reaches the memory of another        *)
(* process, or a page other than the one it is about: do_exec,             *)
(* do_mthread_create and the fault handlers implement separate spaces.     *)
THEOREM SpacesSeparate == Spec => ImplementsAddressSpaces
<1>1. Init => Spaces!ASInit
  <2> SUFFICES ASSUME Init PROVE Spaces!ASInit
    OBVIOUS
  <2>1. pgdir = [i \in Slot |-> 0] /\ Dirs = {}
    BY DEF Init, Dirs
  <2>2. [e \in Dirs |-> SpaceOf(e)] = << >>
    BY <2>1
  <2> QED  BY <2>1, <2>2 DEF Spaces!ASInit
<1>2. PgInv /\ [Next]_vars => [Spaces!ASNext]_(Spaces!vars)
  BY SpacesNext
<1> QED  BY <1>1, <1>2, PagingInvariant, PTL DEF Spec, ImplementsAddressSpaces, Spaces!ASSpec
=============================================================================
