--------------------------- MODULE FileSys_proofs ---------------------------
(***************************************************************************)
(* Proofs about FileSys, for every size of disk within FileSysLimits and   *)
(* every set of names, under the rules that programs keep to (UnderRules): *)
(* what is in use is not shared, names hold, and every call changes the    *)
(* tree of names as it says or not at all.                                 *)
(*                                                                         *)
(* The invariant is stated of a disk, a current directory and a table of   *)
(* open files, so that it can be shown of every disk that a call leaves on *)
(* its way: a reset then forgets the directory and the files.              *)
(***************************************************************************)
EXTENDS FileSys, FiniteSetTheorems, Recursion_proofs

(* The rules that run `filesys` checks under, and the calls that survive a *)
(* reset.                                                                  *)
UnderRules == FsRules = Rules /\ Interruptible \subseteq {"mkdir", "touch", "ln", "write"}

Inode == [type : {"FILE", "DIR"}, links : 0..(LINKS_MOD - 1), ptr : Seq(Blk), ents : Seq(EntryType)]
Disk  == [magic : BOOLEAN, imap : SUBSET Ino, dmap : SUBSET Blk, inode : [Ino -> Inode]]
Fits(d) == \A i \in Ino : Len(d.inode[i].ptr) <= FILE_MAX /\ Len(d.inode[i].ents) <= DIR_MAX

Dir(d, i)  == d.inode[i].type = "DIR"
Ents(d, i) == d.inode[i].ents

-----------------------------------------------------------------------------
(* Sequences and numbers. *)

(* The elements of the tuples that the handlers leave.                     *)
LEMMA Tuples ==
  /\ \A a, b, x : x \in Range(<<a, b>>) => x \in {a, b}
  /\ \A a, b, c, d, x : x \in Range(<<a, b, c, d>>) => x \in {a, b, c, d}
  /\ \A a, b, c, d, e, x : x \in Range(<<a, b, c, d, e>>) => x \in {a, b, c, d, e}
<1>1. ASSUME NEW a, NEW b, NEW x, x \in Range(<<a, b>>) PROVE x \in {a, b}
  BY <1>1 DEF Range
<1>2. ASSUME NEW a, NEW b, NEW c, NEW d, NEW x, x \in Range(<<a, b, c, d>>) PROVE x \in {a, b, c, d}
  BY <1>2 DEF Range
<1>3. ASSUME NEW a, NEW b, NEW c, NEW d, NEW e, NEW x, x \in Range(<<a, b, c, d, e>>)
      PROVE  x \in {a, b, c, d, e}
  BY <1>3 DEF Range
<1> QED  BY <1>1, <1>2, <1>3

(* The last element and the others.                                        *)
LEMMA LastAndFront ==
  ASSUME NEW S, NEW s \in Seq(S), s # <<>>
  PROVE  Last(s) \in Range(s) /\ Range(Front(s)) \subseteq Range(s) /\ Range(s) \subseteq S
<1>1. Len(s) \in Nat \ {0} /\ DOMAIN s = 1..Len(s)
  OBVIOUS
<1>2. Last(s) \in Range(s)
  BY <1>1 DEF Last, Range
<1>3. Range(Front(s)) \subseteq Range(s)
  BY <1>1 DEF Front, Range
<1>4. Range(s) \subseteq S
  BY <1>1 DEF Range
<1> QED  BY <1>2, <1>3, <1>4

(* RemoveAt takes one element out.                                         *)
LEMMA Removed ==
  ASSUME NEW S, NEW s \in Seq(S), NEW k \in 1..Len(s)
  PROVE  /\ RemoveAt(s, k) \in Seq(S) /\ Len(RemoveAt(s, k)) = Len(s) - 1
         /\ \A j \in 1..(Len(s) - 1) : RemoveAt(s, k)[j] = IF j < k THEN s[j] ELSE s[j + 1]
         /\ Range(RemoveAt(s, k)) = {s[j] : j \in 1..Len(s) \ {k}}
<1> DEFINE r == RemoveAt(s, k)
           a == SubSeq(s, 1, k - 1)
           b == SubSeq(s, k + 1, Len(s))
<1>1. Len(s) \in Nat \ {0} /\ k \in Nat \ {0} /\ k <= Len(s)
  OBVIOUS
<1>2. a \in Seq(S) /\ Len(a) = k - 1 /\ \A j \in 1..(k - 1) : a[j] = s[j]
  BY <1>1
<1>3. b \in Seq(S) /\ Len(b) = Len(s) - k /\ \A j \in 1..(Len(s) - k) : b[j] = s[k + j]
  BY <1>1
<1>4. r = a \o b
  BY DEF RemoveAt
<1> HIDE DEF a, b, r
<1>5. r \in Seq(S) /\ Len(r) = Len(s) - 1
  BY <1>1, <1>2, <1>3, <1>4
<1>6. \A j \in 1..(Len(s) - 1) : r[j] = IF j < k THEN s[j] ELSE s[j + 1]
  <2> SUFFICES ASSUME NEW j \in 1..(Len(s) - 1) PROVE r[j] = IF j < k THEN s[j] ELSE s[j + 1]
    OBVIOUS
  <2>1. CASE j < k
    BY <1>1, <1>2, <1>3, <1>4, <2>1
  <2>2. CASE ~ (j < k)
    <3>1. j - (k - 1) \in 1..(Len(s) - k) /\ k + (j - (k - 1)) = j + 1
      BY <1>1, <2>2
    <3>2. r[j] = b[j - (k - 1)]
      BY <1>1, <1>2, <1>3, <1>4, <2>2
    <3> QED  BY <3>1, <3>2, <1>3, <2>2
  <2> QED  BY <2>1, <2>2
<1>7. Range(r) = {s[j] : j \in 1..Len(s) \ {k}}
  <2>1. DOMAIN r = 1..(Len(s) - 1)
    BY <1>1, <1>5
  <2>2. \A j \in 1..(Len(s) - 1) : \E l \in 1..Len(s) \ {k} : r[j] = s[l]
    <3> TAKE j \in 1..(Len(s) - 1)
    <3>1. CASE j < k
      BY <3>1, <1>1, <1>6
    <3>2. CASE ~ (j < k)
      BY <3>2, <1>1, <1>6
    <3> QED  BY <3>1, <3>2
  <2>3. \A l \in 1..Len(s) \ {k} : \E j \in 1..(Len(s) - 1) : r[j] = s[l]
    <3> TAKE l \in 1..Len(s) \ {k}
    <3>1. CASE l < k
      BY <3>1, <1>1, <1>6
    <3>2. CASE ~ (l < k)
      <4>1. l - 1 \in 1..(Len(s) - 1) /\ ~ (l - 1 < k) /\ l - 1 + 1 = l
        BY <3>2, <1>1
      <4> QED  BY <4>1, <1>6
    <3> QED  BY <3>1, <3>2
  <2> QED  BY <2>1, <2>2, <2>3 DEF Range
<1> QED  BY <1>5, <1>6, <1>7 DEF r

-----------------------------------------------------------------------------
(* What a path leads to. *)

(* The numbers of inodes.                                                  *)
LEMMA Inodes ==
  /\ INODE_NUM \in Nat \ {0} /\ ROOTINO \in Ino /\ Ino \subseteq Nat /\ NULL \notin Ino
  /\ IsFiniteSet(Ino) /\ Cardinality(Ino) = INODE_NUM
<1>1. INODE_NUM \in Nat \ {0}
  BY FileSysAssumption DEF FileSysAssumption
<1>2. IsFiniteSet(0..(INODE_NUM - 1)) /\ Cardinality(0..(INODE_NUM - 1)) = INODE_NUM
  BY <1>1, FS_Interval
<1> QED  BY <1>1, <1>2 DEF Ino, ROOTINO, NULL

(* ROOTINO and what the directories of S list are in S.                    *)
Complete(d, S) == ROOTINO \in S /\ \A i \in S : Leads(d, i) \subseteq S

(* Directories list inodes.                                                *)
LEMMA LeadsToInodes ==
  ASSUME NEW d \in Disk, NEW i \in Ino
  PROVE  EntriesOn(d, i) \subseteq EntryType /\ Leads(d, i) \in SUBSET Ino
<1>1. d.inode[i] \in Inode
  BY DEF Disk
<1>2. d.inode[i].ents \in Seq(EntryType)
  BY <1>1 DEF Inode
<1>3. EntriesOn(d, i) \subseteq EntryType
  BY <1>2 DEF EntriesOn, Range
<1>4. \A e \in EntryType : e.ino \in Ino
  BY DEF EntryType
<1> QED  BY <1>3, <1>4 DEF Leads

Wider(d, S) == S \cup UNION {Leads(d, i) : i \in S}

(* The function of ReachableOn, unfolded.                                  *)
LEMMA Widening ==
  ASSUME NEW d, d.magic
  PROVE  \E within : /\ within[0] = {ROOTINO} /\ ReachableOn(d) = within[INODE_NUM - 1]
                     /\ \A k \in 1..(INODE_NUM - 1) : within[k] = Wider(d, within[k - 1])
<1> DEFINE n == INODE_NUM - 1
           Body(f, m) == [k \in 0..m |-> IF k = 0 THEN {ROOTINO} ELSE Wider(d, f[k - 1])]
           T == {m \in Nat : \E f : f = Body(f, m)}
           within == CHOOSE f : f = Body(f, n)
<1>1. n \in Nat
  BY Inodes
<1>2. 0 \in T
  <2> DEFINE f0 == [k \in 0..0 |-> {ROOTINO}]
  <2>1. f0 = Body(f0, 0)
    OBVIOUS
  <2> HIDE DEF f0
  <2> QED  BY <2>1
<1>3. ASSUME NEW m \in 0..(n - 1), m \in T PROVE m + 1 \in T
  <2>1. PICK f : f = Body(f, m)
    BY <1>3
  <2> DEFINE g == [k \in 0..(m + 1) |-> IF k = m + 1 THEN Wider(d, f[m]) ELSE f[k]]
  <2>2. m \in Nat
    OBVIOUS
  <2>3. \A k \in 0..m : g[k] = f[k] /\ f[k] = IF k = 0 THEN {ROOTINO} ELSE Wider(d, f[k - 1])
    <3>1. \A k \in 0..m : f[k] = IF k = 0 THEN {ROOTINO} ELSE Wider(d, f[k - 1])
      BY ONLY <2>1, <2>2
    <3>2. \A k \in 0..m : g[k] = f[k]
      BY ONLY <2>2
    <3> HIDE DEF g
    <3> QED  BY ONLY <3>1, <3>2
  <2>4. g[m + 1] = Wider(d, g[m])
    BY <2>2, <2>3
  <2>5. \A k \in 0..(m + 1) : g[k] = IF k = 0 THEN {ROOTINO} ELSE Wider(d, g[k - 1])
    <3> SUFFICES ASSUME NEW k \in 0..(m + 1)
                 PROVE  g[k] = IF k = 0 THEN {ROOTINO} ELSE Wider(d, g[k - 1])
      OBVIOUS
    <3>1. CASE k = m + 1
      <4>1. k # 0 /\ k - 1 = m
        BY <3>1, <2>2
      <4> HIDE DEF g
      <4> QED  BY <3>1, <4>1, <2>4
    <3>2. CASE k \in 0..m
      <4>1. k = 0 \/ k - 1 \in 0..m
        BY <3>2, <2>2
      <4> HIDE DEF g
      <4> QED  BY <3>2, <4>1, <2>3
    <3> QED  BY <3>1, <3>2, <2>2
  <2>6. g = Body(g, m + 1)
    <3>1. g = [k \in 0..(m + 1) |-> g[k]]
      OBVIOUS
    <3> HIDE DEF g
    <3> QED  BY <3>1, <2>5
  <2> HIDE DEF g
  <2>7. \E h : h = Body(h, m + 1)
    <3> HIDE DEF Body
    <3> QED  BY ONLY <2>6
  <2>8. m + 1 \in Nat
    BY ONLY <2>2
  <2> HIDE DEF Body
  <2> QED  BY ONLY <2>7, <2>8
<1>4. n \in T
  <2> HIDE DEF T, n
  <2>1. 0..n \subseteq T
    BY <1>1, <1>2, <1>3, NumbersUpTo
  <2> QED  BY <1>1, <2>1
<1>5. within = Body(within, n)
  BY <1>4
<1>6. ReachableOn(d) = within[n]
  BY DEF ReachableOn, Wider
<1> HIDE DEF within
<1>7. \A k \in 0..n : within[k] = IF k = 0 THEN {ROOTINO} ELSE Wider(d, within[k - 1])
  BY <1>5
<1> HIDE DEF n
<1>8. within[0] = {ROOTINO} /\ \A k \in 1..n : within[k] = Wider(d, within[k - 1])
  BY <1>1, <1>7
<1> QED  BY <1>6, <1>8 DEF n

(* What is reachable is complete, and in every set that is: a path that     *)
(* visits no inode twice has less names than there are inodes.             *)
LEMMA Reached ==
  ASSUME NEW d \in Disk, d.magic
  PROVE  /\ ReachableOn(d) \in SUBSET Ino
         /\ Complete(d, ReachableOn(d))
         /\ \A S : Complete(d, S) => ReachableOn(d) \subseteq S
<1> DEFINE n == INODE_NUM - 1
<1>1. PICK w : /\ w[0] = {ROOTINO} /\ ReachableOn(d) = w[n]
               /\ \A k \in 1..n : w[k] = Wider(d, w[k - 1])
  BY Widening
<1>2. n \in Nat /\ Cardinality(Ino) = n + 1 /\ ROOTINO \in Ino /\ IsFiniteSet(Ino)
  BY Inodes
<1> HIDE DEF n
<1> DEFINE T == {k \in 0..n : /\ w[k] \in SUBSET Ino /\ ROOTINO \in w[k]
                              /\ Complete(d, w[k]) \/ Cardinality(w[k]) >= k + 1}
<1>3. 0 \in T
  BY <1>1, <1>2, FS_Singleton
<1>4. ASSUME NEW k \in 0..(n - 1), k \in T PROVE k + 1 \in T
  <2>1. w[k] \in SUBSET Ino /\ ROOTINO \in w[k] /\ (Complete(d, w[k]) \/ Cardinality(w[k]) >= k + 1)
        /\ k \in Nat /\ k + 1 \in 0..n
    BY <1>4, <1>2
  <2>2. w[k + 1] = Wider(d, w[k])
    BY <1>1, <2>1
  <2>3. w[k + 1] \in SUBSET Ino /\ w[k] \subseteq w[k + 1] /\ ROOTINO \in w[k + 1]
    BY <2>1, <2>2, LeadsToInodes DEF Wider
  <2>4. CASE w[k + 1] = w[k]
    <3>1. Complete(d, w[k])
      BY <2>1, <2>2, <2>4 DEF Wider, Complete
    <3> QED  BY <2>1, <2>3, <2>4, <3>1
  <2>5. CASE w[k + 1] # w[k]
    <3>1. ~ Complete(d, w[k])
      BY <2>2, <2>5 DEF Wider, Complete
    <3>2. IsFiniteSet(w[k + 1])
      BY <1>2, <2>3, FS_Subset
    <3>3. Cardinality(w[k]) <= Cardinality(w[k + 1]) /\ Cardinality(w[k + 1]) # Cardinality(w[k])
      BY <3>2, <2>3, <2>5, FS_Subset
    <3>4. Cardinality(w[k]) \in Nat /\ Cardinality(w[k + 1]) \in Nat
      BY <1>2, <2>1, <3>2, FS_Subset, FS_CardinalityType
    <3>5. Cardinality(w[k + 1]) >= (k + 1) + 1
      BY <3>1, <3>3, <3>4, <2>1
    <3> QED  BY <2>1, <2>3, <3>5
  <2> QED  BY <2>4, <2>5
<1>5. n \in T
  <2> HIDE DEF T
  <2>1. 0..n \subseteq T
    BY <1>2, <1>3, <1>4, NumbersUpTo
  <2> QED  BY <1>2, <2>1
<1>6. w[n] \in SUBSET Ino
  BY <1>5
<1>7. Complete(d, w[n])
  <2>1. CASE Cardinality(w[n]) >= n + 1
    <3>1. IsFiniteSet(w[n]) /\ Cardinality(w[n]) <= n + 1
      BY <1>2, <1>6, FS_Subset
    <3>2. Cardinality(w[n]) \in Nat
      BY <3>1, FS_CardinalityType
    <3>3. w[n] = Ino
      BY <1>2, <1>6, <2>1, <3>1, <3>2, FS_Subset
    <3> QED  BY <3>3, <1>2, LeadsToInodes DEF Complete
  <2> QED  BY <1>5, <2>1
<1>8. ASSUME NEW S, Complete(d, S) PROVE w[n] \subseteq S
  <2> DEFINE U == {k \in 0..n : w[k] \subseteq S}
  <2>1. 0 \in U
    BY <1>1, <1>2, <1>8 DEF Complete
  <2>2. ASSUME NEW k \in 0..(n - 1), k \in U PROVE k + 1 \in U
    <3>1. k + 1 \in 1..n /\ w[k + 1] = Wider(d, w[k]) /\ w[k] \subseteq S
      BY <1>1, <1>2, <2>2
    <3>2. w[k + 1] \subseteq S
      BY <3>1, <1>8 DEF Wider, Complete
    <3> QED  BY <3>1, <3>2
  <2>3. n \in U
    <3> HIDE DEF U
    <3>1. 0..n \subseteq U
      BY <1>2, <2>1, <2>2, NumbersUpTo
    <3> QED  BY <1>2, <3>1
  <2> QED  BY <2>3
<1> QED  BY <1>1, <1>6, <1>7, <1>8

-----------------------------------------------------------------------------
(***************************************************************************)
(* The tree on a disk.  A directory in use lists itself, then its parent,  *)
(* then what was made in it, each under a name of its own; a directory is  *)
(* listed in one place, which is its parent.                               *)
(***************************************************************************)
Listed(d, i, k) ==
  LET x == Ents(d, i)[k]
  IN /\ x.name \in Name /\ d.inode[x.ino].type = x.type
     /\ x.type = "DIR" => x.ino # ROOTINO /\ Ents(d, x.ino)[2].ino = i

OwnPlace(d, i, k, l) ==
  LET x == Ents(d, i)[k]  y == Ents(d, i)[l]
  IN k # l => /\ x.name # y.name \/ x.type # y.type
              /\ x.type = "DIR" => x.ino # y.ino

Listing(d, i) ==
  /\ Len(Ents(d, i)) >= 2 /\ d.inode[i].ptr # <<>>
  /\ Ents(d, i)[1] = Entry(".", "DIR", i)
  /\ Ents(d, i)[2] = Entry("..", "DIR", Ents(d, i)[2].ino)
  /\ \A k \in 3..Len(Ents(d, i)) : Listed(d, i, k)
  /\ \A k, l \in 3..Len(Ents(d, i)) : OwnPlace(d, i, k, l)

HasParent(d, i) ==
  LET p == Ents(d, i)[2].ino
  IN IF i = ROOTINO THEN p = ROOTINO
     ELSE Dir(d, p) /\ \E k \in 3..Len(Ents(d, p)) : Ents(d, p)[k].ino = i

TreeSound(d) ==
  d.magic => /\ Dir(d, ROOTINO)
             /\ \A i \in ReachableOn(d) : Dir(d, i) => Listing(d, i) /\ HasParent(d, i)

(* Inode j is, for the tree, what it was.                                  *)
Stays(d, e, j) == /\ e.inode[j].type = d.inode[j].type /\ e.inode[j].ents = d.inode[j].ents
                  /\ Dir(d, j) => e.inode[j].ptr = d.inode[j].ptr

(* What the entries of a directory in use are.                             *)
LEMMA EntriesOfListing ==
  ASSUME NEW d \in Disk, d.magic, NEW i \in ReachableOn(d)
  PROVE  /\ i \in Ino /\ Ents(d, i) \in Seq(EntryType) /\ Len(Ents(d, i)) \in Nat
         /\ \A k \in 1..Len(Ents(d, i)) : Ents(d, i)[k] \in EntryType /\ Ents(d, i)[k].ino \in Ino
         /\ Dir(d, i) => /\ EntriesOn(d, i) = {Ents(d, i)[k] : k \in 1..Len(Ents(d, i))}
                         /\ \A k \in 1..Len(Ents(d, i)) : Ents(d, i)[k].ino \in ReachableOn(d)
<1>1. i \in Ino /\ Complete(d, ReachableOn(d))
  BY Reached
<1>2. d.inode[i] \in Inode
  BY <1>1 DEF Disk
<1>3. Ents(d, i) \in Seq(EntryType)
  BY <1>2 DEF Inode, Ents
<1>4. Len(Ents(d, i)) \in Nat /\ DOMAIN Ents(d, i) = 1..Len(Ents(d, i))
      /\ \A k \in 1..Len(Ents(d, i)) : Ents(d, i)[k] \in EntryType
  BY <1>3
<1>5. \A k \in 1..Len(Ents(d, i)) : Ents(d, i)[k].ino \in Ino
  BY <1>4 DEF EntryType
<1>6. ASSUME Dir(d, i)
      PROVE  /\ EntriesOn(d, i) = {Ents(d, i)[k] : k \in 1..Len(Ents(d, i))}
             /\ \A k \in 1..Len(Ents(d, i)) : Ents(d, i)[k].ino \in ReachableOn(d)
  <2>1. EntriesOn(d, i) = {Ents(d, i)[k] : k \in 1..Len(Ents(d, i))}
    BY <1>4, <1>6 DEF EntriesOn, Dir, Range, Ents
  <2>2. Leads(d, i) \subseteq ReachableOn(d)
    BY <1>1 DEF Complete
  <2> QED  BY <2>1, <2>2 DEF Leads
<1> QED  BY <1>1, <1>3, <1>4, <1>5, <1>6

(* A disk on which all that is reachable stays has the same tree.          *)
LEMMA TreeStays ==
  ASSUME NEW d \in Disk, NEW e \in Disk, e.magic = d.magic, TreeSound(d),
         \A j \in ReachableOn(d) : Stays(d, e, j)
  PROVE  ReachableOn(e) = ReachableOn(d) /\ TreeSound(e) /\ Names(e) = Names(d)
<1>1. CASE ~ d.magic
  <2>1. ReachableOn(d) = {} /\ ReachableOn(e) = {}
    BY <1>1 DEF ReachableOn
  <2> QED  BY <1>1, <2>1 DEF TreeSound, Names
<1>2. CASE d.magic
  <2> DEFINE R == ReachableOn(d)
  <2>1. R \in SUBSET Ino /\ Complete(d, R) /\ Complete(e, ReachableOn(e)) /\ ReachableOn(e) \in SUBSET Ino
    BY <1>2, Reached
  <2>2. \A j \in R : EntriesOn(e, j) = EntriesOn(d, j)
    BY DEF Stays, EntriesOn, Dir
  <2>3. Complete(e, R)
    BY <2>1, <2>2 DEF Complete, Leads
  <2>4. ReachableOn(e) \subseteq R
    BY <1>2, <2>3, Reached
  <2>5. Complete(d, ReachableOn(e))
    BY <2>1, <2>2, <2>4 DEF Complete, Leads
  <2>6. ReachableOn(e) = R
    BY <1>2, <2>4, <2>5, Reached
  <2>7. Names(e) = Names(d)
    BY <2>2, <2>6 DEF Names, NamesIn
  <2>8. \A j \in R : Ents(e, j) = Ents(d, j) /\ (Dir(e, j) <=> Dir(d, j)) /\ e.inode[j].type = d.inode[j].type
    BY DEF Stays, Ents, Dir
  <2>9. ASSUME NEW i \in R, Dir(e, i) PROVE Listing(e, i) /\ HasParent(e, i)
    <3>1. Dir(d, i) /\ Listing(d, i) /\ HasParent(d, i) /\ e.inode[i].ptr = d.inode[i].ptr
      BY <1>2, <2>8, <2>9 DEF TreeSound, Stays
    <3>2. Ents(e, i) = Ents(d, i) /\ \A k \in 1..Len(Ents(d, i)) : Ents(d, i)[k].ino \in R
      BY <1>2, <2>8, <3>1, EntriesOfListing
    <3>3. Len(Ents(d, i)) \in Nat
      BY <1>2, EntriesOfListing
    <3>4. \A k \in 3..Len(Ents(d, i)) : Listed(e, i, k)
      <4> TAKE k \in 3..Len(Ents(d, i))
      <4>1. Listed(d, i, k) /\ Ents(d, i)[k].ino \in R
        BY <3>1, <3>2, <3>3 DEF Listing
      <4> QED  BY <4>1, <3>2, <2>8 DEF Listed
    <3>5. Listing(e, i)
      BY <3>1, <3>2, <3>4 DEF Listing, OwnPlace
    <3>6. HasParent(e, i)
      <4>1. Ents(d, i)[2].ino \in R
        BY <3>1, <3>2, <3>3 DEF Listing
      <4> QED  BY <4>1, <3>1, <3>2, <2>8 DEF HasParent
    <3> QED  BY <3>5, <3>6
  <2>10. Dir(e, ROOTINO)
    BY <1>2, <2>1, <2>8 DEF TreeSound, Complete
  <2> QED  BY <2>6, <2>7, <2>9, <2>10 DEF TreeSound
<1> QED  BY <1>1, <1>2

(* A call makes or links one more name n in the directory c.               *)
Adds(d, e, c, n, t, i) ==
  /\ d \in Disk /\ e \in Disk /\ d.magic /\ e.magic /\ TreeSound(d)
  /\ c \in ReachableOn(d) /\ Dir(d, c) /\ i \in Ino /\ n \in Name /\ t \in {"FILE", "DIR"}
  /\ \A j \in ReachableOn(d) \ {c} : Stays(d, e, j)
  /\ e.inode[c].type = "DIR" /\ e.inode[c].ptr = d.inode[c].ptr
  /\ Ents(e, c) = Append(Ents(d, c), Entry(n, t, i))
  /\ \A k \in 1..Len(Ents(d, c)) : Ents(d, c)[k].name # n \/ Ents(d, c)[k].type # t
  /\ e.inode[i].type = t
  /\ t = "DIR" => i \notin ReachableOn(d) /\ Ents(e, i) = Dots(i, c) /\ e.inode[i].ptr # <<>>

Added(c, n, t, i) ==
  {<<c, n, t, i>>} \cup (IF t = "DIR" THEN {<<i, ".", "DIR", i>>, <<i, "..", "DIR", c>>} ELSE {})

(* The fields of an entry.                                                 *)
LEMMA EntryFields ==
  \A n, t, i : Entry(n, t, i).name = n /\ Entry(n, t, i).type = t /\ Entry(n, t, i).ino = i
BY DEF Entry

(* What is reachable afterwards: what was, and the new one.                *)
LEMMA AddsReach ==
  ASSUME NEW d, NEW e, NEW c, NEW n, NEW t, NEW i, Adds(d, e, c, n, t, i)
  PROVE  /\ ReachableOn(e) = ReachableOn(d) \cup {i}
         /\ \A j \in ReachableOn(d) : Dir(e, j) = Dir(d, j) /\ e.inode[j].type = d.inode[j].type
         /\ \A j \in ReachableOn(d) \ {c} : Ents(e, j) = Ents(d, j)
         /\ EntriesOn(e, c) = EntriesOn(d, c) \cup {Entry(n, t, i)}
         /\ \A j \in ReachableOn(d) \ {c} : EntriesOn(e, j) = EntriesOn(d, j)
         /\ i # c
         /\ i \notin ReachableOn(d) =>
               EntriesOn(e, i) = IF t = "DIR" THEN {Entry(".", "DIR", i), Entry("..", "DIR", c)} ELSE {}
<1> DEFINE R == ReachableOn(d)
           Q == R \cup {i}
<1>1. /\ d \in Disk /\ e \in Disk /\ d.magic /\ e.magic
      /\ c \in R /\ Dir(d, c) /\ i \in Ino /\ t \in {"FILE", "DIR"}
  BY DEF Adds
<1>2. R \in SUBSET Ino /\ Complete(d, R) /\ Complete(e, ReachableOn(e)) /\ ReachableOn(e) \in SUBSET Ino
  BY <1>1, Reached
<1>3. \A j \in R \ {c} : e.inode[j].type = d.inode[j].type /\ Ents(e, j) = Ents(d, j)
  BY DEF Adds, Stays, Ents
<1>4. e.inode[c].type = "DIR" /\ d.inode[c].type = "DIR"
  BY DEF Adds, Dir
<1>5. \A j \in R : Dir(e, j) = Dir(d, j) /\ e.inode[j].type = d.inode[j].type
  BY <1>3, <1>4 DEF Dir
<1>6. i # c
  <2>1. CASE t = "DIR"
    BY <2>1 DEF Adds
  <2>2. CASE t = "FILE"
    BY <2>2, <1>4 DEF Adds
  <2> QED  BY <1>1, <2>1, <2>2
<1>7. EntriesOn(e, c) = EntriesOn(d, c) \cup {Entry(n, t, i)}
  <2>1. EntriesOn(d, c) = Range(Ents(d, c)) /\ EntriesOn(e, c) = Range(Ents(e, c))
    BY <1>4 DEF EntriesOn, Ents
  <2>2. Ents(d, c) \in Seq(EntryType)
    BY <1>1, EntriesOfListing
  <2>3. Ents(e, c) = Append(Ents(d, c), Entry(n, t, i))
    BY DEF Adds
  <2> DEFINE s == Ents(d, c)
             x == Entry(n, t, i)
  <2>4. Range(Append(s, x)) = Range(s) \cup {x}
    <3> HIDE DEF s, x
    <3>0. s \in Seq(EntryType)
      BY <2>2 DEF s
    <3>1. Len(s) \in Nat /\ DOMAIN s = 1..Len(s) /\ DOMAIN Append(s, x) = 1..(Len(s) + 1)
      BY <3>0
    <3>2. \A k \in 1..Len(s) : Append(s, x)[k] = s[k]
      BY <3>0
    <3>3. Append(s, x)[Len(s) + 1] = x
      BY <3>0
    <3>4. 1..(Len(s) + 1) = 1..Len(s) \cup {Len(s) + 1}
      BY <3>1
    <3> HIDE <3>0
    <3> QED  BY ONLY <3>1, <3>2, <3>3, <3>4 DEF Range
  <2> QED  BY <2>1, <2>3, <2>4
<1>8. \A j \in R \ {c} : EntriesOn(e, j) = EntriesOn(d, j)
  BY <1>3 DEF EntriesOn, Ents
<1>9. t = "DIR" => EntriesOn(e, i) = {Entry(".", "DIR", i), Entry("..", "DIR", c)}
  <2> SUFFICES ASSUME t = "DIR" PROVE EntriesOn(e, i) = {Entry(".", "DIR", i), Entry("..", "DIR", c)}
    OBVIOUS
  <2>1. e.inode[i].type = "DIR" /\ e.inode[i].ents = Dots(i, c)
    BY DEF Adds, Ents
  <2> DEFINE x == Entry(".", "DIR", i)
             y == Entry("..", "DIR", c)
  <2>2. Range(<<x, y>>) = {x, y}
    <3> HIDE DEF x, y
    <3>1. DOMAIN <<x, y>> = {1, 2}
      OBVIOUS
    <3> QED  BY <3>1 DEF Range
  <2> QED  BY <2>1, <2>2 DEF EntriesOn, Dots
<1>10. t = "FILE" => EntriesOn(e, i) = {}
  BY DEF Adds, EntriesOn
<1>11. Leads(e, c) = Leads(d, c) \cup {i}
  BY <1>7, EntryFields DEF Leads
<1>12. \A j \in R \ {c} : Leads(e, j) = Leads(d, j)
  BY <1>8 DEF Leads
<1>13. Leads(e, i) \subseteq {i, c} \cup R
  <2>1. t = "DIR" => Leads(e, i) = {i, c}
    <3>1. Entry(".", "DIR", i).ino = i /\ Entry("..", "DIR", c).ino = c
      BY DEF Entry
    <3> QED  BY <1>9, <3>1 DEF Leads
  <2>2. t = "FILE" => Leads(e, i) = {}
    BY <1>10 DEF Leads
  <2> QED  BY <2>1, <2>2, <1>1
<1>14. Complete(e, Q)
  BY <1>1, <1>2, <1>11, <1>12, <1>13 DEF Complete
<1>15. ReachableOn(e) \subseteq Q
  BY <1>1, <1>14, Reached
<1>16. Complete(d, ReachableOn(e) \cap R)
  BY <1>2, <1>11, <1>12 DEF Complete
<1>17. R \subseteq ReachableOn(e)
  BY <1>1, <1>16, Reached
<1>18. i \in ReachableOn(e)
  BY <1>1, <1>2, <1>11, <1>17 DEF Complete
<1>19. ReachableOn(e) = R \cup {i}
  BY <1>15, <1>17, <1>18
<1> QED  BY <1>1, <1>3, <1>5, <1>6, <1>7, <1>8, <1>9, <1>10, <1>19

(* The tree afterwards: every directory lists what it did, and c one more. *)
LEMMA AddsTree ==
  ASSUME NEW d, NEW e, NEW c, NEW n, NEW t, NEW i, Adds(d, e, c, n, t, i)
  PROVE  TreeSound(e) /\ Names(e) = Names(d) \cup Added(c, n, t, i)
<1> DEFINE R == ReachableOn(d)
<1>1. /\ d \in Disk /\ e \in Disk /\ d.magic /\ e.magic /\ TreeSound(d) /\ n \in Name
      /\ c \in R /\ Dir(d, c) /\ i \in Ino /\ t \in {"FILE", "DIR"} /\ e.inode[i].type = t
  BY DEF Adds
<1>2. /\ ReachableOn(e) = R \cup {i} /\ i # c
      /\ \A j \in R : Dir(e, j) = Dir(d, j) /\ e.inode[j].type = d.inode[j].type
      /\ \A j \in R \ {c} : Ents(e, j) = Ents(d, j)
  BY AddsReach
<1>3. \A j \in R : Dir(d, j) => /\ Listing(d, j) /\ HasParent(d, j)
                                /\ Len(Ents(d, j)) \in Nat
                                /\ \A k \in 1..Len(Ents(d, j)) : Ents(d, j)[k].ino \in R
  BY <1>1, EntriesOfListing DEF TreeSound
<1>4. /\ Ents(d, c) \in Seq(EntryType) /\ Ents(e, c) = Append(Ents(d, c), Entry(n, t, i))
      /\ Len(Ents(d, c)) \in Nat /\ Len(Ents(d, c)) >= 2
  BY <1>1, <1>3, EntriesOfListing DEF Adds, Listing
<1>5. /\ Len(Ents(e, c)) = Len(Ents(d, c)) + 1
      /\ \A k \in 1..Len(Ents(d, c)) : Ents(e, c)[k] = Ents(d, c)[k]
      /\ Ents(e, c)[Len(Ents(d, c)) + 1] = Entry(n, t, i)
  BY <1>4
<1>6. \A j \in R : Dir(d, j) =>
         /\ Len(Ents(e, j)) \in Nat /\ Len(Ents(e, j)) >= Len(Ents(d, j))
         /\ Len(Ents(d, j)) \in Nat /\ Len(Ents(d, j)) >= 2
         /\ \A k \in 1..Len(Ents(d, j)) : Ents(e, j)[k] = Ents(d, j)[k]
  <2> SUFFICES ASSUME NEW j \in R, Dir(d, j)
               PROVE  /\ Len(Ents(e, j)) \in Nat /\ Len(Ents(e, j)) >= Len(Ents(d, j))
                      /\ Len(Ents(d, j)) \in Nat /\ Len(Ents(d, j)) >= 2
                      /\ \A k \in 1..Len(Ents(d, j)) : Ents(e, j)[k] = Ents(d, j)[k]
    OBVIOUS
  <2>1. Len(Ents(d, j)) \in Nat /\ Len(Ents(d, j)) >= 2
    BY <1>3 DEF Listing
  <2>2. CASE j = c
    BY <1>4, <1>5, <2>2
  <2>3. CASE j # c
    BY <1>2, <2>1, <2>3
  <2> QED  BY <2>2, <2>3
<1>7. t = "DIR" => /\ i \notin R /\ e.inode[i].ptr # <<>> /\ i # ROOTINO
                   /\ Len(Ents(e, i)) = 2 /\ Ents(e, i)[1] = Entry(".", "DIR", i)
                   /\ Ents(e, i)[2] = Entry("..", "DIR", c) /\ Ents(e, i)[2].ino = c
  <2>1. ROOTINO \in R
    BY <1>1, Reached DEF Complete
  <2> QED  BY <2>1 DEF Adds, Dots, Entry
<1>8. ASSUME NEW j \in R, Dir(d, j), NEW k \in 3..Len(Ents(d, j)) PROVE Listed(e, j, k)
  <2> DEFINE x == Ents(d, j)[k]
  <2>1. Listed(d, j, k) /\ x.ino \in R /\ Ents(e, j)[k] = x
    BY <1>3, <1>6, <1>8 DEF Listing
  <2>2. e.inode[x.ino].type = x.type /\ x.name \in Name
    BY <1>2, <2>1 DEF Listed
  <2>3. ASSUME x.type = "DIR" PROVE x.ino # ROOTINO /\ Ents(e, x.ino)[2].ino = j
    <3>1. x.ino # ROOTINO /\ Ents(d, x.ino)[2].ino = j /\ Dir(d, x.ino)
      BY <2>1, <2>3 DEF Listed, Dir
    <3>2. Ents(e, x.ino)[2] = Ents(d, x.ino)[2]
      BY <1>6, <2>1, <3>1
    <3> QED  BY <3>1, <3>2
  <2> QED  BY <2>1, <2>2, <2>3 DEF Listed
<1>9. Listed(e, c, Len(Ents(d, c)) + 1)
  <2>1. Entry(n, t, i).name = n /\ Entry(n, t, i).type = t /\ Entry(n, t, i).ino = i
    BY DEF Entry
  <2> QED  BY <1>1, <1>5, <1>7, <2>1 DEF Listed
<1>10. ASSUME NEW k \in 3..(Len(Ents(d, c)) + 1), NEW l \in 3..(Len(Ents(d, c)) + 1)
       PROVE  OwnPlace(e, c, k, l)
  <2> DEFINE m == Len(Ents(d, c))
             x == Entry(n, t, i)
  <2>1. x.name = n /\ x.type = t /\ x.ino = i
    BY DEF Entry
  <2>2. ASSUME NEW p \in 3..m
        PROVE  /\ Ents(d, c)[p].name # n \/ Ents(d, c)[p].type # t
               /\ t = "DIR" \/ Ents(d, c)[p].type = "DIR" => Ents(d, c)[p].ino # i
    <3>1. p \in 1..m
      BY <1>4
    <3>2. Ents(d, c)[p].name # n \/ Ents(d, c)[p].type # t
      BY <3>1 DEF Adds
    <3>3. Ents(d, c)[p].ino \in R /\ Listed(d, c, p)
      BY <1>1, <1>3, <3>1 DEF Listing
    <3>4. t = "DIR" => Ents(d, c)[p].ino # i
      BY <1>7, <3>3
    <3>5. ASSUME Ents(d, c)[p].type = "DIR", t # "DIR" PROVE Ents(d, c)[p].ino # i
      BY <1>1, <1>2, <3>3, <3>5 DEF Listed
    <3> QED  BY <3>2, <3>4, <3>5
  <2>3. CASE k \in 3..m /\ l \in 3..m
    <3>1. OwnPlace(d, c, k, l)
      <4>1. \A p, q \in 3..m : OwnPlace(d, c, p, q)
        BY <1>1, <1>3 DEF Listing
      <4> QED  BY ONLY <4>1, <2>3
    <3>2. Ents(e, c)[k] = Ents(d, c)[k] /\ Ents(e, c)[l] = Ents(d, c)[l]
      BY <1>4, <1>5, <2>3
    <3> QED  BY <3>1, <3>2 DEF OwnPlace
  <2>4. CASE k \in 3..m /\ l = m + 1
    <3>1. Ents(e, c)[k] = Ents(d, c)[k] /\ Ents(e, c)[l] = x
      BY <1>4, <1>5, <2>4
    <3> HIDE DEF x
    <3>2. /\ Ents(d, c)[k].name # x.name \/ Ents(d, c)[k].type # x.type
          /\ Ents(d, c)[k].type = "DIR" => Ents(d, c)[k].ino # x.ino
      BY <2>1, <2>2, <2>4
    <3>3. Ents(d, c)[k].name = x.name => Ents(d, c)[k].type # x.type
      BY <3>2
    <3> QED  BY ONLY <3>1, <3>2, <3>3 DEF OwnPlace
  <2>5. CASE k = m + 1 /\ l \in 3..m
    <3>1. Ents(e, c)[l] = Ents(d, c)[l] /\ Ents(e, c)[k] = x
      BY <1>4, <1>5, <2>5
    <3> HIDE DEF x
    <3>2. /\ x.name # Ents(d, c)[l].name \/ x.type # Ents(d, c)[l].type
          /\ x.type = "DIR" => x.ino # Ents(d, c)[l].ino
      BY <2>1, <2>2, <2>5
    <3> QED  BY <3>1, <3>2 DEF OwnPlace
  <2>6. CASE k = m + 1 /\ l = m + 1
    BY <2>6 DEF OwnPlace
  <2>7. k \in 3..m \/ k = m + 1
    BY <1>4
  <2>8. l \in 3..m \/ l = m + 1
    BY <1>4
  <2> QED  BY <2>3, <2>4, <2>5, <2>6, <2>7, <2>8
<1>11. ASSUME NEW j \in R, Dir(d, j) PROVE Listing(e, j)
  <2>1. CASE j # c
    <3>1. Ents(e, j) = Ents(d, j) /\ e.inode[j].ptr = d.inode[j].ptr
      BY <1>2, <1>11, <2>1 DEF Adds, Stays
    <3> QED  BY <3>1, <1>3, <1>8, <1>11 DEF Listing, OwnPlace
  <2>2. CASE j = c
    <3>1. e.inode[c].ptr # <<>>
      BY <1>1, <1>3 DEF Adds, Listing
    <3>2. Len(Ents(e, c)) >= 2
      BY <1>4, <1>5
    <3>3. Ents(e, c)[1] = Ents(d, c)[1] /\ Ents(e, c)[2] = Ents(d, c)[2]
      BY <1>4, <1>5
    <3>4. \A k \in 3..Len(Ents(e, c)) : Listed(e, c, k)
      <4> TAKE k \in 3..Len(Ents(e, c))
      <4>1. k \in 3..Len(Ents(d, c)) \/ k = Len(Ents(d, c)) + 1
        BY <1>4, <1>5
      <4> QED  BY <4>1, <1>1, <1>8, <1>9
    <3>5. \A k, l \in 3..Len(Ents(e, c)) : OwnPlace(e, c, k, l)
      BY <1>5, <1>10
    <3> QED  BY <2>2, <3>1, <3>2, <3>3, <3>4, <3>5, <1>1, <1>3 DEF Listing
  <2> QED  BY <2>1, <2>2
<1>12. ASSUME NEW j \in R, Dir(d, j) PROVE HasParent(e, j)
  <2>1. HasParent(d, j) /\ Len(Ents(d, j)) >= 2 /\ Len(Ents(d, j)) \in Nat
    BY <1>3, <1>12 DEF Listing
  <2> DEFINE p == Ents(d, j)[2].ino
  <2>2. Ents(e, j)[2].ino = p /\ p \in R
    BY <1>3, <1>6, <1>12, <2>1
  <2>3. CASE j = ROOTINO
    BY <2>1, <2>2, <2>3 DEF HasParent
  <2>4. CASE j # ROOTINO
    <3>1. Dir(d, p) /\ \E k \in 3..Len(Ents(d, p)) : Ents(d, p)[k].ino = j
      BY <2>1, <2>4 DEF HasParent
    <3>2. Dir(e, p)
      BY <1>2, <2>2, <3>1
    <3>3. PICK k \in 3..Len(Ents(d, p)) : Ents(d, p)[k].ino = j
      BY <3>1
    <3>4. k \in 3..Len(Ents(e, p)) /\ Ents(e, p)[k] = Ents(d, p)[k]
      <4> HIDE DEF p
      <4> QED  BY <1>6, <2>2, <3>1
    <3> HIDE DEF p
    <3> QED  BY <2>2, <2>4, <3>2, <3>3, <3>4 DEF HasParent
  <2> QED  BY <2>3, <2>4
<1>13. ASSUME i \notin R, t = "DIR" PROVE Listing(e, i) /\ HasParent(e, i)
  <2>1. Listing(e, i)
    <3>1. /\ e.inode[i].ptr # <<>> /\ Len(Ents(e, i)) = 2 /\ Ents(e, i)[1] = Entry(".", "DIR", i)
          /\ Ents(e, i)[2] = Entry("..", "DIR", Ents(e, i)[2].ino)
      BY <1>7, <1>13
    <3>2. 3..Len(Ents(e, i)) = {}
      BY ONLY <3>1
    <3> QED  BY ONLY <3>1, <3>2 DEF Listing
  <2>2. Dir(e, c)
    BY <1>1, <1>2
  <2>3. Len(Ents(d, c)) + 1 \in 3..Len(Ents(e, c)) /\ Ents(e, c)[Len(Ents(d, c)) + 1].ino = i
    BY <1>4, <1>5 DEF Entry
  <2> QED  BY <2>1, <2>2, <2>3, <1>7, <1>13 DEF HasParent
<1>14. TreeSound(e)
  <2>1. Dir(e, ROOTINO)
    BY <1>1, <1>2, Reached DEF TreeSound, Complete
  <2>2. ASSUME NEW j \in R \cup {i}, Dir(e, j) PROVE Listing(e, j) /\ HasParent(e, j)
    <3>1. CASE j \in R
      BY <3>1, <2>2, <1>2, <1>11, <1>12
    <3>2. CASE j \notin R
      BY <3>2, <2>2, <1>1, <1>13 DEF Dir
    <3> QED  BY <3>1, <3>2
  <2> QED  BY <2>1, <2>2, <1>2 DEF TreeSound
<1>15. Names(e) = Names(d) \cup Added(c, n, t, i)
  <2>1. /\ EntriesOn(e, c) = EntriesOn(d, c) \cup {Entry(n, t, i)}
        /\ \A j \in R \ {c} : EntriesOn(e, j) = EntriesOn(d, j)
        /\ i \notin R => EntriesOn(e, i) = IF t = "DIR" THEN {Entry(".", "DIR", i), Entry("..", "DIR", c)}
                                                       ELSE {}
    BY AddsReach
  <2>2. NamesIn(e, c) = NamesIn(d, c) \cup {<<c, n, t, i>>}
    BY <2>1, EntryFields DEF NamesIn
  <2>3. \A j \in R \ {c} : NamesIn(e, j) = NamesIn(d, j)
    BY <2>1 DEF NamesIn
  <2>4. i \notin R => NamesIn(e, i) = IF t = "DIR" THEN {<<i, ".", "DIR", i>>, <<i, "..", "DIR", c>>} ELSE {}
    <3>1. ASSUME i \notin R, t = "DIR"
          PROVE  NamesIn(e, i) = {<<i, ".", "DIR", i>>, <<i, "..", "DIR", c>>}
      <4> DEFINE x == Entry(".", "DIR", i)
                 y == Entry("..", "DIR", c)
      <4>1. EntriesOn(e, i) = {x, y}
        BY <2>1, <3>1
      <4>2. /\ x.name = "." /\ x.type = "DIR" /\ x.ino = i
            /\ y.name = ".." /\ y.type = "DIR" /\ y.ino = c
        BY EntryFields
      <4> HIDE DEF x, y
      <4>3. NamesIn(e, i) = {<<i, x.name, x.type, x.ino>>, <<i, y.name, y.type, y.ino>>}
        BY <4>1 DEF NamesIn
      <4> QED  BY <4>2, <4>3
    <3>2. ASSUME i \notin R, t # "DIR" PROVE NamesIn(e, i) = {}
      BY <2>1, <3>2 DEF NamesIn
    <3> QED  BY <3>1, <3>2
  <2>5. t = "DIR" => i \notin R
    BY <1>7
  <2>6. Names(e) = UNION {NamesIn(e, j) : j \in R \cup {i}} /\ Names(d) = UNION {NamesIn(d, j) : j \in R}
    BY <1>2 DEF Names
  <2> HIDE DEF R
  <2>7. CASE i \in R
    <3>1. t # "DIR" /\ R \cup {i} = R
      BY <2>5, <2>7
    <3> QED  BY ONLY <2>2, <2>3, <2>6, <3>1, <1>1 DEF Added
  <2>8. CASE i \notin R
    <3>1. Names(e) = (UNION {NamesIn(e, j) : j \in R}) \cup NamesIn(e, i)
      BY ONLY <2>6
    <3>2. (UNION {NamesIn(e, j) : j \in R}) = Names(d) \cup {<<c, n, t, i>>}
      BY ONLY <2>2, <2>3, <2>6, <1>1
    <3> QED  BY ONLY <2>4, <2>8, <3>1, <3>2 DEF Added
  <2> QED  BY <2>7, <2>8
<1> QED  BY <1>14, <1>15

(* A call takes the k-th entry out of the directory c: a name of inode i,   *)
(* which is a file, or a directory that lists nothing but itself and c.    *)
Drops(d, e, c, k, i) ==
  /\ d \in Disk /\ e \in Disk /\ d.magic /\ e.magic /\ TreeSound(d)
  /\ c \in ReachableOn(d) /\ Dir(d, c) /\ k \in 3..Len(Ents(d, c)) /\ i = Ents(d, c)[k].ino
  /\ \A j \in ReachableOn(d) \ {c, i} : Stays(d, e, j)
  /\ e.inode[c].type = "DIR" /\ e.inode[c].ptr = d.inode[c].ptr
  /\ Ents(e, c) = RemoveAt(Ents(d, c), k)
  /\ Dir(d, i) => Len(Ents(d, i)) <= 2
  /\ ~ Dir(d, i) => e.inode[i].type = "FILE"

Dropped(d, c, k, i) ==
  {<<c, Ents(d, c)[k].name, Ents(d, c)[k].type, i>>} \cup
  (IF Dir(d, i) THEN {<<i, ".", "DIR", i>>, <<i, "..", "DIR", c>>} ELSE {})

(* What such an i is, and who lists it.                                    *)
LEMMA DropsFacts ==
  ASSUME NEW d, NEW e, NEW c, NEW k, NEW i, Drops(d, e, c, k, i)
  PROVE  /\ i \in ReachableOn(d) /\ i # c /\ i # ROOTINO
         /\ Listed(d, c, k) /\ (Dir(d, i) <=> Ents(d, c)[k].type = "DIR")
         /\ \A j \in ReachableOn(d) : Dir(d, j) =>
               /\ Listing(d, j) /\ HasParent(d, j) /\ Len(Ents(d, j)) \in Nat /\ Len(Ents(d, j)) >= 2
               /\ \A l \in 1..Len(Ents(d, j)) : Ents(d, j)[l].ino \in ReachableOn(d)
         /\ \A j \in ReachableOn(d) \ {i} : Dir(d, j) => Ents(d, j)[2].ino # i
         /\ Dir(d, i) => /\ Len(Ents(d, i)) = 2 /\ Ents(d, i)[2].ino = c
                         /\ \A j \in ReachableOn(d) \ {c, i} : i \notin Leads(d, j)
                         /\ \A l \in 1..Len(Ents(d, c)) \ {k} : Ents(d, c)[l].ino # i
<1> DEFINE R == ReachableOn(d)
<1>1. /\ d \in Disk /\ d.magic /\ TreeSound(d) /\ c \in R /\ Dir(d, c)
      /\ k \in 3..Len(Ents(d, c)) /\ i = Ents(d, c)[k].ino /\ (Dir(d, i) => Len(Ents(d, i)) <= 2)
  BY DEF Drops
<1>2. \A j \in R : Dir(d, j) =>
               /\ Listing(d, j) /\ HasParent(d, j) /\ Len(Ents(d, j)) \in Nat /\ Len(Ents(d, j)) >= 2
               /\ \A l \in 1..Len(Ents(d, j)) : Ents(d, j)[l].ino \in R
  BY <1>1, EntriesOfListing DEF TreeSound, Listing
<1>3. Listed(d, c, k) /\ k \in 1..Len(Ents(d, c)) /\ Len(Ents(d, c)) \in Nat /\ Len(Ents(d, c)) >= 3
  BY <1>1, <1>2 DEF Listing
<1>4. i \in R /\ (Dir(d, i) <=> Ents(d, c)[k].type = "DIR")
  BY <1>1, <1>2, <1>3 DEF Listed, Dir
<1>5. i # c
  BY <1>1, <1>3
<1>6. i # ROOTINO
  BY <1>1, <1>3, <1>4 DEF Listed, TreeSound
<1>7. Dir(d, i) => Len(Ents(d, i)) = 2 /\ Ents(d, i)[2].ino = c
  <2>1. ASSUME Dir(d, i) PROVE Len(Ents(d, i)) = 2
    <3>1. Len(Ents(d, i)) \in Nat /\ Len(Ents(d, i)) >= 2
      BY <1>2, <1>4, <2>1
    <3>2. Len(Ents(d, i)) <= 2
      BY <1>1, <2>1
    <3> QED  BY ONLY <3>1, <3>2
  <2>2. Dir(d, i) => Ents(d, i)[2].ino = c
    BY <1>1, <1>3, <1>4 DEF Listed
  <2> QED  BY <2>1, <2>2
<1>8. ASSUME NEW j \in R \ {i}, Dir(d, j) PROVE Ents(d, j)[2].ino # i
  <2>1. HasParent(d, j)
    BY <1>2, <1>8
  <2>2. ASSUME Dir(d, i) PROVE 3..Len(Ents(d, i)) = {}
    <3>1. Len(Ents(d, i)) = 2
      BY <1>7, <2>2
    <3> QED  BY ONLY <3>1
  <2> QED  BY <2>1, <2>2, <1>6, <1>8 DEF HasParent
<1>9. ASSUME Dir(d, i), NEW j \in R \ {i}, Dir(d, j), NEW l \in 1..Len(Ents(d, j)), Ents(d, j)[l].ino = i
      PROVE  j = c /\ l = k
  <2>1. Listing(d, j) /\ Len(Ents(d, j)) \in Nat
    BY <1>2, <1>9
  <2>2. l # 1
    BY <2>1, <1>9, EntryFields DEF Listing
  <2>3. l # 2
    BY <1>8, <1>9
  <2>4. l \in 3..Len(Ents(d, j)) /\ Listed(d, j, l)
    BY <2>1, <2>2, <2>3 DEF Listing
  <2>5. Ents(d, j)[l].type = "DIR"
    BY <2>4, <1>9 DEF Listed, Dir
  <2>6. j = c
    BY <2>4, <2>5, <1>7, <1>9 DEF Listed
  <2>7. OwnPlace(d, c, k, l)
    <3>1. \A p, q \in 3..Len(Ents(d, c)) : OwnPlace(d, c, p, q)
      BY <2>1, <2>6 DEF Listing
    <3> QED  BY ONLY <3>1, <2>4, <2>6, <1>1
  <2> QED  BY <2>6, <2>7, <1>1, <1>4, <1>9 DEF OwnPlace
<1>10. ASSUME Dir(d, i), NEW j \in R \ {c, i} PROVE i \notin Leads(d, j)
  <2>1. CASE Dir(d, j)
    <3>1. EntriesOn(d, j) = {Ents(d, j)[l] : l \in 1..Len(Ents(d, j))}
      BY <1>1, <2>1, EntriesOfListing
    <3>2. \A l \in 1..Len(Ents(d, j)) : Ents(d, j)[l].ino # i
      BY <1>9, <1>10, <2>1
    <3> QED  BY <3>1, <3>2 DEF Leads
  <2>2. CASE ~ Dir(d, j)
    BY <2>2 DEF Leads, EntriesOn, Dir
  <2> QED  BY <2>1, <2>2
<1>11. ASSUME Dir(d, i), NEW l \in 1..Len(Ents(d, c)) \ {k} PROVE Ents(d, c)[l].ino # i
  BY <1>1, <1>5, <1>9, <1>11
<1> QED  BY <1>2, <1>3, <1>4, <1>5, <1>6, <1>7, <1>8, <1>10, <1>11

(* What the directory lists afterwards.                                    *)
LEMMA DropsEntries ==
  ASSUME NEW d, NEW e, NEW c, NEW k, NEW i, Drops(d, e, c, k, i)
  PROVE  /\ EntriesOn(e, c) = {Ents(d, c)[l] : l \in 1..Len(Ents(d, c)) \ {k}}
         /\ EntriesOn(d, c) = EntriesOn(e, c) \cup {Ents(d, c)[k]}
         /\ Ents(d, c)[k] \notin EntriesOn(e, c)
         /\ \A x \in EntriesOn(e, c) : x.name # Ents(d, c)[k].name \/ x.type # Ents(d, c)[k].type
         /\ Len(Ents(e, c)) = Len(Ents(d, c)) - 1
         /\ \A l \in 1..(Len(Ents(d, c)) - 1) :
               Ents(e, c)[l] = IF l < k THEN Ents(d, c)[l] ELSE Ents(d, c)[l + 1]
         /\ \A j \in ReachableOn(d) \ {c, i} : EntriesOn(e, j) = EntriesOn(d, j)
<1> DEFINE s == Ents(d, c)
<1>1. /\ d \in Disk /\ d.magic /\ c \in ReachableOn(d) /\ Dir(d, c) /\ k \in 3..Len(s)
      /\ e.inode[c].type = "DIR" /\ Ents(e, c) = RemoveAt(s, k)
  BY DEF Drops
<1>2. s \in Seq(EntryType) /\ Len(s) \in Nat /\ k \in 1..Len(s)
      /\ EntriesOn(d, c) = {s[l] : l \in 1..Len(s)}
  BY <1>1, EntriesOfListing
<1>3. /\ Len(Ents(e, c)) = Len(s) - 1 /\ Range(Ents(e, c)) = {s[l] : l \in 1..Len(s) \ {k}}
      /\ \A l \in 1..(Len(s) - 1) : Ents(e, c)[l] = IF l < k THEN s[l] ELSE s[l + 1]
  <2> HIDE DEF s
  <2>1. /\ Len(RemoveAt(s, k)) = Len(s) - 1 /\ Range(RemoveAt(s, k)) = {s[j] : j \in 1..Len(s) \ {k}}
        /\ \A j \in 1..(Len(s) - 1) : RemoveAt(s, k)[j] = IF j < k THEN s[j] ELSE s[j + 1]
    <3>1. s \in Seq(EntryType) /\ k \in 1..Len(s)
      BY <1>2
    <3> QED  BY ONLY <3>1, Removed
  <2> QED  BY ONLY <1>1, <2>1
<1>4. EntriesOn(e, c) = {s[l] : l \in 1..Len(s) \ {k}}
  BY <1>1, <1>3 DEF EntriesOn, Ents
<1>5. EntriesOn(d, c) = EntriesOn(e, c) \cup {s[k]}
  BY <1>2, <1>4
<1>6. Listing(d, c) /\ Listed(d, c, k)
  BY <1>1, DropsFacts
<1>7. ASSUME NEW l \in 1..Len(s) \ {k} PROVE s[l].name # s[k].name \/ s[l].type # s[k].type
  <2>1. CASE l \in {1, 2}
    <3>1. s[l].name \in {".", ".."}
      BY <1>6, <2>1, EntryFields DEF Listing
    <3> QED  BY <3>1, <1>6, FileSysAssumption DEF Listed, FileSysAssumption
  <2>2. CASE l \in 3..Len(s)
    <3>1. \A p, q \in 3..Len(s) : OwnPlace(d, c, p, q)
      BY <1>6 DEF Listing
    <3>2. OwnPlace(d, c, l, k)
      BY ONLY <3>1, <1>1, <2>2
    <3> QED  BY <3>2, <1>7 DEF OwnPlace
  <2> QED  BY <1>2, <2>1, <2>2
<1>8. \A x \in EntriesOn(e, c) : x.name # s[k].name \/ x.type # s[k].type
  BY <1>4, <1>7
<1>9. s[k] \notin EntriesOn(e, c)
  BY <1>8
<1>10. \A j \in ReachableOn(d) \ {c, i} : EntriesOn(e, j) = EntriesOn(d, j)
  BY DEF Drops, Stays, EntriesOn
<1> QED  BY <1>3, <1>4, <1>5, <1>8, <1>9, <1>10

(* What is reachable afterwards: all but i, and i if it is a file that has  *)
(* another name.                                                           *)
LEMMA DropsReach ==
  ASSUME NEW d, NEW e, NEW c, NEW k, NEW i, Drops(d, e, c, k, i)
  PROVE  /\ ReachableOn(e) \subseteq ReachableOn(d) /\ ReachableOn(d) \ {i} \subseteq ReachableOn(e)
         /\ Dir(d, i) => i \notin ReachableOn(e)
         /\ \A j \in ReachableOn(d) \ {i} : Dir(e, j) = Dir(d, j) /\ e.inode[j].type = d.inode[j].type
         /\ EntriesOn(e, i) = {} \/ Dir(d, i)
<1> DEFINE R == ReachableOn(d)
           Q == ReachableOn(e)
           s == Ents(d, c)
<1>1. /\ d \in Disk /\ e \in Disk /\ d.magic /\ e.magic /\ c \in R /\ Dir(d, c)
      /\ ~ Dir(d, i) => e.inode[i].type = "FILE"
  BY DEF Drops
<1>2. R \in SUBSET Ino /\ Q \in SUBSET Ino /\ Complete(d, R) /\ Complete(e, Q)
  BY <1>1, Reached
<1>3. i \in R /\ i # c /\ i # ROOTINO
  BY DropsFacts
<1>4. \A j \in R \ {i} : Dir(e, j) = Dir(d, j) /\ e.inode[j].type = d.inode[j].type
  BY <1>1 DEF Drops, Stays, Dir
<1>5. Leads(d, c) = Leads(e, c) \cup {i}
  <2>1. EntriesOn(d, c) = EntriesOn(e, c) \cup {s[k]}
    BY DropsEntries
  <2>2. s[k].ino = i
    BY DEF Drops
  <2> QED  BY <2>1, <2>2 DEF Leads
<1>6. \A j \in R \ {c, i} : Leads(e, j) = Leads(d, j)
  BY DropsEntries DEF Leads
<1>7. ~ Dir(d, i) => Leads(d, i) = {} /\ Leads(e, i) = {} /\ EntriesOn(e, i) = {}
  BY <1>1 DEF Leads, EntriesOn, Dir
<1>8. Dir(d, i) => Leads(d, i) = {i, c}
  <2> SUFFICES ASSUME Dir(d, i) PROVE Leads(d, i) = {i, c}
    OBVIOUS
  <2>1. Len(Ents(d, i)) = 2 /\ Ents(d, i)[2].ino = c /\ Listing(d, i)
    BY <1>3, DropsFacts
  <2>2. Ents(d, i)[1].ino = i
    BY <2>1, EntryFields DEF Listing
  <2>3. EntriesOn(d, i) = {Ents(d, i)[l] : l \in 1..Len(Ents(d, i))}
    BY <1>1, <1>3, EntriesOfListing
  <2>4. EntriesOn(d, i) = {Ents(d, i)[1], Ents(d, i)[2]}
    BY <2>1, <2>3
  <2> QED  BY <2>1, <2>2, <2>4 DEF Leads
<1>9. Dir(d, i) => i \notin Leads(e, c) /\ \A j \in R \ {c, i} : i \notin Leads(d, j)
  <2> SUFFICES ASSUME Dir(d, i) PROVE i \notin Leads(e, c) /\ \A j \in R \ {c, i} : i \notin Leads(d, j)
    OBVIOUS
  <2>1. EntriesOn(e, c) = {s[l] : l \in 1..Len(s) \ {k}}
    BY DropsEntries
  <2>2. \A l \in 1..Len(s) \ {k} : s[l].ino # i
    BY DropsFacts
  <2>3. i \notin Leads(e, c)
    BY <2>1, <2>2 DEF Leads
  <2> QED  BY <2>3, DropsFacts
<1>10. Dir(d, i) => Q \subseteq R \ {i}
  <2> SUFFICES ASSUME Dir(d, i) PROVE Q \subseteq R \ {i}
    OBVIOUS
  <2>1. Complete(e, R \ {i})
    BY <1>2, <1>3, <1>5, <1>6, <1>9 DEF Complete
  <2> QED  BY <2>1, <1>1, Reached
<1>11. ~ Dir(d, i) => Q \subseteq R
  <2> SUFFICES ASSUME ~ Dir(d, i) PROVE Q \subseteq R
    OBVIOUS
  <2>1. Complete(e, R)
    BY <1>2, <1>3, <1>5, <1>6, <1>7 DEF Complete
  <2> QED  BY <2>1, <1>1, Reached
<1>12. Dir(d, i) => c \in Q
  <2> SUFFICES ASSUME Dir(d, i), c \notin Q PROVE FALSE
    OBVIOUS
  <2>1. Complete(d, Q)
    BY <1>2, <1>6, <1>10 DEF Complete
  <2> QED  BY <2>1, <1>1, Reached
<1>13. Complete(d, Q \cup {i})
  <2>1. CASE Dir(d, i)
    BY <2>1, <1>2, <1>5, <1>6, <1>8, <1>10, <1>12 DEF Complete
  <2>2. CASE ~ Dir(d, i)
    BY <2>2, <1>2, <1>5, <1>6, <1>7, <1>11 DEF Complete
  <2> QED  BY <2>1, <2>2
<1>14. R \subseteq Q \cup {i}
  BY <1>1, <1>13, Reached
<1> QED  BY <1>4, <1>7, <1>10, <1>11, <1>14

(* The tree afterwards: the same, without what was dropped.                *)
LEMMA DropsTree ==
  ASSUME NEW d, NEW e, NEW c, NEW k, NEW i, Drops(d, e, c, k, i)
  PROVE  TreeSound(e) /\ Names(e) = Names(d) \ Dropped(d, c, k, i)
<1> DEFINE R == ReachableOn(d)
           Q == ReachableOn(e)
           s == Ents(d, c)
<1>1. /\ d \in Disk /\ e \in Disk /\ d.magic /\ e.magic /\ TreeSound(d) /\ c \in R /\ Dir(d, c)
      /\ k \in 3..Len(s) /\ e.inode[c].ptr = d.inode[c].ptr /\ (~ Dir(d, i) => e.inode[i].type = "FILE")
  BY DEF Drops
<1>2. /\ i \in R /\ i # c /\ i # ROOTINO /\ Listed(d, c, k) /\ (Dir(d, i) <=> s[k].type = "DIR")
      /\ \A j \in R : Dir(d, j) =>
               /\ Listing(d, j) /\ HasParent(d, j) /\ Len(Ents(d, j)) \in Nat /\ Len(Ents(d, j)) >= 2
               /\ \A l \in 1..Len(Ents(d, j)) : Ents(d, j)[l].ino \in R
  BY DropsFacts
<1>3. /\ Q \subseteq R /\ R \ {i} \subseteq Q /\ (Dir(d, i) => i \notin Q)
      /\ \A j \in R \ {i} : Dir(e, j) = Dir(d, j) /\ e.inode[j].type = d.inode[j].type
  BY DropsReach
<1>4. /\ Len(Ents(e, c)) = Len(s) - 1
      /\ \A l \in 1..(Len(s) - 1) : Ents(e, c)[l] = IF l < k THEN s[l] ELSE s[l + 1]
      /\ Len(s) \in Nat /\ k \in Nat /\ 3 <= k /\ k <= Len(s)
  BY <1>1, <1>2, DropsEntries
<1>5. \A j \in R \ {c, i} : Ents(e, j) = Ents(d, j) /\ (Dir(d, j) => e.inode[j].ptr = d.inode[j].ptr)
  BY DEF Drops, Stays, Ents
<1>6. \A j \in R \ {i} : Dir(d, j) => /\ Ents(e, j)[1] = Ents(d, j)[1] /\ Ents(e, j)[2] = Ents(d, j)[2]
                                      /\ Len(Ents(e, j)) >= 2 /\ Len(Ents(e, j)) \in Nat
  <2> SUFFICES ASSUME NEW j \in R \ {i}, Dir(d, j)
               PROVE  /\ Ents(e, j)[1] = Ents(d, j)[1] /\ Ents(e, j)[2] = Ents(d, j)[2]
                      /\ Len(Ents(e, j)) >= 2 /\ Len(Ents(e, j)) \in Nat
    OBVIOUS
  <2>1. CASE j = c
    <3>1. 1 \in 1..(Len(s) - 1) /\ 2 \in 1..(Len(s) - 1) /\ 1 < k /\ 2 < k
      BY ONLY <1>4
    <3> HIDE DEF s
    <3> QED  BY <2>1, <3>1, <1>4 DEF s
  <2>2. CASE j # c
    BY <1>2, <1>5, <2>2
  <2> QED  BY <2>1, <2>2
(* Every entry of a directory that is left was one of its entries before.  *)
<1>7. ASSUME NEW j \in R \ {i}, Dir(d, j), NEW l \in 3..Len(Ents(e, j))
      PROVE  \E m \in 3..Len(Ents(d, j)) : /\ Ents(e, j)[l] = Ents(d, j)[m]
                                           /\ j = c => m # k /\ m = IF l < k THEN l ELSE l + 1
  <2>1. CASE j # c
    BY <1>5, <1>7, <2>1
  <2>2. CASE j = c
    <3> DEFINE m == IF l < k THEN l ELSE l + 1
    <3>1. l \in 3..(Len(s) - 1)
      BY <1>4, <2>2
    <3>2. m \in 3..Len(s) /\ m # k /\ l \in 1..(Len(s) - 1)
      BY ONLY <1>4, <3>1
    <3>3. Ents(e, c)[l] = s[m]
      BY <1>4, <3>2
    <3> QED  BY <2>2, <3>2, <3>3
  <2> QED  BY <2>1, <2>2
<1>8. ASSUME NEW j \in R \ {i}, Dir(d, j), NEW m \in 1..Len(Ents(d, j)), j = c => m # k, Dir(d, i)
      PROVE  Ents(d, j)[m].ino # i
  <2>1. CASE j = c
    BY <2>1, <1>8, DropsFacts
  <2>2. CASE j # c
    <3>1. i \notin Leads(d, j)
      BY <2>2, <1>8, DropsFacts
    <3>2. EntriesOn(d, j) = {Ents(d, j)[l] : l \in 1..Len(Ents(d, j))}
      BY <1>1, <1>8, EntriesOfListing
    <3> QED  BY <3>1, <3>2, <1>8 DEF Leads
  <2> QED  BY <2>1, <2>2
<1>9. ASSUME NEW j \in R \ {i}, Dir(d, j), NEW l \in 3..Len(Ents(e, j)) PROVE Listed(e, j, l)
  <2>1. PICK m \in 3..Len(Ents(d, j)) : Ents(e, j)[l] = Ents(d, j)[m] /\ (j = c => m # k)
    BY <1>7, <1>9
  <2> DEFINE x == Ents(d, j)[m]
  <2>2. Listed(d, j, m) /\ x.ino \in R /\ m \in 1..Len(Ents(d, j))
    BY <1>2, <1>9 DEF Listing
  <2>3. CASE x.ino = i
    <3>1. ~ Dir(d, i)
      BY <1>8, <1>9, <2>1, <2>2, <2>3
    <3>2. x.type = d.inode[i].type /\ d.inode[i].type \in {"FILE", "DIR"}
      <4>1. d.inode[i] \in Inode
        BY <1>1, <1>2, Reached DEF Disk
      <4> QED  BY <4>1, <2>2, <2>3 DEF Listed, Inode
    <3>3. x.type = "FILE" /\ e.inode[i].type = "FILE"
      BY <3>1, <3>2, <1>1 DEF Dir
    <3> QED  BY <2>1, <2>2, <2>3, <3>3 DEF Listed
  <2>4. CASE x.ino # i
    <3>1. e.inode[x.ino].type = x.type /\ x.name \in Name
      BY <1>3, <2>2, <2>4 DEF Listed
    <3>2. ASSUME x.type = "DIR" PROVE x.ino # ROOTINO /\ Ents(e, x.ino)[2].ino = j
      <4>1. x.ino # ROOTINO /\ Ents(d, x.ino)[2].ino = j /\ Dir(d, x.ino)
        BY <2>2, <3>2 DEF Listed, Dir
      <4>2. Ents(e, x.ino)[2] = Ents(d, x.ino)[2]
        BY <1>6, <2>2, <2>4, <4>1
      <4> QED  BY <4>1, <4>2
    <3> QED  BY <2>1, <3>1, <3>2 DEF Listed
  <2> QED  BY <2>3, <2>4
<1>10. ASSUME NEW j \in R \ {i}, Dir(d, j), NEW l \in 3..Len(Ents(e, j)), NEW p \in 3..Len(Ents(e, j))
       PROVE  OwnPlace(e, j, l, p)
  <2>1. PICK m \in 3..Len(Ents(d, j)) : /\ Ents(e, j)[l] = Ents(d, j)[m]
                                        /\ j = c => m = IF l < k THEN l ELSE l + 1
    BY <1>7, <1>10
  <2>2. PICK q \in 3..Len(Ents(d, j)) : /\ Ents(e, j)[p] = Ents(d, j)[q]
                                        /\ j = c => q = IF p < k THEN p ELSE p + 1
    BY <1>7, <1>10
  <2>3. \A x, y \in 3..Len(Ents(d, j)) : OwnPlace(d, j, x, y)
    BY <1>2, <1>10 DEF Listing
  <2>4. OwnPlace(d, j, m, q)
    BY ONLY <2>3, m \in 3..Len(Ents(d, j)), q \in 3..Len(Ents(d, j))
  <2>5. CASE j = c
    <3>1. l # p => m # q
      BY <2>1, <2>2, <2>5, <1>4
    <3> QED  BY ONLY <3>1, <2>1, <2>2, <2>4 DEF OwnPlace
  <2>6. CASE j # c
    <3>1. Ents(e, j) = Ents(d, j)
      BY <1>5, <2>6
    <3>2. OwnPlace(d, j, l, p)
      BY ONLY <2>3, <3>1, l \in 3..Len(Ents(e, j)), p \in 3..Len(Ents(e, j))
    <3> QED  BY <3>1, <3>2 DEF OwnPlace
  <2> QED  BY <2>5, <2>6
<1>11. ASSUME NEW j \in R \ {i}, Dir(d, j) PROVE Listing(e, j)
  <2>1. e.inode[j].ptr # <<>>
    BY <1>1, <1>2, <1>5, <1>11 DEF Listing
  <2>2. Ents(e, j)[1] = Entry(".", "DIR", j) /\ Ents(e, j)[2] = Entry("..", "DIR", Ents(e, j)[2].ino)
    BY <1>2, <1>6, <1>11 DEF Listing
  <2>3. Len(Ents(e, j)) >= 2
    BY <1>6, <1>11
  <2>4. \A l \in 3..Len(Ents(e, j)) : Listed(e, j, l)
    BY <1>9, <1>11
  <2>5. \A l, p \in 3..Len(Ents(e, j)) : OwnPlace(e, j, l, p)
    BY <1>10, <1>11
  <2> QED  BY ONLY <2>1, <2>2, <2>3, <2>4, <2>5 DEF Listing
<1>12. ASSUME NEW j \in R \ {i}, Dir(d, j) PROVE HasParent(e, j)
  <2> DEFINE p == Ents(d, j)[2].ino
  <2>1. Ents(e, j)[2].ino = p /\ p \in R /\ p # i
    <3>1. 2 \in 1..Len(Ents(d, j))
      BY <1>2, <1>12
    <3>2. Ents(d, j)[2].ino # i
      BY <1>12, DropsFacts
    <3> QED  BY <3>1, <3>2, <1>2, <1>6, <1>12
  <2>2. HasParent(d, j)
    BY <1>2, <1>12
  <2>3. CASE j = ROOTINO
    BY <2>1, <2>2, <2>3 DEF HasParent
  <2>4. CASE j # ROOTINO
    <3>1. Dir(d, p) /\ \E l \in 3..Len(Ents(d, p)) : Ents(d, p)[l].ino = j
      BY <2>2, <2>4 DEF HasParent
    <3>2. PICK l \in 3..Len(Ents(d, p)) : Ents(d, p)[l].ino = j
      BY <3>1
    <3> HIDE DEF p
    <3>3. Dir(e, p)
      BY <1>3, <2>1, <3>1
    <3>4. \E m \in 3..Len(Ents(e, p)) : Ents(e, p)[m].ino = j
      <4>1. CASE p # c
        BY <1>5, <2>1, <3>2, <4>1
      <4>2. CASE p = c
        <5>1. s[k].ino = i
          BY DEF Drops
        <5>2. l # k
          BY <5>1, <4>2, <3>2, <1>12
        <5> DEFINE m == IF l < k THEN l ELSE l - 1
        <5>3. l \in Nat /\ l >= 3 /\ l <= Len(s)
          BY <3>2, <4>2, <1>4
        <5>4. m \in 3..(Len(s) - 1) /\ m \in 1..(Len(s) - 1) /\ (IF m < k THEN m ELSE m + 1) = l
          BY ONLY <5>2, <5>3, <1>4
        <5>5. Ents(e, c)[m] = s[l]
          <6> HIDE DEF m, s
          <6>1. Ents(e, c)[m] = IF m < k THEN s[m] ELSE s[m + 1]
            BY <1>4, <5>4
          <6> QED  BY <6>1, <5>4
        <5>6. m \in 3..Len(Ents(e, p))
          BY <5>4, <1>4, <4>2
        <5> QED  BY <5>5, <5>6, <4>2, <3>2
      <4> QED  BY <4>1, <4>2
    <3> QED  BY ONLY <2>1, <2>4, <3>3, <3>4 DEF HasParent
  <2> QED  BY <2>3, <2>4
<1>13. TreeSound(e)
  <2>1. Dir(e, ROOTINO)
    BY <1>1, <1>2, <1>3, Reached DEF TreeSound, Complete
  <2>2. ASSUME NEW j \in Q, Dir(e, j) PROVE Listing(e, j) /\ HasParent(e, j)
    <3>1. j # i
      BY <1>1, <1>3, <2>2 DEF Dir
    <3>2. j \in R \ {i} /\ Dir(d, j)
      BY <3>1, <1>3, <2>2
    <3> QED  BY <3>2, <1>11, <1>12
  <2> QED  BY <2>1, <2>2 DEF TreeSound
<1>14. Names(e) = Names(d) \ Dropped(d, c, k, i)
  <2> DEFINE x == <<c, s[k].name, s[k].type, i>>
  <2>0. s[k].ino = i
    BY DEF Drops
  <2>1. NamesIn(d, c) = NamesIn(e, c) \cup {x}
    BY <2>0, DropsEntries DEF NamesIn
  <2>2. x \notin NamesIn(e, c)
    <3>1. \A y \in EntriesOn(e, c) : y.name # s[k].name \/ y.type # s[k].type
      BY DropsEntries
    <3> QED  BY <3>1 DEF NamesIn
  <2>3. \A j \in R \ {c, i} : NamesIn(e, j) = NamesIn(d, j)
    BY DropsEntries DEF NamesIn
  <2>4. ~ Dir(d, i) => NamesIn(d, i) = {} /\ NamesIn(e, i) = {}
    <3>1. ~ Dir(d, i) => EntriesOn(d, i) = {} /\ EntriesOn(e, i) = {}
      BY DropsReach DEF EntriesOn, Dir
    <3> QED  BY <3>1 DEF NamesIn
  <2>5. ASSUME Dir(d, i) PROVE NamesIn(d, i) = {<<i, ".", "DIR", i>>, <<i, "..", "DIR", c>>}
    <3>1. Len(Ents(d, i)) = 2 /\ Ents(d, i)[2].ino = c /\ Listing(d, i)
      BY <1>2, <2>5, DropsFacts
    <3>2. /\ Ents(d, i)[1].name = "." /\ Ents(d, i)[1].type = "DIR" /\ Ents(d, i)[1].ino = i
          /\ Ents(d, i)[2].name = ".." /\ Ents(d, i)[2].type = "DIR"
      BY <3>1, EntryFields DEF Listing
    <3>3. EntriesOn(d, i) = {Ents(d, i)[l] : l \in 1..Len(Ents(d, i))}
      BY <1>1, <1>2, <2>5, EntriesOfListing
    <3>4. EntriesOn(d, i) = {Ents(d, i)[1], Ents(d, i)[2]}
      BY <3>1, <3>3
    <3> DEFINE a == Ents(d, i)[1]
               b == Ents(d, i)[2]
    <3>5. NamesIn(d, i) = {<<i, a.name, a.type, a.ino>>, <<i, b.name, b.type, b.ino>>}
      <4>1. EntriesOn(d, i) = {a, b}
        BY <3>4
      <4> HIDE DEF a, b
      <4> QED  BY <4>1 DEF NamesIn
    <3> QED  BY <3>1, <3>2, <3>5
  <2>6. Names(e) = UNION {NamesIn(e, j) : j \in Q} /\ Names(d) = UNION {NamesIn(d, j) : j \in R}
    BY DEF Names
  <2>7. \A j : \A y \in NamesIn(e, j) \cup NamesIn(d, j) : y[1] = j
    BY DEF NamesIn
  <2>8. x[1] = c
    OBVIOUS
  <2> HIDE DEF x, s
  <2>9. CASE Dir(d, i)
    <3> DEFINE own == {<<i, ".", "DIR", i>>, <<i, "..", "DIR", c>>}
    <3>1. Q = R \ {i} /\ NamesIn(d, i) = own
      BY <1>3, <2>5, <2>9
    <3>2. Dropped(d, c, k, i) = {x} \cup own
      BY <2>9 DEF Dropped, x, s
    <3> HIDE DEF own, R, Q
    <3> QED  BY ONLY <3>1, <3>2, <2>1, <2>2, <2>3, <2>6, <2>7, <2>8, <1>1, <1>2
  <2>10. CASE ~ Dir(d, i)
    <3>1. Dropped(d, c, k, i) = {x}
      BY <2>10 DEF Dropped, x, s
    <3> HIDE DEF R, Q
    <3> QED  BY ONLY <3>1, <2>10, <1>3, <2>1, <2>2, <2>3, <2>4, <2>6, <2>7, <2>8, <1>1, <1>2
  <2> QED  BY <2>9, <2>10
<1> QED  BY <1>13, <1>14

-----------------------------------------------------------------------------
(***************************************************************************)
(* What holds of a disk d, a current directory c and a table of open files *)
(* F: the tree is sound, and what is in use is marked and shares no block. *)
(***************************************************************************)
Slot == [ino : Ino, access : {"R", "W", "RW"}, read_point : 0..End, write_point : 0..End]
OpenIn(F)     == {F[f].ino : f \in DOMAIN F} \ {0}
InUseOf(d, F) == ReachableOn(d) \cup OpenIn(F)

FilesSound(d, F) ==
  /\ F \in [0..(NOFILE - 1) -> Slot]
  /\ \A i \in OpenIn(F) : d.inode[i].type = "FILE"

Apart(d, U) ==
  \A i \in U : /\ i \in d.imap /\ Range(d.inode[i].ptr) \subseteq d.dmap /\ IsInjective(d.inode[i].ptr)
               /\ \A j \in U \ {i} : Range(d.inode[i].ptr) \cap Range(d.inode[j].ptr) = {}

Stands(d, c, F) ==
  /\ c \in Ino \cup {NULL}
  /\ c # NULL => d.magic /\ c \in ReachableOn(d) /\ Dir(d, c)
  /\ c = NULL => F = NoFiles

Good(d, c, F) ==
  /\ d \in Disk /\ Fits(d) /\ TreeSound(d) /\ Stands(d, c, F) /\ FilesSound(d, F)
  /\ Apart(d, InUseOf(d, F))

(* The inodes U keep their types, their blocks and their marks.            *)
Keeps(d, e, U) ==
  /\ \A i \in U : /\ e.inode[i].type = d.inode[i].type /\ e.inode[i].ptr = d.inode[i].ptr
                  /\ i \in d.imap => i \in e.imap
                  /\ Range(d.inode[i].ptr) \subseteq d.dmap => Range(d.inode[i].ptr) \subseteq e.dmap

(* Bounds and sizes.                                                       *)
LEMMA Sizing ==
  /\ SECTOR_SIZE \in Nat \ {0} /\ FILE_MAX \in Nat \ {0} /\ DIR_MAX \in Nat \ {0, 1} /\ End \in Nat
  /\ Blk \subseteq Nat /\ NOFILE \in Nat
<1>1. /\ SECTOR_SIZE \in Nat \ {0} /\ FILE_MAX \in Nat \ {0} /\ DIR_MAX \in Nat \ {0, 1}
      /\ DATABLOCK_NUM \in Nat \ {0} /\ NOFILE \in Nat
  BY FileSysAssumption DEF FileSysAssumption
<1>2. End \in Nat
  BY <1>1 DEF End
<1> QED  BY <1>1, <1>2 DEF Blk

(* No file is open after a reset.                                          *)
LEMMA NoFilesSound ==
  OpenIn(NoFiles) = {} /\ NoFiles \in [0..(NOFILE - 1) -> Slot]
<1>1. Closed.ino = 0
  BY DEF Closed
<1>2. Closed \in Slot
  BY Sizing, Inodes DEF Closed, Slot, ROOTINO
<1> QED  BY <1>1, <1>2 DEF NoFiles, OpenIn

(* What is open and what is reachable are inodes.                          *)
LEMMA UsedInodes ==
  ASSUME NEW d \in Disk, NEW F \in [0..(NOFILE - 1) -> Slot]
  PROVE  OpenIn(F) \subseteq Ino /\ ReachableOn(d) \subseteq Ino /\ InUseOf(d, F) \subseteq Ino
<1>1. OpenIn(F) \subseteq Ino
  BY DEF OpenIn, Slot
<1>2. ReachableOn(d) \subseteq Ino
  <2>1. CASE d.magic
    BY <2>1, Reached
  <2>2. CASE ~ d.magic
    BY <2>2 DEF ReachableOn
  <2> QED  BY <2>1, <2>2
<1> QED  BY <1>1, <1>2 DEF InUseOf

(* A reset forgets the directory and the files, and nothing else.          *)
LEMMA GoodAfterReset ==
  ASSUME NEW d, NEW c, NEW F, Good(d, c, F)
  PROVE  Good(d, NULL, NoFiles)
<1>1. InUseOf(d, NoFiles) \subseteq InUseOf(d, F)
  BY NoFilesSound DEF InUseOf
<1>2. Stands(d, NULL, NoFiles)
  BY DEF Stands
<1>3. FilesSound(d, NoFiles)
  BY NoFilesSound, Sizing DEF FilesSound
<1>4. Apart(d, InUseOf(d, NoFiles))
  BY <1>1 DEF Good, Apart
<1> QED  BY <1>2, <1>3, <1>4 DEF Good

(* A disk on which all that is in use is kept is as good.                  *)
LEMMA GoodKept ==
  ASSUME NEW d, NEW e, NEW c, NEW F, Good(d, c, F),
         e \in Disk, Fits(e), e.magic = d.magic, TreeSound(e),
         ReachableOn(e) \subseteq ReachableOn(d), c # NULL => c \in ReachableOn(e),
         Keeps(d, e, InUseOf(e, F))
  PROVE  Good(e, c, F)
<1>1. InUseOf(e, F) \subseteq InUseOf(d, F) /\ ReachableOn(e) \subseteq InUseOf(e, F) /\ OpenIn(F) \subseteq InUseOf(e, F)
  BY DEF InUseOf
<1>2. \A i \in InUseOf(e, F) : e.inode[i].type = d.inode[i].type /\ e.inode[i].ptr = d.inode[i].ptr
  BY DEF Keeps
<1>3. Stands(e, c, F)
  BY <1>1, <1>2 DEF Good, Stands, Dir
<1>4. FilesSound(e, F)
  BY <1>1, <1>2 DEF Good, FilesSound
<1>5. Apart(e, InUseOf(e, F))
  <2>1. Apart(d, InUseOf(d, F))
    BY DEF Good
  <2> QED  BY <2>1, <1>1, <1>2 DEF Apart, Keeps
<1> QED  BY <1>3, <1>4, <1>5 DEF Good

(* One more name, of a new inode with one new block.                       *)
LEMMA GoodAdded ==
  ASSUME NEW d, NEW e, NEW c, NEW F, Good(d, c, F), Fits(e),
         NEW n, NEW t, NEW i, Adds(d, e, c, n, t, i), Keeps(d, e, InUseOf(d, F)),
         i \notin d.imap, i \in e.imap,
         NEW b, e.inode[i].ptr = <<b>>, b \in e.dmap, b \notin d.dmap
  PROVE  Good(e, c, F)
<1>1. /\ ReachableOn(e) = ReachableOn(d) \cup {i} /\ TreeSound(e) /\ e \in Disk /\ e.magic
      /\ e.inode[i].type = t /\ t \in {"FILE", "DIR"} /\ i \in Ino
  <2>1. ReachableOn(e) = ReachableOn(d) \cup {i}
    BY AddsReach
  <2>2. TreeSound(e)
    BY AddsTree
  <2>3. e \in Disk /\ e.magic /\ e.inode[i].type = t /\ t \in {"FILE", "DIR"} /\ i \in Ino
    BY DEF Adds
  <2> QED  BY <2>1, <2>2, <2>3
<1> DEFINE U == InUseOf(d, F)
<1>2. InUseOf(e, F) = U \cup {i} /\ ReachableOn(d) \subseteq U /\ OpenIn(F) \subseteq U
  BY <1>1 DEF InUseOf
<1>3. Apart(d, U) /\ i \notin U
  BY DEF Good, Apart
<1>4. \A j \in U : /\ e.inode[j].type = d.inode[j].type /\ e.inode[j].ptr = d.inode[j].ptr /\ j \in e.imap
                   /\ Range(d.inode[j].ptr) \subseteq e.dmap /\ b \notin Range(d.inode[j].ptr)
                   /\ Range(d.inode[j].ptr) \subseteq d.dmap
  BY <1>3 DEF Apart, Keeps
<1>5. Range(<<b>>) = {b} /\ IsInjective(<<b>>)
  BY DEF Range, IsInjective
<1>6. Apart(e, U \cup {i})
  <2>1. \A j \in U : j # i /\ IsInjective(d.inode[j].ptr)
                     /\ \A k \in U \ {j} : Range(d.inode[j].ptr) \cap Range(d.inode[k].ptr) = {}
    BY <1>3 DEF Apart
  <2>2. \A j \in U : e.inode[j].ptr = d.inode[j].ptr /\ j \in e.imap /\ Range(d.inode[j].ptr) \subseteq e.dmap
                     /\ b \notin Range(d.inode[j].ptr)
    BY <1>4
  <2>3. Range(e.inode[i].ptr) = {b} /\ IsInjective(e.inode[i].ptr)
    BY <1>5
  <2> HIDE DEF U
  <2> QED  BY ONLY <2>1, <2>2, <2>3, i \in e.imap, b \in e.dmap DEF Apart
<1>8. Stands(e, c, F)
  BY <1>1, <1>2, <1>4 DEF Good, Stands, Dir
<1>9. FilesSound(e, F)
  BY <1>2, <1>4 DEF Good, FilesSound
<1> QED  BY <1>1, <1>2, <1>6, <1>8, <1>9 DEF Good

-----------------------------------------------------------------------------
(* The writes. *)

(* Marking an inode or a block, and freeing it.                            *)
LEMMA SetImap ==
  ASSUME NEW d \in Disk, NEW i \in Ino, NEW e, e = set_imap(d, i)
  PROVE  /\ e \in Disk /\ e.magic = d.magic /\ e.imap = d.imap \cup {i} /\ e.dmap = d.dmap
         /\ e.inode = d.inode
BY DEF set_imap, Disk

LEMMA SetDmap ==
  ASSUME NEW d \in Disk, NEW b \in Blk, NEW e, e = set_dmap(d, b)
  PROVE  /\ e \in Disk /\ e.magic = d.magic /\ e.imap = d.imap /\ e.dmap = d.dmap \cup {b}
         /\ e.inode = d.inode
BY DEF set_dmap, Disk

LEMMA ClearImap ==
  ASSUME NEW d \in Disk, NEW i, NEW e, e = clear_imap(d, i)
  PROVE  /\ e \in Disk /\ e.magic = d.magic /\ e.imap = d.imap \ ClearedBy(i) /\ e.dmap = d.dmap
         /\ e.inode = d.inode
BY DEF clear_imap, Disk

LEMMA ClearDmap ==
  ASSUME NEW d \in Disk, NEW b, NEW e, e = clear_dmap(d, b)
  PROVE  /\ e \in Disk /\ e.magic = d.magic /\ e.imap = d.imap /\ e.dmap = d.dmap \ ClearedBy(b)
         /\ e.inode = d.inode
BY DEF clear_dmap, Disk

InodeWritten(d, e, i, r) ==
  /\ e \in Disk /\ e.magic = d.magic /\ e.imap = d.imap /\ e.dmap = d.dmap
  /\ e.inode[i] = r /\ \A j \in Ino \ {i} : e.inode[j] = d.inode[j]
  /\ Fits(d) /\ Len(r.ptr) <= FILE_MAX /\ Len(r.ents) <= DIR_MAX => Fits(e)

(* The same for writing an inode.                                          *)
LEMMA WriteInode ==
  ASSUME NEW d \in Disk, NEW i \in Ino, NEW r \in Inode, NEW e, e = write_inode(d, i, r)
  PROVE  InodeWritten(d, e, i, r)
<1>1. d.inode \in [Ino -> Inode]
  BY DEF Disk
<1> DEFINE m == [d.inode EXCEPT ![i] = r]
<1>2. e = [d EXCEPT !.inode = m]
  BY DEF write_inode
<1>3. m \in [Ino -> Inode] /\ m[i] = r /\ \A j \in Ino \ {i} : m[j] = d.inode[j]
  BY <1>1
<1> HIDE DEF m
<1>4. e \in Disk /\ e.magic = d.magic /\ e.imap = d.imap /\ e.dmap = d.dmap /\ e.inode = m
  BY <1>2, <1>3 DEF Disk
<1> QED  BY <1>3, <1>4 DEF Fits, InodeWritten

(* The inode of a directory with other entries.                            *)
LEMMA WithEntries ==
  ASSUME NEW r \in Inode, NEW s \in Seq(EntryType), NEW q, q = [r EXCEPT !.ents = s]
  PROVE  q \in Inode /\ q.type = r.type /\ q.links = r.links /\ q.ptr = r.ptr /\ q.ents = s
BY DEF Inode

(* Enter writes the directory with one entry more.                         *)
LEMMA EnterWrites ==
  ASSUME NEW d \in Disk, current_inode \in Ino, NEW x \in EntryType, NEW e, e = Enter(d, x)
  PROVE  /\ e \in Disk /\ e.magic = d.magic /\ e.imap = d.imap /\ e.dmap = d.dmap
         /\ e.inode[current_inode].type = d.inode[current_inode].type
         /\ e.inode[current_inode].ptr = d.inode[current_inode].ptr
         /\ Ents(e, current_inode) = Append(Ents(d, current_inode), x)
         /\ \A j \in Ino \ {current_inode} : e.inode[j] = d.inode[j]
         /\ Fits(d) /\ Len(Ents(d, current_inode)) < DIR_MAX => Fits(e)
<1> DEFINE c == current_inode
           s == Append(d.inode[c].ents, x)
           r == [d.inode[c] EXCEPT !.ents = s]
<1>1. d.inode \in [Ino -> Inode] /\ d.inode[c] \in Inode
  BY DEF Disk
<1>2. d.inode[c].ents \in Seq(EntryType)
  BY <1>1 DEF Inode
<1>3. s \in Seq(EntryType) /\ Len(s) = Len(d.inode[c].ents) + 1
  BY <1>2
<1>4. e = write_inode(d, c, r)
  BY DEF Enter, write_inode
<1> HIDE DEF s
<1>5. r \in Inode /\ r.type = d.inode[c].type /\ r.ptr = d.inode[c].ptr /\ r.ents = s
  BY <1>1, <1>3, WithEntries
<1> HIDE DEF r
<1>6. InodeWritten(d, e, c, r)
  BY <1>4, <1>5, WriteInode
<1>7. Fits(d) /\ Len(Ents(d, c)) < DIR_MAX => Len(r.ptr) <= FILE_MAX /\ Len(r.ents) <= DIR_MAX
  <2>1. Len(d.inode[c].ents) \in Nat /\ DIR_MAX \in Nat
    BY <1>2, Sizing
  <2> QED  BY <2>1, <1>3, <1>5 DEF Fits, Ents
<1> QED  BY <1>5, <1>6, <1>7 DEF s, Ents, InodeWritten

(* A disk with more marks, and other inodes where nothing is in use.       *)
LEMMA GoodStays ==
  ASSUME NEW d, NEW e, NEW c, NEW F, Good(d, c, F),
         e \in Disk, Fits(e), e.magic = d.magic,
         d.imap \subseteq e.imap, d.dmap \subseteq e.dmap,
         \A j \in InUseOf(d, F) : e.inode[j] = d.inode[j]
  PROVE  Good(e, c, F) /\ Names(e) = Names(d)
<1>1. d \in Disk /\ TreeSound(d)
  BY DEF Good
<1>2. \A j \in ReachableOn(d) : Stays(d, e, j)
  BY DEF InUseOf, Stays
<1>3. ReachableOn(e) = ReachableOn(d) /\ TreeSound(e) /\ Names(e) = Names(d)
  BY <1>1, <1>2, TreeStays
<1>4. InUseOf(e, F) = InUseOf(d, F)
  BY <1>3 DEF InUseOf
<1>5. Keeps(d, e, InUseOf(e, F))
  BY <1>4 DEF Keeps
<1>6. c # NULL => c \in ReachableOn(e)
  BY <1>3 DEF Good, Stands
<1> QED  BY <1>3, <1>5, <1>6, GoodKept

(* Disk e carries a file system as before, and one mark less at most.      *)
Marks(e) == e.magic = disk.magic /\ \E i : disk.imap \ e.imap \subseteq {i}

(* What a call may leave: good disks, on which the names are those before   *)
(* or X.                                                                   *)
Leaves(ds, X) ==
  /\ ds \in Seq(Disk) /\ ds # <<>>
  /\ \A e \in Range(ds) : /\ Good(e, current_inode, FD_table) /\ Marks(e)
                          /\ Names(e) = Names(disk) \/ Names(e) = X

(* A disk that marks what was marked, and one that frees the inode i.      *)
LEMMA MarksKept ==
  ASSUME NEW e, e.magic = disk.magic, disk.imap \subseteq e.imap
  PROVE  Marks(e)
<1>1. disk.imap \ e.imap \subseteq {0}
  OBVIOUS
<1> QED  BY <1>1 DEF Marks

LEMMA MarksFreed ==
  ASSUME NEW e, e.magic = disk.magic, NEW i, NEW C, e.imap = disk.imap \ C, C \cap disk.imap = {i}
  PROVE  Marks(e)
<1>1. disk.imap \ e.imap \subseteq {i}
  OBVIOUS
<1> QED  BY <1>1 DEF Marks

(* search_dir finds what is listed, and only that.                         *)
LEMMA Search ==
  ASSUME NEW d \in Disk, NEW c \in Ino, NEW n, NEW t
  PROVE  /\ \A i \in search_dir(d, c, n, t) :
               /\ Dir(d, c)
               /\ \E k \in 1..Len(Ents(d, c)) : Ents(d, c)[k] = Entry(n, t, i) /\ i \in Ino
         /\ search_dir(d, c, n, t) = {} /\ Dir(d, c) =>
               \A k \in 1..Len(Ents(d, c)) : Ents(d, c)[k].name # n \/ Ents(d, c)[k].type # t
<1> DEFINE s == Ents(d, c)
           P == Places(d, c, n, t)
<1>1. d.inode[c] \in Inode
  BY DEF Disk
<1>2. s \in Seq(EntryType) /\ s = d.inode[c].ents
  BY <1>1 DEF Inode, Ents
<1>3. DOMAIN s = 1..Len(s) /\ Len(s) \in Nat /\ \A k \in 1..Len(s) : s[k] \in EntryType
  BY <1>2
<1>4. P = {k \in 1..Len(s) : s[k].name = n /\ s[k].type = t}
  BY <1>2, <1>3 DEF Places
<1>5. \A x \in EntryType : x = Entry(x.name, x.type, x.ino) /\ x.ino \in Ino
  <2> SUFFICES ASSUME NEW x \in EntryType PROVE x = Entry(x.name, x.type, x.ino) /\ x.ino \in Ino
    OBVIOUS
  <2> DEFINE N == Name \cup {"", ".", ".."}
             T == {"FILE", "DIR"}
  <2>1. x \in [name : N, type : T, ino : Ino]
    BY DEF EntryType
  <2> HIDE DEF N, T
  <2>2. x = [name |-> x.name, type |-> x.type, ino |-> x.ino] /\ x.ino \in Ino
    BY ONLY <2>1
  <2> QED  BY ONLY <2>2 DEF Entry
<1>6. ASSUME NEW i \in search_dir(d, c, n, t)
      PROVE  Dir(d, c) /\ \E k \in 1..Len(s) : s[k] = Entry(n, t, i) /\ i \in Ino
  <2>1. PICK k \in P : d.inode[c].type = "DIR" /\ i = s[k].ino
    BY <1>6, <1>2 DEF search_dir
  <2>2. s[k] = Entry(n, t, i) /\ i \in Ino
    BY <2>1, <1>3, <1>4, <1>5
  <2> QED  BY <2>1, <2>2, <1>4 DEF Dir
<1>7. ASSUME search_dir(d, c, n, t) = {}, Dir(d, c), NEW k \in 1..Len(s)
      PROVE  s[k].name # n \/ s[k].type # t
  <2> SUFFICES ASSUME P # {} PROVE FALSE
    BY <1>4
  <2>1. P \in SUBSET Nat
    BY <1>4
  <2>2. PICK m \in P : \A l \in P : m <= l
    <3> HIDE DEF P
    <3> QED  BY <2>1, LeastNumber
  <2>3. s[m].ino \in search_dir(d, c, n, t)
    BY <2>2, <1>2, <1>7 DEF search_dir, Dir
  <2> QED  BY <2>3, <1>7
<1> QED  BY <1>6, <1>7

(* alloc_inode and alloc_datablock give what is not marked.                *)
LEMMA Allocated ==
  ASSUME NEW d
  PROVE  /\ \A i \in alloc_inode(d) : i \in Ino /\ i \notin d.imap
         /\ \A b \in alloc_datablock(d) : b \in Blk /\ b \notin d.dmap
BY DEF alloc_inode, alloc_datablock

(* The entries and the inodes that the handlers write.                     *)
LEMMA Writable ==
  ASSUME NEW i \in Ino, NEW p \in Ino, NEW b \in Blk, NEW n \in Name, NEW t \in {"FILE", "DIR"}
  PROVE  /\ Entry(n, t, i) \in EntryType /\ ZeroEntry \in EntryType
         /\ Directory(b, <<ZeroEntry, ZeroEntry>>) \in Inode
         /\ Directory(b, Dots(i, p)) \in Inode
         /\ [type |-> "FILE", links |-> 0, ptr |-> <<b>>, ents |-> <<>>] \in Inode
         /\ Unset \in Inode
<1>1. /\ Entry(n, t, i) \in EntryType /\ ZeroEntry \in EntryType
      /\ Entry(".", "DIR", i) \in EntryType /\ Entry("..", "DIR", p) \in EntryType
  BY Inodes DEF Entry, ZeroEntry, EntryType, ROOTINO
<1>2. <<ZeroEntry, ZeroEntry>> \in Seq(EntryType) /\ Dots(i, p) \in Seq(EntryType)
  BY <1>1 DEF Dots
<1>3. <<b>> \in Seq(Blk) /\ <<>> \in Seq(Blk) /\ <<>> \in Seq(EntryType) /\ 0 \in 0..(LINKS_MOD - 1)
  BY DEF LINKS_MOD
<1>4. \A es \in Seq(EntryType) : Directory(b, es) \in Inode
  BY <1>3 DEF Directory, Inode
<1>5. [type |-> "FILE", links |-> 0, ptr |-> <<b>>, ents |-> <<>>] \in Inode /\ Unset \in Inode
  BY <1>3 DEF Inode, Unset
<1> QED  BY <1>1, <1>2, <1>4, <1>5

(* mkdir: the directory is linked last, so until then the tree stands.     *)
LEMMA MkdirLeaves ==
  ASSUME Good(disk, current_inode, FD_table), Mounted, Room,
         NEW n \in Name, search_dir(disk, current_inode, n, "DIR") = {},
         NEW i \in alloc_inode(disk), NEW b \in alloc_datablock(disk)
  PROVE  Leaves(do_mkdir(n, i, b), Names(disk) \cup Added(current_inode, n, "DIR", i))
<1> DEFINE c == current_inode
           F == FD_table
           U == InUseOf(disk, F)
           r3 == Directory(b, <<ZeroEntry, ZeroEntry>>)
           r4 == Directory(b, Dots(i, c))
           x == Entry(n, "DIR", i)
           d1 == set_imap(disk, i)
           d2 == set_dmap(d1, b)
           d3 == write_inode(d2, i, r3)
           d4 == write_inode(d3, i, r4)
           d5 == Enter(d4, x)
<1>1. /\ disk \in Disk /\ Fits(disk) /\ TreeSound(disk) /\ disk.magic /\ c \in ReachableOn(disk) /\ Dir(disk, c)
      /\ Apart(disk, U)
  BY DEF Good, Mounted, Stands
<1>2. i \in Ino /\ i \notin disk.imap /\ b \in Blk /\ b \notin disk.dmap
  BY Allocated
<1>3. c \in Ino /\ U \subseteq Ino
  BY <1>1, UsedInodes DEF Good, FilesSound
<1>4. i \notin U /\ c \in U /\ c # i /\ i \notin ReachableOn(disk)
  BY <1>1, <1>2 DEF Apart, InUseOf
<1>5. r3 \in Inode /\ r4 \in Inode /\ x \in EntryType
  BY <1>2, <1>3, Writable
<1>6. /\ Len(r3.ptr) = 1 /\ Len(r3.ents) = 2 /\ r4.type = "DIR" /\ r4.ptr = <<b>> /\ r4.ents = Dots(i, c)
      /\ Len(r4.ptr) = 1 /\ Len(r4.ents) = 2
  BY DEF Directory, Dots
<1>7. FILE_MAX >= 1 /\ DIR_MAX >= 2
  BY FileSysAssumption DEF FileSysAssumption
<1> HIDE DEF r3, r4, x
<1>8. /\ d1 \in Disk /\ d1.magic = disk.magic /\ d1.imap = disk.imap \cup {i} /\ d1.dmap = disk.dmap
      /\ d1.inode = disk.inode
  <2>1. disk \in Disk /\ i \in Ino /\ d1 = set_imap(disk, i)
    BY <1>1, <1>2
  <2> HIDE DEF d1
  <2> QED  BY ONLY <2>1, SetImap
<1> HIDE DEF d1
<1>9. /\ d2 \in Disk /\ d2.magic = disk.magic /\ d2.imap = disk.imap \cup {i} /\ d2.dmap = disk.dmap \cup {b}
      /\ d2.inode = disk.inode
  BY <1>2, <1>8, SetDmap
<1> HIDE DEF d2
<1>10. /\ d3 \in Disk /\ d3.magic = disk.magic /\ d3.imap = disk.imap \cup {i} /\ d3.dmap = disk.dmap \cup {b}
       /\ \A j \in Ino \ {i} : d3.inode[j] = disk.inode[j]
       /\ (Fits(d2) => Fits(d3))
  <2>1. Len(r3.ptr) <= FILE_MAX /\ Len(r3.ents) <= DIR_MAX
    BY <1>6, <1>7
  <2>2. InodeWritten(d2, d3, i, r3)
    BY ONLY <1>2, <1>5, <1>9, WriteInode
  <2> HIDE DEF d3
  <2> QED  BY ONLY <1>9, <2>1, <2>2 DEF InodeWritten
<1> HIDE DEF d3
<1>11. /\ d4 \in Disk /\ d4.magic = disk.magic /\ d4.imap = disk.imap \cup {i} /\ d4.dmap = disk.dmap \cup {b}
       /\ \A j \in Ino \ {i} : d4.inode[j] = disk.inode[j]
       /\ d4.inode[i] = r4 /\ (Fits(d3) => Fits(d4))
  <2>1. Len(r4.ptr) <= FILE_MAX /\ Len(r4.ents) <= DIR_MAX
    BY <1>6, <1>7
  <2>2. InodeWritten(d3, d4, i, r4)
    BY ONLY <1>2, <1>5, <1>10, WriteInode
  <2> HIDE DEF d4
  <2> QED  BY ONLY <1>10, <2>1, <2>2 DEF InodeWritten
<1> HIDE DEF d4
<1>12. Fits(d1) /\ Fits(d2) /\ Fits(d3) /\ Fits(d4)
  BY <1>1, <1>8, <1>9, <1>10, <1>11 DEF Fits
<1>13. \A e \in {d1, d2, d3, d4} : Good(e, c, F) /\ Names(e) = Names(disk)
  <2>1. \A e \in {d1, d2, d3, d4} :
           /\ e \in Disk /\ Fits(e) /\ e.magic = disk.magic
           /\ disk.imap \subseteq e.imap /\ disk.dmap \subseteq e.dmap
           /\ \A j \in U : e.inode[j] = disk.inode[j]
    BY <1>3, <1>4, <1>8, <1>9, <1>10, <1>11, <1>12
  <2> QED  BY <2>1, GoodStays
<1>14. /\ d5 \in Disk /\ d5.magic = disk.magic /\ d5.imap = disk.imap \cup {i} /\ d5.dmap = disk.dmap \cup {b}
       /\ Fits(d5)
       /\ d5.inode[c].type = "DIR" /\ d5.inode[c].ptr = disk.inode[c].ptr
       /\ Ents(d5, c) = Append(Ents(disk, c), x)
       /\ d5.inode[i] = r4 /\ \A j \in Ino \ {i, c} : d5.inode[j] = disk.inode[j]
  <2>1. Ents(d4, c) = Ents(disk, c) /\ d4.inode[c] = disk.inode[c]
    BY <1>3, <1>4, <1>11 DEF Ents
  <2>2. Len(Ents(d4, c)) < DIR_MAX
    BY <2>1 DEF Room, Cur, Ents
  <2>3. /\ d5 \in Disk /\ d5.magic = d4.magic /\ d5.imap = d4.imap /\ d5.dmap = d4.dmap
        /\ d5.inode[c].type = d4.inode[c].type /\ d5.inode[c].ptr = d4.inode[c].ptr
        /\ Ents(d5, c) = Append(Ents(d4, c), x)
        /\ \A j \in Ino \ {c} : d5.inode[j] = d4.inode[j]
        /\ Fits(d5)
    <3>1. d4 \in Disk /\ current_inode \in Ino /\ x \in EntryType /\ Fits(d4)
          /\ Len(Ents(d4, current_inode)) < DIR_MAX
      BY <1>3, <1>5, <1>11, <1>12, <2>2
    <3> QED  BY ONLY <3>1, EnterWrites
  <2> QED  BY <2>1, <2>3, <1>1, <1>2, <1>4, <1>11 DEF Dir
<1> HIDE DEF d5
<1>15. Adds(disk, d5, c, n, "DIR", i)
  <2>1. \A k \in 1..Len(Ents(disk, c)) : Ents(disk, c)[k].name # n \/ Ents(disk, c)[k].type # "DIR"
    BY <1>1, <1>3, Search
  <2>2. \A j \in ReachableOn(disk) \ {c} : Stays(disk, d5, j)
    BY <1>3, <1>4, <1>14 DEF Stays, InUseOf
  <2>3. Ents(d5, i) = Dots(i, c) /\ d5.inode[i].ptr # <<>> /\ d5.inode[i].type = "DIR"
    <3>1. <<b>> # <<>>
      OBVIOUS
    <3> QED  BY <3>1, <1>6, <1>14 DEF Ents
  <2> QED  BY <2>1, <2>2, <2>3, <1>1, <1>2, <1>4, <1>14 DEF Adds, x
<1>16. Good(d5, c, F) /\ Names(d5) = Names(disk) \cup Added(c, n, "DIR", i)
  <2>1. Keeps(disk, d5, U)
    BY <1>3, <1>4, <1>14, <1>1 DEF Keeps, Dir
  <2>2. d5.inode[i].ptr = <<b>> /\ i \in d5.imap /\ b \in d5.dmap
    BY <1>6, <1>14
  <2>3. Good(d5, c, F)
    BY <2>1, <2>2, <1>2, <1>14, <1>15, GoodAdded
  <2> QED  BY <2>3, <1>15, AddsTree
<1>17. do_mkdir(n, i, b) = <<d1, d2, d3, d4, d5>>
  BY DEF do_mkdir, d1, d2, d3, d4, d5, r3, r4, x
<1>18. <<d1, d2, d3, d4, d5>> \in Seq(Disk) /\ <<d1, d2, d3, d4, d5>> # <<>>
  BY <1>8, <1>9, <1>10, <1>11, <1>14
<1>19. \A e \in Range(<<d1, d2, d3, d4, d5>>) : e \in {d1, d2, d3, d4} \/ e = d5
  BY Tuples
<1>20. \A e \in Range(<<d1, d2, d3, d4, d5>>) : Marks(e)
  <2>1. \A e \in {d1, d2, d3, d4, d5} : e.magic = disk.magic /\ disk.imap \subseteq e.imap
    BY <1>8, <1>9, <1>10, <1>11, <1>14
  <2> QED  BY <2>1, <1>19, MarksKept
<1> QED  BY <1>13, <1>16, <1>17, <1>18, <1>19, <1>20 DEF Leaves

(* touch: the same for a file, whose history begins.                       *)
LEMMA TouchLeaves ==
  ASSUME Good(disk, current_inode, FD_table), Mounted, Room,
         NEW n \in Name, search_dir(disk, current_inode, n, "FILE") = {},
         NEW i \in alloc_inode(disk), NEW b \in alloc_datablock(disk)
  PROVE  Leaves(do_touch(n, i, b), Names(disk) \cup Added(current_inode, n, "FILE", i))
<1> DEFINE c == current_inode
           F == FD_table
           U == InUseOf(disk, F)
           r == [type |-> "FILE", links |-> 0, ptr |-> <<b>>, ents |-> <<>>]
           x == Entry(n, "FILE", i)
           d1 == set_imap(disk, i)
           d2 == set_dmap(d1, b)
           d3 == write_inode(d2, i, r)
           d4 == Enter(d3, x)
<1>1. /\ disk \in Disk /\ Fits(disk) /\ TreeSound(disk) /\ disk.magic /\ c \in ReachableOn(disk) /\ Dir(disk, c)
      /\ Apart(disk, U)
  BY DEF Good, Mounted, Stands
<1>2. i \in Ino /\ i \notin disk.imap /\ b \in Blk /\ b \notin disk.dmap
  BY Allocated
<1>3. c \in Ino /\ U \subseteq Ino
  BY <1>1, UsedInodes DEF Good, FilesSound
<1>4. i \notin U /\ c \in U /\ c # i /\ i \notin ReachableOn(disk)
  BY <1>1, <1>2 DEF Apart, InUseOf
<1>5. r \in Inode /\ x \in EntryType
  BY <1>2, <1>3, Writable
<1>6. r.type = "FILE" /\ r.ptr = <<b>> /\ Len(r.ptr) = 1 /\ Len(r.ents) = 0
  OBVIOUS
<1>7. FILE_MAX >= 1 /\ DIR_MAX >= 0
  BY FileSysAssumption DEF FileSysAssumption
<1> HIDE DEF r, x
<1>8. /\ d1 \in Disk /\ d1.magic = disk.magic /\ d1.imap = disk.imap \cup {i} /\ d1.dmap = disk.dmap
      /\ d1.inode = disk.inode
  <2>1. disk \in Disk /\ i \in Ino /\ d1 = set_imap(disk, i)
    BY <1>1, <1>2
  <2> HIDE DEF d1
  <2> QED  BY ONLY <2>1, SetImap
<1> HIDE DEF d1
<1>9. /\ d2 \in Disk /\ d2.magic = disk.magic /\ d2.imap = disk.imap \cup {i} /\ d2.dmap = disk.dmap \cup {b}
      /\ d2.inode = disk.inode
  BY <1>2, <1>8, SetDmap
<1> HIDE DEF d2
<1>10. Fits(d1) /\ Fits(d2)
  BY <1>1, <1>8, <1>9 DEF Fits
<1>11. /\ d3 \in Disk /\ d3.magic = disk.magic /\ d3.imap = disk.imap \cup {i} /\ d3.dmap = disk.dmap \cup {b}
       /\ \A j \in Ino \ {i} : d3.inode[j] = disk.inode[j]
       /\ d3.inode[i] = r /\ Fits(d3)
  <2>1. Len(r.ptr) <= FILE_MAX /\ Len(r.ents) <= DIR_MAX
    BY <1>6, <1>7
  <2>2. InodeWritten(d2, d3, i, r)
    BY ONLY <1>2, <1>5, <1>9, WriteInode
  <2> HIDE DEF d3
  <2> QED  BY ONLY <1>9, <1>10, <2>1, <2>2 DEF InodeWritten
<1> HIDE DEF d3
<1>12. \A e \in {d1, d2, d3} : Good(e, c, F) /\ Names(e) = Names(disk)
  <2>1. \A e \in {d1, d2, d3} :
           /\ e \in Disk /\ Fits(e) /\ e.magic = disk.magic
           /\ disk.imap \subseteq e.imap /\ disk.dmap \subseteq e.dmap
           /\ \A j \in U : e.inode[j] = disk.inode[j]
    BY <1>3, <1>4, <1>8, <1>9, <1>10, <1>11
  <2> QED  BY <2>1, GoodStays
<1>14. /\ d4 \in Disk /\ d4.magic = disk.magic /\ d4.imap = disk.imap \cup {i} /\ d4.dmap = disk.dmap \cup {b}
       /\ Fits(d4)
       /\ d4.inode[c].type = "DIR" /\ d4.inode[c].ptr = disk.inode[c].ptr
       /\ Ents(d4, c) = Append(Ents(disk, c), x)
       /\ d4.inode[i] = r /\ \A j \in Ino \ {i, c} : d4.inode[j] = disk.inode[j]
  <2>1. Ents(d3, c) = Ents(disk, c) /\ d3.inode[c] = disk.inode[c]
    BY <1>3, <1>4, <1>11 DEF Ents
  <2>2. Len(Ents(d3, c)) < DIR_MAX
    BY <2>1 DEF Room, Cur, Ents
  <2>3. /\ d4 \in Disk /\ d4.magic = d3.magic /\ d4.imap = d3.imap /\ d4.dmap = d3.dmap
        /\ d4.inode[c].type = d3.inode[c].type /\ d4.inode[c].ptr = d3.inode[c].ptr
        /\ Ents(d4, c) = Append(Ents(d3, c), x)
        /\ \A j \in Ino \ {c} : d4.inode[j] = d3.inode[j]
        /\ Fits(d4)
    <3>1. d3 \in Disk /\ current_inode \in Ino /\ x \in EntryType /\ Fits(d3)
          /\ Len(Ents(d3, current_inode)) < DIR_MAX
      BY <1>3, <1>5, <1>11, <2>2
    <3> QED  BY ONLY <3>1, EnterWrites
  <2> QED  BY <2>1, <2>3, <1>1, <1>2, <1>4, <1>11 DEF Dir
<1> HIDE DEF d4
<1>15. Adds(disk, d4, c, n, "FILE", i)
  <2>1. \A k \in 1..Len(Ents(disk, c)) : Ents(disk, c)[k].name # n \/ Ents(disk, c)[k].type # "FILE"
    BY <1>1, <1>3, Search
  <2>2. \A j \in ReachableOn(disk) \ {c} : Stays(disk, d4, j)
    BY <1>3, <1>4, <1>14 DEF Stays, InUseOf
  <2>3. d4.inode[i].type = "FILE"
    BY <1>6, <1>14
  <2> QED  BY <2>1, <2>2, <2>3, <1>1, <1>2, <1>4, <1>14 DEF Adds, x
<1>16. Good(d4, c, F) /\ Names(d4) = Names(disk) \cup Added(c, n, "FILE", i)
  <2>1. Keeps(disk, d4, U)
    BY <1>3, <1>4, <1>14, <1>1 DEF Keeps, Dir
  <2>2. d4.inode[i].ptr = <<b>> /\ i \in d4.imap /\ b \in d4.dmap
    BY <1>6, <1>14
  <2>3. Good(d4, c, F)
    BY <2>1, <2>2, <1>2, <1>14, <1>15, GoodAdded
  <2> QED  BY <2>3, <1>15, AddsTree
<1>17. do_touch(n, i, b) = <<d1, d2, d3, d4>>
  BY DEF do_touch, d1, d2, d3, d4, r, x
<1>18. <<d1, d2, d3, d4>> \in Seq(Disk) /\ <<d1, d2, d3, d4>> # <<>>
  BY <1>8, <1>9, <1>11, <1>14
<1>19. \A e \in Range(<<d1, d2, d3, d4>>) : e \in {d1, d2, d3} \/ e = d4
  BY Tuples
<1>20. \A e \in Range(<<d1, d2, d3, d4>>) : Marks(e)
  <2>1. \A e \in {d1, d2, d3, d4} : e.magic = disk.magic /\ disk.imap \subseteq e.imap
    BY <1>8, <1>9, <1>11, <1>14
  <2> QED  BY <2>1, <1>19, MarksKept
<1> QED  BY <1>12, <1>16, <1>17, <1>18, <1>19, <1>20 DEF Leaves

(* Counting links changes nothing else.                                    *)
LEMMA GoodRelinked ==
  ASSUME NEW d, NEW e, NEW c, NEW F, Good(d, c, F), NEW i \in Ino, NEW l \in 0..(LINKS_MOD - 1),
         e = [d EXCEPT !.inode[i].links = l]
  PROVE  Good(e, c, F) /\ Names(e) = Names(d)
<1> DEFINE r == [d.inode[i] EXCEPT !.links = l]
<1>1. d \in Disk /\ Fits(d) /\ TreeSound(d) /\ d.inode[i] \in Inode
  BY DEF Good, Disk
<1>2. r \in Inode /\ r.type = d.inode[i].type /\ r.ptr = d.inode[i].ptr /\ r.ents = d.inode[i].ents
  BY <1>1 DEF Inode
<1>3. e = write_inode(d, i, r)
  BY DEF write_inode
<1> HIDE DEF r
<1>4. InodeWritten(d, e, i, r)
  BY ONLY <1>1, <1>2, <1>3, i \in Ino, WriteInode
<1>5. /\ e \in Disk /\ e.magic = d.magic /\ e.imap = d.imap /\ e.dmap = d.dmap
      /\ \A j \in Ino : /\ e.inode[j].type = d.inode[j].type /\ e.inode[j].ptr = d.inode[j].ptr
                        /\ e.inode[j].ents = d.inode[j].ents
  BY <1>2, <1>4 DEF InodeWritten
<1>6. Fits(e)
  BY <1>1, <1>5 DEF Fits
<1>7. ReachableOn(d) \subseteq Ino /\ InUseOf(d, F) \subseteq Ino
  BY <1>1, UsedInodes DEF Good, FilesSound
<1>8. \A j \in ReachableOn(d) : Stays(d, e, j)
  BY <1>5, <1>7 DEF Stays
<1>9. ReachableOn(e) = ReachableOn(d) /\ TreeSound(e) /\ Names(e) = Names(d)
  BY <1>1, <1>5, <1>8, TreeStays
<1>10. Keeps(d, e, InUseOf(e, F))
  BY <1>5, <1>7, <1>9 DEF Keeps, InUseOf
<1>11. c # NULL => c \in ReachableOn(e)
  BY <1>9 DEF Good, Stands
<1> QED  BY <1>5, <1>6, <1>9, <1>10, <1>11, GoodKept

(* ln: the name is there before the link is counted.                       *)
LEMMA LnLeaves ==
  ASSUME Good(disk, current_inode, FD_table), Mounted, Room,
         NEW n, NEW m \in Name, NEW i \in search_dir(disk, current_inode, n, "FILE"),
         search_dir(disk, current_inode, m, "FILE") = {}
  PROVE  Leaves(do_ln(m, i), Names(disk) \cup Added(current_inode, m, "FILE", i))
<1> DEFINE c == current_inode
           F == FD_table
           U == InUseOf(disk, F)
           x == Entry(m, "FILE", i)
           d1 == Enter(disk, x)
           l == (d1.inode[i].links + 1) % LINKS_MOD
           d2 == [d1 EXCEPT !.inode[i].links = l]
<1>1. /\ disk \in Disk /\ Fits(disk) /\ TreeSound(disk) /\ disk.magic /\ c \in ReachableOn(disk) /\ Dir(disk, c)
  BY DEF Good, Mounted, Stands
<1>2. c \in Ino /\ U \subseteq Ino /\ ReachableOn(disk) \subseteq U
  BY <1>1, UsedInodes DEF Good, FilesSound, InUseOf
<1>3. PICK k \in 1..Len(Ents(disk, c)) : Ents(disk, c)[k] = Entry(n, "FILE", i) /\ i \in Ino
  BY <1>1, <1>2, Search
<1>4. i \in ReachableOn(disk) /\ disk.inode[i].type = "FILE" /\ i # c
  <2>1. Listing(disk, c) /\ Len(Ents(disk, c)) \in Nat
    BY <1>1, EntriesOfListing DEF TreeSound
  <2>2. Ents(disk, c)[k].type = "FILE" /\ Ents(disk, c)[k].ino = i
    BY <1>3, EntryFields
  <2>3. k # 1 /\ k # 2
    BY <2>1, <2>2, EntryFields DEF Listing
  <2>4. Listed(disk, c, k)
    BY <2>1, <2>3, <1>3 DEF Listing
  <2>5. i \in ReachableOn(disk)
    BY <2>2, <1>1, <1>3, EntriesOfListing
  <2> QED  BY <2>2, <2>4, <2>5, <1>1 DEF Listed, Dir
<1>5. x \in EntryType
  <2>1. 0 \in Blk
    <3>1. DATABLOCK_NUM \in Nat \ {0}
      BY FileSysAssumption DEF FileSysAssumption
    <3> QED  BY <3>1 DEF Blk
  <2> QED  BY <2>1, <1>2, <1>3, Writable
<1> HIDE DEF x
<1>6. /\ d1 \in Disk /\ d1.magic = disk.magic /\ d1.imap = disk.imap /\ d1.dmap = disk.dmap
      /\ d1.inode[c].type = disk.inode[c].type /\ d1.inode[c].ptr = disk.inode[c].ptr
      /\ Ents(d1, c) = Append(Ents(disk, c), x)
      /\ \A j \in Ino \ {c} : d1.inode[j] = disk.inode[j]
      /\ Fits(d1)
  <2>1. disk \in Disk /\ current_inode \in Ino /\ x \in EntryType /\ Fits(disk)
        /\ Len(Ents(disk, current_inode)) < DIR_MAX
    BY <1>1, <1>2, <1>5 DEF Room, Cur, Ents
  <2> QED  BY ONLY <2>1, EnterWrites
<1> HIDE DEF d1
<1>7. Adds(disk, d1, c, m, "FILE", i)
  <2>1. \A p \in 1..Len(Ents(disk, c)) : Ents(disk, c)[p].name # m \/ Ents(disk, c)[p].type # "FILE"
    BY <1>1, <1>2, Search
  <2>2. \A j \in ReachableOn(disk) \ {c} : Stays(disk, d1, j)
    BY <1>2, <1>6 DEF Stays
  <2>3. d1.inode[i].type = "FILE" /\ d1.inode[c].type = "DIR"
    BY <1>1, <1>3, <1>4, <1>6 DEF Dir
  <2> QED  BY <2>1, <2>2, <2>3, <1>1, <1>3, <1>6 DEF Adds, x
<1>8. Good(d1, c, F) /\ Names(d1) = Names(disk) \cup Added(c, m, "FILE", i)
  <2>1. ReachableOn(d1) = ReachableOn(disk)
    <3>1. ReachableOn(d1) = ReachableOn(disk) \cup {i}
      BY <1>7, AddsReach
    <3> QED  BY ONLY <3>1, <1>4
  <2>2. Keeps(disk, d1, U)
    BY <1>1, <1>2, <1>6 DEF Keeps
  <2>3. InUseOf(d1, F) = U
    BY <2>1 DEF InUseOf
  <2>4. TreeSound(d1) /\ Names(d1) = Names(disk) \cup Added(c, m, "FILE", i)
    BY <1>7, AddsTree
  <2>5. c # NULL => c \in ReachableOn(d1)
    BY <2>1, <1>1
  <2>6. Good(d1, c, F)
    BY <2>1, <2>2, <2>3, <2>4, <2>5, <1>6, GoodKept
  <2> QED  BY <2>4, <2>6
<1>9. l \in 0..(LINKS_MOD - 1)
  <2>1. d1.inode[i] \in Inode
    BY <1>3, <1>6 DEF Disk
  <2>2. d1.inode[i].links \in 0..3
    BY <2>1 DEF Inode, LINKS_MOD
  <2> QED  BY <2>2 DEF LINKS_MOD
<1>10. Good(d2, c, F) /\ Names(d2) = Names(d1)
  <2> HIDE DEF l
  <2> QED  BY <1>3, <1>8, <1>9, GoodRelinked
<1>11. do_ln(m, i) = <<d1, d2>>
  BY DEF do_ln, d1, x
<1>14. d2.magic = d1.magic /\ d2.imap = d1.imap
  BY <1>6 DEF Disk
<1> HIDE DEF d2
<1>12. <<d1, d2>> \in Seq(Disk) /\ <<d1, d2>> # <<>>
  BY <1>6, <1>10 DEF Good
<1>13. \A e \in Range(<<d1, d2>>) : e = d1 \/ e = d2
  BY Tuples
<1>15. \A e \in Range(<<d1, d2>>) : Marks(e)
  <2>1. \A e \in {d1, d2} : e.magic = disk.magic /\ disk.imap \subseteq e.imap
    BY <1>6, <1>14
  <2> QED  BY <2>1, <1>13, MarksKept
<1> QED  BY <1>8, <1>10, <1>11, <1>12, <1>13, <1>15 DEF Leaves

(* Leave takes the first entry of inode i out; under the rules that is one  *)
(* that was made, and the only one if i is a directory.                    *)
LEMMA LeaveDrops ==
  ASSUME Good(disk, current_inode, FD_table), Mounted,
         NEW n \in Name, NEW t \in {"FILE", "DIR"}, NEW i \in search_dir(disk, current_inode, n, t),
         t = "DIR" => Len(Ents(disk, i)) <= 2
  PROVE  \E k \in 3..Len(Ents(disk, current_inode)) :
           LET d1 == Leave(disk, i)[1]
               d2 == Leave(disk, i)[2]
           IN /\ Drops(disk, d2, current_inode, k, i) /\ Fits(d2)
              /\ d2.imap = disk.imap /\ d2.dmap = disk.dmap
              /\ \A j \in Ino \ {current_inode} : d2.inode[j] = disk.inode[j]
              /\ Leave(disk, i) = <<d1, d2>>
              /\ Cur(d1).ents \in Seq(EntryType) /\ Len(Cur(d1).ents) >= 2
              /\ disk.inode[i].type = t
<1> DEFINE c == current_inode
           s == Ents(disk, c)
           P == PlaceOfIno(disk, i)
           k == CHOOSE k \in P : TRUE
           d1 == [disk EXCEPT !.inode[c].ents = Shifted(@, k)]
           d2 == [disk EXCEPT !.inode[c].ents = RemoveAt(@, k)]
<1>1. /\ disk \in Disk /\ Fits(disk) /\ TreeSound(disk) /\ disk.magic /\ c \in ReachableOn(disk) /\ Dir(disk, c)
  BY DEF Good, Mounted, Stands
<1>2. c \in Ino /\ s \in Seq(EntryType) /\ s = disk.inode[c].ents /\ Listing(disk, c) /\ HasParent(disk, c)
      /\ \A l \in 1..Len(s) : s[l].ino \in ReachableOn(disk)
  BY <1>1, EntriesOfListing DEF TreeSound, Ents
<1>3. DOMAIN s = 1..Len(s) /\ Len(s) \in Nat /\ Len(s) >= 2
  BY <1>2 DEF Listing
<1>4. PICK q \in 1..Len(s) : s[q] = Entry(n, t, i) /\ i \in Ino
  BY <1>1, <1>2, Search
<1>5. s[q].name = n /\ s[q].type = t /\ s[q].ino = i
  BY <1>4, EntryFields
<1>6. q \in 3..Len(s)
  <2>1. s[1].name = "." /\ s[2].name = ".."
    BY <1>2, EntryFields DEF Listing
  <2>2. n # "." /\ n # ".."
    BY FileSysAssumption DEF FileSysAssumption
  <2> QED  BY <2>1, <2>2, <1>3, <1>5
<1>7. Listed(disk, c, q) /\ disk.inode[i].type = t /\ i \in ReachableOn(disk)
  BY <1>2, <1>3, <1>5, <1>6 DEF Listed, Listing
<1>8. i # c /\ (t = "DIR" => Ents(disk, i)[2].ino = c /\ i # ROOTINO)
  <2>1. t = "DIR" => Ents(disk, i)[2].ino = c /\ i # ROOTINO
    BY <1>5, <1>7 DEF Listed
  <2>2. t = "DIR" => i # c
    BY <1>3, <1>6
  <2>3. t = "FILE" => i # c
    BY <1>1, <1>7 DEF Dir
  <2> QED  BY <2>1, <2>2, <2>3
<1>9. P = {l \in 1..Len(s) : s[l].ino = i /\ \A p \in 1..(l - 1) : s[p].ino # i}
  BY <1>2, <1>3 DEF PlaceOfIno, Cur
<1>10. k \in 1..Len(s) /\ s[k].ino = i
  <2> DEFINE M == {l \in 1..Len(s) : s[l].ino = i}
  <2>1. M \in SUBSET Nat /\ M # {}
    BY <1>5
  <2>2. PICK l \in M : \A p \in M : l <= p
    <3> HIDE DEF M
    <3> QED  BY <2>1, LeastNumber
  <2>3. l \in P
    <3>1. \A p \in 1..(l - 1) : s[p].ino # i
      <4> SUFFICES ASSUME NEW p \in 1..(l - 1), s[p].ino = i PROVE FALSE
        OBVIOUS
      <4>1. l \in 1..Len(s) /\ p \in 1..Len(s) /\ ~ (l <= p)
        BY <1>3, <2>2
      <4> QED  BY <4>1, <2>2
    <3> QED  BY <3>1, <1>9, <2>2
  <2>4. k \in P
    BY <2>3
  <2> HIDE DEF k
  <2> QED  BY <2>4, <1>9
<1> HIDE DEF k
<1>11. s[1].ino = c /\ s[2].ino # i
  <2>1. s[1].ino = c
    BY <1>2, EntryFields DEF Listing
  <2>2. s[2].ino # i
    <3>1. CASE c = ROOTINO
      <4>1. s[2].ino = ROOTINO
        BY <1>2, <3>1 DEF HasParent
      <4> QED  BY <3>1, <4>1, <1>8
    <3>2. CASE c # ROOTINO
      <4>1. Dir(disk, s[2].ino) /\ \E l \in 3..Len(Ents(disk, s[2].ino)) : Ents(disk, s[2].ino)[l].ino = c
        BY <1>2, <3>2 DEF HasParent
      <4>2. CASE t = "FILE"
        BY <4>1, <4>2, <1>7 DEF Dir
      <4>3. CASE t = "DIR"
        <5>1. Len(Ents(disk, i)) <= 2 /\ Len(Ents(disk, i)) \in Nat
          BY <4>3, <1>1, <1>7, EntriesOfListing
        <5>2. 3..Len(Ents(disk, i)) = {}
          BY ONLY <5>1
        <5> QED  BY <5>2, <4>1
      <4> QED  BY <4>2, <4>3
    <3> QED  BY <3>1, <3>2
  <2> QED  BY <2>1, <2>2
<1>12. k \in 3..Len(s)
  <2>1. k # 1 /\ k # 2
    BY <1>8, <1>10, <1>11
  <2> QED  BY <2>1, <1>3, <1>10
<1>13. Leave(disk, i) = <<d1, d2>>
  BY DEF Leave, k
<1>14. /\ RemoveAt(s, k) \in Seq(EntryType) /\ Len(RemoveAt(s, k)) = Len(s) - 1
  <2> HIDE DEF s
  <2>1. s \in Seq(EntryType) /\ k \in 1..Len(s)
    BY <1>2, <1>10
  <2> QED  BY ONLY <2>1, Removed
<1>15. /\ d2 \in Disk /\ d2.magic = disk.magic /\ d2.imap = disk.imap /\ d2.dmap = disk.dmap
       /\ d2.inode[c].type = disk.inode[c].type /\ d2.inode[c].ptr = disk.inode[c].ptr
       /\ Ents(d2, c) = RemoveAt(s, k)
       /\ \A j \in Ino \ {c} : d2.inode[j] = disk.inode[j]
       /\ Fits(d2)
  <2> DEFINE u == RemoveAt(disk.inode[c].ents, k)
             r == [disk.inode[c] EXCEPT !.ents = u]
  <2>1. u \in Seq(EntryType) /\ Len(u) = Len(s) - 1 /\ u = RemoveAt(s, k)
    BY <1>2, <1>14
  <2>2. disk.inode[c] \in Inode
    BY <1>1, <1>2 DEF Disk
  <2>3. d2 = write_inode(disk, c, r)
    BY DEF write_inode
  <2> HIDE DEF u, s
  <2>4. r \in Inode /\ r.type = disk.inode[c].type /\ r.ptr = disk.inode[c].ptr /\ r.ents = u
    BY <2>1, <2>2, WithEntries
  <2> HIDE DEF r, d2
  <2>5. InodeWritten(disk, d2, c, r)
    BY ONLY <2>3, <2>4, <1>1, <1>2, WriteInode
  <2>6. Len(r.ptr) <= FILE_MAX /\ Len(r.ents) <= DIR_MAX
    <3>1. Len(s) <= DIR_MAX /\ DIR_MAX \in Nat /\ Len(disk.inode[c].ptr) <= FILE_MAX
      BY <1>1, <1>2, Sizing DEF Fits
    <3> QED  BY <3>1, <2>1, <2>4, <1>3
  <2> QED  BY <2>1, <2>4, <2>5, <2>6, <1>1 DEF InodeWritten, Ents
<1> HIDE DEF d2
<1>16. Drops(disk, d2, c, k, i)
  <2>1. \A j \in ReachableOn(disk) \ {c, i} : Stays(disk, d2, j)
    BY <1>1, <1>15, Reached DEF Stays
  <2>2. Dir(disk, i) => Len(Ents(disk, i)) <= 2
    BY <1>7 DEF Dir
  <2>3. ~ Dir(disk, i) => d2.inode[i].type = "FILE"
    BY <1>4, <1>7, <1>8, <1>15 DEF Dir
  <2> QED  BY <2>1, <2>2, <2>3, <1>1, <1>10, <1>12, <1>15 DEF Drops, Dir
<1>17. Cur(d1).ents \in Seq(EntryType) /\ Len(Cur(d1).ents) >= 2
  <2> DEFINE v == Shifted(s, k)
  <2>1. v \in Seq(EntryType) /\ Len(v) = Len(s)
    <3>1. ZeroEntry \in EntryType
      BY Inodes DEF ZeroEntry, Entry, EntryType, ROOTINO
    <3>2. \A j \in 1..Len(s) : s[j] \in EntryType
      BY <1>2
    <3>3. \A j \in 1..Len(s) : (IF j < k THEN s[j] ELSE IF j < Len(s) THEN s[j + 1]
                                ELSE IF k = Len(s) THEN ZeroEntry ELSE s[j]) \in EntryType
      <4> TAKE j \in 1..Len(s)
      <4>1. j < Len(s) => j + 1 \in 1..Len(s)
        BY <1>3
      <4> QED  BY <4>1, <3>1, <3>2
    <3>4. v = [j \in 1..Len(s) |-> IF j < k THEN s[j] ELSE IF j < Len(s) THEN s[j + 1]
                                   ELSE IF k = Len(s) THEN ZeroEntry ELSE s[j]]
      BY <1>3 DEF Shifted
    <3> HIDE DEF v, s
    <3>5. v \in [1..Len(s) -> EntryType]
      BY ONLY <3>3, <3>4
    <3> QED  BY ONLY <3>5, <1>3
  <2>2. Cur(d1).ents = v
    <3>1. disk.inode \in [Ino -> Inode] /\ disk.inode[c] \in Inode
      BY <1>1, <1>2 DEF Disk
    <3> DEFINE a == Shifted(disk.inode[c].ents, k)
               r == [disk.inode[c] EXCEPT !.ents = a]
               m == [disk.inode EXCEPT ![c] = r]
    <3>2. a = v
      BY <1>2
    <3>3. d1 = [disk EXCEPT !.inode = m]
      OBVIOUS
    <3> HIDE DEF v, s, a
    <3>4. r.ents = a
      BY <3>1 DEF Inode
    <3> HIDE DEF r
    <3>5. m[c] = r
      BY <3>1, <1>2
    <3> HIDE DEF m
    <3>6. d1.inode = m
      <4> HIDE DEF d1
      <4> QED  BY <3>3, <1>1 DEF Disk
    <3> HIDE DEF d1
    <3> QED  BY <3>2, <3>4, <3>5, <3>6 DEF Cur
  <2> HIDE DEF v, d1
  <2> QED  BY ONLY <2>1, <2>2, <1>3
<1> HIDE DEF d1
<1>18. Leave(disk, i)[1] = d1 /\ Leave(disk, i)[2] = d2
  BY <1>13
<1> QED  BY <1>7, <1>12, <1>13, <1>15, <1>16, <1>17, <1>18

(* rm: the entry goes, and the file stays since its links are not counted   *)
(* down to 0.                                                              *)
LEMMA RmLeaves ==
  ASSUME Good(disk, current_inode, FD_table), Mounted,
         NEW n \in Name, NEW i \in search_dir(disk, current_inode, n, "FILE"), disk.inode[i].links = 0
  PROVE  /\ Good(Last(do_rm(i)), current_inode, FD_table) /\ Marks(Last(do_rm(i)))
         /\ \E k \in 3..Len(Ents(disk, current_inode)) :
               /\ Ents(disk, current_inode)[k].ino = i
               /\ Names(Last(do_rm(i))) = Names(disk) \ Dropped(disk, current_inode, k, i)
         /\ disk.inode[i].type = "FILE"
<1> DEFINE c == current_inode
           F == FD_table
           d1 == Leave(disk, i)[1]
           d2 == Leave(disk, i)[2]
           d3 == [d2 EXCEPT !.inode[i].links = (@ + LINKS_MOD - 1) % LINKS_MOD]
<1>1. PICK k \in 3..Len(Ents(disk, c)) :
        /\ Drops(disk, d2, c, k, i) /\ Fits(d2)
        /\ d2.imap = disk.imap /\ d2.dmap = disk.dmap
        /\ \A j \in Ino \ {c} : d2.inode[j] = disk.inode[j]
        /\ Leave(disk, i) = <<d1, d2>> /\ disk.inode[i].type = "FILE"
  BY LeaveDrops
<1>2. /\ disk \in Disk /\ d2 \in Disk /\ d2.magic = disk.magic /\ c \in ReachableOn(disk)
      /\ Ents(disk, c)[k].ino = i /\ d2.inode[c].type = disk.inode[c].type /\ d2.inode[c].ptr = disk.inode[c].ptr
  BY <1>1 DEF Drops, Dir
<1>3. /\ ReachableOn(d2) \subseteq ReachableOn(disk) /\ ReachableOn(disk) \ {i} \subseteq ReachableOn(d2)
  BY <1>1, DropsReach
<1>4. TreeSound(d2) /\ Names(d2) = Names(disk) \ Dropped(disk, c, k, i)
  BY <1>1, DropsTree
<1>5. i # c /\ i \in ReachableOn(disk)
  BY <1>1, DropsFacts
<1>6. InUseOf(disk, F) \subseteq Ino /\ InUseOf(d2, F) \subseteq InUseOf(disk, F) /\ i \in Ino
  BY <1>2, <1>3, <1>5, UsedInodes DEF Good, FilesSound, InUseOf
<1>7. Keeps(disk, d2, InUseOf(d2, F))
  BY <1>1, <1>2, <1>6 DEF Keeps
<1>8. Good(d2, c, F)
  BY <1>1, <1>2, <1>3, <1>4, <1>5, <1>7, GoodKept
<1>9. d2.inode[i].links = 0
  BY <1>1, <1>5, <1>6
<1>10. d3 = [d2 EXCEPT !.inode[i].links = 3]
  BY <1>9 DEF LINKS_MOD
<1>11. d3.inode[i].links = 3
  <2>1. d2.inode \in [Ino -> Inode] /\ d2.inode[i] \in Inode
    BY <1>2, <1>6 DEF Disk
  <2> DEFINE r == [d2.inode[i] EXCEPT !.links = 3]
             m == [d2.inode EXCEPT ![i] = r]
  <2>2. r.links = 3
    BY <2>1 DEF Inode
  <2>3. d3 = [d2 EXCEPT !.inode = m]
    BY <1>10
  <2> HIDE DEF r, d3
  <2>4. m[i] = r
    BY <2>1, <1>6
  <2> HIDE DEF m
  <2>5. d3.inode = m
    BY <2>3, <1>2 DEF Disk
  <2> QED  BY <2>2, <2>4, <2>5
<1>12. do_rm(i) = <<d1, d2>> \o <<d3>>
  <2>1. d3.inode[i].links # 0
    BY <1>11
  <2> HIDE DEF d1, d2
  <2> QED  BY <2>1, <1>1 DEF do_rm
<1>13. Good(d3, c, F) /\ Names(d3) = Names(d2)
  <2>1. 3 \in 0..(LINKS_MOD - 1)
    BY DEF LINKS_MOD
  <2> HIDE DEF d2, d3
  <2> QED  BY <2>1, <1>6, <1>8, <1>10, GoodRelinked
<1>14. Last(do_rm(i)) = d3
  <2> HIDE DEF d1, d2, d3
  <2> QED  BY <1>12 DEF Last
<1>19. d3.magic = disk.magic /\ d3.imap = disk.imap
  <2>1. d2 \in Disk /\ d2.magic = disk.magic /\ d2.imap = disk.imap
    BY <1>1, <1>2
  <2> HIDE DEF d2
  <2> QED  BY <2>1 DEF Disk
<1> DEFINE l == Last(do_rm(i))
<1>15. k \in 3..Len(Ents(disk, c)) /\ Ents(disk, c)[k].ino = i /\ disk.inode[i].type = "FILE"
  BY <1>1, <1>2
<1> HIDE DEF d1, d2, d3, l
<1>16. l = d3
  BY <1>14 DEF l
<1>17. Good(l, c, F) /\ Names(l) = Names(disk) \ Dropped(disk, c, k, i)
  BY ONLY <1>4, <1>13, <1>16
<1>18. \E x \in 3..Len(Ents(disk, c)) : Ents(disk, c)[x].ino = i /\ Names(l) = Names(disk) \ Dropped(disk, c, x, i)
  BY ONLY <1>15, <1>17
<1>20. Marks(l)
  BY <1>16, <1>19, MarksKept
<1> QED  BY ONLY <1>15, <1>17, <1>18, <1>20 DEF l

(* rmdir: the entry goes first; then the block is cleared with what was     *)
(* handled before, and freed with the inode: none of it is in use.         *)
LEMMA RmdirLeaves ==
  ASSUME Good(disk, current_inode, FD_table), Mounted, FsRules = Rules,
         NEW n \in Name, NEW i \in search_dir(disk, current_inode, n, "DIR"),
         Len(disk.inode[i].ents) <= 2, MayFree(i)
  PROVE  /\ Good(Last(do_rmdir(i)), current_inode, FD_table) /\ Marks(Last(do_rmdir(i)))
         /\ \E k \in 3..Len(Ents(disk, current_inode)) :
               /\ Ents(disk, current_inode)[k].ino = i
               /\ Names(Last(do_rmdir(i))) = Names(disk) \ Dropped(disk, current_inode, k, i)
         /\ disk.inode[i].type = "DIR"
<1> DEFINE c == current_inode
           F == FD_table
           b == disk.inode[i].ptr[1]
           d1 == Leave(disk, i)[1]
           d2 == Leave(disk, i)[2]
           d3 == clear_datablock(d2, i, Cur(d1).ents)
           d4 == clear_dmap(d3, b)
           d5 == clear_imap(d4, i)
           d6 == clear_inode(d5, i)
<1>1. PICK k \in 3..Len(Ents(disk, c)) :
        /\ Drops(disk, d2, c, k, i) /\ Fits(d2)
        /\ d2.imap = disk.imap /\ d2.dmap = disk.dmap
        /\ \A j \in Ino \ {c} : d2.inode[j] = disk.inode[j]
        /\ Leave(disk, i) = <<d1, d2>>
        /\ Cur(d1).ents \in Seq(EntryType) /\ Len(Cur(d1).ents) >= 2
        /\ disk.inode[i].type = "DIR"
  <2>1. Len(Ents(disk, i)) <= 2
    BY DEF Ents
  <2> QED  BY <2>1, LeaveDrops
<1>2. /\ disk \in Disk /\ d2 \in Disk /\ d2.magic = disk.magic /\ disk.magic /\ c \in ReachableOn(disk)
      /\ Ents(disk, c)[k].ino = i /\ d2.inode[c].type = disk.inode[c].type /\ d2.inode[c].ptr = disk.inode[c].ptr
      /\ Dir(disk, i) /\ TreeSound(disk)
  BY <1>1 DEF Drops, Dir
<1>3. i # c /\ i # ROOTINO /\ i \in ReachableOn(disk) /\ Listing(disk, i) /\ Len(Ents(disk, i)) = 2
  BY <1>1, <1>2, DropsFacts
<1>4. InUseOf(disk, F) \subseteq Ino /\ i \in Ino /\ c \in Ino /\ i \in InUseOf(disk, F)
      /\ ReachableOn(disk) \subseteq InUseOf(disk, F)
  BY <1>2, <1>3, UsedInodes DEF Good, FilesSound, InUseOf
<1>5. d2.inode[i] = disk.inode[i] /\ d2.inode[i] \in Inode
  BY <1>1, <1>2, <1>3, <1>4 DEF Disk
<1> HIDE DEF d2
<1> DEFINE v == [l \in 1..2 |-> Cur(d1).ents[l]]
           r == [d2.inode[i] EXCEPT !.ents = v]
<1>6. d3 = write_inode(d2, i, r)
  <2>1. DOMAIN d2.inode[i].ents = 1..2
    BY <1>3, <1>5 DEF Ents, Inode
  <2>2. [l \in DOMAIN d2.inode[i].ents |-> Cur(d1).ents[l]] = v
    BY <2>1
  <2> HIDE DEF v
  <2>3. d3 = [d2 EXCEPT !.inode[i].ents = [l \in DOMAIN d2.inode[i].ents |-> Cur(d1).ents[l]]]
    BY DEF clear_datablock
  <2> QED  BY <2>2, <2>3 DEF write_inode
<1>7. v \in Seq(EntryType) /\ Len(v) = 2
  <2>1. \A l \in 1..2 : Cur(d1).ents[l] \in EntryType
    BY <1>1
  <2> QED  BY <2>1
<1> HIDE DEF v, d1
<1>8. r \in Inode /\ r.type = "DIR" /\ r.ptr = disk.inode[i].ptr /\ r.ents = v
  BY <1>1, <1>5, <1>7, WithEntries
<1> HIDE DEF r, d3
<1>9. /\ d3 \in Disk /\ d3.magic = disk.magic /\ d3.imap = disk.imap /\ d3.dmap = disk.dmap
      /\ \A j \in Ino \ {i} : d3.inode[j] = d2.inode[j]
      /\ Fits(d3)
  <2>1. InodeWritten(d2, d3, i, r)
    BY ONLY <1>2, <1>4, <1>6, <1>8, WriteInode
  <2>2. Len(r.ptr) <= FILE_MAX /\ Len(r.ents) <= DIR_MAX
    <3>1. Len(disk.inode[i].ptr) <= FILE_MAX
      BY <1>4 DEF Good, Fits
    <3>2. 2 <= DIR_MAX
      BY Sizing
    <3> QED  BY <3>1, <3>2, <1>7, <1>8
  <2> QED  BY <2>1, <2>2, <1>1, <1>2 DEF InodeWritten
<1> HIDE DEF d4
<1>10. /\ d4 \in Disk /\ d4.magic = d3.magic /\ d4.imap = d3.imap /\ d4.dmap = d3.dmap \ ClearedBy(b)
       /\ d4.inode = d3.inode
  <2>1. d4 = clear_dmap(d3, b)
    BY DEF d4
  <2> QED  BY ONLY <2>1, <1>9, ClearDmap
<1> HIDE DEF d5
<1>11. /\ d5 \in Disk /\ d5.magic = d4.magic /\ d5.imap = d4.imap \ ClearedBy(i) /\ d5.dmap = d4.dmap
       /\ d5.inode = d4.inode
  <2>1. d5 = clear_imap(d4, i)
    BY DEF d5
  <2> QED  BY ONLY <2>1, <1>10, ClearImap
<1>12. Fits(d5)
  BY <1>9, <1>10, <1>11 DEF Fits
<1> HIDE DEF d6
<1>13. /\ d6 \in Disk /\ d6.magic = d5.magic /\ d6.imap = d5.imap /\ d6.dmap = d5.dmap
       /\ \A j \in Ino \ {i} : d6.inode[j] = d5.inode[j]
       /\ Fits(d6)
  <2>1. CASE Strayed(i) = i \div INODE_PER_SECTOR
    <3>1. d6 = write_inode(d5, i, Unset)
      BY <2>1 DEF clear_inode, d6
    <3>2. Unset \in Inode /\ Len(Unset.ptr) <= FILE_MAX /\ Len(Unset.ents) <= DIR_MAX
      <4>1. Unset \in Inode
        BY DEF Inode, Unset, LINKS_MOD
      <4>2. Len(Unset.ptr) = 0 /\ Len(Unset.ents) = 0
        BY DEF Unset
      <4> QED  BY <4>1, <4>2, Sizing
    <3>3. InodeWritten(d5, d6, i, Unset)
      BY ONLY <3>1, <3>2, <1>4, <1>11, WriteInode
    <3> QED  BY <3>2, <3>3, <1>12 DEF InodeWritten
  <2>2. CASE Strayed(i) # i \div INODE_PER_SECTOR
    <3>1. d6 = d5
      BY <2>2 DEF clear_inode, d6
    <3> QED  BY <3>1, <1>11, <1>12
  <2> QED  BY <2>1, <2>2
<1>14. /\ d6.magic = disk.magic
       /\ d6.imap = disk.imap \ ClearedBy(i) /\ d6.dmap = disk.dmap \ ClearedBy(b)
       /\ \A j \in Ino \ {c, i} : d6.inode[j] = disk.inode[j]
       /\ d6.inode[c] = d2.inode[c]
  BY <1>1, <1>2, <1>3, <1>4, <1>9, <1>10, <1>11, <1>13
<1>15. Drops(disk, d6, c, k, i)
  <2>1. \A j \in ReachableOn(disk) \ {c, i} : Stays(disk, d6, j)
    BY <1>4, <1>14 DEF Stays
  <2>2. d6.inode[c].type = "DIR" /\ d6.inode[c].ptr = disk.inode[c].ptr /\ Ents(d6, c) = RemoveAt(Ents(disk, c), k)
    BY <1>1, <1>14 DEF Drops, Ents
  <2> QED  BY <2>1, <2>2, <1>1, <1>2, <1>13, <1>14 DEF Drops
<1>16. /\ ReachableOn(d6) \subseteq ReachableOn(disk) /\ ReachableOn(disk) \ {i} \subseteq ReachableOn(d6)
       /\ i \notin ReachableOn(d6)
  BY <1>2, <1>15, DropsReach
<1>17. TreeSound(d6) /\ Names(d6) = Names(disk) \ Dropped(disk, c, k, i)
  BY <1>15, DropsTree
<1>18. i \notin OpenIn(F)
  BY <1>1 DEF Good, FilesSound
<1>19. InUseOf(d6, F) \subseteq InUseOf(disk, F) \ {i}
  BY <1>16, <1>18 DEF InUseOf
<1>20. /\ ClearedBy(i) \cap disk.imap = {i}
       /\ ClearedBy(b) \cap disk.dmap = {b} /\ b \in Range(disk.inode[i].ptr)
  <2>1. 1 \in DOMAIN disk.inode[i].ptr
    <3>1. disk.inode[i].ptr # <<>> /\ disk.inode[i].ptr \in Seq(Blk)
      BY <1>3, <1>5 DEF Listing, Inode
    <3> QED  BY ONLY <3>1
  <2>2. "last" \in FsRules
    BY DEF Rules
  <2> QED  BY <2>1, <2>2 DEF MayFree, Range
<1>21. Keeps(disk, d6, InUseOf(d6, F))
  <2> SUFFICES ASSUME NEW j \in InUseOf(d6, F)
               PROVE  /\ d6.inode[j].type = disk.inode[j].type /\ d6.inode[j].ptr = disk.inode[j].ptr
                      /\ j \in disk.imap => j \in d6.imap
                      /\ Range(disk.inode[j].ptr) \subseteq disk.dmap => Range(disk.inode[j].ptr) \subseteq d6.dmap
    BY <1>14 DEF Keeps
  <2>1. j # i /\ j \in InUseOf(disk, F) /\ j \in Ino
    BY <1>4, <1>19
  <2>2. d6.inode[j].type = disk.inode[j].type /\ d6.inode[j].ptr = disk.inode[j].ptr
    BY <2>1, <1>1, <1>2, <1>14
  <2>3. j \in disk.imap => j \in d6.imap
    BY <2>1, <1>14, <1>20
  <2>4. Range(disk.inode[i].ptr) \cap Range(disk.inode[j].ptr) = {}
    <3>1. Apart(disk, InUseOf(disk, F))
      BY DEF Good
    <3> QED  BY <3>1, <2>1, <1>4 DEF Apart
  <2>5. Range(disk.inode[j].ptr) \subseteq disk.dmap => Range(disk.inode[j].ptr) \subseteq d6.dmap
    BY <2>4, <1>14, <1>20
  <2> QED  BY <2>2, <2>3, <2>5
<1>22. Good(d6, c, F)
  <2>1. d6 \in Disk /\ Fits(d6) /\ d6.magic = disk.magic /\ (c # NULL => c \in ReachableOn(d6))
    BY <1>2, <1>3, <1>13, <1>14, <1>16
  <2>2. Good(disk, c, F)
    OBVIOUS
  <2> HIDE DEF c, F
  <2> QED  BY ONLY <2>1, <2>2, <1>16, <1>17, <1>21, GoodKept
<1>23. Last(do_rmdir(i)) = d6
  <2>1. do_rmdir(i) = <<d1, d2>> \o <<d3, d4, d5, d6>>
    BY <1>1 DEF do_rmdir, d1, d2, d3, d4, d5, d6
  <2> QED  BY <2>1 DEF Last
<1>24. Marks(d6)
  BY <1>14, <1>20, MarksFreed
<1> QED  BY <1>1, <1>2, <1>17, <1>22, <1>23, <1>24

(* mkfs of a disk that carries no file system leaves a root directory.      *)
LEMMA MkfsLeaves ==
  ASSUME Good(disk, current_inode, FD_table), ~ disk.magic
  PROVE  /\ Good(Last(do_mkfs_new), ROOTINO, FD_table) /\ Last(do_mkfs_new).magic
         /\ Names(Last(do_mkfs_new)) = {<<ROOTINO, ".", "DIR", ROOTINO>>, <<ROOTINO, "..", "DIR", ROOTINO>>}
         /\ current_inode = NULL
<1> DEFINE d1 == [disk EXCEPT !.imap = {ROOTINO}]
           d2 == [d1 EXCEPT !.magic = TRUE, !.dmap = {}]
           d3 == set_dmap(d2, 0)
           d4 == write_inode(d3, ROOTINO, Directory(0, <<ZeroEntry, ZeroEntry>>))
           s == Dots(ROOTINO, ROOTINO)
           r == Directory(0, s)
           e == write_inode(d4, ROOTINO, r)
<1>1. current_inode = NULL /\ FD_table = NoFiles /\ disk \in Disk /\ Fits(disk)
  BY DEF Good, Stands
<1>2. 0 \in Blk /\ ROOTINO \in Ino
  <2>1. DATABLOCK_NUM \in Nat \ {0}
    BY FileSysAssumption DEF FileSysAssumption
  <2> QED  BY <2>1, Inodes DEF Blk
<1>3. d2 \in Disk /\ d2.magic = TRUE /\ d2.imap = {ROOTINO} /\ d2.dmap = {} /\ d2.inode = disk.inode
  BY <1>1, <1>2 DEF Disk
<1> HIDE DEF d2
<1>4. d3 \in Disk /\ d3.magic = TRUE /\ d3.imap = {ROOTINO} /\ d3.dmap = {0} /\ d3.inode = disk.inode
  <2>1. d2 \in Disk /\ 0 \in Blk
    BY ONLY <1>2, <1>3
  <2>2. d3 = set_dmap(d2, 0)
    OBVIOUS
  <2> HIDE DEF d3
  <2>3. d3 \in Disk /\ d3.magic = d2.magic /\ d3.imap = d2.imap /\ d3.dmap = d2.dmap \cup {0}
        /\ d3.inode = d2.inode
    BY ONLY <2>1, <2>2, SetDmap
  <2> QED  BY <2>3, <1>3
<1> HIDE DEF d3
<1>5. r \in Inode /\ Directory(0, <<ZeroEntry, ZeroEntry>>) \in Inode
  <2>1. \A p \in Ino : Directory(0, Dots(ROOTINO, p)) \in Inode
    <3>1. ASSUME NEW p \in Ino PROVE Dots(ROOTINO, p) \in Seq(EntryType)
      BY <1>2 DEF Dots, Entry, EntryType
    <3>2. \A q \in Seq(EntryType) : Directory(0, q) \in Inode
      BY <1>2 DEF Directory, Inode, LINKS_MOD
    <3> QED  BY <3>1, <3>2
  <2>2. Directory(0, <<ZeroEntry, ZeroEntry>>) \in Inode
    <3>1. ZeroEntry \in EntryType
      BY <1>2 DEF ZeroEntry, Entry, EntryType, ROOTINO
    <3>2. <<ZeroEntry, ZeroEntry>> \in Seq(EntryType)
      BY <3>1
    <3>3. \A q \in Seq(EntryType) : Directory(0, q) \in Inode
      BY <1>2 DEF Directory, Inode, LINKS_MOD
    <3> QED  BY <3>2, <3>3
  <2> QED  BY <2>1, <2>2, <1>2
<1>6. r.type = "DIR" /\ r.ptr = <<0>> /\ r.ents = s /\ Len(r.ptr) = 1 /\ Len(s) = 2
      /\ s[1] = Entry(".", "DIR", ROOTINO) /\ s[2] = Entry("..", "DIR", ROOTINO)
  BY DEF Directory, Dots
<1>7. Fits(d3)
  BY <1>1, <1>4 DEF Fits
<1>8. InodeWritten(d3, d4, ROOTINO, Directory(0, <<ZeroEntry, ZeroEntry>>))
  BY <1>2, <1>4, <1>5, WriteInode
<1>9. Fits(d4)
  <2> DEFINE q == Directory(0, <<ZeroEntry, ZeroEntry>>)
  <2>1. q.ptr = <<0>> /\ q.ents = <<ZeroEntry, ZeroEntry>>
    BY DEF Directory
  <2>2. Len(q.ptr) = 1 /\ Len(q.ents) = 2
    BY <2>1
  <2>3. InodeWritten(d3, d4, ROOTINO, q)
    BY <1>8
  <2> HIDE DEF q
  <2>4. 1 <= FILE_MAX /\ 2 <= DIR_MAX
    BY Sizing
  <2> QED  BY ONLY <2>2, <2>3, <2>4, <1>7 DEF InodeWritten
<1> HIDE DEF d4, r
<1>10. InodeWritten(d4, e, ROOTINO, r)
  <2>1. d4 \in Disk
    BY <1>8 DEF InodeWritten
  <2> QED  BY <2>1, <1>2, <1>5, WriteInode
<1> HIDE DEF e
<1>11. /\ e \in Disk /\ e.magic /\ e.imap = {ROOTINO} /\ e.dmap = {0} /\ e.inode[ROOTINO] = r /\ Fits(e)
  <2>1. Fits(e)
    BY <1>6, <1>9, <1>10, Sizing DEF InodeWritten
  <2>2. d4.magic /\ d4.imap = {ROOTINO} /\ d4.dmap = {0}
    BY <1>4, <1>8 DEF InodeWritten
  <2> QED  BY <2>1, <2>2, <1>10 DEF InodeWritten
<1>12. EntriesOn(e, ROOTINO) = {Entry(".", "DIR", ROOTINO), Entry("..", "DIR", ROOTINO)}
  <2>1. Range(s) = {s[1], s[2]}
    BY DEF Range, Dots
  <2> QED  BY <2>1, <1>6, <1>11 DEF EntriesOn
<1> HIDE DEF s
<1>13. ReachableOn(e) = {ROOTINO}
  <2>1. Leads(e, ROOTINO) = {ROOTINO}
    BY <1>12, EntryFields DEF Leads
  <2>2. Complete(e, {ROOTINO})
    BY <2>1 DEF Complete
  <2> QED  BY <2>2, <1>11, Reached DEF Complete
<1>14. TreeSound(e)
  <2>1. Ents(e, ROOTINO) = s /\ Dir(e, ROOTINO) /\ e.inode[ROOTINO].ptr # <<>>
    BY <1>6, <1>11 DEF Ents, Dir
  <2>2. s[2].ino = ROOTINO
    BY <1>6, EntryFields
  <2>3. Listing(e, ROOTINO)
    <3>1. 3..Len(s) = {}
      BY <1>6
    <3> QED  BY <3>1, <2>1, <2>2, <1>6 DEF Listing
  <2>4. HasParent(e, ROOTINO)
    BY <2>1, <2>2 DEF HasParent
  <2> QED  BY <2>1, <2>3, <2>4, <1>13 DEF TreeSound
<1>15. Names(e) = {<<ROOTINO, ".", "DIR", ROOTINO>>, <<ROOTINO, "..", "DIR", ROOTINO>>}
  <2>1. NamesIn(e, ROOTINO) = {<<ROOTINO, ".", "DIR", ROOTINO>>, <<ROOTINO, "..", "DIR", ROOTINO>>}
    BY <1>12, EntryFields DEF NamesIn
  <2> QED  BY <2>1, <1>13 DEF Names
<1>16. InUseOf(e, NoFiles) = {ROOTINO}
  BY <1>13, NoFilesSound DEF InUseOf
<1>17. Apart(e, {ROOTINO})
  <2>1. Range(<<0>>) = {0} /\ IsInjective(<<0>>)
    BY DEF Range, IsInjective
  <2> QED  BY <2>1, <1>6, <1>11 DEF Apart
<1>19. Stands(e, ROOTINO, NoFiles)
  BY <1>2, <1>6, <1>11, <1>13, Inodes DEF Stands, Dir
<1>20. FilesSound(e, NoFiles)
  BY NoFilesSound, Sizing DEF FilesSound
<1>21. Good(e, ROOTINO, FD_table)
  BY <1>1, <1>11, <1>14, <1>16, <1>17, <1>19, <1>20 DEF Good
<1>22. Last(do_mkfs_new) = e
  <2>1. do_mkfs_new = <<d1, d2, d3, d4, e>>
    BY DEF do_mkfs_new, d2, d3, d4, e, r, s
  <2> QED  BY <2>1 DEF Last
<1> QED  BY <1>1, <1>11, <1>15, <1>21, <1>22

(* An entry that a search finds in a directory in use.                     *)
LEMMA FoundEntry ==
  ASSUME NEW d \in Disk, d.magic, TreeSound(d), NEW c \in ReachableOn(d), Dir(d, c),
         NEW n, NEW t, NEW i \in search_dir(d, c, n, t)
  PROVE  \E k \in 1..Len(Ents(d, c)) :
            /\ Ents(d, c)[k] = Entry(n, t, i) /\ Ents(d, c)[k] \in EntriesOn(d, c)
            /\ Ents(d, c)[k].name = n /\ Ents(d, c)[k].type = t /\ Ents(d, c)[k].ino = i
            /\ i \in ReachableOn(d) /\ Listing(d, c) /\ HasParent(d, c)
<1>1. c \in Ino
  BY Reached
<1>2. PICK k \in 1..Len(Ents(d, c)) : Ents(d, c)[k] = Entry(n, t, i) /\ i \in Ino
  BY <1>1, Search
<1>3. Ents(d, c)[k].name = n /\ Ents(d, c)[k].type = t /\ Ents(d, c)[k].ino = i
  BY <1>2, EntryFields
<1>4. Ents(d, c)[k] \in EntriesOn(d, c) /\ i \in ReachableOn(d) /\ Listing(d, c) /\ HasParent(d, c)
  BY <1>2, <1>3, EntriesOfListing DEF TreeSound
<1> QED  BY <1>2, <1>3, <1>4

(* It leads to what it says.                                               *)
LEMMA FoundTyped ==
  ASSUME NEW d \in Disk, d.magic, TreeSound(d), NEW c \in ReachableOn(d), Dir(d, c),
         NEW n, NEW t, NEW i \in search_dir(d, c, n, t)
  PROVE  i \in ReachableOn(d) /\ d.inode[i].type = t
<1>1. PICK k \in 1..Len(Ents(d, c)) :
        /\ Ents(d, c)[k] = Entry(n, t, i)
        /\ Ents(d, c)[k].type = t /\ Ents(d, c)[k].ino = i
        /\ i \in ReachableOn(d) /\ Listing(d, c) /\ HasParent(d, c)
  BY FoundEntry
<1>2. CASE k = 1
  BY <1>1, <1>2, EntryFields DEF Listing, Dir
<1>3. CASE k = 2
  <2>1. t = "DIR" /\ i = Ents(d, c)[2].ino
    BY <1>1, <1>3, EntryFields DEF Listing
  <2>2. Dir(d, i)
    BY <1>1, <2>1 DEF HasParent, TreeSound
  <2> QED  BY <1>1, <2>1, <2>2 DEF Dir
<1>4. CASE k # 1 /\ k # 2
  <2>1. Listed(d, c, k)
    BY <1>1, <1>4 DEF Listing
  <2> QED  BY <1>1, <2>1 DEF Listed
<1> QED  BY <1>2, <1>3, <1>4

(* A name of a directory in use is one of the tree.                        *)
LEMMA FoundByName ==
  ASSUME NEW d \in Disk, d.magic, TreeSound(d), NEW c \in ReachableOn(d), Dir(d, c),
         NEW n, NEW t, NEW i \in search_dir(d, c, n, t)
  PROVE  i \in ReachableOn(d) /\ d.inode[i].type = t /\ <<c, n, t, i>> \in Names(d)
<1>1. i \in ReachableOn(d) /\ d.inode[i].type = t
  BY FoundTyped
<1>2. PICK k \in 1..Len(Ents(d, c)) :
        /\ Ents(d, c)[k] \in EntriesOn(d, c)
        /\ Ents(d, c)[k].name = n /\ Ents(d, c)[k].type = t /\ Ents(d, c)[k].ino = i
  BY FoundEntry
<1>3. <<c, n, t, i>> \in Names(d)
  BY <1>2 DEF Names, NamesIn
<1> QED  BY <1>1, <1>3

(* The function of find_path, unfolded: paths have one name or two.        *)
LEMMA Walking ==
  ASSUME NEW path \in Paths
  PROVE  /\ Len(path) \in 1..2
         /\ \E dir : /\ dir[0] = {current_inode} /\ find_path(path) = dir[Len(path)]
                     /\ \A k \in 1..Len(path) :
                           dir[k] = UNION {search_dir(disk, i, path[k], "DIR") : i \in dir[k - 1]}
<1> DEFINE n == Len(path)
           Next1(k, S) == UNION {search_dir(disk, i, path[k], "DIR") : i \in S}
           Body(f) == [k \in 0..n |-> IF k = 0 THEN {current_inode} ELSE Next1(k, f[k - 1])]
           dir == CHOOSE f : f = Body(f)
<1>1. n \in 1..2
  BY DEF Paths
<1>2. find_path(path) = dir[n]
  BY DEF find_path
<1> HIDE DEF n
<1>3. \E f : f = Body(f)
  <2> DEFINE A == {current_inode}
             B == Next1(1, A)
             C == Next1(2, B)
             g == [k \in 0..n |-> IF k = 0 THEN A ELSE IF k = 1 THEN B ELSE C]
  <2>1. \A k \in 0..n : g[k] = IF k = 0 THEN {current_inode} ELSE Next1(k, g[k - 1])
    <3>1. g[0] = A
      BY <1>1
    <3>2. g[1] = Next1(1, g[1 - 1])
      <4> HIDE DEF Next1
      <4> QED  BY <1>1
    <3>3. n = 2 => g[2] = Next1(2, g[2 - 1])
      <4> HIDE DEF Next1
      <4> QED  BY <1>1
    <3> HIDE DEF g, Next1
    <3> QED  BY <3>1, <3>2, <3>3, <1>1
  <2>2. g = [k \in 0..n |-> g[k]]
    OBVIOUS
  <2> HIDE DEF g, Next1
  <2>3. g = Body(g)
    BY <2>1, <2>2
  <2> HIDE DEF Body
  <2> QED  BY <2>3
<1>4. dir = Body(dir)
  <2> HIDE DEF Body
  <2> QED  BY <1>3
<1> HIDE DEF dir
<1>5. dir[0] = {current_inode} /\ \A k \in 1..n : dir[k] = Next1(k, dir[k - 1])
  <2>1. \A k \in 0..n : dir[k] = IF k = 0 THEN {current_inode} ELSE Next1(k, dir[k - 1])
    BY <1>4
  <2> HIDE DEF Next1
  <2> QED  BY <2>1, <1>1
<1> QED  BY <1>1, <1>2, <1>5 DEF n

(* cd leads to a directory in use, which some name of the tree calls.      *)
LEMMA CdLeads ==
  ASSUME disk \in Disk, disk.magic, TreeSound(disk),
         current_inode \in ReachableOn(disk), Dir(disk, current_inode),
         NEW path \in Paths, NEW i \in find_path(path)
  PROVE  /\ i \in ReachableOn(disk) /\ Dir(disk, i)
         /\ \E e \in Names(disk) : e[3] = "DIR" /\ e[4] = i
<1> DEFINE n == Len(path)
           In(x) == x \in ReachableOn(disk) /\ Dir(disk, x)
           Called(x) == \E e \in Names(disk) : e[3] = "DIR" /\ e[4] = x
<1>1. n \in 1..2
  BY Walking
<1>2. PICK dir : /\ dir[0] = {current_inode} /\ find_path(path) = dir[n]
                 /\ \A k \in 1..n : dir[k] = UNION {search_dir(disk, j, path[k], "DIR") : j \in dir[k - 1]}
  BY Walking
<1>3. ASSUME NEW j, In(j), NEW m, NEW x \in search_dir(disk, j, m, "DIR")
      PROVE  In(x) /\ Called(x)
  <2>1. x \in ReachableOn(disk) /\ disk.inode[x].type = "DIR" /\ <<j, m, "DIR", x>> \in Names(disk)
    BY <1>3, FoundByName
  <2> QED  BY <2>1 DEF Dir
<1>4. \A x \in dir[1] : In(x) /\ Called(x)
  <2>1. 1 \in 1..n /\ 1 - 1 = 0
    BY <1>1
  <2>2. dir[1] = UNION {search_dir(disk, j, path[1], "DIR") : j \in dir[0]}
    BY <1>2, <2>1
  <2> HIDE DEF Called
  <2> QED  BY <1>2, <1>3, <2>2
<1>5. n = 2 => \A x \in dir[2] : In(x) /\ Called(x)
  <2>1. n = 2 => dir[2] = UNION {search_dir(disk, j, path[2], "DIR") : j \in dir[1]}
    BY <1>2
  <2> HIDE DEF Called, In
  <2> QED  BY <1>3, <1>4, <2>1
<1>6. i \in dir[n]
  BY <1>2
<1>7. In(i) /\ Called(i)
  <2> HIDE DEF In, Called, n
  <2> QED  BY ONLY <1>1, <1>4, <1>5, <1>6
<1> QED  BY <1>7

(* A slot that is emptied, or whose points move, opens nothing new.         *)
LEMMA GoodOtherPoints ==
  ASSUME NEW d, NEW c, NEW F, Good(d, c, F), c # NULL,
         NEW f \in 0..(NOFILE - 1), NEW r \in Slot, r.ino \in {0, F[f].ino}
  PROVE  Good(d, c, [F EXCEPT ![f] = r])
<1> DEFINE G == [F EXCEPT ![f] = r]
<1>1. F \in [0..(NOFILE - 1) -> Slot] /\ FilesSound(d, F)
  BY DEF Good, FilesSound
<1>2. G \in [0..(NOFILE - 1) -> Slot] /\ G[f] = r /\ \A g \in 0..(NOFILE - 1) \ {f} : G[g] = F[g]
  BY <1>1
<1> HIDE DEF G
<1>3. OpenIn(G) \subseteq OpenIn(F)
  BY <1>1, <1>2 DEF OpenIn
<1>4. InUseOf(d, G) \subseteq InUseOf(d, F)
  BY <1>3 DEF InUseOf
<1>5. FilesSound(d, G)
  BY <1>1, <1>2, <1>3 DEF FilesSound
<1>6. Apart(d, InUseOf(d, G))
  BY <1>4 DEF Good, Apart
<1>8. Stands(d, c, G)
  BY DEF Good, Stands
<1> QED  BY <1>5, <1>6, <1>8 DEF Good, G

(* open: the file has a name.                                              *)
LEMMA GoodOpened ==
  ASSUME NEW d, NEW c, NEW F, Good(d, c, F), c # NULL,
         NEW i \in ReachableOn(d), d.inode[i].type = "FILE",
         NEW f \in 0..(NOFILE - 1), NEW a \in {"R", "W", "RW"}
  PROVE  Good(d, c, [F EXCEPT ![f] = [Closed EXCEPT !.ino = i, !.access = a]])
<1> DEFINE r == [Closed EXCEPT !.ino = i, !.access = a]
           G == [F EXCEPT ![f] = r]
<1>1. F \in [0..(NOFILE - 1) -> Slot] /\ FilesSound(d, F) /\ d \in Disk
  BY DEF Good, FilesSound
<1>2. i \in Ino
  BY <1>1, UsedInodes
<1>3. r \in Slot /\ r.read_point = 0 /\ r.write_point = 0 /\ r.ino = i
  <2> DEFINE x == [Closed EXCEPT !.ino = i]
  <2>3. x = [ino |-> i, access |-> "R", read_point |-> 0, write_point |-> 0]
    BY DEF Closed
  <2>4. r = [x EXCEPT !.access = a]
    OBVIOUS
  <2> HIDE DEF x, r
  <2>1. r = [ino |-> i, access |-> a, read_point |-> 0, write_point |-> 0]
    BY <2>3, <2>4
  <2>2. 0 \in 0..End
    BY Sizing
  <2> HIDE DEF r
  <2> QED  BY <2>1, <2>2, <1>2 DEF Slot
<1> HIDE DEF r
<1>4. G \in [0..(NOFILE - 1) -> Slot] /\ G[f] = r /\ \A g \in 0..(NOFILE - 1) \ {f} : G[g] = F[g]
  BY <1>1, <1>3
<1> HIDE DEF G
<1>5. OpenIn(G) \subseteq OpenIn(F) \cup {i}
  BY <1>1, <1>3, <1>4 DEF OpenIn
<1>6. InUseOf(d, G) \subseteq InUseOf(d, F)
  BY <1>5 DEF InUseOf
<1>7. FilesSound(d, G)
  BY <1>1, <1>3, <1>4, <1>5, Sizing DEF FilesSound
<1>8. Apart(d, InUseOf(d, G))
  BY <1>6 DEF Good, Apart
<1>10. Stands(d, c, G)
  BY DEF Good, Stands
<1> QED  BY <1>7, <1>8, <1>10 DEF Good, G, r

-----------------------------------------------------------------------------
(* Positions and blocks. *)

(* A position is in one block.                                             *)
LEMMA Division ==
  ASSUME NEW s \in Nat \ {0}, NEW a \in Nat
  PROVE  a \div s \in Nat
OBVIOUS

(* Later positions are in later blocks.                                    *)
LEMMA Later ==
  ASSUME NEW s \in Nat \ {0}, NEW a \in Nat, NEW b \in Nat, a <= b
  PROVE  a \div s <= b \div s
OBVIOUS

(* A number has one place in one sector.                                   *)
LEMMA Placing ==
  ASSUME NEW s \in Nat \ {0}, NEW a \in Nat
  PROVE  /\ a \div s \in Nat /\ a % s \in 0..(s - 1)
         /\ \A n \in Nat : a < s * n => a \div s < n
OBVIOUS

(* Whole blocks are as many as they are.                                   *)
LEMMA Blockwise ==
  ASSUME NEW s \in Nat \ {0}, NEW q \in Nat
  PROVE  (q * s) \div s = q /\ q * s \in Nat
OBVIOUS

(* A transfer needs no more blocks than the largest file has.              *)
LEMMA NeededFits ==
  ASSUME NEW pos \in Nat, NEW n \in Nat, pos + n <= End
  PROVE  Needed(pos, n) \in Nat /\ Needed(pos, n) <= FILE_MAX
<1> DEFINE s == SECTOR_SIZE
           a == pos \div s
           e == pos + n
           b == e \div s
<1>1. s \in Nat \ {0} /\ FILE_MAX \in Nat /\ End \in Nat /\ e \in Nat /\ pos <= e /\ e <= End
  BY Sizing
<1> HIDE DEF s, e
<1>2. a \in Nat /\ b \in Nat /\ a <= b
  BY <1>1, Division, Later
<1>3. b <= FILE_MAX
  <2>1. End \div s = FILE_MAX
    BY <1>1, Blockwise DEF End, s
  <2>2. b <= End \div s
    BY ONLY <1>1, Later
  <2> QED  BY <2>1, <2>2
<1>4. Start(pos) = a /\ Stop(pos, n) = b
  BY DEF Start, Stop, s, e
<1> HIDE DEF a, b
<1>5. CASE b <= a
  <2>1. Needed(pos, n) = a
    BY <1>4, <1>5 DEF Needed, Returns
  <2> QED  BY <2>1, <1>1, <1>2, <1>3
<1>6. CASE ~ (b <= a)
  <2>1. Needed(pos, n) = a + 1
    BY <1>4, <1>6 DEF Needed, Returns
  <2> QED  BY <2>1, <1>1, <1>2, <1>3, <1>6
<1> QED  BY <1>5, <1>6

-----------------------------------------------------------------------------
(***************************************************************************)
(* Growing.  Every disk e that a write of file i leaves of disk d has the   *)
(* blocks that d has, and fresh ones behind them.                          *)
(***************************************************************************)
Ptr(d, i) == d.inode[i].ptr

Longer(d, e, i) ==
  /\ Len(Ptr(d, i)) <= Len(Ptr(e, i)) /\ IsInjective(Ptr(e, i))
  /\ \A l \in 1..Len(Ptr(d, i)) : Ptr(e, i)[l] = Ptr(d, i)[l]
  /\ \A l \in (Len(Ptr(d, i)) + 1)..Len(Ptr(e, i)) : Ptr(e, i)[l] \in e.dmap \ d.dmap

GrownFrom(d, e, i) ==
  /\ e \in Disk /\ Fits(e) /\ e.magic = d.magic /\ e.imap = d.imap /\ d.dmap \subseteq e.dmap
  /\ \A j \in Ino \ {i} : e.inode[j] = d.inode[j]
  /\ e.inode[i].type = d.inode[i].type /\ e.inode[i].ents = d.inode[i].ents
  /\ Longer(d, e, i)

(* Such a disk is good, and its names are those before.                    *)
LEMMA GoodGrown ==
  ASSUME NEW d, NEW c, NEW F, Good(d, c, F), NEW i \in OpenIn(F), NEW e, GrownFrom(d, e, i)
  PROVE  Good(e, c, F) /\ Names(e) = Names(d)
<1> DEFINE U == InUseOf(d, F)
<1>1. /\ d \in Disk /\ TreeSound(d) /\ FilesSound(d, F) /\ d.inode[i].type = "FILE" /\ ~ Dir(d, i)
      /\ Stands(d, c, F) /\ Apart(d, U)
  BY DEF Good, FilesSound, Dir
<1>2. U \subseteq Ino /\ i \in U /\ ReachableOn(d) \subseteq U /\ OpenIn(F) \subseteq U
  BY <1>1, UsedInodes DEF FilesSound, InUseOf
<1>3. /\ e \in Disk /\ Fits(e) /\ e.magic = d.magic /\ e.imap = d.imap /\ d.dmap \subseteq e.dmap
      /\ \A j \in Ino \ {i} : e.inode[j] = d.inode[j]
      /\ \A j \in Ino : e.inode[j].type = d.inode[j].type /\ e.inode[j].ents = d.inode[j].ents
      /\ Longer(d, e, i)
  BY DEF GrownFrom
<1>4. \A j \in ReachableOn(d) : Stays(d, e, j)
  BY <1>1, <1>2, <1>3 DEF Stays, Dir
<1>5. ReachableOn(e) = ReachableOn(d) /\ TreeSound(e) /\ Names(e) = Names(d)
  BY <1>1, <1>3, <1>4, TreeStays
<1>6. InUseOf(e, F) = U
  BY <1>5 DEF InUseOf
<1> HIDE DEF U
<1>7. Range(Ptr(e, i)) \subseteq Range(Ptr(d, i)) \cup (e.dmap \ d.dmap) /\ IsInjective(Ptr(e, i))
  <2>1. Ptr(e, i) \in Seq(Blk) /\ Ptr(d, i) \in Seq(Blk)
    BY <1>1, <1>2, <1>3 DEF Disk, Inode, Ptr
  <2> DEFINE p == Ptr(d, i)
             q == Ptr(e, i)
  <2>2. /\ Len(p) <= Len(q) /\ IsInjective(q) /\ \A l \in 1..Len(p) : q[l] = p[l]
        /\ \A l \in (Len(p) + 1)..Len(q) : q[l] \in e.dmap \ d.dmap
    BY <1>3 DEF Longer
  <2> HIDE DEF p, q
  <2>3. DOMAIN p = 1..Len(p) /\ DOMAIN q = 1..Len(q) /\ Len(p) \in Nat /\ Len(q) \in Nat
    BY <2>1 DEF p, q
  <2>4. \A l \in 1..Len(q) : l \in 1..Len(p) \/ l \in (Len(p) + 1)..Len(q)
    BY <2>3
  <2>5. Range(q) \subseteq Range(p) \cup (e.dmap \ d.dmap)
    BY <2>2, <2>3, <2>4 DEF Range
  <2> QED  BY <2>2, <2>5 DEF p, q
<1>8. Apart(e, U)
  <2>1. \A j \in U : /\ j \in d.imap /\ Range(Ptr(d, j)) \subseteq d.dmap /\ IsInjective(Ptr(d, j))
                     /\ \A k \in U \ {j} : Range(Ptr(d, j)) \cap Range(Ptr(d, k)) = {}
    BY <1>1 DEF Apart, Ptr
  <2>2. \A j \in U \ {i} : Ptr(e, j) = Ptr(d, j)
    BY <1>2, <1>3 DEF Ptr
  <2>3. \A j \in U : /\ j \in e.imap /\ Range(Ptr(e, j)) \subseteq e.dmap /\ IsInjective(Ptr(e, j))
                     /\ \A k \in U \ {j} : Range(Ptr(e, j)) \cap Range(Ptr(e, k)) = {}
    <3> SUFFICES ASSUME NEW j \in U
                 PROVE  /\ j \in e.imap /\ Range(Ptr(e, j)) \subseteq e.dmap /\ IsInjective(Ptr(e, j))
                        /\ \A k \in U \ {j} : Range(Ptr(e, j)) \cap Range(Ptr(e, k)) = {}
      OBVIOUS
    <3>1. CASE j = i
      BY <3>1, <2>1, <2>2, <1>2, <1>3, <1>7
    <3>2. CASE j # i
      BY <3>2, <2>1, <2>2, <1>2, <1>3, <1>7
    <3> QED  BY <3>1, <3>2
  <2> QED  BY <2>3 DEF Apart, Ptr
<1>10. Stands(e, c, F)
  BY <1>1, <1>2, <1>3, <1>5 DEF Stands, Dir
<1>11. FilesSound(e, F)
  BY <1>1, <1>2, <1>3 DEF FilesSound
<1> QED  BY <1>3, <1>5, <1>6, <1>8, <1>10, <1>11 DEF Good

(* The inode of a file with other blocks.                                  *)
LEMMA WithBlocks ==
  ASSUME NEW r \in Inode, NEW s \in Seq(Blk), NEW q, q = [r EXCEPT !.ptr = s]
  PROVE  q \in Inode /\ q.type = r.type /\ q.links = r.links /\ q.ptr = s /\ q.ents = r.ents
BY DEF Inode

(* A disk e with another inode i, that has the blocks s.                   *)
LEMMA Repointed ==
  ASSUME NEW e \in Disk, Fits(e), NEW i \in Ino, NEW s \in Seq(Blk), Len(s) <= FILE_MAX,
         NEW h, h = [e EXCEPT !.inode[i].ptr = s]
  PROVE  /\ h \in Disk /\ Fits(h) /\ h.magic = e.magic /\ h.imap = e.imap /\ h.dmap = e.dmap
         /\ \A j \in Ino \ {i} : h.inode[j] = e.inode[j]
         /\ h.inode[i].type = e.inode[i].type /\ h.inode[i].ents = e.inode[i].ents /\ Ptr(h, i) = s
<1> DEFINE r == [e.inode[i] EXCEPT !.ptr = s]
<1>1. e.inode[i] \in Inode
  BY DEF Disk
<1>2. h = write_inode(e, i, r)
  BY DEF write_inode
<1>3. r \in Inode /\ r.type = e.inode[i].type /\ r.ptr = s /\ r.ents = e.inode[i].ents
  BY <1>1, WithBlocks
<1> HIDE DEF r
<1>4. InodeWritten(e, h, i, r)
  BY ONLY <1>2, <1>3, e \in Disk, i \in Ino, WriteInode
<1>5. Len(r.ents) <= DIR_MAX
  BY <1>3 DEF Fits
<1> QED  BY <1>3, <1>4, <1>5 DEF InodeWritten, Ptr

(* The blocks that a growing file has are marked.                          *)
LEMMA GrownMarked ==
  ASSUME NEW d \in Disk, NEW i \in Ino, Range(Ptr(d, i)) \subseteq d.dmap,
         NEW e, GrownFrom(d, e, i)
  PROVE  /\ Ptr(d, i) \in Seq(Blk) /\ Ptr(e, i) \in Seq(Blk)
         /\ Len(Ptr(d, i)) \in Nat /\ Len(Ptr(e, i)) \in Nat
         /\ \A l \in 1..Len(Ptr(e, i)) : Ptr(e, i)[l] \in e.dmap
<1>1. Ptr(e, i) \in Seq(Blk) /\ Ptr(d, i) \in Seq(Blk)
  BY DEF GrownFrom, Disk, Inode, Ptr
<1> DEFINE p == Ptr(d, i)
           q == Ptr(e, i)
<1>2. /\ Len(p) <= Len(q) /\ \A l \in 1..Len(p) : q[l] = p[l]
      /\ \A l \in (Len(p) + 1)..Len(q) : q[l] \in e.dmap \ d.dmap
      /\ d.dmap \subseteq e.dmap
  BY DEF GrownFrom, Longer
<1> HIDE DEF p, q
<1>3. DOMAIN p = 1..Len(p) /\ Len(p) \in Nat /\ Len(q) \in Nat
  BY <1>1 DEF p, q
<1>4. \A l \in 1..Len(p) : p[l] \in d.dmap
  BY <1>3 DEF Range, p
<1>5. \A l \in 1..Len(q) : l \in 1..Len(p) \/ l \in (Len(p) + 1)..Len(q)
  BY <1>3
<1>6. \A l \in 1..Len(q) : q[l] \in e.dmap
  BY <1>2, <1>4, <1>5
<1> QED  BY <1>1, <1>3, <1>6 DEF p, q

(* One block more.                                                         *)
OneMore(e, g, i) ==
  /\ Len(Ptr(g, i)) = Len(Ptr(e, i)) + 1
  /\ \E b \in Blk \ e.dmap : g.dmap = e.dmap \cup {b}

(* That is what alloc_datablock and the pointer to the new block make.      *)
LEMMA AllocGrows ==
  ASSUME NEW d \in Disk, NEW i \in Ino, Range(Ptr(d, i)) \subseteq d.dmap,
         NEW e, GrownFrom(d, e, i), Len(Ptr(e, i)) < FILE_MAX, Blk \ e.dmap # {},
         NEW g, g = Alloc(e, i)
  PROVE  GrownFrom(d, g, i) /\ OneMore(e, g, i)
<1> DEFINE b == CHOOSE x \in alloc_datablock(e) : TRUE
           p == Ptr(d, i)
           q == Ptr(e, i)
           s == Append(q, b)
           h == [e EXCEPT !.inode[i].ptr = s]
<1>1. b \in Blk \ e.dmap
  <2> DEFINE X == Blk \ e.dmap
  <2>1. PICK x \in X : \A y \in X : x <= y
    <3>1. X \in SUBSET Nat /\ X # {}
      BY Sizing
    <3> HIDE DEF X
    <3> QED  BY <3>1, LeastNumber
  <2>2. x \in alloc_datablock(e)
    BY <2>1 DEF alloc_datablock
  <2>3. b \in alloc_datablock(e)
    BY <2>2
  <2> HIDE DEF b
  <2> QED  BY <2>3, Allocated
<1>2. g = set_dmap(h, b)
  BY DEF Alloc, Ptr
<1> HIDE DEF b
<1>3. /\ p \in Seq(Blk) /\ q \in Seq(Blk) /\ Len(p) \in Nat /\ Len(q) \in Nat
      /\ \A l \in 1..Len(q) : q[l] \in e.dmap
  BY GrownMarked
<1>4. s \in Seq(Blk) /\ Len(s) = Len(q) + 1 /\ s[Len(q) + 1] = b /\ \A l \in 1..Len(q) : s[l] = q[l]
  BY <1>1, <1>3
<1>5. e \in Disk /\ Fits(e) /\ FILE_MAX \in Nat
  BY Sizing DEF GrownFrom
<1> HIDE DEF s
<1>6. /\ h \in Disk /\ Fits(h) /\ h.magic = e.magic /\ h.imap = e.imap /\ h.dmap = e.dmap
      /\ \A j \in Ino \ {i} : h.inode[j] = e.inode[j]
      /\ h.inode[i].type = e.inode[i].type /\ h.inode[i].ents = e.inode[i].ents /\ Ptr(h, i) = s
  <2>1. Len(s) <= FILE_MAX
    BY <1>3, <1>4, <1>5
  <2> QED  BY <2>1, <1>4, <1>5, Repointed
<1> HIDE DEF h
<1>7. /\ g \in Disk /\ g.magic = h.magic /\ g.imap = h.imap /\ g.dmap = h.dmap \cup {b}
      /\ g.inode = h.inode
  <2>1. h \in Disk /\ b \in Blk
    BY <1>1, <1>6
  <2> QED  BY ONLY <2>1, <1>2, SetDmap
<1>8. Ptr(g, i) = s /\ g.dmap = e.dmap \cup {b}
  BY <1>6, <1>7 DEF Ptr
<1>9. Longer(d, e, i) /\ d.dmap \subseteq e.dmap
  BY DEF GrownFrom
<1>10. Longer(d, g, i)
  <2>1. /\ Len(p) <= Len(q) /\ IsInjective(q) /\ \A l \in 1..Len(p) : q[l] = p[l]
        /\ \A l \in (Len(p) + 1)..Len(q) : q[l] \in e.dmap \ d.dmap
    BY <1>9 DEF Longer
  <2> HIDE DEF p, q
  <2>2. \A l \in 1..Len(s) : l \in 1..Len(q) \/ l = Len(q) + 1
    BY <1>3, <1>4
  <2>3. IsInjective(s)
    <3>1. DOMAIN s = 1..Len(s) /\ DOMAIN q = 1..Len(q)
      BY <1>3, <1>4
    <3>2. \A l, m \in 1..Len(q) : q[l] = q[m] => l = m
      BY <2>1, <3>1 DEF IsInjective
    <3>3. \A l \in 1..Len(q) : q[l] # b
      BY <1>1, <1>3
    <3>4. \A l, m \in 1..Len(s) : s[l] = s[m] => l = m
      BY <2>2, <3>2, <3>3, <1>4
    <3> QED  BY <3>1, <3>4 DEF IsInjective
  <2>4. Len(p) <= Len(s) /\ \A l \in 1..Len(p) : s[l] = p[l]
    BY <2>1, <1>3, <1>4
  <2>5. \A l \in (Len(p) + 1)..Len(s) : s[l] \in g.dmap \ d.dmap
    <3> SUFFICES ASSUME NEW l \in (Len(p) + 1)..Len(s) PROVE s[l] \in g.dmap \ d.dmap
      OBVIOUS
    <3>1. CASE l = Len(q) + 1
      BY <3>1, <1>1, <1>4, <1>8, <1>9
    <3>2. CASE l # Len(q) + 1
      <4>1. l \in (Len(p) + 1)..Len(q) /\ l \in 1..Len(q)
        BY <3>2, <1>3, <1>4
      <4> QED  BY <4>1, <2>1, <1>4, <1>8
    <3> QED  BY <3>1, <3>2
  <2> QED  BY <2>3, <2>4, <2>5, <1>8 DEF Longer, p
<1>12. GrownFrom(d, g, i)
  <2>1. Fits(g)
    BY <1>6, <1>7 DEF Fits
  <2> QED  BY <2>1, <1>6, <1>7, <1>8, <1>9, <1>10 DEF GrownFrom
<1> QED  BY <1>1, <1>4, <1>8, <1>12 DEF OneMore

(* Fewer blocks shown than there are, but no fewer than there were.         *)
LEMMA ShowsGrown ==
  ASSUME NEW d \in Disk, NEW i \in Ino, Range(Ptr(d, i)) \subseteq d.dmap,
         NEW e, GrownFrom(d, e, i), NEW n \in Nat, Len(Ptr(d, i)) <= n, n <= Len(Ptr(e, i)),
         NEW g, g = Shows(e, i, n)
  PROVE  GrownFrom(d, g, i) /\ Len(Ptr(g, i)) = n
<1> DEFINE p == Ptr(d, i)
           q == Ptr(e, i)
           s == SubSeq(q, 1, n)
<1>1. /\ p \in Seq(Blk) /\ q \in Seq(Blk) /\ Len(p) \in Nat /\ Len(q) \in Nat
  BY GrownMarked
<1>2. s \in Seq(Blk) /\ Len(s) = n /\ \A l \in 1..n : s[l] = q[l]
  <2> HIDE DEF p, q
  <2> QED  BY <1>1 DEF q
<1>3. g = [e EXCEPT !.inode[i].ptr = s]
  BY DEF Shows, Ptr
<1> HIDE DEF s
<1>4. e \in Disk /\ Fits(e) /\ FILE_MAX \in Nat /\ Len(q) <= FILE_MAX
  BY Sizing DEF GrownFrom, Fits, Ptr
<1>5. /\ g \in Disk /\ Fits(g) /\ g.magic = e.magic /\ g.imap = e.imap /\ g.dmap = e.dmap
      /\ \A j \in Ino \ {i} : g.inode[j] = e.inode[j]
      /\ g.inode[i].type = e.inode[i].type /\ g.inode[i].ents = e.inode[i].ents /\ Ptr(g, i) = s
  <2>1. Len(s) <= FILE_MAX
    BY <1>1, <1>2, <1>4
  <2> QED  BY <2>1, <1>2, <1>3, <1>4, Repointed
<1>6. Longer(d, e, i) /\ d.dmap \subseteq e.dmap
  BY DEF GrownFrom
<1>7. /\ Len(p) <= Len(q) /\ IsInjective(q) /\ \A l \in 1..Len(p) : q[l] = p[l]
      /\ \A l \in (Len(p) + 1)..Len(q) : q[l] \in e.dmap \ d.dmap
  BY <1>6 DEF Longer
<1>8. Longer(d, g, i)
  <2> HIDE DEF p, q
  <2>1. IsInjective(s)
    <3>1. DOMAIN s = 1..n /\ DOMAIN q = 1..Len(q) /\ 1..n \subseteq 1..Len(q)
      BY <1>1, <1>2 DEF q
    <3>2. \A l, m \in 1..Len(q) : q[l] = q[m] => l = m
      BY <1>7, <3>1 DEF IsInjective
    <3> QED  BY <3>1, <3>2, <1>2 DEF IsInjective
  <2>2. Len(p) <= Len(s) /\ \A l \in 1..Len(p) : s[l] = p[l]
    BY <1>1, <1>2, <1>7 DEF p, q
  <2>3. \A l \in (Len(p) + 1)..Len(s) : s[l] \in g.dmap \ d.dmap
    BY <1>1, <1>2, <1>5, <1>7 DEF p, q
  <2> QED  BY <2>1, <2>2, <2>3, <1>5 DEF Longer, p
<1> QED  BY <1>2, <1>5, <1>6, <1>8 DEF GrownFrom

(* Two disks more.                                                         *)
LEMMA TwoMore ==
  ASSUME NEW S, NEW s \in Seq(S), NEW a \in S, NEW b \in S
  PROVE  /\ s \o <<a, b>> \in Seq(S) /\ s \o <<a, b>> # <<>>
         /\ Last(s \o <<a, b>>) = b /\ Range(s \o <<a, b>>) \subseteq Range(s) \cup {a, b}
<1> DEFINE t == s \o <<a, b>>
<1>1. Len(s) \in Nat /\ DOMAIN s = 1..Len(s)
  OBVIOUS
<1>2. t \in Seq(S) /\ Len(t) = Len(s) + 2 /\ DOMAIN t = 1..Len(t)
  OBVIOUS
<1>3. \A l \in 1..Len(s) : t[l] = s[l]
  OBVIOUS
<1>4. t[Len(s) + 1] = a /\ t[Len(s) + 2] = b
  OBVIOUS
<1> HIDE DEF t
<1>5. t # <<>> /\ Last(t) = b
  BY <1>1, <1>2, <1>4 DEF Last
<1>6. \A l \in 1..Len(t) : l \in 1..Len(s) \/ l = Len(s) + 1 \/ l = Len(s) + 2
  BY <1>1, <1>2
<1>7. Range(t) \subseteq Range(s) \cup {a, b}
  BY <1>1, <1>2, <1>3, <1>4, <1>6 DEF Range
<1> QED  BY <1>2, <1>5, <1>7 DEF t

Room0(i) == Cardinality(Blk \ disk.dmap) + Len(Ptr(disk, i))

Sound(s, i) ==
  /\ GrownFrom(disk, s.buf, i)
  /\ Cardinality(Blk \ s.buf.dmap) + Len(Ptr(s.buf, i)) = Room0(i)
  /\ s.ds \in Seq(Disk) /\ s.ds # <<>> /\ \A e \in Range(s.ds) : GrownFrom(disk, e, i)
  /\ Len(Ptr(Last(s.ds), i)) <= Len(Ptr(s.buf, i))

(* Growing leaves one block more.                                          *)
LEMMA GrowSound ==
  ASSUME disk \in Disk, NEW i \in Ino, Range(Ptr(disk, i)) \subseteq disk.dmap,
         NEW s, Sound(s, i),
         Len(Ptr(s.buf, i)) < FILE_MAX, Len(Ptr(s.buf, i)) < Room0(i), NEW t, t = Grow(s, i)
  PROVE  /\ Sound(t, i) /\ Len(Ptr(t.buf, i)) = Len(Ptr(s.buf, i)) + 1
<1> DEFINE e == s.buf
           g == Alloc(e, i)
           p == Ptr(disk, i)
           n1 == Len(Ptr(Last(s.ds), i))
           n2 == Len(Ptr(e, i))
           a == Shows(g, i, n1)
           b == Shows(g, i, n2)
<1>1. /\ GrownFrom(disk, e, i) /\ Cardinality(Blk \ e.dmap) + n2 = Room0(i)
      /\ s.ds \in Seq(Disk) /\ s.ds # <<>> /\ (\A x \in Range(s.ds) : GrownFrom(disk, x, i)) /\ n1 <= n2
  BY DEF Sound
<1>2. t = [buf |-> g, ds |-> s.ds \o <<a, b>>]
  BY DEF Grow, Blocks, Ptr
<1> HIDE DEF e, g
<1>3. IsFiniteSet(Blk \ e.dmap) /\ Cardinality(Blk \ e.dmap) \in Nat
  <2>1. IsFiniteSet(Blk)
    <3>1. DATABLOCK_NUM \in Nat
      BY FileSysAssumption DEF FileSysAssumption
    <3> QED  BY <3>1, FS_Interval DEF Blk
  <2> QED  BY <2>1, FS_Subset, FS_CardinalityType
<1>4. Len(p) \in Nat /\ n2 \in Nat /\ Len(p) <= n2
  BY <1>1, GrownMarked DEF GrownFrom, Longer
<1>5. n1 \in Nat /\ Len(p) <= n1
  <2>1. GrownFrom(disk, Last(s.ds), i)
    BY <1>1, LastAndFront
  <2> QED  BY <2>1, GrownMarked DEF GrownFrom, Longer
<1>6. Blk \ e.dmap # {}
  <2>1. Cardinality(Blk \ e.dmap) # 0
    <3>1. n2 < Room0(i)
      BY DEF e
    <3> HIDE DEF n2
    <3> QED  BY <3>1, <1>1, <1>3, <1>4
  <2> QED  BY <2>1, FS_EmptySet
<1>7. /\ GrownFrom(disk, g, i) /\ Len(Ptr(g, i)) = n2 + 1
      /\ \E x \in Blk \ e.dmap : g.dmap = e.dmap \cup {x}
  <2>1. n2 < FILE_MAX /\ g = Alloc(e, i)
    BY DEF e, g
  <2>2. /\ disk \in Disk /\ i \in Ino /\ Range(Ptr(disk, i)) \subseteq disk.dmap
        /\ GrownFrom(disk, e, i) /\ Len(Ptr(e, i)) < FILE_MAX
    BY <1>1, <2>1
  <2>3. GrownFrom(disk, g, i) /\ OneMore(e, g, i)
    BY ONLY <2>1, <2>2, <1>6, AllocGrows
  <2> QED  BY ONLY <2>3 DEF OneMore
<1> HIDE DEF n1, n2
<1>8. GrownFrom(disk, a, i) /\ GrownFrom(disk, b, i) /\ Len(Ptr(b, i)) = n2
  <2>1. n1 <= Len(Ptr(g, i)) /\ n2 <= Len(Ptr(g, i))
    BY <1>1, <1>4, <1>5, <1>7
  <2>2. GrownFrom(disk, a, i)
    BY <2>1, <1>5, <1>7, ShowsGrown
  <2>3. GrownFrom(disk, b, i) /\ Len(Ptr(b, i)) = n2
    BY <2>1, <1>4, <1>7, ShowsGrown
  <2> QED  BY <2>2, <2>3
<1> HIDE DEF a, b
<1> DEFINE ds == s.ds \o <<a, b>>
<1>9. /\ ds \in Seq(Disk) /\ ds # <<>> /\ Last(ds) = b /\ Range(ds) \subseteq Range(s.ds) \cup {a, b}
  <2>1. a \in Disk /\ b \in Disk
    BY <1>8 DEF GrownFrom
  <2> QED  BY <2>1, <1>1, TwoMore
<1> HIDE DEF ds
<1>10. t.buf = g /\ t.ds = ds
  BY <1>2 DEF ds
<1>11. Cardinality(Blk \ g.dmap) = Cardinality(Blk \ e.dmap) - 1
  <2>1. PICK x \in Blk \ e.dmap : g.dmap = e.dmap \cup {x}
    BY <1>7
  <2>2. Blk \ g.dmap = (Blk \ e.dmap) \ {x}
    BY <2>1
  <2> DEFINE X == Blk \ e.dmap
  <2>3. x \in X /\ IsFiniteSet(X)
    BY <2>1, <1>3
  <2> HIDE DEF X
  <2>4. Cardinality(X \ {x}) = Cardinality(X) - 1
    BY ONLY <2>3, FS_RemoveElement
  <2> QED  BY <2>2, <2>4 DEF X
<1>12. Cardinality(Blk \ g.dmap) + Len(Ptr(g, i)) = Room0(i)
  BY <1>1, <1>3, <1>4, <1>7, <1>11
<1>13. Sound(t, i)
  <2>1. \A x \in Range(ds) : GrownFrom(disk, x, i)
    BY <1>1, <1>8, <1>9
  <2>2. Len(Ptr(b, i)) <= Len(Ptr(g, i))
    BY <1>4, <1>7, <1>8
  <2> QED  BY <2>1, <2>2, <1>7, <1>9, <1>10, <1>12 DEF Sound
<1> QED  BY <1>7, <1>10, <1>13 DEF n2, e

(* The state of a file that grows, on its way to k blocks.                 *)
Steady(s, i, k) ==
  /\ Sound(s, i)
  /\ Len(Ptr(s.buf, i)) = IF k <= Len(Ptr(disk, i)) THEN Len(Ptr(disk, i)) ELSE k

(* The function of Grown, unfolded.                                        *)
LEMMA GrownUnfolds ==
  ASSUME NEW i, NEW n \in Nat, Blocks(disk, i) \in Nat
  PROVE  \E done : /\ Grown(i, n) = Append(done[n].ds, done[n].buf)
                   /\ \A k \in 0..n : done[k] = IF k <= Blocks(disk, i) THEN [buf |-> disk, ds |-> <<disk>>]
                                                 ELSE Grow(done[k - 1], i)
<1> DEFINE n0 == Blocks(disk, i)
           s0 == [buf |-> disk, ds |-> <<disk>>]
           Body(f, p) == [k \in 0..p |-> IF k <= n0 THEN s0 ELSE Grow(f[k - 1], i)]
           T == {p \in Nat : \E f : f = Body(f, p)}
           done == CHOOSE f : f = Body(f, n)
<1>1. Grown(i, n) = Append(done[n].ds, done[n].buf)
  BY DEF Grown
<1> HIDE DEF s0, n0
<1>0. n0 \in Nat
  BY DEF n0
<1>2. 0 \in T
  <2> DEFINE f0 == [k \in 0..0 |-> s0]
  <2>1. f0 = Body(f0, 0)
    BY <1>0
  <2> HIDE DEF f0
  <2> QED  BY <2>1
<1>3. ASSUME NEW p \in 0..(n - 1), p \in T PROVE p + 1 \in T
  <2>1. PICK f : f = Body(f, p)
    BY <1>3
  <2> DEFINE g == [k \in 0..(p + 1) |-> IF k = p + 1 THEN IF k <= n0 THEN s0 ELSE Grow(f[p], i) ELSE f[k]]
  <2>2. p \in Nat
    OBVIOUS
  <2>3. \A k \in 0..p : g[k] = f[k] /\ f[k] = IF k <= n0 THEN s0 ELSE Grow(f[k - 1], i)
    <3>1. \A k \in 0..p : f[k] = IF k <= n0 THEN s0 ELSE Grow(f[k - 1], i)
      BY ONLY <2>1, <2>2
    <3>2. \A k \in 0..p : g[k] = f[k]
      BY ONLY <2>2
    <3> HIDE DEF g
    <3> QED  BY ONLY <3>1, <3>2
  <2>4. g[p + 1] = IF p + 1 <= n0 THEN s0 ELSE Grow(g[p], i)
    BY <2>2, <2>3
  <2>5. \A k \in 0..(p + 1) : g[k] = IF k <= n0 THEN s0 ELSE Grow(g[k - 1], i)
    <3> SUFFICES ASSUME NEW k \in 0..(p + 1)
                 PROVE  g[k] = IF k <= n0 THEN s0 ELSE Grow(g[k - 1], i)
      OBVIOUS
    <3>1. CASE k = p + 1
      <4>1. k - 1 = p
        BY <3>1, <2>2
      <4> HIDE DEF g
      <4> QED  BY <3>1, <4>1, <2>4
    <3>2. CASE k \in 0..p
      <4>1. k <= n0 \/ k - 1 \in 0..p
        BY <3>2, <2>2, <1>0
      <4> HIDE DEF g
      <4> QED  BY <3>2, <4>1, <2>3
    <3> QED  BY <3>1, <3>2, <2>2
  <2>6. g = Body(g, p + 1)
    <3>1. g = [k \in 0..(p + 1) |-> g[k]]
      OBVIOUS
    <3> HIDE DEF g
    <3> QED  BY <3>1, <2>5
  <2> HIDE DEF g
  <2>7. \E h : h = Body(h, p + 1)
    <3> HIDE DEF Body
    <3> QED  BY ONLY <2>6
  <2>8. p + 1 \in Nat
    BY ONLY <2>2
  <2> HIDE DEF Body
  <2> QED  BY ONLY <2>7, <2>8
<1>4. n \in T
  <2> HIDE DEF T
  <2>1. 0..n \subseteq T
    BY <1>2, <1>3, NumbersUpTo
  <2> QED  BY <2>1
<1>5. done = Body(done, n)
  BY <1>4
<1> HIDE DEF done
<1>6. \A k \in 0..n : done[k] = IF k <= n0 THEN s0 ELSE Grow(done[k - 1], i)
  BY <1>5
<1> QED  BY <1>1, <1>6 DEF s0, n0

(* The disks that a growing file leaves: all have grown from the first.    *)
LEMMA GrownDisks ==
  ASSUME Good(disk, current_inode, FD_table), NEW i \in OpenIn(FD_table),
         NEW n \in Nat, n <= FILE_MAX, n <= Room0(i), NEW l, l = Last(Grown(i, n))
  PROVE  GrownFrom(disk, l, i) /\ \A e \in Range(Front(Grown(i, n))) : GrownFrom(disk, e, i)
<1> DEFINE s0 == [buf |-> disk, ds |-> <<disk>>]
           n0 == Len(Ptr(disk, i))
<1>1. /\ disk \in Disk /\ Fits(disk) /\ i \in Ino /\ i \in InUseOf(disk, FD_table)
      /\ Apart(disk, InUseOf(disk, FD_table))
  BY UsedInodes DEF Good, FilesSound, InUseOf
<1>2. Range(Ptr(disk, i)) \subseteq disk.dmap /\ IsInjective(Ptr(disk, i))
  BY <1>1 DEF Apart, Ptr
<1>3. Ptr(disk, i) \in Seq(Blk) /\ n0 \in Nat /\ n0 = Blocks(disk, i)
  BY <1>1 DEF Disk, Inode, Ptr, Blocks
<1>4. PICK done : /\ Grown(i, n) = Append(done[n].ds, done[n].buf)
                  /\ \A k \in 0..n : done[k] = IF k <= Blocks(disk, i) THEN s0 ELSE Grow(done[k - 1], i)
  <2>1. n \in Nat /\ Blocks(disk, i) \in Nat
    BY <1>3
  <2> QED  BY ONLY <2>1, GrownUnfolds
<1>5. GrownFrom(disk, disk, i)
  <2>1. Longer(disk, disk, i)
    BY <1>2, <1>3 DEF Longer
  <2> QED  BY <2>1, <1>1 DEF GrownFrom
<1>6. ASSUME NEW k \in Nat, k <= n0 PROVE Steady(s0, i, k)
  <2>1. <<disk>> \in Seq(Disk) /\ <<disk>> # <<>> /\ Last(<<disk>>) = disk /\ Range(<<disk>>) = {disk}
    BY <1>1 DEF Last, Range
  <2>2. s0.buf = disk /\ s0.ds = <<disk>>
    OBVIOUS
  <2> HIDE DEF s0
  <2>3. Sound(s0, i)
    BY <2>1, <2>2, <1>3, <1>5 DEF Sound, Room0
  <2> QED  BY <2>2, <2>3, <1>6 DEF Steady
<1>7. Room0(i) \in Nat
  <2>1. IsFiniteSet(Blk)
    <3>1. DATABLOCK_NUM \in Nat
      BY FileSysAssumption DEF FileSysAssumption
    <3> QED  BY <3>1, FS_Interval DEF Blk
  <2>2. Cardinality(Blk \ disk.dmap) \in Nat
    BY <2>1, FS_Subset, FS_CardinalityType
  <2> QED  BY <2>2, <1>3 DEF Room0
<1> HIDE DEF s0, n0
<1> DEFINE T == {k \in 0..n : Steady(done[k], i, k)}
<1>8. 0 \in T
  <2>1. done[0] = s0
    BY <1>3, <1>4 DEF n0
  <2> QED  BY <2>1, <1>3, <1>6
<1>9. ASSUME NEW k \in 0..(n - 1), k \in T PROVE k + 1 \in T
  <2>1. k \in Nat /\ k < n /\ k + 1 \in 0..n /\ k + 1 - 1 = k
    OBVIOUS
  <2>2. Steady(done[k], i, k)
    BY <1>9
  <2>3. done[k + 1] = IF k + 1 <= n0 THEN s0 ELSE Grow(done[k], i)
    BY <1>3, <1>4, <2>1
  <2> HIDE DEF T
  <2>4. CASE k + 1 <= n0
    <3>1. Steady(done[k + 1], i, k + 1)
      BY <2>1, <2>3, <2>4, <1>6
    <3> QED  BY <3>1, <2>1 DEF T
  <2>5. CASE ~ (k + 1 <= n0)
    <3> DEFINE s == done[k]
               t == done[k + 1]
    <3>1. Sound(s, i) /\ Len(Ptr(s.buf, i)) = k
      BY <2>1, <2>2, <2>5, <1>3 DEF Steady, n0
    <3>2. k < FILE_MAX /\ k < Room0(i)
      BY <2>1, <1>7, Sizing
    <3>3. t = Grow(s, i)
      BY <2>3, <2>5
    <3> HIDE DEF s, t
    <3>4. Sound(t, i) /\ Len(Ptr(t.buf, i)) = Len(Ptr(s.buf, i)) + 1
      <4>1. Len(Ptr(s.buf, i)) < FILE_MAX /\ Len(Ptr(s.buf, i)) < Room0(i)
        BY <3>1, <3>2
      <4> QED  BY ONLY <4>1, <3>1, <3>3, <1>1, <1>2, GrowSound
    <3>5. Steady(t, i, k + 1)
      BY <3>1, <3>4, <2>5 DEF Steady, n0
    <3> QED  BY <3>5, <2>1 DEF T, t
  <2> QED  BY <2>4, <2>5
<1>10. Steady(done[n], i, n)
  <2>1. 0..n \subseteq T
    <3> HIDE DEF T
    <3> QED  BY <1>8, <1>9, NumbersUpTo
  <2> QED  BY <2>1
<1> DEFINE ds == done[n].ds
           b == done[n].buf
<1>11. GrownFrom(disk, b, i) /\ ds \in Seq(Disk) /\ (\A e \in Range(ds) : GrownFrom(disk, e, i))
  BY <1>10 DEF Steady, Sound
<1>12. Grown(i, n) = Append(ds, b)
  BY <1>4
<1> HIDE DEF ds, b
<1>13. Last(Append(ds, b)) = b /\ Range(Front(Append(ds, b))) \subseteq Range(ds)
  <2>1. b \in Disk /\ Len(ds) \in Nat /\ DOMAIN ds = 1..Len(ds)
    BY <1>11 DEF GrownFrom
  <2> DEFINE t == Append(ds, b)
  <2>2. t \in Seq(Disk) /\ Len(t) = Len(ds) + 1 /\ t[Len(ds) + 1] = b /\ \A j \in 1..Len(ds) : t[j] = ds[j]
    BY <2>1, <1>11
  <2> HIDE DEF t
  <2>3. Last(t) = b
    BY <2>2 DEF Last
  <2>4. Front(t) = [j \in 1..Len(ds) |-> t[j]]
    BY <2>1, <2>2 DEF Front
  <2>5. Range(Front(t)) \subseteq Range(ds)
    BY <2>1, <2>2, <2>4 DEF Range
  <2> QED  BY <2>3, <2>5 DEF t
<1> QED  BY <1>11, <1>12, <1>13

-----------------------------------------------------------------------------
(***************************************************************************)
(* The steps.  Each leaves a good state, and names that are those before,   *)
(* or changed as FileTree says.                                            *)
(***************************************************************************)
FsInv == Good(disk, current_inode, FD_table)

(* What a step may do to the names, the marks and the current directory.   *)
Follows == /\ current_inode # NULL /\ current_inode' \in {current_inode, NULL} /\ Marks(disk')
           /\ Names(disk') = Names(disk) \/ Tree!Change

(* A slot whose points were moved.                                         *)
LEMMA MovedSlot ==
  ASSUME NEW s \in Slot, NEW a \in 0..End
  PROVE  /\ [s EXCEPT !.read_point = a] \in Slot /\ [s EXCEPT !.read_point = a].ino = s.ino
         /\ [s EXCEPT !.read_point = a].read_point = a
         /\ [s EXCEPT !.read_point = a].write_point = s.write_point
         /\ [s EXCEPT !.write_point = a] \in Slot /\ [s EXCEPT !.write_point = a].ino = s.ino
         /\ [s EXCEPT !.write_point = a].read_point = s.read_point
         /\ [s EXCEPT !.write_point = a].write_point = a
<1>1. [s EXCEPT !.read_point = a] \in Slot /\ [s EXCEPT !.write_point = a] \in Slot
  BY DEF Slot
<1>2. /\ [s EXCEPT !.read_point = a].ino = s.ino /\ [s EXCEPT !.read_point = a].read_point = a
      /\ [s EXCEPT !.read_point = a].write_point = s.write_point
  BY DEF Slot
<1>3. /\ [s EXCEPT !.write_point = a].ino = s.ino /\ [s EXCEPT !.write_point = a].write_point = a
      /\ [s EXCEPT !.write_point = a].read_point = s.read_point
  BY DEF Slot
<1> QED  BY <1>1, <1>2, <1>3

(* What is in the invariant, while the disk is mounted.                    *)
LEMMA MountedFacts ==
  ASSUME FsInv, Mounted
  PROVE  /\ disk \in Disk /\ disk.magic /\ TreeSound(disk) /\ Fits(disk)
         /\ current_inode \in ReachableOn(disk) /\ Dir(disk, current_inode) /\ current_inode \in Ino
         /\ current_inode # NULL /\ FD_table \in [0..(NOFILE - 1) -> Slot]
         /\ \A f \in DOMAIN FD_table : f \in 0..(NOFILE - 1) /\ FD_table[f] \in Slot
<1>1. disk \in Disk /\ disk.magic /\ TreeSound(disk) /\ Fits(disk) /\ current_inode # NULL
  BY DEF FsInv, Good, Mounted
<1>2. current_inode \in ReachableOn(disk) /\ Dir(disk, current_inode)
  BY <1>1 DEF FsInv, Good, Stands
<1>3. current_inode \in Ino
  BY <1>1, <1>2, Reached
<1>4. FD_table \in [0..(NOFILE - 1) -> Slot]
  BY DEF FsInv, Good, FilesSound
<1> QED  BY <1>1, <1>2, <1>3, <1>4

(* A call that runs to its end, or is cut off.                             *)
LEMMA CallGood ==
  ASSUME FsInv, Mounted, NEW ds, NEW X, Leaves(ds, X), NEW n, Call(n, ds)
  PROVE  /\ FsInv' /\ (Names(disk') = Names(disk) \/ Names(disk') = X) /\ Marks(disk')
         /\ current_inode # NULL /\ current_inode' \in {current_inode, NULL}
<1>1. ds \in Seq(Disk) /\ ds # <<>>
  BY DEF Leaves
<1>2. Last(ds) \in Range(ds) /\ Range(Front(ds)) \subseteq Range(ds)
  BY <1>1, LastAndFront
<1>3. disk' \in Range(ds)
  BY <1>2 DEF Call
<1>4. /\ Good(disk', current_inode, FD_table) /\ Marks(disk')
      /\ Names(disk') = Names(disk) \/ Names(disk') = X
  BY <1>3 DEF Leaves
<1>5. CASE UNCHANGED <<current_inode, FD_table>>
  BY <1>4, <1>5 DEF FsInv, Mounted
<1>6. CASE Off
  <2>1. Good(disk', NULL, NoFiles)
    BY <1>4, GoodAfterReset
  <2> QED  BY <1>4, <1>6, <2>1 DEF FsInv, Off, Mounted
<1> QED  BY <1>5, <1>6 DEF Call

(* The names of the tree are about what is reachable; what search_dir does  *)
(* not find has no name.                                                   *)
LEMMA NamesKnown ==
  ASSUME NEW d \in Disk, d.magic, TreeSound(d)
  PROVE  /\ Tree!Known(Names(d)) \subseteq ReachableOn(d)
         /\ \A c \in ReachableOn(d) : \A n, t : Dir(d, c) /\ search_dir(d, c, n, t) = {} =>
               \A e \in Names(d) : ~ (e[1] = c /\ e[2] = n /\ e[3] = t)
<1>1. ASSUME NEW e \in Names(d)
      PROVE  \E c \in ReachableOn(d) : \E k \in 1..Len(Ents(d, c)) :
                /\ Dir(d, c) /\ e = <<c, Ents(d, c)[k].name, Ents(d, c)[k].type, Ents(d, c)[k].ino>>
                /\ Ents(d, c)[k].ino \in ReachableOn(d)
  <2>1. PICK c \in ReachableOn(d) : e \in NamesIn(d, c)
    BY <1>1 DEF Names
  <2>2. PICK x \in EntriesOn(d, c) : e = <<c, x.name, x.type, x.ino>>
    BY <2>1 DEF NamesIn
  <2>3. Dir(d, c)
    BY <2>2 DEF EntriesOn, Dir
  <2>4. /\ EntriesOn(d, c) = {Ents(d, c)[k] : k \in 1..Len(Ents(d, c))}
        /\ \A k \in 1..Len(Ents(d, c)) : Ents(d, c)[k].ino \in ReachableOn(d)
    BY <2>3, EntriesOfListing
  <2> QED  BY <2>2, <2>3, <2>4
<1>2. Tree!Known(Names(d)) \subseteq ReachableOn(d)
  <2>1. \A e \in Names(d) : e[1] \in ReachableOn(d) /\ e[4] \in ReachableOn(d)
    BY <1>1
  <2> QED  BY <2>1 DEF Tree!Known
<1>3. ASSUME NEW c \in ReachableOn(d), NEW n, NEW t, Dir(d, c), search_dir(d, c, n, t) = {},
             NEW e \in Names(d), e[1] = c, e[2] = n, e[3] = t
      PROVE  FALSE
  <2>1. c \in Ino
    BY Reached
  <2>2. \A k \in 1..Len(Ents(d, c)) : Ents(d, c)[k].name # n \/ Ents(d, c)[k].type # t
    BY <1>3, <2>1, Search
  <2>3. PICK b \in ReachableOn(d) : \E k \in 1..Len(Ents(d, b)) :
                e = <<b, Ents(d, b)[k].name, Ents(d, b)[k].type, Ents(d, b)[k].ino>>
    BY <1>1, <1>3
  <2>4. b = c
    BY <2>3, <1>3
  <2> QED  BY <2>2, <2>3, <2>4, <1>3
<1> QED  BY <1>2, <1>3

(* mkdir makes a directory, or nothing.                                    *)
LEMMA MkdirSteps ==
  ASSUME FsInv, Mkdir
  PROVE  FsInv' /\ Follows
<1> DEFINE c == current_inode
<1>1. PICK n \in Name, i \in alloc_inode(disk), b \in alloc_datablock(disk) :
        /\ Mounted /\ Room /\ Found(n, "DIR") = {} /\ Call("mkdir", do_mkdir(n, i, b))
  BY DEF Mkdir
<1>2. search_dir(disk, c, n, "DIR") = {}
  BY <1>1 DEF Found
<1> DEFINE X == Names(disk) \cup Added(c, n, "DIR", i)
<1>3. Leaves(do_mkdir(n, i, b), X)
  BY <1>1, <1>2, MkdirLeaves DEF FsInv
<1>4. /\ FsInv' /\ (Names(disk') = Names(disk) \/ Names(disk') = X) /\ Marks(disk')
      /\ c # NULL /\ c' \in {c, NULL}
  BY <1>1, <1>3, CallGood
<1>5. /\ disk \in Disk /\ disk.magic /\ TreeSound(disk) /\ c \in ReachableOn(disk) /\ Dir(disk, c)
  BY <1>1, MountedFacts
<1>6. i \in Ino /\ i \notin ReachableOn(disk)
  <2>1. i \in Ino /\ i \notin disk.imap
    BY Allocated
  <2> QED  BY <2>1 DEF FsInv, Good, Apart, InUseOf
<1>7. ~ Tree!Taken(n, "DIR") /\ i \notin Tree!Known(Names(disk))
  <2>1. \A e \in Names(disk) : ~ (e[1] = c /\ e[2] = n /\ e[3] = "DIR")
    BY <1>2, <1>5, NamesKnown
  <2> QED  BY <2>1, <1>5, <1>6, NamesKnown DEF Tree!Taken
<1>8. ASSUME Names(disk') = X, Names(disk') # Names(disk) PROVE Tree!Change
  <2>1. X = Names(disk) \cup {<<c, n, "DIR", i>>} \cup Tree!Own(i, c)
    BY DEF Added, Tree!Own
  <2>2. Tree!MakeDir(n, i)
    BY <2>1, <1>7, <1>8 DEF Tree!MakeDir
  <2> QED  BY <2>2, <1>6, <1>8 DEF Tree!Change
<1> QED  BY <1>4, <1>8 DEF Follows

(* touch makes an empty file, or nothing.                                  *)
LEMMA TouchSteps ==
  ASSUME FsInv, Touch
  PROVE  FsInv' /\ Follows
<1> DEFINE c == current_inode
<1>1. PICK n \in Name, i \in alloc_inode(disk), b \in alloc_datablock(disk) :
        /\ Mounted /\ Room /\ Found(n, "FILE") = {} /\ Call("touch", do_touch(n, i, b))
  BY DEF Touch
<1>2. search_dir(disk, c, n, "FILE") = {}
  BY <1>1 DEF Found
<1>3. i \in Ino /\ i \notin InUseOf(disk, FD_table)
  <2>1. i \in Ino /\ i \notin disk.imap
    BY Allocated
  <2> QED  BY <2>1 DEF FsInv, Good, Apart
<1> DEFINE X == Names(disk) \cup Added(c, n, "FILE", i)
<1>5. Leaves(do_touch(n, i, b), X)
  BY <1>1, <1>2, TouchLeaves DEF FsInv
<1>6. /\ FsInv' /\ (Names(disk') = Names(disk) \/ Names(disk') = X) /\ Marks(disk')
      /\ c # NULL /\ c' \in {c, NULL}
  BY <1>1, <1>5, CallGood
<1>7. /\ disk \in Disk /\ disk.magic /\ TreeSound(disk) /\ c \in ReachableOn(disk) /\ Dir(disk, c)
  BY <1>1, MountedFacts
<1>8. ~ Tree!Taken(n, "FILE") /\ i \notin Tree!Known(Names(disk))
  <2>1. \A e \in Names(disk) : ~ (e[1] = c /\ e[2] = n /\ e[3] = "FILE")
    BY <1>2, <1>7, NamesKnown
  <2> QED  BY <2>1, <1>3, <1>7, NamesKnown DEF Tree!Taken, InUseOf
<1>9. ASSUME Names(disk') = X, Names(disk') # Names(disk) PROVE Tree!Change
  <2>1. X = Names(disk) \cup {<<c, n, "FILE", i>>}
    BY DEF Added
  <2>2. Tree!MakeFile(n, i)
    BY <2>1, <1>8, <1>9 DEF Tree!MakeFile
  <2> QED  BY <2>2, <1>3, <1>9 DEF Tree!Change
<1> QED  BY <1>6, <1>9 DEF Follows

(* ln gives a file a second name, or nothing.                              *)
LEMMA LnSteps ==
  ASSUME FsInv, Ln
  PROVE  FsInv' /\ Follows
<1> DEFINE c == current_inode
<1>1. PICK n, m \in Name : \E i \in Found(n, "FILE") :
        Room /\ Found(m, "FILE") = {} /\ Call("ln", do_ln(m, i))
  BY DEF Ln
<1>2. PICK i \in Found(n, "FILE") :
        Room /\ Found(m, "FILE") = {} /\ Call("ln", do_ln(m, i))
  BY <1>1
<1>3. Mounted /\ i \in search_dir(disk, c, n, "FILE") /\ search_dir(disk, c, m, "FILE") = {}
  BY <1>2 DEF Found
<1> DEFINE X == Names(disk) \cup Added(c, m, "FILE", i)
<1>4. Leaves(do_ln(m, i), X)
  BY <1>2, <1>3, LnLeaves DEF FsInv
<1>5. /\ FsInv' /\ (Names(disk') = Names(disk) \/ Names(disk') = X) /\ Marks(disk')
      /\ c # NULL /\ c' \in {c, NULL}
  BY <1>2, <1>3, <1>4, CallGood
<1>6. /\ disk \in Disk /\ disk.magic /\ TreeSound(disk) /\ c \in ReachableOn(disk) /\ Dir(disk, c)
  BY <1>3, MountedFacts
<1>7. ~ Tree!Taken(m, "FILE")
  <2>1. \A e \in Names(disk) : ~ (e[1] = c /\ e[2] = m /\ e[3] = "FILE")
    BY <1>3, <1>6, NamesKnown
  <2> QED  BY <2>1 DEF Tree!Taken
<1>8. <<c, n, "FILE", i>> \in Names(disk) /\ i \in Ino
  <2>1. i \in ReachableOn(disk) /\ <<c, n, "FILE", i>> \in Names(disk)
    BY <1>3, <1>6, FoundByName
  <2> QED  BY <2>1, <1>6, Reached
<1>9. ASSUME Names(disk') = X, Names(disk') # Names(disk) PROVE Tree!Change
  <2>1. X = Names(disk) \cup {<<c, m, "FILE", i>>}
    BY DEF Added
  <2>2. Tree!Link(n, m, i)
    BY <2>1, <1>7, <1>8, <1>9 DEF Tree!Link
  <2> QED  BY <2>2, <1>8, <1>9 DEF Tree!Change
<1> QED  BY <1>5, <1>9 DEF Follows

(* rm takes a name of a file away.                                         *)
LEMMA RmSteps ==
  ASSUME FsInv, UnderRules, Rm
  PROVE  FsInv' /\ Follows
<1> DEFINE c == current_inode
           s == Ents(disk, c)
<1>1. PICK n \in Name : \E i \in Found(n, "FILE") :
        ("links" \in FsRules => disk.inode[i].links = 0) /\ Call("rm", do_rm(i))
  BY DEF Rm
<1>2. PICK i \in Found(n, "FILE") :
        ("links" \in FsRules => disk.inode[i].links = 0) /\ Call("rm", do_rm(i))
  BY <1>1
<1>3. Mounted /\ i \in search_dir(disk, c, n, "FILE") /\ disk.inode[i].links = 0
  BY <1>2 DEF Found, UnderRules, Rules
<1>4. disk' = Last(do_rm(i)) /\ UNCHANGED <<current_inode, FD_table>>
  BY <1>2 DEF Call, UnderRules
<1>5. /\ Good(Last(do_rm(i)), c, FD_table) /\ Marks(Last(do_rm(i)))
      /\ \E k \in 3..Len(s) : s[k].ino = i /\ Names(Last(do_rm(i))) = Names(disk) \ Dropped(disk, c, k, i)
      /\ disk.inode[i].type = "FILE"
  BY <1>3, RmLeaves DEF FsInv
<1>6. PICK k \in 3..Len(s) : s[k].ino = i /\ Names(disk') = Names(disk) \ Dropped(disk, c, k, i)
  BY <1>4, <1>5
<1>7. FsInv' /\ Marks(disk')
  BY <1>4, <1>5 DEF FsInv
<1>8. /\ disk \in Disk /\ disk.magic /\ TreeSound(disk) /\ c \in ReachableOn(disk) /\ Dir(disk, c) /\ c # NULL
  BY <1>3, MountedFacts
<1>9. Listing(disk, c) /\ Len(s) \in Nat /\ EntriesOn(disk, c) = {s[l] : l \in 1..Len(s)}
      /\ \A l \in 1..Len(s) : s[l].ino \in ReachableOn(disk)
  BY <1>8, EntriesOfListing DEF TreeSound
<1>10. s[k].name \in Name /\ s[k].type = "FILE" /\ k \in 1..Len(s) /\ i \in Ino
  <2>1. Listed(disk, c, k)
    BY <1>9 DEF Listing
  <2>2. k \in 1..Len(s)
    BY <1>9
  <2>3. i \in Ino
    BY <2>2, <1>6, <1>8, <1>9, Reached
  <2> QED  BY <2>1, <2>2, <2>3, <1>5, <1>6 DEF Listed
<1>11. <<c, s[k].name, "FILE", i>> \in Names(disk)
  <2>1. <<c, s[k].name, s[k].type, s[k].ino>> \in NamesIn(disk, c)
    BY <1>9, <1>10 DEF NamesIn
  <2> QED  BY <2>1, <1>6, <1>8, <1>10 DEF Names
<1>12. Dropped(disk, c, k, i) = {<<c, s[k].name, "FILE", i>>}
  BY <1>5, <1>10 DEF Dropped, Dir
<1>13. ASSUME Names(disk') # Names(disk) PROVE Tree!Change
  <2>1. Tree!Remove(s[k].name, i)
    BY <1>6, <1>11, <1>12 DEF Tree!Remove
  <2> QED  BY <2>1, <1>10, <1>13 DEF Tree!Change
<1> QED  BY <1>4, <1>7, <1>8, <1>13 DEF Follows

(* rmdir takes an empty directory away.                                    *)
LEMMA RmdirSteps ==
  ASSUME FsInv, UnderRules, Rmdir
  PROVE  FsInv' /\ Follows
<1> DEFINE c == current_inode
           s == Ents(disk, c)
<1>1. PICK n \in Name \cup {".", ".."} : \E i \in Found(n, "DIR") :
        /\ Len(disk.inode[i].ents) <= 2 /\ MayFree(i) /\ ("dots" \in FsRules => n \in Name)
        /\ Call("rmdir", do_rmdir(i))
  BY DEF Rmdir
<1>2. PICK i \in Found(n, "DIR") :
        /\ Len(disk.inode[i].ents) <= 2 /\ MayFree(i) /\ ("dots" \in FsRules => n \in Name)
        /\ Call("rmdir", do_rmdir(i))
  BY <1>1
<1>3. Mounted /\ i \in search_dir(disk, c, n, "DIR") /\ n \in Name /\ FsRules = Rules
  BY <1>2 DEF Found, UnderRules, Rules
<1>4. disk' = Last(do_rmdir(i)) /\ UNCHANGED <<current_inode, FD_table>>
  BY <1>2 DEF Call, UnderRules
<1>5. /\ Good(Last(do_rmdir(i)), c, FD_table) /\ Marks(Last(do_rmdir(i)))
      /\ \E k \in 3..Len(s) : s[k].ino = i /\ Names(Last(do_rmdir(i))) = Names(disk) \ Dropped(disk, c, k, i)
      /\ disk.inode[i].type = "DIR"
  BY <1>2, <1>3, RmdirLeaves DEF FsInv
<1>6. PICK k \in 3..Len(s) : s[k].ino = i /\ Names(disk') = Names(disk) \ Dropped(disk, c, k, i)
  BY <1>4, <1>5
<1>7. FsInv' /\ Marks(disk')
  BY <1>4, <1>5 DEF FsInv
<1>8. /\ disk \in Disk /\ disk.magic /\ TreeSound(disk) /\ c \in ReachableOn(disk) /\ Dir(disk, c) /\ c # NULL
  BY <1>3, MountedFacts
<1>9. Listing(disk, c) /\ Len(s) \in Nat /\ EntriesOn(disk, c) = {s[l] : l \in 1..Len(s)}
      /\ \A l \in 1..Len(s) : s[l].ino \in ReachableOn(disk)
  BY <1>8, EntriesOfListing DEF TreeSound
<1>10. s[k].name \in Name /\ s[k].type = "DIR" /\ k \in 1..Len(s) /\ i \in Ino /\ i \in ReachableOn(disk)
       /\ Ents(disk, i)[2].ino = c
  <2>1. Listed(disk, c, k)
    BY <1>9 DEF Listing
  <2>2. k \in 1..Len(s)
    BY <1>9
  <2>3. i \in ReachableOn(disk) /\ i \in Ino
    BY <2>2, <1>6, <1>8, <1>9, Reached
  <2> QED  BY <2>1, <2>2, <2>3, <1>5, <1>6 DEF Listed
<1>11. <<c, s[k].name, "DIR", i>> \in Names(disk)
  <2>1. <<c, s[k].name, s[k].type, s[k].ino>> \in NamesIn(disk, c)
    BY <1>9, <1>10 DEF NamesIn
  <2> QED  BY <2>1, <1>6, <1>8, <1>10 DEF Names
<1>12. Dropped(disk, c, k, i) = {<<c, s[k].name, "DIR", i>>} \cup Tree!Own(i, c)
  BY <1>5, <1>10 DEF Dropped, Dir, Tree!Own
<1>13. ASSUME NEW e \in Names(disk), e[1] = i PROVE e \in Tree!Own(i, c)
  <2>1. Dir(disk, i) /\ Listing(disk, i)
    BY <1>5, <1>8, <1>10 DEF Dir, TreeSound
  <2>2. Len(Ents(disk, i)) = 2
    <3>1. Len(Ents(disk, i)) \in Nat /\ Len(Ents(disk, i)) >= 2
      BY <2>1, <1>8, <1>10, EntriesOfListing DEF Listing
    <3>2. Len(Ents(disk, i)) <= 2
      BY <1>2 DEF Ents
    <3> DEFINE l == Len(Ents(disk, i))
    <3>3. l \in Nat /\ l >= 2 /\ l <= 2
      BY <3>1, <3>2
    <3> HIDE DEF l
    <3>4. l = 2
      BY ONLY <3>3
    <3> QED  BY <3>4 DEF l
  <2>3. EntriesOn(disk, i) = {Entry(".", "DIR", i), Entry("..", "DIR", c)}
    <3>1. EntriesOn(disk, i) = {Ents(disk, i)[l] : l \in 1..2}
      BY <2>1, <2>2, <1>8, <1>10, EntriesOfListing
    <3>2. Ents(disk, i)[1] = Entry(".", "DIR", i) /\ Ents(disk, i)[2] = Entry("..", "DIR", c)
      BY <2>1, <1>10 DEF Listing
    <3> QED  BY <3>1, <3>2
  <2>4. PICK b \in ReachableOn(disk) : e \in NamesIn(disk, b)
    BY <1>13 DEF Names
  <2>5. PICK x \in EntriesOn(disk, b) : e = <<b, x.name, x.type, x.ino>>
    BY <2>4 DEF NamesIn
  <2>6. b = i
    BY <2>5, <1>13
  <2>7. e \in {<<i, ".", "DIR", i>>, <<i, "..", "DIR", c>>}
    BY <2>3, <2>5, <2>6, EntryFields
  <2> QED  BY <2>7 DEF Tree!Own
<1>14. ASSUME Names(disk') # Names(disk) PROVE Tree!Change
  <2>1. \A e \in Names(disk) : e[1] = i => e \in Tree!Own(i, c)
    BY <1>13
  <2>2. Tree!RemoveDir(s[k].name, i)
    BY <2>1, <1>6, <1>11, <1>12 DEF Tree!RemoveDir
  <2> QED  BY <2>2, <1>10, <1>14 DEF Tree!Change
<1> QED  BY <1>4, <1>7, <1>8, <1>14 DEF Follows

(* mkfs makes a root directory, or mounts what is there.                   *)
LEMMA MkfsSteps ==
  ASSUME FsInv, UnderRules, MkfsOld \/ MkfsNew
  PROVE  FsInv' /\ (Tree!Format \/ Tree!Mount)
<1>1. CASE MkfsOld
  <2>1. disk.magic /\ current_inode' = ROOTINO /\ UNCHANGED <<disk, FD_table>>
    BY <1>1 DEF MkfsOld
  <2>2. /\ disk \in Disk /\ TreeSound(disk) /\ ROOTINO \in ReachableOn(disk) /\ Dir(disk, ROOTINO) /\ ROOTINO \in Ino
    BY <2>1, Reached, Inodes DEF FsInv, Good, Complete, TreeSound
  <2>3. Stands(disk, ROOTINO, FD_table)
    BY <2>1, <2>2, Inodes DEF Stands
  <2>4. FsInv'
    BY <2>1, <2>3 DEF FsInv, Good
  <2>5. Names(disk) # {}
    <3>1. Listing(disk, ROOTINO) /\ Len(Ents(disk, ROOTINO)) \in Nat
      BY <2>1, <2>2, EntriesOfListing DEF TreeSound
    <3>2. Ents(disk, ROOTINO)[1] \in EntriesOn(disk, ROOTINO)
      <4>1. 1 \in 1..Len(Ents(disk, ROOTINO))
        BY <3>1 DEF Listing
      <4> QED  BY <4>1, <2>1, <2>2, EntriesOfListing
    <3> DEFINE x == Ents(disk, ROOTINO)[1]
    <3>3. <<ROOTINO, x.name, x.type, x.ino>> \in NamesIn(disk, ROOTINO)
      BY <3>2 DEF NamesIn
    <3>4. <<ROOTINO, x.name, x.type, x.ino>> \in Names(disk)
      BY <3>3, <2>2 DEF Names
    <3> QED  BY <3>4
  <2> QED  BY <2>1, <2>4, <2>5 DEF Tree!Mount
<1>2. CASE MkfsNew
  <2>1. ~ disk.magic /\ disk' = Last(do_mkfs_new) /\ current_inode' = ROOTINO /\ UNCHANGED FD_table
    BY <1>2 DEF MkfsNew, UnderRules
  <2>2. /\ Good(Last(do_mkfs_new), ROOTINO, FD_table)
        /\ Names(Last(do_mkfs_new)) = {<<ROOTINO, ".", "DIR", ROOTINO>>, <<ROOTINO, "..", "DIR", ROOTINO>>}
    BY <2>1, MkfsLeaves DEF FsInv
  <2>3. FsInv'
    BY <2>1, <2>2 DEF FsInv
  <2>4. Names(disk) = {}
    BY <2>1 DEF Names, ReachableOn
  <2> QED  BY <2>1, <2>2, <2>3, <2>4 DEF Tree!Format, Tree!Own
<1> QED  BY <1>1, <1>2

(* cd goes to a directory that has a name.                                 *)
LEMMA CdSteps ==
  ASSUME FsInv, Cd
  PROVE  FsInv' /\ Tree!Move
<1>1. PICK path \in Paths : current_inode' \in find_path(path)
  BY DEF Cd
<1>2. Mounted /\ UNCHANGED <<disk, FD_table>>
  BY DEF Cd
<1>3. /\ disk \in Disk /\ disk.magic /\ TreeSound(disk) /\ current_inode # NULL
      /\ current_inode \in ReachableOn(disk) /\ Dir(disk, current_inode)
  BY <1>2, MountedFacts
<1>4. /\ current_inode' \in ReachableOn(disk) /\ Dir(disk, current_inode')
      /\ \E e \in Names(disk) : e[3] = "DIR" /\ e[4] = current_inode'
  BY <1>1, <1>3, CdLeads
<1>5. current_inode' \in Ino /\ current_inode' # NULL
  BY <1>3, <1>4, Reached, Inodes
<1>6. Stands(disk, current_inode', FD_table)
  BY <1>3, <1>4, <1>5 DEF Stands
<1>7. FsInv'
  BY <1>2, <1>6 DEF FsInv, Good
<1>8. Tree!Move
  BY <1>2, <1>3, <1>4 DEF Tree!Move
<1> QED  BY <1>7, <1>8

(* open, close, read and lseek move points, and open what has a name.      *)
LEMMA OpenSteps ==
  ASSUME FsInv, FileOpen
  PROVE  FsInv' /\ UNCHANGED <<disk, current_inode>>
<1>1. Accesses \subseteq {"R", "W", "RW"}
  BY FileSysAssumption DEF FileSysAssumption
<1>2. PICK n \in Name, a \in Accesses : Mounted /\ do_file_open(n, a)
  BY DEF FileOpen
<1>3. PICK i \in search_dir(disk, current_inode, n, "FILE"), f \in DOMAIN FD_table :
        /\ FD_table' = [FD_table EXCEPT ![f] = [Closed EXCEPT !.ino = i, !.access = a]]
        /\ UNCHANGED <<disk, current_inode>>
  BY <1>2 DEF do_file_open
<1>4. /\ disk \in Disk /\ disk.magic /\ TreeSound(disk) /\ current_inode # NULL
      /\ current_inode \in ReachableOn(disk) /\ Dir(disk, current_inode) /\ f \in 0..(NOFILE - 1)
  BY <1>2, MountedFacts
<1>5. i \in ReachableOn(disk) /\ disk.inode[i].type = "FILE"
  <2>1. i \in search_dir(disk, current_inode, n, "FILE")
    OBVIOUS
  <2>2. disk \in Disk /\ disk.magic /\ TreeSound(disk)
    BY <1>4
  <2>3. current_inode \in ReachableOn(disk) /\ Dir(disk, current_inode)
    BY <1>4
  <2> QED  BY ONLY <2>1, <2>2, <2>3, FoundTyped
<1>6. Good(disk, current_inode, FD_table) /\ a \in {"R", "W", "RW"}
  BY <1>1 DEF FsInv
<1> DEFINE G == [FD_table EXCEPT ![f] = [Closed EXCEPT !.ino = i, !.access = a]]
<1>7. Good(disk, current_inode, G)
  BY ONLY <1>4, <1>5, <1>6, GoodOpened
<1>8. FD_table' = G
  BY <1>3
<1> HIDE DEF G
<1>9. Good(disk', current_inode', FD_table')
  BY <1>3, <1>7, <1>8
<1> QED  BY <1>3, <1>9 DEF FsInv

(* A step that replaces one slot of the table by one with other points.    *)
LEMMA PointsMoved ==
  ASSUME FsInv, Mounted, NEW f \in DOMAIN FD_table, NEW r \in Slot, r.ino \in {0, FD_table[f].ino},
         FD_table' = [FD_table EXCEPT ![f] = r], UNCHANGED <<disk, current_inode>>
  PROVE  FsInv' /\ UNCHANGED <<disk, current_inode>>
<1>1. f \in 0..(NOFILE - 1) /\ current_inode # NULL
  BY MountedFacts
<1>2. Good(disk, current_inode, FD_table)
  BY DEF FsInv
<1>3. Good(disk, current_inode, [FD_table EXCEPT ![f] = r])
  BY <1>1, <1>2, GoodOtherPoints
<1> QED  BY <1>3 DEF FsInv

(* close empties a slot.                                                   *)
LEMMA CloseSteps ==
  ASSUME FsInv, FileClose
  PROVE  FsInv' /\ UNCHANGED <<disk, current_inode>>
<1>1. PICK f \in DOMAIN FD_table : Mounted /\ do_file_close(f)
  BY DEF FileClose
<1>2. Closed.ino = 0 /\ Closed \in Slot
  BY Sizing, Inodes DEF Closed, Slot, ROOTINO
<1>3. FD_table' = [FD_table EXCEPT ![f] = Closed] /\ UNCHANGED <<disk, current_inode>>
  BY <1>1 DEF do_file_close
<1>5. Closed.ino \in {0, FD_table[f].ino}
  BY <1>2
<1> HIDE DEF Closed
<1> QED  BY <1>1, <1>2, <1>3, <1>5, PointsMoved

(* A read that returns ends within the largest file.                       *)
LEMMA ReadSteps ==
  ASSUME FsInv, FileRead
  PROVE  FsInv' /\ UNCHANGED <<disk, current_inode>>
<1>1. PICK f \in DOMAIN FD_table, n \in Sizes :
        Mounted /\ FD_table[f].read_point + n <= End /\ do_file_read(f, n)
  BY DEF FileRead
<1> DEFINE s == FD_table[f]
           a == s.read_point + n
           r == [s EXCEPT !.read_point = a]
<1>2. s \in Slot
  BY <1>1, MountedFacts
<1>3. a \in 0..End
  <2>1. n \in Nat
    BY FileSysAssumption DEF FileSysAssumption
  <2>2. s.read_point \in Nat /\ End \in Nat
    BY <1>2, Sizing DEF Slot
  <2> HIDE DEF s
  <2> QED  BY <2>1, <2>2, <1>1 DEF s
<1>4. UNCHANGED <<disk, current_inode>> /\ (FD_table' = [FD_table EXCEPT ![f] = r] \/ UNCHANGED FD_table)
  BY <1>1 DEF do_file_read
<1> HIDE DEF a, s
<1>5. r \in Slot /\ r.ino = s.ino
  BY <1>2, <1>3, MovedSlot
<1> HIDE DEF r
<1>6. CASE FD_table' = [FD_table EXCEPT ![f] = r]
  <2>1. r.ino \in {0, FD_table[f].ino}
    BY <1>5 DEF s
  <2> QED  BY <2>1, <1>1, <1>4, <1>5, <1>6, PointsMoved
<1>7. CASE UNCHANGED FD_table
  BY <1>4, <1>7 DEF FsInv
<1> QED  BY <1>4, <1>6, <1>7

(* lseek stays within the largest file.                                    *)
LEMMA LseekSteps ==
  ASSUME FsInv, Lseek
  PROVE  FsInv' /\ UNCHANGED <<disk, current_inode>>
<1>1. PICK f \in DOMAIN FD_table, offset \in Offsets, whence \in {"SEEK_SET", "SEEK_CUR"} :
        /\ Mounted /\ do_lseek(f, offset, whence)
        /\ FD_table'[f].read_point <= End /\ FD_table'[f].write_point <= End
  BY DEF Lseek
<1> DEFINE s == FD_table[f]
           a == IF whence = "SEEK_SET" THEN offset ELSE s.read_point + offset
           b == IF whence = "SEEK_SET" THEN offset ELSE s.write_point + offset
           q == [s EXCEPT !.read_point = a]
           r == [q EXCEPT !.write_point = b]
<1>2. s \in Slot /\ FD_table \in [0..(NOFILE - 1) -> Slot]
  BY <1>1, MountedFacts
<1>3. a \in Nat /\ b \in Nat /\ End \in Nat
  <2>1. offset \in Nat
    BY FileSysAssumption DEF FileSysAssumption
  <2>2. s.read_point \in Nat /\ s.write_point \in Nat /\ End \in Nat
    BY <1>2, Sizing DEF Slot
  <2> HIDE DEF s
  <2> QED  BY <2>1, <2>2
<1>4. FD_table' = [FD_table EXCEPT ![f] = r] /\ UNCHANGED <<disk, current_inode>>
  <2>1. r = [s EXCEPT !.read_point = a, !.write_point = b]
    OBVIOUS
  <2>2. FD_table' = [FD_table EXCEPT ![f] = [s EXCEPT !.read_point = a, !.write_point = b]]
    BY <1>1 DEF do_lseek
  <2> HIDE DEF r, a, b
  <2> QED  BY <1>1, <2>1, <2>2 DEF do_lseek
<1> HIDE DEF a, b
<1>5. a <= End /\ b <= End
  <2>1. FD_table'[f] = r
    BY <1>2, <1>4
  <2>2. r.read_point = a /\ r.write_point = b
    <3>1. q = [ino |-> s.ino, access |-> s.access, read_point |-> a, write_point |-> s.write_point]
      BY <1>2 DEF Slot
    <3> HIDE DEF q
    <3> QED  BY <3>1
  <2> QED  BY <2>1, <2>2, <1>1
<1>6. a \in 0..End /\ b \in 0..End
  BY <1>3, <1>5
<1> HIDE DEF s
<1>7. q \in Slot /\ q.ino = s.ino
  BY <1>2, <1>6, MovedSlot
<1> HIDE DEF q
<1>8. r \in Slot /\ r.ino = q.ino
  BY <1>6, <1>7, MovedSlot
<1> HIDE DEF r
<1>9. r.ino \in {0, FD_table[f].ino}
  BY <1>7, <1>8 DEF s
<1> QED  BY <1>1, <1>4, <1>8, <1>9, PointsMoved

(* What a write is about: an open file, and room for its blocks.           *)
LEMMA WriteBegins ==
  ASSUME FsInv, Mounted, NEW f \in DOMAIN FD_table, NEW n \in Sizes,
         NEW i, i = FD_table[f].ino, NEW pos, pos = FD_table[f].write_point, pos + n <= End, i # 0,
         Needed(pos, n) <= Blocks(disk, i) + Cardinality(Blk \ disk.dmap)
  PROVE  /\ i \in OpenIn(FD_table) /\ i \in Ino /\ pos + n \in 0..End
         /\ Needed(pos, n) \in Nat /\ Needed(pos, n) <= FILE_MAX /\ Needed(pos, n) <= Room0(i)
<1>1. FD_table[f] \in Slot /\ disk \in Disk /\ FD_table \in [0..(NOFILE - 1) -> Slot]
  BY MountedFacts
<1>2. pos \in Nat /\ i \in Ino /\ End \in Nat
  BY <1>1, Sizing DEF Slot
<1>3. n \in Nat
  BY FileSysAssumption DEF FileSysAssumption
<1>4. i \in OpenIn(FD_table)
  BY DEF OpenIn
<1>5. Needed(pos, n) \in Nat /\ Needed(pos, n) <= FILE_MAX
  BY ONLY <1>2, <1>3, pos + n <= End, NeededFits
<1>6. Needed(pos, n) <= Room0(i)
  <2> DEFINE a == Cardinality(Blk \ disk.dmap)
             l == Len(Ptr(disk, i))
  <2>1. a \in Nat
    <3>1. IsFiniteSet(Blk)
      BY FileSysAssumption, FS_Interval DEF FileSysAssumption, Blk
    <3>2. IsFiniteSet(Blk \ disk.dmap)
      BY <3>1, FS_Difference
    <3> QED  BY <3>2, FS_CardinalityType
  <2>2. l \in Nat
    BY <1>1, <1>2 DEF Disk, Inode, Ptr
  <2>3. Room0(i) = a + l /\ Blocks(disk, i) = l
    BY DEF Room0, Blocks, Ptr
  <2>4. Needed(pos, n) <= l + a
    BY <2>3
  <2> HIDE DEF l, a
  <2>5. l + a = a + l
    BY ONLY <2>1, <2>2
  <2> QED  BY ONLY <2>3, <2>4, <2>5
<1> QED  BY <1>2, <1>3, <1>4, <1>5, <1>6

(* A write leaves a longer file, wherever it is cut off, or hangs.         *)
LEMMA WriteSteps ==
  ASSUME FsInv, FileWrite
  PROVE  FsInv' /\ Follows
<1>1. PICK f \in DOMAIN FD_table, n \in Sizes :
        Mounted /\ FD_table[f].write_point + n <= End /\ do_file_write(f, n)
  BY DEF FileWrite
<1> DEFINE i == FD_table[f].ino
           pos == FD_table[f].write_point
           k == Needed(pos, n)
           l == Last(Grown(i, k))
           r == [FD_table[f] EXCEPT !.write_point = pos + n]
<1>2. /\ i # 0 /\ k <= Blocks(disk, i) + Cardinality(Blk \ disk.dmap)
      /\ \/ /\ disk' = l /\ UNCHANGED current_inode
            /\ FD_table' = [FD_table EXCEPT ![f] = r] \/ UNCHANGED FD_table
         \/ disk' \in Range(Front(Grown(i, k))) /\ Off
  BY <1>1 DEF do_file_write
<1>3. current_inode # NULL /\ f \in 0..(NOFILE - 1) /\ FD_table[f] \in Slot
  BY <1>1, MountedFacts
<1>4. Good(disk, current_inode, FD_table)
  BY DEF FsInv
<1> HIDE DEF i, pos, k, l, r
<1>5. i \in OpenIn(FD_table) /\ pos + n \in 0..End /\ k \in Nat /\ k <= FILE_MAX /\ k <= Room0(i)
  BY <1>1, <1>2, WriteBegins DEF i, pos, k
<1>6. GrownFrom(disk, l, i) /\ \A e \in Range(Front(Grown(i, k))) : GrownFrom(disk, e, i)
  BY <1>4, <1>5, GrownDisks DEF l
<1>7. disk' = l \/ disk' \in Range(Front(Grown(i, k)))
  BY <1>2
<1>8. GrownFrom(disk, disk', i)
  BY ONLY <1>6, <1>7
<1>9. Good(disk', current_inode, FD_table) /\ Names(disk') = Names(disk)
  BY ONLY <1>4, <1>5, <1>8, GoodGrown
<1>10. Marks(disk')
  BY <1>8, MarksKept DEF GrownFrom
<1>11. CASE UNCHANGED current_inode /\ FD_table' = [FD_table EXCEPT ![f] = r]
  <2>1. r \in Slot /\ r.ino \in {0, FD_table[f].ino}
    BY <1>3, <1>5, MovedSlot DEF r
  <2>2. Good(disk', current_inode, [FD_table EXCEPT ![f] = r])
    BY ONLY <1>3, <1>9, <2>1, GoodOtherPoints
  <2> QED  BY <1>3, <1>9, <1>10, <1>11, <2>2 DEF FsInv, Follows
<1>12. CASE UNCHANGED <<current_inode, FD_table>>
  BY <1>3, <1>9, <1>10, <1>12 DEF FsInv, Follows
<1>13. CASE Off
  <2>1. Good(disk', NULL, NoFiles)
    BY <1>9, GoodAfterReset
  <2> QED  BY <1>3, <1>9, <1>10, <1>13, <2>1 DEF FsInv, Follows, Off
<1> QED  BY <1>2, <1>11, <1>12, <1>13

(* A reset between two calls.                                              *)
LEMMA ResetSteps ==
  ASSUME FsInv, Reset
  PROVE  FsInv' /\ Tree!Crash
<1>1. current_inode # NULL /\ Off /\ UNCHANGED disk
  BY DEF Reset
<1>2. Good(disk, NULL, NoFiles)
  BY GoodAfterReset DEF FsInv
<1>3. FsInv'
  BY <1>1, <1>2 DEF FsInv, Off
<1>4. Tree!Crash
  BY <1>1 DEF Tree!Crash, Off
<1> QED  BY <1>3, <1>4

(* A disk that carries no file system.                                     *)
LEMMA FsInit ==
  ASSUME Init
  PROVE  FsInv /\ Tree!Init
<1>1. /\ disk = [magic |-> FALSE, imap |-> {}, dmap |-> {},
                 inode |-> [i \in Ino |-> Unset]]
      /\ current_inode = NULL /\ FD_table = NoFiles
  BY DEF Init
<1>2. Unset \in Inode /\ Len(Unset.ptr) = 0 /\ Len(Unset.ents) = 0
  <2>1. << >> \in Seq(Blk) /\ << >> \in Seq(EntryType)
    OBVIOUS
  <2>2. 0 \in 0..(LINKS_MOD - 1)
    BY DEF LINKS_MOD
  <2> QED  BY <2>1, <2>2 DEF Unset, Inode
<1> HIDE DEF Unset
<1>5. disk \in Disk /\ ~ disk.magic /\ \A i \in Ino : disk.inode[i] = Unset
  BY <1>1, <1>2 DEF Disk
<1>6. Fits(disk)
  <2>1. FILE_MAX \in Nat /\ DIR_MAX \in Nat
    BY Sizing
  <2> QED  BY <1>2, <1>5, <2>1 DEF Fits
<1>7. ReachableOn(disk) = {}
  BY <1>5 DEF ReachableOn
<1>8. InUseOf(disk, NoFiles) = {}
  BY <1>7, NoFilesSound DEF InUseOf
<1>9. TreeSound(disk)
  BY <1>5 DEF TreeSound
<1>10. Stands(disk, NULL, NoFiles)
  BY DEF Stands
<1>11. FilesSound(disk, NoFiles)
  BY NoFilesSound, Sizing DEF FilesSound
<1>12. Apart(disk, InUseOf(disk, NoFiles))
  BY <1>8 DEF Apart
<1>14. FsInv
  BY <1>1, <1>5, <1>6, <1>9, <1>10, <1>11, <1>12 DEF FsInv, Good
<1>15. Tree!Init
  BY <1>1, <1>7 DEF Tree!Init, Names
<1> QED  BY <1>14, <1>15

(* What follows is a step of the tree.                                     *)
LEMMA FollowsTree ==
  ASSUME Follows
  PROVE  [Tree!Next]_(Tree!vars)
<1>1. CASE current_inode' = current_inode /\ Names(disk') = Names(disk)
  BY <1>1 DEF Tree!vars
<1>2. CASE current_inode' = current_inode /\ Tree!Change
  BY <1>2 DEF Follows, Tree!Step, Tree!Next
<1>3. CASE current_inode' = NULL
  BY <1>3 DEF Follows, Tree!Crash, Tree!Next
<1> QED  BY <1>1, <1>2, <1>3 DEF Follows

(* Every step keeps the invariant and is a step of the tree.               *)
LEMMA FsNext ==
  ASSUME FsInv, UnderRules, [Next]_vars
  PROVE  FsInv' /\ [Tree!Next]_(Tree!vars)
<1>1. CASE UNCHANGED vars
  <2>1. UNCHANGED <<disk, current_inode, FD_table>>
    BY <1>1 DEF vars
  <2> QED  BY <2>1 DEF FsInv, Tree!vars
<1>2. CASE MkfsOld \/ MkfsNew
  BY <1>2, MkfsSteps DEF Tree!Next
<1>3. CASE Mkdir
  BY <1>3, MkdirSteps, FollowsTree
<1>4. CASE Rmdir
  BY <1>4, RmdirSteps, FollowsTree
<1>5. CASE Cd
  BY <1>5, CdSteps DEF Tree!Next
<1>6. CASE Touch
  BY <1>6, TouchSteps, FollowsTree
<1>7. CASE Ln
  BY <1>7, LnSteps, FollowsTree
<1>8. CASE Rm
  BY <1>8, RmSteps, FollowsTree
<1>9. CASE FileOpen
  <2>1. FsInv' /\ UNCHANGED <<disk, current_inode>>
    BY <1>9, OpenSteps
  <2> QED  BY <2>1 DEF Tree!vars
<1>10. CASE FileClose
  <2>1. FsInv' /\ UNCHANGED <<disk, current_inode>>
    BY <1>10, CloseSteps
  <2> QED  BY <2>1 DEF Tree!vars
<1>11. CASE FileRead
  <2>1. FsInv' /\ UNCHANGED <<disk, current_inode>>
    BY <1>11, ReadSteps
  <2> QED  BY <2>1 DEF Tree!vars
<1>12. CASE FileWrite
  BY <1>12, WriteSteps, FollowsTree
<1>13. CASE Lseek
  <2>1. FsInv' /\ UNCHANGED <<disk, current_inode>>
    BY <1>13, LseekSteps
  <2> QED  BY <2>1 DEF Tree!vars
<1>14. CASE Reset
  BY <1>14, ResetSteps DEF Tree!Next
<1> QED  BY <1>1, <1>2, <1>3, <1>4, <1>5, <1>6, <1>7, <1>8, <1>9, <1>10, <1>11, <1>12, <1>13, <1>14 DEF Next

(* What is kept besides: is the machine hung, and what was written last.   *)
Noted == hung \in BOOLEAN /\ wrote \in [ino : Ino, pos : 0..End, len : Sizes \cup {0}]

(* No write is of a right type.                                            *)
LEMMA NothingNoted ==
  NoWrite \in [ino : Ino, pos : 0..End, len : Sizes \cup {0}]
<1>1. 0 \in Ino /\ 0 \in 0..End
  BY Inodes, Sizing DEF ROOTINO
<1> QED  BY <1>1 DEF NoWrite

(* Every step keeps that.                                                  *)
LEMMA NotedNext ==
  ASSUME FsInv, Noted, [Next]_vars
  PROVE  Noted'
<1>1. NoWrite \in [ino : Ino, pos : 0..End, len : Sizes \cup {0}]
  BY NothingNoted
<1>2. ASSUME hung' \in {hung, TRUE, FALSE}, wrote' \in {wrote, NoWrite} PROVE Noted'
  BY <1>1, <1>2 DEF Noted
<1>3. CASE UNCHANGED vars
  BY <1>2, <1>3 DEF vars
<1>4. CASE MkfsOld \/ MkfsNew \/ Cd \/ Reset
  BY <1>2, <1>4 DEF MkfsOld, MkfsNew, Cd, Reset, Off
<1>5. CASE Mkdir \/ Rmdir
  BY <1>2, <1>5 DEF Mkdir, Rmdir, Call, Off
<1>6. CASE Touch \/ Ln \/ Rm
  BY <1>2, <1>6 DEF Touch, Ln, Rm, Call, Off
<1>7. CASE FileOpen \/ FileClose
  BY <1>2, <1>7 DEF FileOpen, FileClose, do_file_open, do_file_close
<1>8. CASE FileRead \/ Lseek
  BY <1>2, <1>8 DEF FileRead, Lseek, do_file_read, do_lseek
<1>9. CASE FileWrite
  <2>1. PICK f \in DOMAIN FD_table, n \in Sizes : Mounted /\ do_file_write(f, n)
    BY <1>9 DEF FileWrite
  <2> DEFINE x == [ino |-> FD_table[f].ino, pos |-> FD_table[f].write_point, len |-> n]
  <2>2. hung' \in {hung, TRUE, FALSE} /\ wrote' \in {x, NoWrite}
    BY <2>1 DEF do_file_write, Off
  <2>3. x \in [ino : Ino, pos : 0..End, len : Sizes \cup {0}]
    <3>1. FD_table[f] \in Slot
      BY <2>1, MountedFacts
    <3> QED  BY <3>1 DEF Slot
  <2> HIDE DEF x
  <2> QED  BY <2>2, <2>3, <1>1 DEF Noted
<1> QED  BY <1>3, <1>4, <1>5, <1>6, <1>7, <1>8, <1>9 DEF Next

-----------------------------------------------------------------------------
(* The theorems. *)

(* clear_inode clears the inode at the first place of a sector; at another *)
(* place what it zeroes in memory belongs to a sector behind those of all  *)
(* inodes, as long as there are not more than FileSysLimits says.          *)
THEOREM StrayMisses ==
  \A i \in Ino : IF i % INODE_PER_SECTOR = 0 THEN Strayed(i) = i \div INODE_PER_SECTOR
                 ELSE \A j \in Ino : j \div INODE_PER_SECTOR < Strayed(i)
<1> SUFFICES ASSUME NEW i \in Ino
             PROVE  IF i % INODE_PER_SECTOR = 0 THEN Strayed(i) = i \div INODE_PER_SECTOR
                    ELSE \A j \in Ino : j \div INODE_PER_SECTOR < Strayed(i)
  OBVIOUS
<1> DEFINE s == INODE_PER_SECTOR
           q == i \div s
           o == i % s
<1>1. s \in Nat \ {0} /\ INODE_NUM \in Nat \ {0} /\ INODE_NUM <= STRIDE * s /\ STRIDE = 7 /\ i \in Nat
  BY Inodes, FileSysAssumption, FileSysLimits DEF FileSysAssumption, FileSysLimits, STRIDE
<1>2. Strayed(i) = q + STRIDE * o
  BY DEF Strayed
<1> HIDE DEF s
<1>3. q \in Nat /\ o \in 0..(s - 1)
  BY <1>1, Placing
<1> HIDE DEF q, o
<1>4. CASE o = 0
  BY <1>1, <1>2, <1>3, <1>4 DEF q, o, s
<1>5. CASE o # 0
  <2>1. Strayed(i) >= 7 /\ Strayed(i) \in Nat
    BY <1>1, <1>2, <1>3, <1>5
  <2>2. ASSUME NEW j \in Ino PROVE j \div s \in Nat /\ j \div s < 7
    <3>1. j \in Nat /\ j < s * 7
      BY <1>1 DEF Ino
    <3> QED  BY ONLY <3>1, <1>1, Placing
  <2>3. \A j \in Ino : j \div s < Strayed(i)
    BY <2>1, <2>2
  <2> QED  BY <1>5, <2>3 DEF o, s
<1> QED  BY <1>4, <1>5

(* What is good stays good, whatever programs do that keep to the rules,   *)
(* and wherever a reset cuts mkdir, touch, ln or a write off: file.c.      *)
THEOREM FsInvariant ==
  ASSUME UnderRules
  PROVE  Spec => []FsInv
<1>1. Init => FsInv
  BY FsInit
<1>2. FsInv /\ [Next]_vars => FsInv'
  BY FsNext
<1> QED  BY <1>1, <1>2, PTL DEF Spec

(* The tree of names changes as a call says or not at all, also when the   *)
(* machine is reset in the middle of it: do_mkdir, do_touch, do_ln, do_rm, *)
(* do_rmdir and do_mkfs implement FileTree.                                *)
THEOREM NamesFollowTree ==
  ASSUME UnderRules
  PROVE  Spec => ImplementsFileTree
<1>1. Init => Tree!Init
  BY FsInit
<1>2. FsInv /\ [Next]_vars => [Tree!Next]_(Tree!vars)
  BY FsNext
<1> QED  BY <1>1, <1>2, FsInvariant, PTL DEF Spec, ImplementsFileTree, Tree!Spec

(* The maps, inodes and blocks are of their types, directories and files   *)
(* within their bounds, and the points of open files within a file.        *)
THEOREM FsTyped ==
  ASSUME UnderRules
  PROVE  Spec => []FsTypeOK
<1>1. FsInv /\ Noted => FsTypeOK
  <2> SUFFICES ASSUME FsInv, Noted PROVE FsTypeOK
    OBVIOUS
  <2>1. /\ disk \in Disk /\ Fits(disk) /\ current_inode \in Ino \cup {NULL}
        /\ FD_table \in [0..(NOFILE - 1) -> Slot]
    BY DEF FsInv, Good, Stands, FilesSound
  <2>2. ASSUME NEW i \in Ino
        PROVE  LET r == disk.inode[i]
               IN /\ r.type \in {"FILE", "DIR"} /\ r.links \in 0..(LINKS_MOD - 1)
                  /\ Range(r.ptr) \subseteq Blk /\ Len(r.ptr) <= FILE_MAX
                  /\ Range(r.ents) \subseteq EntryType /\ Len(r.ents) <= DIR_MAX
    <3>1. disk.inode[i] \in Inode /\ Len(disk.inode[i].ptr) <= FILE_MAX /\ Len(disk.inode[i].ents) <= DIR_MAX
      BY <2>1 DEF Disk, Fits
    <3> QED  BY <3>1 DEF Inode, Range
  <2>3. disk.magic \in BOOLEAN /\ disk.imap \subseteq Ino /\ disk.dmap \subseteq Blk
    BY <2>1 DEF Disk
  <2> QED  BY <2>1, <2>2, <2>3 DEF FsTypeOK, Slot, Noted
<1>2. Init => Noted
  <2>1. Init => hung = FALSE /\ wrote = NoWrite
    BY DEF Init
  <2> QED  BY <2>1, NothingNoted DEF Noted
<1>3. FsInv /\ Noted /\ [Next]_vars => Noted'
  BY NotedNext
<1> QED  BY <1>1, <1>2, <1>3, FsInvariant, PTL DEF Spec

(* No inode and no block in use is free, or in use twice: a reset leaves   *)
(* marks too many, never one too few.                                      *)
THEOREM NothingEverShared ==
  ASSUME UnderRules
  PROVE  Spec => []NothingShared
<1>1. FsInv => NothingShared
  <2> SUFFICES ASSUME FsInv PROVE NothingShared
    OBVIOUS
  <2>1. InUse = InUseOf(disk, FD_table)
    BY DEF InUse, InUseOf, Reachable, Opened, OpenIn
  <2>2. Apart(disk, InUse)
    BY <2>1 DEF FsInv, Good
  <2> QED  BY <2>2 DEF Apart, NothingShared
<1> QED  BY <1>1, FsInvariant, PTL

(* An entry leads to an inode of its type, ".." to the directory that      *)
(* lists it, and what is open or entered is there: search_dir, do_rmdir.   *)
THEOREM NamesAlwaysHold ==
  ASSUME UnderRules
  PROVE  Spec => []NamesHold
<1>1. FsInv => NamesHold
  <2> SUFFICES ASSUME FsInv PROVE NamesHold
    OBVIOUS
  <2>1. /\ disk \in Disk /\ TreeSound(disk) /\ Stands(disk, current_inode, FD_table) /\ FilesSound(disk, FD_table)
    BY DEF FsInv, Good
  <2>2. ASSUME NEW i \in Reachable, NEW e \in Entries(i)
        PROVE  /\ disk.inode[e.ino].type = e.type
               /\ e.name = "." => e.ino = i
               /\ (e.type = "DIR" /\ e.name \notin {".", ".."}) => Entry("..", "DIR", i) \in Entries(e.ino)
    <3>1. disk.magic /\ i \in ReachableOn(disk) /\ i \in Ino
      <4>1. disk.magic
        BY DEF Reachable, ReachableOn
      <4> QED  BY <4>1, <2>1, Reached DEF Reachable
    <3>2. Dir(disk, i) /\ e \in Range(Ents(disk, i))
      BY DEF Entries, EntriesOn, Dir, Ents
    <3>3. PICK k \in 1..Len(Ents(disk, i)) : e = Ents(disk, i)[k]
      <4>1. Ents(disk, i) \in Seq(EntryType)
        BY <2>1, <3>1 DEF Disk, Inode, Ents
      <4> QED  BY <3>2, <4>1 DEF Range
    <3>4. Listing(disk, i) /\ HasParent(disk, i) /\ Dir(disk, ROOTINO)
      BY <2>1, <3>1, <3>2 DEF TreeSound
    <3>5. CASE k = 1
      <4>1. e = Entry(".", "DIR", i)
        BY <3>3, <3>4, <3>5 DEF Listing
      <4>2. e.name = "." /\ e.type = "DIR" /\ e.ino = i
        BY <4>1 DEF Entry
      <4> QED  BY <4>2, <3>2 DEF Dir
    <3>6. CASE k = 2
      <4>1. e.name = ".." /\ e.type = "DIR"
        BY <3>3, <3>4, <3>6 DEF Listing, Entry
      <4>2. Dir(disk, e.ino)
        BY <3>2, <3>3, <3>4, <3>6 DEF HasParent
      <4> QED  BY <4>1, <4>2 DEF Dir
    <3>7. CASE k \in 3..Len(Ents(disk, i))
      <4>1. Listed(disk, i, k)
        BY <3>4, <3>7 DEF Listing
      <4>2. /\ e.name \in Name /\ disk.inode[e.ino].type = e.type
            /\ e.type = "DIR" => Ents(disk, e.ino)[2].ino = i
        BY <3>3, <4>1 DEF Listed
      <4>3. e.name # "."
        BY <4>2, FileSysAssumption DEF FileSysAssumption
      <4>4. ASSUME e.type = "DIR" PROVE Entry("..", "DIR", i) \in Entries(e.ino)
        <5>1. e.ino \in ReachableOn(disk)
          BY <2>1, <3>1, <3>2, Reached DEF Complete, Leads, EntriesOn, Dir, Ents
        <5>2. Dir(disk, e.ino)
          BY <4>2, <4>4 DEF Dir
        <5>3. Listing(disk, e.ino)
          BY <2>1, <3>1, <5>1, <5>2 DEF TreeSound
        <5>4. Len(Ents(disk, e.ino)) >= 2 /\ Ents(disk, e.ino)[2] = Entry("..", "DIR", i)
          BY <4>2, <4>4, <5>3 DEF Listing
        <5>5. Ents(disk, e.ino) \in Seq(EntryType)
          BY <2>1, <3>1, <5>1, Reached DEF Disk, Inode, Ents
        <5>6. Ents(disk, e.ino)[2] \in Range(Ents(disk, e.ino))
          BY <5>4, <5>5 DEF Range
        <5> QED  BY <5>2, <5>4, <5>6 DEF Entries, EntriesOn, Dir, Ents
      <4> QED  BY <4>2, <4>3, <4>4
    <3> QED  BY <3>3, <3>5, <3>6, <3>7
  <2>3. current_inode # NULL => current_inode \in Reachable /\ disk.inode[current_inode].type = "DIR"
    BY <2>1 DEF Stands, Reachable, Dir
  <2>4. \A i \in Opened : disk.inode[i].type = "FILE"
    BY <2>1 DEF FilesSound, Opened, OpenIn
  <2> QED  BY <2>2, <2>3, <2>4 DEF NamesHold
<1> QED  BY <1>1, FsInvariant, PTL

(* A disk without a file system has no mark, and no step frees more than    *)
(* one inode.                                                              *)
Unmarked == ~ disk.magic => disk.imap = {}

LEMMA FreesStep ==
  ASSUME FsInv, Unmarked, UnderRules, [Next]_vars
  PROVE  Unmarked' /\ \E i : disk.imap \ disk'.imap \subseteq {i}
<1>1. ASSUME disk.magic, Marks(disk') PROVE Unmarked' /\ \E i : disk.imap \ disk'.imap \subseteq {i}
  BY <1>1 DEF Marks, Unmarked
<1>2. ASSUME UNCHANGED disk PROVE Unmarked' /\ \E i : disk.imap \ disk'.imap \subseteq {i}
  <2>1. disk.imap \ disk'.imap \subseteq {0}
    BY <1>2
  <2> QED  BY <1>2, <2>1 DEF Unmarked
<1>3. ASSUME Follows PROVE disk.magic /\ Marks(disk')
  BY <1>3 DEF Follows, FsInv, Good, Stands
<1>4. CASE UNCHANGED vars
  BY <1>2, <1>4 DEF vars
<1>5. CASE MkfsOld \/ MkfsNew
  <2>1. CASE MkfsOld
    BY <1>2, <2>1 DEF MkfsOld
  <2>2. CASE MkfsNew
    <3>1. ~ disk.magic /\ disk' = Last(do_mkfs_new)
      BY <2>2 DEF MkfsNew, UnderRules
    <3>2. Last(do_mkfs_new).magic
      BY <3>1, MkfsLeaves DEF FsInv
    <3>3. disk.imap \ disk'.imap \subseteq {0}
      BY <3>1 DEF Unmarked
    <3> QED  BY <3>1, <3>2, <3>3 DEF Unmarked
  <2> QED  BY <1>5, <2>1, <2>2
<1>6. CASE Mkdir \/ Touch \/ Ln
  BY <1>1, <1>3, <1>6, MkdirSteps, TouchSteps, LnSteps
<1>7. CASE Rmdir \/ Rm
  BY <1>1, <1>3, <1>7, RmdirSteps, RmSteps
<1>8. CASE FileWrite
  BY <1>1, <1>3, <1>8, WriteSteps
<1>9. CASE FileOpen \/ FileClose \/ FileRead \/ Lseek
  BY <1>2, <1>9, OpenSteps, CloseSteps, ReadSteps, LseekSteps
<1>10. CASE Cd \/ Reset
  BY <1>2, <1>10 DEF Cd, Reset
<1> QED  BY <1>4, <1>5, <1>6, <1>7, <1>8, <1>9, <1>10 DEF Next

(* A call frees one inode at most, if what is freed is the last in use of   *)
(* its byte of the map: clear_imap.                                        *)
THEOREM OneIsFreed ==
  ASSUME UnderRules
  PROVE  Spec => FreesOne
<1>1. Init => Unmarked
  BY DEF Init, Unmarked
<1>2. FsInv /\ Unmarked /\ [Next]_vars => Unmarked'
  BY FreesStep
<1>3. FsInv /\ Unmarked /\ [Next]_vars => [Cardinality(disk.imap \ disk'.imap) <= 1]_vars
  <2> SUFFICES ASSUME FsInv, Unmarked, [Next]_vars PROVE Cardinality(disk.imap \ disk'.imap) <= 1
    OBVIOUS
  <2>1. PICK i : disk.imap \ disk'.imap \subseteq {i}
    BY FreesStep
  <2>2. IsFiniteSet({i}) /\ Cardinality({i}) = 1
    BY FS_Singleton
  <2>3. Cardinality(disk.imap \ disk'.imap) <= Cardinality({i})
    BY <2>1, <2>2, FS_Subset
  <2> QED  BY <2>2, <2>3
<1> QED  BY <1>1, <1>2, <1>3, FsInvariant, PTL DEF Spec, FreesOne
=============================================================================
