--------------------------- MODULE KeyTable_proofs --------------------------
(***************************************************************************)
(* Proofs about KeyTable, for any number of slots, keys and names: the     *)
(* tables that mutex_get, semaphore_get, barrier_get and do_mbox_open fill *)
(* give one object to all who share it and to nobody else.                 *)
(***************************************************************************)
EXTENDS KeyTable, TLAPS

TableTypes ==
  /\ hash \in [Kind -> [Slot -> Int]]
  /\ next_id \in [Kind -> 0..MAX]
  /\ handle \in [Kind -> [Key -> Slot \cup {-1}]]

MboxTypes ==
  /\ name \in [Slot -> Name \cup {NoName}]
  /\ opened \in [Slot -> BOOLEAN]
  /\ mbox_id \in Slot
  /\ box \in [Name -> Slot \cup {-1}]

(* Slots not yet taken hold key 0, and no key stands in two slots. *)
Fresh    == \A k \in Kind : \A i \in Slot : i >= next_id[k] => hash[k][i] = 0
OneSlot  == \A k \in Kind : \A i, j \in Slot :
              (hash[k][i] # 0 /\ hash[k][i] = hash[k][j]) => i = j

(* What was handed out still holds what it was handed out for. *)
Handed   == \A k \in Kind : \A key \in Key :
              handle[k][key] # -1 => hash[k][handle[k][key]] = key

(* No mailbox is open behind the last one, and boxes keep their names. *)
Unopened == \A i \in Slot : i > mbox_id => ~opened[i]
Named    == \A n \in Name : box[n] # -1 => box[n] <= mbox_id /\ name[box[n]] = n

TableInv == TableTypes /\ Fresh /\ OneSlot /\ Handed
MboxInv  == MboxTypes /\ Unopened /\ OneMailboxPerName /\ Named
Inv      == TableInv /\ MboxInv

-----------------------------------------------------------------------------
(* A look-up finds the slot of the key, whichever slot that is. *)
LEMMA FetchFinds ==
  ASSUME TableInv, NEW k \in Kind, NEW key \in Key, NEW i \in Slot, hash[k][i] = key
  PROVE  fetchhash(k, key) = i
<1>1. Found(k, key) = {i}
  BY KeyTableAssumption DEF Found, TableInv, OneSlot
<1>2. (CHOOSE j \in {i} : \A l \in {i} : j <= l) = i
  <2>1. i <= i  BY KeyTableAssumption DEF Slot
  <2> QED  BY <2>1
<1> QED  BY <1>1, <1>2 DEF fetchhash

LEMMA FetchMisses ==
  ASSUME TableInv, NEW k \in Kind, NEW key \in Key
  PROVE  \/ fetchhash(k, key) = -1 /\ Found(k, key) = {}
         \/ fetchhash(k, key) \in Slot /\ hash[k][fetchhash(k, key)] = key
<1>1. CASE Found(k, key) = {}
  BY <1>1 DEF fetchhash
<1>2. CASE Found(k, key) # {}
  <2>1. PICK i \in Slot : hash[k][i] = key  BY <1>2 DEF Found
  <2> QED  BY <2>1, FetchFinds
<1> QED  BY <1>1, <1>2

(* Opening a name finds the mailbox that is open under it. *)
LEMMA OpenFinds ==
  ASSUME MboxInv, NEW n \in Name, NEW i \in Open(n)
  PROVE  Open(n) = {i} /\ (CHOOSE j \in Open(n) : \A l \in Open(n) : j <= l) = i
<1>1. Open(n) = {i}
  BY DEF Open, MboxInv, OneMailboxPerName
<1>2. (CHOOSE j \in {i} : \A l \in {i} : j <= l) = i
  <2>1. i <= i  BY KeyTableAssumption DEF Slot, Open
  <2> QED  BY <2>1
<1> QED  BY <1>1, <1>2

-----------------------------------------------------------------------------
(* A key that has no slot takes the next one, which holds no key yet. *)
LEMMA GetTakes ==
  ASSUME TableInv, NEW k \in Kind, NEW key \in Key, get(k, key), fetchhash(k, key) = -1
  PROVE  TableInv' /\ handle[k][key] = -1
<1> DEFINE n == next_id[k]
<1>1. n \in Slot /\ hash[k][n] = 0 /\ next_id' = [next_id EXCEPT ![k] = n + 1]
      /\ hash' = [hash EXCEPT ![k][n] = key] /\ handle' = [handle EXCEPT ![k][key] = n]
  BY KeyTableAssumption DEF get, Remember, Slot, TableInv, TableTypes, Fresh
<1>2. key # 0 /\ key \in Int
  BY KeyTableAssumption
<1>3. \A i \in Slot : hash[k][i] # key
  <2>1. -1 \notin Slot  BY KeyTableAssumption DEF Slot
  <2> QED  BY <2>1, FetchFinds
<1>4. TableTypes'
  <2>1. hash' \in [Kind -> [Slot -> Int]]  BY <1>1, <1>2 DEF TableInv, TableTypes
  <2>2. next_id' \in [Kind -> 0..MAX]
    BY <1>1, KeyTableAssumption DEF Slot, TableInv, TableTypes
  <2>3. handle' \in [Kind -> [Key -> Slot \cup {-1}]]  BY <1>1 DEF TableInv, TableTypes
  <2> QED  BY <2>1, <2>2, <2>3 DEF TableTypes
<1> DEFINE h(l, i) == IF l = k /\ i = n THEN key ELSE hash[l][i]
<1>5. \A l \in Kind, i \in Slot : hash'[l][i] = h(l, i)
  BY <1>1 DEF TableInv, TableTypes
<1>6. Fresh'
  <2> SUFFICES ASSUME NEW l \in Kind, NEW i \in Slot, i >= next_id'[l]
               PROVE  hash'[l][i] = 0
    BY DEF Fresh
  <2>1. CASE l = k
    <3>1. i >= n + 1  BY <1>1, <2>1 DEF TableInv, TableTypes
    <3>2. i # n /\ i >= n  BY <3>1, <1>1, KeyTableAssumption DEF Slot
    <3> QED  BY <3>2, <1>5, <2>1 DEF TableInv, Fresh
  <2>2. CASE l # k
    BY <2>2, <1>1, <1>5 DEF TableInv, TableTypes, Fresh
  <2> QED  BY <2>1, <2>2
<1>7. OneSlot'
  <2> SUFFICES ASSUME NEW l \in Kind, NEW i \in Slot, NEW j \in Slot,
                      h(l, i) # 0, h(l, i) = h(l, j)
               PROVE  i = j
    BY <1>5 DEF OneSlot
  <2> QED  BY <1>3 DEF TableInv, OneSlot
<1>8. Handed'
  <2> SUFFICES ASSUME NEW l \in Kind, NEW e \in Key, handle'[l][e] # -1
               PROVE  hash'[l][handle'[l][e]] = e
    BY DEF Handed
  <2>1. CASE l = k /\ e = key
    <3>1. handle'[l][e] = n  BY <2>1, <1>1 DEF TableInv, TableTypes
    <3> QED  BY <3>1, <2>1, <1>5, <1>1
  <2>2. CASE ~(l = k /\ e = key)
    <3>1. handle'[l][e] = handle[l][e]  BY <2>2, <1>1 DEF TableInv, TableTypes
    <3>2. handle[l][e] \in Slot /\ hash[l][handle[l][e]] = e
      BY <3>1 DEF TableInv, TableTypes, Handed
    <3>3. e # 0  BY KeyTableAssumption
    <3>4. ~(l = k /\ handle[l][e] = n)  BY <3>2, <3>3, <1>1
    <3> QED  BY <3>1, <3>2, <3>4, <1>5
  <2> QED  BY <2>1, <2>2
<1>9. handle[k][key] = -1
  BY <1>3 DEF TableInv, TableTypes, Handed
<1> QED  BY <1>4, <1>6, <1>7, <1>8, <1>9 DEF TableInv

(* A key that has a slot is answered with it, and nothing changes. *)
LEMMA GetFinds ==
  ASSUME TableInv, NEW k \in Kind, NEW key \in Key, get(k, key), fetchhash(k, key) # -1
  PROVE  /\ TableInv'
         /\ handle[k][key] # -1 => handle'[k][key] = handle[k][key]
<1> DEFINE i == fetchhash(k, key)
<1>1. i \in Slot /\ hash[k][i] = key  BY FetchMisses
<1>2. handle' = [handle EXCEPT ![k][key] = i] /\ UNCHANGED <<hash, next_id>>
  BY DEF get, Remember
<1>3. TableTypes' /\ Fresh' /\ OneSlot'
  BY <1>1, <1>2 DEF TableInv, TableTypes, Fresh, OneSlot
<1>4. Handed'
  BY <1>1, <1>2 DEF TableInv, TableTypes, Handed
<1>5. handle[k][key] # -1 => handle'[k][key] = handle[k][key]
  <2> SUFFICES ASSUME handle[k][key] # -1  PROVE handle'[k][key] = handle[k][key]
    OBVIOUS
  <2>1. handle[k][key] \in Slot /\ hash[k][handle[k][key]] = key
    BY DEF TableInv, TableTypes, Handed
  <2>2. i = handle[k][key]  BY <2>1, FetchFinds
  <2>3. handle'[k][key] = i  BY <1>2 DEF TableInv, TableTypes
  <2> QED  BY <2>2, <2>3
<1> QED  BY <1>3, <1>4, <1>5 DEF TableInv

(* An open mailbox is returned to all who open its name; otherwise the      *)
(* next slot, which no name ever led to, gets the name.                    *)
LEMMA OpenKeeps ==
  ASSUME MboxInv, NEW n \in Name, do_mbox_open(n)
  PROVE  /\ MboxInv'
         /\ \A m \in Name : (box[m] # -1 /\ opened[box[m]]) => box'[m] = box[m]
<1>1. CASE Open(n) # {}
  <2>1. PICK i \in Open(n) : TRUE  BY <1>1
  <2>2. box' = [box EXCEPT ![n] = i] /\ UNCHANGED <<name, opened, mbox_id>>
    BY <1>1, <2>1, OpenFinds DEF do_mbox_open
  <2>3. i \in Slot /\ name[i] = n /\ opened[i]  BY <2>1 DEF Open
  <2>4. i <= mbox_id
    BY <2>3, KeyTableAssumption DEF MboxInv, MboxTypes, Unopened, Slot
  <2>5. MboxInv'
    BY <2>2, <2>3, <2>4 DEF MboxInv, MboxTypes, Unopened, OneMailboxPerName, Named
  <2>6. ASSUME NEW m \in Name, box[m] # -1, opened[box[m]]
        PROVE  box'[m] = box[m]
    <3>1. box[m] \in Slot /\ name[box[m]] = m
      BY <2>6 DEF MboxInv, MboxTypes, Named
    <3>2. m = n => box[m] = i
      BY <3>1, <2>3, <2>6 DEF MboxInv, OneMailboxPerName
    <3> QED  BY <3>2, <2>2 DEF MboxInv, MboxTypes
  <2> QED  BY <2>5, <2>6
<1>2. CASE Open(n) = {}
  <2> DEFINE i == mbox_id + 1
  <2>1. /\ i \in Slot /\ mbox_id' = i
        /\ opened' = [opened EXCEPT ![i] = TRUE]
        /\ name' = [name EXCEPT ![i] = n]
        /\ box' = [box EXCEPT ![n] = i]
    BY <1>2, KeyTableAssumption DEF do_mbox_open, MboxInv, MboxTypes, Slot
  <2>2. mbox_id \in Int /\ \A j \in Slot : j \in Int
    BY KeyTableAssumption DEF MboxInv, MboxTypes, Slot
  <2>3. -1 \notin Slot  BY KeyTableAssumption DEF Slot
  <2>4. MboxTypes'
    BY <2>1 DEF MboxInv, MboxTypes
  <2>5. Unopened'
    <3> SUFFICES ASSUME NEW j \in Slot, j > i  PROVE ~opened'[j]
      BY <2>1 DEF Unopened
    <3>1. j # i /\ j > mbox_id  BY <2>2
    <3> QED  BY <3>1, <2>1 DEF MboxInv, MboxTypes, Unopened
  <2>6. OneMailboxPerName'
    <3> SUFFICES ASSUME NEW j \in Slot, NEW l \in Slot, opened'[j], opened'[l],
                        name'[j] = name'[l]
                 PROVE  j = l
      BY DEF OneMailboxPerName
    <3>1. \A m \in Slot : opened[m] => name[m] # n  BY <1>2 DEF Open
    <3> QED  BY <3>1, <2>1 DEF MboxInv, MboxTypes, OneMailboxPerName
  <2>7. Named'
    <3> SUFFICES ASSUME NEW m \in Name, box'[m] # -1
                 PROVE  box'[m] <= i /\ name'[box'[m]] = m
      BY <2>1 DEF Named
    <3>1. CASE m = n
      <4>1. box'[m] = i  BY <3>1, <2>1 DEF MboxInv, MboxTypes
      <4>2. i <= i  BY <2>2
      <4> QED  BY <4>1, <4>2, <3>1, <2>1 DEF MboxInv, MboxTypes
    <3>2. CASE m # n
      <4>1. box'[m] = box[m]  BY <3>2, <2>1 DEF MboxInv, MboxTypes
      <4>2. box[m] \in Slot /\ box[m] <= mbox_id /\ name[box[m]] = m
        BY <4>1 DEF MboxInv, MboxTypes, Named
      <4>3. box[m] <= i /\ box[m] # i  BY <4>2, <2>2
      <4> QED  BY <4>1, <4>2, <4>3, <2>1 DEF MboxInv, MboxTypes
    <3> QED  BY <3>1, <3>2
  <2>8. ASSUME NEW m \in Name, box[m] # -1, opened[box[m]]
        PROVE  box'[m] = box[m]
    <3>1. box[m] \in Slot /\ name[box[m]] = m
      BY <2>8 DEF MboxInv, MboxTypes, Named
    <3>2. m # n  BY <3>1, <2>8, <1>2 DEF Open
    <3> QED  BY <3>2, <2>1 DEF MboxInv, MboxTypes
  <2> QED  BY <2>4, <2>5, <2>6, <2>7, <2>8 DEF MboxInv
<1> QED  BY <1>1, <1>2

LEMMA CloseKeeps ==
  ASSUME MboxInv, NEW i \in 1..mbox_id, do_mbox_close(i)
  PROVE  MboxInv' /\ box' = box
<1>1. i \in Slot
  BY KeyTableAssumption DEF MboxInv, MboxTypes, Slot
<1> QED
  BY <1>1 DEF do_mbox_close, MboxInv, MboxTypes, Unopened, OneMailboxPerName, Named

-----------------------------------------------------------------------------
LEMMA InitInv == Init => Inv
<1> SUFFICES ASSUME Init  PROVE Inv
  OBVIOUS
<1>1. 0 \in Slot /\ 0 \in 0..MAX  BY KeyTableAssumption DEF Slot
<1>2. TableInv
  BY <1>1 DEF Init, TableInv, TableTypes, Fresh, OneSlot, Handed
<1>3. MboxInv
  BY <1>1 DEF Init, MboxInv, MboxTypes, Unopened, OneMailboxPerName, Named
<1> QED  BY <1>2, <1>3 DEF Inv

(* Each half of the state is left alone by the calls on the other. *)
LEMMA StepKeeps == Inv /\ [Next]_vars => Inv' /\ (Kept \/ UNCHANGED vars)
<1> SUFFICES ASSUME Inv, [Next]_vars  PROVE Inv' /\ (Kept \/ UNCHANGED vars)
  OBVIOUS
<1> USE DEF Inv
<1>1. CASE Get
  <2>1. PICK k \in Kind, key \in Key : get(k, key) /\ UNCHANGED mboxVars
    BY <1>1 DEF Get
  <2>2. TableInv' /\ (handle[k][key] # -1 => handle'[k][key] = handle[k][key])
    BY <2>1, GetTakes, GetFinds
  <2>3. MboxInv'
    BY <2>1 DEF mboxVars, MboxInv, MboxTypes, Unopened, OneMailboxPerName, Named
  <2>4. \E x \in Slot \cup {-1} : handle' = [handle EXCEPT ![k][key] = x]
    <3>1. next_id[k] \in 0..MAX  BY DEF TableInv, TableTypes
    <3>2. next_id[k] < MAX => next_id[k] \in Slot
      BY <3>1, KeyTableAssumption DEF Slot
    <3> QED  BY <2>1, <3>2, FetchMisses DEF get, Remember
  <2>5. Kept
    <3>1. ASSUME NEW l \in Kind, NEW e \in Key, handle[l][e] # -1
          PROVE  handle'[l][e] = handle[l][e]
      BY <3>1, <2>2, <2>4 DEF TableInv, TableTypes
    <3>2. box' = box  BY <2>1 DEF mboxVars
    <3> QED  BY <3>1, <3>2 DEF Kept
  <2> QED  BY <2>2, <2>3, <2>5
<1>2. CASE MboxOpen
  <2>1. PICK n \in Name : do_mbox_open(n) /\ UNCHANGED tableVars
    BY <1>2 DEF MboxOpen
  <2>2. TableInv' /\ handle' = handle
    BY <2>1 DEF tableVars, TableInv, TableTypes, Fresh, OneSlot, Handed
  <2> QED  BY <2>1, <2>2, OpenKeeps DEF Kept
<1>3. CASE MboxClose
  <2>1. PICK i \in 1..mbox_id : do_mbox_close(i) /\ UNCHANGED tableVars
    BY <1>3 DEF MboxClose
  <2>2. TableInv' /\ handle' = handle
    BY <2>1 DEF tableVars, TableInv, TableTypes, Fresh, OneSlot, Handed
  <2> QED  BY <2>1, <2>2, CloseKeeps DEF Kept
<1>4. CASE UNCHANGED vars
  <2>1. TableInv'
    BY <1>4 DEF vars, tableVars, TableInv, TableTypes, Fresh, OneSlot, Handed
  <2>2. MboxInv'
    BY <1>4 DEF vars, mboxVars, MboxInv, MboxTypes, Unopened, OneMailboxPerName, Named
  <2> QED  BY <2>1, <2>2, <1>4
<1> QED  BY <1>1, <1>2, <1>3, <1>4 DEF Next

LEMMA InvDistinct == Inv => HandlesDistinct /\ OneMailboxPerName
<1> SUFFICES ASSUME Inv  PROVE HandlesDistinct
  BY DEF Inv, MboxInv
<1>1. ASSUME NEW k \in Kind, NEW a \in Key, NEW b \in Key, a # b, handle[k][a] # -1
      PROVE  handle[k][a] # handle[k][b]
  BY <1>1 DEF Inv, TableInv, TableTypes, Handed
<1>2. ASSUME NEW m \in Name, NEW n \in Name, m # n, box[m] # -1
      PROVE  box[m] # box[n]
  BY <1>2 DEF Inv, MboxInv, MboxTypes, Named
<1> QED  BY <1>1, <1>2 DEF HandlesDistinct

(* The inductive invariant of the tables (sync.c:68-101, 133-222). *)
THEOREM TablesKept == Spec => []Inv
<1>1. Init => Inv  BY InitInv
<1>2. Inv /\ [Next]_vars => Inv'  BY StepKeeps
<1> QED  BY <1>1, <1>2, PTL DEF Spec

(* Two keys never lead to one mutex, semaphore or barrier, nor two names    *)
(* to one mailbox, however many of them programs use (mutex_get and the    *)
(* others, do_mbox_open).                                                  *)
THEOREM NobodySharesByChance == Spec => []HandlesDistinct
<1>1. Inv => HandlesDistinct  BY InvDistinct
<1> QED  BY <1>1, TablesKept, PTL

(* Of the mailboxes of one name at most one is open (do_mbox_open).         *)
THEOREM NamesMeet == Spec => []OneMailboxPerName
<1>1. Inv => OneMailboxPerName  BY InvDistinct
<1> QED  BY <1>1, TablesKept, PTL

(* A key leads to the same object for ever, a name to the same mailbox as   *)
(* long as that is open (lock_fetchhash and the others, do_mbox_open).     *)
THEOREM KeysStay == Spec => HandlesStable
<1>1. Inv /\ [Next]_vars => [Kept]_vars  BY StepKeeps
<1> QED  BY <1>1, TablesKept, PTL DEF Spec, HandlesStable

=============================================================================
