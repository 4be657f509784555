------------------------------ MODULE KeyTable ------------------------------
(***************************************************************************)
(* How the tasks that share a mutex, a semaphore, a barrier or a mailbox   *)
(* find the same one (kernel/sync/sync.c): tables from keys to handles     *)
(* that only grow, and the slots of the mailboxes, found by name.  The     *)
(* tables are bss: a slot not yet taken holds the key 0.                   *)
(***************************************************************************)
EXTENDS Integers

CONSTANTS
  Kind,      \* the tables that work alike: mutexes, semaphores, barriers
  Key,       \* the keys of programs; the user library passes addresses
  Name,      \* the names of mailboxes
  MAX        \* MAX_LOCK_NUM and the others: 16 slots each

Slot == 0..(MAX - 1)
NoName == "NUL"

ASSUME KeyTableAssumption == /\ MAX \in Nat \ {0}
                             /\ Key \subseteq Int \ {0}
                             /\ NoName \notin Name

VARIABLES
  hash, next_id,          \* lock_hash and lock_id, semaphore_hash and ...
  name, opened, mbox_id,  \* of the mailboxes
  handle,                 \* history: what the last look-up of each key returned, or -1
  box                     \* history: what the last open of each name returned, or -1

tableVars == <<hash, next_id, handle>>
mboxVars  == <<name, opened, mbox_id, box>>
vars      == <<tableVars, mboxVars>>

Init ==
  /\ hash = [k \in Kind |-> [i \in Slot |-> 0]]
  /\ next_id = [k \in Kind |-> 0]
  /\ name = [i \in Slot |-> NoName]
  /\ opened = [i \in Slot |-> FALSE]
  /\ mbox_id = 0
  /\ handle = [k \in Kind |-> [key \in Key |-> -1]]
  /\ box = [n \in Name |-> -1]

(* The slots that lock_fetchhash and the others can find for a key. *)
Found_taken(k, key) == {i \in Slot : hash[k][i] = key /\ i < next_id[k] - 1}   \* mutant
Found(k, key) == {i \in Slot : hash[k][i] = key}

fetchhash(k, key) ==
  IF Found(k, key) = {} THEN -1
  ELSE CHOOSE i \in Found(k, key) : \A j \in Found(k, key) : i <= j

Remember(k, key, i) ==
  handle' = [handle EXCEPT ![k][key] = i]

(***************************************************************************)
(* mutex_get, semaphore_get and barrier_get.  An unknown key takes the     *)
(* next slot without asking whether there is one; programs use no more     *)
(* than MAX keys of a kind.                                                *)
(***************************************************************************)
get_keeps_id(k, key) ==                                 \* mutant
  IF fetchhash(k, key) = -1
    THEN /\ next_id[k] < MAX
         /\ hash' = [hash EXCEPT ![k][next_id[k]] = key]
         /\ Remember(k, key, next_id[k])
         /\ UNCHANGED next_id
    ELSE /\ Remember(k, key, fetchhash(k, key))
         /\ UNCHANGED <<hash, next_id>>

get(k, key) ==
  IF fetchhash(k, key) = -1
    THEN /\ next_id[k] < MAX
         /\ hash' = [hash EXCEPT ![k][next_id[k]] = key]
         /\ next_id' = [next_id EXCEPT ![k] = @ + 1]
         /\ Remember(k, key, next_id[k])
    ELSE /\ Remember(k, key, fetchhash(k, key))
         /\ UNCHANGED <<hash, next_id>>

Open_before(n) == {i \in Slot : i < mbox_id /\ name[i] = n /\ opened[i]}   \* mutant
Open(n) == {i \in Slot : name[i] = n /\ opened[i]}

(***************************************************************************)
(* do_mbox_open.  Slot 0 is never taken, and no slot is taken twice: the   *)
(* sixteenth mailbox would lie behind the array.                           *)
(***************************************************************************)
do_mbox_open(n) ==
  IF Open(n) # {}
    THEN /\ box' = [box EXCEPT ![n] = CHOOSE i \in Open(n) : \A j \in Open(n) : i <= j]
         /\ UNCHANGED <<name, opened, mbox_id>>
    ELSE /\ mbox_id + 1 < MAX
         /\ mbox_id' = mbox_id + 1
         /\ opened' = [opened EXCEPT ![mbox_id'] = TRUE]
         /\ name' = [name EXCEPT ![mbox_id'] = n]
         /\ box' = [box EXCEPT ![n] = mbox_id']

do_mbox_close(i) == /\ opened' = [opened EXCEPT ![i] = FALSE]
                    /\ UNCHANGED <<name, mbox_id, box>>

Get   == \E k \in Kind, key \in Key : get(k, key) /\ UNCHANGED mboxVars
MboxOpen  == \E n \in Name : do_mbox_open(n) /\ UNCHANGED tableVars
MboxClose == \E i \in 1..mbox_id : do_mbox_close(i) /\ UNCHANGED tableVars

Next == Get \/ MboxOpen \/ MboxClose

Spec == Init /\ [][Next]_vars

-----------------------------------------------------------------------------
(* Two keys never lead to one object, nor two names to one mailbox: tasks   *)
(* that do not mean to share do not.                                       *)
HandlesDistinct ==
  /\ \A k \in Kind : \A a, b \in Key :
        (a # b /\ handle[k][a] # -1) => handle[k][a] # handle[k][b]
  /\ \A m, n \in Name : (m # n /\ box[m] # -1) => box[m] # box[n]

(* At most one mailbox of a name is open, so that all who open the name     *)
(* before it is closed meet in one mailbox.                                *)
OneMailboxPerName ==
  \A i, j \in Slot : (opened[i] /\ opened[j] /\ name[i] = name[j]) => i = j

(* A key leads to the same object for ever, and a name to the same mailbox  *)
(* as long as that is open: whoever looks it up later finds the others.    *)
Kept ==
  /\ \A k \in Kind, key \in Key : handle[k][key] # -1 => handle'[k][key] = handle[k][key]
  /\ \A n \in Name : (box[n] # -1 /\ opened[box[n]]) => box'[n] = box[n]
HandlesStable == [][Kept]_vars

=============================================================================
