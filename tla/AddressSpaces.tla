--------------------------- MODULE AddressSpaces ---------------------------
(***************************************************************************)
(* What the memory of tasks promises: every task works in one space, a     *)
(* process in one of its own and a thread in its creator's.  A space holds *)
(* a word for some pages.  A step changes one space, and of that space     *)
(* only the page it is about; a page that becomes present holds any word,  *)
(* and a new process finds its image.                                      *)
(***************************************************************************)
EXTENDS Integers, Sequences
CONSTANTS
    Task,        \* the tasks there can be
    Page,        \* the pages of a space
    Entry,       \* the first page of a program
    Images,      \* the programs, each a sequence of words
    Absent       \* what a space holds for a page that is not present

VARIABLES
    of,          \* of[t]: the space of task t, 0 before it has one
    space        \* space[d]: the pages of space d

vars == <<of, space>>

Used == {of[t] : t \in Task} \ {0}

ASInit ==
    /\ of = [t \in Task |-> 0]
    /\ space = << >>

(* Nobody else's space changes, and spaces without a task are forgotten. *)
OthersKept(d) ==
    /\ DOMAIN space' = Used'
    /\ \A e \in Used' \ {d} : e \in Used /\ space'[e] = space[e]

(* A process starts in a new space that holds its image. *)
Start(t, image) ==
    /\ of'[t] \notin Used \cup {0}
    /\ of' = [of EXCEPT ![t] = of'[t]]
    /\ \A k \in DOMAIN image : space'[of'[t]][Entry + k - 1] = image[k]
    /\ OthersKept(of'[t])

(* Space d changes in one page.  A page that was not present then holds     *)
(* whatever was there; `fresh` asks for such a page.                        *)
OneChanges(d, fresh) == \E before \in {space[d]}, after \in {space'[d]} :
    \E va \in Page :
        /\ after[va] \notin {before[va], Absent}
        /\ fresh => before[va] = Absent
        /\ \A other \in Page \ {va} : after[other] = before[other]

(* A thread starts in its creator's space, on a page that was not present. *)
Fork(t, creator) ==
    /\ of[creator] # 0
    /\ of' = [of EXCEPT ![t] = of[creator]]
    /\ OneChanges(of[creator], TRUE)
    /\ OthersKept(of[creator])

(* A task reaches a page for the first time, or writes one it has. *)
Access(t) ==
    /\ of[t] # 0
    /\ UNCHANGED of
    /\ OneChanges(of[t], FALSE)
    /\ OthersKept(of[t])

ASNext == \E t \in Task :
    \/ \E image \in Images : Start(t, image)
    \/ \E creator \in Task : Fork(t, creator)
    \/ Access(t)

ASSpec == ASInit /\ [][ASNext]_vars
=============================================================================
