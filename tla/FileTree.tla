------------------------------ MODULE FileTree ------------------------------
(***************************************************************************)
(* What the file system promises about names: a tree of directories, in    *)
(* which a call does what it says or nothing at all, also when the machine *)
(* is reset in the middle of it.                                           *)
(***************************************************************************)
EXTENDS Sequences, Integers

CONSTANTS Object, Root, Nowhere, Name

VARIABLES tree,   \* who is called what where: <<directory, name, type, object>>
          here    \* the current directory, Nowhere before the disk is mounted

vars == <<tree, here>>

Known(t) == {e[1] : e \in t} \cup {e[4] : e \in t}
Own(o, parent) == {<<o, ".", "DIR", o>>, <<o, "..", "DIR", parent>>}
Taken(n, type) == \E e \in tree : e[1] = here /\ e[2] = n /\ e[3] = type

Init == tree = {} /\ here = Nowhere

MakeDir(n, o) == /\ ~Taken(n, "DIR") /\ o \notin Known(tree)
                 /\ tree' = tree \cup {<<here, n, "DIR", o>>} \cup Own(o, here)
MakeFile(n, o) == /\ ~Taken(n, "FILE") /\ o \notin Known(tree)
                  /\ tree' = tree \cup {<<here, n, "FILE", o>>}
Link(n, m, o) == /\ <<here, n, "FILE", o>> \in tree /\ ~Taken(m, "FILE")
                 /\ tree' = tree \cup {<<here, m, "FILE", o>>}
RemoveDir(n, o) == /\ <<here, n, "DIR", o>> \in tree
                   /\ \A e \in tree : e[1] = o => e \in Own(o, here)
                   /\ tree' = tree \ ({<<here, n, "DIR", o>>} \cup Own(o, here))
Remove(n, o) == /\ <<here, n, "FILE", o>> \in tree
                /\ tree' = tree \ {<<here, n, "FILE", o>>}

Change == /\ tree' # tree
          /\ \E n \in Name, o \in Object :
               \/ MakeDir(n, o) \/ MakeFile(n, o) \/ RemoveDir(n, o) \/ Remove(n, o)
               \/ \E m \in Name : Link(n, m, o)

Format == here' = Root /\ tree = {} /\ tree' = Own(Root, Root)
Mount  == here' = Root /\ tree # {} /\ UNCHANGED tree
Step   == here # Nowhere /\ UNCHANGED here /\ Change
Move   == /\ here # Nowhere /\ UNCHANGED tree
          /\ here' \in {e[4] : e \in {f \in tree : f[3] = "DIR"}}
Crash  == here # Nowhere /\ here' = Nowhere /\ (UNCHANGED tree \/ Change)

Next == Move \/ Mount \/ Format \/ Crash \/ Step

Spec == Init /\ [][Next]_vars

=============================================================================
