---------------------------- MODULE Kernel_proofs ---------------------------
(***************************************************************************)
(* The safety of the scheduler and of the mutexes for any number of PCBs   *)
(* and locks, when user programs and devices keep to the rules of          *)
(* Kernel.tla.  The invariant is inductive because it also knows where the *)
(* shell may be linked while it runs (HomeShell), and which slots are free *)
(* of waiters (Graves).  A handler is a change of the lists, then a call   *)
(* of do_scheduler: its parts are operators over the lists, statuses and   *)
(* pids that the handler passes on, so that each half has its own lemma.   *)
(***************************************************************************)
EXTENDS Kernel, Queues_proofs

(* The user programs and the devices keep to the rules; "reap" says nothing *)
(* where nobody is killed, and is not assumed.                             *)
Disciplined == {"paced", "nokill", "fifo", "cleanexit"} \subseteq Discipline

Statuses == Dead \cup {"TASK_BLOCKED", "TASK_RUNNING", "TASK_READY"}

(* Every PCB is linked at most once. *)
Linked(r, bq) ==
  /\ r \in Seq(Pcb) /\ IsInjective(r)
  /\ bq \in [Heads -> Seq(Pcb)]
  /\ \A h \in Heads : IsInjective(bq[h]) /\ ToSet(bq[h]) \cap ToSet(r) = {}
  /\ \A g, h \in Heads : g # h => ToSet(bq[g]) \cap ToSet(bq[h]) = {}

(* A linked PCB is live and its status says in which kind of list it is; a  *)
(* live PCB is in the list its status says, unless it is the caller c.     *)
Placed(r, bq, st, pd, c) ==
  /\ st \in [Pcb -> Statuses] /\ pd \in [Pcb -> 0..NUM_MAX_TASK]
  /\ \A p \in ToSet(r) : pd[p] # 0 /\ (st[p] = "TASK_READY" \/ (p = Shell /\ c = Shell))
  /\ \A h \in Heads : \A p \in ToSet(bq[h]) :
        pd[p] # 0 /\ st[p] = "TASK_BLOCKED" /\ p # Shell
  /\ \A p \in Pcb : pd[p] # 0 =>
        \/ st[p] = "TASK_READY" /\ p \in ToSet(r)
        \/ st[p] = "TASK_BLOCKED" /\ \E h \in Heads : p \in ToSet(bq[h])
        \/ st[p] = "TASK_RUNNING" /\ p = c

(* The shell is live and never out of the scheduler's reach: it runs or is  *)
(* ready.  When it runs while linked, it stands where do_scheduler's       *)
(* second enqueue of it cuts nobody off.                                   *)
HomeShell(r, pd, c) ==
  /\ pd[Shell] # 0
  /\ c # Shell => Shell \in ToSet(r)
  /\ c = Shell /\ Shell \in ToSet(r) => r[1] = Shell \/ r[Len(r)] = Shell

(* Only a live PCB has waiters, and a slot that was used and is free has    *)
(* the status its last task ended with.                                    *)
Graves(bq, st, pd, cr) ==
  /\ \A p \in Pcb : bq[p] # <<>> => pd[p] # 0
  /\ \A p \in cr : pd[p] = 0 => st[p] \in Dead

(* What holds between the two halves of a handler called by c. *)
Core(r, bq, st, pd, cr, c) ==
  /\ Linked(r, bq)
  /\ Placed(r, bq, st, pd, c)
  /\ HomeShell(r, pd, c)
  /\ Graves(bq, st, pd, cr)

(* The task c that the scheduler chose. *)
Running(st, pd, c) == c \in Pcb => pd[c] # 0 /\ st[c] = "TASK_RUNNING"

(* The sets that the definitions above range over. *)
LEMMA Sets ==
  /\ Shell \in Pcb /\ Pid0 \notin Pcb /\ Pid0 # Shell
  /\ Pcb \subseteq Heads /\ Lock \subseteq Heads /\ Net \subseteq Heads
  /\ Lock \cap Pcb = {} /\ Net \cap Pcb = {} /\ Net \cap Lock = {}
  /\ net_recv_queue \in Net /\ net_send_queue \in Net /\ net_recv_queue # net_send_queue
BY SchedAssumption DEF SchedAssumption, Shell, Pcb, Pid0, Heads, Net

-----------------------------------------------------------------------------
(* The queue once the caller has been put back behind what is left. *)
LEMMA PutBack ==
  ASSUME NEW s \in Seq(Pcb), IsInjective(s), NEW c \in Pcb,
         c \in ToSet(s) => s # <<>> /\ s[Len(s)] = c
  PROVE  /\ Link(s, c) \in Seq(Pcb) /\ IsInjective(Link(s, c))
         /\ ToSet(Link(s, c)) = ToSet(s) \cup {c}
         /\ Link(s, c)[Len(Link(s, c))] = c
<1>1. CASE c \in ToSet(s)
  <2>1. Link(s, c) = s
    BY <1>1, LinkLast
  <2> QED
    BY <2>1, <1>1
<1>2. CASE c \notin ToSet(s)
  <2>1. Link(s, c) = Append(s, c)
    BY <1>2, LinkNew
  <2> QED
    BY <2>1, <1>2, AppendQueue
<1> QED
  BY <1>1, <1>2

(* do_scheduler: the task it chooses runs, and every other live task keeps  *)
(* its place.                                                              *)
LEMMA DispatchInv ==
  ASSUME NEW r, NEW bq, NEW st, NEW pd, NEW cr \in SUBSET Pcb,
         current_running \in Pcb \cup {Pid0},
         Core(r, bq, st, pd, cr, current_running),
         current_running = Shell => st[current_running] = "TASK_RUNNING",
         do_scheduler(r, st, pd)
  PROVE  /\ Core(ready_queue', bq, status', pd, cr, current_running')
         /\ current_running' \in Pcb
         /\ Running(status', pd, current_running')
<1> DEFINE c == current_running
           P == Preempted(st, pd)
           n == IF r = <<>> THEN Shell ELSE Head(r)
           s == IF r = <<>> THEN r ELSE Tail(r)
           q == ready_queue'
<1>0. /\ n = IF r = <<>> THEN Shell ELSE Head(r)
      /\ s = IF r = <<>> THEN r ELSE Tail(r)
  OBVIOUS
<1>2. /\ q = IF P = {} THEN s ELSE Link(s, c)
      /\ status' = [p \in Pcb |-> IF p = n THEN "TASK_RUNNING"
                                  ELSE IF p \in P THEN "TASK_READY" ELSE st[p]]
      /\ current_running' = n
  BY DEF do_scheduler, Requeue
<1> HIDE DEF n, s, c
<1>1. /\ n \in Pcb /\ pd[n] # 0
      /\ s \in Seq(Pcb) /\ IsInjective(s) /\ ToSet(s) = ToSet(r) \ {n}
      /\ (n \in ToSet(r) /\ st[n] = "TASK_READY") \/ (n = Shell /\ c = Shell)
      /\ Shell \in ToSet(s) /\ c = Shell => s # <<>> /\ s[Len(s)] = Shell
  <2>1. r \in Seq(Pcb) /\ IsInjective(r)
    BY DEF Core, Linked
  <2>2. CASE r = <<>>
    <3>1. ToSet(r) = {}
      BY <2>2, <2>1, EmptyQueue
    <3>2. n = Shell /\ s = r /\ c = Shell /\ pd[n] # 0
      BY <1>0, <2>2, <3>1 DEF Core, HomeShell, c
    <3> QED
      BY <3>1, <3>2, <2>1, Sets
  <2>3. CASE r # <<>>
    <3>1. n = Head(r) /\ s = Tail(r)
      BY <1>0, <2>3
    <3>2. /\ n \in Pcb /\ n \in ToSet(r) /\ n = r[1]
          /\ s \in Seq(Pcb) /\ ToSet(s) = ToSet(r) \ {n} /\ IsInjective(s)
          /\ Len(r) # 1 => s # <<>> /\ s[Len(s)] = r[Len(r)]
      BY <3>1, <2>1, <2>3, TailQueue
    <3>3. pd[n] # 0 /\ (st[n] = "TASK_READY" \/ (n = Shell /\ c = Shell))
      BY <3>2 DEF Core, Placed, c
    <3>4. Shell \in ToSet(s) /\ c = Shell => s # <<>> /\ s[Len(s)] = Shell
      <4> SUFFICES ASSUME Shell \in ToSet(s), c = Shell
                   PROVE  s # <<>> /\ s[Len(s)] = Shell
        OBVIOUS
      <4>1. Shell \in ToSet(r) /\ r[1] # Shell
        BY <3>2
      <4>2. r[Len(r)] = Shell
        BY <4>1 DEF Core, HomeShell, c
      <4> QED
        BY <4>1, <4>2, <3>2
    <3> QED
      BY <3>2, <3>3, <3>4
  <2> QED
    BY <2>2, <2>3
<1>3. \A p : p \in P <=> p = c /\ c \in Pcb /\ st[c] = "TASK_RUNNING" /\ pd[c] # 0
  BY DEF Preempted, c
<1> HIDE DEF P, q
<1>4. c = Shell => Shell \in P
  BY <1>3, Sets DEF Core, HomeShell, c
<1>5. /\ r \in Seq(Pcb)
      /\ bq \in [Heads -> Seq(Pcb)]
      /\ \A h \in Heads : IsInjective(bq[h]) /\ ToSet(bq[h]) \cap ToSet(r) = {}
      /\ \A g, h \in Heads : g # h => ToSet(bq[g]) \cap ToSet(bq[h]) = {}
  BY DEF Core, Linked
<1>6. /\ st \in [Pcb -> Statuses] /\ pd \in [Pcb -> 0..NUM_MAX_TASK]
      /\ \A p \in ToSet(r) : pd[p] # 0 /\ (st[p] = "TASK_READY" \/ (p = Shell /\ c = Shell))
      /\ \A h \in Heads : \A p \in ToSet(bq[h]) :
           pd[p] # 0 /\ st[p] = "TASK_BLOCKED" /\ p # Shell
      /\ \A p \in Pcb : pd[p] # 0 =>
           \/ st[p] = "TASK_READY" /\ p \in ToSet(r)
           \/ st[p] = "TASK_BLOCKED" /\ \E h \in Heads : p \in ToSet(bq[h])
           \/ st[p] = "TASK_RUNNING" /\ p = c
  BY DEF Core, Placed, c
<1>7. /\ q \in Seq(Pcb) /\ IsInjective(q) /\ ToSet(q) = ToSet(s) \cup P
      /\ Shell \in P => q[Len(q)] = Shell
  <2>1. CASE P = {}
    BY <2>1, <1>1, <1>2
  <2>2. CASE P # {}
    <3>1. c \in Pcb /\ P = {c} /\ st[c] = "TASK_RUNNING"
      BY <2>2, <1>3
    <3>2. c \in ToSet(s) => s # <<>> /\ s[Len(s)] = c
      BY <3>1, <1>1, <1>6
    <3>3. q = Link(s, c)
      BY <2>2, <1>2
    <3>4. /\ Link(s, c) \in Seq(Pcb) /\ IsInjective(Link(s, c))
          /\ ToSet(Link(s, c)) = ToSet(s) \cup {c}
          /\ Link(s, c)[Len(Link(s, c))] = c
      BY <3>1, <3>2, <1>1, PutBack
    <3> QED
      BY <3>1, <3>3, <3>4
  <2> QED
    BY <2>1, <2>2
<1>8. Linked(q, bq)
  BY <1>1, <1>3, <1>5, <1>6, <1>7 DEF Linked
<1>9. Placed(q, bq, status', pd, n)
  <2>1. status' \in [Pcb -> Statuses]
    BY <1>2, <1>6 DEF Statuses
  <2>2. ASSUME NEW p \in ToSet(q)
        PROVE  pd[p] # 0 /\ (status'[p] = "TASK_READY" \/ (p = Shell /\ n = Shell))
    <3>1. p \in Pcb
      BY <1>7, <2>2 DEF ToSet
    <3> QED
      BY <3>1, <2>2, <1>1, <1>2, <1>3, <1>4, <1>6, <1>7
  <2>3. ASSUME NEW h \in Heads, NEW p \in ToSet(bq[h])
        PROVE  pd[p] # 0 /\ status'[p] = "TASK_BLOCKED" /\ p # Shell
    <3>1. p \in Pcb
      BY <1>5 DEF ToSet
    <3>2. p # n /\ p \notin P
      BY <1>1, <1>3, <1>6
    <3> QED
      BY <3>1, <3>2, <1>2, <1>6
  <2>4. ASSUME NEW p \in Pcb, pd[p] # 0
        PROVE  \/ status'[p] = "TASK_READY" /\ p \in ToSet(q)
               \/ status'[p] = "TASK_BLOCKED" /\ \E h \in Heads : p \in ToSet(bq[h])
               \/ status'[p] = "TASK_RUNNING" /\ p = n
    <3>1. CASE p = n
      BY <3>1, <1>2
    <3>2. CASE p # n /\ st[p] = "TASK_READY" /\ p \in ToSet(r)
      BY <3>2, <1>1, <1>2, <1>3, <1>7
    <3>3. CASE p # n /\ st[p] = "TASK_BLOCKED" /\ \E h \in Heads : p \in ToSet(bq[h])
      BY <3>3, <1>2, <1>3
    <3>4. CASE p # n /\ st[p] = "TASK_RUNNING" /\ p = c
      BY <3>4, <2>4, <1>2, <1>3, <1>7
    <3> QED
      BY <2>4, <3>1, <3>2, <3>3, <3>4, <1>6
  <2> QED
    BY <2>1, <2>2, <2>3, <2>4, <1>6 DEF Placed
<1>10. HomeShell(q, pd, n)
  <2>1. pd[Shell] # 0 /\ (c # Shell => Shell \in ToSet(r))
    BY DEF Core, HomeShell, c
  <2>2. n # Shell => Shell \in ToSet(q)
    BY <2>1, <1>1, <1>4, <1>7
  <2>3. n = Shell /\ Shell \in ToSet(q) => q[Len(q)] = Shell
    BY <1>1, <1>7
  <2> QED
    BY <2>1, <2>2, <2>3 DEF HomeShell
<1>11. Graves(bq, status', pd, cr)
  <2>1. ASSUME NEW p \in cr, pd[p] = 0 PROVE status'[p] \in Dead
    <3>1. p # n /\ p \notin P /\ p \in Pcb
      BY <2>1, <1>1, <1>3
    <3>2. st[p] \in Dead
      BY <2>1 DEF Core, Graves
    <3> QED
      BY <3>1, <3>2, <1>2
  <2>2. \A p \in Pcb : bq[p] # <<>> => pd[p] # 0
    BY DEF Core, Graves
  <2> QED
    BY <2>1, <2>2 DEF Graves
<1>12. n \in Pcb /\ pd[n] # 0 /\ status'[n] = "TASK_RUNNING" /\ current_running' = n
  BY <1>1, <1>2
<1> QED
  BY <1>8, <1>9, <1>10, <1>11, <1>12 DEF Core, Running, q

-----------------------------------------------------------------------------
(* The tasks of w, and no others, have left the lists bq, which are now b. *)
Leaves(w, bq, b) ==
  /\ w \in Seq(Pcb) /\ IsInjective(w)
  /\ b \in [Heads -> Seq(Pcb)]
  /\ \A h \in Heads : IsInjective(b[h]) /\ ToSet(b[h]) = ToSet(bq[h]) \ ToSet(w)
  /\ \A p \in ToSet(w) : \E h \in Heads : p \in ToSet(bq[h])

(* The statuses st once do_unblock has been called on every task of W. *)
Awake(st, W) == [p \in Pcb |-> IF p \in W THEN "TASK_READY" ELSE st[p]]

(* All the waiters of h leave it. *)
LEMMA AllOut ==
  ASSUME NEW r, NEW bq, Linked(r, bq), NEW h \in Heads
  PROVE  Leaves(bq[h], bq, [bq EXCEPT ![h] = <<>>])
<1>1. /\ bq \in [Heads -> Seq(Pcb)]
      /\ \A k \in Heads : IsInjective(bq[k])
      /\ \A g, k \in Heads : g # k => ToSet(bq[g]) \cap ToSet(bq[k]) = {}
  BY DEF Linked
<1> DEFINE b == [bq EXCEPT ![h] = <<>>]
<1>2. <<>> \in Seq(Pcb) /\ IsInjective(<<>>) /\ ToSet(<<>>) = {}
  BY Sets, ShortQueues
<1>3. b \in [Heads -> Seq(Pcb)]
  BY <1>1, <1>2
<1>4. ASSUME NEW k \in Heads
      PROVE  IsInjective(b[k]) /\ ToSet(b[k]) = ToSet(bq[k]) \ ToSet(bq[h])
  <2>1. CASE k = h
    BY <2>1, <1>1, <1>2
  <2>2. CASE k # h
    BY <2>2, <1>1
  <2> QED
    BY <2>1, <2>2
<1> QED
  BY <1>1, <1>3, <1>4 DEF Leaves

(* The first waiter of h leaves it, if there is one and h is in H. *)
LEMMA HeadOut ==
  ASSUME NEW r, NEW bq, Linked(r, bq), NEW h \in Heads, NEW H
  PROVE  Leaves(IF h \in H /\ bq[h] # <<>> THEN <<Head(bq[h])>> ELSE <<>>, bq,
                [bq EXCEPT ![h] = IF h \in H /\ bq[h] # <<>> THEN Tail(bq[h]) ELSE bq[h]])
<1>1. /\ bq \in [Heads -> Seq(Pcb)]
      /\ \A k \in Heads : IsInjective(bq[k])
      /\ \A g, k \in Heads : g # k => ToSet(bq[g]) \cap ToSet(bq[k]) = {}
  BY DEF Linked
<1>2. CASE ~(h \in H /\ bq[h] # <<>>)
  <2>1. [bq EXCEPT ![h] = bq[h]] = bq
    BY <1>1
  <2>2. <<>> \in Seq(Pcb) /\ IsInjective(<<>>) /\ ToSet(<<>>) = {}
    BY Sets, ShortQueues
  <2>3. Leaves(<<>>, bq, bq)
    BY <2>2, <1>1 DEF Leaves
  <2> QED
    BY <2>1, <2>3, <1>2
<1>3. CASE h \in H /\ bq[h] # <<>>
  <2> DEFINE w == <<Head(bq[h])>>
             b == [bq EXCEPT ![h] = Tail(bq[h])]
  <2>1. /\ Head(bq[h]) \in Pcb /\ Head(bq[h]) \in ToSet(bq[h])
        /\ Tail(bq[h]) \in Seq(Pcb) /\ IsInjective(Tail(bq[h]))
        /\ ToSet(Tail(bq[h])) = ToSet(bq[h]) \ {Head(bq[h])}
    BY <1>1, <1>3, TailQueue
  <2>2. w \in Seq(Pcb) /\ ToSet(w) = {Head(bq[h])} /\ IsInjective(w)
    BY <2>1, ShortQueues
  <2>3. b \in [Heads -> Seq(Pcb)]
    BY <1>1, <2>1
  <2>4. ASSUME NEW k \in Heads
        PROVE  IsInjective(b[k]) /\ ToSet(b[k]) = ToSet(bq[k]) \ ToSet(w)
    <3>1. CASE k = h
      BY <3>1, <1>1, <2>1, <2>2
    <3>2. CASE k # h
      BY <3>2, <1>1, <2>1, <2>2
    <3> QED
      BY <3>1, <3>2
  <2>5. \A p \in ToSet(w) : \E k \in Heads : p \in ToSet(bq[k])
    BY <2>1, <2>2
  <2> HIDE DEF w, b
  <2>6. Leaves(w, bq, b)
    BY <2>2, <2>3, <2>4, <2>5 DEF Leaves
  <2> QED
    BY <2>6, <1>3 DEF w, b
<1> QED
  BY <1>2, <1>3

(* Lists that tasks have left still hold each PCB at most once. *)
LEMMA LeavesLinked ==
  ASSUME NEW r, NEW bq, Linked(r, bq), NEW w, NEW b, Leaves(w, bq, b)
  PROVE  Linked(r, b)
BY DEF Linked, Leaves

(* Some leave, and then some more. *)
LEMMA LeavesTwice ==
  ASSUME NEW bq, NEW v, NEW b, Leaves(v, bq, b), NEW w, NEW b2, Leaves(w, b, b2)
  PROVE  Leaves(v \o w, bq, b2)
<1>1. v \in Seq(Pcb) /\ w \in Seq(Pcb) /\ IsInjective(v) /\ IsInjective(w)
  BY DEF Leaves
<1>2. \A p \in ToSet(w) : p \notin ToSet(v) /\ \E h \in Heads : p \in ToSet(bq[h])
  BY DEF Leaves
<1>3. /\ v \o w \in Seq(Pcb) /\ IsInjective(v \o w)
      /\ ToSet(v \o w) = ToSet(v) \cup ToSet(w)
  BY <1>1, <1>2, ConcatQueue
<1>4. ASSUME NEW h \in Heads
      PROVE  IsInjective(b2[h]) /\ ToSet(b2[h]) = ToSet(bq[h]) \ ToSet(v \o w)
  BY <1>3 DEF Leaves
<1>5. b2 \in [Heads -> Seq(Pcb)] /\ \A p \in ToSet(v) : \E h \in Heads : p \in ToSet(bq[h])
  BY DEF Leaves
<1> QED
  BY <1>2, <1>3, <1>4, <1>5 DEF Leaves

(* The tasks of w leave their lists and join the ready queue. *)
LEMMA WakeInv ==
  ASSUME NEW r, NEW bq, NEW st, NEW pd, NEW cr \in SUBSET Pcb, NEW c,
         Core(r, bq, st, pd, cr, c), NEW w, NEW b, Leaves(w, bq, b),
         w # <<>> /\ c = Shell /\ Shell \in ToSet(r) => r[1] = Shell
  PROVE  Core(r \o w, b, Awake(st, ToSet(w)), pd, cr, c)
<1> DEFINE s == Awake(st, ToSet(w))
           q == r \o w
<1>1. /\ r \in Seq(Pcb) /\ IsInjective(r) /\ bq \in [Heads -> Seq(Pcb)]
      /\ \A h \in Heads : IsInjective(bq[h]) /\ ToSet(bq[h]) \cap ToSet(r) = {}
      /\ \A g, h \in Heads : g # h => ToSet(bq[g]) \cap ToSet(bq[h]) = {}
  BY DEF Core, Linked
<1>2. /\ st \in [Pcb -> Statuses] /\ pd \in [Pcb -> 0..NUM_MAX_TASK]
      /\ \A p \in ToSet(r) : pd[p] # 0 /\ (st[p] = "TASK_READY" \/ (p = Shell /\ c = Shell))
      /\ \A h \in Heads : \A p \in ToSet(bq[h]) :
           pd[p] # 0 /\ st[p] = "TASK_BLOCKED" /\ p # Shell
      /\ \A p \in Pcb : pd[p] # 0 =>
           \/ st[p] = "TASK_READY" /\ p \in ToSet(r)
           \/ st[p] = "TASK_BLOCKED" /\ \E h \in Heads : p \in ToSet(bq[h])
           \/ st[p] = "TASK_RUNNING" /\ p = c
  BY DEF Core, Placed
<1>3. /\ w \in Seq(Pcb) /\ IsInjective(w) /\ b \in [Heads -> Seq(Pcb)]
      /\ \A h \in Heads : IsInjective(b[h]) /\ ToSet(b[h]) = ToSet(bq[h]) \ ToSet(w)
      /\ \A p \in ToSet(w) : \E h \in Heads : p \in ToSet(bq[h])
  BY DEF Leaves
<1>4. /\ q \in Seq(Pcb) /\ ToSet(q) = ToSet(r) \cup ToSet(w) /\ IsInjective(q)
      /\ r # <<>> => q[1] = r[1]
  BY <1>1, <1>3, ConcatQueue
<1>5. ToSet(w) \subseteq Pcb
  BY <1>3 DEF ToSet
<1>6. s \in [Pcb -> Statuses] /\ \A p \in Pcb : s[p] = IF p \in ToSet(w) THEN "TASK_READY" ELSE st[p]
  BY <1>2 DEF Awake, Statuses
<1> HIDE DEF s
<1>7. Linked(q, b)
  BY <1>1, <1>3, <1>4 DEF Linked
<1>8. Placed(q, b, s, pd, c)
  <2>1. ASSUME NEW p \in ToSet(q)
        PROVE  pd[p] # 0 /\ (s[p] = "TASK_READY" \/ (p = Shell /\ c = Shell))
    <3>1. p \in Pcb
      BY <1>4, <2>1 DEF ToSet
    <3> QED
      BY <3>1, <2>1, <1>2, <1>3, <1>4, <1>6
  <2>2. ASSUME NEW h \in Heads, NEW p \in ToSet(b[h])
        PROVE  pd[p] # 0 /\ s[p] = "TASK_BLOCKED" /\ p # Shell
    <3>1. p \in Pcb
      BY <1>3 DEF ToSet
    <3> QED
      BY <3>1, <1>2, <1>3, <1>6
  <2>3. ASSUME NEW p \in Pcb, pd[p] # 0
        PROVE  \/ s[p] = "TASK_READY" /\ p \in ToSet(q)
               \/ s[p] = "TASK_BLOCKED" /\ \E h \in Heads : p \in ToSet(b[h])
               \/ s[p] = "TASK_RUNNING" /\ p = c
    <3>1. CASE p \in ToSet(w)
      BY <3>1, <1>4, <1>6
    <3>2. CASE p \notin ToSet(w)
      BY <3>2, <2>3, <1>2, <1>3, <1>4, <1>6
    <3> QED
      BY <3>1, <3>2
  <2> QED
    BY <2>1, <2>2, <2>3, <1>2, <1>6 DEF Placed
<1>9. HomeShell(q, pd, c)
  <2>1. /\ pd[Shell] # 0
        /\ c # Shell => Shell \in ToSet(r)
        /\ c = Shell /\ Shell \in ToSet(r) => r[1] = Shell \/ r[Len(r)] = Shell
    BY DEF Core, HomeShell
  <2>2. Shell \notin ToSet(w)
    BY <1>2, <1>3
  <2>3. ASSUME c = Shell, Shell \in ToSet(q) PROVE q[1] = Shell \/ q[Len(q)] = Shell
    <3>1. Shell \in ToSet(r)
      BY <2>2, <2>3, <1>4
    <3>2. CASE w = <<>>
      <4>1. q = r
        BY <3>2, <1>1
      <4> QED
        BY <4>1, <3>1, <2>1, <2>3
    <3>3. CASE w # <<>>
      <4>1. r # <<>>
        BY <3>1, <1>1, EmptyQueue
      <4> QED
        BY <4>1, <3>1, <3>3, <2>3, <1>4
    <3> QED
      BY <3>2, <3>3
  <2> HIDE DEF q
  <2> QED
    BY <2>1, <2>3, <1>4 DEF HomeShell
<1>10. Graves(b, s, pd, cr)
  <2>1. ASSUME NEW p \in Pcb, b[p] # <<>> PROVE pd[p] # 0
    <3>1. p \in Heads /\ b[p] \in Seq(Pcb) /\ bq[p] \in Seq(Pcb)
      BY Sets, <1>1, <1>3
    <3>2. ToSet(b[p]) # {}
      BY <3>1, <2>1, EmptyQueue
    <3>3. ToSet(bq[p]) # {}
      BY <3>1, <3>2, <1>3
    <3>4. bq[p] # <<>>
      BY <3>1, <3>3, EmptyQueue
    <3> QED
      BY <3>4 DEF Core, Graves
  <2>2. ASSUME NEW p \in cr, pd[p] = 0 PROVE s[p] \in Dead
    <3>1. p \notin ToSet(w)
      BY <2>2, <1>2, <1>3
    <3> QED
      BY <3>1, <2>2, <1>6 DEF Core, Graves
  <2> QED
    BY <2>1, <2>2 DEF Graves
<1> QED
  BY <1>7, <1>8, <1>9, <1>10 DEF Core, s

(* The caller goes to sleep in h, which is not the wait_list of a free PCB. *)
LEMMA BlockInv ==
  ASSUME NEW r, NEW bq, NEW st, NEW pd, NEW cr \in SUBSET Pcb, NEW c \in Pcb \ {Shell},
         Core(r, bq, st, pd, cr, c), Running(st, pd, c),
         NEW h \in Heads, h \in Pcb => pd[h] # 0
  PROVE  /\ Link(bq[h], c) = Append(bq[h], c)
         /\ Core(r, [bq EXCEPT ![h] = Link(@, c)], [st EXCEPT ![c] = "TASK_BLOCKED"], pd, cr, c)
<1> DEFINE b == [bq EXCEPT ![h] = Link(@, c)]
           s == [st EXCEPT ![c] = "TASK_BLOCKED"]
<1>1. /\ r \in Seq(Pcb) /\ IsInjective(r) /\ bq \in [Heads -> Seq(Pcb)]
      /\ \A k \in Heads : IsInjective(bq[k]) /\ ToSet(bq[k]) \cap ToSet(r) = {}
      /\ \A g, k \in Heads : g # k => ToSet(bq[g]) \cap ToSet(bq[k]) = {}
  BY DEF Core, Linked
<1>2. /\ st \in [Pcb -> Statuses] /\ pd \in [Pcb -> 0..NUM_MAX_TASK]
      /\ \A p \in ToSet(r) : pd[p] # 0 /\ (st[p] = "TASK_READY" \/ (p = Shell /\ c = Shell))
      /\ \A k \in Heads : \A p \in ToSet(bq[k]) :
           pd[p] # 0 /\ st[p] = "TASK_BLOCKED" /\ p # Shell
      /\ \A p \in Pcb : pd[p] # 0 =>
           \/ st[p] = "TASK_READY" /\ p \in ToSet(r)
           \/ st[p] = "TASK_BLOCKED" /\ \E k \in Heads : p \in ToSet(bq[k])
           \/ st[p] = "TASK_RUNNING" /\ p = c
  BY DEF Core, Placed
<1>3. pd[c] # 0 /\ st[c] = "TASK_RUNNING"
  BY DEF Running
<1>4. c \notin ToSet(r) /\ \A k \in Heads : c \notin ToSet(bq[k])
  BY <1>2, <1>3
<1>5. /\ Link(bq[h], c) = Append(bq[h], c) /\ Link(bq[h], c) \in Seq(Pcb)
      /\ IsInjective(Link(bq[h], c)) /\ ToSet(Link(bq[h], c)) = ToSet(bq[h]) \cup {c}
  <2>1. bq[h] \in Seq(Pcb) /\ IsInjective(bq[h]) /\ c \notin ToSet(bq[h])
    BY <1>1, <1>4
  <2>2. Link(bq[h], c) = Append(bq[h], c)
    BY <2>1, LinkNew
  <2> QED
    BY <2>1, <2>2, AppendQueue
<1>6. b \in [Heads -> Seq(Pcb)]
      /\ \A k \in Heads : b[k] = IF k = h THEN Link(bq[h], c) ELSE bq[k]
  BY <1>1, <1>5
<1>7. s \in [Pcb -> Statuses] /\ \A p \in Pcb : s[p] = IF p = c THEN "TASK_BLOCKED" ELSE st[p]
  BY <1>2 DEF Statuses
<1> HIDE DEF b, s
<1>8. Linked(r, b)
  <2>1. \A k \in Heads : IsInjective(b[k]) /\ ToSet(b[k]) = ToSet(bq[k]) \cup (IF k = h THEN {c} ELSE {})
    BY <1>1, <1>5, <1>6
  <2> QED
    BY <2>1, <1>1, <1>4, <1>6 DEF Linked
<1>9. Placed(r, b, s, pd, c)
  <2>1. ASSUME NEW p \in ToSet(r)
        PROVE  pd[p] # 0 /\ (s[p] = "TASK_READY" \/ (p = Shell /\ c = Shell))
    <3>1. p \in Pcb
      BY <1>1 DEF ToSet
    <3> QED
      BY <3>1, <1>2, <1>4, <1>7
  <2>2. ASSUME NEW k \in Heads, NEW p \in ToSet(b[k])
        PROVE  pd[p] # 0 /\ s[p] = "TASK_BLOCKED" /\ p # Shell
    <3>1. p \in Pcb
      BY <1>6 DEF ToSet
    <3>2. p = c \/ p \in ToSet(bq[k])
      BY <1>5, <1>6
    <3> QED
      BY <3>1, <3>2, <1>2, <1>3, <1>7
  <2>3. ASSUME NEW p \in Pcb, pd[p] # 0
        PROVE  \/ s[p] = "TASK_READY" /\ p \in ToSet(r)
               \/ s[p] = "TASK_BLOCKED" /\ \E k \in Heads : p \in ToSet(b[k])
               \/ s[p] = "TASK_RUNNING" /\ p = c
    <3>1. CASE p = c
      <4>1. p \in ToSet(b[h])
        BY <3>1, <1>5, <1>6
      <4> QED
        BY <3>1, <4>1, <1>7
    <3>2. CASE p # c
      <4>1. \A k \in Heads : p \in ToSet(bq[k]) => p \in ToSet(b[k])
        BY <1>5, <1>6
      <4> QED
        BY <4>1, <3>2, <2>3, <1>2, <1>7
    <3> QED
      BY <3>1, <3>2
  <2> QED
    BY <2>1, <2>2, <2>3, <1>2, <1>7 DEF Placed
<1>10. HomeShell(r, pd, c)
  BY DEF Core
<1>11. Graves(b, s, pd, cr)
  <2>1. ASSUME NEW p \in Pcb, b[p] # <<>> PROVE pd[p] # 0
    BY <2>1, <1>6, Sets DEF Core, Graves
  <2>2. ASSUME NEW p \in cr, pd[p] = 0 PROVE s[p] \in Dead
    BY <2>2, <1>3, <1>7 DEF Core, Graves
  <2> QED
    BY <2>1, <2>2 DEF Graves
<1> QED
  BY <1>5, <1>8, <1>9, <1>10, <1>11 DEF Core, b, s

(* The caller, which nobody waits for any more, ends with status e. *)
LEMMA EndInv ==
  ASSUME NEW r, NEW bq, NEW st, NEW pd, NEW cr \in SUBSET Pcb, NEW c \in Pcb \ {Shell},
         Core(r, bq, st, pd, cr, c), Running(st, pd, c), bq[c] = <<>>, NEW e \in Dead
  PROVE  Core(r, bq, [st EXCEPT ![c] = e], [pd EXCEPT ![c] = 0], cr, c)
<1> DEFINE s == [st EXCEPT ![c] = e]
           d == [pd EXCEPT ![c] = 0]
<1>1. /\ r \in Seq(Pcb) /\ IsInjective(r) /\ bq \in [Heads -> Seq(Pcb)]
      /\ \A h \in Heads : IsInjective(bq[h]) /\ ToSet(bq[h]) \cap ToSet(r) = {}
      /\ \A g, h \in Heads : g # h => ToSet(bq[g]) \cap ToSet(bq[h]) = {}
  BY DEF Core, Linked
<1>2. /\ st \in [Pcb -> Statuses] /\ pd \in [Pcb -> 0..NUM_MAX_TASK]
      /\ \A p \in ToSet(r) : pd[p] # 0 /\ (st[p] = "TASK_READY" \/ (p = Shell /\ c = Shell))
      /\ \A h \in Heads : \A p \in ToSet(bq[h]) :
           pd[p] # 0 /\ st[p] = "TASK_BLOCKED" /\ p # Shell
      /\ \A p \in Pcb : pd[p] # 0 =>
           \/ st[p] = "TASK_READY" /\ p \in ToSet(r)
           \/ st[p] = "TASK_BLOCKED" /\ \E h \in Heads : p \in ToSet(bq[h])
           \/ st[p] = "TASK_RUNNING" /\ p = c
  BY DEF Core, Placed
<1>3. pd[c] # 0 /\ st[c] = "TASK_RUNNING"
  BY DEF Running
<1>4. c \notin ToSet(r) /\ \A k \in Heads : c \notin ToSet(bq[k])
  BY <1>2, <1>3
<1>5. s \in [Pcb -> Statuses] /\ \A p \in Pcb : s[p] = IF p = c THEN e ELSE st[p]
  BY <1>2 DEF Statuses
<1>6. d \in [Pcb -> 0..NUM_MAX_TASK] /\ \A p \in Pcb : d[p] = IF p = c THEN 0 ELSE pd[p]
  BY <1>2, SchedAssumption DEF SchedAssumption
<1> HIDE DEF s, d
<1>7. Placed(r, bq, s, d, c)
  <2>1. ASSUME NEW p \in ToSet(r)
        PROVE  d[p] # 0 /\ (s[p] = "TASK_READY" \/ (p = Shell /\ c = Shell))
    <3>1. p \in Pcb
      BY <1>1 DEF ToSet
    <3> QED
      BY <3>1, <1>2, <1>4, <1>5, <1>6
  <2>2. ASSUME NEW h \in Heads, NEW p \in ToSet(bq[h])
        PROVE  d[p] # 0 /\ s[p] = "TASK_BLOCKED" /\ p # Shell
    <3>1. p \in Pcb
      BY <1>1 DEF ToSet
    <3> QED
      BY <3>1, <1>2, <1>4, <1>5, <1>6
  <2>3. ASSUME NEW p \in Pcb, d[p] # 0
        PROVE  \/ s[p] = "TASK_READY" /\ p \in ToSet(r)
               \/ s[p] = "TASK_BLOCKED" /\ \E h \in Heads : p \in ToSet(bq[h])
               \/ s[p] = "TASK_RUNNING" /\ p = c
    BY <2>3, <1>2, <1>5, <1>6
  <2> QED
    BY <2>1, <2>2, <2>3, <1>5, <1>6 DEF Placed
<1>8. HomeShell(r, d, c)
  BY <1>6, Sets DEF Core, HomeShell
<1>9. Graves(bq, s, d, cr)
  BY <1>5, <1>6 DEF Core, Graves
<1> QED
  BY <1>7, <1>8, <1>9 DEF Core, s, d

(* A task begins in the free slot i. *)
LEMMA BirthInv ==
  ASSUME NEW r, NEW bq, NEW st, NEW pd, NEW cr \in SUBSET Pcb, NEW c \in Pcb,
         Core(r, bq, st, pd, cr, c), Running(st, pd, c),
         NEW i \in Pcb \ {Shell}, pd[i] = 0,
         c = Shell /\ Shell \in ToSet(r) => r[1] = Shell
  PROVE  /\ [bq EXCEPT ![i] = <<>>] = bq
         /\ Core(Link(r, i), bq, [st EXCEPT ![i] = "TASK_READY"], [pd EXCEPT ![i] = i + 1],
                 cr \cup {i}, c)
         /\ Running([st EXCEPT ![i] = "TASK_READY"], [pd EXCEPT ![i] = i + 1], c)
<1> DEFINE s == [st EXCEPT ![i] = "TASK_READY"]
           d == [pd EXCEPT ![i] = i + 1]
           q == Link(r, i)
<1>1. /\ r \in Seq(Pcb) /\ IsInjective(r) /\ bq \in [Heads -> Seq(Pcb)]
      /\ \A h \in Heads : IsInjective(bq[h]) /\ ToSet(bq[h]) \cap ToSet(r) = {}
      /\ \A g, h \in Heads : g # h => ToSet(bq[g]) \cap ToSet(bq[h]) = {}
  BY DEF Core, Linked
<1>2. /\ st \in [Pcb -> Statuses] /\ pd \in [Pcb -> 0..NUM_MAX_TASK]
      /\ \A p \in ToSet(r) : pd[p] # 0 /\ (st[p] = "TASK_READY" \/ (p = Shell /\ c = Shell))
      /\ \A h \in Heads : \A p \in ToSet(bq[h]) :
           pd[p] # 0 /\ st[p] = "TASK_BLOCKED" /\ p # Shell
      /\ \A p \in Pcb : pd[p] # 0 =>
           \/ st[p] = "TASK_READY" /\ p \in ToSet(r)
           \/ st[p] = "TASK_BLOCKED" /\ \E h \in Heads : p \in ToSet(bq[h])
           \/ st[p] = "TASK_RUNNING" /\ p = c
  BY DEF Core, Placed
<1>3. pd[c] # 0 /\ st[c] = "TASK_RUNNING" /\ c # i
  BY DEF Running
<1>4. i \notin ToSet(r) /\ \A k \in Heads : i \notin ToSet(bq[k])
  BY <1>2
<1>5. /\ q \in Seq(Pcb) /\ IsInjective(q) /\ ToSet(q) = ToSet(r) \cup {i}
      /\ r # <<>> => q[1] = r[1]
  <2>1. q = Append(r, i)
    BY <1>1, <1>4, LinkNew
  <2> QED
    BY <2>1, <1>1, <1>4, AppendQueue
<1>6. s \in [Pcb -> Statuses] /\ \A p \in Pcb : s[p] = IF p = i THEN "TASK_READY" ELSE st[p]
  BY <1>2 DEF Statuses
<1>7. d \in [Pcb -> 0..NUM_MAX_TASK] /\ d[i] # 0 /\ \A p \in Pcb : p # i => d[p] = pd[p]
  <2>1. i + 1 \in 0..NUM_MAX_TASK /\ i + 1 # 0
    BY SchedAssumption DEF SchedAssumption, Pcb
  <2> QED
    BY <2>1, <1>2
<1>8. [bq EXCEPT ![i] = <<>>] = bq
  <2>1. bq[i] = <<>> /\ i \in Heads
    BY Sets DEF Core, Graves
  <2> QED
    BY <2>1, <1>1
<1> HIDE DEF s, d, q
<1>9. Linked(q, bq)
  BY <1>1, <1>4, <1>5 DEF Linked
<1>10. Placed(q, bq, s, d, c)
  <2>1. ASSUME NEW p \in ToSet(q)
        PROVE  d[p] # 0 /\ (s[p] = "TASK_READY" \/ (p = Shell /\ c = Shell))
    <3>1. p \in Pcb
      BY <1>5 DEF ToSet
    <3> QED
      BY <3>1, <1>2, <1>4, <1>5, <1>6, <1>7
  <2>2. ASSUME NEW h \in Heads, NEW p \in ToSet(bq[h])
        PROVE  d[p] # 0 /\ s[p] = "TASK_BLOCKED" /\ p # Shell
    <3>1. p \in Pcb /\ p # i
      BY <1>1, <1>4 DEF ToSet
    <3> QED
      BY <3>1, <1>2, <1>6, <1>7
  <2>3. ASSUME NEW p \in Pcb, d[p] # 0
        PROVE  \/ s[p] = "TASK_READY" /\ p \in ToSet(q)
               \/ s[p] = "TASK_BLOCKED" /\ \E h \in Heads : p \in ToSet(bq[h])
               \/ s[p] = "TASK_RUNNING" /\ p = c
    BY <2>3, <1>2, <1>5, <1>6, <1>7
  <2> QED
    BY <2>1, <2>2, <2>3, <1>6, <1>7 DEF Placed
<1>11. HomeShell(q, d, c)
  <2>1. pd[Shell] # 0 /\ (c # Shell => Shell \in ToSet(r))
    BY DEF Core, HomeShell
  <2>2. d[Shell] # 0 /\ (c # Shell => Shell \in ToSet(q))
    BY <2>1, <1>5, <1>7, Sets
  <2>3. c = Shell /\ Shell \in ToSet(q) => q[1] = Shell
    <3> SUFFICES ASSUME c = Shell, Shell \in ToSet(q) PROVE q[1] = Shell
      OBVIOUS
    <3>1. Shell \in ToSet(r)
      BY <1>5
    <3>2. r # <<>>
      BY <3>1, <1>1, EmptyQueue
    <3> QED
      BY <3>1, <3>2, <1>5
  <2> QED
    BY <2>2, <2>3 DEF HomeShell
<1>12. Graves(bq, s, d, cr \cup {i})
  BY <1>6, <1>7 DEF Core, Graves
<1>13. Running(s, d, c)
  BY <1>3, <1>6, <1>7 DEF Running
<1> QED
  BY <1>8, <1>9, <1>10, <1>11, <1>12, <1>13 DEF Core, s, d, q

-----------------------------------------------------------------------------
(* A lock is LOCKED exactly while a task owns it, and that task is live and *)
(* the only owner; the locks[] of a task are locks it owns; and only a      *)
(* LOCKED lock has waiters.                                                *)
Locking(bq, pd, lk, ls, own) ==
  /\ lk \in [Pcb -> Seq(Lock)]
  /\ ls \in [Lock -> {"LOCKED", "UNLOCKED"}]
  /\ own \in [Pcb -> SUBSET Lock]
  /\ \A p \in Pcb : /\ IsInjective(lk[p]) /\ ToSet(lk[p]) \subseteq own[p]
                    /\ own[p] # {} => pd[p] # 0
  /\ \A p, q \in Pcb : p # q => own[p] \cap own[q] = {}
  /\ \A l \in Lock : /\ ls[l] = "LOCKED" <=> \E p \in Pcb : l \in own[p]
                     /\ bq[l] # <<>> => ls[l] = "LOCKED"

(* The inductive invariant. *)
Inv ==
  /\ current_running \in Pcb \cup {Pid0}
  /\ Core(ready_queue, block_queue, status, pid, created, current_running)
  /\ Running(status, pid, current_running)
  /\ mode \in [Pcb -> spawn_mode_t]
  /\ created \in SUBSET (Pcb \ {Shell})
  /\ Locking(block_queue, pid, locks, lock_status, owns)

(* A release of the running task, or its end, hands each lock of L over. *)
LEMMA HandOverInv ==
  ASSUME Inv, current_running \in Pcb, NEW L \in SUBSET owns[current_running],
         locks[current_running] # <<>> => L = {Head(locks[current_running])},
         HandOver(L, [owns EXCEPT ![current_running] = @ \ L]),
         NEW b, \A l \in Lock : b[l] = Advanced(L)[l],
         NEW d, \A p \in Pcb \ {current_running} : d[p] = pid[p],
         d[current_running] # 0 \/ L = owns[current_running]
  PROVE  Locking(b, d, Forget(current_running), lock_status', owns')
<1> DEFINE c == current_running
           k == Forget(c)
<1>1. /\ locks \in [Pcb -> Seq(Lock)]
      /\ lock_status \in [Lock -> {"LOCKED", "UNLOCKED"}]
      /\ owns \in [Pcb -> SUBSET Lock]
      /\ \A p \in Pcb : /\ IsInjective(locks[p]) /\ ToSet(locks[p]) \subseteq owns[p]
                        /\ owns[p] # {} => pid[p] # 0
      /\ \A p, q \in Pcb : p # q => owns[p] \cap owns[q] = {}
      /\ \A l \in Lock : /\ lock_status[l] = "LOCKED" <=> \E p \in Pcb : l \in owns[p]
                         /\ block_queue[l] # <<>> => lock_status[l] = "LOCKED"
  BY DEF Inv, Locking
<1>2. c \in Pcb /\ status[c] = "TASK_RUNNING" /\ L \subseteq owns[c] /\ L \subseteq Lock
  BY <1>1 DEF Inv, Running
<1>3. \A l \in Lock : block_queue[l] # <<>> =>
        /\ Head(block_queue[l]) \in Pcb /\ Head(block_queue[l]) # c
        /\ pid[Head(block_queue[l])] # 0
  <2> SUFFICES ASSUME NEW l \in Lock, block_queue[l] # <<>>
               PROVE  /\ Head(block_queue[l]) \in Pcb /\ Head(block_queue[l]) # c
                      /\ pid[Head(block_queue[l])] # 0
    OBVIOUS
  <2>1. l \in Heads /\ block_queue[l] \in Seq(Pcb) /\ IsInjective(block_queue[l])
    BY Sets DEF Inv, Core, Linked
  <2>2. Head(block_queue[l]) \in Pcb /\ Head(block_queue[l]) \in ToSet(block_queue[l])
    BY <2>1, TailQueue
  <2>3. pid[Head(block_queue[l])] # 0 /\ status[Head(block_queue[l])] = "TASK_BLOCKED"
    BY <2>1, <2>2 DEF Inv, Core, Placed
  <2> QED
    BY <2>2, <2>3, <1>2
<1>4. /\ k \in [Pcb -> Seq(Lock)]
      /\ \A p \in Pcb \ {c} : k[p] = locks[p]
      /\ IsInjective(k[c]) /\ ToSet(k[c]) \subseteq owns[c] \ L
  <2>1. CASE locks[c] = <<>>
    <3>1. k = [locks EXCEPT ![c] = <<>>]
      BY <2>1 DEF Forget
    <3>2. <<>> \in Seq(Lock) /\ IsInjective(<<>>) /\ ToSet(<<>>) = {}
      BY DEF ToSet, IsInjective
    <3> HIDE DEF k
    <3> QED
      BY <3>1, <3>2, <1>1, <1>2
  <2>2. CASE locks[c] # <<>>
    <3>1. k = [locks EXCEPT ![c] = Tail(locks[c])]
      BY <2>2 DEF Forget
    <3>2. locks[c] \in Seq(Lock) /\ IsInjective(locks[c])
      BY <1>1, <1>2
    <3>3. /\ Tail(locks[c]) \in Seq(Lock) /\ IsInjective(Tail(locks[c]))
          /\ ToSet(Tail(locks[c])) = ToSet(locks[c]) \ L
      BY <2>2, <3>2, TailQueue
    <3> HIDE DEF k
    <3> QED
      BY <3>1, <3>3, <1>1, <1>2
  <2> QED
    BY <2>1, <2>2
<1>5. \A l \in L, t \in Pcb : First(l) = <<t>> <=> block_queue[l] # <<>> /\ t = Head(block_queue[l])
  BY DEF First
<1>6. /\ lock_status' = [l \in Lock |-> IF l \in L /\ block_queue[l] = <<>>
                                         THEN "UNLOCKED" ELSE lock_status[l]]
      /\ owns' = [t \in Pcb |-> (IF t = c THEN owns[t] \ L ELSE owns[t])
                                  \cup {l \in L : First(l) = <<t>>}]
  BY <1>1, <1>2 DEF HandOver
<1>7. \A l \in Lock : b[l] = IF l \in L /\ block_queue[l] # <<>>
                             THEN Tail(block_queue[l]) ELSE block_queue[l]
  BY Sets DEF Advanced
<1> HIDE DEF c, k
<1>8. \A l \in Lock, t \in Pcb :
        l \in owns'[t] <=> IF l \in L THEN block_queue[l] # <<>> /\ t = Head(block_queue[l])
                                      ELSE l \in owns[t]
  BY <1>1, <1>2, <1>5, <1>6
<1>9. owns' \in [Pcb -> SUBSET Lock] /\ lock_status' \in [Lock -> {"LOCKED", "UNLOCKED"}]
  BY <1>1, <1>2, <1>6
<1>10. ASSUME NEW p \in Pcb
       PROVE  /\ IsInjective(k[p]) /\ ToSet(k[p]) \subseteq owns'[p]
              /\ owns'[p] # {} => d[p] # 0
  <2>1. CASE p = c
    <3>1. owns'[p] = owns[p] \ L
      BY <2>1, <1>1, <1>2, <1>3, <1>8, <1>9
    <3>2. owns'[p] # {} => d[p] # 0
      BY <2>1, <3>1 DEF c
    <3> QED
      BY <2>1, <3>1, <3>2, <1>4
  <2>2. CASE p # c
    <3>1. d[p] = pid[p] /\ k[p] = locks[p]
      BY <2>2, <1>4 DEF c
    <3>2. owns[p] \subseteq owns'[p]
      BY <2>2, <1>1, <1>2, <1>6
    <3>3. ASSUME NEW l \in owns'[p] PROVE pid[p] # 0
      <4>1. l \in Lock
        BY <3>3, <1>9
      <4>2. CASE l \in L
        <5>1. block_queue[l] # <<>> /\ p = Head(block_queue[l])
          BY <4>1, <4>2, <3>3, <1>8
        <5> QED
          BY <5>1, <4>1, <1>3
      <4>3. CASE l \notin L
        <5>1. l \in owns[p]
          BY <4>1, <4>3, <3>3, <1>8
        <5> QED
          BY <5>1, <1>1
      <4> QED
        BY <4>2, <4>3
    <3> QED
      BY <3>1, <3>2, <3>3, <1>1
  <2> QED
    BY <2>1, <2>2
<1>11. \A p, q \in Pcb : p # q => owns'[p] \cap owns'[q] = {}
  <2> SUFFICES ASSUME NEW p \in Pcb, NEW q \in Pcb, NEW l \in owns'[p], l \in owns'[q]
               PROVE  p = q
    OBVIOUS
  <2>1. l \in Lock
    BY <1>9
  <2>2. l \in L => p = Head(block_queue[l]) /\ q = Head(block_queue[l])
    BY <2>1, <1>8
  <2>3. l \notin L => l \in owns[p] /\ l \in owns[q]
    BY <2>1, <1>8
  <2> QED
    BY <2>2, <2>3, <1>1
<1>12. ASSUME NEW l \in Lock
       PROVE  /\ lock_status'[l] = "LOCKED" <=> \E p \in Pcb : l \in owns'[p]
              /\ b[l] # <<>> => lock_status'[l] = "LOCKED"
  <2>1. CASE l \in L /\ block_queue[l] = <<>>
    BY <2>1, <1>6, <1>7, <1>8
  <2>2. CASE l \in L /\ block_queue[l] # <<>>
    BY <2>2, <1>1, <1>3, <1>6, <1>8
  <2>3. CASE l \notin L
    BY <2>3, <1>1, <1>6, <1>7, <1>8
  <2> QED
    BY <2>1, <2>2, <2>3
<1> QED
  BY <1>4, <1>9, <1>10, <1>11, <1>12 DEF Locking, c, k

-----------------------------------------------------------------------------
(* The first task of a queue leaves it, in the variables of Sched. *)
LEMMA FirstOut ==
  ASSUME Linked(ready_queue, block_queue), NEW h \in Heads
  PROVE  Leaves(First(h), block_queue, Advanced({h}))
<1> DEFINE w == IF h \in {h} /\ block_queue[h] # <<>> THEN <<Head(block_queue[h])>> ELSE <<>>
           b == [block_queue EXCEPT ![h] = IF h \in {h} /\ block_queue[h] # <<>>
                                             THEN Tail(block_queue[h]) ELSE block_queue[h]]
<1>1. Leaves(w, block_queue, b)
  BY HeadOut
<1>2. w = First(h)
  BY DEF First
<1>3. b = Advanced({h})
  BY DEF Advanced, Linked
<1> QED
  BY <1>1, <1>2, <1>3

(* A task that runs is in no list of sleepers, so it does not leave one. *)
LEMMA RunnerStays ==
  ASSUME Inv, current_running \in Pcb, NEW w, NEW b, Leaves(w, block_queue, b)
  PROVE  Running(Awake(status, ToSet(w)), pid, current_running)
<1>1. current_running \notin ToSet(w)
  BY DEF Inv, Core, Placed, Running, Leaves
<1> QED
  BY <1>1 DEF Inv, Running, Awake

(* do_block by a task other than the shell, in a list somebody will empty. *)
LEMMA DoBlockInv ==
  ASSUME Inv, Task, NEW h \in Heads, h \in Pcb => pid[h] # 0,
         h \in Lock => lock_status[h] = "LOCKED",
         do_block(h), UNCHANGED mutexVars
  PROVE  Inv'
<1> DEFINE c == current_running
           b == [block_queue EXCEPT ![h] = Link(@, c)]
           s == [status EXCEPT ![c] = "TASK_BLOCKED"]
<1>1. c \in Pcb \ {Shell}
  BY DEF Inv, Task, Caller
<1>2. Core(ready_queue, b, s, pid, created, c)
  BY <1>1, BlockInv DEF Inv
<1>3. do_scheduler(ready_queue, s, pid) /\ block_queue' = b
      /\ UNCHANGED <<pid, mode, locks, created, lock_status, owns>>
  BY DEF do_block, mutexVars
<1>4. \A l \in Lock : l # h => b[l] = block_queue[l]
  BY Sets DEF Inv, Core, Linked
<1> HIDE DEF b, s
<1>5. /\ Core(ready_queue', b, status', pid, created, current_running')
      /\ current_running' \in Pcb /\ Running(status', pid, current_running')
  BY <1>1, <1>2, <1>3, DispatchInv DEF Inv
<1>6. Locking(b, pid, locks, lock_status, owns)
  BY <1>4 DEF Inv, Locking
<1> QED
  BY <1>3, <1>5, <1>6 DEF Inv

(* NewTask in a free slot, when the shell is where it may be overtaken. *)
LEMMA NewTaskInv ==
  ASSUME Inv, current_running \in Pcb, NEW i \in find_freepcb, NEW m \in spawn_mode_t,
         current_running = Shell /\ Shell \in ToSet(ready_queue) => ready_queue[1] = Shell,
         NewTask(i, m), UNCHANGED mutexVars
  PROVE  Inv'
<1> DEFINE c == current_running
<1>1. i \in Pcb \ {Shell} /\ pid[i] = 0
  BY DEF find_freepcb, Free
<1>2. /\ [block_queue EXCEPT ![i] = <<>>] = block_queue
      /\ Core(Link(ready_queue, i), block_queue, [status EXCEPT ![i] = "TASK_READY"],
              [pid EXCEPT ![i] = i + 1], created \cup {i}, c)
      /\ Running([status EXCEPT ![i] = "TASK_READY"], [pid EXCEPT ![i] = i + 1], c)
  BY <1>1, BirthInv DEF Inv
<1>3. /\ ready_queue' = Link(ready_queue, i) /\ block_queue' = block_queue
      /\ status' = [status EXCEPT ![i] = "TASK_READY"]
      /\ pid' = [pid EXCEPT ![i] = i + 1]
      /\ mode' = [mode EXCEPT ![i] = m]
      /\ locks' = [locks EXCEPT ![i] = <<>>]
      /\ created' = created \cup {i}
      /\ UNCHANGED <<current_running, lock_status, owns>>
  BY <1>2 DEF NewTask, mutexVars
<1>4. mode' \in [Pcb -> spawn_mode_t] /\ created' \in SUBSET (Pcb \ {Shell})
  BY <1>1, <1>3 DEF Inv
<1>5. Locking(block_queue, pid', locks', lock_status, owns)
  <2>1. /\ locks \in [Pcb -> Seq(Lock)]
        /\ pid \in [Pcb -> 0..NUM_MAX_TASK]
        /\ \A p \in Pcb : /\ IsInjective(locks[p]) /\ ToSet(locks[p]) \subseteq owns[p]
                          /\ owns[p] # {} => pid[p] # 0
    BY DEF Inv, Locking, Core, Placed
  <2>2. <<>> \in Seq(Lock) /\ IsInjective(<<>>) /\ ToSet(<<>>) = {}
    BY DEF ToSet, IsInjective
  <2>3. locks' \in [Pcb -> Seq(Lock)]
    BY <1>3, <2>1, <2>2
  <2>4. ASSUME NEW p \in Pcb
        PROVE  /\ IsInjective(locks'[p]) /\ ToSet(locks'[p]) \subseteq owns[p]
               /\ owns[p] # {} => pid'[p] # 0
    <3>1. CASE p = i
      <4>1. locks'[p] = <<>> /\ owns[p] = {}
        BY <3>1, <1>1, <1>3, <2>1
      <4> QED
        BY <4>1, <2>2
    <3>2. CASE p # i
      BY <3>2, <1>3, <2>1
    <3> QED
      BY <3>1, <3>2
  <2> QED
    BY <2>3, <2>4 DEF Inv, Locking
<1> QED
  BY <1>2, <1>3, <1>4, <1>5 DEF Inv

-----------------------------------------------------------------------------
(* init_shell leaves one ready task, and every list empty. *)
LEMMA InitInv == Init => Inv
<1> SUFFICES ASSUME Init PROVE Inv
  OBVIOUS
<1> USE DEF Init, SchedInit, MutexInit
<1>1. /\ ready_queue \in Seq(Pcb) /\ IsInjective(ready_queue) /\ ToSet(ready_queue) = {Shell}
      /\ ready_queue[1] = Shell
      /\ <<>> \in Seq(Pcb) /\ IsInjective(<<>>) /\ ToSet(<<>>) = {}
  BY Sets, ShortQueues
<1>2. Linked(ready_queue, block_queue)
  BY <1>1 DEF Linked
<1>3. 0 \in 0..NUM_MAX_TASK /\ 1 \in 0..NUM_MAX_TASK
  BY SchedAssumption DEF SchedAssumption
<1>4. Placed(ready_queue, block_queue, status, pid, current_running)
  BY <1>1, <1>3, Sets DEF Placed, Statuses
<1>5. HomeShell(ready_queue, pid, current_running)
  BY <1>1, Sets DEF HomeShell
<1>6. Graves(block_queue, status, pid, created)
  BY Sets DEF Graves
<1>7. Running(status, pid, current_running)
  BY Sets DEF Running
<1>8. <<>> \in Seq(Lock) /\ IsInjective(<<>>) /\ ToSet(<<>>) = {}
  BY DEF ToSet, IsInjective
<1>9. Locking(block_queue, pid, locks, lock_status, owns)
  BY <1>8, Sets DEF Locking
<1>10. mode \in [Pcb -> spawn_mode_t]
  BY DEF spawn_mode_t
<1> QED
  BY <1>2, <1>4, <1>5, <1>6, <1>7, <1>9, <1>10 DEF Inv, Core

(* A shell that may be overtaken stands first: what "paced" is for. *)
LEMMA PacedShell ==
  ASSUME Inv, Disciplined, Paced, current_running = Shell, Shell \in ToSet(ready_queue)
  PROVE  ready_queue[1] = Shell
<1>1. ready_queue \in Seq(Pcb) /\ ready_queue # <<>>
  BY EmptyQueue DEF Inv, Core, Linked
<1> QED
  BY <1>1 DEF Paced, Disciplined

(* What a handler passes to do_scheduler: it has made the tasks of u ready, *)
(* its lists are now b, and s and d are its statuses and pids.             *)
Dispatched(u, b, s, d) ==
  /\ u \in Seq(Pcb)
  /\ Core(ready_queue \o u, b, s, d, created, current_running)
  /\ current_running = Shell => s[current_running] = "TASK_RUNNING"
  /\ do_scheduler(ready_queue \o u, s, d)

(* The scheduler then leaves the invariant of the lists in order. *)
LEMMA DispatchedInv ==
  ASSUME Inv, NEW u, NEW b, NEW s, NEW d, Dispatched(u, b, s, d)
  PROVE  /\ Core(ready_queue', b, status', d, created, current_running')
         /\ current_running' \in Pcb /\ Running(status', d, current_running')
BY DispatchInv DEF Dispatched, Inv

(* TimerTick: the receiver and the sender wake, then do_scheduler. *)
LEMMA TickParts ==
  ASSUME Inv, Disciplined, TimerTick
  PROVE  /\ \E u, s : Dispatched(u, block_queue', s, pid)
         /\ \A h \in Heads \ Net : block_queue'[h] = block_queue[h]
         /\ UNCHANGED <<pid, mode, locks, created, lock_status, owns>>
<1>1. PICK W \in SUBSET Net :
        /\ (\E q \in W : block_queue[q] # <<>>) => Paced
        /\ reset_irq_timer(W)
        /\ UNCHANGED mutexVars
  BY DEF TimerTick
<1> DEFINE c == current_running
           v == Arrived(W, net_recv_queue)
           w == Arrived(W, net_send_queue)
           b == [block_queue EXCEPT ![net_recv_queue] =
                   IF net_recv_queue \in W /\ block_queue[net_recv_queue] # <<>>
                     THEN Tail(block_queue[net_recv_queue]) ELSE block_queue[net_recv_queue]]
           b2 == [b EXCEPT ![net_send_queue] =
                   IF net_send_queue \in W /\ b[net_send_queue] # <<>>
                     THEN Tail(b[net_send_queue]) ELSE b[net_send_queue]]
<1>2. block_queue \in [Heads -> Seq(Pcb)] /\ Linked(ready_queue, block_queue)
  BY DEF Inv, Core, Linked
<1>3. /\ net_recv_queue \in Heads /\ net_send_queue \in Heads
      /\ net_recv_queue # net_send_queue /\ W \subseteq {net_recv_queue, net_send_queue}
  BY Sets DEF Net
<1>4. Leaves(v, block_queue, b)
  <2>1. v = IF net_recv_queue \in W /\ block_queue[net_recv_queue] # <<>>
              THEN <<Head(block_queue[net_recv_queue])>> ELSE <<>>
    BY DEF Arrived, First
  <2> HIDE DEF v
  <2> QED
    BY <2>1, <1>2, <1>3, HeadOut
<1>5. Linked(ready_queue, b)
  BY <1>2, <1>4, LeavesLinked
<1>6. Leaves(w, b, b2)
  <2>1. b[net_send_queue] = block_queue[net_send_queue]
    BY <1>2, <1>3
  <2>2. w = IF net_send_queue \in W /\ b[net_send_queue] # <<>>
              THEN <<Head(b[net_send_queue])>> ELSE <<>>
    BY <2>1 DEF Arrived, First
  <2> HIDE DEF w, b
  <2> QED
    BY <2>2, <1>3, <1>5, HeadOut
<1>7. b2 = Advanced(W)
  BY <1>2, <1>3 DEF Advanced
<1>8. v \o w # <<>> => \E q \in W : block_queue[q] # <<>>
  BY DEF Arrived, First
<1>9. do_scheduler(ready_queue \o (v \o w), Unblocked(ToSet(v \o w)), pid)
      /\ block_queue' = Advanced(W)
      /\ UNCHANGED <<pid, mode, locks, created, lock_status, owns>>
  BY <1>1 DEF reset_irq_timer, mutexVars
<1> HIDE DEF v, w, b, b2
<1>10. Leaves(v \o w, block_queue, Advanced(W))
  BY <1>4, <1>6, <1>7, LeavesTwice
<1> DEFINE u == v \o w
<1>11. Unblocked(ToSet(u)) = Awake(status, ToSet(u))
  BY DEF Unblocked, Awake
<1>12. u # <<>> /\ c = Shell /\ Shell \in ToSet(ready_queue) => ready_queue[1] = Shell
  BY <1>1, <1>8, PacedShell
<1> HIDE DEF u
<1>13. Core(ready_queue \o u, Advanced(W), Awake(status, ToSet(u)), pid, created, c)
  BY <1>10, <1>12, WakeInv DEF Inv, u
<1>14. c = Shell => Awake(status, ToSet(u))[c] = "TASK_RUNNING"
  BY <1>10, RunnerStays, Sets DEF Running, Inv, Core, HomeShell, u
<1>15. do_scheduler(ready_queue \o u, Awake(status, ToSet(u)), pid)
  BY <1>9, <1>11 DEF u
<1>16. u \in Seq(Pcb)
  BY <1>10 DEF Leaves, u
<1>17. Dispatched(u, block_queue', Awake(status, ToSet(u)), pid)
  BY <1>9, <1>13, <1>14, <1>15, <1>16 DEF Dispatched
<1>18. \A h \in Heads \ Net : block_queue'[h] = block_queue[h]
  BY <1>9 DEF Advanced
<1> QED
  BY <1>9, <1>17, <1>18

(* A tick keeps the invariant. *)
LEMMA TickInv ==
  ASSUME Inv, Disciplined, TimerTick
  PROVE  Inv'
<1>1. PICK u, s : Dispatched(u, block_queue', s, pid)
  BY TickParts
<1>2. /\ Core(ready_queue', block_queue', status', pid, created, current_running')
      /\ current_running' \in Pcb /\ Running(status', pid, current_running')
  BY <1>1, DispatchedInv
<1>3. UNCHANGED <<pid, mode, locks, created, lock_status, owns>>
  BY TickParts
<1>4. Locking(block_queue', pid, locks, lock_status, owns)
  <2>1. \A l \in Lock : block_queue'[l] = block_queue[l]
    BY TickParts, Sets
  <2> QED
    BY <2>1 DEF Inv, Locking
<1> QED
  BY <1>2, <1>3, <1>4 DEF Inv

(* Yield: do_scheduler and nothing else. *)
LEMMA YieldInv ==
  ASSUME Inv, Yield
  PROVE  Inv'
<1>1. do_scheduler(ready_queue, status, pid)
      /\ UNCHANGED <<block_queue, pid, mode, locks, created, lock_status, owns>>
  BY DEF Yield, yield, mutexVars
<1>2. current_running = Shell => status[current_running] = "TASK_RUNNING"
  BY Sets DEF Inv, Running
<1>3. /\ Core(ready_queue', block_queue, status', pid, created, current_running')
      /\ current_running' \in Pcb /\ Running(status', pid, current_running')
  BY <1>1, <1>2, DispatchInv DEF Inv
<1> QED
  BY <1>1, <1>3 DEF Inv

(* Exec, by any task or the shell. *)
LEMMA ExecInv ==
  ASSUME Inv, Disciplined, Exec
  PROVE  Inv'
<1>1. PICK m \in Modes, i \in find_freepcb : Caller /\ Paced /\ NewTask(i, m) /\ UNCHANGED mutexVars
  BY DEF Exec, do_exec
<1>2. m \in spawn_mode_t /\ current_running \in Pcb
  BY <1>1, SchedAssumption DEF SchedAssumption, Caller, Inv
<1>3. current_running = Shell /\ Shell \in ToSet(ready_queue) => ready_queue[1] = Shell
  BY <1>1, PacedShell
<1> QED
  BY <1>1, <1>2, <1>3, NewTaskInv

(* MthreadCreate, by a task: a thread with its mode. *)
LEMMA MthreadCreateInv ==
  ASSUME Inv, MthreadCreate
  PROVE  Inv'
<1>1. PICK i \in find_freepcb : Task /\ NewTask(i, mode[current_running]) /\ UNCHANGED mutexVars
  BY DEF MthreadCreate, do_mthread_create
<1>2. current_running \in Pcb /\ current_running # Shell /\ mode[current_running] \in spawn_mode_t
  BY <1>1 DEF Task, Caller, Inv
<1> QED
  BY <1>1, <1>2, NewTaskInv

(* WaitPid: a target that is not dead is live, so the wait will end. *)
LEMMA WaitPidInv ==
  ASSUME Inv, WaitPid
  PROVE  Inv'
<1>1. PICK p \in created : Task /\ status[p] \notin Dead /\ do_block(p) /\ UNCHANGED mutexVars
  BY DEF WaitPid, do_waitpid
<1>2. p \in Heads /\ p \in Pcb /\ p \notin Lock
  BY Sets DEF Inv
<1>3. pid[p] # 0
  BY <1>1 DEF Inv, Core, Graves
<1> QED
  BY <1>1, <1>2, <1>3, DoBlockInv

(* NetWait *)
LEMMA NetWaitInv ==
  ASSUME Inv, NetWait
  PROVE  Inv'
<1>1. PICK q \in Net : Task /\ do_block(q) /\ UNCHANGED mutexVars
  BY DEF NetWait, net_wait
<1>2. q \in Heads /\ q \notin Pcb /\ q \notin Lock
  BY Sets
<1> QED
  BY <1>1, <1>2, DoBlockInv

(* LockAcquire: the caller sleeps at a locked lock, or takes the lock. *)
LEMMA LockAcquireInv ==
  ASSUME Inv, LockAcquire
  PROVE  Inv'
<1>1. PICK l \in Lock : Task /\ do_mutex_lock_acquire(l)
  BY DEF LockAcquire
<1> DEFINE c == current_running
<1>2. c \in Pcb /\ pid[c] # 0 /\ l \in Heads /\ l \notin Pcb
  BY <1>1, Sets DEF Task, Caller, Running, Inv
<1>3. CASE lock_status[l] = "LOCKED"
  <2>1. do_block(l) /\ UNCHANGED mutexVars
    BY <1>1, <1>3 DEF do_mutex_lock_acquire
  <2> QED
    BY <2>1, <1>1, <1>2, <1>3, DoBlockInv
<1>4. CASE lock_status[l] # "LOCKED"
  <2>1. /\ lock_status' = [lock_status EXCEPT ![l] = "LOCKED"]
        /\ locks' = [locks EXCEPT ![c] = Append(@, l)]
        /\ owns' = [owns EXCEPT ![c] = @ \cup {l}]
        /\ UNCHANGED <<ready_queue, block_queue, status, pid, mode, created, current_running>>
    BY <1>1, <1>4 DEF do_mutex_lock_acquire
  <2>2. /\ locks \in [Pcb -> Seq(Lock)]
        /\ lock_status \in [Lock -> {"LOCKED", "UNLOCKED"}]
        /\ owns \in [Pcb -> SUBSET Lock]
        /\ \A p \in Pcb : /\ IsInjective(locks[p]) /\ ToSet(locks[p]) \subseteq owns[p]
                          /\ owns[p] # {} => pid[p] # 0
        /\ \A p, q \in Pcb : p # q => owns[p] \cap owns[q] = {}
        /\ \A k \in Lock : /\ lock_status[k] = "LOCKED" <=> \E p \in Pcb : k \in owns[p]
                           /\ block_queue[k] # <<>> => lock_status[k] = "LOCKED"
    BY DEF Inv, Locking
  <2>3. \A p \in Pcb : l \notin owns[p]
    BY <2>2, <1>4
  <2>4. /\ Append(locks[c], l) \in Seq(Lock) /\ IsInjective(Append(locks[c], l))
        /\ ToSet(Append(locks[c], l)) = ToSet(locks[c]) \cup {l}
    <3>1. locks[c] \in Seq(Lock) /\ IsInjective(locks[c]) /\ l \notin ToSet(locks[c])
      BY <1>2, <2>2, <2>3
    <3> QED
      BY <3>1, AppendQueue
  <2>5. /\ locks' \in [Pcb -> Seq(Lock)] /\ owns' \in [Pcb -> SUBSET Lock]
        /\ lock_status' \in [Lock -> {"LOCKED", "UNLOCKED"}]
    BY <1>2, <2>1, <2>2, <2>4
  <2>6. \A p \in Pcb : owns'[p] = IF p = c THEN owns[p] \cup {l} ELSE owns[p]
    BY <1>2, <2>1, <2>2
  <2>7. \A p \in Pcb : locks'[p] = IF p = c THEN Append(locks[c], l) ELSE locks[p]
    BY <1>2, <2>1, <2>2
  <2>8. \A k \in Lock : lock_status'[k] = IF k = l THEN "LOCKED" ELSE lock_status[k]
    BY <2>1, <2>2
  <2> HIDE DEF c
  <2>9. ASSUME NEW p \in Pcb
        PROVE  /\ IsInjective(locks'[p]) /\ ToSet(locks'[p]) \subseteq owns'[p]
               /\ owns'[p] # {} => pid[p] # 0
    <3>1. CASE p = c
      <4>1. locks'[p] = Append(locks[c], l) /\ owns'[p] = owns[c] \cup {l}
        BY <3>1, <2>6, <2>7
      <4> QED
        BY <3>1, <4>1, <1>2, <2>2, <2>4
    <3>2. CASE p # c
      BY <3>2, <2>2, <2>6, <2>7
    <3> QED
      BY <3>1, <3>2
  <2>10. \A p, q \in Pcb : p # q => owns'[p] \cap owns'[q] = {}
    BY ZenonT(60), <2>2, <2>3, <2>6
  <2>11. ASSUME NEW k \in Lock
         PROVE  /\ lock_status'[k] = "LOCKED" <=> \E p \in Pcb : k \in owns'[p]
                /\ block_queue[k] # <<>> => lock_status'[k] = "LOCKED"
    <3>1. CASE k = l
      <4>1. k \in owns'[c] /\ lock_status'[k] = "LOCKED"
        BY <3>1, <1>2, <2>6, <2>8
      <4> QED
        BY <4>1, <1>2
    <3>2. CASE k # l
      <4>1. \A p \in Pcb : k \in owns'[p] <=> k \in owns[p]
        BY <3>2, <2>6
      <4>2. lock_status'[k] = lock_status[k]
        BY <3>2, <2>8
      <4> QED
        BY <4>1, <4>2, <2>2
    <3> QED
      BY <3>1, <3>2
  <2>12. Locking(block_queue, pid, locks', lock_status', owns')
    BY <2>5, <2>9, <2>10, <2>11 DEF Locking
  <2> QED
    BY <2>1, <2>12 DEF Inv
<1> QED
  BY <1>3, <1>4

(* LockRelease: in the order of locks[], so that the loop accepts it. *)
LEMMA LockReleaseInv ==
  ASSUME Inv, Disciplined, LockRelease
  PROVE  Inv'
<1>1. PICK l \in Lock : /\ Task /\ l \in owns[current_running]
                        /\ "fifo" \in Discipline => Accepts(current_running, l)
                        /\ do_mutex_lock_release(l)
  BY DEF LockRelease
<1> DEFINE c == current_running
<1>2. /\ c \in Pcb /\ c # Shell /\ l \in Heads /\ l \notin Pcb
      /\ locks \in [Pcb -> Seq(Lock)] /\ owns \in [Pcb -> SUBSET Lock]
  BY <1>1, Sets DEF Task, Caller, Inv, Locking
<1>3. Accepts(c, l)
  BY <1>1 DEF Disciplined
<1>4. /\ HandOver({l}, [owns EXCEPT ![c] = @ \ {l}])
      /\ locks' = Forget(c)
      /\ block_queue' = Advanced({l})
      /\ ready_queue' = ready_queue \o First(l)
      /\ status' = Unblocked(ToSet(First(l)))
      /\ UNCHANGED <<pid, mode, created, current_running>>
  BY <1>1, <1>3 DEF do_mutex_lock_release
<1>5. Leaves(First(l), block_queue, Advanced({l}))
  BY <1>2, FirstOut DEF Inv, Core
<1>6. Unblocked(ToSet(First(l))) = Awake(status, ToSet(First(l)))
  BY DEF Unblocked, Awake
<1>7. Core(ready_queue', block_queue', status', pid, created, c)
  BY <1>2, <1>4, <1>5, <1>6, WakeInv DEF Inv
<1>8. Running(status', pid, c)
  BY <1>2, <1>4, <1>5, <1>6, RunnerStays
<1>9. Locking(block_queue', pid, Forget(c), lock_status', owns')
  <2>1. {l} \in SUBSET owns[c]
    BY <1>1
  <2>2. locks[c] # <<>> => {l} = {Head(locks[c])}
    BY <1>3 DEF Accepts
  <2>3. pid[c] # 0
    BY <1>2 DEF Inv, Running
  <2> QED
    BY <2>1, <2>2, <2>3, <1>2, <1>4, HandOverInv
<1> QED
  BY <1>4, <1>7, <1>8, <1>9 DEF Inv

(* Exit, with at most one lock: it is released, and every waiter wakes. *)
LEMMA ExitParts ==
  ASSUME Inv, Disciplined, Exit
  PROVE  /\ current_running \in Pcb
         /\ \E u, s : Dispatched(u, block_queue', s, pid')
         /\ pid' = [pid EXCEPT ![current_running] = 0]
         /\ block_queue' = [Advanced(owns[current_running]) EXCEPT ![current_running] = <<>>]
         /\ locks' = Forget(current_running)
         /\ locks[current_running] # <<>> =>
              owns[current_running] = {Head(locks[current_running])}
         /\ HandOver(owns[current_running],
                     [owns EXCEPT ![current_running] = @ \ owns[current_running]])
         /\ owns[current_running] \subseteq Lock
         /\ \A l \in owns[current_running] : owns[current_running] = {l}
         /\ UNCHANGED <<mode, created>>
<1> DEFINE c     == current_running
           L     == IF locks[c] = <<>> THEN {} ELSE {Head(locks[c])}
           heirs == IF locks[c] = <<>> THEN <<>> ELSE First(Head(locks[c]))
           woken == Woken(c) \o heirs
           b     == [block_queue EXCEPT ![c] = <<>>]
           e     == IF mode[c] = "ENTER_ZOMBIE_ON_EXIT" THEN "TASK_ZOMBIE" ELSE "TASK_EXITED"
           s     == Awake(status, ToSet(woken))
<1>1. /\ Task
      /\ \A l \in owns[c] : locks[c] # <<>> /\ Head(locks[c]) = l
      /\ do_exit
  BY DEF Exit, Disciplined
<1>2. /\ Recycle(c, L)
      /\ locks' = Forget(c)
      /\ do_scheduler(ready_queue \o woken, Ended(c, ToSet(woken)), pid')
  BY <1>1 DEF do_exit
<1>3. /\ pid' = [pid EXCEPT ![c] = 0]
      /\ block_queue' = [Advanced(L) EXCEPT ![c] = <<>>]
      /\ HandOver(L, [owns EXCEPT ![c] = {}])
      /\ UNCHANGED <<mode, created>>
  BY <1>2 DEF Recycle
<1>4. /\ c \in Pcb \ {Shell} /\ c \in Heads /\ pid[c] # 0
      /\ locks[c] \in Seq(Lock) /\ ToSet(locks[c]) \subseteq owns[c]
      /\ owns \in [Pcb -> SUBSET Lock] /\ pid \in [Pcb -> 0..NUM_MAX_TASK]
  BY <1>1, Sets DEF Task, Caller, Running, Inv, Locking, Core, Placed
<1>5. locks[c] # <<>> => /\ Head(locks[c]) \in Lock /\ Head(locks[c]) \in Heads
                        /\ Head(locks[c]) \in owns[c] /\ Head(locks[c]) # c
  <2> SUFFICES ASSUME locks[c] # <<>>
               PROVE  Head(locks[c]) \in Lock /\ Head(locks[c]) \in ToSet(locks[c])
    BY <1>4, Sets
  <2>1. IsInjective(locks[c])
    BY <1>4 DEF Inv, Locking
  <2> QED
    BY <2>1, <1>4, TailQueue
<1>6. L = owns[c]
  BY <1>1, <1>5
<1>7. block_queue \in [Heads -> Seq(Pcb)] /\ Linked(ready_queue, block_queue)
  BY DEF Inv, Core, Linked
<1>8. Woken(c) = block_queue[c]
  <2>1. \A t \in ToSet(block_queue[c]) : status[t] = "TASK_BLOCKED"
    BY <1>4 DEF Inv, Core, Placed
  <2> QED
    BY <2>1 DEF Woken
<1>9. Leaves(Woken(c), block_queue, b) /\ Linked(ready_queue, b)
  BY <1>4, <1>7, <1>8, AllOut, LeavesLinked
<1>10. Leaves(woken, block_queue, [Advanced(L) EXCEPT ![c] = <<>>])
  <2>1. CASE locks[c] = <<>>
    <3>1. Advanced(L) = block_queue
      BY <2>1, <1>7 DEF Advanced
    <3>2. Woken(c) \o <<>> = Woken(c)
      BY <1>4, <1>7, <1>8
    <3> QED
      BY <3>1, <3>2, <2>1, <1>9
  <2>2. CASE locks[c] # <<>>
    <3> DEFINE l == Head(locks[c])
               w == IF l \in L /\ b[l] # <<>> THEN <<Head(b[l])>> ELSE <<>>
               b2 == [b EXCEPT ![l] = IF l \in L /\ b[l] # <<>> THEN Tail(b[l]) ELSE b[l]]
    <3>1. L = {l} /\ l \in Heads /\ l # c /\ heirs = First(l)
      BY <2>2, <1>5
    <3>2. b[l] = block_queue[l]
      BY <3>1, <1>7
    <3>3. Leaves(w, b, b2)
      <4> HIDE DEF l, b
      <4> QED
        BY <3>1, <1>9, HeadOut
    <3>4. w = heirs
      BY <3>1, <3>2 DEF First
    <3>5. b2 = [Advanced(L) EXCEPT ![c] = <<>>]
      <4> HIDE DEF l, L
      <4>1. b2 = [h \in Heads |-> IF h = c THEN <<>>
                                  ELSE IF h = l /\ block_queue[l] # <<>> THEN Tail(block_queue[l])
                                  ELSE block_queue[h]]
        <5> DEFINE q == IF block_queue[l] # <<>> THEN Tail(block_queue[l]) ELSE block_queue[l]
        <5>1. b2 = [b EXCEPT ![l] = q]
          BY <3>1, <3>2
        <5> HIDE DEF b2, q
        <5>2. b2 = [h \in Heads |-> IF h = l THEN q ELSE IF h = c THEN <<>> ELSE block_queue[h]]
          BY <5>1, <3>1, <1>4, <1>7
        <5> QED
          BY <5>2, <3>1 DEF q
      <4>2. [Advanced(L) EXCEPT ![c] = <<>>] =
              [h \in Heads |-> IF h = c THEN <<>>
                               ELSE IF h = l /\ block_queue[l] # <<>> THEN Tail(block_queue[l])
                               ELSE block_queue[h]]
        BY <3>1, <1>4 DEF Advanced
      <4> QED
        BY <4>1, <4>2
    <3> HIDE DEF l, w, b2, heirs, L, b
    <3>6. Leaves(Woken(c) \o heirs, block_queue, b2)
      BY <3>3, <3>4, <1>9, LeavesTwice
    <3> QED
      BY <3>5, <3>6
  <2> QED
    BY <2>1, <2>2
<1>11. Ended(c, ToSet(woken)) = [s EXCEPT ![c] = e]
  BY DEF Ended, Unblocked, Awake
<1> HIDE DEF L, heirs, woken, b, s
<1>12. /\ Core(ready_queue \o woken, block_queue', s, pid, created, c)
       /\ Running(s, pid, c)
  <2>1. Leaves(woken, block_queue, block_queue')
    BY <1>3, <1>10
  <2>2. Core(ready_queue \o woken, block_queue', s, pid, created, c)
    BY <2>1, <1>4, WakeInv DEF Inv, s
  <2>3. Running(s, pid, c)
    BY <2>1, <1>4, RunnerStays DEF s
  <2> QED
    BY <2>2, <2>3
<1>13. block_queue'[c] = <<>>
  BY <1>3, <1>4 DEF Advanced
<1>14. e \in Dead
  BY DEF Dead
<1> HIDE DEF e
<1>15. Core(ready_queue \o woken, block_queue', [s EXCEPT ![c] = e], pid', created, c)
  BY <1>3, <1>4, <1>12, <1>13, <1>14, EndInv DEF Inv
<1>16. do_scheduler(ready_queue \o woken, [s EXCEPT ![c] = e], pid')
  BY <1>2, <1>11
<1>17. Dispatched(woken, block_queue', [s EXCEPT ![c] = e], pid')
  <2>1. woken \in Seq(Pcb)
    BY <1>10 DEF Leaves
  <2> QED
    BY <2>1, <1>4, <1>15, <1>16 DEF Dispatched
<1>18. [owns EXCEPT ![c] = @ \ owns[c]] = [owns EXCEPT ![c] = {}]
  BY <1>4
<1>19. locks[c] # <<>> => L = {Head(locks[c])}
  BY DEF L
<1>20. \E u, v : Dispatched(u, block_queue', v, pid')
  BY <1>17
<1> HIDE DEF c
<1> QED
  BY <1>1, <1>2, <1>3, <1>4, <1>6, <1>18, <1>19, <1>20 DEF c

(* The end of a task keeps the invariant. *)
LEMMA ExitInv ==
  ASSUME Inv, Disciplined, Exit
  PROVE  Inv'
<1> DEFINE c == current_running
<1>1. PICK u, s : Dispatched(u, block_queue', s, pid')
  BY ExitParts
<1>2. /\ Core(ready_queue', block_queue', status', pid', created, current_running')
      /\ current_running' \in Pcb /\ Running(status', pid', current_running')
  BY <1>1, DispatchedInv
<1>3. /\ c \in Pcb
      /\ pid' = [pid EXCEPT ![c] = 0]
      /\ block_queue' = [Advanced(owns[c]) EXCEPT ![c] = <<>>]
      /\ locks' = Forget(c)
      /\ locks[c] # <<>> => owns[c] = {Head(locks[c])}
      /\ HandOver(owns[c], [owns EXCEPT ![c] = @ \ owns[c]])
      /\ owns[c] \subseteq Lock
      /\ UNCHANGED <<mode, created>>
  BY ExitParts
<1>4. \A l \in Lock : block_queue'[l] = Advanced(owns[c])[l]
  BY <1>3, Sets DEF Advanced
<1>5. \A p \in Pcb \ {c} : pid'[p] = pid[p]
  BY <1>3 DEF Inv, Core, Placed
<1>6. Locking(block_queue', pid', locks', lock_status', owns')
  BY <1>3, <1>4, <1>5, HandOverInv
<1> QED
  BY <1>2, <1>3, <1>6 DEF Inv

(* Every step keeps the invariant; Kill is excluded by "nokill". *)
LEMMA NextInv ==
  ASSUME Inv, Disciplined, [Next]_vars
  PROVE  Inv'
<1>1. CASE TimerTick
  BY <1>1, TickInv
<1>2. CASE Yield
  BY <1>2, YieldInv
<1>3. CASE Exec
  BY <1>3, ExecInv
<1>4. CASE MthreadCreate
  BY <1>4, MthreadCreateInv
<1>5. CASE WaitPid
  BY <1>5, WaitPidInv
<1>6. CASE NetWait
  BY <1>6, NetWaitInv
<1>7. CASE LockAcquire
  BY <1>7, LockAcquireInv
<1>8. CASE LockRelease
  BY <1>8, LockReleaseInv
<1>9. CASE Exit
  BY <1>9, ExitInv
<1>10. CASE Kill
  BY <1>10 DEF Kill, Disciplined
<1>11. CASE UNCHANGED vars
  BY <1>11 DEF vars, schedVars, mutexVars, Inv
<1> QED
  BY <1>1, <1>2, <1>3, <1>4, <1>5, <1>6, <1>7, <1>8, <1>9, <1>10, <1>11 DEF Next

-----------------------------------------------------------------------------
(* Only the end of a task lets a live waiter leave its wait_list. *)
LEMMA WaitersStayStep ==
  ASSUME Inv, Disciplined, [Next]_vars
  PROVE  [WaitersStay]_vars
<1>0. block_queue \in [Heads -> Seq(Pcb)] /\ Pcb \subseteq Heads
  BY Sets DEF Inv, Core, Linked
<1>1. ASSUME \A p \in Pcb : ToSet(block_queue[p]) \subseteq ToSet(block_queue'[p])
      PROVE  WaitersStay
  BY <1>1 DEF WaitersStay
<1>2. ASSUME NEW L \in SUBSET (Heads \ Pcb), block_queue' = Advanced(L)
      PROVE  WaitersStay
  <2>1. \A p \in Pcb : block_queue'[p] = block_queue[p]
    BY <1>0, <1>2 DEF Advanced
  <2> QED
    BY <2>1, <1>1
<1>3. ASSUME NEW h \in Heads, do_block(h), Task
      PROVE  WaitersStay
  <2>1. block_queue' = [block_queue EXCEPT ![h] = Link(@, current_running)]
    BY <1>3 DEF do_block
  <2>2. /\ block_queue[h] \in Seq(Pcb) /\ current_running \in Pcb
        /\ current_running \notin ToSet(block_queue[h])
    BY <1>0, <1>3 DEF Task, Caller, Inv, Core, Placed, Running
  <2>3. ToSet(Link(block_queue[h], current_running)) = ToSet(block_queue[h]) \cup {current_running}
    <3>1. Link(block_queue[h], current_running) = Append(block_queue[h], current_running)
      BY <2>2, LinkNew
    <3> QED
      BY <2>2, <3>1, AppendQueue
  <2>4. \A p \in Pcb : ToSet(block_queue[p]) \subseteq ToSet(block_queue'[p])
    BY <2>1, <2>3, <1>0
  <2> QED
    BY <2>4, <1>1
<1>4. ASSUME NEW i \in find_freepcb, NEW m, NewTask(i, m)
      PROVE  WaitersStay
  <2>1. i \in Pcb /\ block_queue[i] = <<>>
    BY DEF find_freepcb, Free, Inv, Core, Graves
  <2>2. block_queue' = block_queue
    BY <2>1, <1>0, <1>4 DEF NewTask
  <2> QED
    BY <2>2, <1>1
<1>5. CASE TimerTick
  <2>1. PICK W \in SUBSET Net : block_queue' = Advanced(W)
    BY <1>5 DEF TimerTick, reset_irq_timer
  <2> QED
    BY <2>1, <1>2, Sets
<1>6. CASE Yield
  BY <1>6, <1>1 DEF Yield, yield
<1>7. CASE Exec
  BY <1>7, <1>4 DEF Exec, do_exec
<1>8. CASE MthreadCreate
  BY <1>8, <1>4 DEF MthreadCreate, do_mthread_create
<1>9. CASE WaitPid
  BY <1>9, <1>3, Sets DEF WaitPid, do_waitpid, Inv
<1>10. CASE NetWait
  BY <1>10, <1>3, Sets DEF NetWait, net_wait
<1>11. CASE LockAcquire
  BY <1>11, <1>1, <1>3, Sets DEF LockAcquire, do_mutex_lock_acquire
<1>12. CASE LockRelease
  <2>1. PICK l \in Lock : block_queue' = Advanced({l})
    BY <1>12 DEF LockRelease, do_mutex_lock_release, Disciplined
  <2> QED
    BY <2>1, <1>2, Sets
<1>13. CASE Exit
  <2> DEFINE c == current_running
  <2>1. c \in Pcb /\ pid' = [pid EXCEPT ![c] = 0] /\ owns[c] \subseteq Lock
        /\ block_queue' = [Advanced(owns[c]) EXCEPT ![c] = <<>>]
    BY <1>13, ExitParts
  <2>2. \A p \in Pcb : p # c => block_queue'[p] = block_queue[p]
    BY <2>1, <1>0, Sets DEF Advanced
  <2>3. pid'[c] = 0
    BY <2>1 DEF Inv, Core, Placed
  <2>4. ASSUME NEW p \in Pcb, p = c PROVE ~Alive(p)'
    BY <2>3, <2>4 DEF Alive
  <2> QED
    BY <2>2, <2>4 DEF WaitersStay
<1>14. CASE Kill
  BY <1>14 DEF Kill, Disciplined
<1> QED
  BY <1>5, <1>6, <1>7, <1>8, <1>9, <1>10, <1>11, <1>12, <1>13, <1>14 DEF Next

-----------------------------------------------------------------------------
(* A queue that grows at its tail lets nobody in before its old members. *)
LEMMA BeforeGrow ==
  ASSUME NEW s \in Seq(Pcb), NEW t \in Seq(Pcb), IsInjective(t), Len(s) <= Len(t),
         \A i \in 1..Len(s) : t[i] = s[i],
         NEW p \in ToSet(s), NEW q, ~Before(s, q, p)
  PROVE  p \in ToSet(t) /\ ~Before(t, q, p)
<1>1. PICK k \in 1..Len(s) : s[k] = p
  BY DEF ToSet
<1>2. DOMAIN s = 1..Len(s) /\ DOMAIN t = 1..Len(t) /\ Len(s) \in Nat /\ Len(t) \in Nat
  OBVIOUS
<1>3. k \in DOMAIN t /\ t[k] = p
  BY <1>1, <1>2
<1>4. ASSUME NEW i \in DOMAIN t, NEW j \in DOMAIN t, i < j, t[i] = q, t[j] = p
      PROVE  FALSE
  <2>1. j = k
    BY <1>3, <1>4 DEF IsInjective
  <2>2. i \in 1..Len(s) /\ s[i] = q
    BY <2>1, <1>1, <1>2, <1>4
  <2> QED
    BY <2>1, <2>2, <1>1, <1>2, <1>4 DEF Before
<1>5. p \in ToSet(t)
  BY <1>3 DEF ToSet
<1> QED
  BY <1>4, <1>5 DEF Before

(* Append and concatenation grow a queue at its tail. *)
LEMMA BeforeConcat ==
  ASSUME NEW s \in Seq(Pcb), NEW w \in Seq(Pcb), IsInjective(s \o w),
         NEW p \in ToSet(s), NEW q, ~Before(s, q, p)
  PROVE  p \in ToSet(s \o w) /\ ~Before(s \o w, q, p)
<1>1. /\ s \o w \in Seq(Pcb) /\ Len(s \o w) = Len(s) + Len(w)
      /\ Len(s) \in Nat /\ Len(w) \in Nat
      /\ \A i \in 1..(Len(s) + Len(w)) : (s \o w)[i] = IF i <= Len(s) THEN s[i] ELSE w[i - Len(s)]
  BY ConcatProperties
<1>2. Len(s) <= Len(s \o w) /\ \A i \in 1..Len(s) : (s \o w)[i] = s[i]
  BY <1>1
<1> QED
  BY <1>1, <1>2, BeforeGrow

(* The same when enqueue appends a node, or finds it at the tail already. *)
LEMMA BeforeLink ==
  ASSUME NEW s \in Seq(Pcb), IsInjective(s), NEW c \in Pcb,
         c \in ToSet(s) => s # <<>> /\ s[Len(s)] = c,
         NEW p \in ToSet(s), NEW q, ~Before(s, q, p)
  PROVE  p \in ToSet(Link(s, c)) /\ ~Before(Link(s, c), q, p)
<1>1. CASE c \in ToSet(s)
  <2>1. Link(s, c) = s
    BY <1>1, LinkLast
  <2> QED
    BY <2>1
<1>2. CASE c \notin ToSet(s)
  <2>1. Link(s, c) = Append(s, c)
    BY <1>2, LinkNew
  <2>2. Append(s, c) \in Seq(Pcb) /\ IsInjective(Append(s, c))
    BY <1>2, AppendQueue
  <2>3. Len(s) <= Len(Append(s, c)) /\ \A i \in 1..Len(s) : Append(s, c)[i] = s[i]
    OBVIOUS
  <2> QED
    BY <2>1, <2>2, <2>3, BeforeGrow
<1> QED
  BY <1>1, <1>2

(* When the first leaves, the others keep their order, and he was first. *)
LEMMA BeforeTail ==
  ASSUME NEW s \in Seq(Pcb), IsInjective(s), NEW p \in ToSet(s), p # Head(s),
         NEW q, ~Before(s, q, p)
  PROVE  p \in ToSet(Tail(s)) /\ ~Before(Tail(s), q, p) /\ Head(s) # q
<1>1. s # <<>>
  BY EmptyQueue
<1> DEFINE t == Tail(s)
<1>2. /\ Len(s) \in Nat \ {0} /\ Len(t) = Len(s) - 1 /\ Head(s) = s[1]
      /\ DOMAIN s = 1..Len(s) /\ DOMAIN t = 1..Len(t)
      /\ \A i \in 1..Len(t) : t[i] = s[i + 1]
  BY <1>1
<1>3. p \in ToSet(t)
  BY <1>1, TailQueue
<1> HIDE DEF t
<1>4. ASSUME NEW i \in DOMAIN t, NEW j \in DOMAIN t, i < j, t[i] = q, t[j] = p
      PROVE  FALSE
  <2>1. i + 1 \in DOMAIN s /\ j + 1 \in DOMAIN s /\ i + 1 < j + 1
    BY <1>2, <1>4
  <2>2. s[i + 1] = q /\ s[j + 1] = p
    BY <1>2, <1>4
  <2> QED
    BY <2>1, <2>2, Zenon DEF Before
<1>5. ASSUME Head(s) = q PROVE FALSE
  <2>1. PICK j \in DOMAIN s : s[j] = p
    BY <1>2 DEF ToSet
  <2>2. 1 \in DOMAIN s /\ 1 < j /\ s[1] = q
    BY <2>1, <1>2, <1>5
  <2> QED
    BY <2>1, <2>2, Zenon DEF Before
<1>6. ~Before(t, q, p)
  BY <1>4 DEF Before
<1> QED
  BY <1>3, <1>5, <1>6 DEF t

(* do_scheduler picks the first, and puts the caller behind everybody. *)
LEMMA DispatchOrder ==
  ASSUME Inv, NEW u, NEW b, NEW s, NEW d, Dispatched(u, b, s, d)
  PROVE  NobodyOvertakes
<1> DEFINE c == current_running
           r == ready_queue \o u
<1>1. /\ Core(r, b, s, d, created, c) /\ u \in Seq(Pcb) /\ do_scheduler(r, s, d)
      /\ c = Shell => s[c] = "TASK_RUNNING"
  BY DEF Dispatched
<1>2. ready_queue \in Seq(Pcb)
  BY DEF Inv, Core, Linked
<1> HIDE DEF r
<1>3. r \in Seq(Pcb) /\ IsInjective(r)
  BY <1>1 DEF Core, Linked
<1> SUFFICES ASSUME NEW p \in ToSet(ready_queue), NEW q \in Pcb, p # q,
                    ~Before(ready_queue, q, p), current_running' # p
             PROVE  /\ p \in ToSet(ready_queue') /\ ~Before(ready_queue', q, p)
                    /\ current_running' # q
  BY DEF NobodyOvertakes
<1>4. p \in ToSet(r) /\ ~Before(r, q, p)
  BY <1>2, <1>3, <1>1, BeforeConcat DEF r
<1>5. r # <<>>
  BY <1>3, <1>4, EmptyQueue
<1>6. /\ current_running' = Head(r)
      /\ ready_queue' = IF Preempted(s, d) = {} THEN Tail(r) ELSE Link(Tail(r), c)
  BY <1>1, <1>5 DEF do_scheduler, Requeue
<1>7. p \in ToSet(Tail(r)) /\ ~Before(Tail(r), q, p) /\ Head(r) # q
  BY <1>3, <1>4, <1>6, BeforeTail
<1>8. CASE Preempted(s, d) = {}
  BY <1>6, <1>7, <1>8
<1>9. CASE Preempted(s, d) # {}
  <2>1. c \in Pcb /\ s[c] = "TASK_RUNNING"
    BY <1>9 DEF Preempted
  <2>2. /\ Tail(r) \in Seq(Pcb) /\ IsInjective(Tail(r)) /\ Head(r) = r[1]
        /\ ToSet(Tail(r)) = ToSet(r) \ {Head(r)}
        /\ Len(r) # 1 => Tail(r) # <<>> /\ Tail(r)[Len(Tail(r))] = r[Len(r)]
    BY <1>3, <1>5, TailQueue
  <2>3. c \in ToSet(Tail(r)) => Tail(r) # <<>> /\ Tail(r)[Len(Tail(r))] = c
    <3> SUFFICES ASSUME c \in ToSet(Tail(r))
                 PROVE  Tail(r) # <<>> /\ Tail(r)[Len(Tail(r))] = c
      OBVIOUS
    <3>1. c \in ToSet(r) /\ c # r[1]
      BY <2>2
    <3>2. c = Shell
      BY <3>1, <2>1, <1>1 DEF Core, Placed
    <3>3. r[Len(r)] = Shell
      BY <3>1, <3>2, <1>1 DEF Core, HomeShell
    <3> QED
      BY <3>1, <3>2, <3>3, <2>2
  <2>4. p \in ToSet(Link(Tail(r), c)) /\ ~Before(Link(Tail(r), c), q, p)
    BY <2>1, <2>2, <2>3, <1>7, BeforeLink
  <2> QED
    BY <2>4, <1>6, <1>7, <1>9
<1> QED
  BY <1>8, <1>9

(* do_block passes its caller's place on and the rest in order. *)
LEMMA BlockOrder ==
  ASSUME Inv, Task, NEW h \in Heads, h \in Pcb => pid[h] # 0, do_block(h)
  PROVE  NobodyOvertakes
<1> DEFINE c == current_running
           b == [block_queue EXCEPT ![h] = Link(@, c)]
           s == [status EXCEPT ![c] = "TASK_BLOCKED"]
<1>1. c \in Pcb \ {Shell} /\ ready_queue \in Seq(Pcb)
  BY DEF Inv, Task, Caller, Core, Linked
<1>2. Core(ready_queue, b, s, pid, created, c)
  BY <1>1, BlockInv DEF Inv
<1>3. do_scheduler(ready_queue, s, pid)
  BY DEF do_block
<1>4. ready_queue \o <<>> = ready_queue
  BY <1>1
<1>5. <<>> \in Seq(Pcb)
  BY Sets, ShortQueues
<1> HIDE DEF b, s
<1>6. Dispatched(<<>>, b, s, pid)
  BY <1>1, <1>2, <1>3, <1>4, <1>5 DEF Dispatched
<1> QED
  BY <1>6, DispatchOrder

(* A handler that reschedules nobody, and only appends to the queue. *)
LEMMA GrowOrder ==
  ASSUME NEW w, ready_queue \in Seq(Pcb), w \in Seq(Pcb), IsInjective(ready_queue \o w),
         ready_queue' = ready_queue \o w, current_running' = current_running
  PROVE  NobodyOvertakes
BY BeforeConcat DEF NobodyOvertakes

(* No step lets anybody overtake a ready task. *)
LEMMA OrderStep ==
  ASSUME Inv, Disciplined, [Next]_vars
  PROVE  [NobodyOvertakes]_vars
<1>0. /\ ready_queue \in Seq(Pcb) /\ IsInjective(ready_queue)
      /\ Inv'
  BY NextInv DEF Inv, Core, Linked
<1>1. ready_queue' \in Seq(Pcb) /\ IsInjective(ready_queue')
  BY <1>0 DEF Inv, Core, Linked
<1>2. ASSUME UNCHANGED <<ready_queue, current_running>>
      PROVE  NobodyOvertakes
  BY <1>2 DEF NobodyOvertakes
<1>3. ASSUME NEW i \in find_freepcb, NEW m, NewTask(i, m)
      PROVE  NobodyOvertakes
  <2>1. i \in Pcb /\ i \notin ToSet(ready_queue)
    BY DEF find_freepcb, Free, Inv, Core, Placed
  <2>2. ready_queue' = Append(ready_queue, i) /\ current_running' = current_running
    BY <2>1, <1>0, <1>3, LinkNew DEF NewTask
  <2>3. Append(ready_queue, i) = ready_queue \o <<i>> /\ <<i>> \in Seq(Pcb)
    BY <2>1, <1>0
  <2> QED
    BY <2>2, <2>3, <1>0, <1>1, GrowOrder
<1>4. CASE TimerTick
  <2>1. PICK u, s : Dispatched(u, block_queue', s, pid)
    BY <1>4, TickParts
  <2> QED
    BY <2>1, DispatchOrder
<1>5. CASE Yield
  <2>1. Dispatched(<<>>, block_queue, status, pid)
    <3>1. ready_queue \o <<>> = ready_queue
      BY <1>0
    <3>2. <<>> \in Seq(Pcb)
      BY Sets, ShortQueues
    <3>3. do_scheduler(ready_queue, status, pid)
      BY <1>5 DEF Yield, yield
    <3> QED
      BY <3>1, <3>2, <3>3, Sets DEF Dispatched, Inv, Running
  <2> QED
    BY <2>1, DispatchOrder
<1>6. CASE Exec
  BY <1>6, <1>3 DEF Exec, do_exec
<1>7. CASE MthreadCreate
  BY <1>7, <1>3 DEF MthreadCreate, do_mthread_create
<1>8. CASE WaitPid
  <2>1. PICK p \in created : Task /\ status[p] \notin Dead /\ do_block(p)
    BY <1>8 DEF WaitPid, do_waitpid
  <2>2. p \in Heads /\ pid[p] # 0
    BY <2>1, Sets DEF Inv, Core, Graves
  <2> QED
    BY <2>1, <2>2, BlockOrder
<1>9. CASE NetWait
  <2>1. PICK q \in Net : Task /\ do_block(q)
    BY <1>9 DEF NetWait, net_wait
  <2> QED
    BY <2>1, BlockOrder, Sets
<1>10. CASE LockAcquire
  <2>1. PICK l \in Lock : Task /\ do_mutex_lock_acquire(l)
    BY <1>10 DEF LockAcquire
  <2>2. l \in Heads /\ l \notin Pcb
    BY Sets
  <2>3. do_block(l) => NobodyOvertakes
    BY <2>1, <2>2, BlockOrder
  <2> QED
    BY <2>1, <2>3, <1>2 DEF do_mutex_lock_acquire
<1>11. CASE LockRelease
  <2>1. PICK l \in Lock : ready_queue' = ready_queue \o First(l) /\ current_running' = current_running
    BY <1>11 DEF LockRelease, do_mutex_lock_release, Disciplined
  <2>2. First(l) \in Seq(Pcb)
    BY FirstOut, Sets DEF Leaves, Inv, Core
  <2> QED
    BY <2>1, <2>2, <1>0, <1>1, GrowOrder
<1>12. CASE Exit
  <2>1. PICK u, s : Dispatched(u, block_queue', s, pid')
    BY <1>12, ExitParts
  <2> QED
    BY <2>1, DispatchOrder
<1>13. CASE Kill
  BY <1>13 DEF Kill, Disciplined
<1> QED
  BY <1>4, <1>5, <1>6, <1>7, <1>8, <1>9, <1>10, <1>11, <1>12, <1>13 DEF Next

-----------------------------------------------------------------------------
(* The invariant holds in every state of every disciplined behaviour. *)
THEOREM Invariance == ASSUME Disciplined PROVE Spec => []Inv
<1>1. Init => Inv
  BY InitInv
<1>2. Inv /\ [Next]_vars => Inv'
  BY NextInv
<1> QED
  BY <1>1, <1>2, PTL DEF Spec

(* The PCBs, queues and locks keep their types. *)
THEOREM TypesKept == ASSUME Disciplined PROVE Spec => []TypeOK
<1>1. Inv => TypeOK
  BY DEF Inv, Core, Linked, Placed, Locking, Statuses, TypeOK
<1> QED
  BY <1>1, Invariance, PTL

(* The kernel never links a PCB twice, so list.c is used as it must be. *)
THEOREM PcbsHeldOnce == ASSUME Disciplined PROVE Spec => []HeldOnce
<1>1. Inv => HeldOnce
  BY DEF Inv, Core, Linked, HeldOnce
<1> QED
  BY <1>1, Invariance, PTL

(* No task is left in TASK_RUNNING but the one that runs, which is live. *)
THEOREM OneLiveRunner == ASSUME Disciplined PROVE Spec => [](SoleRunner /\ RunnerAlive)
<1>1. Inv => SoleRunner /\ RunnerAlive
  BY DEF Inv, Core, Placed, Running, SoleRunner, RunnerAlive, Alive
<1> QED
  BY <1>1, Invariance, PTL

(* Every live task is where its next wake-up will look for it. *)
THEOREM NoTaskIsLost == ASSUME Disciplined PROVE Spec => []NoTaskLost
<1>1. Inv => NoTaskLost
  BY DEF Inv, Core, Placed, NoTaskLost, ReadyIsQueued, BlockedIsQueued, Alive
<1> QED
  BY <1>1, Invariance, PTL

(* A PCB that is free is in no list. *)
THEOREM FreePcbsAreFree == ASSUME Disciplined PROVE Spec => []FreeIsUnlinked
<1>1. Inv => FreeIsUnlinked
  BY DEF Inv, Core, Placed, FreeIsUnlinked, Alive
<1> QED
  BY <1>1, Invariance, PTL

(* Nobody waits for a task that has ended. *)
THEOREM TargetsAreAlive == ASSUME Disciplined PROVE Spec => []WaitersHaveTarget
<1>1. Inv => WaitersHaveTarget
  BY DEF Inv, Core, Graves, WaitersHaveTarget, Alive
<1> QED
  BY <1>1, Invariance, PTL

(* Two tasks never hold one mutex. *)
THEOREM MutexesExclude == ASSUME Disciplined PROVE Spec => []MutualExclusion
<1>1. Inv => MutualExclusion
  BY DEF Inv, Locking, MutualExclusion
<1> QED
  BY <1>1, Invariance, PTL

(* A mutex is LOCKED exactly while a live task holds it, and only a LOCKED  *)
(* one has waiters.                                                        *)
THEOREM NoLockIsLeaked == ASSUME Disciplined PROVE Spec => []LocksAccounted
<1>1. Inv => LocksAccounted
  BY DEF Inv, Locking, LocksAccounted, Alive
<1> QED
  BY <1>1, Invariance, PTL

(* A lock that a task gives up is free, or it has a new owner. *)
THEOREM LocksArePassedOn == ASSUME Disciplined PROVE Spec => ReleaseReleases
<1>1. Inv' => LocksPassOn
  BY DEF Inv, Locking, LocksPassOn
<1> QED
  BY <1>1, Invariance, PTL DEF ReleaseReleases, Spec

(* sys_waitpid returns only when the task waited for has ended. *)
THEOREM WaitsAreAnswered == ASSUME Disciplined PROVE Spec => WaitReturns
<1>1. Inv /\ [Next]_vars => [WaitersStay]_vars
  BY WaitersStayStep
<1> QED
  BY <1>1, Invariance, PTL DEF WaitReturns, Spec

(* The scheduler is round robin: nobody overtakes a ready task. *)
THEOREM ReadyQueueIsRoundRobin == ASSUME Disciplined PROVE Spec => RoundRobin
<1>1. Inv /\ [Next]_vars => [NobodyOvertakes]_vars
  BY OrderStep
<1> QED
  BY <1>1, Invariance, PTL DEF RoundRobin, Spec

-----------------------------------------------------------------------------
(* A release accepted from the owner of l, or its end, is Release of l. *)
LEMMA FairRelease ==
  ASSUME Inv, NEW c \in Pcb, NEW l \in Lock, l \in owns[c],
         HandOver({l}, [owns EXCEPT ![c] = @ \ {l}]),
         \A k \in Lock : block_queue'[k] = Advanced({l})[k]
  PROVE  Fair!Release(c, l)
<1> DEFINE H == [k \in Lock |-> {p \in Pcb : k \in owns[p]}]
           W == [k \in Lock |-> block_queue[k]]
<1>1. /\ owns \in [Pcb -> SUBSET Lock]
      /\ \A p, q \in Pcb : p # q => owns[p] \cap owns[q] = {}
      /\ block_queue \in [Heads -> Seq(Pcb)] /\ Lock \subseteq Heads
  BY Sets DEF Inv, Locking, Core, Linked
<1>2. owns' = [t \in Pcb |-> (IF t = c THEN owns[t] \ {l} ELSE owns[t])
                            \cup {k \in {l} : First(k) = <<t>>}]
  BY <1>1 DEF HandOver
<1>3. \A k \in Lock : block_queue'[k] = IF k = l /\ block_queue[k] # <<>>
                                         THEN Tail(block_queue[k]) ELSE block_queue[k]
  BY <1>1 DEF Advanced
<1>4. H[l] = {c}
  BY <1>1
<1>5. \A k \in Lock, t \in Pcb :
        k \in owns'[t] <=> IF k = l THEN First(l) = <<t>> ELSE k \in owns[t]
  BY <1>1, <1>2
<1>6. CASE block_queue[l] = <<>>
  <2>1. \A t \in Pcb : First(l) # <<t>>
    BY <1>6 DEF First
  <2>2. [k \in Lock |-> {p \in Pcb : k \in owns'[p]}] = [H EXCEPT ![l] = {}]
    BY <1>5, <2>1
  <2>3. [k \in Lock |-> block_queue'[k]] = W
    BY <1>3, <1>6
  <2> QED
    BY <2>2, <2>3, <1>4, <1>6 DEF Fair!Release
<1>7. CASE block_queue[l] # <<>>
  <2>1. Head(block_queue[l]) \in Pcb
    BY <1>1, <1>7
  <2>2. \A t \in Pcb : First(l) = <<t>> <=> t = Head(block_queue[l])
    BY <1>7 DEF First
  <2>3. [k \in Lock |-> {p \in Pcb : k \in owns'[p]}] = [H EXCEPT ![l] = {Head(W[l])}]
    BY <1>5, <2>1, <2>2
  <2>4. [k \in Lock |-> block_queue'[k]] = [W EXCEPT ![l] = Tail(@)]
    BY <1>3, <1>7
  <2> QED
    BY <2>3, <2>4, <1>4, <1>7 DEF Fair!Release
<1> QED
  BY <1>6, <1>7

(* Every step of the kernel is a step of the fair locks, or leaves them. *)
LEMMA FairStep ==
  ASSUME Inv, Disciplined, [Next]_vars
  PROVE  [Fair!Next]_(Fair!vars)
<1> DEFINE c == current_running
           H == [k \in Lock |-> {p \in Pcb : k \in owns[p]}]
           W == [k \in Lock |-> block_queue[k]]
<1>0. /\ block_queue \in [Heads -> Seq(Pcb)] /\ owns \in [Pcb -> SUBSET Lock]
      /\ Lock \subseteq Heads /\ Lock \cap Pcb = {} /\ Lock \cap Net = {}
  BY Sets DEF Inv, Core, Linked, Locking
<1>1. ASSUME owns' = owns, \A l \in Lock : block_queue'[l] = block_queue[l]
      PROVE  UNCHANGED Fair!vars
  <2>1. [k \in Lock |-> {p \in Pcb : k \in owns'[p]}] = H
    BY <1>1
  <2>2. [k \in Lock |-> block_queue'[k]] = W
    BY <1>1
  <2> QED
    BY <2>1, <2>2 DEF Fair!vars
<1>2. ASSUME NEW h \in Heads \ Lock, do_block(h), UNCHANGED mutexVars
      PROVE  UNCHANGED Fair!vars
  <2>1. owns' = owns /\ \A l \in Lock : block_queue'[l] = block_queue[l]
    BY <1>0, <1>2 DEF do_block, mutexVars
  <2> QED
    BY <2>1, <1>1
<1>3. ASSUME NEW i \in find_freepcb, NEW m, NewTask(i, m), UNCHANGED mutexVars
      PROVE  UNCHANGED Fair!vars
  <2>1. i \in Pcb
    BY DEF find_freepcb, Free
  <2>2. owns' = owns /\ \A l \in Lock : block_queue'[l] = block_queue[l]
    BY <2>1, <1>0, <1>3 DEF NewTask, mutexVars
  <2> QED
    BY <2>2, <1>1
<1>5. CASE TimerTick
  <2>1. PICK S \in SUBSET Net : reset_irq_timer(S) /\ UNCHANGED mutexVars
    BY <1>5 DEF TimerTick
  <2>2. owns' = owns /\ \A l \in Lock : block_queue'[l] = block_queue[l]
    BY <2>1, <1>0 DEF reset_irq_timer, Advanced, mutexVars
  <2> QED
    BY <2>2, <1>1
<1>6. CASE Yield
  BY <1>6, <1>1 DEF Yield, yield, mutexVars
<1>7. CASE Exec
  BY <1>7, <1>3 DEF Exec, do_exec
<1>8. CASE MthreadCreate
  BY <1>8, <1>3 DEF MthreadCreate, do_mthread_create
<1>9. CASE WaitPid
  BY <1>9, <1>2, Sets DEF WaitPid, do_waitpid, Inv
<1>10. CASE NetWait
  BY <1>10, <1>2, Sets DEF NetWait, net_wait
<1>11. CASE LockAcquire
  <2>1. PICK l \in Lock : Task /\ do_mutex_lock_acquire(l)
    BY <1>11 DEF LockAcquire
  <2>2. c \in Pcb /\ l \in Heads
    BY <2>1, <1>0 DEF Task, Caller, Inv
  <2>3. lock_status[l] = "LOCKED" <=> H[l] # {}
    BY DEF Inv, Locking
  <2>4. CASE lock_status[l] = "LOCKED"
    <3>1. do_block(l) /\ owns' = owns
      BY <2>1, <2>4 DEF do_mutex_lock_acquire, mutexVars
    <3>2. \A h \in Heads : c \notin ToSet(block_queue[h])
      BY <2>2 DEF Inv, Core, Placed, Running
    <3>3. Link(block_queue[l], c) = Append(block_queue[l], c)
      BY <1>0, <2>2, <3>2, LinkNew
    <3>4. \A k \in Lock : \A i \in DOMAIN W[k] : W[k][i] # c
      BY <1>0, <3>2 DEF ToSet
    <3>5. [k \in Lock |-> block_queue'[k]] = [W EXCEPT ![l] = Append(@, c)]
      <4>1. block_queue' = [block_queue EXCEPT ![l] = Append(block_queue[l], c)]
        BY <3>1, <3>3 DEF do_block
      <4> QED
        BY <4>1, <1>0
    <3>6. [k \in Lock |-> {p \in Pcb : k \in owns'[p]}] = H
      BY <3>1
    <3>7. PICK p \in Pcb : p = c
      BY <2>2
    <3>8. Fair!Wait(p, l)
      BY <2>3, <2>4, <3>4, <3>5, <3>6, <3>7 DEF Fair!Wait
    <3> QED
      BY <3>8, Zenon DEF Fair!Next
  <2>5. CASE lock_status[l] # "LOCKED"
    <3>1. owns' = [owns EXCEPT ![c] = @ \cup {l}] /\ block_queue' = block_queue
      BY <2>1, <2>5 DEF do_mutex_lock_acquire
    <3>2. \A k \in Lock, p \in Pcb : k \in owns'[p] <=> k \in owns[p] \/ (k = l /\ p = c)
      BY <3>1, <1>0, <2>2
    <3>3. [k \in Lock |-> {p \in Pcb : k \in owns'[p]}] = [H EXCEPT ![l] = {c}]
      <4>1. \A p \in Pcb : l \notin owns[p]
        BY <2>3, <2>5
      <4>2. ASSUME NEW k \in Lock
            PROVE  {p \in Pcb : k \in owns'[p]} = IF k = l THEN {c} ELSE {p \in Pcb : k \in owns[p]}
        BY <3>2, <4>1, <2>2
      <4> QED
        BY <4>2
    <3>4. [k \in Lock |-> block_queue'[k]] = W
      BY <3>1
    <3>5. PICK p \in Pcb : p = c
      BY <2>2
    <3>6. Fair!Take(p, l)
      BY <2>3, <2>5, <3>3, <3>4, <3>5 DEF Fair!Take
    <3> QED
      BY <3>6, Zenon DEF Fair!Next
  <2> QED
    BY <2>4, <2>5
<1>12. CASE LockRelease
  <2>1. PICK l \in Lock : /\ Task /\ l \in owns[c]
                          /\ HandOver({l}, [owns EXCEPT ![c] = @ \ {l}])
                          /\ block_queue' = Advanced({l})
    BY <1>12 DEF LockRelease, do_mutex_lock_release, Disciplined
  <2>2. PICK p \in Pcb : p = c
    BY <2>1 DEF Task, Caller, Inv
  <2>3. Fair!Release(p, l)
    BY <2>1, <2>2, FairRelease
  <2> QED
    BY <2>3, Zenon DEF Fair!Next
<1>13. CASE Exit
  <2>1. /\ c \in Pcb
        /\ block_queue' = [Advanced(owns[c]) EXCEPT ![c] = <<>>]
        /\ HandOver(owns[c], [owns EXCEPT ![c] = @ \ owns[c]])
        /\ owns[c] \subseteq Lock
        /\ \A l \in owns[c] : owns[c] = {l}
    BY <1>13, ExitParts
  <2>2. \A l \in Lock : block_queue'[l] = Advanced(owns[c])[l]
    BY <2>1, <1>0 DEF Advanced
  <2>3. CASE owns[c] = {}
    <3>1. owns' = owns
      BY <2>1, <2>3, <1>0 DEF HandOver
    <3>2. \A l \in Lock : block_queue'[l] = block_queue[l]
      BY <2>2, <2>3, <1>0 DEF Advanced
    <3> QED
      BY <3>1, <3>2, <1>1
  <2>4. ASSUME NEW l \in owns[c] PROVE Fair!Next
    <3>1. owns[c] = {l} /\ l \in Lock
      BY <2>1
    <3>2. /\ HandOver({l}, [owns EXCEPT ![c] = @ \ {l}])
          /\ \A k \in Lock : block_queue'[k] = Advanced({l})[k]
      BY <2>1, <2>2, <3>1
    <3>3. PICK p \in Pcb : p = c
      BY <2>1
    <3>4. Fair!Release(p, l)
      BY <3>1, <3>2, <3>3, FairRelease
    <3> QED
      BY <3>1, <3>4, Zenon DEF Fair!Next
  <2> QED
    BY <2>3, <2>4
<1>14. CASE Kill
  BY <1>14 DEF Kill, Disciplined
<1>15. CASE UNCHANGED vars
  BY <1>15, <1>1 DEF vars, schedVars, mutexVars
<1> QED
  BY <1>5, <1>6, <1>7, <1>8, <1>9, <1>10, <1>11, <1>12, <1>13, <1>14, <1>15 DEF Next

(***************************************************************************)
(* The mutexes implement fair locks: one holder at a time, a free lock     *)
(* when nobody holds it, and waiters served in the order they came.        *)
(***************************************************************************)
THEOREM MutexesAreFairLocks == ASSUME Disciplined PROVE Spec => ImplementsFairLock
<1>1. Init => Fair!Init
  BY Sets DEF Init, SchedInit, MutexInit, Fair!Init
<1>2. Inv /\ [Next]_vars => [Fair!Next]_(Fair!vars)
  BY FairStep
<1> QED
  BY <1>1, <1>2, Invariance, PTL DEF Spec, ImplementsFairLock, Fair!Spec

=============================================================================
