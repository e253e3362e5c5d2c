---------------------------- MODULE LibrariesProofs ---------------------------
(***************************************************************************)
(* Proofs about shell/shell.c, for all pids, any lines and any number of   *)
(* them, about vector/vector.c, for every growth factor, capacity and      *)
(* sequence of calls, about savvy_scheduler/libscheduler.c, for all jobs   *)
(* and times of the calls, and about finding_filesystems/minixfs.c, for    *)
(* all sizes of blocks, inodes and disk.  H, V and S are the first three   *)
(* as MCLibraries has them.                                                *)
(***************************************************************************)
EXTENDS MCLibraries, FiniteSetTheorems, SequenceTheorems, WellFoundedInduction, TLAPS

-----------------------------------------------------------------------------
(* The list of processes of the shell.                                     *)

ProcessEntry == [pid : Pids \cup {SHELL}, freed : BOOLEAN]
PidsOf(ps) == {ps[i].pid : i \in 1 .. Len(ps)}

\* The shell comes first, and no pid comes twice.
ListOK(ps) == /\ ps \in Seq(ProcessEntry) /\ Len(ps) >= 1 /\ ps[1].pid = SHELL
              /\ \A i, j \in 1 .. Len(ps) : ps[i].pid = ps[j].pid => i = j

\* Nothing is freed in qs unless something is in ps.
NoneFreed(qs, ps) == \A i \in DOMAIN qs : qs[i].freed => \E j \in DOMAIN ps : ps[j].freed

LEMMA ListAppend ==
    ASSUME NEW ps, ListOK(ps), NEW p \in Pids, p \notin PidsOf(ps),
           NEW qs, qs = Append(ps, [pid |-> p, freed |-> FALSE])
    PROVE  ListOK(qs) /\ PidsOf(qs) = PidsOf(ps) \cup {p} /\ NoneFreed(qs, ps)
  <1> DEFINE x == [pid |-> p, freed |-> FALSE]
  <1>0. ps \in Seq(ProcessEntry) /\ Len(ps) \in Nat /\ Len(ps) >= 1 /\ ps[1].pid = SHELL
        /\ DOMAIN ps = 1 .. Len(ps)
    BY DEF ListOK
  <1>1. x \in ProcessEntry /\ x.pid = p /\ x.freed = FALSE
    BY DEF ProcessEntry
  <1> HIDE DEF x
  <1>2. /\ qs \in Seq(ProcessEntry) /\ Len(qs) = Len(ps) + 1 /\ DOMAIN qs = 1 .. Len(qs)
        /\ \A i \in 1 .. Len(ps) : qs[i] = ps[i]
        /\ qs[Len(ps) + 1] = x
    BY <1>0, <1>1 DEF x
  <1>3. \A i \in 1 .. Len(qs) : i \in 1 .. Len(ps) \/ i = Len(ps) + 1
    BY <1>0, <1>2
  <1>4. \A i \in 1 .. Len(ps) : qs[i].pid = ps[i].pid /\ qs[i].pid # p
    BY <1>2 DEF PidsOf
  <1>5. \A i, j \in 1 .. Len(qs) : qs[i].pid = qs[j].pid => i = j
    BY <1>1, <1>2, <1>3, <1>4 DEF ListOK
  <1>6. PidsOf(qs) = PidsOf(ps) \cup {p}
    <2>1. 1 .. Len(ps) \subseteq 1 .. Len(qs) /\ Len(ps) + 1 \in 1 .. Len(qs)
      BY <1>0, <1>2
    <2> QED BY <1>1, <1>2, <1>3, <1>4, <2>1 DEF PidsOf
  <1>7. NoneFreed(qs, ps)
    BY <1>0, <1>1, <1>2, <1>3 DEF NoneFreed
  <1>8. Len(qs) >= 1 /\ qs[1].pid = SHELL
    BY <1>0, <1>2
  <1> QED BY <1>2, <1>5, <1>6, <1>7, <1>8 DEF ListOK

\* What removing the i-th of ps leaves, where the entries before it may have changed but not their pids.
RemovedAt(qs, ps, i) ==
    /\ qs \in Seq(ProcessEntry) /\ Len(qs) = Len(ps) - 1
    /\ \A j \in 1 .. Len(qs) : qs[j].pid = IF j < i THEN ps[j].pid ELSE ps[j + 1].pid

LEMMA ListRemoved ==
    ASSUME NEW ps, ListOK(ps), NEW i \in 1 .. Len(ps), NEW p \in Pids, ps[i].pid = p,
           NEW qs, RemovedAt(qs, ps, i)
    PROVE  ListOK(qs) /\ PidsOf(qs) = PidsOf(ps) \ {p}
  <1>0. ps \in Seq(ProcessEntry) /\ Len(ps) \in Nat /\ Len(ps) >= 1 /\ ps[1].pid = SHELL
        /\ \A j, k \in 1 .. Len(ps) : ps[j].pid = ps[k].pid => j = k
    BY DEF ListOK
  <1>1. /\ qs \in Seq(ProcessEntry) /\ Len(qs) = Len(ps) - 1
        /\ \A j \in 1 .. Len(qs) : qs[j].pid = IF j < i THEN ps[j].pid ELSE ps[j + 1].pid
    BY DEF RemovedAt
  <1>2. i # 1
    BY <1>0, PidsAssumption DEF H!PidsOK
  <1>3. Len(qs) >= 1 /\ qs[1].pid = SHELL /\ Len(qs) \in Nat
    BY <1>0, <1>1, <1>2
  <1> DEFINE from(j) == IF j < i THEN j ELSE j + 1
  <1>4. \A j \in 1 .. Len(qs) : from(j) \in 1 .. Len(ps) /\ from(j) # i /\ qs[j].pid = ps[from(j)].pid
    BY <1>0, <1>1
  <1>5. \A j, k \in 1 .. Len(qs) : from(j) = from(k) => j = k
    BY <1>3
  <1>6. \A k \in 1 .. Len(ps) : k # i => \E j \in 1 .. Len(qs) : from(j) = k
    <2> SUFFICES ASSUME NEW k \in 1 .. Len(ps), k # i PROVE \E j \in 1 .. Len(qs) : from(j) = k
      OBVIOUS
    <2>1. CASE k < i
      <3>1. k \in 1 .. Len(qs) /\ from(k) = k
        BY <1>0, <1>1, <2>1
      <3> QED BY <3>1
    <2>2. CASE k > i
      <3>1. k - 1 \in 1 .. Len(qs) /\ from(k - 1) = k
        BY <1>0, <1>1, <2>2
      <3> QED BY <3>1
    <2> QED BY <2>1, <2>2
  <1> HIDE DEF from
  <1>7. \A j, k \in 1 .. Len(qs) : qs[j].pid = qs[k].pid => j = k
    BY <1>0, <1>4, <1>5
  <1>8. PidsOf(qs) = PidsOf(ps) \ {p}
    <2>1. PidsOf(qs) \subseteq PidsOf(ps) \ {p}
      BY <1>0, <1>4 DEF PidsOf
    <2>2. PidsOf(ps) \ {p} \subseteq PidsOf(qs)
      <3> SUFFICES ASSUME NEW k \in 1 .. Len(ps), ps[k].pid # p
                   PROVE  ps[k].pid \in PidsOf(qs)
        BY DEF PidsOf
      <3>1. PICK j \in 1 .. Len(qs) : from(j) = k
        BY <1>6
      <3> QED BY <1>4, <3>1 DEF PidsOf
    <2> QED BY <2>1, <2>2
  <1> QED BY <1>1, <1>3, <1>7, <1>8 DEF ListOK
\* H!ListAfter is such a removal.
LEMMA ListAfterRemoves ==
    ASSUME ListOK(processes), NEW i \in 1 .. Len(processes)
    PROVE  RemovedAt(H!ListAfter(i), processes, i)
  <1> DEFINE ps == processes
             fs == [j \in DOMAIN ps |-> IF j < i THEN [ps[j] EXCEPT !.freed = TRUE] ELSE ps[j]]
             qs == H!ListAfter(i)
  <1>0. ps \in Seq(ProcessEntry) /\ Len(ps) \in Nat /\ DOMAIN ps = 1 .. Len(ps)
    BY DEF ListOK
  <1>1. \A j \in 1 .. Len(ps) : ps[j] \in ProcessEntry
    BY <1>0
  <1>2. \A j \in 1 .. Len(ps) : fs[j] \in ProcessEntry /\ fs[j].pid = ps[j].pid
    <2> SUFFICES ASSUME NEW j \in 1 .. Len(ps) PROVE fs[j] \in ProcessEntry /\ fs[j].pid = ps[j].pid
      OBVIOUS
    <2>1. fs[j] = IF j < i THEN [ps[j] EXCEPT !.freed = TRUE] ELSE ps[j]
      BY <1>0
    <2>2. ps[j] \in ProcessEntry
      BY <1>1
    <2> HIDE DEF fs, ps
    <2> QED BY <2>1, <2>2 DEF ProcessEntry
  <1>3. fs \in Seq(ProcessEntry) /\ Len(fs) = Len(ps)
    <2>1. fs = [j \in 1 .. Len(ps) |-> fs[j]]
      BY <1>0
    <2> HIDE DEF fs, ps
    <2>2. fs \in [1 .. Len(ps) -> ProcessEntry]
      BY ONLY <1>2, <2>1
    <2>3. fs \in Seq(ProcessEntry)
      BY ONLY <1>0, <2>2
    <2>4. DOMAIN fs = 1 .. Len(ps) /\ DOMAIN fs = 1 .. Len(fs) /\ Len(fs) \in Nat
      BY ONLY <2>2, <2>3
    <2> QED BY ONLY <1>0, <2>3, <2>4
  <1> DEFINE a == SubSeq(fs, 1, i - 1)
             b == SubSeq(fs, i + 1, Len(fs))
             n == Len(ps)
  <1>4. qs = a \o b
    BY DEF H!ListAfter, H!RemoveAt
  <1>i. i \in 1 .. n /\ n \in Nat
    BY <1>0
  <1> HIDE DEF qs, fs, ps
  <1>5. a \in Seq(ProcessEntry) /\ Len(a) = i - 1 /\ \A j \in 1 .. (i - 1) : a[j] = fs[j]
    <2>1. 1 \in 1 .. Len(fs) + 1 /\ i - 1 \in (1 - 1) .. Len(fs)
      BY <1>3, <1>i
    <2> QED BY <1>3, <1>i, <2>1, SubSeqProperties
  <1>6. b \in Seq(ProcessEntry) /\ Len(b) = n - i /\ \A j \in 1 .. (n - i) : b[j] = fs[i + j]
    <2>1. i + 1 \in 1 .. Len(fs) + 1 /\ Len(fs) \in ((i + 1) - 1) .. Len(fs)
      BY <1>3, <1>i
    <2>2. /\ b \in Seq(ProcessEntry) /\ Len(b) = Len(fs) - (i + 1) + 1
          /\ \A j \in 1 .. Len(fs) - (i + 1) + 1 : b[j] = fs[(i + 1) + j - 1]
      BY <1>3, <2>1, SubSeqProperties
    <2>3. Len(fs) - (i + 1) + 1 = n - i /\ \A j \in 1 .. (n - i) : (i + 1) + j - 1 = i + j
      BY <1>3, <1>i
    <2> QED BY <2>2, <2>3
  <1>f. \A j \in 1 .. n : fs[j].pid = ps[j].pid
    BY <1>2
  <1> HIDE DEF a, b, n
  <1>7. qs \in Seq(ProcessEntry) /\ Len(qs) = n - 1
    <2>1. qs \in Seq(ProcessEntry) /\ Len(qs) = Len(a) + Len(b)
      <3>1. a \in Seq(ProcessEntry) /\ b \in Seq(ProcessEntry)
        BY <1>5, <1>6
      <3>2. a \o b \in Seq(ProcessEntry) /\ Len(a \o b) = Len(a) + Len(b)
        BY ONLY <3>1, ConcatProperties
      <3> QED BY ONLY <1>4, <3>2
    <2> QED BY ONLY <1>5, <1>6, <1>i, <2>1
  <1>8. ASSUME NEW j \in 1 .. Len(qs) PROVE qs[j].pid = IF j < i THEN ps[j].pid ELSE ps[j + 1].pid
    <2>0. qs[j] = IF j <= Len(a) THEN a[j] ELSE b[j - Len(a)]
      <3>1. j \in 1 .. Len(a) + Len(b)
        BY <1>5, <1>6, <1>7, <1>i
      <3>2. a \in Seq(ProcessEntry) /\ b \in Seq(ProcessEntry)
        BY <1>5, <1>6
      <3>3. \A k \in 1 .. Len(a) + Len(b) : (a \o b)[k] = IF k <= Len(a) THEN a[k] ELSE b[k - Len(a)]
        BY ONLY <3>2, ConcatProperties
      <3> QED BY ONLY <1>4, <3>1, <3>3
    <2>1. CASE j < i
      <3>1. j \in 1 .. (i - 1) /\ j \in 1 .. n /\ j <= Len(a)
        BY <1>5, <1>i, <1>7, <2>1
      <3> QED BY <1>5, <1>f, <2>0, <2>1, <3>1
    <2>2. CASE ~(j < i)
      <3>1. j - (i - 1) \in 1 .. (n - i) /\ j + 1 \in 1 .. n /\ i + (j - (i - 1)) = j + 1
            /\ ~(j <= Len(a))
        BY <1>5, <1>i, <1>7, <2>2
      <3>2. qs[j] = b[j - (i - 1)]
        BY <1>5, <2>0, <3>1
      <3>3. qs[j] = fs[j + 1]
        BY <1>6, <3>1, <3>2
      <3> QED BY <1>f, <2>2, <3>1, <3>3
    <2> QED BY <2>1, <2>2
  <1> QED BY <1>7, <1>8 DEF RemovedAt, qs, ps, n

-----------------------------------------------------------------------------
(* The inductive invariant of the shell.                                   *)

KidStates == {"none"} \cup H!Alive \cup H!Ended
KidsOK == kid \in [Pids -> KidStates]

Busy == {"assign", "wait", "waited", "setpgid"}
Window == {"forked", "zeroed", "looping"}

\* Outside external() there is no foreground child; inside it there is one, there until it is waited for.
Foreground == /\ IF pc \in {"wait", "waited"} THEN child = child_pid ELSE child = NONE
              /\ pc \in Busy => child_pid \in Pids
              /\ pc \in {"assign", "wait"} => kid[child_pid] # "none"
              /\ pc = "waited" => kid[child_pid] = "none"
\* Only it has a handler that signals the group.
InWindow == \A p \in Pids : kid[p] \in Window => pc \in {"assign", "wait"} /\ p = child_pid
\* A background child that is still to execute its command is in the group until setpgid().
GroupOK == /\ group \subseteq Pids
           /\ \A p \in group : kid[p] = "ready" => pc = "setpgid" /\ p = child_pid
\* The list has the children in the background.
Exact == pc # "undefined" => PidsOf(processes) = {SHELL} \cup H!Mine
FreedLate == (\E i \in DOMAIN processes : processes[i].freed) => reaped

ShellInv == ListOK(processes) /\ KidsOK /\ Foreground /\ InWindow /\ GroupOK /\ Exact /\ FreedLate

LEMMA ShellStart == H!Init => ShellInv
  <1> SUFFICES ASSUME H!Init PROVE ShellInv
    OBVIOUS
  <1>1. /\ pc = "reap" /\ child = NONE /\ kid = [p \in Pids |-> "none"] /\ group = {} /\ reaped = FALSE
        /\ processes = <<[pid |-> SHELL, freed |-> FALSE]>>
    BY DEF H!Init
  <1> DEFINE x == [pid |-> SHELL, freed |-> FALSE]
  <1>2. x \in ProcessEntry /\ x.pid = SHELL /\ x.freed = FALSE
    BY DEF ProcessEntry
  <1>3. processes = <<x>>
    BY <1>1
  <1> HIDE DEF x
  <1>4. processes \in Seq(ProcessEntry) /\ Len(processes) = 1 /\ processes[1] = x /\ DOMAIN processes = {1}
    BY <1>2, <1>3
  <1>5. ListOK(processes)
    BY <1>2, <1>4 DEF ListOK
  <1>6. PidsOf(processes) = {SHELL}
    BY <1>2, <1>4 DEF PidsOf
  <1>7. H!Mine = {}
    BY <1>1 DEF H!Mine
  <1>8. KidsOK /\ Foreground /\ InWindow /\ GroupOK
    BY <1>1 DEF KidsOK, KidStates, Foreground, InWindow, GroupOK, Busy, Window
  <1>9. FreedLate
    BY <1>2, <1>4 DEF FreedLate
  <1> QED BY <1>5, <1>6, <1>7, <1>8, <1>9 DEF ShellInv, Exact

\* The same children are there after a step, and none has gone back to where it had a handler.
SameKids == /\ KidsOK'
            /\ \A p \in Pids : /\ kid'[p] = "none" <=> kid[p] = "none"
                               /\ kid'[p] \in Window => kid[p] \in Window
                               /\ kid'[p] = "ready" => kid[p] = "ready"

\* A step after which the same children are there, in the background or not, as before.
LEMMA SameChildren ==
    ASSUME ShellInv, SameKids, UNCHANGED <<processes, child, child_pid, group>>, reaped => reaped',
           \/ pc' = pc
           \/ pc \notin Busy \cup {"undefined"} /\ pc' \notin Busy
    PROVE  ShellInv'
  <1>0. KidsOK /\ KidsOK'
    BY DEF ShellInv, SameKids
  <1>1. ListOK(processes)' /\ PidsOf(processes)' = PidsOf(processes)
    BY DEF ShellInv
  <1>2. Foreground'
    BY DEF ShellInv, Foreground, Busy, SameKids
  <1>3. FreedLate'
    BY DEF ShellInv, FreedLate
  <1>4. pc' # "undefined" => pc # "undefined" /\ H!Mine' = H!Mine
    BY DEF H!Mine, SameKids, Busy
  <1>5. Exact'
    BY <1>1, <1>4 DEF ShellInv, Exact
  <1>6. InWindow'
    BY DEF ShellInv, InWindow, SameKids, Busy
  <1>7. GroupOK'
    BY DEF ShellInv, GroupOK, SameKids, Busy
  <1> QED BY <1>0, <1>1, <1>2, <1>3, <1>5, <1>6, <1>7 DEF ShellInv
LEMMA ReapStep ==
    ASSUME ShellInv, H!Reap
    PROVE  ShellInv'
  <1>0. /\ pc = "reap" /\ UNCHANGED <<child, child_pid>>
    BY DEF H!Reap
  <1>1. PICK p \in Pids : \E k \in DOMAIN processes :
          /\ kid[p] \in H!Ended /\ processes[k].pid = p
          /\ kid' = [kid EXCEPT ![p] = "none"] /\ group' = group \ {p} /\ reaped' = TRUE
          /\ IF \E j \in 1 .. k : processes[j].freed
             THEN pc' = "undefined" /\ UNCHANGED processes
             ELSE processes' = H!ListAfter(k) /\ UNCHANGED pc
    BY DEF H!Reap, H!Collected
  <1>2. PICK k \in DOMAIN processes :
          /\ kid[p] \in H!Ended /\ processes[k].pid = p
          /\ kid' = [kid EXCEPT ![p] = "none"] /\ group' = group \ {p} /\ reaped' = TRUE
          /\ IF \E j \in 1 .. k : processes[j].freed
             THEN pc' = "undefined" /\ UNCHANGED processes
             ELSE processes' = H!ListAfter(k) /\ UNCHANGED pc
    BY <1>1
  <1>3. ListOK(processes) /\ KidsOK /\ child = NONE /\ DOMAIN processes = 1 .. Len(processes)
        /\ PidsOf(processes) = {SHELL} \cup H!Mine
    BY <1>0 DEF ShellInv, Foreground, Exact, ListOK
  <1>4. KidsOK' /\ InWindow' /\ GroupOK'
    <2>1. KidsOK'
      BY <1>2, <1>3 DEF KidsOK, KidStates
    <2>2. InWindow /\ GroupOK
      BY DEF ShellInv
    <2>3. \A x \in Pids : kid'[x] = IF x = p THEN "none" ELSE kid[x]
      BY <1>2, <1>3 DEF KidsOK
    <2>4. InWindow'
      BY <1>0, <2>2, <2>3 DEF InWindow, Window
    <2>5. GroupOK'
      BY <1>0, <1>2, <2>2, <2>3 DEF GroupOK
    <2> QED BY <2>1, <2>4, <2>5
  <1>5. FreedLate'
    BY <1>2 DEF FreedLate
  <1>6. CASE pc' = "undefined" /\ UNCHANGED processes
    <2>1. ListOK(processes)'
      BY <1>3, <1>6
    <2>2. Foreground' /\ Exact'
      BY <1>0, <1>3, <1>6 DEF Foreground, Exact, Busy
    <2> QED BY <1>4, <1>5, <2>1, <2>2 DEF ShellInv
  <1>7. CASE processes' = H!ListAfter(k) /\ UNCHANGED pc
    <2>1. RemovedAt(H!ListAfter(k), processes, k)
      BY <1>3, ListAfterRemoves
    <2>2. ListOK(H!ListAfter(k)) /\ PidsOf(H!ListAfter(k)) = PidsOf(processes) \ {p}
      BY <1>2, <1>3, <2>1, ListRemoved
    <2>3. ListOK(processes') /\ PidsOf(processes') = PidsOf(processes) \ {p}
      BY <1>7, <2>2
    <2>4. H!Mine' = H!Mine \ {p}
      BY <1>0, <1>2, <1>3, <1>7 DEF H!Mine, KidsOK
    <2>5. p # SHELL
      BY PidsAssumption DEF H!PidsOK
    <2>6. Exact'
      BY <1>3, <2>3, <2>4, <2>5 DEF Exact
    <2>7. Foreground'
      BY <1>0, <1>3, <1>7 DEF Foreground, Busy
    <2> QED BY <1>4, <1>5, <2>3, <2>6, <2>7 DEF ShellInv
  <1> QED BY <1>2, <1>6, <1>7

\* background(): the child is new, and goes to the end of the list.
LEMMA BackgroundStep ==
    ASSUME ShellInv, pc = "dispatch", UNCHANGED <<child, reaped>>, NEW p \in Pids, H!Born(p, "ready"),
           pc' = "setpgid", processes' = Append(processes, [pid |-> p, freed |-> FALSE])
    PROVE  ShellInv'
  <1>0. /\ kid[p] = "none" /\ kid' = [kid EXCEPT ![p] = "ready"]
        /\ group' = group \cup {p} /\ child_pid' = p
    BY DEF H!Born
  <1>1. ListOK(processes) /\ KidsOK /\ child = NONE /\ PidsOf(processes) = {SHELL} \cup H!Mine
    BY DEF ShellInv, Foreground, Exact
  <1>2. p \notin PidsOf(processes)
    BY <1>0, <1>1, PidsAssumption DEF H!Mine, H!PidsOK
  <1>3. /\ ListOK(processes') /\ PidsOf(processes') = PidsOf(processes) \cup {p}
        /\ NoneFreed(processes', processes)
    <2>1. ASSUME NEW qs, qs = Append(processes, [pid |-> p, freed |-> FALSE])
          PROVE  ListOK(qs) /\ PidsOf(qs) = PidsOf(processes) \cup {p} /\ NoneFreed(qs, processes)
      BY <1>1, <1>2, <2>1, ListAppend
    <2> QED BY <2>1
  <1>4. KidsOK' /\ Foreground'
    BY <1>0, <1>1 DEF KidsOK, KidStates, H!Alive, Foreground
  <1>5. \A q \in Pids : kid'[q] = IF q = p THEN "ready" ELSE kid[q]
    BY <1>0, <1>1 DEF KidsOK
  <1>6. InWindow'
    BY <1>5 DEF ShellInv, InWindow, Window
  <1>7. GroupOK'
    BY <1>0, <1>5 DEF ShellInv, GroupOK
  <1>8. H!Mine' = H!Mine \cup {p}
    BY <1>5 DEF H!Mine
  <1>9. Exact'
    BY <1>1, <1>3, <1>8 DEF Exact
  <1>10. FreedLate'
    BY <1>3 DEF FreedLate, ShellInv, NoneFreed
  <1> QED BY <1>3, <1>4, <1>6, <1>7, <1>9, <1>10 DEF ShellInv

\* kill, stop and cont change no child from or to "none".
LEMMA SignalKids ==
    ASSUME ShellInv, pc = "dispatch", H!Signal
    PROVE  SameKids /\ pc' \in {"undefined", "exited", "reap"}
  <1>1. pc' \in {"undefined", "exited", "reap"}
    BY DEF H!Signal
  <1>2. KidsOK
    BY DEF ShellInv
  <1>3. kid' = [p \in Pids |-> IF p \in H!Target /\ line.signal = "kill" THEN "killed" ELSE kid[p]]
    BY DEF H!Signal
  <1>4. \A p \in H!Target : kid[p] \in H!Alive
    BY DEF H!Target
  <1> QED BY <1>1, <1>2, <1>3, <1>4 DEF SameKids, KidsOK, KidStates, Window, H!Alive, H!Ended

LEMMA RuncommandStep ==
    ASSUME ShellInv, H!runcommand
    PROVE  ShellInv'
  <1>0. pc = "dispatch" /\ UNCHANGED <<child, reaped>> /\ KidsOK
    BY DEF H!runcommand, ShellInv
  <1>1. ASSUME UNCHANGED <<H!kids, processes>>, pc' \notin Busy PROVE ShellInv'
    <2>1. SameKids /\ UNCHANGED <<child_pid, group>>
      BY <1>0, <1>1 DEF SameKids, KidsOK, H!kids
    <2> QED BY <1>0, <1>1, <2>1, SameChildren DEF Busy
  <1>2. CASE H!Simple
    BY <1>1, <1>2 DEF H!Simple, Busy
  <1>3. CASE H!Exit
    BY <1>1, <1>3 DEF H!Exit, Busy
  <1>4. CASE H!Ps
    BY <1>1, <1>4 DEF H!Ps, Busy
  <1>5. CASE H!FirstN
    BY <1>1, <1>5 DEF H!FirstN, Busy
  <1>6. CASE H!Prefix
    BY <1>1, <1>6 DEF H!Prefix, Busy
  <1>7. CASE H!Signal
    <2>1. SameKids /\ pc' \in {"undefined", "exited", "reap"}
      BY <1>0, <1>7, SignalKids
    <2>2. UNCHANGED <<processes, child_pid, group>>
      BY <1>7 DEF H!Signal
    <2> QED BY <1>0, <2>1, <2>2, SameChildren DEF Busy
  <1>8. CASE H!Background
    <2>1. CASE pc' = "exited" /\ UNCHANGED <<H!kids, processes>>
      BY <1>1, <2>1 DEF Busy
    <2>2. ASSUME NEW p \in Pids, H!Born(p, "ready"), pc' = "setpgid",
                 processes' = Append(processes, [pid |-> p, freed |-> FALSE])
          PROVE  ShellInv'
      BY <1>0, <2>2, BackgroundStep
    <2> QED BY <1>8, <2>1, <2>2 DEF H!Background
  <1>9. CASE H!Commands
    BY <1>1, <1>9 DEF H!Commands, Busy
  <1> QED BY <1>2, <1>3, <1>4, <1>5, <1>6, <1>7, <1>8, <1>9 DEF H!runcommand

LEMMA SetpgidStep ==
    ASSUME ShellInv, H!Setpgid
    PROVE  ShellInv'
  <1>0. /\ pc = "setpgid" /\ pc' = "reap" /\ UNCHANGED <<processes, child, kid, reaped>>
        /\ group' = IF kid[child_pid] = "ready" THEN group \ {child_pid} ELSE group
    BY DEF H!Setpgid
  <1>1. ListOK(processes)' /\ PidsOf(processes)' = PidsOf(processes) /\ KidsOK'
    BY <1>0 DEF ShellInv, KidsOK
  <1>2. Foreground' /\ InWindow' /\ GroupOK'
    BY <1>0 DEF ShellInv, Foreground, InWindow, GroupOK, Busy
  <1>3. H!Mine' = H!Mine
    BY <1>0 DEF H!Mine
  <1>4. Exact' /\ FreedLate'
    BY <1>0, <1>1, <1>3 DEF Exact, FreedLate, ShellInv
  <1> QED BY <1>1, <1>2, <1>4 DEF ShellInv

LEMMA RunStep ==
    ASSUME ShellInv, H!run
    PROVE  ShellInv'
  <1>0. pc = "run" /\ UNCHANGED <<processes, child, reaped>> /\ KidsOK
    BY DEF H!run, ShellInv
  <1>1. ASSUME UNCHANGED H!kids, pc' \in {"run", "exited"} PROVE ShellInv'
    <2>1. SameKids /\ UNCHANGED <<child_pid, group>>
      BY <1>0, <1>1 DEF SameKids, KidsOK, H!kids
    <2> QED BY <1>0, <1>1, <2>1, SameChildren DEF Busy
  <1>2. ASSUME NEW p \in Pids, H!Born(p, "forked"), pc' = "assign" PROVE ShellInv'
    <2>0. /\ kid[p] = "none" /\ kid' = [kid EXCEPT ![p] = "forked"]
          /\ group' = group \cup {p} /\ child_pid' = p
      BY <1>2 DEF H!Born
    <2>1. ListOK(processes)' /\ PidsOf(processes)' = PidsOf(processes)
      BY <1>0 DEF ShellInv
    <2>2. KidsOK' /\ Foreground'
      BY <1>0, <1>2, <2>0 DEF KidsOK, KidStates, H!Alive, Foreground, ShellInv
    <2>3. \A q \in Pids : kid'[q] = IF q = p THEN "forked" ELSE kid[q]
      BY <1>0, <2>0 DEF KidsOK
    <2>4. InWindow' /\ GroupOK'
      BY <1>0, <1>2, <2>0, <2>3 DEF InWindow, GroupOK, ShellInv
    <2>5. H!Mine' = H!Mine
      BY <1>0, <1>2, <2>0, <2>3 DEF H!Mine
    <2>6. Exact' /\ FreedLate'
      BY <1>0, <1>2, <2>1, <2>5 DEF Exact, FreedLate, ShellInv
    <2> QED BY <2>1, <2>2, <2>4, <2>6 DEF ShellInv
  <1> QED BY <1>0, <1>1, <1>2 DEF H!run

LEMMA AssignStep ==
    ASSUME ShellInv, H!AssignChild
    PROVE  ShellInv'
  <1>0. /\ pc = "assign" /\ pc' = "wait" /\ child' = child_pid
        /\ UNCHANGED <<processes, child_pid, kid, group, reaped>>
    BY DEF H!AssignChild, H!kids
  <1>1. ListOK(processes)' /\ PidsOf(processes)' = PidsOf(processes) /\ KidsOK'
    BY <1>0 DEF ShellInv, KidsOK
  <1>2. Foreground' /\ InWindow' /\ GroupOK'
    BY <1>0 DEF ShellInv, Foreground, InWindow, GroupOK, Busy
  <1>3. H!Mine' = H!Mine
    BY <1>0 DEF H!Mine
  <1>4. Exact' /\ FreedLate'
    BY <1>0, <1>1, <1>3 DEF Exact, FreedLate, ShellInv
  <1> QED BY <1>1, <1>2, <1>4 DEF ShellInv

LEMMA WaitedStep ==
    ASSUME ShellInv, H!Waited
    PROVE  ShellInv'
  <1>0. /\ pc = "wait" /\ pc' = "waited" /\ kid' = [kid EXCEPT ![child_pid] = "none"]
        /\ group' = group \ {child_pid} /\ UNCHANGED <<processes, child, child_pid, reaped>>
    BY DEF H!Waited, H!Collected
  <1>1. child_pid \in Pids /\ KidsOK
    BY <1>0 DEF ShellInv, Foreground, Busy
  <1>2. ListOK(processes)' /\ PidsOf(processes)' = PidsOf(processes)
    BY <1>0 DEF ShellInv
  <1>3. \A q \in Pids : kid'[q] = IF q = child_pid THEN "none" ELSE kid[q]
    BY <1>0, <1>1 DEF KidsOK
  <1>4. KidsOK'
    BY <1>0, <1>1 DEF KidsOK, KidStates
  <1>5. Foreground' /\ InWindow' /\ GroupOK'
    BY <1>0, <1>1, <1>3 DEF ShellInv, Foreground, InWindow, GroupOK, Window
  <1>6. H!Mine' = H!Mine
    BY <1>0, <1>1, <1>3 DEF H!Mine
  <1>7. Exact' /\ FreedLate'
    BY <1>0, <1>2, <1>6 DEF Exact, FreedLate, ShellInv
  <1> QED BY <1>2, <1>4, <1>5, <1>7 DEF ShellInv

LEMMA ForgetStep ==
    ASSUME ShellInv, H!ForgetChild
    PROVE  ShellInv'
  <1>0. /\ pc = "waited" /\ pc' = "run" /\ child' = NONE
        /\ UNCHANGED <<processes, kid, group, reaped>>
    BY DEF H!ForgetChild, H!Forgotten
  <1>1. ListOK(processes)' /\ PidsOf(processes)' = PidsOf(processes) /\ KidsOK'
    BY <1>0 DEF ShellInv, KidsOK
  <1>2. Foreground' /\ InWindow' /\ GroupOK'
    BY <1>0 DEF ShellInv, Foreground, InWindow, GroupOK, Busy
  <1>3. H!Mine' = H!Mine
    BY <1>0 DEF H!Mine
  <1>4. Exact' /\ FreedLate'
    BY <1>0, <1>1, <1>3 DEF Exact, FreedLate, ShellInv
  <1> QED BY <1>1, <1>2, <1>4 DEF ShellInv

\* What a child does, and what SIGINT does to children, leaves them the shell's.
LEMMA KidStep ==
    ASSUME ShellInv, NEW p \in Pids, NEW s \in KidStates, H!KidGoes(p, s), kid[p] # "none", s # "none",
           s \in Window => kid[p] \in Window, s # "ready"
    PROVE  ShellInv'
  <1>1. KidsOK /\ kid' = [kid EXCEPT ![p] = s]
        /\ UNCHANGED <<pc, processes, child, child_pid, group, reaped>>
    BY DEF ShellInv, H!KidGoes
  <1>2. SameKids
    BY <1>1 DEF SameKids, KidsOK
  <1> QED BY <1>1, <1>2, SameChildren

LEMMA InterruptStep ==
    ASSUME ShellInv, H!Interrupt
    PROVE  ShellInv'
  <1>1. UNCHANGED <<pc, processes, child, child_pid, group, reaped>> /\ KidsOK
    BY DEF ShellInv, H!Interrupt
  <1>2. PICK R : kid' = [p \in Pids |-> IF p \in H!handler(R) THEN H!Struck(p) ELSE kid[p]]
    BY DEF H!Interrupt
  <1>3. \A p \in Pids : /\ H!Struck(p) \in KidStates /\ (H!Struck(p) = "none" <=> kid[p] = "none")
                        /\ H!Struck(p) \in Window => kid[p] \in Window
                        /\ H!Struck(p) = "ready" => kid[p] = "ready"
    BY <1>1 DEF H!Struck, KidsOK, KidStates, H!Alive, H!Ended, Window
  <1>4. \A p \in Pids : kid'[p] = H!Struck(p) \/ kid'[p] = kid[p]
    BY <1>2
  <1>5. SameKids
    BY <1>1, <1>2, <1>3, <1>4 DEF SameKids, KidsOK
  <1> QED BY <1>1, <1>5, SameChildren

LEMMA ShellInductive == H!Spec => []ShellInv
  <1>1. H!Init => ShellInv
    BY ShellStart
  <1>2. ShellInv /\ [H!Next]_(H!vars) => ShellInv'
    <2> SUFFICES ASSUME ShellInv, [H!Next]_(H!vars) PROVE ShellInv'
      OBVIOUS
    <2>0. ASSUME UNCHANGED <<processes, child, child_pid, kid, group, reaped>>,
                 \/ pc' = pc
                 \/ pc \notin Busy \cup {"undefined"} /\ pc' \notin Busy
          PROVE  ShellInv'
      <3>1. SameKids
        BY <2>0 DEF ShellInv, KidsOK, SameKids
      <3> QED BY <2>0, <3>1, SameChildren
    <2>1. CASE H!Reaped
      BY <2>0, <2>1 DEF H!Reaped, H!kids, Busy
    <2>2. CASE H!ReadLine
      BY <2>0, <2>2 DEF H!ReadLine, H!kids, Busy
    <2>3. CASE H!EndOfInput
      BY <2>0, <2>3 DEF H!EndOfInput, H!kids, Busy
    <2>4. CASE H!RunDone
      BY <2>0, <2>4 DEF H!RunDone, H!kids, Busy
    <2>5. ASSUME NEW p \in Pids, H!ChildAssigns(p) PROVE ShellInv'
      <3>1. kid[p] = "forked" /\ H!KidGoes(p, "zeroed")
        BY <2>5 DEF H!ChildAssigns
      <3> QED BY <3>1, KidStep DEF KidStates, H!Alive, Window
    <2>6. ASSUME NEW p \in Pids, H!Exec(p) PROVE ShellInv'
      <3>1. kid[p] \in {"zeroed", "ready"} /\ H!KidGoes(p, "running")
        BY <2>6 DEF H!Exec
      <3> QED BY <3>1, KidStep DEF KidStates, H!Alive, Window
    <2>7. ASSUME NEW p \in Pids, H!ChildEnds(p) PROVE ShellInv'
      <3>1. PICK s \in H!Ended : H!KidGoes(p, s)
        BY <2>7 DEF H!ChildEnds
      <3>2. kid[p] # "none"
        BY <2>7 DEF H!ChildEnds, H!Alive
      <3>3. s \in KidStates /\ s # "none" /\ s \notin Window /\ s # "ready"
        BY DEF KidStates, H!Ended, Window
      <3> QED BY <3>1, <3>2, <3>3, KidStep
    <2>8. CASE UNCHANGED H!vars
      BY <2>0, <2>8 DEF H!vars
    <2> QED BY <2>1, <2>2, <2>3, <2>4, <2>5, <2>6, <2>7, <2>8, ReapStep, RuncommandStep, SetpgidStep,
               RunStep, AssignStep, WaitedStep, ForgetStep, InterruptStep DEF H!Next
  <1> QED BY <1>1, <1>2, PTL DEF H!Spec

\* One entry for each pid: as many entries as pids.
LEMMA CountEntries ==
    ASSUME NEW ps, ListOK(ps), NEW M, PidsOf(ps) = {SHELL} \cup M, SHELL \notin M
    PROVE  Len(ps) = 1 + H!Cardinality(M)
  <1>0. Len(ps) \in Nat /\ \A i, j \in 1 .. Len(ps) : ps[i].pid = ps[j].pid => i = j
    BY DEF ListOK
  <1> DEFINE f == [i \in 1 .. Len(ps) |-> ps[i].pid]
             All == {SHELL} \cup M
  <1>1. f \in Bijection(1 .. Len(ps), All)
    <2>1. f \in [1 .. Len(ps) -> All]
      BY DEF PidsOf
    <2>2. \A i, j \in 1 .. Len(ps) : f[i] = f[j] => i = j
      BY <1>0
    <2>3. \A x \in All : \E i \in 1 .. Len(ps) : f[i] = x
      BY DEF PidsOf
    <2> HIDE DEF f, All
    <2> QED BY <2>1, <2>2, <2>3 DEF Bijection, Injection, Surjection, IsInjective
  <1>2. Cardinality(All) = Len(ps)
    <2>1. ExistsBijection(1 .. Len(ps), All)
      BY <1>1 DEF ExistsBijection
    <2> HIDE DEF f, All
    <2> QED BY <1>0, <2>1, FS_CountingElements
  <1>3. IsFiniteSet(M)
    <2>1. IsFiniteSet(1 .. Len(ps))
      BY <1>0, FS_Interval
    <2>2. IsFiniteSet(All)
      <3> HIDE DEF All
      <3> QED BY <1>1, <2>1, FS_Bijection DEF ExistsBijection
    <2> QED BY <2>2, FS_Subset
  <1>4. Cardinality(All) = Cardinality(M) + 1
    BY <1>3, FS_AddElement
  <1>5. H!Cardinality(M) = Cardinality(M)
    BY DEF H!Cardinality, H!IsFiniteSet, Cardinality, IsFiniteSet
  <1>6. Cardinality(M) \in Nat
    BY <1>3, FS_CardinalityType
  <1> QED BY <1>2, <1>4, <1>5, <1>6

\* The list of shell.c has the shell and each background child it has not
\* reaped, exactly once, whatever ends, is signalled or is reaped in between,
\* for any lines typed; and no entry is freed before a background child was
\* reaped (reapchildren, lines 52-69).
THEOREM ListMatchesChildren == H!Spec => []ShellListExact
  <1>1. ShellInv => ShellListExact
    <2> SUFFICES ASSUME ShellInv PROVE ShellListExact
      OBVIOUS
    <2>1. H!Listed = PidsOf(processes)
      <3>1. DOMAIN processes = 1 .. Len(processes)
        BY DEF ShellInv, ListOK
      <3> QED BY <3>1 DEF H!Listed, PidsOf
    <2>2. SHELL \notin H!Mine
      BY PidsAssumption DEF H!Mine, H!PidsOK
    <2>3. pc # "undefined" => /\ H!Listed = {SHELL} \cup H!Mine
                              /\ Len(processes) = 1 + H!Cardinality(H!Mine)
      BY <2>1, <2>2, CountEntries DEF ShellInv, Exact
    <2>4. (\E i \in DOMAIN processes : processes[i].freed) => reaped
      BY DEF ShellInv, FreedLate
    <2> QED BY <2>3, <2>4 DEF ShellListExact, H!ShellListExact
  <1> QED BY <1>1, ShellInductive, PTL

\* The shell's handler of SIGINT (lines 47-51) can only signal the foreground
\* child that external() is waiting for, which is in nobody's list, and a pid that
\* is free exactly between waitpid() and the reset of child; the handler a child
\* inherits signals the group only in the foreground, between line 227 and
\* execvp(), and then no background child is in the group but one whose own
\* execvp() came before setpgid().
THEOREM HandlerReachesForeground == H!Spec => []InterruptsForeground
  <1>1. ShellInv => InterruptsForeground
    <2> SUFFICES ASSUME ShellInv PROVE InterruptsForeground
      OBVIOUS
    <2>0. Foreground /\ InWindow /\ GroupOK
      BY DEF ShellInv
    <2>1. ASSUME child # NONE
          PROVE  /\ pc \in {"wait", "waited"} /\ child \notin H!Listed
                 /\ kid[child] = "none" <=> pc = "waited"
      <3>1. /\ pc \in {"wait", "waited"} /\ child = child_pid /\ child \in Pids
            /\ kid[child] = "none" <=> pc = "waited"
        BY <2>0, <2>1 DEF Foreground, Busy
      <3>2. H!Listed = PidsOf(processes)
        <4>1. DOMAIN processes = 1 .. Len(processes)
          BY DEF ShellInv, ListOK
        <4> QED BY <4>1 DEF H!Listed, PidsOf
      <3>3. child \notin {SHELL} \cup H!Mine
        BY <3>1, PidsAssumption DEF H!Mine, H!PidsOK
      <3> QED BY <3>1, <3>2, <3>3 DEF ShellInv, Exact
    <2>2. ASSUME NEW p \in Pids, kid[p] \in {"zeroed", "looping"}
          PROVE  /\ pc \in {"assign", "wait"} /\ p = child_pid
                 /\ \A q \in group \cap H!Listed : kid[q] # "ready"
      <3>1. pc \in {"assign", "wait"} /\ p = child_pid
        BY <2>0, <2>2 DEF InWindow, Window
      <3> QED BY <2>0, <3>1 DEF GroupOK
    <2> QED BY <2>1, <2>2 DEF InterruptsForeground, H!InterruptsForeground
  <1> QED BY <1>1, ShellInductive, PTL

-----------------------------------------------------------------------------
(* vector.c: the capacity that get_new_capacity computes.                  *)

LEMMA Growth == /\ GROWTH_FACTOR \in Nat /\ GROWTH_FACTOR > 1
                /\ INITIAL_CAPACITY \in Nat /\ MaxSize \in Nat
  BY GrowthAssumption DEF V!GrowthOK

\* < on the natural numbers is a well-founded relation.
LEMMA LessThan ==
    \E less : /\ IsWellFoundedOn(less, Nat)
              /\ \A x \in Nat : \A y \in Nat : x < y => <<x, y>> \in less
  <1> DEFINE less == OpToRel(<, Nat)
  <1>1. IsWellFoundedOn(less, Nat)
    BY NatLessThanWellFounded, Zenon
  <1>2. \A x \in Nat : \A y \in Nat : x < y => <<x, y>> \in less
    BY DEF OpToRel
  <1> HIDE DEF less
  <1> QED BY <1>1, <1>2, Zenon

LEMMA MinimalElement ==
    ASSUME NEW Q \in SUBSET Nat, Q # {}, NEW less, IsWellFoundedOn(less, Nat)
    PROVE  \E x \in Q : \A y \in Q : ~(<<y, x>> \in less)
  BY WFMin, Zenon

LEMMA Lowest ==
    ASSUME NEW T, T \subseteq Nat, T # {}
    PROVE  \E i \in T : \A j \in T : i <= j
  <1>1. PICK less : /\ IsWellFoundedOn(less, Nat)
                    /\ \A x \in Nat : \A y \in Nat : x < y => <<x, y>> \in less
    BY LessThan
  <1>2. T \in SUBSET Nat
    OBVIOUS
  <1>3. PICK i \in T : \A j \in T : ~(<<j, i>> \in less)
    BY <1>1, <1>2, MinimalElement
  <1>4. \A j \in T : ~(j < i)
    BY <1>1, <1>2, <1>3
  <1> QED BY <1>2, <1>4

LEMMA Highest ==
    ASSUME NEW n \in Nat, NEW T, \A x \in T : x \in Nat /\ x <= n, T # {}
    PROVE  \E i \in T : \A j \in T : j <= i
  <1> DEFINE M == {m \in Nat : n - m \in T}
  <1>1. M \subseteq Nat /\ M # {}
    <2>1. PICK t \in T : TRUE
      OBVIOUS
    <2>2. n - t \in Nat /\ n - (n - t) = t
      BY <2>1
    <2> QED BY <2>1, <2>2
  <1>2. PICK m \in M : \A k \in M : m <= k
    BY <1>1, Lowest
  <1>3. ASSUME NEW j \in T PROVE j <= n - m
    <2>1. n - j \in Nat /\ n - (n - j) = j /\ j \in Nat
      OBVIOUS
    <2>2. m <= n - j
      BY <1>2, <2>1
    <2> QED BY <1>2, <2>1, <2>2
  <1> QED BY <1>2, <1>3

\* One turn of the loop: the capacity grows, and stays below n * GROWTH_FACTOR.
LEMMA OneTurn ==
    ASSUME NEW n \in Nat, NEW c \in Nat, c > 0, c < n
    PROVE  /\ c * GROWTH_FACTOR \in Nat /\ n * GROWTH_FACTOR \in Nat
           /\ c * GROWTH_FACTOR > c /\ c * GROWTH_FACTOR <= n * GROWTH_FACTOR
  <1> DEFINE g == GROWTH_FACTOR
  <1>1. g \in Nat /\ g > 1
    BY Growth
  <1> HIDE DEF g
  <1>2. c * g \in Nat /\ n * g \in Nat
    BY <1>1
  <1>3. c * g > c
    BY <1>1
  <1>4. c * g <= n * g
    BY <1>1
  <1> QED BY <1>2, <1>3, <1>4 DEF g

\* The loop from capacity c on, as the recursive function of get_new_capacity,
\* and the same for the capacities above m only.
Grows(f, n) == f = [c \in 1 .. n * GROWTH_FACTOR |->
                      IF c < n THEN f[c * GROWTH_FACTOR] ELSE c]
GrowsAbove(f, n, m) == \A c \in m + 1 .. n * GROWTH_FACTOR :
                         f[c] = IF c < n THEN f[c * GROWTH_FACTOR] ELSE c

LEMMA GrowsExists ==
    ASSUME NEW n \in Nat, n > 0
    PROVE  \E f : Grows(f, n)
  <1> DEFINE N == n * GROWTH_FACTOR
             T == {m \in Nat : m <= N /\ \E f : GrowsAbove(f, n, m)}
  <1>0. N \in Nat
    BY Growth
  <1>1. N \in T
    <2>1. GrowsAbove(<<>>, n, N)
      BY <1>0 DEF GrowsAbove
    <2> QED BY <1>0, <2>1
  <1>2. PICK m \in T : \A j \in T : m <= j
    <2>1. T \subseteq Nat /\ T # {}
      BY <1>1
    <2> HIDE DEF T
    <2> QED BY <2>1, Lowest
  <1>3. PICK f : GrowsAbove(f, n, m)
    BY <1>2
  <1>4. m \in Nat /\ m <= N
    BY <1>2
  <1>5. ASSUME m > 0 PROVE FALSE
    <2> DEFINE h == [c \in m .. N |-> IF c = m THEN IF m < n THEN f[m * GROWTH_FACTOR] ELSE m
                                      ELSE f[c]]
    <2>1. ASSUME NEW c \in m .. N, c < n
          PROVE  c * GROWTH_FACTOR \in m + 1 .. N
      BY <1>0, <1>4, <1>5, <2>1, OneTurn
    <2>2. ASSUME NEW c \in m .. N
          PROVE  h[c] = IF c < n THEN h[c * GROWTH_FACTOR] ELSE c
      <3>1. CASE c = m
        <4>1. CASE c < n
          <5>1. c * GROWTH_FACTOR \in m + 1 .. N
            BY <2>1, <4>1
          <5>2. h[c * GROWTH_FACTOR] = f[c * GROWTH_FACTOR]
            BY <1>4, <5>1
          <5> QED BY <3>1, <4>1, <5>2
        <4>2. CASE ~(c < n)
          BY <3>1, <4>2
        <4> QED BY <4>1, <4>2
      <3>2. CASE c # m
        <4>0. c \in m + 1 .. N /\ h[c] = f[c]
          BY <1>0, <1>4, <3>2
        <4>1. f[c] = IF c < n THEN f[c * GROWTH_FACTOR] ELSE c
          BY <1>3, <4>0 DEF GrowsAbove
        <4>2. CASE c < n
          <5>1. c * GROWTH_FACTOR \in m + 1 .. N
            BY <2>1, <4>2
          <5>2. h[c * GROWTH_FACTOR] = f[c * GROWTH_FACTOR]
            BY <1>4, <5>1
          <5> QED BY <4>0, <4>1, <4>2, <5>2
        <4>3. CASE ~(c < n)
          BY <4>0, <4>1, <4>3
        <4> QED BY <4>2, <4>3
      <3> QED BY <3>1, <3>2
    <2> HIDE DEF h
    <2>3. m - 1 \in Nat /\ (m - 1) + 1 = m /\ m - 1 <= N /\ ~(m <= m - 1)
      BY <1>0, <1>4, <1>5
    <2>4. GrowsAbove(h, n, m - 1)
      BY <2>2, <2>3 DEF GrowsAbove
    <2>5. m - 1 \in T
      BY <2>3, <2>4
    <2> QED BY <1>2, <2>3, <2>5
  <1>6. GrowsAbove(f, n, 0)
    BY <1>3, <1>4, <1>5
  <1> DEFINE k == [c \in 1 .. N |-> f[c]]
  <1>7. ASSUME NEW c \in 1 .. N PROVE k[c] = IF c < n THEN k[c * GROWTH_FACTOR] ELSE c
    <2>1. f[c] = IF c < n THEN f[c * GROWTH_FACTOR] ELSE c
      BY <1>6 DEF GrowsAbove
    <2>2. c < n => c * GROWTH_FACTOR \in 1 .. N
      BY <1>0, OneTurn
    <2> QED BY <2>1, <2>2
  <1>8. k = [c \in 1 .. N |-> k[c]]
    OBVIOUS
  <1> HIDE DEF k
  <1>9. Grows(k, n)
    BY <1>7, <1>8 DEF Grows
  <1> QED BY <1>9

\* The capacity that vector.c asks malloc for is enough.
LEMMA EnoughCapacity ==
    ASSUME NEW n \in Nat, n > 0
    PROVE  V!get_new_capacity(n) \in Nat /\ V!get_new_capacity(n) >= n
  <1> DEFINE N == n * GROWTH_FACTOR
             f == CHOOSE f : Grows(f, n)
             T == {c \in 1 .. N : ~(f[c] \in Nat /\ f[c] >= n)}
  <1>0. N \in Nat /\ 1 \in 1 .. N
    BY Growth
  <1>1. V!get_new_capacity(n) = f[1]
    BY DEF V!get_new_capacity, Grows
  <1>2. Grows(f, n)
    BY GrowsExists
  <1> HIDE DEF f
  <1>3. \A c \in 1 .. N : f[c] = IF c < n THEN f[c * GROWTH_FACTOR] ELSE c
    BY <1>2 DEF Grows
  <1>4. ASSUME T # {} PROVE FALSE
    <2>0. \A x \in T : x \in Nat /\ x <= N
      BY <1>0
    <2>1. PICK c \in T : \A j \in T : j <= c
      <3> HIDE DEF T
      <3> QED BY <1>0, <1>4, <2>0, Highest
    <2>2. c \in Nat /\ c > 0 /\ c \in 1 .. N /\ ~(f[c] \in Nat /\ f[c] >= n)
      BY <2>1
    <2>3. c < n /\ f[c] = f[c * GROWTH_FACTOR]
      BY <1>3, <2>2
    <2>4. c * GROWTH_FACTOR \in 1 .. N /\ c * GROWTH_FACTOR > c /\ c * GROWTH_FACTOR \in Nat
      BY <1>0, <2>2, <2>3, OneTurn
    <2>5. c * GROWTH_FACTOR \notin T
      BY <2>1, <2>2, <2>4
    <2> QED BY <2>2, <2>3, <2>4, <2>5
  <1> QED BY <1>0, <1>1, <1>4
-----------------------------------------------------------------------------
(* What vector.c keeps: the array a has n elements, ob are their copies    *)
(* and ex their values.                                                    *)

Slot == Address \cup {NULL, JUNK}
Element == Values \cup {Default}

VectorTypes(a, n, ob, ex) ==
  /\ a \in Seq(Slot) /\ n \in Nat /\ n <= Len(a)
  /\ ex \in Seq(Element) /\ Len(ex) = n /\ DOMAIN ob \subseteq Address
Stored(a, n, ob, ex) == \A i \in 1 .. n : a[i] \in DOMAIN ob /\ ob[a[i]] = ex[i]
Apart(a, n) == \A i, j \in 1 .. n : a[i] = a[j] => i = j
AllIn(a, n, ob) == \A p \in DOMAIN ob : \E i \in 1 .. n : a[i] = p

Holds(a, n, ob, ex) == VectorTypes(a, n, ob, ex) /\ Stored(a, n, ob, ex)
                       /\ Apart(a, n) /\ AllIn(a, n, ob)

VectorInv == Holds(array, size, objects, expected) /\ capacity = Len(array)

\* b and ey are a and ex with what f says at each place.
Placed(a, n, ex, b, m, ey, f) ==
  /\ f \in [1 .. m -> 1 .. n]
  /\ \A i, j \in 1 .. m : f[i] = f[j] => i = j
  /\ \A i \in 1 .. m : b[i] = a[f[i]] /\ ey[i] = ex[f[i]]

\* The copies that are left are those of the places in f, as they were.
Kept(a, m, ob, oc, f) ==
  /\ \A p \in DOMAIN oc : p \in DOMAIN ob /\ oc[p] = ob[p] /\ \E i \in 1 .. m : p = a[f[i]]
  /\ \A i \in 1 .. m : a[f[i]] \in DOMAIN oc

\* Elements moved to other places and dropped, without copying: every call that
\* reallocates, shifts or shrinks.
LEMMA Moved ==
    ASSUME NEW a, NEW n, NEW ob, NEW ex, Holds(a, n, ob, ex),
           NEW b, NEW m, NEW oc, NEW ey, VectorTypes(b, m, oc, ey),
           NEW f, Placed(a, n, ex, b, m, ey, f), Kept(a, m, ob, oc, f)
    PROVE  Holds(b, m, oc, ey)
  <1>0. VectorTypes(a, n, ob, ex) /\ Stored(a, n, ob, ex) /\ Apart(a, n) /\ AllIn(a, n, ob)
    BY DEF Holds
  <1>1. \A i \in 1 .. m : f[i] \in 1 .. n /\ b[i] = a[f[i]] /\ ey[i] = ex[f[i]]
    BY DEF Placed
  <1>2. Stored(b, m, oc, ey)
    <2> SUFFICES ASSUME NEW i \in 1 .. m PROVE b[i] \in DOMAIN oc /\ oc[b[i]] = ey[i]
      BY DEF Stored
    <2>1. a[f[i]] \in DOMAIN oc /\ oc[a[f[i]]] = ob[a[f[i]]]
      BY DEF Kept
    <2>2. ob[a[f[i]]] = ex[f[i]]
      BY <1>0, <1>1 DEF Stored
    <2> QED BY <1>1, <2>1, <2>2
  <1>3. Apart(b, m)
    <2> SUFFICES ASSUME NEW i \in 1 .. m, NEW j \in 1 .. m, b[i] = b[j] PROVE i = j
      BY DEF Apart
    <2>1. f[i] = f[j]
      BY <1>0, <1>1 DEF Apart
    <2> QED BY <2>1 DEF Placed
  <1>4. AllIn(b, m, oc)
    BY <1>1 DEF AllIn, Kept
  <1> QED BY <1>2, <1>3, <1>4 DEF Holds

\* An array with the same elements in its first n slots.
SameSlots(a, b, n) == b \in Seq(Slot) /\ n <= Len(b) /\ \A i \in 1 .. n : b[i] = a[i]

LEMMA Reallocated ==
    ASSUME NEW a, NEW n, NEW ob, NEW ex, Holds(a, n, ob, ex), NEW b, SameSlots(a, b, n)
    PROVE  Holds(b, n, ob, ex)
  <1>0. /\ VectorTypes(a, n, ob, ex) /\ Stored(a, n, ob, ex) /\ Apart(a, n) /\ AllIn(a, n, ob)
        /\ \A i \in 1 .. n : b[i] = a[i]
    BY DEF Holds, SameSlots
  <1>1. VectorTypes(b, n, ob, ex)
    BY <1>0 DEF VectorTypes, SameSlots
  <1>2. Stored(b, n, ob, ex)
    BY <1>0 DEF Stored
  <1>3. Apart(b, n)
    BY <1>0 DEF Apart
  <1>4. AllIn(b, n, ob)
    BY <1>0 DEF AllIn
  <1> QED BY <1>1, <1>2, <1>3, <1>4 DEF Holds

\* A copy of v in slot n + 1.
LEMMA Pushed ==
    ASSUME NEW a, NEW n, NEW ob, NEW ex, Holds(a, n, ob, ex), n < Len(a),
           NEW p \in Address, p \notin DOMAIN ob, NEW v \in Element,
           NEW b, b = [a EXCEPT ![n + 1] = p], NEW oc, oc = V!Put(ob, p, v),
           NEW ey, ey = Append(ex, v)
    PROVE  Holds(b, n + 1, oc, ey)
  <1>0. VectorTypes(a, n, ob, ex) /\ Stored(a, n, ob, ex) /\ Apart(a, n) /\ AllIn(a, n, ob)
    BY DEF Holds
  <1>1. n \in Nat /\ Len(a) \in Nat /\ a \in Seq(Slot) /\ ex \in Seq(Element) /\ Len(ex) = n
    BY <1>0 DEF VectorTypes
  <1>2. \A i \in 1 .. n + 1 : i \in 1 .. n \/ i = n + 1
    BY <1>1
  <1>3. /\ b \in Seq(Slot) /\ Len(b) = Len(a) /\ b[n + 1] = p
        /\ \A i \in 1 .. n : b[i] = a[i]
    <2>1. n + 1 \in 1 .. Len(a) /\ p \in Slot /\ \A i \in 1 .. n : i # n + 1 /\ i \in 1 .. Len(a)
      BY <1>1 DEF Slot
    <2> QED BY <1>1, <2>1
  <1>4. /\ ey \in Seq(Element) /\ Len(ey) = n + 1 /\ ey[n + 1] = v
        /\ \A i \in 1 .. n : ey[i] = ex[i]
    BY <1>1
  <1>5. DOMAIN oc = DOMAIN ob \cup {p} /\ oc[p] = v /\ \A q \in DOMAIN ob : oc[q] = ob[q]
    BY DEF V!Put
  <1>6. VectorTypes(b, n + 1, oc, ey)
    BY <1>0, <1>1, <1>3, <1>4, <1>5 DEF VectorTypes
  <1>7. Stored(b, n + 1, oc, ey)
    BY <1>0, <1>2, <1>3, <1>4, <1>5 DEF Stored
  <1>8. Apart(b, n + 1)
    <2>1. \A i \in 1 .. n : b[i] # p
      BY <1>0, <1>3 DEF Stored
    <2> QED BY <1>0, <1>1, <1>2, <1>3, <2>1 DEF Apart
  <1>9. AllIn(b, n + 1, oc)
    <2>1. 1 .. n \subseteq 1 .. n + 1 /\ n + 1 \in 1 .. n + 1
      BY <1>1
    <2> QED BY <1>0, <1>3, <1>5, <2>1 DEF AllIn
  <1> QED BY <1>6, <1>7, <1>8, <1>9 DEF Holds
\* vector_set: the copy of slot k is freed, and there is one of v in its place.
LEMMA Replaced ==
    ASSUME NEW a, NEW n, NEW ob, NEW ex, Holds(a, n, ob, ex), NEW k \in 1 .. n,
           NEW hp, hp = V!Freed(ob, {a[k]}),
           NEW p \in Address, p \notin DOMAIN hp, NEW v \in Element,
           NEW b, b = [a EXCEPT ![k] = p], NEW oc, oc = V!Put(hp, p, v),
           NEW ey, ey = [ex EXCEPT ![k] = v]
    PROVE  Holds(b, n, oc, ey)
  <1>0. VectorTypes(a, n, ob, ex) /\ Stored(a, n, ob, ex) /\ Apart(a, n) /\ AllIn(a, n, ob)
    BY DEF Holds
  <1>1. n \in Nat /\ Len(a) \in Nat /\ a \in Seq(Slot) /\ ex \in Seq(Element) /\ Len(ex) = n
        /\ n <= Len(a)
    BY <1>0 DEF VectorTypes
  <1>2. /\ b \in Seq(Slot) /\ Len(b) = Len(a) /\ b[k] = p
        /\ \A i \in 1 .. n : i # k => b[i] = a[i]
    <2>1. k \in 1 .. Len(a) /\ p \in Slot /\ \A i \in 1 .. n : i \in 1 .. Len(a)
      BY <1>1 DEF Slot
    <2> QED BY <1>1, <2>1
  <1>3. /\ ey \in Seq(Element) /\ Len(ey) = n /\ ey[k] = v
        /\ \A i \in 1 .. n : i # k => ey[i] = ex[i]
    BY <1>1
  <1>4. DOMAIN hp = DOMAIN ob \ {a[k]} /\ \A q \in DOMAIN hp : hp[q] = ob[q]
    BY DEF V!Freed
  <1>5. DOMAIN oc = DOMAIN hp \cup {p} /\ oc[p] = v /\ \A q \in DOMAIN hp : oc[q] = hp[q]
    BY DEF V!Put
  <1>6. \A i \in 1 .. n : i # k => a[i] \in DOMAIN hp /\ a[i] # p
    BY <1>0, <1>4 DEF Stored, Apart
  <1>7. VectorTypes(b, n, oc, ey)
    BY <1>0, <1>1, <1>2, <1>3, <1>4, <1>5 DEF VectorTypes
  <1>8. Stored(b, n, oc, ey)
    <2> SUFFICES ASSUME NEW i \in 1 .. n PROVE b[i] \in DOMAIN oc /\ oc[b[i]] = ey[i]
      BY DEF Stored
    <2>1. CASE i = k
      BY <1>2, <1>3, <1>5, <2>1
    <2>2. CASE i # k
      <3>1. ob[a[i]] = ex[i]
        BY <1>0 DEF Stored
      <3>2. b[i] = a[i] /\ ey[i] = ex[i]
        BY <1>2, <1>3, <2>2
      <3>3. a[i] \in DOMAIN hp
        BY <1>6, <2>2
      <3>4. a[i] \in DOMAIN oc /\ oc[a[i]] = ob[a[i]]
        BY ONLY <1>4, <1>5, <3>3
      <3> QED BY ONLY <3>1, <3>2, <3>4
    <2> QED BY <2>1, <2>2
  <1>9. Apart(b, n)
    BY <1>0, <1>2, <1>6 DEF Apart
  <1>10. AllIn(b, n, oc)
    <2> SUFFICES ASSUME NEW q \in DOMAIN oc PROVE \E i \in 1 .. n : b[i] = q
      BY DEF AllIn
    <2>1. CASE q = p
      BY ONLY <1>2, <2>1, k \in 1 .. n
    <2>2. CASE q # p
      <3>1. q \in DOMAIN ob /\ q # a[k]
        BY ONLY <1>4, <1>5, <2>2, q \in DOMAIN oc
      <3>2. PICK i \in 1 .. n : a[i] = q
        BY ONLY <1>0, <3>1 DEF AllIn
      <3>3. b[i] = q
        BY ONLY <1>2, <3>1, <3>2
      <3> QED BY <3>3
    <2> QED BY <2>1, <2>2
  <1> QED BY <1>7, <1>8, <1>9, <1>10 DEF Holds

\* vector_resize to more: copies of the default in the slots n + 1 to m.
DefaultsIn(a, n, m, new, b) ==
  /\ new \in V!Injection(n + 1 .. m, Address)
  /\ b = [i \in DOMAIN a |-> IF i \in DOMAIN new THEN new[i] ELSE a[i]]
DefaultCopies(ob, ex, n, m, new, oc, ey) ==
  /\ \A i \in n + 1 .. m : new[i] \notin DOMAIN ob
  /\ oc = [p \in DOMAIN ob \cup V!Range(new) |-> IF p \in V!Range(new) THEN Default ELSE ob[p]]
  /\ ey = [i \in 1 .. m |-> IF i <= n THEN ex[i] ELSE Default]

LEMMA Extended ==
    ASSUME NEW a, NEW n, NEW ob, NEW ex, Holds(a, n, ob, ex),
           NEW m \in Nat, n < m, m <= Len(a), NEW new, NEW b, DefaultsIn(a, n, m, new, b),
           NEW oc, NEW ey, DefaultCopies(ob, ex, n, m, new, oc, ey)
    PROVE  Holds(b, m, oc, ey)
  <1>a. \A i \in n + 1 .. m : new[i] \notin DOMAIN ob
    BY DEF DefaultCopies
  <1>0. VectorTypes(a, n, ob, ex) /\ Stored(a, n, ob, ex) /\ Apart(a, n) /\ AllIn(a, n, ob)
    BY DEF Holds
  <1>1. n \in Nat /\ Len(a) \in Nat /\ a \in Seq(Slot) /\ ex \in Seq(Element) /\ Len(ex) = n
        /\ n <= Len(a) /\ DOMAIN a = 1 .. Len(a) /\ a \in [1 .. Len(a) -> Slot]
    BY <1>0 DEF VectorTypes
  <1>2. /\ DOMAIN new = n + 1 .. m /\ \A i \in n + 1 .. m : new[i] \in Address
        /\ \A i, j \in n + 1 .. m : new[i] = new[j] => i = j
    BY DEF DefaultsIn, V!Injection, V!IsInjective
  <1>3. V!Range(new) = {new[i] : i \in n + 1 .. m}
    BY <1>2 DEF V!Range
  <1>4. \A i \in 1 .. m : (i \in 1 .. n /\ i \notin n + 1 .. m /\ i <= n)
                          \/ (i \in n + 1 .. m /\ i \notin 1 .. n /\ ~(i <= n))
    BY <1>1
  <1>5. 1 .. m \subseteq 1 .. Len(a) /\ 1 .. n \subseteq 1 .. m /\ n + 1 .. m \subseteq 1 .. m
    BY <1>1
  <1>6. b \in [1 .. Len(a) -> Slot]
    <2> SUFFICES ASSUME NEW i \in 1 .. Len(a)
                 PROVE  (IF i \in DOMAIN new THEN new[i] ELSE a[i]) \in Slot
      BY <1>1 DEF DefaultsIn
    <2> QED BY <1>1, <1>2 DEF Slot
  <1>7. /\ b \in Seq(Slot) /\ Len(b) = Len(a)
        /\ \A i \in 1 .. n : b[i] = a[i]
        /\ \A i \in n + 1 .. m : b[i] = new[i]
    <2>1. b \in Seq(Slot) /\ Len(b) = Len(a)
      BY <1>1, <1>6
    <2>2. \A i \in 1 .. n : b[i] = a[i]
      BY <1>1, <1>2, <1>4, <1>5 DEF DefaultsIn
    <2>3. \A i \in n + 1 .. m : b[i] = new[i]
      BY <1>1, <1>2, <1>5 DEF DefaultsIn
    <2> QED BY <2>1, <2>2, <2>3
  <1>8. /\ ey \in Seq(Element) /\ Len(ey) = m
        /\ \A i \in 1 .. n : ey[i] = ex[i]
        /\ \A i \in n + 1 .. m : ey[i] = Default
    <2>1. \A i \in 1 .. n : ex[i] \in Element
      BY <1>1
    <2>2. ey \in [1 .. m -> Element]
      BY <1>4, <2>1 DEF Element, DefaultCopies
    <2>3. \A i \in 1 .. m : ey[i] = IF i <= n THEN ex[i] ELSE Default
      BY DEF DefaultCopies
    <2> QED BY <1>4, <1>5, <2>2, <2>3
  <1>9. /\ DOMAIN oc = DOMAIN ob \cup {new[i] : i \in n + 1 .. m}
        /\ \A i \in n + 1 .. m : oc[new[i]] = Default
        /\ \A p \in DOMAIN ob : oc[p] = ob[p]
    BY <1>a, <1>3 DEF DefaultCopies
  <1>10. VectorTypes(b, m, oc, ey)
    BY <1>0, <1>2, <1>7, <1>8, <1>9 DEF VectorTypes
  <1>11. Stored(b, m, oc, ey)
    <2> SUFFICES ASSUME NEW i \in 1 .. m PROVE b[i] \in DOMAIN oc /\ oc[b[i]] = ey[i]
      BY DEF Stored
    <2>1. CASE i \in 1 .. n
      BY <1>0, <1>7, <1>8, <1>9, <2>1 DEF Stored
    <2>2. CASE i \in n + 1 .. m
      BY <1>7, <1>8, <1>9, <2>2
    <2> QED BY <1>4, <2>1, <2>2
  <1>12. Apart(b, m)
    <2>1. \A i \in 1 .. n : b[i] \in DOMAIN ob
      BY <1>0, <1>7 DEF Stored
    <2>2. \A i \in n + 1 .. m : b[i] \notin DOMAIN ob
      BY <1>a, <1>7
    <2> SUFFICES ASSUME NEW i \in 1 .. m, NEW j \in 1 .. m, b[i] = b[j] PROVE i = j
      BY DEF Apart
    <2>3. CASE i \in 1 .. n
      <3>1. j \in 1 .. n
        BY <1>4, <2>1, <2>2, <2>3
      <3> QED BY <1>0, <1>7, <2>3, <3>1 DEF Apart
    <2>4. CASE i \in n + 1 .. m
      <3>1. j \in n + 1 .. m
        BY <1>4, <2>1, <2>2, <2>4
      <3> QED BY <1>2, <1>7, <2>4, <3>1
    <2> QED BY <1>4, <2>3, <2>4
  <1>13. AllIn(b, m, oc)
    <2> SUFFICES ASSUME NEW q \in DOMAIN oc PROVE \E i \in 1 .. m : b[i] = q
      BY DEF AllIn
    <2>1. CASE q \in DOMAIN ob
      <3>1. PICK i \in 1 .. n : a[i] = q
        BY ONLY <1>0, <2>1 DEF AllIn
      <3> QED BY ONLY <1>5, <1>7, <3>1
    <2>2. CASE q \notin DOMAIN ob
      <3>1. PICK i \in n + 1 .. m : new[i] = q
        BY ONLY <1>9, <2>2, q \in DOMAIN oc
      <3> QED BY ONLY <1>5, <1>7, <3>1
    <2> QED BY <2>1, <2>2
  <1> QED BY <1>10, <1>11, <1>12, <1>13 DEF Holds
\* P are the copies of the places that f leaves out.
Drops(a, n, P, m, f) ==
  /\ \A p \in P : \E j \in 1 .. n : p = a[j] /\ \A i \in 1 .. m : f[i] # j
  /\ \A j \in 1 .. n : a[j] \in P \/ \E i \in 1 .. m : f[i] = j

LEMMA FreedIsKept ==
    ASSUME NEW a, NEW n, NEW ob, NEW ex, Holds(a, n, ob, ex), NEW m, NEW f,
           f \in [1 .. m -> 1 .. n], NEW P, Drops(a, n, P, m, f), NEW oc, oc = V!Freed(ob, P)
    PROVE  Kept(a, m, ob, oc, f)
  <1>0. Stored(a, n, ob, ex) /\ Apart(a, n) /\ AllIn(a, n, ob)
    BY DEF Holds
  <1>1. DOMAIN oc = DOMAIN ob \ P /\ \A q \in DOMAIN oc : oc[q] = ob[q]
    BY DEF V!Freed
  <1>2. ASSUME NEW p \in DOMAIN oc PROVE \E i \in 1 .. m : p = a[f[i]]
    <2>1. PICK j \in 1 .. n : a[j] = p
      BY <1>0, <1>1 DEF AllIn
    <2>2. a[j] \notin P
      BY <1>1, <2>1
    <2>3. PICK i \in 1 .. m : f[i] = j
      BY <2>2 DEF Drops
    <2> QED BY <2>1, <2>3
  <1>3. ASSUME NEW i \in 1 .. m PROVE a[f[i]] \in DOMAIN oc
    <2>1. f[i] \in 1 .. n
      OBVIOUS
    <2>2. a[f[i]] \in DOMAIN ob
      BY <1>0, <2>1 DEF Stored
    <2>3. ASSUME a[f[i]] \in P PROVE FALSE
      <3>1. PICK j \in 1 .. n : a[f[i]] = a[j] /\ \A h \in 1 .. m : f[h] # j
        BY <2>3 DEF Drops
      <3> QED BY <1>0, <2>1, <3>1 DEF Apart
    <2> QED BY <1>1, <2>2, <2>3
  <1> QED BY <1>1, <1>2, <1>3 DEF Kept

\* vector_resize to less, vector_pop_back, vector_clear and vector_destroy.
LEMMA Truncated ==
    ASSUME NEW a, NEW n, NEW ob, NEW ex, Holds(a, n, ob, ex), NEW m \in Nat, m <= n,
           NEW oc, oc = V!Freed(ob, {a[i + 1] : i \in m .. n - 1}),
           NEW b, SameSlots(a, b, m), NEW ey, ey \in Seq(Element), Len(ey) = m,
           \A i \in 1 .. m : ey[i] = ex[i]
    PROVE  Holds(b, m, oc, ey)
  <1> DEFINE f == [i \in 1 .. m |-> i]
             P == {a[i + 1] : i \in m .. n - 1}
  <1>0. n \in Nat /\ DOMAIN ob \subseteq Address
    BY DEF Holds, VectorTypes
  <1>1. f \in [1 .. m -> 1 .. n] /\ \A i \in 1 .. m : f[i] = i
    BY <1>0
  <1>2. oc = V!Freed(ob, P)
    OBVIOUS
  <1>3. Drops(a, n, P, m, f)
    <2>1. ASSUME NEW p \in P PROVE \E j \in 1 .. n : p = a[j] /\ \A i \in 1 .. m : f[i] # j
      <3>1. PICK h \in m .. n - 1 : p = a[h + 1]
        OBVIOUS
      <3>2. h + 1 \in 1 .. n /\ \A i \in 1 .. m : i # h + 1
        BY <1>0, <3>1
      <3> QED BY <1>1, <3>1, <3>2
    <2>2. ASSUME NEW j \in 1 .. n, a[j] \notin P PROVE \E i \in 1 .. m : f[i] = j
      <3>1. ASSUME ~(j <= m) PROVE FALSE
        <4>1. j - 1 \in m .. n - 1 /\ (j - 1) + 1 = j
          BY <1>0, <3>1
        <4> QED BY <2>2, <4>1
      <3>2. j \in 1 .. m
        BY <1>0, <3>1
      <3> QED BY <1>1, <3>2
    <2> HIDE DEF P, f
    <2> QED BY <2>1, <2>2 DEF Drops
  <1>4. Placed(a, n, ex, b, m, ey, f)
    <2> HIDE DEF f
    <2> QED BY <1>1 DEF Placed, SameSlots
  <1> HIDE DEF f, P
  <1>5. Kept(a, m, ob, oc, f)
    BY <1>1, <1>2, <1>3, FreedIsKept
  <1>6. DOMAIN oc \subseteq DOMAIN ob
    BY <1>2 DEF V!Freed
  <1>7. VectorTypes(b, m, oc, ey)
    BY <1>0, <1>6 DEF VectorTypes, SameSlots
  <1> QED BY <1>4, <1>5, <1>7, Moved

\* s without its element k.
Removed(s, k, r, T) ==
  /\ r \in Seq(T) /\ Len(r) = Len(s) - 1
  /\ \A i \in 1 .. Len(s) - 1 : r[i] = IF i < k THEN s[i] ELSE s[i + 1]

LEMMA RemoveAtRemoves ==
    ASSUME NEW T, NEW s \in Seq(T), NEW k \in 1 .. Len(s)
    PROVE  Removed(s, k, V!RemoveAt(s, k), T)
  <1> DEFINE a == SubSeq(s, 1, k - 1)
             b == SubSeq(s, k + 1, Len(s))
             n == Len(s)
             r == V!RemoveAt(s, k)
  <1>1. r = a \o b
    BY DEF V!RemoveAt
  <1>2. n \in Nat /\ k \in Nat /\ k >= 1 /\ k <= n
    OBVIOUS
  <1>3. a \in Seq(T) /\ Len(a) = k - 1 /\ \A j \in 1 .. k - 1 : a[j] = s[j]
    <2>1. 1 \in 1 .. Len(s) + 1 /\ k - 1 \in (1 - 1) .. Len(s)
      BY <1>2
    <2> QED BY <1>2, <2>1, SubSeqProperties
  <1>4. b \in Seq(T) /\ Len(b) = n - k /\ \A j \in 1 .. n - k : b[j] = s[k + j]
    <2>1. k + 1 \in 1 .. Len(s) + 1 /\ Len(s) \in ((k + 1) - 1) .. Len(s)
      BY <1>2
    <2>2. /\ b \in Seq(T) /\ Len(b) = Len(s) - (k + 1) + 1
          /\ \A j \in 1 .. Len(s) - (k + 1) + 1 : b[j] = s[(k + 1) + j - 1]
      BY <2>1, SubSeqProperties
    <2>3. Len(s) - (k + 1) + 1 = n - k /\ \A j \in 1 .. n - k : (k + 1) + j - 1 = k + j
      BY <1>2
    <2> QED BY <2>2, <2>3
  <1> HIDE DEF a, b, r
  <1>5. /\ r \in Seq(T) /\ Len(r) = Len(a) + Len(b)
        /\ \A i \in 1 .. Len(a) + Len(b) : r[i] = IF i <= Len(a) THEN a[i] ELSE b[i - Len(a)]
    <2>1. a \in Seq(T) /\ b \in Seq(T)
      BY <1>3, <1>4
    <2> QED BY ONLY <1>1, <2>1, ConcatProperties
  <1>6. Len(a) + Len(b) = n - 1
    BY <1>2, <1>3, <1>4
  <1>7. ASSUME NEW i \in 1 .. n - 1 PROVE r[i] = IF i < k THEN s[i] ELSE s[i + 1]
    <2>1. CASE i < k
      <3>1. i \in 1 .. k - 1 /\ i <= Len(a)
        BY <1>2, <1>3, <2>1
      <3> QED BY <1>3, <1>5, <1>6, <2>1, <3>1
    <2>2. CASE ~(i < k)
      <3>1. i - (k - 1) \in 1 .. n - k /\ k + (i - (k - 1)) = i + 1 /\ ~(i <= k - 1)
        BY <1>2, <2>2
      <3>2. r[i] = b[i - (k - 1)]
        BY <1>3, <1>5, <1>6, <3>1
      <3> QED BY <1>4, <2>2, <3>1, <3>2
    <2> QED BY <2>1, <2>2
  <1> QED BY <1>5, <1>6, <1>7 DEF Removed, r

\* s with e before its element k, or behind its last.
Inserted(s, k, e, r, T) ==
  /\ r \in Seq(T) /\ Len(r) = Len(s) + 1
  /\ \A i \in 1 .. Len(s) + 1 : r[i] = IF i < k THEN s[i] ELSE IF i = k THEN e ELSE s[i - 1]

LEMMA InsertAtInserts ==
    ASSUME NEW T, NEW s \in Seq(T), NEW k \in 1 .. Len(s) + 1, NEW e \in T
    PROVE  Inserted(s, k, e, V!InsertAt(s, k, e), T)
  <1> DEFINE a == SubSeq(s, 1, k - 1)
             b == SubSeq(s, k, Len(s))
             c == <<e>>
             d == a \o c
             n == Len(s)
             r == V!InsertAt(s, k, e)
  <1>1. r = d \o b
    BY DEF V!InsertAt
  <1>2. n \in Nat /\ k \in Nat /\ k >= 1 /\ k <= n + 1
    OBVIOUS
  <1>3. a \in Seq(T) /\ Len(a) = k - 1 /\ \A j \in 1 .. k - 1 : a[j] = s[j]
    <2>1. 1 \in 1 .. Len(s) + 1 /\ k - 1 \in (1 - 1) .. Len(s)
      BY <1>2
    <2> QED BY <1>2, <2>1, SubSeqProperties
  <1>4. b \in Seq(T) /\ Len(b) = n + 1 - k /\ \A j \in 1 .. n + 1 - k : b[j] = s[k + j - 1]
    <2>1. k \in 1 .. Len(s) + 1 /\ Len(s) \in (k - 1) .. Len(s)
      BY <1>2
    <2>2. /\ b \in Seq(T) /\ Len(b) = Len(s) - k + 1
          /\ \A j \in 1 .. Len(s) - k + 1 : b[j] = s[k + j - 1]
      BY <2>1, SubSeqProperties
    <2>3. Len(s) - k + 1 = n + 1 - k
      BY <1>2
    <2> QED BY <2>2, <2>3
  <1>c. c \in Seq(T) /\ Len(c) = 1 /\ c[1] = e
    OBVIOUS
  <1>d. d = a \o c
    OBVIOUS
  <1> HIDE DEF a, b, c, d, r
  <1>5. /\ d \in Seq(T) /\ Len(d) = Len(a) + Len(c)
        /\ \A i \in 1 .. Len(a) + Len(c) : d[i] = IF i <= Len(a) THEN a[i] ELSE c[i - Len(a)]
    <2>1. a \in Seq(T) /\ c \in Seq(T)
      BY <1>3, <1>c
    <2> QED BY ONLY <1>d, <2>1, ConcatProperties
  <1>6. Len(d) = k /\ d[k] = e /\ \A i \in 1 .. k - 1 : d[i] = s[i]
    <2>1. Len(a) + Len(c) = k
      BY ONLY <1>2, <1>3, <1>c
    <2>2. k \in 1 .. k /\ ~(k <= k - 1) /\ k - (k - 1) = 1
      BY ONLY <1>2
    <2>3. \A i \in 1 .. k - 1 : i \in 1 .. k /\ i <= k - 1
      BY ONLY <1>2
    <2>4. d[k] = e
      BY <1>3, <1>5, <1>c, <2>1, <2>2
    <2>5. \A i \in 1 .. k - 1 : d[i] = s[i]
      BY <1>3, <1>5, <2>1, <2>3
    <2> QED BY <1>5, <2>1, <2>4, <2>5
  <1>7. /\ r \in Seq(T) /\ Len(r) = Len(d) + Len(b)
        /\ \A i \in 1 .. Len(d) + Len(b) : r[i] = IF i <= Len(d) THEN d[i] ELSE b[i - Len(d)]
    <2>1. d \in Seq(T) /\ b \in Seq(T)
      BY <1>5, <1>4
    <2> QED BY ONLY <1>1, <2>1, ConcatProperties
  <1>8. Len(d) + Len(b) = n + 1
    BY <1>2, <1>4, <1>6
  <1>9. ASSUME NEW i \in 1 .. n + 1
        PROVE  r[i] = IF i < k THEN s[i] ELSE IF i = k THEN e ELSE s[i - 1]
    <2>1. CASE i < k
      <3>1. i \in 1 .. k - 1 /\ i <= k
        BY <1>2, <2>1
      <3> QED BY <1>6, <1>7, <1>8, <2>1, <3>1
    <2>2. CASE i = k
      BY <1>2, <1>6, <1>7, <1>8, <2>2
    <2>3. CASE ~(i < k) /\ i # k
      <3>1. i - k \in 1 .. n + 1 - k /\ k + (i - k) - 1 = i - 1 /\ ~(i <= k)
        BY <1>2, <2>3
      <3>2. r[i] = b[i - k]
        BY <1>6, <1>7, <1>8, <3>1
      <3> QED BY <1>4, <2>3, <3>1, <3>2
    <2> QED BY <2>1, <2>2, <2>3
  <1> QED BY <1>7, <1>8, <1>9 DEF Inserted, r
\* vector_erase: element k is gone from the slots and from what they stand for.
LEMMA Erased ==
    ASSUME NEW a, NEW n, NEW ob, NEW ex, Holds(a, n, ob, ex), NEW k \in 1 .. n,
           NEW oc, oc = V!Freed(ob, {a[k]}),
           NEW s, Len(s) = n, \A i \in 1 .. n : s[i] = a[i],
           NEW r, Removed(s, k, r, Slot), NEW b, SameSlots(r, b, n - 1),
           NEW ey, Removed(ex, k, ey, Element)
    PROVE  Holds(b, n - 1, oc, ey)
  <1> DEFINE m == n - 1
             f == [i \in 1 .. m |-> IF i < k THEN i ELSE i + 1]
  <1>0. n \in Nat /\ DOMAIN ob \subseteq Address /\ Len(ex) = n /\ m \in Nat /\ k \in Nat /\ k <= n
    BY DEF Holds, VectorTypes
  <1>1. f \in [1 .. m -> 1 .. n]
    BY <1>0
  <1>2. \A i \in 1 .. m : f[i] = IF i < k THEN i ELSE i + 1
    OBVIOUS
  <1> HIDE DEF f
  <1>3. \A i \in 1 .. m : f[i] # k
    BY <1>0, <1>2
  <1>4. \A i, j \in 1 .. m : f[i] = f[j] => i = j
    BY <1>0, <1>2
  <1>5. ASSUME NEW j \in 1 .. n, j # k PROVE \E i \in 1 .. m : f[i] = j
    <2>1. CASE j < k
      <3>1. j \in 1 .. m
        BY <1>0, <2>1
      <3> QED BY <1>2, <2>1, <3>1
    <2>2. CASE ~(j < k)
      <3>1. j - 1 \in 1 .. m /\ ~(j - 1 < k) /\ (j - 1) + 1 = j
        BY <1>0, <1>5, <2>2
      <3> QED BY <1>2, <3>1
    <2> QED BY <2>1, <2>2
  <1>6. Drops(a, n, {a[k]}, m, f)
    <2>1. \A p \in {a[k]} : \E j \in 1 .. n : p = a[j] /\ \A i \in 1 .. m : f[i] # j
      BY <1>3
    <2>2. \A j \in 1 .. n : a[j] \in {a[k]} \/ \E i \in 1 .. m : f[i] = j
      BY <1>5
    <2> QED BY <2>1, <2>2 DEF Drops
  <1>7. Kept(a, m, ob, oc, f)
    BY <1>1, <1>6, FreedIsKept
  <1>8. ASSUME NEW i \in 1 .. m PROVE b[i] = a[f[i]] /\ ey[i] = ex[f[i]]
    <2>1. r[i] = s[f[i]] /\ ey[i] = ex[f[i]]
      BY <1>0, <1>2 DEF Removed
    <2>2. b[i] = r[i] /\ f[i] \in 1 .. n
      BY <1>1 DEF SameSlots
    <2> QED BY <2>1, <2>2
  <1>9. Placed(a, n, ex, b, m, ey, f)
    BY <1>1, <1>4, <1>8 DEF Placed
  <1>10. VectorTypes(b, m, oc, ey)
    <2>1. DOMAIN oc \subseteq DOMAIN ob
      BY DEF V!Freed
    <2>2. ey \in Seq(Element) /\ Len(ey) = m
      BY <1>0 DEF Removed
    <2> QED BY <1>0, <2>1, <2>2 DEF VectorTypes, SameSlots
  <1> QED BY <1>7, <1>9, <1>10, Moved

\* A copy of v at place k of n elements: vector_insert.
LEMMA InsertedCopy ==
    ASSUME NEW a, NEW n, NEW ob, NEW ex, Holds(a, n, ob, ex), NEW k \in 1 .. n,
           NEW p \in Address, p \notin DOMAIN ob, NEW v \in Element,
           NEW oc, oc = V!Put(ob, p, v),
           NEW s, Len(s) = n, \A i \in 1 .. n : s[i] = a[i],
           NEW r, Inserted(s, k, p, r, Slot), NEW b, SameSlots(r, b, n + 1),
           NEW ey, Inserted(ex, k, v, ey, Element)
    PROVE  Holds(b, n + 1, oc, ey)
  <1> DEFINE m == n + 1
             \* The elements and, behind them, the new one.
             c == [i \in 1 .. m |-> IF i <= n THEN a[i] ELSE p]
             d == [c EXCEPT ![m] = p]
             ez == Append(ex, v)
             f == [i \in 1 .. m |-> IF i < k THEN i ELSE IF i = k THEN m ELSE i - 1]
  <1>0. /\ n \in Nat /\ DOMAIN ob \subseteq Address /\ Len(ex) = n /\ m \in Nat /\ k \in Nat /\ k <= n
        /\ k >= 1 /\ ex \in Seq(Element) /\ a \in Seq(Slot) /\ n <= Len(a)
    BY DEF Holds, VectorTypes
  <1>1. \A i \in 1 .. m : (i \in 1 .. n /\ i <= n /\ i # m) \/ (i = m /\ ~(i <= n))
    BY <1>0
  <1>2. SameSlots(a, c, n) /\ Len(c) = m
    <2>1. \A i \in 1 .. n : a[i] \in Slot
      BY <1>0
    <2>2. p \in Slot
      BY DEF Slot
    <2>3. c \in [1 .. m -> Slot]
      BY <1>1, <2>1, <2>2
    <2>4. \A i \in 1 .. n : i \in 1 .. m /\ i <= n
      BY <1>0
    <2>5. \A i \in 1 .. n : c[i] = a[i]
      BY <2>4
    <2> HIDE DEF c
    <2>6. c \in Seq(Slot) /\ Len(c) = m
      BY <1>0, <2>3
    <2> QED BY <1>0, <2>5, <2>6 DEF SameSlots
  <1>3. Holds(c, n, ob, ex)
    <2> HIDE DEF c
    <2> QED BY <1>2, Reallocated
  <1>4. Holds(d, m, oc, ez)
    <2>1. n < Len(c)
      BY <1>0, <1>2
    <2>2. d = [c EXCEPT ![n + 1] = p] /\ ez = Append(ex, v)
      OBVIOUS
    <2> HIDE DEF c, d, ez
    <2>3. Holds(d, n + 1, oc, ez)
      BY <1>3, <2>1, <2>2, Pushed
    <2> QED BY <2>3
  <1>5. d[m] = p /\ \A i \in 1 .. n : d[i] = a[i]
    <2>1. m \in 1 .. m /\ \A i \in 1 .. n : i # m /\ i \in 1 .. m
      BY <1>0
    <2>2. \A i \in 1 .. n : c[i] = a[i]
      BY <1>2 DEF SameSlots
    <2>3. DOMAIN c = 1 .. m
      OBVIOUS
    <2> HIDE DEF c
    <2> QED BY <2>1, <2>2, <2>3
  <1>6. ez[m] = v /\ \A i \in 1 .. n : ez[i] = ex[i]
    BY <1>0
  <1>7. f \in [1 .. m -> 1 .. m]
    BY <1>0
  <1>8. \A i \in 1 .. m : f[i] = IF i < k THEN i ELSE IF i = k THEN m ELSE i - 1
    OBVIOUS
  <1> HIDE DEF c, d, ez, f
  <1>9. \A i, j \in 1 .. m : f[i] = f[j] => i = j
    BY <1>0, <1>8
  <1>10. ASSUME NEW i \in 1 .. m PROVE b[i] = d[f[i]] /\ ey[i] = ez[f[i]]
    <2>1. b[i] = r[i]
      BY DEF SameSlots
    <2>2. r[i] = IF i < k THEN s[i] ELSE IF i = k THEN p ELSE s[i - 1]
      BY DEF Inserted
    <2>3. ey[i] = IF i < k THEN ex[i] ELSE IF i = k THEN v ELSE ex[i - 1]
      BY <1>0 DEF Inserted
    <2>4. CASE i < k
      <3>1. i \in 1 .. n /\ f[i] = i
        BY <1>0, <1>8, <2>4
      <3> QED BY <1>5, <1>6, <2>1, <2>2, <2>3, <2>4, <3>1
    <2>5. CASE i = k
      <3>1. f[i] = m
        BY <1>0, <1>8, <2>5
      <3> QED BY <1>0, <1>5, <1>6, <2>1, <2>2, <2>3, <2>5, <3>1
    <2>6. CASE ~(i < k) /\ i # k
      <3>1. i - 1 \in 1 .. n /\ f[i] = i - 1
        BY <1>0, <1>8, <2>6
      <3> QED BY <1>5, <1>6, <2>1, <2>2, <2>3, <2>6, <3>1
    <2> QED BY <2>4, <2>5, <2>6
  <1>11. Placed(d, m, ez, b, m, ey, f)
    BY <1>7, <1>9, <1>10 DEF Placed
  <1>12. ASSUME NEW j \in 1 .. m PROVE \E i \in 1 .. m : f[i] = j
    <2>1. CASE j < k
      BY <1>8, <2>1
    <2>2. CASE ~(j < k) /\ j <= n
      <3>1. j + 1 \in 1 .. m /\ ~(j + 1 < k) /\ j + 1 # k /\ (j + 1) - 1 = j
        BY <1>0, <2>2
      <3> QED BY <1>8, <3>1
    <2>3. CASE j = m
      <3>1. k \in 1 .. m /\ ~(k < k)
        BY <1>0
      <3> QED BY <1>8, <2>3, <3>1
    <2> QED BY <1>0, <2>1, <2>2, <2>3
  <1>13. Kept(d, m, oc, oc, f)
    <2>1. ASSUME NEW q \in DOMAIN oc PROVE \E i \in 1 .. m : q = d[f[i]]
      <3>1. PICK j \in 1 .. m : d[j] = q
        BY <1>4 DEF Holds, AllIn
      <3>2. PICK i \in 1 .. m : f[i] = j
        BY <1>12
      <3> QED BY <3>1, <3>2
    <2>2. ASSUME NEW i \in 1 .. m PROVE d[f[i]] \in DOMAIN oc
      <3>1. f[i] \in 1 .. m
        BY <1>7
      <3> QED BY <1>4, <3>1 DEF Holds, Stored
    <2> QED BY <2>1, <2>2 DEF Kept
  <1>14. VectorTypes(b, m, oc, ey)
    <2>1. DOMAIN oc \subseteq Address
      BY <1>4 DEF Holds, VectorTypes
    <2>2. ey \in Seq(Element) /\ Len(ey) = m
      BY <1>0 DEF Inserted
    <2> QED BY <1>0, <2>1, <2>2 DEF VectorTypes, SameSlots
  <1> QED BY <1>4, <1>11, <1>13, <1>14, Moved
-----------------------------------------------------------------------------
(* The calls of vector.c.                                                  *)

\* malloc(n) and a loop that copies the pointers s.
LEMMA AllocatedSlots ==
    ASSUME NEW s \in Seq(Slot), NEW n \in Nat, Len(s) <= n
    PROVE  SameSlots(s, V!Allocated(n, s), Len(s)) /\ Len(V!Allocated(n, s)) = n
  <1> DEFINE r == V!Allocated(n, s)
  <1>1. \A i \in 1 .. Len(s) : s[i] \in Slot /\ i \in 1 .. n /\ i <= Len(s)
    OBVIOUS
  <1>2. \A i \in 1 .. n : i <= Len(s) => i \in 1 .. Len(s)
    OBVIOUS
  <1>3. r \in [1 .. n -> Slot] /\ \A i \in 1 .. Len(s) : r[i] = s[i]
    BY <1>1, <1>2 DEF V!Allocated, Slot
  <1> HIDE DEF r
  <1>4. r \in Seq(Slot) /\ Len(r) = n
    BY <1>3
  <1>5. SameSlots(s, r, Len(s)) /\ Len(r) = n
    BY <1>3, <1>4 DEF SameSlots
  <1> QED BY <1>5 DEF r

\* The slots in use.
LEMMA InUse ==
    ASSUME VectorInv
    PROVE  /\ SubSeq(array, 1, size) \in Seq(Slot) /\ Len(SubSeq(array, 1, size)) = size
           /\ \A i \in 1 .. size : SubSeq(array, 1, size)[i] = array[i]
  <1>1. array \in Seq(Slot) /\ size \in Nat /\ size <= Len(array) /\ Len(array) \in Nat
    BY DEF VectorInv, Holds, VectorTypes
  <1>2. 1 \in 1 .. Len(array) + 1 /\ size \in (1 - 1) .. Len(array)
    BY <1>1
  <1>3. size - 1 + 1 = size /\ \A i \in 1 .. size : 1 + i - 1 = i
    BY <1>1
  <1> QED BY <1>1, <1>2, <1>3, SubSeqProperties

\* vector_reserve leaves the elements where they were, and room for n.
LEMMA ReservedRoom ==
    ASSUME VectorInv, NEW n \in Nat
    PROVE  SameSlots(array, V!Reserved(n), size) /\ n <= Len(V!Reserved(n))
  <1>1. array \in Seq(Slot) /\ size \in Nat /\ size <= Len(array) /\ Len(array) \in Nat
        /\ capacity = Len(array)
    BY DEF VectorInv, Holds, VectorTypes
  <1>2. CASE n <= capacity
    BY <1>1, <1>2 DEF V!Reserved, SameSlots
  <1>3. CASE ~(n <= capacity)
    <2> DEFINE s == SubSeq(array, 1, size)
               c == V!get_new_capacity(n)
               r == V!Allocated(c, s)
    <2>1. V!Reserved(n) = r
      BY <1>3 DEF V!Reserved
    <2>2. s \in Seq(Slot) /\ Len(s) = size /\ \A i \in 1 .. size : s[i] = array[i]
      BY InUse
    <2>3. c \in Nat /\ c >= n
      BY <1>1, <1>3, EnoughCapacity
    <2>4. size <= c
      BY <1>1, <1>3, <2>3
    <2> HIDE DEF s, c
    <2>5. SameSlots(s, r, size) /\ Len(r) = c
      BY <2>2, <2>3, <2>4, AllocatedSlots
    <2> HIDE DEF r
    <2>6. SameSlots(array, r, size)
      BY <2>2, <2>5 DEF SameSlots
    <2> QED BY <2>1, <2>3, <2>5, <2>6
  <1> QED BY <1>2, <1>3

LEMMA ReserveStep ==
    ASSUME VectorInv, NEW n \in 0 .. MaxSize, V!vector_reserve(n)
    PROVE  VectorInv'
  <1>1. n \in Nat
    BY Growth
  <1>2. Holds(array', size, objects, expected)
    BY <1>1, ReservedRoom, Reallocated DEF V!vector_reserve, VectorInv
  <1> QED BY <1>2 DEF V!vector_reserve, VectorInv

\* A vector_resize to less.
LEMMA ResizeDown ==
    ASSUME VectorInv, NEW n \in 0 .. MaxSize, n < size,
           objects' = V!Freed(objects, V!Slots(n, size)),
           array' = [i \in DOMAIN array |-> IF i \in n + 1 .. size THEN NULL ELSE array[i]],
           expected' = [i \in 1 .. n |-> IF i <= size THEN expected[i] ELSE Default]
    PROVE  Holds(array', n, objects', expected')
  <1>1. array \in Seq(Slot) /\ size \in Nat /\ size <= Len(array) /\ Len(array) \in Nat
        /\ expected \in Seq(Element) /\ Len(expected) = size
    BY DEF VectorInv, Holds, VectorTypes
  <1>2. n \in Nat /\ \A i \in 1 .. n : i <= size /\ i \in 1 .. size /\ i \in 1 .. Len(array)
                                       /\ i \notin n + 1 .. size
    BY <1>1, Growth
  <1>3. DOMAIN array = 1 .. Len(array) /\ \A i \in 1 .. Len(array) : array[i] \in Slot
    BY <1>1
  <1>4. array' \in [1 .. Len(array) -> Slot]
    BY <1>3 DEF Slot
  <1>5. \A i \in 1 .. n : array'[i] = array[i]
    BY <1>2, <1>3
  <1>6. SameSlots(array, array', n)
    <2>1. array' \in Seq(Slot) /\ Len(array') = Len(array)
      BY <1>1, <1>4
    <2> QED BY <1>1, <1>2, <1>5, <2>1 DEF SameSlots
  <1>7. \A i \in 1 .. n : expected[i] \in Element
    BY <1>1, <1>2
  <1>8. expected' \in [1 .. n -> Element] /\ \A i \in 1 .. n : expected'[i] = expected[i]
    <2>1. \A i \in 1 .. n : expected'[i] = expected[i]
      BY <1>2
    <2>2. expected' = [i \in 1 .. n |-> expected'[i]]
      OBVIOUS
    <2> QED BY ONLY <1>7, <2>1, <2>2
  <1>9. expected' \in Seq(Element) /\ Len(expected') = n
    BY <1>2, <1>8
  <1>10. objects' = V!Freed(objects, {array[i + 1] : i \in n .. size - 1})
    BY DEF V!Slots
  <1> DEFINE b == array'
             oc == objects'
             ey == expected'
  <1>11. /\ oc = V!Freed(objects, {array[i + 1] : i \in n .. size - 1})
         /\ SameSlots(array, b, n) /\ ey \in Seq(Element) /\ Len(ey) = n
         /\ \A i \in 1 .. n : ey[i] = expected[i]
         /\ n \in Nat /\ n <= size /\ Holds(array, size, objects, expected)
    BY <1>1, <1>2, <1>6, <1>8, <1>9, <1>10 DEF VectorInv
  <1> HIDE DEF b, oc, ey
  <1>12. Holds(b, n, oc, ey)
    BY ONLY <1>11, Truncated
  <1> QED BY <1>12 DEF b, oc, ey

\* A vector_resize to more.
LEMMA ResizeUp ==
    ASSUME VectorInv, NEW n \in 0 .. MaxSize, n > size,
           NEW new \in V!Injection(size + 1 .. n, V!Unused(objects)),
           array' = [i \in DOMAIN V!Reserved(n) |->
                       IF i \in DOMAIN new THEN new[i] ELSE V!Reserved(n)[i]],
           objects' = [p \in DOMAIN objects \cup V!Range(new) |->
                         IF p \in V!Range(new) THEN Default ELSE objects[p]],
           expected' = [i \in 1 .. n |-> IF i <= size THEN expected[i] ELSE Default]
    PROVE  Holds(array', n, objects', expected')
  <1>1. n \in Nat /\ size \in Nat
    BY Growth DEF VectorInv, Holds, VectorTypes
  <1> DEFINE a == V!Reserved(n)
             b == array'
             oc == objects'
             ey == expected'
  <1>2. Holds(a, size, objects, expected) /\ n <= Len(a)
    BY <1>1, ReservedRoom, Reallocated DEF VectorInv
  <1>3. /\ new \in [size + 1 .. n -> V!Unused(objects)] /\ V!IsInjective(new)
    BY DEF V!Injection
  <1>4. \A i \in size + 1 .. n : new[i] \in Address /\ new[i] \notin DOMAIN objects
    BY <1>3 DEF V!Unused
  <1>5. new \in V!Injection(size + 1 .. n, Address)
    BY <1>3, <1>4 DEF V!Injection
  <1>6. DefaultCopies(objects, expected, size, n, new, oc, ey)
    BY <1>4 DEF DefaultCopies
  <1>7. DefaultsIn(a, size, n, new, b)
    BY <1>5 DEF DefaultsIn
  <1>8. size < n
    BY <1>1
  <1> HIDE DEF a, b, oc, ey
  <1>9. Holds(b, n, oc, ey)
    BY ONLY <1>1, <1>2, <1>6, <1>7, <1>8, Extended
  <1> QED BY <1>9 DEF b, oc, ey

LEMMA ResizeStep ==
    ASSUME VectorInv, NEW n \in 0 .. MaxSize, V!vector_resize(n)
    PROVE  VectorInv'
  <1>1. size' = n /\ capacity' = Len(array')
        /\ expected' = [i \in 1 .. n |-> IF i <= size THEN expected[i] ELSE Default]
    BY DEF V!vector_resize
  <1>2. CASE /\ n < size
             /\ objects' = V!Freed(objects, V!Slots(n, size))
             /\ array' = [i \in DOMAIN array |-> IF i \in n + 1 .. size THEN NULL ELSE array[i]]
    BY <1>1, <1>2, ResizeDown DEF VectorInv
  <1>3. CASE /\ n > size
             /\ \E new \in V!Injection(size + 1 .. n, V!Unused(objects)) :
                  /\ array' = [i \in DOMAIN V!Reserved(n) |->
                                 IF i \in DOMAIN new THEN new[i] ELSE V!Reserved(n)[i]]
                  /\ objects' = [p \in DOMAIN objects \cup V!Range(new) |->
                                   IF p \in V!Range(new) THEN Default ELSE objects[p]]
    BY <1>1, <1>3, ResizeUp DEF VectorInv
  <1> QED BY <1>2, <1>3 DEF V!vector_resize
LEMMA SetStep ==
    ASSUME VectorInv, NEW i \in 0 .. MaxSize, NEW v \in Values, V!vector_set(i, v)
    PROVE  VectorInv'
  <1> DEFINE k == i + 1
             hp == V!Freed(objects, {array[k]})
  <1>1. PICK p \in V!Unused(hp) : objects' = V!Put(hp, p, v) /\ array' = [array EXCEPT ![k] = p]
    BY DEF V!vector_set
  <1>2. p \in Address /\ p \notin DOMAIN hp
    BY <1>1 DEF V!Unused
  <1>3. size \in Nat /\ array \in Seq(Slot) /\ capacity = Len(array)
    BY DEF VectorInv, Holds, VectorTypes
  <1>4. k \in 1 .. size
    BY <1>3, Growth DEF V!vector_set
  <1>5. v \in Element /\ expected' = [expected EXCEPT ![k] = v] /\ size' = size /\ capacity' = capacity
    BY DEF V!vector_set, Element
  <1>6. Len(array') = Len(array)
    BY <1>1, <1>3
  <1>7. Holds(array, size, objects, expected)
    BY DEF VectorInv
  <1> HIDE DEF k
  <1> DEFINE b == array'
             oc == objects'
             ey == expected'
  <1>8. hp = V!Freed(objects, {array[k]}) /\ oc = V!Put(hp, p, v)
        /\ b = [array EXCEPT ![k] = p] /\ ey = [expected EXCEPT ![k] = v]
    BY <1>1, <1>5
  <1> HIDE DEF hp, b, oc, ey
  <1>9. Holds(b, size, oc, ey)
    BY ONLY <1>2, <1>4, <1>5, <1>7, <1>8, Replaced
  <1> QED BY <1>3, <1>5, <1>6, <1>9 DEF VectorInv, b, oc, ey

\* vector_push_back, and vector_insert behind the last element.
LEMMA PushStep ==
    ASSUME VectorInv, NEW v \in Values, V!PushBack(v)
    PROVE  /\ Holds(array', size + 1, objects', Append(expected, v))
           /\ size' = size + 1 /\ capacity' = Len(array')
  <1> DEFINE a == V!Reserved(size + 1)
             b == array'
             oc == objects'
             ey == Append(expected, v)
  <1>1. PICK p \in V!Unused(objects) : /\ array' = [a EXCEPT ![size + 1] = p]
                                       /\ objects' = V!Put(objects, p, v)
    BY DEF V!PushBack
  <1>2. p \in Address /\ p \notin DOMAIN objects /\ v \in Element
    BY <1>1 DEF V!Unused, Element
  <1>3. size \in Nat /\ size + 1 \in Nat
    BY DEF VectorInv, Holds, VectorTypes
  <1>4. SameSlots(array, a, size) /\ size + 1 <= Len(a)
    BY <1>3, ReservedRoom
  <1>5. b = [a EXCEPT ![size + 1] = p] /\ oc = V!Put(objects, p, v) /\ ey = Append(expected, v)
    BY <1>1
  <1> HIDE DEF a, b, oc, ey
  <1>6. Holds(a, size, objects, expected)
    BY <1>4, Reallocated DEF VectorInv
  <1>7. size < Len(a)
    BY <1>3, <1>4, <1>6 DEF Holds, VectorTypes
  <1>8. Holds(b, size + 1, oc, ey)
    BY ONLY <1>2, <1>5, <1>6, <1>7, Pushed
  <1> QED BY <1>8 DEF V!PushBack, b, oc, ey

LEMMA PushBackStep ==
    ASSUME VectorInv, NEW v \in Values, V!vector_push_back(v)
    PROVE  VectorInv'
  BY PushStep DEF V!vector_push_back, VectorInv

LEMMA PopStep ==
    ASSUME VectorInv, V!vector_pop_back
    PROVE  VectorInv'
  <1> DEFINE m == size - 1
             b == array'
             oc == objects'
             ey == expected'
  <1>1. array \in Seq(Slot) /\ size \in Nat /\ size <= Len(array) /\ Len(array) \in Nat
        /\ expected \in Seq(Element) /\ Len(expected) = size /\ capacity = Len(array)
    BY DEF VectorInv, Holds, VectorTypes
  <1>2. size > 0 /\ size' = m /\ array' = [array EXCEPT ![size] = NULL] /\ capacity' = capacity
        /\ objects' = V!Freed(objects, V!Slots(m, size)) /\ expected' = V!Front(expected)
    BY DEF V!vector_pop_back
  <1>3. m \in Nat /\ m <= size /\ size \in 1 .. Len(array) /\ m <= Len(array)
        /\ \A i \in 1 .. m : i # size /\ i \in 1 .. Len(array)
    BY <1>1, <1>2
  <1>4. b \in Seq(Slot) /\ Len(b) = Len(array) /\ \A i \in 1 .. m : b[i] = array[i]
    <2>1. NULL \in Slot
      BY DEF Slot
    <2> HIDE DEF m
    <2> QED BY <1>1, <1>2, <1>3, <2>1
  <1>5. ey \in Seq(Element) /\ Len(ey) = m /\ \A i \in 1 .. m : ey[i] = expected[i]
    <2>1. ey = SubSeq(expected, 1, m)
      BY <1>1, <1>2 DEF V!Front
    <2>2. 1 \in 1 .. Len(expected) + 1 /\ m \in (1 - 1) .. Len(expected)
          /\ m - 1 + 1 = m /\ \A i \in 1 .. m : 1 + i - 1 = i
      BY <1>1, <1>3
    <2> HIDE DEF ey, m
    <2> QED BY <1>1, <2>1, <2>2, SubSeqProperties
  <1>6. oc = V!Freed(objects, {array[i + 1] : i \in m .. size - 1})
    BY <1>2 DEF V!Slots
  <1>7. Holds(array, size, objects, expected)
    BY DEF VectorInv
  <1> HIDE DEF b, oc, ey, m
  <1>8. SameSlots(array, b, m)
    BY <1>3, <1>4 DEF SameSlots
  <1>9. Holds(b, m, oc, ey)
    BY ONLY <1>3, <1>5, <1>6, <1>7, <1>8, Truncated
  <1> QED BY <1>1, <1>2, <1>4, <1>9 DEF VectorInv, b, oc, ey

LEMMA InsertStep ==
    ASSUME VectorInv, NEW i \in 0 .. MaxSize, NEW v \in Values, V!vector_insert(i, v)
    PROVE  VectorInv'
  <1>1. array \in Seq(Slot) /\ size \in Nat /\ size <= Len(array) /\ Len(array) \in Nat
        /\ expected \in Seq(Element) /\ Len(expected) = size /\ capacity = Len(array) /\ i \in Nat
    BY Growth DEF VectorInv, Holds, VectorTypes
  <1>2. CASE i >= size /\ V!PushBack(v)
    <2>1. expected' = V!InsertAt(expected, size + 1, v)
      BY <1>1, <1>2 DEF V!vector_insert
    <2>2. Inserted(expected, size + 1, v, expected', Element)
      <3>1. size + 1 \in 1 .. Len(expected) + 1 /\ v \in Element
        BY <1>1 DEF Element
      <3> QED BY <1>1, <2>1, <3>1, InsertAtInserts
    <2>3. expected' = Append(expected, v)
      <3> DEFINE ey == expected'
                 ez == Append(expected, v)
      <3>1. ey \in Seq(Element) /\ Len(ey) = size + 1
        BY <1>1, <2>2 DEF Inserted
      <3>2. ez \in Seq(Element) /\ Len(ez) = size + 1 /\ ez[size + 1] = v
            /\ \A j \in 1 .. size : ez[j] = expected[j]
        BY <1>1 DEF Element
      <3>3. \A j \in 1 .. size + 1 : ey[j] = IF j < size + 1 THEN expected[j]
                                            ELSE IF j = size + 1 THEN v ELSE expected[j - 1]
        BY <1>1, <2>2 DEF Inserted
      <3>4. \A j \in 1 .. size + 1 : (j \in 1 .. size /\ j < size + 1) \/ (j = size + 1 /\ ~(j < size + 1))
        BY <1>1
      <3> HIDE DEF ey, ez
      <3>5. \A j \in 1 .. size + 1 : ey[j] = ez[j]
        BY <3>2, <3>3, <3>4
      <3>6. ey = ez
        BY <3>1, <3>2, <3>5, SeqEqual
      <3> QED BY <3>6 DEF ey, ez
    <2> QED BY <1>2, <2>3, PushStep DEF VectorInv
  <1>3. CASE /\ i < size /\ size < MaxSize
             /\ \E p \in V!Unused(objects) :
                  /\ array' = V!Allocated(V!get_new_capacity(size + 1), V!Shifted(i, p))
                  /\ objects' = V!Put(objects, p, v)
             /\ capacity' = Len(array') /\ size' = size + 1
    <2>1. PICK p \in V!Unused(objects) :
                  /\ array' = V!Allocated(V!get_new_capacity(size + 1), V!Shifted(i, p))
                  /\ objects' = V!Put(objects, p, v)
      BY <1>3
    <2> DEFINE k == i + 1
               s == SubSeq(array, 1, size)
               r == V!InsertAt(s, k, p)
               c == V!get_new_capacity(size + 1)
               b == array'
               oc == objects'
               ey == expected'
    <2>2. p \in Address /\ p \notin DOMAIN objects /\ v \in Element /\ p \in Slot
      BY <2>1 DEF V!Unused, Element, Slot
    <2>3. k \in 1 .. size /\ k \in 1 .. size + 1
      BY <1>1, <1>3
    <2>4. s \in Seq(Slot) /\ Len(s) = size /\ \A j \in 1 .. size : s[j] = array[j]
      BY InUse
    <2>5. ey = V!InsertAt(expected, k, v)
      BY <1>3 DEF V!vector_insert
    <2>6. b = V!Allocated(c, r) /\ oc = V!Put(objects, p, v)
      BY <2>1 DEF V!Shifted
    <2>7. c \in Nat /\ c >= size + 1
      BY <1>1, EnoughCapacity
    <2> HIDE DEF k, s, c, b, oc, ey
    <2>8. Inserted(s, k, p, r, Slot)
      BY <2>2, <2>3, <2>4, InsertAtInserts
    <2>9. Inserted(expected, k, v, ey, Element)
      BY <1>1, <2>2, <2>3, <2>5, InsertAtInserts
    <2> HIDE DEF r
    <2>10. r \in Seq(Slot) /\ Len(r) = size + 1
      BY <2>4, <2>8 DEF Inserted
    <2>11. SameSlots(r, b, size + 1)
      BY <2>6, <2>7, <2>10, AllocatedSlots
    <2>12. Holds(array, size, objects, expected)
      BY DEF VectorInv
    <2>13. Holds(b, size + 1, oc, ey)
      BY ONLY <2>2, <2>3, <2>4, <2>6, <2>8, <2>9, <2>11, <2>12, InsertedCopy
    <2> QED BY <1>3, <2>13 DEF VectorInv, b, oc, ey
  <1> QED BY <1>2, <1>3 DEF V!vector_insert

LEMMA EraseStep ==
    ASSUME VectorInv, NEW i \in 0 .. MaxSize, V!vector_erase(i)
    PROVE  VectorInv'
  <1> DEFINE k == i + 1
             s == SubSeq(array, 1, size)
             r == V!RemoveAt(s, k)
             c == V!get_new_capacity(size)
             b == array'
             oc == objects'
             ey == expected'
  <1>1. array \in Seq(Slot) /\ size \in Nat /\ size <= Len(array) /\ Len(array) \in Nat
        /\ expected \in Seq(Element) /\ Len(expected) = size /\ capacity = Len(array) /\ i \in Nat
    BY Growth DEF VectorInv, Holds, VectorTypes
  <1>2. i < size /\ b = V!Allocated(c, r) /\ ey = V!RemoveAt(expected, k)
        /\ oc = V!Freed(objects, V!Slots(i, i + 1)) /\ capacity' = Len(array') /\ size' = size - 1
    BY DEF V!vector_erase
  <1>3. oc = V!Freed(objects, {array[k]})
    <2>1. i .. (i + 1) - 1 = {i}
      BY <1>1
    <2>2. V!Slots(i, i + 1) = {array[k]}
      BY <2>1 DEF V!Slots
    <2> QED BY <1>2, <2>2
  <1>4. k \in 1 .. size /\ size > 0
    BY <1>1, <1>2
  <1>5. s \in Seq(Slot) /\ Len(s) = size /\ \A j \in 1 .. size : s[j] = array[j]
    BY InUse
  <1>6. c \in Nat /\ c >= size
    BY <1>1, <1>4, EnoughCapacity
  <1> HIDE DEF k, s, c, b, oc, ey
  <1>7. Removed(s, k, r, Slot)
    BY <1>4, <1>5, RemoveAtRemoves
  <1>8. Removed(expected, k, ey, Element)
    BY <1>1, <1>2, <1>4, RemoveAtRemoves
  <1> HIDE DEF r
  <1>9. r \in Seq(Slot) /\ Len(r) = size - 1 /\ size - 1 <= c
    BY <1>1, <1>5, <1>6, <1>7 DEF Removed
  <1>10. SameSlots(r, b, size - 1)
    BY <1>2, <1>6, <1>9, AllocatedSlots
  <1>11. Holds(array, size, objects, expected)
    BY DEF VectorInv
  <1>12. Holds(b, size - 1, oc, ey)
    BY ONLY <1>3, <1>4, <1>5, <1>7, <1>8, <1>10, <1>11, Erased
  <1> QED BY <1>2, <1>12 DEF VectorInv, b, oc, ey

\* vector_clear and vector_destroy: whatever the array, it has no elements.
LEMMA Emptied ==
    ASSUME VectorInv, objects' = V!Freed(objects, V!Slots(0, size)), expected' = <<>>,
           array' \in Seq(Slot)
    PROVE  Holds(array', 0, objects', expected')
  <1> DEFINE b == array'
             oc == objects'
             ey == expected'
  <1>1. size \in Nat /\ Holds(array, size, objects, expected)
    BY DEF VectorInv, Holds, VectorTypes
  <1>2. oc = V!Freed(objects, {array[i + 1] : i \in 0 .. size - 1})
    BY DEF V!Slots
  <1>3. SameSlots(array, b, 0)
    BY DEF SameSlots
  <1>4. ey \in Seq(Element) /\ Len(ey) = 0 /\ \A i \in 1 .. 0 : ey[i] = expected[i]
    OBVIOUS
  <1>5. 0 \in Nat /\ 0 <= size
    BY <1>1
  <1> HIDE DEF b, oc, ey
  <1>6. Holds(b, 0, oc, ey)
    BY ONLY <1>1, <1>2, <1>3, <1>4, <1>5, Truncated
  <1> QED BY <1>6 DEF b, oc, ey

LEMMA ClearStep ==
    ASSUME VectorInv, V!vector_clear
    PROVE  VectorInv'
  <1>1. array \in Seq(Slot) /\ capacity = Len(array) /\ DOMAIN array = 1 .. Len(array)
        /\ Len(array) \in Nat /\ \A i \in 1 .. Len(array) : array[i] \in Slot
    BY DEF VectorInv, Holds, VectorTypes
  <1>2. array' \in [1 .. Len(array) -> Slot]
    BY <1>1 DEF V!vector_clear, Slot
  <1>3. array' \in Seq(Slot) /\ Len(array') = Len(array)
    BY <1>1, <1>2
  <1>4. Holds(array', 0, objects', expected')
    BY <1>3, Emptied DEF V!vector_clear
  <1> QED BY <1>1, <1>3, <1>4 DEF V!vector_clear, VectorInv

\* A new array of INITIAL_CAPACITY slots.
LEMMA NewArray ==
    ASSUME NEW a, a = [i \in 1 .. INITIAL_CAPACITY |-> JUNK]
    PROVE  a \in Seq(Slot) /\ Len(a) = INITIAL_CAPACITY
  <1>1. a \in [1 .. INITIAL_CAPACITY -> Slot]
    BY DEF Slot
  <1> QED BY <1>1, Growth

LEMMA DestroyStep ==
    ASSUME VectorInv, V!vector_destroy
    PROVE  VectorInv'
  <1>1. array' \in Seq(Slot) /\ Len(array') = INITIAL_CAPACITY
    BY NewArray DEF V!vector_destroy
  <1>2. Holds(array', 0, objects', expected')
    BY <1>1, Emptied DEF V!vector_destroy
  <1> QED BY <1>1, <1>2 DEF V!vector_destroy, VectorInv

LEMMA VectorInductive == V!Spec => []VectorInv
  <1>1. V!Init => VectorInv
    <2> SUFFICES ASSUME V!Init PROVE VectorInv
      OBVIOUS
    <2>1. array \in Seq(Slot) /\ Len(array) = INITIAL_CAPACITY
      BY NewArray DEF V!Init
    <2>2. size = 0 /\ objects = <<>> /\ expected = <<>> /\ capacity = INITIAL_CAPACITY
      BY DEF V!Init
    <2>3. VectorTypes(array, 0, <<>>, <<>>)
      BY <2>1, Growth DEF VectorTypes
    <2>4. Stored(array, 0, <<>>, <<>>) /\ Apart(array, 0) /\ AllIn(array, 0, <<>>)
      BY DEF Stored, Apart, AllIn
    <2> QED BY <2>1, <2>2, <2>3, <2>4 DEF VectorInv, Holds
  <1>2. VectorInv /\ [V!Next]_(V!vars) => VectorInv'
    <2> SUFFICES ASSUME VectorInv, [V!Next]_(V!vars) PROVE VectorInv'
      OBVIOUS
    <2>1. ASSUME NEW n \in 0 .. MaxSize, V!vector_reserve(n) \/ V!vector_resize(n)
          PROVE  VectorInv'
      BY <2>1, ReserveStep, ResizeStep
    <2>2. ASSUME NEW v \in Values, V!vector_push_back(v) PROVE VectorInv'
      BY <2>2, PushBackStep
    <2>3. ASSUME NEW v \in Values, NEW i \in 0 .. MaxSize, V!vector_set(i, v) \/ V!vector_insert(i, v)
          PROVE  VectorInv'
      BY <2>3, SetStep, InsertStep
    <2>4. ASSUME NEW i \in 0 .. MaxSize, V!vector_erase(i) PROVE VectorInv'
      BY <2>4, EraseStep
    <2>5. CASE V!vector_pop_back
      BY <2>5, PopStep
    <2>6. CASE V!vector_clear
      BY <2>6, ClearStep
    <2>7. CASE V!vector_destroy
      BY <2>7, DestroyStep
    <2>8. CASE UNCHANGED V!vars
      BY <2>8 DEF V!vars, VectorInv
    <2> QED BY <2>1, <2>2, <2>3, <2>4, <2>5, <2>6, <2>7, <2>8 DEF V!Next
  <1> QED BY <1>1, <1>2, PTL DEF V!Spec

\* However calls that grow, shift and shrink the array follow each other
\* (vector_destroy to vector_clear, lines 107-318), for every growth factor
\* and initial capacity: the vector holds what they should have left, in slots it
\* has, each a copy of its own, and no copy is lost or freed twice.
THEOREM VectorHolds == V!Spec => []VectorMatches
  <1>1. VectorInv => VectorMatches
    <2> SUFFICES ASSUME VectorInv PROVE VectorMatches
      OBVIOUS
    <2>1. /\ VectorTypes(array, size, objects, expected) /\ Stored(array, size, objects, expected)
          /\ Apart(array, size) /\ AllIn(array, size, objects) /\ capacity = Len(array)
      BY DEF VectorInv, Holds
    <2>2. size \in Nat /\ size <= capacity /\ size = Len(expected)
      BY <2>1 DEF VectorTypes
    <2>3. DOMAIN objects = V!Slots(0, size)
      <3>1. ASSUME NEW p \in DOMAIN objects PROVE p \in V!Slots(0, size)
        <4>1. PICK i \in 1 .. size : array[i] = p
          BY <2>1 DEF AllIn
        <4>2. i - 1 \in 0 .. size - 1 /\ (i - 1) + 1 = i
          BY <2>2
        <4> QED BY <4>1, <4>2 DEF V!Slots
      <3>2. ASSUME NEW p \in V!Slots(0, size) PROVE p \in DOMAIN objects
        <4>1. PICK i \in 0 .. size - 1 : p = array[i + 1]
          BY DEF V!Slots
        <4>2. i + 1 \in 1 .. size
          BY <2>2
        <4> QED BY <2>1, <4>1, <4>2 DEF Stored
      <3> QED BY <3>1, <3>2
    <2> QED BY <2>1, <2>2, <2>3 DEF VectorMatches, V!VectorMatches, Stored, Apart
  <1> QED BY <1>1, VectorInductive, PTL
-----------------------------------------------------------------------------
(* libscheduler.c.  S is the scheduler as MCLibraries has it: i is a       *)
(* job_info, r, w and f for how long the job has run and waited and when   *)
(* it first ran, u the ticks per second, c is currenttime and t the time.  *)

LEMMA Given == /\ Units \subseteq Nat \ {0} /\ Kinds \subseteq [runningtime : Nat \ {0}, priority : Int]
               /\ NONE \notin Jobs /\ NONE \notin Int
               /\ NONE \notin S!JobInfo /\ FREED \notin S!JobInfo
  BY JobsAssumption DEF S!JobsOK

\* The books of a job in the queue.
Booked(i, r, u) == /\ i.timeremaining <= i.runningtime - r
                   /\ u = 1 => i.timeremaining = i.runningtime - r

\* Of the running job, less what it will be charged for; it has started.
Charging(i, r, u, c, t) == /\ i.timeremaining + c - t <= i.runningtime - r
                           /\ u = 1 => i.timeremaining + c - t = i.runningtime - r
                           /\ u = 1 /\ r = 0 => i.starttime = t

\* What the caller measures, for a job in the queue or running.
Measured(i, r, w, f, t, u) == /\ t - i.arrivetime = r + w
                              /\ r = 0 <=> f = NONE
                              /\ u = 1 /\ r > 0 => i.starttime = f

Known(j) == info[j] \in S!JobInfo

SchedulerTypes ==
  /\ unit \in Nat \ {0} /\ now \in Nat /\ seq \in Nat
  /\ running \in Jobs \cup {NONE} /\ pqueue \subseteq Jobs /\ running \notin pqueue
  /\ info \in [Jobs -> S!JobInfo \cup {NONE, FREED}]
  /\ ran \in [Jobs -> Nat] /\ waited \in [Jobs -> Nat] /\ first \in [Jobs -> Nat \cup {NONE}]
  /\ \A j \in Jobs : Known(j) <=> j \in pqueue \/ j = running
  /\ running # NONE => currenttime \in Nat /\ currenttime <= now

BooksRight == \A j \in pqueue : Booked(info[j], ran[j], unit)
RunningRight == running # NONE => Charging(info[running], ran[running], unit, currenttime, now)
ClockRight == \A j \in Jobs :
                IF Known(j) THEN Measured(info[j], ran[j], waited[j], first[j], now, unit)
                ELSE ran[j] = 0 /\ waited[j] = 0 /\ first[j] = NONE

SchedulerInv == SchedulerTypes /\ BooksRight /\ RunningRight /\ ClockRight

\* A double assigned to an int.
LEMMA Truncation ==
    ASSUME NEW t \in Nat, unit \in Nat \ {0}
    PROVE  /\ S!Truncated(t) \in Nat /\ S!Truncated(t) <= t
           /\ unit = 1 => S!Truncated(t) = t
  <1>1. t \div unit \in Nat
    OBVIOUS
  <1>2. (t \div unit) * unit <= t
    OBVIOUS
  <1>3. (t \div unit) * unit \in Nat
    BY <1>1
  <1>4. unit = 1 => (t \div unit) * unit = t
    OBVIOUS
  <1> QED BY <1>2, <1>3, <1>4 DEF S!Truncated

\* b is a but for the time remaining, the start and the sequence number.
SameJob(a, b) == b.runningtime = a.runningtime /\ b.priority = a.priority /\ b.arrivetime = a.arrivetime

\* Lines 160-162: charged for the time since the last call, the books are right.
LEMMA ChargeSettles ==
    ASSUME NEW i \in S!JobInfo, NEW r \in Nat, NEW u \in Nat, currenttime \in Nat, now \in Nat,
           Charging(i, r, u, currenttime, now)
    PROVE  /\ S!Charged(i) \in S!JobInfo /\ Booked(S!Charged(i), r, u)
           /\ S!Charged(i).starttime = i.starttime /\ SameJob(i, S!Charged(i))
  <1>1. currenttime # NONE
    BY Given
  <1> DEFINE k == S!Charged(i)
  <1>2. k = [i EXCEPT !.timeremaining = i.timeremaining - (now - currenttime)]
    BY <1>1 DEF S!Charged
  <1>3. /\ i.runningtime \in Nat \ {0} /\ i.priority \in Int /\ i.arrivetime \in Nat
        /\ i.timeremaining \in Int /\ i.starttime \in Nat /\ i.sequence \in Nat
        /\ i = [runningtime |-> i.runningtime, priority |-> i.priority, arrivetime |-> i.arrivetime,
                timeremaining |-> i.timeremaining, starttime |-> i.starttime, sequence |-> i.sequence]
    BY DEF S!JobInfo
  <1>4. k.timeremaining = i.timeremaining - (now - currenttime) /\ k.runningtime = i.runningtime
        /\ k.starttime = i.starttime /\ k.priority = i.priority /\ k.arrivetime = i.arrivetime
    BY <1>2, <1>3
  <1>5. k \in S!JobInfo
    BY <1>2, <1>3 DEF S!JobInfo
  <1> HIDE DEF k
  <1>6. Booked(k, r, u)
    BY <1>3, <1>4 DEF Booked, Charging
  <1>7. SameJob(i, k)
    BY <1>4 DEF SameJob
  <1> QED BY <1>4, <1>5, <1>6, <1>7 DEF k

\* Lines 173-176: the job chosen starts, unless it has run before.
LEMMA StartBegins ==
    ASSUME NEW i \in S!JobInfo, NEW r \in Nat, NEW w, NEW f, NEW u \in Nat, now \in Nat,
           NEW c \in Nat, c <= now, u = 1 => c = now,
           Booked(i, r, u), Measured(i, r, w, f, now, u)
    PROVE  /\ S!Started(i) \in S!JobInfo /\ Charging(S!Started(i), r, u, c, now)
           /\ Measured(S!Started(i), r, w, f, now, u) /\ SameJob(i, S!Started(i))
           /\ S!Started(i).timeremaining = i.timeremaining /\ S!Started(i).sequence = i.sequence
  <1> DEFINE k == S!Started(i)
  <1>3. /\ i.runningtime \in Nat \ {0} /\ i.priority \in Int /\ i.arrivetime \in Nat
        /\ i.timeremaining \in Int /\ i.starttime \in Nat /\ i.sequence \in Nat
        /\ i = [runningtime |-> i.runningtime, priority |-> i.priority, arrivetime |-> i.arrivetime,
                timeremaining |-> i.timeremaining, starttime |-> i.starttime, sequence |-> i.sequence]
    BY DEF S!JobInfo
  <1>4. k.timeremaining = i.timeremaining /\ k.runningtime = i.runningtime
        /\ k.priority = i.priority /\ k.arrivetime = i.arrivetime /\ k.sequence = i.sequence
        /\ k.starttime = IF i.timeremaining = i.runningtime THEN now ELSE i.starttime
    <2>1. CASE i.timeremaining = i.runningtime
      <3>1. k = [i EXCEPT !.starttime = now]
        BY <2>1 DEF S!Started
      <3> QED BY <1>3, <2>1, <3>1
    <2>2. CASE i.timeremaining # i.runningtime
      BY <2>2 DEF S!Started
    <2> QED BY <2>1, <2>2
  <1>5. k \in S!JobInfo
    <2>1. CASE i.timeremaining = i.runningtime
      <3>1. k = [i EXCEPT !.starttime = now]
        BY <2>1 DEF S!Started
      <3> QED BY <1>3, <3>1 DEF S!JobInfo
    <2>2. CASE i.timeremaining # i.runningtime
      BY <2>2 DEF S!Started
    <2> QED BY <2>1, <2>2
  <1> HIDE DEF k
  <1>6. Charging(k, r, u, c, now)
    <2>1. k.timeremaining + c - now <= k.runningtime - r
      BY <1>3, <1>4 DEF Booked
    <2>2. u = 1 => k.timeremaining + c - now = k.runningtime - r
      BY <1>3, <1>4 DEF Booked
    <2>3. u = 1 /\ r = 0 => k.starttime = now
      BY <1>3, <1>4 DEF Booked
    <2> QED BY <2>1, <2>2, <2>3 DEF Charging
  <1>7. Measured(k, r, w, f, now, u)
    <2>1. u = 1 /\ r > 0 => k.starttime = i.starttime
      BY <1>3, <1>4 DEF Booked
    <2> QED BY <1>4, <2>1 DEF Measured
  <1>8. SameJob(i, k)
    BY <1>4 DEF SameJob
  <1> QED BY <1>4, <1>5, <1>6, <1>7, <1>8 DEF k

LEMMA SameMeasured ==
    ASSUME NEW a, NEW b, SameJob(a, b), b.starttime = a.starttime, NEW r, NEW w, NEW f, NEW t, NEW u,
           Measured(a, r, w, f, t, u)
    PROVE  Measured(b, r, w, f, t, u)
  BY DEF SameJob, Measured
LEMMA NewJobStep ==
    ASSUME SchedulerInv, NEW j \in Jobs, S!scheduler_new_job(j)
    PROVE  SchedulerInv'
  <1>1. PICK k \in Kinds :
          info' = [info EXCEPT ![j] = [runningtime |-> k.runningtime, priority |-> k.priority,
                                       arrivetime |-> now, timeremaining |-> k.runningtime,
                                       starttime |-> 0, sequence |-> seq]]
    BY DEF S!scheduler_new_job
  <1> DEFINE new == [runningtime |-> k.runningtime, priority |-> k.priority,
                     arrivetime |-> now, timeremaining |-> k.runningtime,
                     starttime |-> 0, sequence |-> seq]
  <1>2. /\ info[j] = NONE /\ seq' = seq + 1 /\ pqueue' = pqueue \cup {j}
        /\ currenttime' = currenttime /\ running' = running
        /\ unit' = unit /\ now' = now /\ ran' = ran /\ waited' = waited /\ first' = first
    BY DEF S!scheduler_new_job, S!clock
  <1>3. SchedulerTypes /\ BooksRight /\ RunningRight /\ ClockRight
    BY DEF SchedulerInv
  <1>4. k.runningtime \in Nat \ {0} /\ k.priority \in Int
    BY Given
  <1>5. /\ new \in S!JobInfo /\ new.arrivetime = now /\ new.timeremaining = k.runningtime
        /\ new.runningtime = k.runningtime
    BY <1>3, <1>4 DEF S!JobInfo, SchedulerTypes
  <1>6. ~Known(j) /\ j \notin pqueue /\ j # running
    BY <1>2, <1>3, Given DEF Known, SchedulerTypes
  <1>7. ran[j] = 0 /\ waited[j] = 0 /\ first[j] = NONE
    BY <1>3, <1>6 DEF ClockRight
  <1> HIDE DEF new
  <1>8. info'[j] = new /\ \A x \in Jobs : x # j => info'[x] = info[x]
    BY <1>1, <1>3 DEF new, SchedulerTypes
  <1>9. SchedulerTypes'
    <2>1. info' \in [Jobs -> S!JobInfo \cup {NONE, FREED}]
      BY <1>1, <1>3, <1>5 DEF new, SchedulerTypes
    <2>2. \A x \in Jobs : info'[x] \in S!JobInfo <=> x \in pqueue' \/ x = running'
      BY <1>2, <1>3, <1>5, <1>8 DEF SchedulerTypes, Known
    <2>3. pqueue' \subseteq Jobs /\ running' \notin pqueue' /\ seq' \in Nat
      BY <1>2, <1>3, <1>6 DEF SchedulerTypes
    <2> QED BY <1>2, <1>3, <2>1, <2>2, <2>3 DEF SchedulerTypes, Known
  <1>10. BooksRight'
    <2>1. Booked(new, 0, unit)
      BY <1>4, <1>5 DEF Booked
    <2>2. ASSUME NEW x \in pqueue' PROVE Booked(info'[x], ran[x], unit)
      <3>1. CASE x = j
        BY <1>7, <1>8, <2>1, <3>1
      <3>2. CASE x # j
        <4>1. x \in pqueue /\ x \in Jobs
          BY <1>2, <1>3, <3>2 DEF SchedulerTypes
        <4> QED BY <1>3, <1>8, <3>2, <4>1 DEF BooksRight
      <3> QED BY <3>1, <3>2
    <2> QED BY <1>2, <2>2 DEF BooksRight
  <1>11. RunningRight'
    BY <1>2, <1>3, <1>6, <1>8 DEF RunningRight, SchedulerTypes
  <1>12. ClockRight'
    <2>1. Measured(new, 0, 0, NONE, now, unit)
      BY <1>3, <1>5 DEF Measured, SchedulerTypes
    <2>2. ASSUME NEW x \in Jobs
          PROVE  IF info'[x] \in S!JobInfo
                 THEN Measured(info'[x], ran[x], waited[x], first[x], now, unit)
                 ELSE ran[x] = 0 /\ waited[x] = 0 /\ first[x] = NONE
      <3>1. CASE x = j
        BY <1>5, <1>7, <1>8, <2>1, <3>1
      <3>2. CASE x # j
        BY <1>3, <1>8, <3>2 DEF ClockRight, Known
      <3> QED BY <3>1, <3>2
    <2> QED BY <1>2, <2>2 DEF ClockRight, Known
  <1> QED BY <1>9, <1>10, <1>11, <1>12 DEF SchedulerInv

\* The running job, whatever the scheme.
LEMMA RunningKnown ==
    ASSUME SchedulerInv, running # NONE
    PROVE  /\ running \in Jobs /\ info[running] \in S!JobInfo /\ running \notin pqueue
           /\ ran[running] \in Nat /\ currenttime \in Nat /\ currenttime <= now /\ now \in Nat
           /\ unit \in Nat
           /\ Charging(info[running], ran[running], unit, currenttime, now)
           /\ Measured(info[running], ran[running], waited[running], first[running], now, unit)
  BY DEF SchedulerInv, SchedulerTypes, RunningRight, ClockRight, Known

LEMMA KeepRunningStep ==
    ASSUME SchedulerInv, S!KeepRunning
    PROVE  SchedulerInv'
  <1> DEFINE new == S!Charged(info[running])
             c == S!Truncated(now)
  <1>1. /\ info' = [info EXCEPT ![running] = new] /\ currenttime' = c
        /\ seq' = seq /\ pqueue' = pqueue /\ running' = running /\ running # NONE
        /\ unit' = unit /\ now' = now /\ ran' = ran /\ waited' = waited /\ first' = first
    BY DEF S!KeepRunning, S!clock
  <1>2. SchedulerTypes /\ BooksRight /\ RunningRight /\ ClockRight
    BY DEF SchedulerInv
  <1>3. /\ running \in Jobs /\ info[running] \in S!JobInfo /\ running \notin pqueue
        /\ ran[running] \in Nat /\ currenttime \in Nat /\ now \in Nat /\ unit \in Nat
        /\ Charging(info[running], ran[running], unit, currenttime, now)
        /\ Measured(info[running], ran[running], waited[running], first[running], now, unit)
    BY <1>1, RunningKnown
  <1>4. /\ new \in S!JobInfo /\ Booked(new, ran[running], unit)
        /\ new.starttime = info[running].starttime /\ SameJob(info[running], new)
    BY <1>3, ChargeSettles
  <1>5. c \in Nat /\ c <= now /\ (unit = 1 => c = now)
    BY <1>2, Truncation DEF SchedulerTypes
  <1> HIDE DEF new, c
  <1>6. Measured(new, ran[running], waited[running], first[running], now, unit)
    BY <1>3, <1>4, SameMeasured
  <1>7. Charging(new, ran[running], unit, c, now)
    <2>1. new.timeremaining \in Int /\ new.runningtime \in Nat
      BY <1>4 DEF S!JobInfo
    <2>2. new.timeremaining + c - now <= new.runningtime - ran[running]
      BY <1>3, <1>4, <1>5, <2>1 DEF Booked
    <2>3. unit = 1 => new.timeremaining + c - now = new.runningtime - ran[running]
      BY <1>3, <1>4, <1>5, <2>1 DEF Booked
    <2> QED BY <1>3, <1>4, <2>2, <2>3 DEF Charging
  <1>8. info'[running] = new /\ \A x \in Jobs : x # running => info'[x] = info[x]
    BY <1>1, <1>2, <1>3 DEF SchedulerTypes
  <1>9. SchedulerTypes'
    <2>1. info' \in [Jobs -> S!JobInfo \cup {NONE, FREED}]
      BY <1>1, <1>2, <1>4 DEF SchedulerTypes
    <2>2. \A x \in Jobs : info'[x] \in S!JobInfo <=> x \in pqueue \/ x = running
      BY <1>2, <1>4, <1>8 DEF SchedulerTypes, Known
    <2> QED BY <1>1, <1>2, <1>5, <2>1, <2>2 DEF SchedulerTypes, Known
  <1>10. BooksRight'
    <2>1. \A x \in pqueue : x \in Jobs /\ x # running
      BY <1>2, <1>3 DEF SchedulerTypes
    <2> QED BY <1>1, <1>2, <1>8, <2>1 DEF BooksRight
  <1>11. RunningRight'
    BY <1>1, <1>7, <1>8 DEF RunningRight
  <1>12. ClockRight'
    <2>2. ASSUME NEW x \in Jobs
          PROVE  IF info'[x] \in S!JobInfo
                 THEN Measured(info'[x], ran[x], waited[x], first[x], now, unit)
                 ELSE ran[x] = 0 /\ waited[x] = 0 /\ first[x] = NONE
      <3>1. CASE x = running
        BY <1>4, <1>6, <1>8, <3>1
      <3>2. CASE x # running
        BY <1>2, <1>8, <3>2 DEF ClockRight, Known
      <3> QED BY <3>1, <3>2
    <2> QED BY <1>1, <2>2 DEF ClockRight, Known
  <1> QED BY <1>9, <1>10, <1>11, <1>12 DEF SchedulerInv

\* Lines 167-169: the queue and the books, the evicted job among them.
InQueue(queue, infos) ==
  /\ queue \subseteq Jobs /\ infos \in [Jobs -> S!JobInfo \cup {NONE, FREED}]
  /\ \A x \in Jobs : infos[x] \in S!JobInfo <=> x \in queue
  /\ \A x \in queue : Booked(infos[x], ran[x], unit)
  /\ \A x \in Jobs : IF infos[x] \in S!JobInfo
                     THEN Measured(infos[x], ran[x], waited[x], first[x], now, unit)
                     ELSE ran[x] = 0 /\ waited[x] = 0 /\ first[x] = NONE

LEMMA EvictedQueued ==
    ASSUME SchedulerInv, NEW queue, NEW infos,
           queue = IF running = NONE THEN pqueue ELSE pqueue \cup {running},
           infos = IF running = NONE THEN info
                   ELSE [info EXCEPT ![running] = [S!Charged(info[running]) EXCEPT !.sequence = seq]]
    PROVE  InQueue(queue, infos)
  <1>0. SchedulerTypes /\ BooksRight /\ RunningRight /\ ClockRight
    BY DEF SchedulerInv
  <1>1. CASE running = NONE
    <2>1. queue = pqueue /\ infos = info
      BY <1>1
    <2>2. NONE \notin Jobs
      BY Given
    <2>3. \A x \in Jobs : info[x] \in S!JobInfo <=> x \in pqueue
      BY <1>0, <1>1, <2>2 DEF SchedulerTypes, Known
    <2> QED BY ONLY <1>0, <2>1, <2>3 DEF InQueue, SchedulerTypes, BooksRight, ClockRight, Known
  <1>2. CASE running # NONE
    <2> DEFINE k == S!Charged(info[running])
               new == [k EXCEPT !.sequence = seq]
    <2>1. queue = pqueue \cup {running} /\ infos = [info EXCEPT ![running] = new]
      BY <1>2
    <2>3. /\ running \in Jobs /\ info[running] \in S!JobInfo /\ running \notin pqueue
          /\ ran[running] \in Nat /\ currenttime \in Nat /\ now \in Nat /\ unit \in Nat
          /\ Charging(info[running], ran[running], unit, currenttime, now)
          /\ Measured(info[running], ran[running], waited[running], first[running], now, unit)
      BY <1>2, RunningKnown
    <2>4. /\ k \in S!JobInfo /\ Booked(k, ran[running], unit)
          /\ k.starttime = info[running].starttime /\ SameJob(info[running], k)
      BY <2>3, ChargeSettles
    <2> HIDE DEF k
    <2>5. k = [runningtime |-> k.runningtime, priority |-> k.priority, arrivetime |-> k.arrivetime,
               timeremaining |-> k.timeremaining, starttime |-> k.starttime, sequence |-> k.sequence]
      BY <2>4 DEF S!JobInfo
    <2>6. /\ new.timeremaining = k.timeremaining /\ new.runningtime = k.runningtime
          /\ new.starttime = k.starttime /\ new.arrivetime = k.arrivetime /\ new.priority = k.priority
      BY <2>5
    <2>7. new \in S!JobInfo
      BY <1>0, <2>4, <2>5 DEF S!JobInfo, SchedulerTypes
    <2> HIDE DEF new
    <2>8. Booked(new, ran[running], unit)
      BY <2>4, <2>6 DEF Booked
    <2>9. Measured(new, ran[running], waited[running], first[running], now, unit)
      <3>1. SameJob(info[running], new) /\ new.starttime = info[running].starttime
        BY <2>4, <2>6 DEF SameJob
      <3> QED BY <2>3, <3>1, SameMeasured
    <2>10. infos[running] = new /\ \A x \in Jobs : x # running => infos[x] = info[x]
      BY <1>0, <2>1, <2>3 DEF SchedulerTypes
    <2>11. queue \subseteq Jobs /\ infos \in [Jobs -> S!JobInfo \cup {NONE, FREED}]
      BY <1>0, <2>1, <2>3, <2>7 DEF SchedulerTypes
    <2>12. \A x \in Jobs : infos[x] \in S!JobInfo <=> x \in queue
      BY <1>0, <2>1, <2>7, <2>10 DEF SchedulerTypes, Known
    <2>13. ASSUME NEW x \in queue PROVE Booked(infos[x], ran[x], unit)
      <3>1. CASE x = running
        BY <2>8, <2>10, <3>1
      <3>2. CASE x # running
        <4>1. x \in pqueue /\ x \in Jobs
          BY <2>1, <2>11, <3>2
        <4> QED BY <1>0, <2>10, <3>2, <4>1 DEF BooksRight
      <3> QED BY <3>1, <3>2
    <2>14. ASSUME NEW x \in Jobs
           PROVE IF infos[x] \in S!JobInfo
                 THEN Measured(infos[x], ran[x], waited[x], first[x], now, unit)
                 ELSE ran[x] = 0 /\ waited[x] = 0 /\ first[x] = NONE
      <3>1. CASE x = running
        BY <2>7, <2>9, <2>10, <3>1
      <3>2. CASE x # running
        BY <1>0, <2>10, <3>2 DEF ClockRight, Known
      <3> QED BY <3>1, <3>2
    <2> QED BY ONLY <2>11, <2>12, <2>13, <2>14 DEF InQueue
  <1> QED BY <1>1, <1>2

\* Lines 170-176: the job chosen runs.
Chosen(queue, infos, j) ==
  /\ j \in S!Polled(queue, infos)
  /\ info' = [infos EXCEPT ![j] = S!Started(infos[j])]
  /\ pqueue' = queue \ {j} /\ running' = j

LEMMA Switches ==
    ASSUME SchedulerInv, S!Switch
    PROVE  \E queue, infos, j : InQueue(queue, infos) /\ Chosen(queue, infos, j)
  <1> DEFINE queue == IF running = NONE THEN pqueue ELSE pqueue \cup {running}
             infos == IF running = NONE THEN info
                      ELSE [info EXCEPT ![running] = [S!Charged(info[running]) EXCEPT !.sequence = seq]]
  <1>1. PICK j \in S!Polled(queue, infos) :
          /\ info' = [infos EXCEPT ![j] = S!Started(infos[j])]
          /\ pqueue' = queue \ {j} /\ running' = j
    BY DEF S!Switch
  <1>2. InQueue(queue, infos)
    BY EvictedQueued
  <1> HIDE DEF queue, infos
  <1>3. Chosen(queue, infos, j)
    BY <1>1 DEF Chosen
  <1> QED BY <1>2, <1>3

LEMMA SwitchStep ==
    ASSUME SchedulerInv, S!Switch
    PROVE  SchedulerInv'
  <1>1. PICK queue, infos, j : InQueue(queue, infos) /\ Chosen(queue, infos, j)
    BY Switches
  <1> DEFINE c == S!Truncated(now)
             new == S!Started(infos[j])
  <1>2. /\ currenttime' = c /\ (seq' = seq \/ seq' = seq + 1)
        /\ unit' = unit /\ now' = now /\ ran' = ran /\ waited' = waited /\ first' = first
    BY DEF S!Switch, S!clock
  <1>3. /\ unit \in Nat \ {0} /\ now \in Nat /\ seq \in Nat
        /\ ran \in [Jobs -> Nat] /\ waited \in [Jobs -> Nat] /\ first \in [Jobs -> Nat \cup {NONE}]
    BY DEF SchedulerInv, SchedulerTypes
  <1>4. c \in Nat /\ c <= now /\ (unit = 1 => c = now)
    BY <1>3, Truncation
  <1>5. j \in queue /\ queue \subseteq Jobs /\ j \in Jobs /\ infos[j] \in S!JobInfo
        /\ infos \in [Jobs -> S!JobInfo \cup {NONE, FREED}]
    BY <1>1 DEF InQueue, Chosen, S!Polled
  <1>6. /\ Booked(infos[j], ran[j], unit)
        /\ Measured(infos[j], ran[j], waited[j], first[j], now, unit)
    BY <1>1, <1>5 DEF InQueue
  <1> HIDE DEF c
  <1>7. /\ new \in S!JobInfo /\ Charging(new, ran[j], unit, c, now)
        /\ Measured(new, ran[j], waited[j], first[j], now, unit)
    BY <1>3, <1>4, <1>5, <1>6, StartBegins
  <1>8. /\ info' = [infos EXCEPT ![j] = new] /\ pqueue' = queue \ {j} /\ running' = j
    BY <1>1 DEF Chosen
  <1> HIDE DEF new
  <1>9. info'[j] = new /\ \A x \in Jobs : x # j => info'[x] = infos[x]
    BY <1>5, <1>8
  <1>10. SchedulerTypes'
    <2>1. info' \in [Jobs -> S!JobInfo \cup {NONE, FREED}]
      BY <1>5, <1>7, <1>8
    <2>2. \A x \in Jobs : info'[x] \in S!JobInfo <=> x \in pqueue' \/ x = running'
      BY <1>1, <1>5, <1>7, <1>8, <1>9 DEF InQueue
    <2>3. pqueue' \subseteq Jobs /\ running' \notin pqueue' /\ running' \in Jobs
      BY <1>5, <1>8
    <2>4. seq' \in Nat
      BY <1>2, <1>3
    <2> QED BY <1>2, <1>3, <1>4, <2>1, <2>2, <2>3, <2>4 DEF SchedulerTypes, Known
  <1>11. BooksRight'
    <2>1. \A x \in pqueue' : x \in Jobs /\ x # j /\ x \in queue
      BY <1>5, <1>8
    <2> QED BY <1>1, <1>2, <1>9, <2>1 DEF BooksRight, InQueue
  <1>12. RunningRight'
    BY <1>2, <1>7, <1>8, <1>9 DEF RunningRight
  <1>13. ClockRight'
    <2>2. ASSUME NEW x \in Jobs
          PROVE  IF info'[x] \in S!JobInfo
                 THEN Measured(info'[x], ran[x], waited[x], first[x], now, unit)
                 ELSE ran[x] = 0 /\ waited[x] = 0 /\ first[x] = NONE
      <3>1. CASE x = j
        BY <1>7, <1>9, <3>1
      <3>2. CASE x # j
        BY <1>1, <1>9, <3>2 DEF InQueue
      <3> QED BY <3>1, <3>2
    <2> QED BY <1>2, <2>2 DEF ClockRight, Known
  <1> QED BY <1>10, <1>11, <1>12, <1>13 DEF SchedulerInv
LEMMA FinishedStep ==
    ASSUME SchedulerInv, S!scheduler_job_finished
    PROVE  SchedulerInv'
  <1>0. SchedulerTypes /\ BooksRight /\ RunningRight /\ ClockRight
    BY DEF SchedulerInv
  <1>1. /\ info' = [info EXCEPT ![running] = FREED] /\ running' = NONE /\ running # NONE
        /\ ran' = [ran EXCEPT ![running] = 0] /\ waited' = [waited EXCEPT ![running] = 0]
        /\ first' = [first EXCEPT ![running] = NONE]
        /\ currenttime' = currenttime /\ seq' = seq /\ pqueue' = pqueue /\ unit' = unit /\ now' = now
    BY DEF S!scheduler_job_finished
  <1>2. running \in Jobs /\ running \notin pqueue
    BY <1>0, <1>1 DEF SchedulerTypes
  <1>3. /\ info'[running] = FREED /\ ran'[running] = 0 /\ waited'[running] = 0 /\ first'[running] = NONE
        /\ \A x \in Jobs : x # running => /\ info'[x] = info[x] /\ ran'[x] = ran[x]
                                          /\ waited'[x] = waited[x] /\ first'[x] = first[x]
    BY <1>0, <1>1, <1>2 DEF SchedulerTypes
  <1>4. FREED \notin S!JobInfo /\ NONE \notin Jobs
    BY Given
  <1>5. SchedulerTypes'
    <2>1. /\ info' \in [Jobs -> S!JobInfo \cup {NONE, FREED}] /\ ran' \in [Jobs -> Nat]
          /\ waited' \in [Jobs -> Nat] /\ first' \in [Jobs -> Nat \cup {NONE}]
      BY <1>0, <1>1 DEF SchedulerTypes
    <2>2. \A x \in Jobs : info'[x] \in S!JobInfo <=> x \in pqueue \/ x = NONE
      BY <1>0, <1>2, <1>3, <1>4 DEF SchedulerTypes, Known
    <2>3. NONE \notin pqueue
      BY <1>0, <1>4 DEF SchedulerTypes
    <2> QED BY <1>0, <1>1, <2>1, <2>2, <2>3 DEF SchedulerTypes, Known
  <1>6. BooksRight'
    <2>1. \A x \in pqueue : x \in Jobs /\ x # running
      BY <1>0, <1>2 DEF SchedulerTypes
    <2> QED BY <1>0, <1>1, <1>3, <2>1 DEF BooksRight
  <1>7. RunningRight'
    BY <1>1 DEF RunningRight
  <1>8. ClockRight'
    <2>1. ASSUME NEW x \in Jobs
          PROVE  IF info'[x] \in S!JobInfo
                 THEN Measured(info'[x], ran'[x], waited'[x], first'[x], now, unit)
                 ELSE ran'[x] = 0 /\ waited'[x] = 0 /\ first'[x] = NONE
      <3>1. CASE x = running
        BY <1>3, <1>4, <3>1
      <3>2. CASE x # running
        BY <1>0, <1>3, <3>2 DEF ClockRight, Known
      <3> QED BY <3>1, <3>2
    <2> QED BY <1>1, <2>1 DEF ClockRight, Known
  <1> QED BY <1>5, <1>6, <1>7, <1>8 DEF SchedulerInv

\* A tick of the clock, for the running job and for one in the queue.
LEMMA RunningTicks ==
    ASSUME NEW i \in S!JobInfo, NEW r \in Nat, NEW w \in Nat, NEW f \in Nat \cup {NONE},
           NEW u \in Nat, NEW c \in Nat, NEW t \in Nat,
           Charging(i, r, u, c, t), Measured(i, r, w, f, t, u),
           NEW g, g = IF f = NONE THEN t ELSE f
    PROVE  Charging(i, r + 1, u, c, t + 1) /\ Measured(i, r + 1, w, g, t + 1, u)
  <1>1. i.runningtime \in Nat /\ i.timeremaining \in Int /\ i.arrivetime \in Nat /\ i.starttime \in Nat
    BY DEF S!JobInfo
  <1>2. Charging(i, r + 1, u, c, t + 1)
    BY <1>1 DEF Charging
  <1>3. g \in Nat /\ g # NONE
    BY Given
  <1>4. u = 1 => i.starttime = g
    <2>1. CASE f = NONE
      <3>1. r = 0 /\ g = t
        BY <2>1 DEF Measured
      <3> QED BY <3>1 DEF Charging
    <2>2. CASE f # NONE
      <3>1. r > 0 /\ g = f
        BY <2>2 DEF Measured
      <3> QED BY <3>1 DEF Measured
    <2> QED BY <2>1, <2>2
  <1>5. (t + 1) - i.arrivetime = (r + 1) + w
    BY <1>1 DEF Measured
  <1>6. r + 1 # 0
    OBVIOUS
  <1> QED BY <1>2, <1>3, <1>4, <1>5, <1>6 DEF Measured

LEMMA QueuedTicks ==
    ASSUME NEW i \in S!JobInfo, NEW r \in Nat, NEW w \in Nat, NEW f, NEW u, NEW t \in Nat,
           Measured(i, r, w, f, t, u)
    PROVE  Measured(i, r, w + 1, f, t + 1, u)
  <1>1. i.arrivetime \in Nat
    BY DEF S!JobInfo
  <1>2. (t + 1) - i.arrivetime = r + (w + 1)
    BY <1>1 DEF Measured
  <1> QED BY <1>2 DEF Measured

LEMMA TickStep ==
    ASSUME SchedulerInv, S!Tick
    PROVE  SchedulerInv'
  <1>0. SchedulerTypes /\ BooksRight /\ RunningRight /\ ClockRight
    BY DEF SchedulerInv
  <1>1. /\ now' = now + 1 /\ info' = info /\ running' = running
        /\ currenttime' = currenttime /\ seq' = seq /\ pqueue' = pqueue /\ unit' = unit
        /\ ran' = [j \in Jobs |-> IF j = running THEN ran[j] + 1 ELSE ran[j]]
        /\ waited' = [j \in Jobs |-> IF j \in pqueue THEN waited[j] + 1 ELSE waited[j]]
        /\ first' = [j \in Jobs |-> IF j = running /\ first[j] = NONE THEN now ELSE first[j]]
    BY DEF S!Tick
  <1>2. /\ unit \in Nat \ {0} /\ now \in Nat /\ running \notin pqueue /\ pqueue \subseteq Jobs
        /\ \A x \in Jobs : ran[x] \in Nat /\ waited[x] \in Nat /\ first[x] \in Nat \cup {NONE}
    BY <1>0 DEF SchedulerTypes
  <1>3. ASSUME NEW x \in Jobs
        PROVE  /\ ran'[x] = IF x = running THEN ran[x] + 1 ELSE ran[x]
               /\ waited'[x] = IF x \in pqueue THEN waited[x] + 1 ELSE waited[x]
               /\ first'[x] = IF x = running /\ first[x] = NONE THEN now ELSE first[x]
               /\ ran'[x] \in Nat /\ waited'[x] \in Nat /\ first'[x] \in Nat \cup {NONE}
    BY <1>1, <1>2
  <1>4. /\ DOMAIN ran' = Jobs /\ DOMAIN waited' = Jobs /\ DOMAIN first' = Jobs
        /\ ran' = [x \in Jobs |-> ran'[x]] /\ waited' = [x \in Jobs |-> waited'[x]]
        /\ first' = [x \in Jobs |-> first'[x]]
    BY <1>1
  <1>5. SchedulerTypes'
    <2>1. ran' \in [Jobs -> Nat] /\ waited' \in [Jobs -> Nat] /\ first' \in [Jobs -> Nat \cup {NONE}]
      BY ONLY <1>3, <1>4
    <2>2. running # NONE => currenttime <= now + 1 /\ currenttime \in Nat
      BY <1>0, <1>2 DEF SchedulerTypes
    <2>3. now' \in Nat
      BY <1>1, <1>2
    <2> QED BY ONLY <1>0, <1>1, <2>1, <2>2, <2>3 DEF SchedulerTypes, Known
  <1>6. BooksRight'
    <2>1. \A x \in pqueue : x \in Jobs /\ x # running
      BY <1>2
    <2>2. \A x \in pqueue : ran'[x] = ran[x]
      BY <1>3, <2>1
    <2> QED BY ONLY <1>0, <1>1, <2>2 DEF BooksRight
  <1>7. ASSUME running # NONE
        PROVE  /\ Charging(info[running], ran'[running], unit, currenttime, now + 1)
               /\ Measured(info[running], ran'[running], waited'[running], first'[running], now + 1, unit)
    <2>1. /\ running \in Jobs /\ info[running] \in S!JobInfo /\ running \notin pqueue
          /\ ran[running] \in Nat /\ currenttime \in Nat /\ currenttime <= now /\ now \in Nat
          /\ unit \in Nat
          /\ Charging(info[running], ran[running], unit, currenttime, now)
          /\ Measured(info[running], ran[running], waited[running], first[running], now, unit)
      BY <1>7, RunningKnown
    <2>2. /\ ran'[running] = ran[running] + 1 /\ waited'[running] = waited[running]
          /\ first'[running] = IF first[running] = NONE THEN now ELSE first[running]
      BY <1>3, <2>1
    <2>3. waited[running] \in Nat /\ first[running] \in Nat \cup {NONE}
      BY <1>2, <2>1
    <2> DEFINE g == IF first[running] = NONE THEN now ELSE first[running]
    <2>4. /\ Charging(info[running], ran[running] + 1, unit, currenttime, now + 1)
          /\ Measured(info[running], ran[running] + 1, waited[running], g, now + 1, unit)
      <3>1. g = IF first[running] = NONE THEN now ELSE first[running]
        OBVIOUS
      <3> HIDE DEF g
      <3> QED BY ONLY <2>1, <2>3, <3>1, RunningTicks
    <2> QED BY <2>2, <2>4
  <1>8. RunningRight'
    BY <1>1, <1>7 DEF RunningRight
  <1>9. ClockRight'
    <2>1. ASSUME NEW x \in Jobs
          PROVE  IF info[x] \in S!JobInfo
                 THEN Measured(info[x], ran'[x], waited'[x], first'[x], now + 1, unit)
                 ELSE ran'[x] = 0 /\ waited'[x] = 0 /\ first'[x] = NONE
      <3>1. CASE x = running
        <4>1. running # NONE /\ info[x] \in S!JobInfo
          BY <1>0, <3>1, Given DEF SchedulerTypes, Known
        <4> QED BY <1>7, <3>1, <4>1
      <3>2. CASE x \in pqueue
        <4>1. info[x] \in S!JobInfo /\ x # running
          BY <1>0, <3>2 DEF SchedulerTypes, Known
        <4>2. Measured(info[x], ran[x], waited[x], first[x], now, unit)
          BY <1>0, <4>1 DEF ClockRight, Known
        <4>3. Measured(info[x], ran[x], waited[x] + 1, first[x], now + 1, unit)
          BY <1>2, <4>1, <4>2, QueuedTicks
        <4>4. ran'[x] = ran[x] /\ waited'[x] = waited[x] + 1 /\ first'[x] = first[x]
          BY <1>3, <3>2, <4>1
        <4> QED BY <4>1, <4>3, <4>4
      <3>3. CASE x # running /\ x \notin pqueue
        <4>1. info[x] \notin S!JobInfo
          BY <1>0, <3>3 DEF SchedulerTypes, Known
        <4>2. ran[x] = 0 /\ waited[x] = 0 /\ first[x] = NONE
          BY <1>0, <4>1 DEF ClockRight, Known
        <4> QED BY <1>3, <3>3, <4>1, <4>2
      <3> QED BY <3>1, <3>2, <3>3
    <2> QED BY ONLY <1>1, <2>1 DEF ClockRight, Known
  <1> QED BY <1>5, <1>6, <1>8, <1>9 DEF SchedulerInv

LEMMA SchedulerInductive == S!Spec => []SchedulerInv
  <1>1. S!Init => SchedulerInv
    <2> SUFFICES ASSUME S!Init PROVE SchedulerInv
      OBVIOUS
    <2>1. /\ unit \in Nat \ {0} /\ now = 0 /\ seq = 0 /\ running = NONE /\ pqueue = {}
          /\ info = [j \in Jobs |-> NONE] /\ ran = [j \in Jobs |-> 0]
          /\ waited = [j \in Jobs |-> 0] /\ first = [j \in Jobs |-> NONE]
      BY Given DEF S!Init
    <2>2. SchedulerTypes
      <3>1. \A j \in Jobs : ~Known(j) /\ j # NONE
        BY <2>1, Given DEF Known
      <3> QED BY <2>1, <3>1 DEF SchedulerTypes
    <2>3. BooksRight /\ RunningRight
      BY <2>1 DEF BooksRight, RunningRight
    <2>4. ClockRight
      BY <2>1, Given DEF ClockRight, Known
    <2> QED BY <2>2, <2>3, <2>4 DEF SchedulerInv
  <1>2. SchedulerInv /\ [S!Next]_(S!vars) => SchedulerInv'
    <2> SUFFICES ASSUME SchedulerInv, [S!Next]_(S!vars) PROVE SchedulerInv'
      OBVIOUS
    <2>1. ASSUME NEW j \in Jobs, S!scheduler_new_job(j) PROVE SchedulerInv'
      BY <2>1, NewJobStep
    <2>2. CASE S!scheduler_quantum_expired
      BY <2>2, KeepRunningStep, SwitchStep DEF S!scheduler_quantum_expired
    <2>3. CASE S!scheduler_job_finished
      BY <2>3, FinishedStep
    <2>4. CASE S!Tick
      BY <2>4, TickStep
    <2>5. CASE UNCHANGED S!vars
      BY <2>5 DEF S!vars, SchedulerInv, SchedulerTypes, BooksRight, RunningRight, ClockRight, Known
    <2> QED BY <2>1, <2>2, <2>3, <2>4, <2>5 DEF S!Next
  <1> QED BY <1>1, <1>2, PTL DEF S!Spec

\* The time a job in the queue has left (lines 160-175): exact when every call
\* comes at a whole second, over any number of jobs, kinds and evictions, and
\* never more than that when calls fall between seconds.
THEOREM RemainingNeverOver == S!Spec => []RemainingExact
  <1>1. SchedulerInv => RemainingExact
    BY DEF SchedulerInv, BooksRight, Booked, RemainingExact, S!RemainingExact, S!WholeSeconds
  <1> QED BY <1>1, SchedulerInductive, PTL
\* What job_finished adds to the totals.
LEMMA FinishIsMeasured ==
    ASSUME SchedulerInv, totalwait \in Int, totalresponse \in Int
    PROVE  S!FinishMeasured
  <1> SUFFICES ASSUME S!scheduler_job_finished
               PROVE  /\ totalwait' - totalwait = waited[running]
                      /\ unit = 1 => totalresponse' - totalresponse = first[running] - info[running].arrivetime
    BY DEF S!FinishMeasured, S!WholeSeconds
  <1>1. /\ running # NONE /\ ran[running] = info[running].runningtime
        /\ totalwait' = totalwait + now - info[running].arrivetime - info[running].runningtime
        /\ totalresponse' = totalresponse + info[running].starttime - info[running].arrivetime
    BY DEF S!scheduler_job_finished
  <1>2. /\ running \in Jobs /\ info[running] \in S!JobInfo /\ now \in Nat
        /\ Measured(info[running], ran[running], waited[running], first[running], now, unit)
    BY <1>1, RunningKnown
  <1>3. waited[running] \in Nat
    BY <1>2 DEF SchedulerInv, SchedulerTypes
  <1>4. /\ info[running].arrivetime \in Nat /\ info[running].runningtime \in Nat \ {0}
        /\ info[running].starttime \in Nat
    BY <1>2 DEF S!JobInfo
  <1>5. now - info[running].arrivetime = info[running].runningtime + waited[running]
    BY <1>1, <1>2 DEF Measured
  <1>6. unit = 1 => info[running].starttime = first[running]
    BY <1>1, <1>2, <1>4 DEF Measured
  <1>7. totalwait' - totalwait = waited[running]
    BY <1>1, <1>3, <1>4, <1>5
  <1>8. unit = 1 => totalresponse' - totalresponse = first[running] - info[running].arrivetime
    BY <1>1, <1>4, <1>6
  <1> QED BY <1>7, <1>8

\* The comparers look at five fields.
SameKeys(a, b) == /\ b.runningtime = a.runningtime /\ b.priority = a.priority
                  /\ b.arrivetime = a.arrivetime /\ b.timeremaining = a.timeremaining
                  /\ b.sequence = a.sequence

LEMMA SameOrder ==
    ASSUME NEW a, NEW b, NEW c, SameKeys(a, c)
    PROVE  S!Before(b, c) <=> S!Before(b, a)
  <1>1. S!Key(c) = S!Key(a)
    BY DEF S!Key, SameKeys
  <1> QED BY <1>1 DEF S!Before, SameKeys

\* A job_info whose books are exact.
LEMMA ExactInfo ==
    ASSUME NEW i \in S!JobInfo, NEW r, i.timeremaining = i.runningtime - r
    PROVE  [i EXCEPT !.timeremaining = i.runningtime - r] = i
  <1>1. i = [runningtime |-> i.runningtime, priority |-> i.priority, arrivetime |-> i.arrivetime,
             timeremaining |-> i.timeremaining, starttime |-> i.starttime, sequence |-> i.sequence]
    BY DEF S!JobInfo
  <1> QED BY <1>1

LEMMA SwitchIsRight ==
    ASSUME SchedulerInv, SchedulerInv'
    PROVE  S!SwitchRight
  <1> SUFFICES ASSUME S!Switch, unit = 1, NEW x \in pqueue'
               PROVE  ~S!Before(S!TrueInfo(x)', S!TrueInfo(running)')
    BY DEF S!SwitchRight, S!WholeSeconds
  <1>1. PICK queue, infos, j : InQueue(queue, infos) /\ Chosen(queue, infos, j)
    BY Switches
  <1>2. /\ currenttime' = now /\ scheme' = scheme
        /\ unit' = unit /\ now' = now /\ ran' = ran /\ waited' = waited /\ first' = first
    <2>1. S!Truncated(now) = now
      BY Truncation DEF SchedulerInv, SchedulerTypes
    <2> QED BY <2>1 DEF S!Switch, S!clock
  <1>3. j \in queue /\ queue \subseteq Jobs /\ j \in Jobs /\ infos[j] \in S!JobInfo
        /\ infos \in [Jobs -> S!JobInfo \cup {NONE, FREED}]
    BY <1>1 DEF InQueue, Chosen, S!Polled
  <1> DEFINE new == S!Started(infos[j])
  <1>4. /\ info' = [infos EXCEPT ![j] = new] /\ pqueue' = queue \ {j} /\ running' = j
        /\ \A k \in queue : ~S!Before(infos[k], infos[j])
    BY <1>1 DEF Chosen, S!Polled
  <1>5. SameKeys(infos[j], new) /\ new \in S!JobInfo
    <2>1. /\ Booked(infos[j], ran[j], unit) /\ ran[j] \in Nat /\ unit \in Nat /\ now \in Nat
          /\ Measured(infos[j], ran[j], waited[j], first[j], now, unit)
      BY <1>1, <1>3 DEF InQueue, SchedulerInv, SchedulerTypes
    <2>2. now <= now /\ (unit = 1 => now = now)
      BY <2>1
    <2>3. /\ new \in S!JobInfo /\ SameJob(infos[j], new)
          /\ new.timeremaining = infos[j].timeremaining /\ new.sequence = infos[j].sequence
      BY <1>3, <2>1, <2>2, StartBegins
    <2> QED BY <2>3 DEF SameKeys, SameJob
  <1> HIDE DEF new
  <1>6. x \in queue /\ x # j /\ x \in Jobs /\ info'[x] = infos[x] /\ info'[j] = new
    BY <1>3, <1>4
  <1>7. ~S!Before(infos[x], new)
    BY <1>4, <1>5, <1>6, SameOrder
  <1>8. S!TrueInfo(x)' = infos[x]
    <2>1. Booked(infos[x], ran[x], unit) /\ infos[x] \in S!JobInfo
      BY <1>1, <1>6 DEF InQueue
    <2>2. infos[x].timeremaining = infos[x].runningtime - ran[x]
      BY <2>1 DEF Booked
    <2>3. [infos[x] EXCEPT !.timeremaining = infos[x].runningtime - ran[x]] = infos[x]
      BY <2>1, <2>2, ExactInfo
    <2> QED BY <1>2, <1>6, <2>3 DEF S!TrueInfo
  <1>9. S!TrueInfo(running)' = new
    <2>0. running' # NONE
      BY <1>3, <1>4, Given
    <2>1. Charging(new, ran[j], unit, now, now)
      BY <1>2, <1>4, <1>6, <2>0 DEF SchedulerInv, RunningRight
    <2>2. new.timeremaining \in Int /\ now \in Nat
      BY <1>5 DEF S!JobInfo, SchedulerInv, SchedulerTypes
    <2>3. new.timeremaining = new.runningtime - ran[j]
      BY <2>1, <2>2 DEF Charging
    <2>4. [new EXCEPT !.timeremaining = new.runningtime - ran[j]] = new
      BY <1>5, <2>3, ExactInfo
    <2> QED BY <1>2, <1>4, <1>6, <2>4 DEF S!TrueInfo
  <1> QED BY <1>7, <1>8, <1>9
TotalsTyped == totalwait \in Int /\ totalresponse \in Int

LEMMA TotalsInductive == S!Spec => []TotalsTyped
  <1>1. S!Init => TotalsTyped
    BY DEF S!Init, TotalsTyped
  <1>2. SchedulerInv /\ TotalsTyped /\ [S!Next]_(S!vars) => TotalsTyped'
    <2> SUFFICES ASSUME SchedulerInv, TotalsTyped, [S!Next]_(S!vars) PROVE TotalsTyped'
      OBVIOUS
    <2>1. ASSUME NEW j \in Jobs, S!scheduler_new_job(j) PROVE TotalsTyped'
      BY <2>1 DEF S!scheduler_new_job, S!totals, TotalsTyped
    <2>2. CASE S!scheduler_quantum_expired
      BY <2>2 DEF S!scheduler_quantum_expired, S!KeepRunning, S!Switch, S!totals, TotalsTyped
    <2>3. CASE S!scheduler_job_finished
      <3>1. running # NONE
        BY <2>3 DEF S!scheduler_job_finished
      <3>2. info[running] \in S!JobInfo /\ now \in Nat
        BY <3>1, RunningKnown
      <3>3. /\ info[running].arrivetime \in Nat /\ info[running].runningtime \in Nat
            /\ info[running].starttime \in Nat
        BY <3>2 DEF S!JobInfo
      <3> QED BY <2>3, <3>2, <3>3 DEF S!scheduler_job_finished, TotalsTyped
    <2>4. CASE S!Tick
      BY <2>4 DEF S!Tick, S!totals, TotalsTyped
    <2>5. CASE UNCHANGED S!vars
      BY <2>5 DEF S!vars, TotalsTyped
    <2> QED BY <2>1, <2>2, <2>3, <2>4, <2>5 DEF S!Next
  <1> QED BY <1>1, <1>2, SchedulerInductive, PTL DEF S!Spec

\* scheduler_job_finished (lines 179-187) adds to the totals what the caller
\* measured, and scheduler_quantum_expired (lines 158-177) chooses rightly by the
\* time jobs have really run, for all jobs, kinds and times of the calls.
THEOREM TotalsAndChoices == S!Spec => MeasuredAndChosen
  <1>1. SchedulerInv /\ TotalsTyped => S!FinishMeasured
    BY FinishIsMeasured DEF TotalsTyped
  <1>2. SchedulerInv /\ SchedulerInv' => S!SwitchRight
    BY SwitchIsRight
  <1> QED BY <1>1, <1>2, SchedulerInductive, TotalsInductive, PTL
          DEF MeasuredAndChosen, S!TotalsMeasured, S!ChoiceRight

-----------------------------------------------------------------------------
(* minixfs.c.  nd, om are inodes, d and e the blocks of the disk.          *)

Slots == 0 .. NUM_DIRECT_BLOCKS + NUM_INDIRECT_BLOCKS - 1
NodeType == [direct : [0 .. NUM_DIRECT_BLOCKS - 1 -> Nat], indirect : Nat, size : Nat]

LEMMA DiskSizes ==
    /\ BlockSize \in Nat /\ BlockSize > 0 /\ NUM_DIRECT_BLOCKS \in Nat /\ NUM_DIRECT_BLOCKS > 0
    /\ NUM_INDIRECT_BLOCKS \in Nat /\ NUM_INDIRECT_BLOCKS > 0
    /\ EntriesPerBlock \in Nat /\ EntriesPerBlock > 0
    /\ \A b \in DataBlocks : b \in Nat /\ b # 0
  BY SizesOK DEF UNASSIGNED

LEMMA Transfers ==
    (\A off \in Offsets : off \in Nat) /\ (\A count \in Counts : count \in Nat /\ count > 0)
  BY SizesOK

LEMMA UnusedBlock ==
    ASSUME NEW d, DOMAIN d \subseteq DataBlocks, ~Full(d)
    PROVE  Unused(d) \in DataBlocks /\ Unused(d) \notin DOMAIN d /\ Unused(d) \in Nat /\ Unused(d) # 0
  <1> DEFINE Left == DataBlocks \ DOMAIN d
  <1>1. Left \subseteq Nat /\ Left # {}
    BY DiskSizes DEF Full
  <1>2. \E m \in Left : \A x \in Left : m <= x
    BY <1>1, Lowest
  <1>3. Unused(d) \in Left
    BY <1>2 DEF Unused, Min
  <1> QED BY <1>3, DiskSizes

\* An inode whose blocks are on the disk, each in one place only.
Linked(nd, d) ==
  \A i \in Slots : Has(nd, d, i) =>
     /\ BlockOf(nd, d, i) \in DOMAIN d /\ BlockOf(nd, d, i) # nd.indirect
     /\ \A j \in Slots : Has(nd, d, j) /\ BlockOf(nd, d, j) = BlockOf(nd, d, i) => j = i
IndirectOK(nd, d) ==
  nd.indirect # 0 => nd.indirect \in DOMAIN d /\ d[nd.indirect] \in [0 .. NUM_INDIRECT_BLOCKS - 1 -> Nat]
NodeOK(nd, d) == nd \in NodeType /\ IndirectOK(nd, d) /\ Linked(nd, d)

Uses(nd, d, b) == \/ b = nd.indirect /\ b # 0
                  \/ \E i \in Slots : Has(nd, d, i) /\ BlockOf(nd, d, i) = b
Disjoint(nd, om, d) == \A b : ~(Uses(nd, d, b) /\ Uses(om, d, b))

\* A file whose blocks have no gaps.
Prefix(nd, d) == \A i \in Slots : \A j \in Slots : Has(nd, d, j) /\ i <= j => Has(nd, d, i)

\* An operation on nd that makes it ne: other blocks in use are left alone.
Moves(nd, d, ne, e) ==
  /\ DOMAIN d \subseteq DOMAIN e /\ DOMAIN e \subseteq DataBlocks
  /\ \A b \in DOMAIN d : ~Uses(nd, d, b) => e[b] = d[b]
  /\ \A b : Uses(ne, e, b) => Uses(nd, d, b) \/ b \notin DOMAIN d
  /\ NodeOK(ne, e)

\* For the others nothing has changed.
Untouched(om, d, e) ==
  \A i \in Slots : /\ Has(om, e, i) <=> Has(om, d, i)
                   /\ Has(om, d, i) => /\ BlockOf(om, e, i) = BlockOf(om, d, i)
                                       /\ e[BlockOf(om, d, i)] = d[BlockOf(om, d, i)]

LEMMA MovesOn ==
    ASSUME NEW nd, NEW d, NEW ne, NEW e, NEW nf, NEW f, Moves(nd, d, ne, e), Moves(ne, e, nf, f)
    PROVE  Moves(nd, d, nf, f)
  <1>1. ASSUME NEW b \in DOMAIN d, ~Uses(nd, d, b) PROVE f[b] = d[b]
    BY <1>1 DEF Moves
  <1>2. ASSUME NEW b, Uses(nf, f, b) PROVE Uses(nd, d, b) \/ b \notin DOMAIN d
    BY <1>2 DEF Moves
  <1>3. /\ DOMAIN d \subseteq DOMAIN f /\ DOMAIN f \subseteq DataBlocks /\ NodeOK(nf, f)
    BY DEF Moves
  <1> QED BY <1>1, <1>2, <1>3 DEF Moves

LEMMA OthersUntouched ==
    ASSUME NEW nd, NEW d, NEW ne, NEW e, Moves(nd, d, ne, e), DOMAIN d \subseteq DataBlocks,
           NEW om, NodeOK(om, d), Disjoint(nd, om, d)
    PROVE  /\ Untouched(om, d, e) /\ NodeOK(om, e) /\ Disjoint(ne, om, e)
           /\ \A b : Uses(om, e, b) <=> Uses(om, d, b)
  <1>0. om \in NodeType /\ om.indirect \in Nat
    BY DEF NodeOK, NodeType
  <1>1. ASSUME om.indirect # 0 PROVE om.indirect \in DOMAIN d /\ e[om.indirect] = d[om.indirect]
    <2>1. om.indirect \in DOMAIN d
      BY <1>1 DEF NodeOK, IndirectOK
    <2>2. Uses(om, d, om.indirect)
      BY <1>1 DEF Uses
    <2> QED BY <2>1, <2>2 DEF Moves, Disjoint
  <1>2. ASSUME NEW i \in Slots PROVE (Has(om, e, i) <=> Has(om, d, i))
                                     /\ (Has(om, d, i) => BlockOf(om, e, i) = BlockOf(om, d, i))
    BY <1>1, DiskSizes DEF Has, BlockOf, UNASSIGNED
  <1>3. ASSUME NEW i \in Slots, Has(om, d, i)
        PROVE  BlockOf(om, d, i) \in DOMAIN d /\ e[BlockOf(om, d, i)] = d[BlockOf(om, d, i)]
    <2>1. BlockOf(om, d, i) \in DOMAIN d /\ Uses(om, d, BlockOf(om, d, i))
      BY <1>3 DEF NodeOK, Linked, Uses
    <2> QED BY <2>1 DEF Moves, Disjoint
  <1>4. Untouched(om, d, e)
    BY <1>2, <1>3 DEF Untouched
  <1>5. \A b : Uses(om, e, b) <=> Uses(om, d, b)
    BY <1>2 DEF Uses
  <1>6. IndirectOK(om, e)
    BY <1>1 DEF NodeOK, IndirectOK, Moves
  <1>7. Linked(om, e)
    <2>1. DOMAIN d \subseteq DOMAIN e
      BY DEF Moves
    <2> QED BY <2>1, <1>2, <1>3 DEF NodeOK, Linked
  <1>8. Disjoint(ne, om, e)
    <2> SUFFICES ASSUME NEW b, Uses(ne, e, b), Uses(om, e, b) PROVE FALSE
      BY DEF Disjoint
    <2>1. Uses(om, d, b)
      BY <1>5
    <2>2. b \in DOMAIN d
      BY <2>1, <1>1, <1>3 DEF Uses
    <2>3. Uses(nd, d, b)
      BY <2>2 DEF Moves
    <2> QED BY <2>1, <2>3 DEF Disjoint
  <1> QED BY <1>0, <1>4, <1>5, <1>6, <1>7, <1>8 DEF NodeOK

-----------------------------------------------------------------------------
(* Adding a block to an inode.                                             *)

\* nd gets at most one more slot, the i-th, with a new block that holds blk.
Adds(nd, d, ne, e, i, blk) ==
  /\ Moves(nd, d, ne, e) /\ ne.size = nd.size
  /\ \A j \in Slots : Has(nd, d, j) => /\ Has(ne, e, j) /\ BlockOf(ne, e, j) = BlockOf(nd, d, j)
                                       /\ e[BlockOf(nd, d, j)] = d[BlockOf(nd, d, j)]
  /\ \A j \in Slots : Has(ne, e, j) /\ ~Has(nd, d, j) =>
                         j = i /\ BlockOf(ne, e, j) \notin DOMAIN d /\ e[BlockOf(ne, e, j)] = blk

LEMMA AddsNothing ==
    ASSUME NEW nd, NEW d, NodeOK(nd, d), DOMAIN d \subseteq DataBlocks, NEW i, NEW blk
    PROVE  Adds(nd, d, nd, d, i, blk)
  BY DEF Adds, Moves

LEMMA AddsOn ==
    ASSUME NEW nd, NEW d, NEW ne, NEW e, NEW nf, NEW f, NEW i, NEW blk, NodeOK(nd, d), NodeOK(ne, e),
           Adds(nd, d, ne, e, i, blk), Adds(ne, e, nf, f, i, blk)
    PROVE  Adds(nd, d, nf, f, i, blk)
  <1>1. Moves(nd, d, nf, f)
    BY MovesOn DEF Adds
  <1>2. nf.size = nd.size
    BY DEF Adds
  <1>3. ASSUME NEW j \in Slots, Has(nd, d, j)
        PROVE  /\ Has(nf, f, j) /\ BlockOf(nf, f, j) = BlockOf(nd, d, j)
               /\ f[BlockOf(nd, d, j)] = d[BlockOf(nd, d, j)]
    BY <1>3 DEF Adds
  <1>4. ASSUME NEW j \in Slots, Has(nf, f, j), ~Has(nd, d, j)
        PROVE  j = i /\ BlockOf(nf, f, j) \notin DOMAIN d /\ f[BlockOf(nf, f, j)] = blk
    <2>1. DOMAIN d \subseteq DOMAIN e
      BY DEF Adds, Moves
    <2>2. CASE Has(ne, e, j)
      BY <1>4, <2>2 DEF Adds
    <2>3. CASE ~Has(ne, e, j)
      BY <1>4, <2>1, <2>3 DEF Adds
    <2> QED BY <2>2, <2>3
  <1> QED BY <1>1, <1>2, <1>3, <1>4 DEF Adds

\* A slot more, or an indirect block, each in a block u that was not in use.
LEMMA DirectAdds ==
    ASSUME NEW nd, NEW d, NodeOK(nd, d), DOMAIN d \subseteq DataBlocks, NEW i \in 0 .. NUM_DIRECT_BLOCKS - 1,
           ~Has(nd, d, i), NEW u \in DataBlocks, u \notin DOMAIN d, NEW blk,
           NEW ne, ne = [nd EXCEPT !.direct[i] = u], NEW e, e = With(d, u, blk)
    PROVE  Adds(nd, d, ne, e, i, blk) /\ Has(ne, e, i) /\ i \in Slots
  <1>0. u \in Nat /\ u # 0 /\ i \in Slots /\ i < NUM_DIRECT_BLOCKS
    BY DiskSizes DEF Slots
  <1>1. nd \in NodeType /\ nd.direct \in [0 .. NUM_DIRECT_BLOCKS - 1 -> Nat] /\ nd.indirect \in Nat
    BY DEF NodeOK, NodeType
  <1>2. /\ ne \in NodeType /\ ne.indirect = nd.indirect /\ ne.size = nd.size
        /\ ne.direct[i] = u /\ \A j \in 0 .. NUM_DIRECT_BLOCKS - 1 : j # i => ne.direct[j] = nd.direct[j]
    BY <1>0, <1>1 DEF NodeType
  <1>3. DOMAIN e = DOMAIN d \cup {u} /\ e[u] = blk /\ \A b \in DOMAIN d : e[b] = d[b]
    BY DEF With
  <1>4. nd.indirect # 0 => nd.indirect \in DOMAIN d
    BY DEF NodeOK, IndirectOK
  <1>5. ASSUME NEW j \in Slots, j # i PROVE (Has(ne, e, j) <=> Has(nd, d, j))
                                            /\ (Has(nd, d, j) => BlockOf(ne, e, j) = BlockOf(nd, d, j))
    BY <1>2, <1>3, <1>4, <1>5, DiskSizes DEF Has, BlockOf, UNASSIGNED, Slots
  <1>6. Has(ne, e, i) /\ BlockOf(ne, e, i) = u
    BY <1>0, <1>2 DEF Has, BlockOf, UNASSIGNED
  <1>7. ASSUME NEW j \in Slots, Has(nd, d, j) PROVE BlockOf(nd, d, j) \in DOMAIN d /\ j # i
    BY <1>7 DEF NodeOK, Linked
  <1>8. Linked(ne, e)
    <2>1. u # nd.indirect
      BY <1>4, <1>0
    <2> QED BY <1>2, <1>3, <1>5, <1>6, <1>7, <2>1 DEF NodeOK, Linked
  <1>9. IndirectOK(ne, e)
    BY <1>2, <1>3, <1>4 DEF NodeOK, IndirectOK
  <1>10. \A b : Uses(ne, e, b) => Uses(nd, d, b) \/ b = u
    BY <1>2, <1>5, <1>6 DEF Uses
  <1>11. Moves(nd, d, ne, e)
    BY <1>2, <1>3, <1>8, <1>9, <1>10 DEF Moves, NodeOK
  <1> QED BY <1>0, <1>2, <1>3, <1>5, <1>6, <1>7, <1>11 DEF Adds

IndirectAdded(nd, d, ne, e, i, blk) ==
  /\ Adds(nd, d, ne, e, i, blk) /\ ne.indirect # 0
  /\ \A j \in Slots : Has(ne, e, j) <=> Has(nd, d, j)

LEMMA IndirectAdds ==
    ASSUME NEW nd, NEW d, NodeOK(nd, d), DOMAIN d \subseteq DataBlocks, nd.indirect = 0,
           NEW u \in DataBlocks, u \notin DOMAIN d, NEW i, NEW blk,
           NEW ne, ne = [nd EXCEPT !.indirect = u], NEW e, e = With(d, u, EmptyIndirect)
    PROVE  IndirectAdded(nd, d, ne, e, i, blk)
  <1>0. u \in Nat /\ u # 0
    BY DiskSizes
  <1>1. nd \in NodeType /\ nd.direct \in [0 .. NUM_DIRECT_BLOCKS - 1 -> Nat] /\ nd.indirect \in Nat
    BY DEF NodeOK, NodeType
  <1>2. ne \in NodeType /\ ne.indirect = u /\ ne.size = nd.size /\ ne.direct = nd.direct
    BY <1>0, <1>1 DEF NodeType
  <1>3. DOMAIN e = DOMAIN d \cup {u} /\ e[u] = EmptyIndirect /\ \A b \in DOMAIN d : e[b] = d[b]
    BY DEF With
  <1>4. /\ EmptyIndirect \in [0 .. NUM_INDIRECT_BLOCKS - 1 -> Nat]
        /\ \A j \in 0 .. NUM_INDIRECT_BLOCKS - 1 : EmptyIndirect[j] = 0
    BY DEF EmptyIndirect, UNASSIGNED
  <1>5. ASSUME NEW j \in Slots PROVE (Has(ne, e, j) <=> Has(nd, d, j))
                                     /\ (Has(nd, d, j) => BlockOf(ne, e, j) = BlockOf(nd, d, j))
    <2>1. CASE j < NUM_DIRECT_BLOCKS
      BY <1>2, <2>1 DEF Has, BlockOf
    <2>2. CASE ~(j < NUM_DIRECT_BLOCKS)
      <3>1. j - NUM_DIRECT_BLOCKS \in 0 .. NUM_INDIRECT_BLOCKS - 1
        BY <2>2, DiskSizes DEF Slots
      <3> QED BY <1>2, <1>3, <1>4, <2>2, <3>1 DEF Has, BlockOf, UNASSIGNED
    <2> QED BY <2>1, <2>2
  <1>7. ASSUME NEW j \in Slots, Has(nd, d, j) PROVE BlockOf(nd, d, j) \in DOMAIN d
    BY <1>7 DEF NodeOK, Linked
  <1>8. Linked(ne, e)
    BY <1>2, <1>3, <1>5, <1>7 DEF NodeOK, Linked
  <1>9. IndirectOK(ne, e)
    BY <1>2, <1>3, <1>4 DEF IndirectOK
  <1>10. \A b : Uses(ne, e, b) => Uses(nd, d, b) \/ b = u
    BY <1>2, <1>5 DEF Uses
  <1>11. Moves(nd, d, ne, e)
    BY <1>2, <1>3, <1>8, <1>9, <1>10 DEF Moves, NodeOK
  <1>12. Adds(nd, d, ne, e, i, blk)
    BY <1>0, <1>2, <1>3, <1>5, <1>7, <1>11 DEF Adds
  <1> QED BY <1>0, <1>2, <1>5, <1>12 DEF IndirectAdded

LEMMA EntryAdds ==
    ASSUME NEW nd, NEW d, NodeOK(nd, d), DOMAIN d \subseteq DataBlocks, nd.indirect # 0,
           NEW i \in Slots, i >= NUM_DIRECT_BLOCKS, ~Has(nd, d, i),
           NEW u \in DataBlocks, u \notin DOMAIN d, NEW blk,
           NEW e, e = With([d EXCEPT ![nd.indirect][i - NUM_DIRECT_BLOCKS] = u], u, blk)
    PROVE  Adds(nd, d, nd, e, i, blk) /\ Has(nd, e, i)
  <1> DEFINE a == nd.indirect
             k == i - NUM_DIRECT_BLOCKS
  <1>0. u \in Nat /\ u # 0 /\ k \in 0 .. NUM_INDIRECT_BLOCKS - 1 /\ ~(i < NUM_DIRECT_BLOCKS)
    BY DiskSizes DEF Slots
  <1>1. nd \in NodeType /\ a \in DOMAIN d /\ d[a] \in [0 .. NUM_INDIRECT_BLOCKS - 1 -> Nat]
    BY DEF NodeOK, IndirectOK
  <1>2. u # a
    BY <1>1
  <1>3. /\ DOMAIN e = DOMAIN d \cup {u} /\ e[u] = blk /\ \A b \in DOMAIN d : b # a => e[b] = d[b]
        /\ e[a] = [d[a] EXCEPT ![k] = u]
    BY <1>1, <1>2 DEF With
  <1>4. /\ e[a] \in [0 .. NUM_INDIRECT_BLOCKS - 1 -> Nat] /\ e[a][k] = u
        /\ \A j \in 0 .. NUM_INDIRECT_BLOCKS - 1 : j # k => e[a][j] = d[a][j]
    <2> DEFINE g == d[a]
               J == 0 .. NUM_INDIRECT_BLOCKS - 1
    <2>1. g \in [J -> Nat] /\ k \in J /\ u \in Nat /\ e[a] = [g EXCEPT ![k] = u]
      BY <1>0, <1>1, <1>3
    <2> HIDE DEF g, J, k, a
    <2>2. e[a] \in [J -> Nat] /\ e[a][k] = u /\ \A j \in J : j # k => e[a][j] = g[j]
      BY ONLY <2>1
    <2> QED BY <2>2 DEF g, J
  <1>5. ASSUME NEW j \in Slots, j # i PROVE (Has(nd, e, j) <=> Has(nd, d, j))
                                            /\ (Has(nd, d, j) => BlockOf(nd, e, j) = BlockOf(nd, d, j))
    <2>1. CASE j < NUM_DIRECT_BLOCKS
      BY <2>1 DEF Has, BlockOf
    <2>2. CASE ~(j < NUM_DIRECT_BLOCKS)
      <3>1. j - NUM_DIRECT_BLOCKS \in 0 .. NUM_INDIRECT_BLOCKS - 1 /\ j - NUM_DIRECT_BLOCKS # k
        BY <1>5, <2>2, DiskSizes DEF Slots
      <3>2. e[a][j - NUM_DIRECT_BLOCKS] = d[a][j - NUM_DIRECT_BLOCKS]
        BY <1>4, <3>1
      <3> QED BY <2>2, <3>2 DEF Has, BlockOf
    <2> QED BY <2>1, <2>2
  <1>6. Has(nd, e, i) /\ BlockOf(nd, e, i) = u
    BY <1>0, <1>4 DEF Has, BlockOf, UNASSIGNED
  <1>7. ASSUME NEW j \in Slots, Has(nd, d, j)
        PROVE  BlockOf(nd, d, j) \in DOMAIN d /\ BlockOf(nd, d, j) # a /\ j # i
    BY <1>7 DEF NodeOK, Linked
  <1>8. Linked(nd, e)
    <2> SUFFICES ASSUME NEW j \in Slots, Has(nd, e, j)
                 PROVE  /\ BlockOf(nd, e, j) \in DOMAIN e /\ BlockOf(nd, e, j) # nd.indirect
                        /\ \A l \in Slots : Has(nd, e, l) /\ BlockOf(nd, e, l) = BlockOf(nd, e, j) => l = j
      BY DEF Linked
    <2>1. CASE j = i
      BY <1>2, <1>3, <1>5, <1>6, <1>7, <2>1
    <2>2. CASE j # i
      <3>1. Has(nd, d, j) /\ BlockOf(nd, e, j) = BlockOf(nd, d, j) /\ BlockOf(nd, e, j) # u
        BY <1>5, <1>7, <2>2
      <3>2. \A l \in Slots : Has(nd, d, l) /\ BlockOf(nd, d, l) = BlockOf(nd, d, j) => l = j
        BY <3>1 DEF NodeOK, Linked
      <3> QED BY <1>3, <1>5, <1>6, <1>7, <3>1, <3>2
    <2> QED BY <2>1, <2>2
  <1>9. IndirectOK(nd, e)
    BY <1>1, <1>3, <1>4 DEF IndirectOK
  <1>10. \A b : Uses(nd, e, b) => Uses(nd, d, b) \/ b = u
    BY <1>5, <1>6 DEF Uses
  <1>11. Uses(nd, d, a)
    BY DEF Uses
  <1>12. Moves(nd, d, nd, e)
    BY <1>1, <1>3, <1>8, <1>9, <1>10, <1>11 DEF Moves, NodeOK
  <1> QED BY <1>3, <1>5, <1>6, <1>7, <1>12 DEF Adds

\* add_data_block_to_inode() and its likes: the i-th block is there or the disk is full.
LEMMA BlockAdded ==
    ASSUME NEW nd, NEW d, NodeOK(nd, d), DOMAIN d \subseteq DataBlocks, NEW i \in Slots, NEW blk,
           NEW r, r = AddBlock([node |-> nd, data |-> d], i, blk)
    PROVE  /\ r = [node |-> r.node, data |-> r.data]
           /\ Adds(nd, d, r.node, r.data, i, blk)
           /\ Has(r.node, r.data, i) \/ Full(r.data)
  <1> DEFINE fs == [node |-> nd, data |-> d]
  <1>1. CASE Has(nd, d, i)
    <2>1. r = fs
      BY <1>1 DEF AddBlock
    <2> QED BY <1>1, <2>1, AddsNothing
  <1>2. CASE ~Has(nd, d, i) /\ i < NUM_DIRECT_BLOCKS
    <2>1. r = AddDirect(fs, i, blk) /\ i \in 0 .. NUM_DIRECT_BLOCKS - 1
      BY <1>2, DiskSizes DEF AddBlock, Slots
    <2>2. CASE Full(d)
      <3>1. r = fs
        BY <2>1, <2>2 DEF AddDirect
      <3> QED BY <2>2, <3>1, AddsNothing
    <2>3. CASE ~Full(d)
      <3> DEFINE u == Unused(d)
      <3>1. u \in DataBlocks /\ u \notin DOMAIN d
        BY <2>3, UnusedBlock
      <3>2. r = [node |-> [nd EXCEPT !.direct[i] = u], data |-> With(d, u, blk)]
        BY <2>1, <2>3 DEF AddDirect
      <3> HIDE DEF u
      <3>3. r.node = [nd EXCEPT !.direct[i] = u] /\ r.data = With(d, u, blk)
        BY <3>2
      <3>4. Adds(nd, d, r.node, r.data, i, blk) /\ Has(r.node, r.data, i)
        BY <1>2, <2>1, <3>1, <3>3, DirectAdds
      <3> QED BY <3>2, <3>4
    <2> QED BY <2>2, <2>3
  <1>3. CASE ~Has(nd, d, i) /\ ~(i < NUM_DIRECT_BLOCKS)
    <2> DEFINE gs == AddIndirect(fs)
    <2>1. r = AddToIndirect(gs, i, blk) /\ i >= NUM_DIRECT_BLOCKS
      BY <1>3, DiskSizes DEF AddBlock, Slots
    <2>2. /\ gs = [node |-> gs.node, data |-> gs.data] /\ Adds(nd, d, gs.node, gs.data, i, blk)
          /\ ~Has(gs.node, gs.data, i) /\ (gs.node.indirect = 0 => Full(gs.data))
      <3>1. CASE Full(d) \/ nd.indirect # 0
        <4>1. gs = fs
          BY <3>1 DEF AddIndirect, UNASSIGNED
        <4> QED BY <1>3, <3>1, <4>1, AddsNothing
      <3>2. CASE ~Full(d) /\ nd.indirect = 0
        <4> DEFINE u == Unused(d)
        <4>1. u \in DataBlocks /\ u \notin DOMAIN d
          BY <3>2, UnusedBlock
        <4>2. gs = [node |-> [nd EXCEPT !.indirect = u], data |-> With(d, u, EmptyIndirect)]
          BY <3>2 DEF AddIndirect, UNASSIGNED
        <4> HIDE DEF u, gs
        <4>3. gs.node = [nd EXCEPT !.indirect = u] /\ gs.data = With(d, u, EmptyIndirect)
          BY <4>2
        <4>4. IndirectAdded(nd, d, gs.node, gs.data, i, blk)
          BY ONLY <3>2, <4>1, <4>3, NodeOK(nd, d), DOMAIN d \subseteq DataBlocks, IndirectAdds
        <4>5. gs = [node |-> gs.node, data |-> gs.data]
          BY <4>2
        <4> QED BY <1>3, <4>4, <4>5 DEF IndirectAdded
      <3> QED BY <3>1, <3>2
    <2> HIDE DEF gs
    <2>3. DOMAIN gs.data \subseteq DataBlocks /\ NodeOK(gs.node, gs.data)
      BY <2>2 DEF Adds, Moves
    <2>4. CASE Full(gs.data) \/ gs.node.indirect = 0
      <3>1. r = gs
        BY <2>1, <2>4 DEF AddToIndirect, UNASSIGNED
      <3> QED BY <2>2, <2>4, <3>1
    <2>5. CASE ~Full(gs.data) /\ gs.node.indirect # 0
      <3> DEFINE u == Unused(gs.data)
                 ne == gs.node
                 e == gs.data
      <3>0. ~Has(ne, e, i)
        BY <2>2, <2>5, Zenon
      <3>1. u \in DataBlocks /\ u \notin DOMAIN e
        BY <2>3, <2>5, UnusedBlock
      <3>2. r = [node |-> ne, data |-> With([e EXCEPT ![ne.indirect][i - NUM_DIRECT_BLOCKS] = u], u, blk)]
        BY <2>1, <2>2, <2>5 DEF AddToIndirect, UNASSIGNED
      <3> HIDE DEF u, ne, e
      <3>3. r.node = ne /\ r.data = With([e EXCEPT ![ne.indirect][i - NUM_DIRECT_BLOCKS] = u], u, blk)
        BY <3>2
      <3>4. NodeOK(ne, e) /\ DOMAIN e \subseteq DataBlocks /\ ne.indirect # 0
        BY <2>3, <2>5 DEF ne, e
      <3>5. Adds(ne, e, r.node, r.data, i, blk) /\ Has(r.node, r.data, i)
        BY <2>1, <3>0, <3>1, <3>3, <3>4, EntryAdds
      <3>6. Adds(nd, d, ne, e, i, blk)
        BY <2>2 DEF ne, e
      <3>7. Adds(nd, d, r.node, r.data, i, blk)
        BY <3>4, <3>5, <3>6, AddsOn
      <3> QED BY <3>2, <3>5, <3>7
    <2> QED BY <2>4, <2>5
  <1> QED BY <1>1, <1>2, <1>3

-----------------------------------------------------------------------------
(* minixfs_min_blockcount(): the loop.                                     *)

\* f is what the loop leaves after each of n turns.
Loop(f, fs, n) == f = [i \in 0 .. n |-> IF i = 0 THEN fs ELSE AddBlock(f[i - 1], i - 1, EmptyBlock)]
LoopTo(f, fs, n) == /\ DOMAIN f = 0 .. n /\ f[0] = fs
                    /\ \A i \in 1 .. n : f[i] = AddBlock(f[i - 1], i - 1, EmptyBlock)

LEMMA LoopExists ==
    ASSUME NEW fs, NEW n \in Nat
    PROVE  \E f : Loop(f, fs, n)
  <1> DEFINE Q == {k \in Nat : ~\E f : LoopTo(f, fs, k)}
  <1>1. Q = {}
    <2> SUFFICES ASSUME Q # {} PROVE FALSE
      OBVIOUS
    <2>1. PICK k \in Q : \A j \in Q : k <= j
      <3>1. Q \subseteq Nat
        OBVIOUS
      <3> HIDE DEF Q
      <3> QED BY <3>1, Lowest
    <2>2. k \in Nat /\ ~\E f : LoopTo(f, fs, k)
      BY <2>1
    <2>3. CASE k = 0
      <3>1. LoopTo([i \in 0 .. 0 |-> fs], fs, 0)
        BY DEF LoopTo
      <3> QED BY <2>2, <2>3, <3>1
    <2>4. CASE k # 0
      <3>1. k - 1 \in Nat /\ ~(k <= k - 1)
        BY <2>2, <2>4
      <3>2. PICK f : LoopTo(f, fs, k - 1)
        BY <2>1, <3>1
      <3> DEFINE g == [i \in 0 .. k |-> IF i = k THEN AddBlock(f[k - 1], k - 1, EmptyBlock) ELSE f[i]]
      <3>3. LoopTo(g, fs, k)
        <4>1. DOMAIN g = 0 .. k /\ 0 \in 0 .. k /\ 0 # k
          BY <2>2, <2>4
        <4>2. g[0] = fs
          BY <3>2, <4>1 DEF LoopTo
        <4>3. ASSUME NEW i \in 1 .. k PROVE g[i] = AddBlock(g[i - 1], i - 1, EmptyBlock)
          <5>1. i - 1 \in 0 .. k /\ i \in 0 .. k /\ i - 1 # k
            BY <2>2
          <5>2. g[i - 1] = f[i - 1]
            BY <5>1
          <5>3. CASE i = k
            BY <5>1, <5>2, <5>3
          <5>4. CASE i # k
            <6>1. i \in 1 .. k - 1
              BY <2>2, <5>4
            <6>2. f[i] = AddBlock(f[i - 1], i - 1, EmptyBlock)
              BY <3>2, <6>1 DEF LoopTo
            <6> QED BY <5>1, <5>2, <5>4, <6>2
          <5> QED BY <5>3, <5>4
        <4> HIDE DEF g
        <4> QED BY <4>1, <4>2, <4>3 DEF LoopTo
      <3> QED BY <2>2, <3>3
    <2> QED BY <2>3, <2>4
  <1>2. PICK f : LoopTo(f, fs, n)
    BY <1>1
  <1> DEFINE h == [i \in 0 .. n |-> f[i]]
  <1>3. ASSUME NEW i \in 0 .. n
        PROVE  h[i] = IF i = 0 THEN fs ELSE AddBlock(h[i - 1], i - 1, EmptyBlock)
    <2>1. i # 0 => i \in 1 .. n /\ i - 1 \in 0 .. n
      OBVIOUS
    <2> QED BY <1>2, <2>1 DEF LoopTo
  <1>4. Loop(h, fs, n)
    <2>1. h = [i \in 0 .. n |-> h[i]]
      OBVIOUS
    <2> HIDE DEF h
    <2> QED BY <2>1, <1>3 DEF Loop
  <1> QED BY <1>4

\* The inode has got some blocks more and has those it had.
Extends(nd, d, ne, e) ==
  /\ Moves(nd, d, ne, e) /\ ne.size = nd.size
  /\ \A j \in Slots : Has(nd, d, j) => /\ Has(ne, e, j) /\ BlockOf(ne, e, j) = BlockOf(nd, d, j)
                                       /\ e[BlockOf(nd, d, j)] = d[BlockOf(nd, d, j)]

LEMMA ExtendsOn ==
    ASSUME NEW nd, NEW d, NEW ne, NEW e, NEW nf, NEW f, Extends(nd, d, ne, e), Extends(ne, e, nf, f)
    PROVE  Extends(nd, d, nf, f)
  <1>1. Moves(nd, d, nf, f)
    BY MovesOn DEF Extends
  <1> QED BY <1>1 DEF Extends

\* After i turns the first i blocks are there, or the disk is full.
Grew(nd, d, g, i) ==
  /\ g = [node |-> g.node, data |-> g.data]
  /\ Extends(nd, d, g.node, g.data) /\ Prefix(g.node, g.data)
  /\ Full(g.data) \/ \A j \in Slots : j < i => Has(g.node, g.data, j)

LEMMA OneMoreBlock ==
    ASSUME NEW nd, NEW d, NEW g, NEW i \in Slots, Grew(nd, d, g, i),
           NEW r, r = AddBlock(g, i, EmptyBlock)
    PROVE  Grew(nd, d, r, i + 1)
  <1> DEFINE ne == g.node
             e == g.data
  <1>1. NodeOK(ne, e) /\ DOMAIN e \subseteq DataBlocks /\ Prefix(ne, e)
    BY DEF Grew, Extends, Moves
  <1>2. r = AddBlock([node |-> ne, data |-> e], i, EmptyBlock)
    BY DEF Grew
  <1>3. Full(e) \/ \A j \in Slots : j < i => Has(ne, e, j)
    BY DEF Grew
  <1>4. Extends(nd, d, ne, e)
    BY DEF Grew
  <1> HIDE DEF ne, e
  <1>5. /\ r = [node |-> r.node, data |-> r.data] /\ Adds(ne, e, r.node, r.data, i, EmptyBlock)
        /\ Has(r.node, r.data, i) \/ Full(r.data)
    BY <1>1, <1>2, BlockAdded
  <1>6. Extends(ne, e, r.node, r.data)
    BY <1>5 DEF Adds, Extends
  <1>7. Full(e) => Full(r.data) /\ \A j \in Slots : Has(r.node, r.data, j) => Has(ne, e, j)
    <2> SUFFICES ASSUME Full(e) PROVE Full(r.data) /\ \A j \in Slots : Has(r.node, r.data, j) => Has(ne, e, j)
      OBVIOUS
    <2>1. DOMAIN r.data = DOMAIN e /\ NodeOK(r.node, r.data)
      BY <1>5 DEF Adds, Moves, Full
    <2>2. \A j \in Slots : Has(r.node, r.data, j) => BlockOf(r.node, r.data, j) \in DOMAIN e
      BY <2>1 DEF NodeOK, Linked
    <2> QED BY <1>5, <2>1, <2>2 DEF Adds, Full
  <1>8. Prefix(r.node, r.data)
    <2> SUFFICES ASSUME NEW k \in Slots, NEW j \in Slots, Has(r.node, r.data, j), k <= j
                 PROVE  Has(r.node, r.data, k)
      BY DEF Prefix
    <2>1. CASE Has(ne, e, j)
      <3>1. Has(ne, e, k)
        BY <1>1, <2>1 DEF Prefix
      <3> QED BY <3>1, <1>6 DEF Extends
    <2>2. CASE ~Has(ne, e, j)
      <3>1. j = i
        BY <1>5, <2>2 DEF Adds
      <3>2. k < i \/ k = j
        BY <3>1 DEF Slots
      <3>3. k < i => Has(ne, e, k)
        BY <1>3, <1>7, <2>2
      <3> QED BY <3>2, <3>3, <1>6 DEF Extends
    <2> QED BY <2>1, <2>2
  <1>9. Full(r.data) \/ \A j \in Slots : j < i + 1 => Has(r.node, r.data, j)
    <2> SUFFICES ASSUME ~Full(r.data), NEW j \in Slots, j < i + 1 PROVE Has(r.node, r.data, j)
      OBVIOUS
    <2>1. j < i \/ j = i
      BY DEF Slots
    <2> QED BY <1>3, <1>5, <1>6, <1>7, <2>1 DEF Extends
  <1>10. Extends(nd, d, r.node, r.data)
    BY <1>4, <1>6, ExtendsOn
  <1> QED BY <1>5, <1>8, <1>9, <1>10 DEF Grew

LEMMA BlocksAdded ==
    ASSUME NEW nd, NEW d, NodeOK(nd, d), DOMAIN d \subseteq DataBlocks, Prefix(nd, d), NEW n \in Nat,
           n <= NUM_DIRECT_BLOCKS + NUM_INDIRECT_BLOCKS,
           NEW r, r = MinBlockcount([node |-> nd, data |-> d], n)
    PROVE  Extends(nd, d, r.node, r.data) /\ Prefix(r.node, r.data)
  <1> DEFINE fs == [node |-> nd, data |-> d]
             f == CHOOSE f : Loop(f, fs, n)
             T == {i \in 0 .. n : ~Grew(nd, d, f[i], i)}
  <1>1. r = f[n]
    BY DEF MinBlockcount, Loop
  <1>2. Loop(f, fs, n)
    BY LoopExists
  <1> HIDE DEF f
  <1>3. \A i \in 0 .. n : f[i] = IF i = 0 THEN fs ELSE AddBlock(f[i - 1], i - 1, EmptyBlock)
    BY <1>2 DEF Loop
  <1>4. Grew(nd, d, f[0], 0)
    <2>1. f[0] = fs
      BY <1>3
    <2>2. Extends(nd, d, nd, d)
      BY DEF Extends, Moves
    <2>3. \A j \in Slots : ~(j < 0)
      BY DEF Slots
    <2> QED BY <2>1, <2>2, <2>3 DEF Grew
  <1>5. ASSUME T # {} PROVE FALSE
    <2>0. T \subseteq Nat
      OBVIOUS
    <2>1. PICK i \in T : \A j \in T : i <= j
      <3> HIDE DEF T
      <3> QED BY <1>5, <2>0, Lowest
    <2>2. i \in 0 .. n /\ ~Grew(nd, d, f[i], i) /\ i # 0
      BY <1>4, <2>1
    <2>3. i - 1 \in 0 .. n /\ i - 1 \in Nat /\ ~(i <= i - 1) /\ (i - 1) + 1 = i /\ i - 1 \in Slots
      BY <2>2, DiskSizes DEF Slots
    <2>4. Grew(nd, d, f[i - 1], i - 1)
      BY <2>1, <2>3
    <2>5. f[i] = AddBlock(f[i - 1], i - 1, EmptyBlock)
      BY <1>3, <2>2
    <2>6. Grew(nd, d, f[i], (i - 1) + 1)
      <3> HIDE DEF T
      <3> QED BY <2>3, <2>4, <2>5, OneMoreBlock
    <2> QED BY <2>2, <2>3, <2>6
  <1>6. Grew(nd, d, f[n], n)
    BY <1>5
  <1> QED BY <1>1, <1>6 DEF Grew

-----------------------------------------------------------------------------
(* Contents change: the inode has the blocks it had.                       *)

Rewrites(nd, d, e) ==
  /\ DOMAIN e = DOMAIN d
  /\ \A b \in DOMAIN d : e[b] = d[b] \/ \E i \in Slots : Has(nd, d, i) /\ b = BlockOf(nd, d, i)

LEMMA SameLinks ==
    ASSUME NEW nd, NEW d, NodeOK(nd, d), DOMAIN d \subseteq DataBlocks, NEW e, Rewrites(nd, d, e),
           NEW k \in Nat, NEW ne, ne = [nd EXCEPT !.size = k]
    PROVE  /\ Moves(nd, d, ne, e) /\ ne.size = k
           /\ \A j \in Slots : /\ Has(ne, e, j) <=> Has(nd, d, j)
                               /\ Has(nd, d, j) => BlockOf(ne, e, j) = BlockOf(nd, d, j)
  <1>1. nd \in NodeType /\ nd.indirect \in Nat
    BY DEF NodeOK, NodeType
  <1>2. ne \in NodeType /\ ne.indirect = nd.indirect /\ ne.direct = nd.direct /\ ne.size = k
    BY <1>1 DEF NodeType
  <1>3. nd.indirect # 0 => nd.indirect \in DOMAIN d /\ e[nd.indirect] = d[nd.indirect]
    BY DEF Rewrites, NodeOK, IndirectOK, Linked
  <1>4. ASSUME NEW j \in Slots PROVE /\ Has(ne, e, j) <=> Has(nd, d, j)
                                     /\ Has(nd, d, j) => BlockOf(ne, e, j) = BlockOf(nd, d, j)
    BY <1>2, <1>3 DEF Has, BlockOf, UNASSIGNED
  <1>5. IndirectOK(ne, e)
    BY <1>2, <1>3 DEF NodeOK, IndirectOK, Rewrites
  <1>6. Linked(ne, e)
    <2> SUFFICES ASSUME NEW j \in Slots, Has(ne, e, j)
                 PROVE  /\ BlockOf(ne, e, j) \in DOMAIN e /\ BlockOf(ne, e, j) # ne.indirect
                        /\ \A l \in Slots : Has(ne, e, l) /\ BlockOf(ne, e, l) = BlockOf(ne, e, j) => l = j
      BY DEF Linked
    <2>1. Has(nd, d, j) /\ BlockOf(ne, e, j) = BlockOf(nd, d, j)
      BY <1>4
    <2>2. /\ BlockOf(nd, d, j) \in DOMAIN d /\ BlockOf(nd, d, j) # nd.indirect
          /\ \A l \in Slots : Has(nd, d, l) /\ BlockOf(nd, d, l) = BlockOf(nd, d, j) => l = j
      BY <2>1 DEF NodeOK, Linked
    <2> QED BY <1>2, <1>4, <2>1, <2>2 DEF Rewrites
  <1>7. \A b : Uses(ne, e, b) => Uses(nd, d, b)
    BY <1>2, <1>4 DEF Uses
  <1>8. \A b \in DOMAIN d : ~Uses(nd, d, b) => e[b] = d[b]
    BY DEF Rewrites, Uses
  <1> QED BY <1>2, <1>4, <1>5, <1>6, <1>7, <1>8 DEF Moves, NodeOK, Rewrites

-----------------------------------------------------------------------------
(* The disk: f are the files' inodes, p is the directory's.                *)

Sound(f, p, d) ==
  /\ DOMAIN d \subseteq DataBlocks /\ NodeOK(p, d)
  /\ \A n \in DOMAIN f : NodeOK(f[n], d) /\ Prefix(f[n], d) /\ Disjoint(p, f[n], d)
  /\ \A n \in DOMAIN f : \A m \in DOMAIN f : n # m => Disjoint(f[n], f[m], d)

LEMMA DisjointSame ==
    ASSUME NEW nd, NEW om, NEW d, NEW e, Disjoint(nd, om, d),
           \A b : Uses(nd, e, b) <=> Uses(nd, d, b), \A b : Uses(om, e, b) <=> Uses(om, d, b)
    PROVE  Disjoint(nd, om, e)
  BY DEF Disjoint

LEMMA PrefixUntouched ==
    ASSUME NEW nd, NEW d, NEW e, Prefix(nd, d), Untouched(nd, d, e)
    PROVE  Prefix(nd, e)
  BY DEF Prefix, Untouched

\* The directory changes.
LEMMA SoundDirectory ==
    ASSUME NEW f, NEW p, NEW d, Sound(f, p, d), NEW q, NEW e, Moves(p, d, q, e)
    PROVE  Sound(f, q, e) /\ \A n \in DOMAIN f : Untouched(f[n], d, e)
  <1>1. DOMAIN d \subseteq DataBlocks /\ NodeOK(p, d)
    BY DEF Sound
  <1>2. ASSUME NEW n \in DOMAIN f
        PROVE  /\ Untouched(f[n], d, e) /\ NodeOK(f[n], e) /\ Disjoint(q, f[n], e)
               /\ \A b : Uses(f[n], e, b) <=> Uses(f[n], d, b)
    BY <1>1, OthersUntouched DEF Sound
  <1>3. ASSUME NEW n \in DOMAIN f PROVE Prefix(f[n], e)
    BY <1>2, PrefixUntouched DEF Sound
  <1>4. ASSUME NEW n \in DOMAIN f, NEW m \in DOMAIN f, n # m PROVE Disjoint(f[n], f[m], e)
    <2>1. Disjoint(f[n], f[m], d)
      BY <1>4 DEF Sound
    <2> QED BY <1>2, <2>1, DisjointSame
  <1>5. DOMAIN e \subseteq DataBlocks /\ NodeOK(q, e)
    BY DEF Moves
  <1> QED BY <1>2, <1>3, <1>4, <1>5 DEF Sound

\* A file changes from nd, which may be no file yet, to ne.
Mine(f, p, d, name, nd) ==
  /\ NodeOK(nd, d) /\ Disjoint(p, nd, d)
  /\ \A m \in DOMAIN f : m # name => Disjoint(nd, f[m], d)

LEMMA DisjointTwoWays ==
    ASSUME NEW nd, NEW om, NEW d
    PROVE  Disjoint(nd, om, d) <=> Disjoint(om, nd, d)
  BY DEF Disjoint

FileMoves(f, p, d, name, nd, ne, e, g) ==
  /\ Sound(f, p, d) /\ Mine(f, p, d, name, nd)
  /\ Moves(nd, d, ne, e) /\ Prefix(ne, e) /\ g = With(f, name, ne)

FileMoved(f, p, d, name, ne, e, g) ==
  /\ Sound(g, p, e) /\ Untouched(p, d, e) /\ DOMAIN g = DOMAIN f \cup {name} /\ g[name] = ne
  /\ \A m \in DOMAIN f : m # name => g[m] = f[m] /\ Untouched(f[m], d, e)

LEMMA SoundFile ==
    ASSUME NEW f, NEW p, NEW d, NEW name, NEW nd, NEW ne, NEW e, NEW g,
           FileMoves(f, p, d, name, nd, ne, e, g)
    PROVE  FileMoved(f, p, d, name, ne, e, g)
  <1>0. /\ Sound(f, p, d) /\ Mine(f, p, d, name, nd)
        /\ Moves(nd, d, ne, e) /\ Prefix(ne, e) /\ g = With(f, name, ne)
    BY DEF FileMoves
  <1> USE <1>0
  <1>1. DOMAIN d \subseteq DataBlocks /\ NodeOK(p, d)
    BY DEF Sound
  <1>2. /\ DOMAIN g = DOMAIN f \cup {name} /\ g[name] = ne
        /\ \A m \in DOMAIN f : m # name => g[m] = f[m]
    BY DEF With
  <1>3. Untouched(p, d, e) /\ NodeOK(p, e) /\ Disjoint(ne, p, e) /\ \A b : Uses(p, e, b) <=> Uses(p, d, b)
    <2>1. Disjoint(nd, p, d)
      BY DisjointTwoWays DEF Mine
    <2> QED BY <1>1, <2>1, OthersUntouched
  <1>4. ASSUME NEW m \in DOMAIN f, m # name
        PROVE  /\ Untouched(f[m], d, e) /\ NodeOK(f[m], e) /\ Disjoint(ne, f[m], e)
               /\ \A b : Uses(f[m], e, b) <=> Uses(f[m], d, b)
    <2>1. Disjoint(nd, f[m], d) /\ NodeOK(f[m], d)
      BY <1>4 DEF Mine, Sound
    <2> QED BY <1>1, <2>1, OthersUntouched
  <1>5. ASSUME NEW m \in DOMAIN f, m # name PROVE Prefix(f[m], e) /\ Disjoint(p, f[m], e)
    <2>1. Prefix(f[m], d) /\ Disjoint(p, f[m], d)
      BY DEF Sound
    <2>2. Prefix(f[m], e)
      BY <1>4, <1>5, <2>1, PrefixUntouched
    <2> QED BY <1>3, <1>4, <1>5, <2>1, <2>2, DisjointSame
  <1>6. ASSUME NEW n \in DOMAIN g PROVE NodeOK(g[n], e) /\ Prefix(g[n], e) /\ Disjoint(p, g[n], e)
    <2>1. CASE n = name
      <3>1. NodeOK(ne, e) /\ Disjoint(p, ne, e)
        BY <1>3, DisjointTwoWays DEF Moves
      <3> QED BY <1>2, <2>1, <3>1
    <2>2. CASE n # name
      BY <1>2, <1>4, <1>5, <2>2
    <2> QED BY <2>1, <2>2
  <1>7. ASSUME NEW n \in DOMAIN g, NEW m \in DOMAIN g, n # m PROVE Disjoint(g[n], g[m], e)
    <2>1. CASE n = name
      BY <1>2, <1>4, <1>7, <2>1
    <2>2. CASE m = name
      <3>1. Disjoint(ne, f[n], e) /\ g[n] = f[n] /\ g[m] = ne
        BY <1>2, <1>4, <1>7, <2>2
      <3> QED BY <3>1, DisjointTwoWays
    <2>3. CASE n # name /\ m # name
      <3>1. n \in DOMAIN f /\ m \in DOMAIN f /\ g[n] = f[n] /\ g[m] = f[m]
        BY <1>2, <2>3
      <3>2. Disjoint(f[n], f[m], d)
        BY <1>7, <3>1 DEF Sound
      <3> QED BY <1>4, <2>3, <3>1, <3>2, DisjointSame
    <2> QED BY <2>1, <2>2, <2>3
  <1>8. DOMAIN e \subseteq DataBlocks
    BY DEF Moves
  <1> QED BY <1>2, <1>3, <1>4, <1>6, <1>7, <1>8 DEF Sound, FileMoved

\* An inode without blocks.
LEMMA NewNode ==
    ASSUME NEW d
    PROVE  /\ NodeOK(NoBlocks, d) /\ Prefix(NoBlocks, d) /\ NoBlocks.size = 0
           /\ \A b : ~Uses(NoBlocks, d, b)
           /\ \A i \in Slots : ~Has(NoBlocks, d, i)
  <1>1. /\ NoBlocks \in NodeType /\ NoBlocks.indirect = 0 /\ NoBlocks.size = 0
        /\ \A i \in 0 .. NUM_DIRECT_BLOCKS - 1 : NoBlocks.direct[i] = 0
    BY DEF NoBlocks, NodeType, UNASSIGNED
  <1>2. \A i \in Slots : ~Has(NoBlocks, d, i)
    BY <1>1, DiskSizes DEF Has, Slots, UNASSIGNED
  <1> QED BY <1>1, <1>2 DEF NodeOK, Prefix, Uses, IndirectOK, Linked

\* The inode that minixfs_write starts from.
LEMMA MineOld ==
    ASSUME NEW f, NEW p, NEW d, Sound(f, p, d), NEW name, NEW nd,
           nd = IF name \notin DOMAIN f THEN NoBlocks ELSE f[name]
    PROVE  Mine(f, p, d, name, nd) /\ Prefix(nd, d)
  <1>1. CASE name \notin DOMAIN f
    BY <1>1, NewNode DEF Mine, Disjoint
  <1>2. CASE name \in DOMAIN f
    BY <1>2 DEF Mine, Sound
  <1> QED BY <1>1, <1>2

-----------------------------------------------------------------------------
(* minixfs_create_inode_for_path(): the directory before (p, d) and after  *)
(* (q, e) a creation, with the new entry in block i.                       *)

LEMMA Division ==
    ASSUME NEW a \in Nat, NEW n \in Nat, n > 0
    PROVE  /\ a \div n \in Nat /\ a % n \in Nat /\ a % n < n /\ a = (a \div n) * n + (a % n)
  OBVIOUS

LEMMA LessTimes ==
    ASSUME NEW a \in Int, NEW b \in Int, NEW n \in Nat, a < b
    PROVE  a * n + n <= b * n
  <1>1. b - a - 1 \in Nat
    OBVIOUS
  <1>2. (b - a - 1) * n >= 0
    BY <1>1
  <1>3. (b - a - 1) * n = b * n - a * n - n
    OBVIOUS
  <1>4. a * n \in Int /\ b * n \in Int
    OBVIOUS
  <1> QED BY <1>2, <1>3, <1>4

\* The quotient is the only number with these bounds.
LEMMA Quotient ==
    ASSUME NEW a \in Nat, NEW n \in Nat, n > 0, NEW i \in Int, i * n <= a, a < i * n + n
    PROVE  i = a \div n /\ a % n = a - i * n
  <1> DEFINE k == a \div n
  <1>1. k \in Nat /\ k * n <= a /\ a < k * n + n /\ a % n = a - k * n
    BY Division
  <1> HIDE DEF k
  <1>2. i * n \in Int /\ k * n \in Int
    BY <1>1
  <1>3. ~(i < k)
    BY <1>1, <1>2, LessTimes
  <1>4. ~(k < i)
    BY <1>1, <1>2, LessTimes
  <1>5. i = k
    BY <1>1, <1>3, <1>4
  <1> QED BY <1>1, <1>5 DEF k

Same(p, d, q, e) ==
  /\ q.size = p.size
  /\ \A j \in Slots : /\ Has(q, e, j) <=> Has(p, d, j)
                      /\ Has(p, d, j) => /\ BlockOf(q, e, j) = BlockOf(p, d, j)
                                         /\ e[BlockOf(q, e, j)] = d[BlockOf(p, d, j)]

Entered(p, d, q, e, i, name) ==
  /\ q.size = p.size + 1
  /\ \A j \in Slots : Has(q, e, j) <=> Has(p, d, j) \/ j = i
  /\ \A j \in Slots : j # i /\ Has(p, d, j) => /\ BlockOf(q, e, j) = BlockOf(p, d, j)
                                               /\ e[BlockOf(q, e, j)] = d[BlockOf(p, d, j)]
  /\ e[BlockOf(q, e, i)] = Append(IF Has(p, d, i) THEN d[BlockOf(p, d, i)] ELSE << >>, name)

LEMMA CreatedEntry ==
    ASSUME NodeOK(parent, data), DOMAIN data \subseteq DataBlocks, parent.size < MaxEntries, NEW name,
           NEW made, made = Created(name), NEW i, i = parent.size \div EntriesPerBlock
    PROVE  /\ i \in Slots /\ Moves(parent, data, made.parent, made.data)
           /\ made.stray \in BOOLEAN /\ made.ok \in BOOLEAN
           /\ ~made.ok => ~made.stray /\ Same(parent, data, made.parent, made.data)
           /\ made.ok /\ ~made.stray => Entered(parent, data, made.parent, made.data, i, name)
  <1> DEFINE p == parent
             d == data
             dir == [node |-> p, data |-> d]
             fs == IF p.size % EntriesPerBlock = 0 THEN AddBlock(dir, i, << >>) ELSE dir
             nd == fs.node
             c == fs.data
             got == Has(nd, c, i)
             blk == BlockOf(nd, c, i)
             e == IF got THEN [c EXCEPT ![blk] = Append(@, name)] ELSE c
             q == IF CreateFails(i, got) THEN nd ELSE [nd EXCEPT !.size = @ + 1]
  <1>0. p \in NodeType /\ p.size \in Nat
    BY DEF NodeOK, NodeType
  <1>1. i \in Slots
    <2>1. i \in Nat /\ i * EntriesPerBlock <= p.size
      BY <1>0, DiskSizes, Division
    <2> DEFINE K == NUM_DIRECT_BLOCKS + NUM_INDIRECT_BLOCKS
    <2>2. K \in Nat /\ p.size < EntriesPerBlock * K /\ EntriesPerBlock * K = K * EntriesPerBlock
      BY DiskSizes DEF MaxEntries
    <2> HIDE DEF K
    <2>3. i * EntriesPerBlock \in Int /\ K * EntriesPerBlock \in Int
      BY <2>1, <2>2, DiskSizes
    <2>4. K # i /\ ~(K < i)
      BY <1>0, <2>1, <2>2, <2>3, DiskSizes, LessTimes
    <2>5. i < K
      BY <2>1, <2>2, <2>4
    <2> QED BY <2>1, <2>5, DiskSizes DEF Slots, K
  <1>2. /\ made.ok = ~CreateFails(i, got) /\ made.parent = q /\ made.data = e
        /\ made.stray = (~got /\ i < NUM_DIRECT_BLOCKS)
    BY DEF Created
  <1>3. Adds(p, d, nd, c, i, << >>)
    <2>1. CASE p.size % EntriesPerBlock = 0
      BY <1>1, <2>1, BlockAdded
    <2>2. CASE p.size % EntriesPerBlock # 0
      BY <2>2, AddsNothing
    <2> QED BY <2>1, <2>2
  <1> HIDE DEF fs
  <1>4. Moves(p, d, nd, c) /\ NodeOK(nd, c) /\ DOMAIN c \subseteq DataBlocks /\ nd.size = p.size
        /\ nd \in NodeType
    BY <1>3 DEF Adds, Moves, NodeOK
  <1> HIDE DEF nd, c
  <1>5. Rewrites(nd, c, e)
    <2>1. CASE got
      <3>1. DOMAIN e = DOMAIN c /\ \A b \in DOMAIN c : b # blk => e[b] = c[b]
        BY <2>1
      <3> HIDE DEF e, blk
      <3>2. \A b \in DOMAIN c : e[b] = c[b] \/ b = blk
        BY <3>1
      <3> QED BY <1>1, <2>1, <3>1, <3>2 DEF Rewrites, blk
    <2>2. CASE ~got
      BY <2>2 DEF Rewrites
    <2> QED BY <2>1, <2>2
  <1>6. got => blk \in DOMAIN c /\ e[blk] = Append(c[blk], name) /\ \A b \in DOMAIN c : b # blk => e[b] = c[b]
    <2> SUFFICES ASSUME got PROVE blk \in DOMAIN c /\ e[blk] = Append(c[blk], name)
                                  /\ \A b \in DOMAIN c : b # blk => e[b] = c[b]
      OBVIOUS
    <2>1. blk \in DOMAIN c
      BY <1>1, <1>4 DEF NodeOK, Linked
    <2> QED BY <2>1
  <1> DEFINE k == IF CreateFails(i, got) THEN nd.size ELSE nd.size + 1
  <1>7. q = [nd EXCEPT !.size = k] /\ k \in Nat
    BY <1>0, <1>4 DEF NodeType
  <1>e. ~got => e = c
    OBVIOUS
  <1> HIDE DEF q, e, k
  <1>8. /\ Moves(nd, c, q, e) /\ q.size = k
        /\ \A j \in Slots : /\ Has(q, e, j) <=> Has(nd, c, j)
                            /\ Has(nd, c, j) => BlockOf(q, e, j) = BlockOf(nd, c, j)
    BY <1>4, <1>5, <1>7, SameLinks
  <1>9. Moves(p, d, q, e)
    BY <1>4, <1>8, MovesOn
  <1>10. ASSUME ~made.ok PROVE ~made.stray /\ Same(p, d, q, e)
    <2>0. CreateFails(i, got)
      BY <1>2, <1>10, Zenon
    <2>1. CreateFails(i, got) /\ ~got /\ ~(i < NUM_DIRECT_BLOCKS)
      BY <1>1, <2>0, DiskSizes DEF CreateFails, Slots
    <2>2. e = c /\ q.size = p.size
      BY <1>4, <1>8, <1>e, <2>1 DEF k
    <2>3. ASSUME NEW j \in Slots PROVE (Has(nd, c, j) <=> Has(p, d, j))
                                       /\ (Has(p, d, j) => /\ BlockOf(nd, c, j) = BlockOf(p, d, j)
                                                           /\ c[BlockOf(p, d, j)] = d[BlockOf(p, d, j)])
      BY <1>3, <2>1 DEF Adds
    <2>4. ASSUME NEW j \in Slots
          PROVE  /\ Has(q, e, j) <=> Has(p, d, j)
                 /\ Has(p, d, j) => /\ BlockOf(q, e, j) = BlockOf(p, d, j)
                                    /\ e[BlockOf(q, e, j)] = d[BlockOf(p, d, j)]
      <3>1. Has(q, e, j) <=> Has(nd, c, j)
        BY <1>8
      <3>2. Has(nd, c, j) => BlockOf(q, e, j) = BlockOf(nd, c, j)
        BY <1>8
      <3> QED BY <2>2, <2>3, <3>1, <3>2
    <2> HIDE DEF p, d
    <2>5. Same(p, d, q, e)
      BY <2>2, <2>4 DEF Same
    <2> QED BY <1>2, <2>1, <2>5
  <1>11. ASSUME made.ok, ~made.stray PROVE Entered(p, d, q, e, i, name)
    <2>1. got /\ ~CreateFails(i, got)
      BY <1>1, <1>2, <1>11, DiskSizes DEF CreateFails, Slots
    <2>2. q.size = p.size + 1
      BY <1>4, <1>8, <2>1 DEF k
    <2>3. \A j \in Slots : Has(nd, c, j) <=> Has(p, d, j) \/ j = i
      BY <1>1, <1>3, <2>1 DEF Adds
    <2>4. \A j \in Slots : Has(p, d, j) => /\ BlockOf(nd, c, j) = BlockOf(p, d, j)
                                           /\ c[BlockOf(p, d, j)] = d[BlockOf(p, d, j)]
      BY <1>3 DEF Adds
    <2>5. ASSUME NEW j \in Slots, j # i, Has(p, d, j)
          PROVE  /\ BlockOf(q, e, j) = BlockOf(p, d, j)
                 /\ e[BlockOf(q, e, j)] = d[BlockOf(p, d, j)]
      <3>1. Has(nd, c, j) /\ BlockOf(q, e, j) = BlockOf(nd, c, j)
        BY <1>8, <2>3, <2>5
      <3>2. BlockOf(nd, c, j) # blk /\ BlockOf(nd, c, j) \in DOMAIN c
        BY <1>1, <1>4, <2>1, <2>5, <3>1 DEF NodeOK, Linked
      <3> HIDE DEF blk
      <3> QED BY <1>6, <2>1, <2>4, <2>5, <3>1, <3>2
    <2>6. e[BlockOf(q, e, i)] = Append(IF Has(p, d, i) THEN d[BlockOf(p, d, i)] ELSE << >>, name)
      <3>1. BlockOf(q, e, i) = blk
        BY <1>1, <1>8, <2>1
      <3>2. c[blk] = IF Has(p, d, i) THEN d[BlockOf(p, d, i)] ELSE << >>
        BY <1>1, <1>3, <2>1, <2>4 DEF Adds
      <3> HIDE DEF blk
      <3> QED BY <1>6, <2>1, <3>1, <3>2
    <2>7. \A j \in Slots : Has(q, e, j) <=> Has(p, d, j) \/ j = i
      BY <1>8, <2>3
    <2> HIDE DEF p, d
    <2> QED BY <2>2, <2>5, <2>6, <2>7 DEF Entered
  <1> QED BY <1>1, <1>2, <1>9, <1>10, <1>11

-----------------------------------------------------------------------------
(* What the directory lists.                                               *)

Entry(p, d, n) == \E i \in Slots : Has(p, d, i) /\ \E k \in DOMAIN d[BlockOf(p, d, i)] : d[BlockOf(p, d, i)][k] = n

Lists(p, d, N) ==
  /\ IsFiniteSet(N) /\ N \subseteq Names /\ p.size = Cardinality(N)
  /\ \A i \in Slots : /\ Has(p, d, i) <=> i * EntriesPerBlock < p.size
                      /\ Has(p, d, i) => d[BlockOf(p, d, i)] \in Seq(Names)
  /\ \A n : n \in N <=> Entry(p, d, n)

LEMMA ListsSame ==
    ASSUME NEW p, NEW d, NEW N, Lists(p, d, N), NEW q, NEW e, Same(p, d, q, e)
    PROVE  Lists(q, e, N)
  <1>1. \A n : Entry(q, e, n) <=> Entry(p, d, n)
    BY DEF Entry, Same
  <1>2. \A i \in Slots : /\ Has(q, e, i) <=> i * EntriesPerBlock < q.size
                         /\ Has(q, e, i) => e[BlockOf(q, e, i)] \in Seq(Names)
    BY DEF Lists, Same
  <1> QED BY <1>1, <1>2 DEF Lists, Same

LEMMA ListsEntered ==
    ASSUME NEW p, NEW d, NEW N, Lists(p, d, N), p.size \in Nat, NEW q, NEW e, NEW i \in Slots,
           i = p.size \div EntriesPerBlock, NEW name \in Names, name \notin N,
           Entered(p, d, q, e, i, name)
    PROVE  Lists(q, e, N \cup {name})
  <1>0. i \in Nat /\ i * EntriesPerBlock <= p.size /\ p.size < i * EntriesPerBlock + EntriesPerBlock
        /\ i * EntriesPerBlock \in Nat
    BY DiskSizes, Division DEF Slots
  <1>1. /\ IsFiniteSet(N \cup {name}) /\ N \cup {name} \subseteq Names
        /\ q.size = Cardinality(N \cup {name})
    BY FS_AddElement DEF Lists, Entered
  <1>2. ASSUME NEW j \in Slots PROVE Has(q, e, j) <=> j * EntriesPerBlock < q.size
    <2>1. j \in Int /\ j * EntriesPerBlock \in Int
      BY DiskSizes DEF Slots
    <2>2. j * EntriesPerBlock = p.size => j = i
      BY <2>1, DiskSizes, Quotient
    <2>3. Has(p, d, j) <=> j * EntriesPerBlock < p.size
      BY DEF Lists
    <2>4. Has(q, e, j) <=> Has(p, d, j) \/ j = i
      BY DEF Entered
    <2>5. q.size = p.size + 1
      BY DEF Entered
    <2> QED BY <1>0, <2>1, <2>2, <2>3, <2>4, <2>5
  <1> DEFINE old == IF Has(p, d, i) THEN d[BlockOf(p, d, i)] ELSE << >>
             new == e[BlockOf(q, e, i)]
  <1>3. old \in Seq(Names) /\ new = Append(old, name)
    <2>1. Has(p, d, i) => d[BlockOf(p, d, i)] \in Seq(Names)
      BY DEF Lists
    <2> QED BY <2>1 DEF Entered
  <1>4. \A j \in Slots : Has(q, e, j) => e[BlockOf(q, e, j)] \in Seq(Names)
    <2>1. new \in Seq(Names)
      BY <1>3
    <2> HIDE DEF new
    <2> SUFFICES ASSUME NEW j \in Slots, Has(q, e, j) PROVE e[BlockOf(q, e, j)] \in Seq(Names)
      OBVIOUS
    <2>2. CASE j = i
      BY <2>1, <2>2 DEF new
    <2>3. CASE j # i
      BY <2>3 DEF Lists, Entered
    <2> QED BY <2>2, <2>3
  <1>5. \A n : (\E k \in DOMAIN new : new[k] = n) <=> (\E k \in DOMAIN old : old[k] = n) \/ n = name
    <2> HIDE DEF old, new
    <2>1. /\ Len(old) \in Nat /\ DOMAIN old = 1 .. Len(old) /\ DOMAIN new = 1 .. Len(old) + 1
          /\ new[Len(old) + 1] = name /\ \A k \in 1 .. Len(old) : new[k] = old[k]
      BY <1>3
    <2>2. \A k \in 1 .. Len(old) + 1 : k \in 1 .. Len(old) \/ k = Len(old) + 1
      BY <2>1
    <2>3. Len(old) + 1 \in 1 .. Len(old) + 1 /\ \A k \in 1 .. Len(old) : k \in 1 .. Len(old) + 1
      BY <2>1
    <2> QED BY <2>1, <2>2, <2>3
  <1>6. ASSUME NEW n PROVE n \in N \cup {name} <=> Entry(q, e, n)
    <2>1. n \in N <=> Entry(p, d, n)
      BY DEF Lists
    <2> DEFINE At(j) == Has(q, e, j) /\ \E k \in DOMAIN e[BlockOf(q, e, j)] : e[BlockOf(q, e, j)][k] = n
               Was(j) == Has(p, d, j) /\ \E k \in DOMAIN d[BlockOf(p, d, j)] : d[BlockOf(p, d, j)][k] = n
    <2>2. ASSUME NEW j \in Slots, j # i PROVE At(j) <=> Was(j)
      BY <2>2 DEF Entered
    <2>3. At(i) <=> Was(i) \/ n = name
      <3>1. Has(q, e, i)
        BY DEF Entered
      <3>2. (\E k \in DOMAIN old : old[k] = n) <=> Was(i)
        <4>1. CASE Has(p, d, i)
          BY <4>1
        <4>2. CASE ~Has(p, d, i)
          <5>1. old = << >>
            BY <4>2
          <5>2. DOMAIN << >> = {}
            OBVIOUS
          <5> QED BY <4>2, <5>1, <5>2
        <4> QED BY <4>1, <4>2
      <3> HIDE DEF old
      <3> QED BY <1>5, <3>1, <3>2
    <2>4. Entry(q, e, n) <=> \E j \in Slots : At(j)
      BY DEF Entry
    <2>5. Entry(p, d, n) <=> \E j \in Slots : Was(j)
      BY DEF Entry
    <2> HIDE DEF At, Was
    <2> QED BY <2>1, <2>2, <2>3, <2>4, <2>5
  <1> QED BY <1>1, <1>2, <1>4, <1>6 DEF Lists

-----------------------------------------------------------------------------
(* The loops of memcpy() calls: byte x of block i is byte                  *)
(* i * BlockSize + x of the file.                                          *)

LEMMA MinOfTwo ==
    ASSUME NEW a \in Int, NEW b \in Int
    PROVE  Min({a, b}) = IF a <= b THEN a ELSE b
  <1>1. CASE a <= b
    <2>1. a \in {a, b} /\ \A y \in {a, b} : a <= y
      BY <1>1
    <2>2. \A x \in {a, b} : (\A y \in {a, b} : x <= y) => x = a
      BY <1>1
    <2>3. Min({a, b}) = a
      BY <2>1, <2>2 DEF Min
    <2> QED BY <1>1, <2>3
  <1>2. CASE ~(a <= b)
    <2>1. b \in {a, b} /\ \A y \in {a, b} : b <= y
      BY <1>2
    <2>2. \A x \in {a, b} : (\A y \in {a, b} : x <= y) => x = b
      BY <1>2
    <2>3. Min({a, b}) = b
      BY <2>1, <2>2 DEF Min
    <2> QED BY <1>2, <2>3
  <1> QED BY <1>1, <1>2

\* The blocks that n bytes need.
LEMMA EnoughBlocks ==
    ASSUME NEW n \in Nat
    PROVE  /\ Blocks(n) \in Nat /\ n <= Blocks(n) * BlockSize
           /\ n > 0 => Blocks(n) > 0 /\ (Blocks(n) - 1) * BlockSize < n
  <1> DEFINE k == n \div BlockSize
             x == n % BlockSize
             B == BlockSize
  <1>1. k \in Nat /\ x \in Nat /\ x < B /\ n = k * B + x /\ B \in Nat /\ B > 0
    BY DiskSizes, Division
  <1>2. Blocks(n) = IF x = 0 THEN k ELSE k + 1
    BY <1>1 DEF Blocks
  <1> HIDE DEF k, x, B
  <1>3. k * B \in Nat /\ (k + 1) * B = k * B + B /\ (k - 1) * B = k * B - B /\ (k + 1) - 1 = k
        /\ (k = 0 => k * B = 0)
    BY <1>1
  <1>4. CASE x = 0
    <2>1. Blocks(n) = k
      BY <1>2, <1>4
    <2> QED BY <1>1, <1>3, <1>4, <2>1 DEF B
  <1>5. CASE x # 0
    <2>1. Blocks(n) = k + 1
      BY <1>2, <1>5
    <2> QED BY <1>1, <1>3, <1>5, <2>1 DEF B
  <1> QED BY <1>4, <1>5

\* The chunk c of block i, which is at byte m of the file.
ChunkAt(c, m, off, count) ==
  /\ c.at \in Int /\ c.n \in Int /\ c.from = m - off + c.at
  /\ c.at = IF m <= off THEN off - m ELSE 0
  /\ c.at + c.n = IF off + count <= m + BlockSize THEN off + count - m ELSE BlockSize

LEMMA FirstAt ==
    ASSUME NEW off \in Nat, NEW count \in Nat
    PROVE  ChunkAt(FirstChunk(off, count), (off \div BlockSize) * BlockSize, off, count)
  <1> DEFINE m == (off \div BlockSize) * BlockSize
             c == FirstChunk(off, count)
             x == off % BlockSize
  <1>1. m \in Nat /\ x \in Nat /\ off = m + x /\ x < BlockSize /\ BlockSize \in Nat
    BY DiskSizes, Division
  <1>2. c.at = x /\ c.from = 0 /\ c.n = Min({count, BlockSize - x})
    BY DEF FirstChunk
  <1> HIDE DEF c, m, x
  <1>3. c.n = IF count <= BlockSize - x THEN count ELSE BlockSize - x
    BY <1>1, <1>2, MinOfTwo
  <1>4. ChunkAt(c, m, off, count)
    BY <1>1, <1>2, <1>3 DEF ChunkAt
  <1> QED BY <1>4 DEF c, m

NextChunk(from, count) == [at |-> 0, from |-> from, n |-> Min({count - from, BlockSize})]

LEMMA NextAt ==
    ASSUME NEW off \in Nat, NEW count \in Nat, NEW m \in Nat, off < m
    PROVE  ChunkAt(NextChunk(m - off, count), m, off, count)
  <1> DEFINE c == NextChunk(m - off, count)
  <1>1. c.at = 0 /\ c.from = m - off /\ c.n = Min({count - (m - off), BlockSize})
    BY DEF NextChunk
  <1> HIDE DEF c
  <1>2. c.n = IF count - (m - off) <= BlockSize THEN count - (m - off) ELSE BlockSize
    BY <1>1, MinOfTwo, DiskSizes
  <1>3. ChunkAt(c, m, off, count)
    BY <1>1, <1>2, DiskSizes DEF ChunkAt
  <1> QED BY <1>3 DEF c

LEMMA EndOfChunk ==
    ASSUME NEW off \in Nat, NEW count \in Nat, NEW m \in Int, NEW c, ChunkAt(c, m, off, count),
           m + BlockSize < off + count
    PROVE  c.from + c.n = (m + BlockSize) - off
  BY DiskSizes DEF ChunkAt

ChunkLoop(f, off, count) ==
  f = [i \in off \div BlockSize .. Blocks(off + count) - 1 |->
         IF i = off \div BlockSize THEN FirstChunk(off, count)
         ELSE NextChunk(f[i - 1].from + f[i - 1].n, count)]

\* The blocks of a transfer: the first holds byte off, the others begin after it
\* and before its end.
LEMMA BlocksBetween ==
    ASSUME NEW off \in Nat, NEW count \in Nat, count > 0,
           NEW i \in off \div BlockSize .. Blocks(off + count) - 1
    PROVE  /\ i \in Nat /\ i * BlockSize \in Nat /\ i * BlockSize < off + count
           /\ (off \div BlockSize) * BlockSize <= off
           /\ i # off \div BlockSize => /\ i - 1 \in off \div BlockSize .. Blocks(off + count) - 1
                                        /\ off < i * BlockSize
                                        /\ (i - 1) * BlockSize + BlockSize = i * BlockSize
  <1> DEFINE s == off \div BlockSize
             t == Blocks(off + count)
             B == BlockSize
  <1>0. off + count \in Nat /\ off + count > 0
    OBVIOUS
  <1>1. s \in Nat /\ s * B <= off /\ off < s * B + B /\ s * B \in Nat /\ B \in Nat
    BY DiskSizes, Division
  <1>2. t \in Nat /\ (t - 1) * B < off + count
    BY <1>0, EnoughBlocks
  <1>3. i \in s .. t - 1
    OBVIOUS
  <1> HIDE DEF s, t, B
  <1>4. i \in Nat /\ i * B \in Nat /\ (t - 1) * B \in Int
    BY <1>1, <1>2, <1>3
  <1>5. i * B < off + count
    <2>1. CASE i = t - 1
      BY <1>2, <2>1
    <2>2. CASE i < t - 1
      <3>1. i * B + B <= (t - 1) * B
        BY <1>1, <1>2, <1>4, <2>2, LessTimes
      <3> QED BY <1>1, <1>2, <1>4, <3>1
    <2> QED BY <1>2, <1>3, <1>4, <2>1, <2>2
  <1>6. ASSUME i # s PROVE i - 1 \in s .. t - 1 /\ off < i * B /\ (i - 1) * B + B = i * B
    <2>1. s < i
      BY <1>1, <1>3, <1>4, <1>6
    <2>2. s * B + B <= i * B
      BY <1>1, <1>4, <2>1, LessTimes
    <2>3. (i - 1) * B + B = i * B
      BY <1>1, <1>4
    <2> QED BY <1>1, <1>2, <1>3, <1>4, <2>1, <2>2, <2>3
  <1> QED BY <1>1, <1>4, <1>5, <1>6 DEF s, t, B

LEMMA ChunkLoopExists ==
    ASSUME NEW off \in Nat, NEW count \in Nat, count > 0
    PROVE  \E f : ChunkLoop(f, off, count)
  <1> DEFINE s == off \div BlockSize
             D == s .. Blocks(off + count) - 1
             f == [i \in D |-> IF i = s THEN FirstChunk(off, count)
                               ELSE NextChunk(i * BlockSize - off, count)]
  <1>1. ASSUME NEW i \in D PROVE ChunkAt(f[i], i * BlockSize, off, count)
    <2>1. CASE i = s
      BY <2>1, FirstAt
    <2>2. CASE i # s
      <3>1. i * BlockSize \in Nat /\ off < i * BlockSize
        BY <2>2, BlocksBetween
      <3>2. ChunkAt(NextChunk(i * BlockSize - off, count), i * BlockSize, off, count)
        BY <3>1, NextAt
      <3> QED BY <2>2, <3>2
    <2> QED BY <2>1, <2>2
  <1>2. ASSUME NEW i \in D, i # s PROVE f[i - 1].from + f[i - 1].n = i * BlockSize - off
    <2>1. /\ i - 1 \in D /\ (i - 1) * BlockSize + BlockSize = i * BlockSize /\ i * BlockSize < off + count
      BY <1>2, BlocksBetween
    <2>2. (i - 1) * BlockSize \in Int
      <3>1. i - 1 \in Nat
        BY <2>1, BlocksBetween
      <3> QED BY <3>1, DiskSizes
    <2>3. ChunkAt(f[i - 1], (i - 1) * BlockSize, off, count)
      BY <1>1, <2>1
    <2> HIDE DEF f
    <2> QED BY <2>1, <2>2, <2>3, EndOfChunk
  <1>3. ASSUME NEW i \in D
        PROVE  f[i] = IF i = s THEN FirstChunk(off, count)
                      ELSE NextChunk(f[i - 1].from + f[i - 1].n, count)
    <2>1. CASE i = s
      BY <2>1
    <2>2. CASE i # s
      <3>1. f[i] = NextChunk(i * BlockSize - off, count)
        BY <2>2
      <3> HIDE DEF f
      <3> QED BY <1>2, <2>2, <3>1
    <2> QED BY <2>1, <2>2
  <1>4. f = [i \in D |-> f[i]]
    OBVIOUS
  <1> HIDE DEF f
  <1>5. ChunkLoop(f, off, count)
    BY <1>3, <1>4 DEF ChunkLoop
  <1> QED BY <1>5

LEMMA ChunksAre ==
    ASSUME NEW off \in Nat, NEW count \in Nat, count > 0, NEW c, c = Chunks(off, count)
    PROVE  /\ DOMAIN c = off \div BlockSize .. Blocks(off + count) - 1
           /\ \A i \in DOMAIN c : ChunkAt(c[i], i * BlockSize, off, count)
  <1> DEFINE s == off \div BlockSize
             D == s .. Blocks(off + count) - 1
             f == CHOOSE f : ChunkLoop(f, off, count)
             T == {i \in D : ~ChunkAt(f[i], i * BlockSize, off, count)}
  <1>1. c = f
    BY DEF Chunks, ChunkLoop, NextChunk
  <1>2. ChunkLoop(f, off, count)
    BY ChunkLoopExists
  <1> HIDE DEF f
  <1>3. DOMAIN f = D /\ \A i \in D : f[i] = IF i = s THEN FirstChunk(off, count)
                                            ELSE NextChunk(f[i - 1].from + f[i - 1].n, count)
    BY <1>2 DEF ChunkLoop
  <1>4. ASSUME T # {} PROVE FALSE
    <2>0. T \subseteq Nat
      BY BlocksBetween
    <2>1. PICK i \in T : \A j \in T : i <= j
      <3> HIDE DEF T
      <3> QED BY <1>4, <2>0, Lowest
    <2>2. i \in D /\ ~ChunkAt(f[i], i * BlockSize, off, count) /\ i \in Nat
      BY <2>0, <2>1
    <2>3. i # s
      BY <1>3, <2>2, FirstAt
    <2>4. /\ i - 1 \in D /\ (i - 1) * BlockSize + BlockSize = i * BlockSize /\ i * BlockSize < off + count
          /\ i * BlockSize \in Nat /\ off < i * BlockSize
      BY <2>2, <2>3, BlocksBetween
    <2>5. ChunkAt(f[i - 1], (i - 1) * BlockSize, off, count)
      BY <2>1, <2>2, <2>4
    <2>6. (i - 1) * BlockSize \in Int
      BY <2>2, DiskSizes
    <2>7. f[i - 1].from + f[i - 1].n = i * BlockSize - off
      BY <2>4, <2>5, <2>6, EndOfChunk
    <2>8. f[i] = NextChunk(i * BlockSize - off, count)
      BY <1>3, <2>2, <2>3, <2>7
    <2> QED BY <2>2, <2>4, <2>8, NextAt
  <1> QED BY <1>1, <1>3, <1>4

\* What a chunk covers of block i.
LEMMA ChunkCovers ==
    ASSUME NEW off \in Nat, NEW count \in Nat, NEW m \in Nat, NEW c, ChunkAt(c, m, off, count),
           NEW x \in 0 .. BlockSize - 1
    PROVE  /\ x \in c.at .. c.at + c.n - 1 <=> m + x \in off .. off + count - 1
           /\ c.from + x - c.at = (m + x) - off
  <1>1. x \in Nat /\ x < BlockSize /\ BlockSize \in Nat
    BY DiskSizes
  <1> QED BY <1>1 DEF ChunkAt

\* Bytes before the first and behind the last block are not in the transfer.
LEMMA OutsideChunks ==
    ASSUME NEW off \in Nat, NEW count \in Nat, count > 0, NEW i \in Nat, NEW x \in 0 .. BlockSize - 1,
           i * BlockSize + x \in off .. off + count - 1
    PROVE  i \in off \div BlockSize .. Blocks(off + count) - 1
  <1> DEFINE s == off \div BlockSize
             t == Blocks(off + count)
             B == BlockSize
  <1>0. off + count \in Nat /\ off + count > 0
    OBVIOUS
  <1>1. s \in Nat /\ s * B <= off /\ s * B \in Nat /\ B \in Nat /\ x \in Nat /\ x < B
    BY DiskSizes, Division
  <1>2. t \in Nat /\ off + count <= t * B /\ t * B \in Nat
    BY <1>0, EnoughBlocks, DiskSizes
  <1>3. i * B \in Nat /\ off <= i * B + x /\ i * B + x < off + count
    BY <1>1
  <1> HIDE DEF s, t, B
  <1>4. ~(i < s)
    <2> SUFFICES ASSUME i < s PROVE FALSE
      OBVIOUS
    <2>1. i * B + B <= s * B
      BY <1>1, LessTimes
    <2> QED BY <1>1, <1>3, <2>1
  <1>5. i < t
    <2> SUFFICES ASSUME ~(i < t) PROVE FALSE
      OBVIOUS
    <2>1. i = t \/ t < i
      BY <1>2
    <2>2. t < i => t * B + B <= i * B
      BY <1>1, <1>2, LessTimes
    <2>3. t * B <= i * B
      BY <1>1, <1>2, <1>3, <2>1, <2>2
    <2> QED BY <1>1, <1>2, <1>3, <2>3
  <1>6. i \in s .. t - 1
    BY <1>1, <1>2, <1>4, <1>5
  <1> QED BY <1>6 DEF s, t

\* The blocks after a write: the bytes written, and all others as they were.
LEMMA CopiedBytes ==
    ASSUME NEW nd, NEW d, NodeOK(nd, d), NEW off \in Nat, NEW count \in Nat, count > 0, NEW w,
           Blocks(off + count) <= NUM_DIRECT_BLOCKS + NUM_INDIRECT_BLOCKS,
           \A i \in Slots : i < Blocks(off + count) => Has(nd, d, i),
           NEW e, e = Copied(nd, d, off, count, w)
    PROVE  /\ Rewrites(nd, d, e)
           /\ \A i \in Slots : Has(nd, d, i) =>
                \A x \in 0 .. BlockSize - 1 :
                   e[BlockOf(nd, d, i)][x] =
                      IF i * BlockSize + x \in off .. off + count - 1
                      THEN <<w, (i * BlockSize + x) - off>> ELSE d[BlockOf(nd, d, i)][x]
  <1> DEFINE ch == Chunks(off, count)
             D == off \div BlockSize .. Blocks(off + count) - 1
             Pick(blk) == CHOOSE i \in DOMAIN ch : BlockOf(nd, d, i) = blk
  <1>1. DOMAIN ch = D /\ \A i \in DOMAIN ch : ChunkAt(ch[i], i * BlockSize, off, count)
    BY ChunksAre
  <1>2. ASSUME NEW i \in D PROVE i \in Slots /\ Has(nd, d, i) /\ i * BlockSize \in Nat
    <2>1. i \in Nat /\ i * BlockSize \in Nat /\ i < Blocks(off + count)
      <3>1. off + count \in Nat
        OBVIOUS
      <3>2. i \in Nat /\ i * BlockSize \in Nat
        BY BlocksBetween
      <3>3. Blocks(off + count) \in Nat
        BY <3>1, EnoughBlocks
      <3>4. i \in off \div BlockSize .. Blocks(off + count) - 1
        OBVIOUS
      <3>5. off \div BlockSize \in Nat
        BY DiskSizes, Division
      <3> QED BY <3>2, <3>3, <3>4, <3>5
    <2>2. i \in Slots
      <3>1. off + count \in Nat
        OBVIOUS
      <3>2. Blocks(off + count) \in Nat
        BY <3>1, EnoughBlocks
      <3> QED BY <2>1, <3>2, DiskSizes DEF Slots
    <2> QED BY <2>1, <2>2
  <1>3. ASSUME NEW i \in D, NEW j \in Slots, Has(nd, d, j), BlockOf(nd, d, i) = BlockOf(nd, d, j)
        PROVE  i = j
    BY <1>2, <1>3 DEF NodeOK, Linked
  <1> HIDE DEF ch, D
  <1>4. e = [blk \in DOMAIN d |->
               IF \E i \in DOMAIN ch : BlockOf(nd, d, i) = blk
               THEN [x \in 0 .. BlockSize - 1 |->
                       IF x \in ch[Pick(blk)].at .. ch[Pick(blk)].at + ch[Pick(blk)].n - 1
                       THEN <<w, ch[Pick(blk)].from + x - ch[Pick(blk)].at>> ELSE d[blk][x]]
               ELSE d[blk]]
    BY DEF Copied, ch
  <1>5. ASSUME NEW j \in D
        PROVE  /\ BlockOf(nd, d, j) \in DOMAIN d
               /\ e[BlockOf(nd, d, j)] =
                    [x \in 0 .. BlockSize - 1 |->
                       IF x \in ch[j].at .. ch[j].at + ch[j].n - 1
                       THEN <<w, ch[j].from + x - ch[j].at>> ELSE d[BlockOf(nd, d, j)][x]]
    <2> DEFINE blk == BlockOf(nd, d, j)
    <2>1. blk \in DOMAIN d
      BY <1>2 DEF NodeOK, Linked
    <2>2. \E i \in DOMAIN ch : BlockOf(nd, d, i) = blk
      BY <1>1
    <2>3. Pick(blk) \in DOMAIN ch /\ BlockOf(nd, d, Pick(blk)) = blk
      <3> HIDE DEF blk
      <3> QED BY <2>2
    <2>4. Pick(blk) = j
      <3> HIDE DEF Pick
      <3>1. Pick(blk) \in D /\ BlockOf(nd, d, Pick(blk)) = BlockOf(nd, d, j)
        BY <1>1, <2>3
      <3>2. j \in Slots /\ Has(nd, d, j)
        BY <1>2
      <3> QED BY <1>3, <3>1, <3>2
    <2> HIDE DEF Pick, blk
    <2>5. e[blk] = [x \in 0 .. BlockSize - 1 |->
                       IF x \in ch[j].at .. ch[j].at + ch[j].n - 1
                       THEN <<w, ch[j].from + x - ch[j].at>> ELSE d[blk][x]]
      BY <1>4, <2>1, <2>2, <2>4
    <2> QED BY <2>1, <2>5 DEF blk
  <1>6. ASSUME NEW blk \in DOMAIN d, \A i \in D : BlockOf(nd, d, i) # blk PROVE e[blk] = d[blk]
    <2>1. ~\E i \in DOMAIN ch : BlockOf(nd, d, i) = blk
      BY <1>1, <1>6
    <2> HIDE DEF Pick
    <2> QED BY <1>4, <2>1
  <1>7. Rewrites(nd, d, e)
    <2>1. DOMAIN e = DOMAIN d
      BY <1>4
    <2> QED BY <1>2, <1>6, <2>1 DEF Rewrites
  <1>8. ASSUME NEW i \in Slots, Has(nd, d, i), NEW x \in 0 .. BlockSize - 1
        PROVE  e[BlockOf(nd, d, i)][x] =
                  IF i * BlockSize + x \in off .. off + count - 1
                  THEN <<w, (i * BlockSize + x) - off>> ELSE d[BlockOf(nd, d, i)][x]
    <2>1. CASE i \in D
      <3> DEFINE m == i * BlockSize
      <3>1. m \in Nat /\ ChunkAt(ch[i], m, off, count)
        BY <1>1, <1>2, <2>1
      <3> HIDE DEF m
      <3>2. /\ x \in ch[i].at .. ch[i].at + ch[i].n - 1 <=> m + x \in off .. off + count - 1
            /\ ch[i].from + x - ch[i].at = (m + x) - off
        BY <3>1, ChunkCovers
      <3>3. e[BlockOf(nd, d, i)][x] = IF x \in ch[i].at .. ch[i].at + ch[i].n - 1
                       THEN <<w, ch[i].from + x - ch[i].at>> ELSE d[BlockOf(nd, d, i)][x]
        BY <1>5, <2>1
      <3>4. e[BlockOf(nd, d, i)][x] = IF m + x \in off .. off + count - 1
                       THEN <<w, (m + x) - off>> ELSE d[BlockOf(nd, d, i)][x]
        BY <3>2, <3>3
      <3> QED BY <3>4 DEF m
    <2>2. CASE i \notin D
      <3>1. i \in Nat
        BY DEF Slots
      <3>2. ~(i * BlockSize + x \in off .. off + count - 1)
        BY <2>2, <3>1, OutsideChunks DEF D
      <3>3. BlockOf(nd, d, i) \in DOMAIN d
        BY <1>8 DEF NodeOK, Linked
      <3>4. \A j \in D : BlockOf(nd, d, j) # BlockOf(nd, d, i)
        BY <1>3, <1>8, <2>2
      <3>5. e[BlockOf(nd, d, i)] = d[BlockOf(nd, d, i)]
        BY <1>6, <3>3, <3>4
      <3> QED BY <3>2, <3>5
    <2> QED BY <2>1, <2>2
  <1> QED BY <1>7, <1>8

-----------------------------------------------------------------------------
(* What the files hold: w are the bytes last written.                      *)

Bytes(nd, d, w) ==
  \A b \in DOMAIN w : /\ b \in Nat /\ b \div BlockSize \in Slots /\ Has(nd, d, b \div BlockSize)
                      /\ d[BlockOf(nd, d, b \div BlockSize)][b % BlockSize] = w[b]

LEMMA BytesUntouched ==
    ASSUME NEW nd, NEW d, NEW e, NEW w, Bytes(nd, d, w), Untouched(nd, d, e)
    PROVE  Bytes(nd, e, w)
  <1> SUFFICES ASSUME NEW b \in DOMAIN w
               PROVE  /\ b \in Nat /\ b \div BlockSize \in Slots /\ Has(nd, e, b \div BlockSize)
                      /\ e[BlockOf(nd, e, b \div BlockSize)][b % BlockSize] = w[b]
    BY DEF Bytes
  <1> DEFINE i == b \div BlockSize
  <1>1. b \in Nat /\ i \in Slots /\ Has(nd, d, i) /\ d[BlockOf(nd, d, i)][b % BlockSize] = w[b]
    BY DEF Bytes
  <1> HIDE DEF i
  <1>2. Has(nd, e, i) /\ BlockOf(nd, e, i) = BlockOf(nd, d, i) /\ e[BlockOf(nd, d, i)] = d[BlockOf(nd, d, i)]
    BY <1>1 DEF Untouched
  <1>3. b \in Nat /\ i \in Slots /\ Has(nd, e, i) /\ e[BlockOf(nd, e, i)][b % BlockSize] = w[b]
    BY <1>1, <1>2
  <1> QED BY <1>3 DEF i

LEMMA BytesExtended ==
    ASSUME NEW nd, NEW d, NEW ne, NEW e, NEW w, Bytes(nd, d, w), Extends(nd, d, ne, e)
    PROVE  Bytes(ne, e, w)
  <1> SUFFICES ASSUME NEW b \in DOMAIN w
               PROVE  /\ b \in Nat /\ b \div BlockSize \in Slots /\ Has(ne, e, b \div BlockSize)
                      /\ e[BlockOf(ne, e, b \div BlockSize)][b % BlockSize] = w[b]
    BY DEF Bytes
  <1> DEFINE i == b \div BlockSize
  <1>1. b \in Nat /\ i \in Slots /\ Has(nd, d, i) /\ d[BlockOf(nd, d, i)][b % BlockSize] = w[b]
    BY DEF Bytes
  <1> HIDE DEF i
  <1>2. Has(ne, e, i) /\ BlockOf(ne, e, i) = BlockOf(nd, d, i) /\ e[BlockOf(nd, d, i)] = d[BlockOf(nd, d, i)]
    BY <1>1 DEF Extends
  <1>3. b \in Nat /\ i \in Slots /\ Has(ne, e, i) /\ e[BlockOf(ne, e, i)][b % BlockSize] = w[b]
    BY <1>1, <1>2
  <1> QED BY <1>3 DEF i

\* The bytes last written after the k-th write.
Overlaid(w, off, count, k) ==
  [b \in DOMAIN w \cup (off .. off + count - 1) |->
     IF b \in off .. off + count - 1 THEN <<k, b - off>> ELSE w[b]]

LEMMA BytesWritten ==
    ASSUME NEW nd, NEW d, NodeOK(nd, d), DOMAIN d \subseteq DataBlocks, Prefix(nd, d),
           NEW off \in Nat, NEW count \in Nat, count > 0, NEW k, NEW w, Bytes(nd, d, w),
           Blocks(off + count) <= NUM_DIRECT_BLOCKS + NUM_INDIRECT_BLOCKS,
           Has(nd, d, Blocks(off + count) - 1),
           NEW e, e = Copied(nd, d, off, count, k),
           NEW s \in Nat, NEW ne, ne = [nd EXCEPT !.size = s]
    PROVE  /\ Moves(nd, d, ne, e) /\ Prefix(ne, e) /\ ne.size = s
           /\ Bytes(ne, e, Overlaid(w, off, count, k))
  <1> DEFINE t == Blocks(off + count)
             r == off .. off + count - 1
             v == Overlaid(w, off, count, k)
  <1>0. t \in Nat /\ t > 0 /\ t - 1 \in Slots
    <2>1. off + count \in Nat /\ off + count > 0
      OBVIOUS
    <2>2. t \in Nat /\ t > 0
      BY <2>1, EnoughBlocks
    <2> QED BY <2>2, DiskSizes DEF Slots
  <1>1. \A i \in Slots : i < t => Has(nd, d, i)
    <2> SUFFICES ASSUME NEW i \in Slots, i < t PROVE Has(nd, d, i)
      OBVIOUS
    <2>1. i <= t - 1
      BY <1>0 DEF Slots
    <2> HIDE DEF t
    <2>2. Has(nd, d, t - 1)
      BY DEF t
    <2> QED BY <1>0, <2>1, <2>2 DEF Prefix
  <1>2. /\ Rewrites(nd, d, e)
        /\ \A i \in Slots : Has(nd, d, i) =>
             \A x \in 0 .. BlockSize - 1 :
               e[BlockOf(nd, d, i)][x] = IF i * BlockSize + x \in r
                                         THEN <<k, (i * BlockSize + x) - off>> ELSE d[BlockOf(nd, d, i)][x]
    BY <1>1, CopiedBytes
  <1>3. /\ Moves(nd, d, ne, e) /\ ne.size = s
        /\ \A j \in Slots : /\ Has(ne, e, j) <=> Has(nd, d, j)
                            /\ Has(nd, d, j) => BlockOf(ne, e, j) = BlockOf(nd, d, j)
    BY <1>2, SameLinks
  <1>4. Prefix(ne, e)
    BY <1>3 DEF Prefix
  <1>5. DOMAIN v = DOMAIN w \cup r /\ \A b \in DOMAIN v : v[b] = IF b \in r THEN <<k, b - off>> ELSE w[b]
    BY DEF Overlaid
  <1>6. ASSUME NEW b \in DOMAIN v
        PROVE  /\ b \in Nat /\ b \div BlockSize \in Slots /\ Has(ne, e, b \div BlockSize)
               /\ e[BlockOf(ne, e, b \div BlockSize)][b % BlockSize] = v[b]
    <2> DEFINE i == b \div BlockSize
               x == b % BlockSize
    <2>1. b \in Nat
      <3>1. \A y \in r : y \in Nat
        OBVIOUS
      <3> QED BY <1>5, <3>1 DEF Bytes
    <2>2. i \in Nat /\ x \in 0 .. BlockSize - 1 /\ b = i * BlockSize + x
      BY <2>1, DiskSizes, Division
    <2>3. i \in Slots /\ Has(nd, d, i)
      <3>1. CASE b \in r
        <4>1. i * BlockSize + x \in r
          BY <2>2, <3>1
        <4> HIDE DEF i, x
        <4>2. i \in off \div BlockSize .. t - 1
          BY <2>2, <4>1, OutsideChunks
        <4>3. i < t
          <5>1. off \div BlockSize \in Nat
            BY DiskSizes, Division
          <5> HIDE DEF t
          <5> QED BY <1>0, <4>2, <5>1
        <4>4. i \in Slots
          BY <1>0, <2>2, <4>3, DiskSizes DEF Slots
        <4> QED BY <1>1, <4>3, <4>4
      <3>2. CASE b \notin r
        BY <1>5, <3>2 DEF Bytes
      <3> QED BY <3>1, <3>2
    <2>4. b \notin r => d[BlockOf(nd, d, i)][x] = w[b]
      BY <1>5 DEF Bytes
    <2> HIDE DEF i, x, r, v
    <2>5. e[BlockOf(nd, d, i)][x] = IF b \in r THEN <<k, b - off>> ELSE d[BlockOf(nd, d, i)][x]
      BY <1>2, <2>2, <2>3
    <2>6. e[BlockOf(nd, d, i)][x] = v[b]
      BY <1>5, <2>4, <2>5
    <2>7. b \in Nat /\ i \in Slots /\ Has(ne, e, i) /\ e[BlockOf(ne, e, i)][x] = v[b]
      BY <1>3, <2>1, <2>3, <2>6
    <2> QED BY <2>7 DEF i, x
  <1>7. Bytes(ne, e, v)
    <2> HIDE DEF v
    <2> QED BY <1>6 DEF Bytes
  <1> QED BY <1>3, <1>4, <1>7

-----------------------------------------------------------------------------
(* The inductive invariant of minixfs.                                     *)

Holding(f, d, w, ap) ==
  /\ DOMAIN w = DOMAIN f
  /\ \A n \in DOMAIN f : Bytes(f[n], d, w[n]) /\ (n \in ap => DOMAIN w[n] = 0 .. f[n].size - 1)
Listing(p, d, N) == stray \/ Lists(p, d, N)

MinixfsInv == /\ Sound(inode, parent, data) /\ DOMAIN inode \subseteq Names
              /\ Listing(parent, data, DOMAIN inode)
              /\ Holding(inode, data, written, appended)

LEMMA NoDomain == DOMAIN << >> = {}
  OBVIOUS

LEMMA MinixfsStart == Init => MinixfsInv
  <1> SUFFICES ASSUME Init PROVE MinixfsInv
    OBVIOUS
  <1>1. /\ DOMAIN inode = {} /\ parent = NoBlocks /\ DOMAIN data = {} /\ DOMAIN written = {}
    BY NoDomain DEF Init
  <1>2. Sound(inode, parent, data)
    BY <1>1, NewNode DEF Sound
  <1>3. Lists(parent, data, DOMAIN inode)
    <2>1. \A i \in Slots : ~Has(parent, data, i)
      BY <1>1, NewNode
    <2>2. parent.size = 0 /\ \A i \in Slots : ~(i * EntriesPerBlock < 0)
      <3>1. \A i \in Slots : i \in Nat
        BY DEF Slots
      <3> QED BY <1>1, <3>1, NewNode, DiskSizes
    <2>3. IsFiniteSet(DOMAIN inode) /\ Cardinality(DOMAIN inode) = 0
      BY <1>1, FS_EmptySet
    <2> QED BY <1>1, <2>1, <2>2, <2>3 DEF Lists, Entry
  <1> QED BY <1>1, <1>2, <1>3 DEF MinixfsInv, Listing, Holding

\* The directory and the disk once minixfs_write has the file's inode.
LEMMA AfterCreation ==
    ASSUME MinixfsInv, NEW name \in Names, NEW made, made = Created(name),
           NEW isnew \in BOOLEAN, isnew <=> name \notin DOMAIN inode,
           isnew => parent.size < MaxEntries /\ ~made.stray,
           NEW p, p = IF isnew THEN made.parent ELSE parent,
           NEW d, d = IF isnew THEN made.data ELSE data,
           stray' = stray
    PROVE  /\ Sound(inode, p, d) /\ Holding(inode, d, written, appended)
           /\ isnew /\ ~made.ok => stray' \/ Lists(p, d, DOMAIN inode)
           /\ (isnew => made.ok) => stray' \/ Lists(p, d, DOMAIN inode \cup {name})
  <1>0. Sound(inode, parent, data) /\ NodeOK(parent, data) /\ DOMAIN data \subseteq DataBlocks
    BY DEF MinixfsInv, Sound
  <1>1. CASE isnew
    <2> DEFINE i == parent.size \div EntriesPerBlock
    <2>1. /\ i \in Slots /\ Moves(parent, data, made.parent, made.data)
          /\ made.stray \in BOOLEAN /\ made.ok \in BOOLEAN
          /\ ~made.ok => ~made.stray /\ Same(parent, data, made.parent, made.data)
          /\ made.ok /\ ~made.stray => Entered(parent, data, made.parent, made.data, i, name)
      BY <1>0, <1>1, CreatedEntry
    <2>2. p = made.parent /\ d = made.data
      BY <1>1
    <2>3. Sound(inode, p, d) /\ \A n \in DOMAIN inode : Untouched(inode[n], data, d)
      BY <1>0, <2>1, <2>2, SoundDirectory
    <2>4. Holding(inode, d, written, appended)
      BY <2>3, BytesUntouched DEF MinixfsInv, Holding
    <2>5. parent.size \in Nat
      BY <1>0 DEF NodeOK, NodeType
    <2>6. ASSUME ~made.ok PROVE stray' \/ Lists(p, d, DOMAIN inode)
      <3>1. Same(parent, data, p, d)
        BY <2>1, <2>2, <2>6
      <3>2. Lists(parent, data, DOMAIN inode) => Lists(p, d, DOMAIN inode)
        BY <3>1, ListsSame
      <3> QED BY <3>2 DEF MinixfsInv, Listing
    <2>7. ASSUME made.ok PROVE stray' \/ Lists(p, d, DOMAIN inode \cup {name})
      <3>1. Entered(parent, data, p, d, i, name)
        BY <1>1, <2>1, <2>2, <2>7
      <3>2. stray \/ Lists(parent, data, DOMAIN inode)
        BY DEF MinixfsInv, Listing
      <3>3. CASE Lists(parent, data, DOMAIN inode)
        BY <1>1, <2>1, <2>5, <3>1, <3>3, ListsEntered
      <3>4. CASE stray
        BY <3>4
      <3> QED BY <3>2, <3>3, <3>4
    <2> QED BY <1>1, <2>3, <2>4, <2>6, <2>7
  <1>2. CASE ~isnew
    <2>1. p = parent /\ d = data /\ name \in DOMAIN inode
      BY <1>2
    <2>2. DOMAIN inode \cup {name} = DOMAIN inode
      BY <2>1
    <2>3. stray => stray'
      BY <1>2
    <2> QED BY <1>0, <1>2, <2>1, <2>2, <2>3 DEF MinixfsInv, Listing
  <1> QED BY <1>1, <1>2

\* The file gets blocks and bytes: the others and the directory do not change.
FileWritten(f, p, d, w, ap, name, nd, ne, e, v, aq, g, x) ==
  /\ Sound(f, p, d) /\ Holding(f, d, w, ap)
  /\ nd = IF name \notin DOMAIN f THEN NoBlocks ELSE f[name]
  /\ Moves(nd, d, ne, e) /\ Prefix(ne, e) /\ Bytes(ne, e, v)
  /\ aq \subseteq ap /\ (name \in aq => DOMAIN v = 0 .. ne.size - 1)
  /\ g = With(f, name, ne)
  /\ DOMAIN x = DOMAIN f \cup {name} /\ x[name] = v /\ \A m \in DOMAIN f : m # name => x[m] = w[m]

FileDone(f, p, d, name, e, aq, g, x) ==
  /\ Sound(g, p, e) /\ Holding(g, e, x, aq) /\ DOMAIN g = DOMAIN f \cup {name}
  /\ \A N : Lists(p, d, N) => Lists(p, e, N)

LEMMA AfterWriting ==
    ASSUME NEW f, NEW p, NEW d, NEW w, NEW ap, NEW name, NEW nd, NEW ne, NEW e, NEW v, NEW aq, NEW g, NEW x,
           FileWritten(f, p, d, w, ap, name, nd, ne, e, v, aq, g, x)
    PROVE  FileDone(f, p, d, name, e, aq, g, x)
  <1>0. /\ Sound(f, p, d) /\ Holding(f, d, w, ap)
        /\ nd = IF name \notin DOMAIN f THEN NoBlocks ELSE f[name]
        /\ Moves(nd, d, ne, e) /\ Prefix(ne, e) /\ Bytes(ne, e, v)
        /\ aq \subseteq ap /\ (name \in aq => DOMAIN v = 0 .. ne.size - 1)
        /\ g = With(f, name, ne)
        /\ DOMAIN x = DOMAIN f \cup {name} /\ x[name] = v /\ \A m \in DOMAIN f : m # name => x[m] = w[m]
    BY DEF FileWritten
  <1> USE <1>0
  <1>1. Mine(f, p, d, name, nd)
    BY MineOld
  <1>2. /\ Sound(g, p, e) /\ Untouched(p, d, e) /\ DOMAIN g = DOMAIN f \cup {name} /\ g[name] = ne
        /\ \A m \in DOMAIN f : m # name => g[m] = f[m] /\ Untouched(f[m], d, e)
    <2>1. FileMoves(f, p, d, name, nd, ne, e, g)
      BY <1>1 DEF FileMoves
    <2>2. FileMoved(f, p, d, name, ne, e, g)
      BY ONLY <2>1, SoundFile
    <2> QED BY ONLY <2>2 DEF FileMoved
  <1>3. Same(p, d, p, e)
    BY <1>2 DEF Same, Untouched
  <1>4. /\ DOMAIN x = DOMAIN f \cup {name} /\ x[name] = v
        /\ \A m \in DOMAIN f : m # name => x[m] = w[m]
    OBVIOUS
  <1>5. ASSUME NEW n \in DOMAIN g
        PROVE  Bytes(g[n], e, x[n]) /\ (n \in aq => DOMAIN x[n] = 0 .. g[n].size - 1)
    <2>1. CASE n = name
      BY <1>2, <1>4, <2>1
    <2>2. CASE n # name
      <3>1. n \in DOMAIN f /\ g[n] = f[n] /\ x[n] = w[n] /\ Untouched(f[n], d, e)
        BY <1>2, <1>4, <2>2
      <3>2. Bytes(f[n], d, w[n]) /\ (n \in ap => DOMAIN w[n] = 0 .. f[n].size - 1)
        BY <3>1 DEF Holding
      <3>3. Bytes(f[n], e, w[n])
        BY <3>1, <3>2, BytesUntouched
      <3> QED BY <3>1, <3>2, <3>3
    <2> QED BY <2>1, <2>2
  <1>6. Holding(g, e, x, aq)
    BY <1>2, <1>4, <1>5 DEF Holding
  <1>7. \A N : Lists(p, d, N) => Lists(p, e, N)
    BY <1>3, ListsSame
  <1> QED BY <1>2, <1>6, <1>7 DEF FileDone

\* What is known of the inode minixfs_write starts from.
LEMMA OldInode ==
    ASSUME NEW f, NEW p, NEW d, Sound(f, p, d), NEW w, NEW ap, Holding(f, d, w, ap), NEW name, NEW nd,
           nd = IF name \notin DOMAIN f THEN NoBlocks ELSE f[name],
           NEW past, past = IF name \notin DOMAIN f THEN << >> ELSE w[name]
    PROVE  /\ NodeOK(nd, d) /\ Prefix(nd, d) /\ nd.size \in Nat /\ Bytes(nd, d, past)
           /\ name \in ap => DOMAIN past = 0 .. nd.size - 1
  <1>1. Mine(f, p, d, name, nd) /\ Prefix(nd, d)
    BY MineOld
  <1>2. NodeOK(nd, d)
    BY <1>1 DEF Mine
  <1>3. nd.size \in Nat
    BY <1>2 DEF NodeOK, NodeType
  <1>4. CASE name \notin DOMAIN f
    <2>1. DOMAIN past = {} /\ nd.size = 0
      BY <1>4, NoDomain, NewNode
    <2>2. 0 .. 0 - 1 = {}
      OBVIOUS
    <2> QED BY <1>1, <1>2, <1>3, <2>1, <2>2 DEF Bytes
  <1>5. CASE name \in DOMAIN f
    BY <1>1, <1>2, <1>3, <1>5 DEF Holding
  <1> QED BY <1>4, <1>5

LEMMA WriteStep ==
    ASSUME MinixfsInv, NEW name \in Names, NEW off \in Nat, NEW count \in Nat, count > 0,
           minixfs_write(name, off, count)
    PROVE  MinixfsInv'
  <1> DEFINE isnew == name \notin DOMAIN inode
             made == Created(name)
             p == IF isnew THEN made.parent ELSE parent
             d == IF isnew THEN made.data ELSE data
             total == Blocks(off + count)
             old == IF isnew THEN NoBlocks ELSE inode[name]
             past == IF isnew THEN << >> ELSE written[name]
             fits == total <= NUM_DIRECT_BLOCKS + NUM_INDIRECT_BLOCKS
             fs == IF fits THEN MinBlockcount([node |-> old, data |-> d], total)
                   ELSE [node |-> old, data |-> d]
             enough == fits /\ Has(fs.node, fs.data, total - 1)
  <1>1. /\ isnew => parent.size < MaxEntries /\ ~made.stray
        /\ parent' = p /\ stray' = stray
    BY DEF minixfs_write
  <1>2. \/ isnew /\ ~made.ok /\ data' = d /\ UNCHANGED <<inode, written, appended>>
        \/ /\ isnew => made.ok
           /\ data' = fs.data /\ inode' = With(inode, name, fs.node)
           /\ written' = (IF isnew THEN With(written, name, << >>) ELSE written) /\ appended' = appended
        \/ /\ (isnew => made.ok) /\ enough
           /\ data' = Copied(fs.node, fs.data, off, count, writes + 1)
           /\ inode' = With(inode, name, [fs.node EXCEPT !.size = @ + count])
           /\ written' = With(written, name, Overlaid(past, off, count, writes + 1))
           /\ appended' = IF off = old.size THEN appended ELSE appended \ {name}
    BY DEF minixfs_write, Overlaid
  <1>3. total \in Nat
    <2>1. off + count \in Nat
      OBVIOUS
    <2> QED BY <2>1, EnoughBlocks
  <1> HIDE DEF made
  <1>4. /\ Sound(inode, p, d) /\ Holding(inode, d, written, appended)
        /\ isnew /\ ~made.ok => stray' \/ Lists(p, d, DOMAIN inode)
        /\ (isnew => made.ok) => stray' \/ Lists(p, d, DOMAIN inode \cup {name})
    <2>1. isnew \in BOOLEAN
      OBVIOUS
    <2>2. made = Created(name)
      BY DEF made
    <2> QED BY <1>1, <2>1, <2>2, AfterCreation
  <1> HIDE DEF p, d
  <1>5. /\ NodeOK(old, d) /\ Prefix(old, d) /\ old.size \in Nat /\ Bytes(old, d, past)
        /\ name \in appended => DOMAIN past = 0 .. old.size - 1
    BY <1>4, OldInode
  <1>6. DOMAIN d \subseteq DataBlocks
    BY <1>4 DEF Sound
  <1>7. Extends(old, d, fs.node, fs.data) /\ Prefix(fs.node, fs.data)
    <2> HIDE DEF old, total
    <2>1. CASE fits
      BY <1>3, <1>5, <1>6, <2>1, BlocksAdded
    <2>2. CASE ~fits
      <3>1. fs.node = old /\ fs.data = d
        BY <2>2
      <3> HIDE DEF fs
      <3> QED BY <1>5, <1>6, <3>1 DEF Extends, Moves
    <2> QED BY <2>1, <2>2
  <1> DEFINE nd == fs.node
             c == fs.data
  <1>8. /\ Moves(old, d, nd, c) /\ nd.size = old.size /\ NodeOK(nd, c) /\ DOMAIN c \subseteq DataBlocks
        /\ Bytes(nd, c, past)
    <2>1. Bytes(nd, c, past)
      <3> HIDE DEF fs, past, old
      <3> QED BY <1>5, <1>7, BytesExtended
    <2> HIDE DEF fs, past, old
    <2> QED BY <1>7, <2>1 DEF Extends, Moves
  <1>9. CASE isnew /\ ~made.ok /\ data' = d /\ UNCHANGED <<inode, written, appended>>
    <2> HIDE DEF fs, past, old
    <2> QED BY <1>1, <1>4, <1>9 DEF MinixfsInv, Listing, Holding
  <1>10. CASE /\ isnew => made.ok
              /\ data' = fs.data /\ inode' = With(inode, name, fs.node)
              /\ written' = (IF isnew THEN With(written, name, << >>) ELSE written) /\ appended' = appended
    <2>1. /\ DOMAIN written' = DOMAIN inode \cup {name} /\ written'[name] = past
          /\ \A m \in DOMAIN inode : m # name => written'[m] = written[m]
      <3>1. DOMAIN written = DOMAIN inode
        BY <1>4 DEF Holding
      <3> HIDE DEF fs, old
      <3>2. CASE isnew
        BY <1>10, <3>1, <3>2 DEF With
      <3>3. CASE ~isnew
        BY <1>10, <3>1, <3>3
      <3> QED BY <3>2, <3>3
    <2>2. name \in appended => DOMAIN past = 0 .. nd.size - 1
      BY <1>5, <1>8
    <2>3. inode' = With(inode, name, nd) /\ data' = c /\ appended' = appended
      BY <1>10
    <2>4. Moves(old, d, nd, c) /\ Prefix(nd, c) /\ Bytes(nd, c, past)
      BY <1>7, <1>8
    <2>5. old = IF name \notin DOMAIN inode THEN NoBlocks ELSE inode[name]
      OBVIOUS
    <2> HIDE DEF nd, c, fs, old, past
    <2>6. /\ Sound(inode', p, c) /\ Holding(inode', c, written', appended)
          /\ DOMAIN inode' = DOMAIN inode \cup {name}
          /\ \A N : Lists(p, d, N) => Lists(p, c, N)
      <3>1. FileWritten(inode, p, d, written, appended, name, old, nd, c, past, appended, inode', written')
        BY <1>4, <2>1, <2>2, <2>3, <2>4, <2>5 DEF FileWritten
      <3>2. FileDone(inode, p, d, name, c, appended, inode', written')
        BY ONLY <3>1, AfterWriting
      <3> QED BY ONLY <3>2 DEF FileDone
    <2>7. stray' \/ Lists(p, c, DOMAIN inode \cup {name})
      BY <1>4, <1>10, <2>6
    <2>8. DOMAIN inode' \subseteq Names
      BY <2>6 DEF MinixfsInv
    <2> QED BY <1>1, <2>3, <2>6, <2>7, <2>8 DEF MinixfsInv, Listing
  <1>11. CASE /\ (isnew => made.ok) /\ enough
              /\ data' = Copied(fs.node, fs.data, off, count, writes + 1)
              /\ inode' = With(inode, name, [fs.node EXCEPT !.size = @ + count])
              /\ written' = With(written, name, Overlaid(past, off, count, writes + 1))
              /\ appended' = IF off = old.size THEN appended ELSE appended \ {name}
    <2> DEFINE k == writes + 1
               s == nd.size + count
               ne == [nd EXCEPT !.size = s]
               e == Copied(nd, c, off, count, k)
               v == Overlaid(past, off, count, k)
               r == off .. off + count - 1
    <2>1. inode' = With(inode, name, ne) /\ data' = e /\ written' = With(written, name, v)
      BY <1>11
    <2>2. /\ appended' \subseteq appended
          /\ name \in appended' => name \in appended /\ off = old.size
      BY <1>11
    <2>3. fits /\ Has(nd, c, total - 1) /\ (isnew => made.ok)
      BY <1>11
    <2>4. old = IF name \notin DOMAIN inode THEN NoBlocks ELSE inode[name]
      OBVIOUS
    <2>5. NodeOK(nd, c) /\ DOMAIN c \subseteq DataBlocks /\ Prefix(nd, c) /\ Bytes(nd, c, past)
          /\ s \in Nat /\ nd.size = old.size /\ Moves(old, d, nd, c)
      BY <1>5, <1>7, <1>8
    <2>6. total <= NUM_DIRECT_BLOCKS + NUM_INDIRECT_BLOCKS
      BY <2>3
    <2> HIDE DEF nd, c, fs, old, past, k, s
    <2>7. Moves(nd, c, ne, e) /\ Prefix(ne, e) /\ ne.size = s /\ Bytes(ne, e, v)
      BY <2>3, <2>5, <2>6, BytesWritten
    <2>8. DOMAIN v = DOMAIN past \cup r
      BY DEF Overlaid
    <2> HIDE DEF ne, e, v
    <2>9. Moves(old, d, ne, e)
      BY <2>5, <2>7, MovesOn
    <2>10. name \in appended' => DOMAIN v = 0 .. ne.size - 1
      <3> SUFFICES ASSUME name \in appended' PROVE DOMAIN v = 0 .. ne.size - 1
        OBVIOUS
      <3>1. DOMAIN past = 0 .. off - 1 /\ ne.size = off + count
        BY <1>5, <2>2, <2>5, <2>7 DEF s
      <3>2. (0 .. off - 1) \cup (off .. off + count - 1) = 0 .. off + count - 1
        OBVIOUS
      <3> QED BY <2>8, <3>1, <3>2
    <2>11. /\ DOMAIN written' = DOMAIN inode \cup {name} /\ written'[name] = v
           /\ \A m \in DOMAIN inode : m # name => written'[m] = written[m]
      <3>1. DOMAIN written = DOMAIN inode
        BY <1>4 DEF Holding
      <3> QED BY <2>1, <3>1 DEF With
    <2>12. /\ Sound(inode', p, e) /\ Holding(inode', e, written', appended')
           /\ DOMAIN inode' = DOMAIN inode \cup {name}
           /\ \A N : Lists(p, d, N) => Lists(p, e, N)
      <3>1. FileWritten(inode, p, d, written, appended, name, old, ne, e, v, appended', inode', written')
        BY <1>4, <2>1, <2>2, <2>4, <2>7, <2>9, <2>10, <2>11 DEF FileWritten
      <3>2. FileDone(inode, p, d, name, e, appended', inode', written')
        BY ONLY <3>1, AfterWriting
      <3> QED BY ONLY <3>2 DEF FileDone
    <2>13. stray' \/ Lists(p, e, DOMAIN inode \cup {name})
      BY <1>4, <2>3, <2>12
    <2>14. DOMAIN inode' \subseteq Names
      BY <2>12 DEF MinixfsInv
    <2> QED BY <1>1, <2>1, <2>12, <2>13, <2>14 DEF MinixfsInv, Listing
  <1> QED BY <1>2, <1>9, <1>10, <1>11

LEMMA SizeOfFile ==
    ASSUME MinixfsInv, NEW name \in DOMAIN inode PROVE inode[name].size \in Nat
  <1>1. NodeOK(inode[name], data)
    BY DEF MinixfsInv, Sound
  <1>2. inode[name] \in NodeType
    BY <1>1 DEF NodeOK
  <1> QED BY <1>2 DEF NodeType

LEMMA MinixfsInductive == Spec => []MinixfsInv
  <1>1. Init => MinixfsInv
    BY MinixfsStart
  <1>2. MinixfsInv /\ [Next]_vars => MinixfsInv'
    <2> SUFFICES ASSUME MinixfsInv, [Next]_vars PROVE MinixfsInv'
      OBVIOUS
    <2>1. CASE UNCHANGED vars
      BY <2>1 DEF vars, MinixfsInv, Listing
    <2>2. CASE Next
      <3>1. PICK name \in Names, count \in Counts :
              \/ \E off \in Offsets : minixfs_write(name, off, count)
              \/ name \in DOMAIN inode /\ minixfs_write(name, inode[name].size, count)
              \/ WriteAstray(name)
        BY <2>2 DEF Next
      <3>2. count \in Nat /\ count > 0 /\ \A off \in Offsets : off \in Nat
        BY Transfers
      <3>3. name \in DOMAIN inode => inode[name].size \in Nat
        BY SizeOfFile
      <3>4. CASE WriteAstray(name)
        BY <3>4 DEF WriteAstray, MinixfsInv, Listing
      <3> QED BY <3>1, <3>2, <3>3, <3>4, WriteStep
    <2> QED BY <2>1, <2>2
  <1> QED BY <1>1, <1>2, PTL DEF Spec

-----------------------------------------------------------------------------
(* minixfs_read(): byte j of the buffer comes from one chunk only, the one *)
(* of the block that holds byte off + j of the file.                       *)

LEMMA ByteInChunk ==
    ASSUME NEW off \in Nat, NEW n \in Nat, NEW j \in Nat, j < n, NEW m \in Nat, NEW c,
           ChunkAt(c, m, off, n)
    PROVE  /\ j \in c.from .. c.from + c.n - 1 <=> m <= off + j /\ off + j < m + BlockSize
           /\ c.at + j - c.from = off + j - m
  BY DiskSizes DEF ChunkAt

ChunkOf(c, j) == CHOOSE x \in DOMAIN c : j \in c[x].from .. c[x].from + c[x].n - 1

GivesByte(c, i, j, b) == i = b \div BlockSize /\ c[i].at + j - c[i].from = b % BlockSize

LEMMA ChunkOfByte ==
    ASSUME NEW off \in Nat, NEW n \in Nat, n > 0, NEW j \in Nat, j < n, NEW c, c = Chunks(off, n),
           NEW i, i = ChunkOf(c, j)
    PROVE  GivesByte(c, i, j, off + j)
  <1> DEFINE b == off + j
             B == BlockSize
             k == b \div B
             In(x) == j \in c[x].from .. c[x].from + c[x].n - 1
  <1>1. b \in Nat /\ B \in Nat /\ B > 0 /\ k \in Nat /\ k * B \in Nat /\ b % B \in 0 .. B - 1
        /\ b = k * B + (b % B)
    BY DiskSizes, Division
  <1>2. DOMAIN c = off \div B .. Blocks(off + n) - 1
        /\ \A x \in DOMAIN c : ChunkAt(c[x], x * B, off, n)
    BY ChunksAre
  <1>3. \A x \in DOMAIN c : x \in Nat /\ x * B \in Nat
    BY <1>2, BlocksBetween
  <1>4. \A x \in DOMAIN c : /\ In(x) <=> x * B <= b /\ b < x * B + B
                            /\ c[x].at + j - c[x].from = b - x * B
    BY <1>2, <1>3, ByteInChunk
  <1>5. k \in DOMAIN c
    <2>1. k * B + (b % B) \in off .. off + n - 1
      BY <1>1
    <2> HIDE DEF k, b
    <2> QED BY <1>1, <1>2, <2>1, OutsideChunks
  <1>6. k * B <= b /\ b < k * B + B
    BY <1>1
  <1>7. In(k)
    BY <1>4, <1>5, <1>6
  <1>8. i \in DOMAIN c /\ In(i)
    <2>1. \E x \in DOMAIN c : In(x)
      BY <1>5, <1>7
    <2>2. i = CHOOSE x \in DOMAIN c : In(x)
      BY DEF ChunkOf
    <2> HIDE DEF In, k, b, B
    <2> QED BY ONLY <2>1, <2>2
  <1>9. i \in Nat /\ i * B <= b /\ b < i * B + B
    BY <1>3, <1>4, <1>8
  <1>10. i = b \div B /\ b % B = b - i * B
    <2>1. b \in Nat /\ B \in Nat /\ B > 0 /\ i \in Int
      BY <1>1, <1>9
    <2> HIDE DEF b, B, k, In
    <2> QED BY ONLY <1>9, <2>1, Quotient
  <1> QED BY <1>4, <1>8, <1>10 DEF GivesByte

\* What minixfs_read returns of a file whose bytes w are all known.
ReadIs(name, w, off, count) ==
  minixfs_read(name, off, count) =
    [k \in 1 .. Cardinality(DOMAIN w \cap (off .. off + count - 1)) |-> w[off + k - 1]]

LEMMA ReadReturns ==
    ASSUME NEW name, NEW w, Bytes(inode[name], data, w), inode[name].size \in Nat,
           DOMAIN w = 0 .. inode[name].size - 1, NEW off \in Nat, NEW count \in Nat, count > 0
    PROVE  ReadIs(name, w, off, count)
  <1> DEFINE nd == inode[name]
             s == nd.size
             n == IF off + count > s THEN s - off ELSE count
             c == Chunks(off, n)
             At(k) == ChunkOf(c, k - 1)
             K == Cardinality(DOMAIN w \cap (off .. off + count - 1))
  <1>1. minixfs_read(name, off, count) =
          IF s <= off THEN <<>>
          ELSE [k \in 1 .. n |-> data[BlockOf(nd, data, At(k))][c[At(k)].at + (k - 1) - c[At(k)].from]]
    BY DEF minixfs_read, ChunkOf
  <1>2. CASE s <= off
    <2>1. DOMAIN w \cap (off .. off + count - 1) = {}
      BY <1>2
    <2>2. K = 0
      BY <2>1, FS_EmptySet
    <2> HIDE DEF K
    <2>3. [k \in 1 .. K |-> w[off + k - 1]] = <<>>
      BY <2>2
    <2>4. minixfs_read(name, off, count) = <<>>
      BY <1>1, <1>2
    <2> QED BY <2>3, <2>4 DEF K, ReadIs
  <1>3. CASE ~(s <= off)
    <2>1. n \in Nat /\ n > 0 /\ off + n <= s
      BY <1>3
    <2>2. DOMAIN w \cap (off .. off + count - 1) = off .. off + n - 1
      BY <1>3
    <2>3. K = n
      <3> HIDE DEF n
      <3>1. Cardinality(off .. off + n - 1) = n
        BY <2>1, FS_Interval
      <3> QED BY <2>2, <3>1
    <2> HIDE DEF n, K
    <2>4. ASSUME NEW k \in 1 .. n
          PROVE  data[BlockOf(nd, data, At(k))][c[At(k)].at + (k - 1) - c[At(k)].from] = w[off + k - 1]
      <3> DEFINE j == k - 1
                 b == off + j
      <3>1. j \in Nat /\ j < n /\ b \in DOMAIN w /\ b = off + k - 1
        BY <2>1
      <3>2. At(k) = b \div BlockSize /\ c[At(k)].at + j - c[At(k)].from = b % BlockSize
        <4> DEFINE i == At(k)
        <4>1. i = ChunkOf(c, j) /\ c = Chunks(off, n)
          OBVIOUS
        <4>2. n \in Nat /\ n > 0 /\ j \in Nat /\ j < n /\ off \in Nat
          BY <2>1, <3>1
        <4> HIDE DEF i, j, c
        <4>3. GivesByte(c, i, j, off + j)
          BY ONLY <4>1, <4>2, ChunkOfByte
        <4> QED BY <4>3 DEF i, GivesByte
      <3>3. data[BlockOf(nd, data, b \div BlockSize)][b % BlockSize] = w[b]
        BY <3>1 DEF Bytes
      <3> HIDE DEF c, At, nd
      <3> QED BY <3>1, <3>2, <3>3
    <2>5. minixfs_read(name, off, count) =
            [k \in 1 .. n |-> data[BlockOf(nd, data, At(k))][c[At(k)].at + (k - 1) - c[At(k)].from]]
      BY <1>1, <1>3
    <2> HIDE DEF c, At, nd
    <2>6. minixfs_read(name, off, count) = [k \in 1 .. n |-> w[off + k - 1]]
      BY <2>4, <2>5
    <2> QED BY <2>3, <2>6 DEF K, ReadIs
  <1> QED BY <1>2, <1>3

LEMMA InvReadsBack == MinixfsInv => ReadsBack
  <1> SUFFICES ASSUME MinixfsInv, NEW name \in DOMAIN inode
               PROVE  /\ \A b \in DOMAIN written[name] :
                           data[BlockOf(inode[name], data, b \div BlockSize)][b % BlockSize]
                             = written[name][b]
                      /\ name \in appended =>
                           \A off \in 0 .. inode[name].size + 1, count \in Counts :
                             ReadIs(name, written[name], off, count)
    BY DEF ReadsBack, ReadIs
  <1>1. /\ Bytes(inode[name], data, written[name]) /\ inode[name].size \in Nat
        /\ name \in appended => DOMAIN written[name] = 0 .. inode[name].size - 1
    BY SizeOfFile DEF MinixfsInv, Holding
  <1>2. ASSUME name \in appended, NEW off \in 0 .. inode[name].size + 1, NEW count \in Counts
        PROVE  ReadIs(name, written[name], off, count)
    <2>1. off \in Nat /\ count \in Nat /\ count > 0
      BY <1>1, Transfers
    <2> QED BY ONLY <1>1, <1>2, <2>1, ReadReturns
  <1>3. \A b \in DOMAIN written[name] :
           data[BlockOf(inode[name], data, b \div BlockSize)][b % BlockSize] = written[name][b]
    BY <1>1 DEF Bytes
  <1> QED BY <1>2, <1>3

\* A file that was only ever appended to reads back as it was written, from any
\* offset, for any number of bytes and across the boundary of direct and
\* indirect blocks, and every byte on the disk is the last one written there:
\* minixfs_write, minixfs_read and the allocation of blocks, for every size of
\* the blocks and the disk, full or not.
THEOREM FilesReadBack == Spec => []ReadsBack
  BY MinixfsInductive, InvReadsBack, PTL

LEMMA InvListsFiles == MinixfsInv => DirectoryListsFiles
  <1> DEFINE N == DOMAIN inode
             NamesIn(i) == Range(data[BlockOf(parent, data, i)])
  <1> SUFFICES ASSUME Lists(parent, data, N)
               PROVE  /\ parent.size = Cardinality(N)
                      /\ N = UNION {NamesIn(i) : i \in EntryBlocks}
    BY DEF MinixfsInv, Listing, DirectoryListsFiles
  <1>1. parent.size = Cardinality(N)
    BY DEF Lists
  <1>2. \A i : i \in EntryBlocks <=> i \in Slots /\ Has(parent, data, i)
    BY DEF Lists, EntryBlocks, Slots
  <1>3. \A i, n : n \in NamesIn(i) <=> \E k \in DOMAIN data[BlockOf(parent, data, i)] :
                                        data[BlockOf(parent, data, i)][k] = n
    BY DEF Range
  <1>4. \A n : n \in N <=> \E i \in Slots : Has(parent, data, i) /\ n \in NamesIn(i)
    BY <1>3 DEF Lists, Entry
  <1> HIDE DEF NamesIn, N
  <1>5. N = UNION {NamesIn(i) : i \in EntryBlocks}
    BY <1>2, <1>4
  <1> QED BY <1>1, <1>5

\* The directory has one entry for every file and no other, in the blocks that
\* its size covers, also after a creation or a write that ran out of space
\* halfway, unless line 94 has dropped an entry for want of a block: what
\* minixfs_create_inode_for_path does to the parent's inode and blocks.
THEOREM FilesListed == Spec => []DirectoryListsFiles
  BY MinixfsInductive, InvListsFiles, PTL
=============================================================================
