-------------------------- MODULE WritePathProofs ---------------------------
(***************************************************************************)
(* Theorems about the write path, for every set of jobs and callers, any   *)
(* number of slots, any extent size and any scenario: the treehugger       *)
(* implements the atomic store, what MergeTo3 (fs/merge.go) guarantees for *)
(* every three trees, and that no block of file data that is still needed  *)
(* is ever let go.                                                         *)
(***************************************************************************)
EXTENDS WritePathInvariants, TLAPS

LEMMA SeqIsFunction ==
  ASSUME NEW S, NEW s \in Seq(S)
  PROVE  Len(s) \in Nat /\ DOMAIN s = 1..Len(s) /\ s = [i \in 1..Len(s) |-> s[i]]
  <1>1. Len(s) \in Nat /\ DOMAIN s = 1..Len(s) /\ s \in [1..Len(s) -> S]
    OBVIOUS
  <1> QED
    BY Zenon, <1>1

LEMMA StackSeq ==
  ASSUME NEW s, Stack(s)
  PROVE  /\ s \in Seq({s[i] : i \in DOMAIN s})
         /\ Len(s) \in Nat /\ DOMAIN s = 1..Len(s)
         /\ \A i \in 1..Len(s) : Transaction(s[i])
  <1>1. PICK n \in Nat : s = [i \in 1..n |-> s[i]] /\ \A i \in 1..n : Transaction(s[i])
    BY Zenon DEF Stack
  <1>2. DOMAIN s = 1..n
    BY Zenon, <1>1
  <1>3. s \in Seq({s[i] : i \in DOMAIN s})
    BY <1>1, <1>2
  <1> QED
    BY <1>1, <1>2, <1>3

LEMMA AppendStack ==
  ASSUME NEW s, Stack(s), NEW t, Transaction(t)
  PROVE  /\ Stack(Append(s, t))
         /\ \A i \in DOMAIN Append(s, t) : Append(s, t)[i] = t \/ (i \in DOMAIN s /\ Append(s, t)[i] = s[i])
  <1> DEFINE S == {s[i] : i \in DOMAIN s} \cup {t}
             a == Append(s, t)
  <1>1. s \in Seq(S) /\ t \in S
    <2>1. s \in Seq({s[i] : i \in DOMAIN s}) /\ Len(s) \in Nat /\ DOMAIN s = 1..Len(s)
      BY Zenon, StackSeq
    <2>2. \A i \in 1..Len(s) : s[i] \in S
      BY Zenon, <2>1
    <2> QED
      BY <2>1, <2>2
  <1>2. /\ a \in Seq(S) /\ Len(a) = Len(s) + 1
        /\ \A i \in 1..Len(s) : a[i] = s[i]
        /\ a[Len(s) + 1] = t
    BY <1>1
  <1>3. Len(s) \in Nat /\ DOMAIN s = 1..Len(s) /\ \A i \in 1..Len(s) : Transaction(s[i])
    BY Zenon, StackSeq
  <1> HIDE DEF a
  <1>4. DOMAIN a = 1..Len(a) /\ Len(a) \in Nat /\ a = [i \in 1..Len(a) |-> a[i]]
    BY Zenon, <1>2, SeqIsFunction
  <1>5. \A i \in DOMAIN a : a[i] = t \/ (i \in DOMAIN s /\ a[i] = s[i])
    BY <1>2, <1>3, <1>4
  <1>6. \A i \in 1..Len(a) : Transaction(a[i])
    BY Zenon, <1>3, <1>4, <1>5
  <1>7. Stack(a)
    BY Zenon, <1>4, <1>6 DEF Stack
  <1> QED
    BY Zenon, <1>5, <1>7 DEF a

LEMMA FrontStack ==
  ASSUME NEW s, Stack(s)
  PROVE  /\ Stack(Front(s))
         /\ \A i \in DOMAIN Front(s) : i \in DOMAIN s /\ Front(s)[i] = s[i]
  <1> DEFINE f == Front(s)
  <1>1. Len(s) \in Nat /\ DOMAIN s = 1..Len(s) /\ \A i \in 1..Len(s) : Transaction(s[i])
    BY Zenon, StackSeq
  <1>2. f = [i \in 1..(Len(s) - 1) |-> s[i]]
    BY <1>1 DEF Front
  <1>3. \A i \in DOMAIN f : i \in DOMAIN s /\ f[i] = s[i]
    BY <1>1, <1>2
  <1> HIDE DEF f
  <1>4. PICK n \in Nat : 1..n = 1..(Len(s) - 1)
    <2>1. CASE Len(s) = 0
      <3>1. 1..0 = 1..(Len(s) - 1)
        BY <2>1
      <3> QED
        BY Zenon, <3>1
    <2>2. CASE Len(s) # 0
      <3>1. Len(s) - 1 \in Nat
        BY <1>1, <2>2
      <3> QED
        BY Zenon, <3>1
    <2> QED
      BY Zenon, <2>1, <2>2
  <1>5. f = [i \in 1..n |-> f[i]] /\ \A i \in 1..n : Transaction(f[i])
    <2>1. f = [i \in 1..n |-> s[i]]
      BY <1>2, <1>4, Zenon
    <2>2. ASSUME NEW i \in 1..n PROVE i \in 1..Len(s)
      <3>1. i \in 1..(Len(s) - 1)
        BY <1>4, Zenon
      <3> QED
        BY <1>1, <3>1
    <2> QED
      BY Zenon, <1>1, <2>1, <2>2
  <1> QED
    BY Zenon, <1>3, <1>5 DEF Stack, f

LEMMA TopOfStack ==
  ASSUME NEW s, Stack(s), s # <<>>
  PROVE  Len(s) \in DOMAIN s /\ Last(s) = s[Len(s)]
  <1>1. s \in Seq({s[i] : i \in DOMAIN s}) /\ Len(s) \in Nat /\ DOMAIN s = 1..Len(s)
    BY Zenon, StackSeq
  <1>2. Len(s) # 0
    BY <1>1
  <1> QED
    BY <1>1, <1>2 DEF Last

LEMMA MetaKeyType == MetaKey(Ino).st = BST_META
  BY Zenon DEF MetaKey, NewBlockKey

LEMMA PutTree ==
  ASSUME NEW c, Tree(c), NEW k, NEW v, k.st = BST_META => k = MetaKey(Ino),
         k = MetaKey(Ino) => v.ctime \in Nat
  PROVE  /\ Tree(Put(c, k, v)) /\ Ctime(c) <= Ctime(Put(c, k, v))
         /\ \A x : x # k => SameAt(c, Put(c, k, v), x)
  <1>1. CASE k = MetaKey(Ino) /\ v.ctime <= Ctime(c)
    BY <1>1 DEF Put, Tree, SameAt
  <1>2. CASE ~(k = MetaKey(Ino) /\ v.ctime <= Ctime(c))
    <2> DEFINE d == TreeSet(c, k, v)
    <2>1. Put(c, k, v) = d
      BY Zenon, <1>2 DEF Put
    <2>2. /\ DOMAIN d = DOMAIN c \cup {k} /\ d = [x \in DOMAIN d |-> d[x]]
          /\ \A x \in DOMAIN d : d[x] = IF x = k THEN v ELSE c[x]
      BY Zenon DEF TreeSet
    <2> HIDE DEF d
    <2>3. Ctime(d) = IF k = MetaKey(Ino) THEN v.ctime ELSE Ctime(c)
      BY Zenon, <2>2 DEF Ctime, Tree
    <2>4. Ctime(d) \in Nat /\ Ctime(c) <= Ctime(d)
      BY <1>2, <2>3 DEF Tree
    <2>5. Tree(d)
      BY Zenon, <2>2, <2>4 DEF Tree
    <2>6. \A x : x # k => SameAt(c, d, x)
      BY Zenon, <2>2 DEF SameAt
    <2> QED
      BY Zenon, <2>1, <2>4, <2>5, <2>6
  <1> QED
    BY Zenon, <1>1, <1>2

LEMMA AppliedPut ==
  ASSUME Tree(root), NEW s, Tree(s), Ctime(s) <= Ctime(root),
         NEW k, NEW v, k.st = BST_META => k = MetaKey(Ino),
         k = MetaKey(Ino) => v.ctime \in Nat, k # MetaKey(Ino) => SameAt(s, root, k),
         Put(root, k, v) # root
  PROVE  /\ Change(s, Put(s, k, v)) # <<>>
         /\ Store!Applied(Change(s, Put(s, k, v))) = Put(root, k, v)
  <1>1. k = MetaKey(Ino) => v.ctime > Ctime(root) /\ v.ctime > Ctime(s)
    BY DEF Put, Tree
  <1>2. Put(s, k, v) = TreeSet(s, k, v) /\ Put(root, k, v) = TreeSet(root, k, v)
    BY <1>1 DEF Put, Tree
  <1>3. k \notin DOMAIN s \/ s[k] # v
    <2>1. CASE k = MetaKey(Ino)
      BY <1>1, <2>1 DEF Ctime, Tree
    <2>2. CASE k # MetaKey(Ino)
      <3> SUFFICES ASSUME k \in DOMAIN s, s[k] = v
                   PROVE  FALSE
        BY Zenon
      <3>1. k \in DOMAIN root /\ root[k] = v
        BY Zenon, <2>2 DEF SameAt
      <3>2. TreeSet(root, k, v) = [x \in DOMAIN root |-> root[x]]
        BY Zenon, <3>1 DEF TreeSet
      <3> QED
        BY Zenon, <1>2, <3>2 DEF Tree
    <2> QED
      BY Zenon, <2>1, <2>2
  <1>4. Delta(s, TreeSet(s, k, v)) = {k} /\ TreeSet(s, k, v)[k] = v
    BY Zenon, <1>3 DEF Delta, TreeSet
  <1> DEFINE d == [x \in {k} |-> v]
  <1>5. Change(s, Put(s, k, v)) = d
    BY Zenon, <1>2, <1>4 DEF Change
  <1>6. DOMAIN d = {k} /\ d[k] = v /\ d # <<>>
    <2>1. DOMAIN d = {k} /\ d[k] = v
      BY Zenon
    <2>2. DOMAIN <<>> = {}
      OBVIOUS
    <2> QED
      BY Zenon, <2>1, <2>2
  <1> HIDE DEF d
  <1>7. Store!Wins(k, v)
    BY Zenon, <1>1, MetaKeyType DEF Store!Wins, Ctime
  <1>8. Store!Applied(d) = TreeSet(root, k, v)
    BY Zenon, <1>6, <1>7 DEF Store!Applied, TreeSet
  <1> QED
    BY Zenon, <1>2, <1>5, <1>6, <1>8

LEMMA MergePut ==
  ASSUME NEW c, NEW s, NEW k, NEW v, Mergeable(c, s, k, v)
  PROVE  Merged(c, s, Put(s, k, v)) = Put(c, k, v)
  <1> SUFFICES ASSUME Tree(c), Tree(s), Ctime(s) <= Ctime(c), k.st = BST_META => k = MetaKey(Ino),
                      k = MetaKey(Ino) => v.ctime \in Nat, k # MetaKey(Ino) => SameAt(s, c, k)
               PROVE  Merged(c, s, Put(s, k, v)) = Put(c, k, v)
    BY Zenon DEF Mergeable
  <1> DEFINE d == Put(s, k, v)
             changes == {x \in Delta(s, d) : Applies(c, s, d, TRUE, x)}
             keep == (DOMAIN c \ changes) \cup (changes \cap DOMAIN d)
  <1>1. Merged(c, s, d) = [x \in keep |-> IF x \in changes THEN d[x] ELSE c[x]]
    BY Zenon DEF MergeTo3, Merged
  <1>2. CASE changes = {}
    <2>1. Put(c, k, v) = c
      <3>1. CASE k = MetaKey(Ino)
        <4>1. CASE v.ctime <= Ctime(s)
          BY <3>1, <4>1 DEF Put, Tree
        <4>2. CASE v.ctime > Ctime(s)
          <5>1. d = TreeSet(s, k, v)
            BY <3>1, <4>2 DEF Put, Tree
          <5>2. k \in Delta(s, d) /\ k \in DOMAIN d /\ d[k] = v
            BY <3>1, <4>2, <5>1 DEF Delta, TreeSet, Tree, Ctime
          <5>3. ~Applies(c, s, d, TRUE, k)
            BY Zenon, <1>2, <5>2
          <5>4. MetaKey(k.ino) = k
            BY Zenon, <3>1 DEF MetaKey, NewBlockKey
          <5>5. v.ctime <= Ctime(c)
            BY <3>1, <5>2, <5>3, <5>4, MetaKeyType DEF Applies, Verdict, MetaVerdict, Ctime, Tree
          <5> QED
            BY Zenon, <3>1, <5>5 DEF Put
        <4> QED
          BY <3>1, <4>1, <4>2 DEF Tree
      <3>2. CASE k # MetaKey(Ino)
        <4>1. d = TreeSet(s, k, v) /\ k.st # BST_META
          BY Zenon, <3>2 DEF Put
        <4>2. Applies(c, s, d, TRUE, k)
          BY Zenon, <4>1 DEF Applies, Verdict
        <4>3. k \in DOMAIN s /\ s[k] = v
          BY Zenon, <1>2, <4>1, <4>2 DEF Delta, TreeSet
        <4>4. k \in DOMAIN c /\ c[k] = v
          BY Zenon, <3>2, <4>3 DEF SameAt
        <4>5. TreeSet(c, k, v) = [x \in DOMAIN c |-> c[x]]
          BY Zenon, <4>4 DEF TreeSet
        <4> QED
          BY Zenon, <3>2, <4>5 DEF Put, Tree
      <3> QED
        BY Zenon, <3>1, <3>2
    <2>2. Merged(c, s, d) = [x \in DOMAIN c |-> c[x]]
      BY Zenon, <1>1, <1>2
    <2> QED
      BY Zenon, <2>1, <2>2 DEF Tree
  <1>3. CASE changes # {}
    <2>1. d = TreeSet(s, k, v) /\ Delta(s, d) = {k} /\ changes = {k} /\ d[k] = v /\ k \in DOMAIN d
      <3>1. d = s \/ d = TreeSet(s, k, v)
        BY Zenon DEF Put
      <3>2. d # s
        BY Zenon, <1>3 DEF Delta
      <3>3. Delta(s, TreeSet(s, k, v)) \subseteq {k} /\ TreeSet(s, k, v)[k] = v
            /\ k \in DOMAIN TreeSet(s, k, v)
        BY Zenon DEF Delta, TreeSet
      <3> QED
        BY Zenon, <1>3, <3>1, <3>2, <3>3
    <2>2. Applies(c, s, d, TRUE, k)
      BY Zenon, <2>1
    <2>3. Put(c, k, v) = TreeSet(c, k, v)
      <3>1. CASE k = MetaKey(Ino)
        <4>1. v.ctime > Ctime(s)
          BY <2>1, <3>1 DEF Put, Tree, Delta
        <4>2. MetaKey(k.ino) = k
          BY <3>1 DEF MetaKey, NewBlockKey
        <4>3. v.ctime > Ctime(c)
          BY Zenon, <2>1, <2>2, <3>1, <4>1, <4>2, MetaKeyType DEF Applies, Verdict, MetaVerdict, Ctime, Tree
        <4> QED
          BY <3>1, <4>3 DEF Put, Tree
      <3>2. CASE k # MetaKey(Ino)
        BY Zenon, <3>2 DEF Put
      <3> QED
        BY Zenon, <3>1, <3>2
    <2>4. keep = DOMAIN c \cup {k}
      BY Zenon, <2>1
    <2> QED
      BY Zenon, <1>1, <2>1, <2>3, <2>4 DEF TreeSet
  <1> QED
    BY Zenon, <1>2, <1>3

LEMMA PendingKept ==
  ASSUME NEW q, trs'[q] = trs[q], trs[q] = <<>> \/ (pc[q] \in Quiet <=> pc'[q] \in Quiet)
  PROVE  Pending(q)' = Pending(q)
  <1>1. CASE trs[q] = <<>>
    BY Zenon, <1>1 DEF Pending
  <1>2. CASE trs[q] # <<>>
    <2>1. pc[q] \in Quiet <=> pc'[q] \in Quiet
      BY Zenon, <1>2
    <2>2. Top(q)' = Top(q)
      BY Zenon DEF Top
    <2> QED
      BY Zenon, <2>1, <2>2 DEF Pending, Quiet
  <1> QED
    BY Zenon, <1>1, <1>2

LEMMA PendingNone ==
  ASSUME NEW q, trs[q] = <<>> \/ pc[q] \in Quiet
  PROVE  Pending(q) = <<>>
  BY Zenon DEF Pending, Quiet

LEMMA NextPendingNone ==
  ASSUME NEW q, trs'[q] = <<>> \/ pc'[q] \in Quiet
  PROVE  Pending(q)' = <<>>
  BY Zenon DEF Pending, Quiet

LEMMA AskStep ==
  ASSUME NEW u \in Procs, \A q \in Procs \ {u} : Pending(q)' = Pending(q),
         Pending(u) = <<>>, UNCHANGED <<root, named, durable>>
  PROVE  StoreStep
  <1> DEFINE want == [p \in Procs |-> Pending(p)]
  <1>1. want[u] = <<>>
    BY Zenon
  <1>2. want' = [want EXCEPT ![u] = want'[u]]
    BY Zenon
  <1>3. Store!Ask(u)
    BY Zenon, <1>1, <1>2 DEF Store!Ask
  <1> QED
    BY Zenon, <1>3 DEF StoreStep, Store!Next

LEMMA WithdrawStep ==
  ASSUME NEW u \in Procs, \A q \in Procs \ {u} : Pending(q)' = Pending(q),
         Pending(u)' = <<>>, UNCHANGED <<root, named, durable>>
  PROVE  StoreStep
  <1> DEFINE want == [p \in Procs |-> Pending(p)]
  <1>2. want' = [want EXCEPT ![u] = <<>>]
    BY Zenon
  <1>3. Store!Withdraw(u)
    BY Zenon, <1>2 DEF Store!Withdraw
  <1> QED
    BY Zenon, <1>3 DEF StoreStep, Store!Next

LEMMA CommitStep ==
  ASSUME NEW u \in Procs, \A q \in Procs \ {u} : Pending(q)' = Pending(q),
         Pending(u) # <<>>, Pending(u)' = <<>>,
         root' = Store!Applied(Pending(u)), UNCHANGED <<named, durable>>
  PROVE  StoreStep
  <1> DEFINE want == [p \in Procs |-> Pending(p)]
  <1>1. want[u] = Pending(u)
    BY Zenon
  <1>2. want' = [want EXCEPT ![u] = <<>>]
    BY Zenon
  <1>3. Store!Commit(u)
    BY Zenon, <1>1, <1>2 DEF Store!Commit
  <1> QED
    BY Zenon, <1>3 DEF StoreStep, Store!Next

LEMMA StutterStep ==
  ASSUME \A q \in Procs : Pending(q)' = Pending(q), UNCHANGED <<root, named, durable>>
  PROVE  StoreStep
  <1> DEFINE want == [p \in Procs |-> Pending(p)]
  <1>1. want' = want
    BY Zenon
  <1> QED
    BY Zenon, <1>1 DEF StoreStep, Store!storeVars

LEMMA SaveStep ==
  ASSUME \A q \in Procs : Pending(q) = <<>> /\ Pending(q)' = <<>>,
         named' = root, UNCHANGED <<root, durable>>
  PROVE  StoreStep
  <1> DEFINE want == [p \in Procs |-> Pending(p)]
  <1>1. want' = want /\ \A q \in Procs : want[q] = <<>>
    BY Zenon
  <1>2. Store!Save
    BY Zenon, <1>1 DEF Store!Save
  <1> QED
    BY Zenon, <1>2 DEF StoreStep, Store!Next

LEMMA PersistStep ==
  ASSUME \A q \in Procs : Pending(q)' = Pending(q), durable' = named, UNCHANGED <<root, named>>
  PROVE  StoreStep
  <1> DEFINE want == [p \in Procs |-> Pending(p)]
  <1>1. want' = want
    BY Zenon
  <1>2. Store!Persist
    BY Zenon, <1>1 DEF Store!Persist
  <1> QED
    BY Zenon, <1>2 DEF StoreStep, Store!Next

-----------------------------------------------------------------------------
(* What a step leaves alone stays invariant.                               *)
LEMMA JobGoes ==
  ASSUME NEW j, JobInvariant(j),
         UNCHANGED root, trs'[j] = trs[j], job'[j] = job[j], now \in Nat, now' \in Nat, now <= now',
         pc'[j] \in Clean \cup Editing \cup {"close"}, pc[j] \in Clean <=> pc'[j] \in Clean,
         pc'[j] \in Editing => pc[j] \in Editing, pc'[j] \in Early => pc[j] \in Early,
         pc'[j] # "idle" => pc[j] # "idle",
         pc'[j] \in Locking => extLock'[ExtentOf(job[j].ofs)] = j
  PROVE  JobInvariant(j)'
  <1>1. KeyOf(j)' = KeyOf(j)
    BY Zenon DEF KeyOf
  <1>2. Edits(j) => Edits(j)'
    <2> SUFFICES ASSUME Edits(j) PROVE Edits(j)'
      BY Zenon
    <2>1. PICK v : /\ ~job[j].second => v.ctime \in 0..now
                   /\ \A i \in DOMAIN trs[j] : Sets(trs[j][i], j, v)
      BY Zenon DEF Edits
    <2>2. ~job[j].second => v.ctime \in 0..now'
      BY <2>1
    <2>3. \A i \in DOMAIN trs'[j] : Sets(trs[j][i], j, v)'
      BY Zenon, <1>1, <2>1 DEF Sets
    <2> QED
      BY Zenon, <2>2, <2>3 DEF Edits
  <1> QED
    BY Zenon, <1>2 DEF JobInvariant

LEMMA JobKept ==
  ASSUME NEW j, JobInvariant(j),
         UNCHANGED root, trs'[j] = trs[j], job'[j] = job[j], now \in Nat, now' \in Nat, now <= now',
         pc'[j] = pc[j] \/ (pc[j] = "slotWait" /\ pc'[j] = "slot"),
         \A e \in FileExtents : extLock[e] = j => extLock'[e] = j
  PROVE  JobInvariant(j)'
  <1>1. /\ pc[j] \in Clean \cup Editing \cup {"close"} => pc'[j] \in Clean \cup Editing \cup {"close"}
        /\ pc[j] \in Editing <=> pc'[j] \in Editing
        /\ pc[j] \in Clean <=> pc'[j] \in Clean
    BY Zenon DEF Clean, Editing
  <1>2. /\ pc[j] \in Locking <=> pc'[j] \in Locking
        /\ pc[j] \in Early <=> pc'[j] \in Early
        /\ pc'[j] # "idle" => pc[j] # "idle"
        /\ pc[j] \in Locking => pc[j] # "idle"
    BY Zenon DEF Locking, Early, Editing
  <1>3. pc'[j] \in Locking => extLock'[ExtentOf(job[j].ofs)] = j
    BY Zenon, <1>2 DEF JobInvariant
  <1>4. pc[j] \in Clean \cup Editing \cup {"close"}
    BY Zenon DEF JobInvariant
  <1> QED
    BY Zenon, <1>1, <1>2, <1>3, <1>4, JobGoes

LEMMA SetterKept ==
  ASSUME SetterInvariant, UNCHANGED root, trs'[Setter] = trs[Setter], pc'[Setter] = pc[Setter]
  PROVE  SetterInvariant'
  <1>1. Top(Setter)' = Top(Setter)
    BY Zenon DEF Top
  <1> QED
    BY Zenon, <1>1 DEF SetterInvariant

LEMMA ReaderKept ==
  ASSUME ReaderInvariant, trs'[Reader] = trs[Reader], pc'[Reader] = pc[Reader]
  PROVE  ReaderInvariant'
  BY Zenon DEF ReaderInvariant

LEMMA WaitKept ==
  ASSUME WaitInvariant, UNCHANGED <<closedWait, slotWait>>,
         \A j \in Jobs : pc[j] = "slotWait" => pc'[j] = "slotWait"
  PROVE  WaitInvariant'
  BY Zenon DEF WaitInvariant

LEMMA ShapeKept ==
  ASSUME Shape, UNCHANGED trs, DOMAIN pc' = DOMAIN pc, DOMAIN job' = DOMAIN job,
         DOMAIN extLock' = DOMAIN extLock, DOMAIN calls' = DOMAIN calls
  PROVE  Shape'
  BY Zenon DEF Shape

LEMMA RootsKept == ASSUME Roots, UNCHANGED <<root, now, meta>> PROVE Roots'
  BY Zenon DEF Roots, Tree, Ctime, MetaRecord

LEMMA CallsKept ==
  ASSUME UNCHANGED calls, \A c \in Callers : Call(c)
  PROVE  \A c \in Callers : Call(c)'
  BY Zenon DEF Call

(* Who is who.                                                             *)
LEMMA Distinct ==
  /\ Jobs \subseteq Procs /\ {Flusher, Fsyncer, Rooter, Setter, Reader} \subseteq Procs
  /\ Setter \notin Jobs /\ Reader \notin Jobs /\ Setter # Reader
  /\ \A p \in {Flusher, Fsyncer, Rooter} : p \notin Jobs /\ p # Setter /\ p # Reader
  /\ None \notin Procs
  BY Zenon, ProcsAssumption

(* A step of one of the processes that have no transactions.               *)
LEMMA OtherKept ==
  ASSUME RInv, UNCHANGED <<root, trs, job, calls, meta, extLock, now>>,
         DOMAIN pc' = DOMAIN pc,
         \A p \in Jobs \cup {Setter, Reader} :
           pc'[p] = pc[p] \/ (p \in Jobs /\ pc[p] = "slotWait" /\ pc'[p] = "slot"),
         WaitInvariant'
  PROVE  RInv'
  <1>1. Shape' /\ Roots' /\ \A c \in Callers : Call(c)'
    BY Zenon, ShapeKept, RootsKept, CallsKept DEF RInv
  <1>2. SetterInvariant' /\ ReaderInvariant'
    BY Zenon, SetterKept, ReaderKept, Distinct DEF RInv
  <1>3. ASSUME NEW j \in Jobs PROVE JobInvariant(j)'
    <2>1. JobInvariant(j) /\ now \in Nat /\ now' \in Nat /\ now <= now'
      BY DEF RInv, Roots
    <2> QED
      BY Zenon, <2>1, JobKept
  <1> QED
    BY Zenon, <1>1, <1>2, <1>3 DEF RInv

LEMMA OtherPending ==
  ASSUME RInv, UNCHANGED trs,
         \A p \in Jobs \cup {Setter, Reader} :
           pc'[p] = pc[p] \/ (p \in Jobs /\ pc[p] = "slotWait" /\ pc'[p] = "slot")
  PROVE  \A q \in Procs : Pending(q)' = Pending(q)
  <1> TAKE q \in Procs
  <1>1. trs[q] = <<>> \/ q \in Jobs \cup {Setter, Reader}
    BY Zenon DEF RInv, Shape
  <1>2. q \in Jobs \cup {Setter, Reader} => (pc[q] \in Quiet <=> pc'[q] \in Quiet)
    BY Zenon DEF Quiet
  <1> QED
    BY Zenon, <1>1, <1>2, PendingKept

LEMMA PushStack ==
  ASSUME Shape, NEW p \in Jobs \cup {Setter, Reader}, NEW tree,
         GetNestableTransaction(p, tree), NEW t, Begins(t, tree),
         DOMAIN pc' = DOMAIN pc, DOMAIN job' = DOMAIN job, UNCHANGED <<extLock, calls>>
  PROVE  Pushed(p, t)
  <1>1. p \in Procs /\ Stack(trs[p]) /\ Transaction(t)
    BY Zenon, Distinct DEF Shape, Transaction, Begins
  <1>2. trs'[p] = Append(trs[p], t) /\ DOMAIN trs' = Procs /\ \A q \in Procs \ {p} : trs'[q] = trs[q]
    BY Zenon, <1>1 DEF Shape, newTransaction, GetNestableTransaction, Begins
  <1>3. /\ Stack(trs'[p])
        /\ \A i \in DOMAIN trs'[p] : trs'[p][i] = t \/ (i \in DOMAIN trs[p] /\ trs'[p][i] = trs[p][i])
    <2>1. LET a == Append(trs[p], t)
          IN  Stack(a) /\ \A i \in DOMAIN a : a[i] = t \/ (i \in DOMAIN trs[p] /\ a[i] = trs[p][i])
      BY Zenon, <1>1, AppendStack
    <2> QED
      BY Zenon, <1>2, <2>1
  <1>4. /\ trs[p] \in Seq({trs[p][i] : i \in DOMAIN trs[p]}) /\ Len(trs[p]) \in Nat
        /\ DOMAIN trs[p] = 1..Len(trs[p])
    BY Zenon, <1>1, StackSeq
  <1>5. PICK s, a : s = trs[p] /\ a = trs'[p] /\ a = Append(s, t)
    BY Zenon, <1>2
  <1> DEFINE S == {s[i] : i \in DOMAIN s} \cup {t}
  <1>6. s \in Seq(S) /\ t \in S
    <2>1. \A i \in 1..Len(s) : s[i] \in S
      BY Zenon, <1>4, <1>5
    <2> QED
      BY <1>4, <1>5, <2>1
  <1> HIDE DEF S
  <1>7. Len(a) = Len(s) + 1 /\ a \in Seq(S) /\ a[Len(s) + 1] = t
        /\ \A i \in 1..Len(s) : a[i] = s[i]
    BY <1>5, <1>6
  <1>8. Len(s) \in Nat /\ (s = <<>> => Len(s) = 0) /\ (Len(s) = 0 => s = <<>>)
    BY <1>6
  <1>9. a # <<>> /\ Last(a) = t /\ 1 \in DOMAIN a /\ a[1] = IF s = <<>> THEN t ELSE s[1]
    BY <1>7, <1>8 DEF Last
  <1>10. Shape'
    <2>1. \A q \in Procs : Stack(trs'[q])
      BY Zenon, <1>2, <1>3 DEF Shape
    <2>2. \A q \in Procs \ (Jobs \cup {Setter, Reader}) : trs'[q] = <<>>
      BY Zenon, <1>2 DEF Shape
    <2> QED
      BY Zenon, <1>2, <2>1, <2>2 DEF Shape
  <1> QED
    BY Zenon, <1>2, <1>3, <1>5, <1>9, <1>10 DEF Pushed, Top

LEMMA PopStack ==
  ASSUME Shape, NEW p \in Procs, trs[p] # <<>>, trs' = [trs EXCEPT ![p] = Front(@)],
         DOMAIN pc' = DOMAIN pc, UNCHANGED <<job, extLock, calls>>
  PROVE  /\ Shape' /\ (trs'[p] = <<>> <=> Len(trs[p]) = 1)
         /\ \A q \in Procs \ {p} : trs'[q] = trs[q]
  <1>1. Stack(trs[p])
    BY Zenon DEF Shape
  <1>2. trs'[p] = Front(trs[p]) /\ DOMAIN trs' = Procs /\ \A q \in Procs \ {p} : trs'[q] = trs[q]
    BY Zenon DEF Shape
  <1>3. Stack(trs'[p])
    BY Zenon, <1>1, <1>2, FrontStack
  <1>4. PICK s, f : s = trs[p] /\ f = trs'[p] /\ f = Front(s)
    BY Zenon, <1>2
  <1>5. s \in Seq({s[i] : i \in DOMAIN s}) /\ Len(s) \in Nat /\ Stack(f)
    BY <1>1, <1>3, <1>4, StackSeq
  <1>6. Len(s) # 0
    BY <1>4, <1>5
  <1>7. f = <<>> <=> Len(s) = 1
    <2>1. DOMAIN f = 1..(Len(s) - 1)
      BY <1>4, <1>5 DEF Front
    <2>2. f \in Seq({f[i] : i \in DOMAIN f}) /\ Len(f) \in Nat /\ DOMAIN f = 1..Len(f)
      BY Zenon, <1>5, StackSeq
    <2>3. Len(f) = Len(s) - 1
      BY <1>5, <1>6, <2>1, <2>2
    <2>4. f = <<>> <=> Len(f) = 0
      BY <2>2
    <2> QED
      BY <1>5, <2>3, <2>4
  <1>8. p \in Jobs \cup {Setter, Reader}
    BY Zenon DEF Shape
  <1>9. Shape'
    <2>1. \A q \in Procs : Stack(trs'[q])
      BY Zenon, <1>2, <1>3 DEF Shape
    <2>2. \A q \in Procs \ (Jobs \cup {Setter, Reader}) : trs'[q] = <<>>
      BY Zenon, <1>2, <1>8 DEF Shape
    <2> QED
      BY Zenon, <1>2, <2>1, <2>2 DEF Shape
  <1> QED
    BY Zenon, <1>2, <1>4, <1>7, <1>9

LEMMA SwapStacks ==
  ASSUME Shape, DOMAIN pc' = DOMAIN pc, UNCHANGED <<job, extLock, calls>>,
         trs' = [q \in Procs |-> [i \in DOMAIN trs[q] |-> [trs[q][i] EXCEPT !.fresh = FALSE]]]
  PROVE  Shape' /\ \A q \in Procs : Stale(q)
  <1>1. ASSUME NEW q \in Procs
        PROVE  Stack(trs'[q]) /\ Stale(q)
    <2>1. trs'[q] = [i \in DOMAIN trs[q] |-> [trs[q][i] EXCEPT !.fresh = FALSE]]
      BY Zenon
    <2>2. PICK s, a : s = trs[q] /\ a = trs'[q] /\ a = [i \in DOMAIN s |-> [s[i] EXCEPT !.fresh = FALSE]]
      BY Zenon, <2>1
    <2>3. /\ Stack(s) /\ s \in Seq({s[i] : i \in DOMAIN s}) /\ Len(s) \in Nat /\ DOMAIN s = 1..Len(s)
          /\ \A i \in 1..Len(s) : Transaction(s[i])
      <3>1. Stack(s)
        BY Zenon, <2>2 DEF Shape
      <3> QED
        BY Zenon, <3>1, StackSeq
    <2>4. ASSUME NEW i \in 1..Len(s)
          PROVE  a[i] = [src |-> s[i].src, dst |-> s[i].dst, fresh |-> FALSE]
      <3>1. s[i] = [src |-> s[i].src, dst |-> s[i].dst, fresh |-> s[i].fresh]
        BY Zenon, <2>3 DEF Transaction
      <3>2. a[i] = [s[i] EXCEPT !.fresh = FALSE]
        BY Zenon, <2>2, <2>3
      <3> QED
        BY Zenon, <3>1, <3>2
    <2>5. DOMAIN a = 1..Len(s) /\ a = [i \in 1..Len(s) |-> a[i]]
      BY Zenon, <2>2, <2>3
    <2>6. Stack(a)
      <3>1. \A i \in 1..Len(s) : Transaction(a[i])
        <4>1. \A x, y, z : Transaction([src |-> x, dst |-> y, fresh |-> z])
          BY Zenon DEF Transaction
        <4> QED
          BY Zenon, <2>4, <4>1
      <3> QED
        BY Zenon, <2>3, <2>5, <3>1 DEF Stack
    <2>7. a \in Seq({a[i] : i \in DOMAIN a}) /\ DOMAIN a = 1..Len(a) /\ Len(a) \in Nat
      BY Zenon, <2>6, StackSeq
    <2>8. Len(a) = Len(s)
      BY <2>3, <2>5, <2>7
    <2>9. a = <<>> <=> s = <<>>
      BY <2>3, <2>7, <2>8
    <2> QED
      BY <2>2, <2>3, <2>4, <2>5, <2>6, <2>8, <2>9 DEF Stale
  <1>2. DOMAIN trs' = Procs
    BY Zenon
  <1>3. \A q \in Procs \ (Jobs \cup {Setter, Reader}) : trs'[q] = <<>>
    BY Zenon, <1>1 DEF Shape, Stale
  <1> QED
    BY Zenon, <1>1, <1>2, <1>3 DEF Shape

LEMMA StalePending ==
  ASSUME NEW q, Stack(trs[q]), Stack(trs'[q]), Stale(q), pc'[q] = pc[q]
  PROVE  Pending(q)' = Pending(q)
  <1>1. CASE trs[q] = <<>> \/ pc[q] \in Quiet
    <2>1. trs'[q] = <<>> \/ pc'[q] \in Quiet
      BY Zenon, <1>1 DEF Stale
    <2> QED
      BY Zenon, <1>1, <2>1, PendingNone, NextPendingNone
  <1>2. CASE trs[q] # <<>> /\ pc[q] \notin Quiet
    <2>1. /\ Len(trs[q]) \in DOMAIN trs[q] /\ Top(q) = trs[q][Len(trs[q])]
          /\ Top(q)' = trs'[q][Len(trs[q])]
      BY Zenon, <1>2, TopOfStack DEF Stale, Top
    <2>2. 1 \in DOMAIN trs[q]
      <3>1. Len(trs[q]) \in Nat /\ DOMAIN trs[q] = 1..Len(trs[q])
        BY Zenon, StackSeq
      <3> QED
        BY <2>1, <3>1
    <2>3. PICK i \in DOMAIN trs[q] :
            (IF q = Setter THEN Top(q) ELSE trs[q][1]) = trs[q][i] /\
            (IF q = Setter THEN Top(q) ELSE trs[q][1])' = trs'[q][i]
      BY Zenon, <2>1, <2>2
    <2>4. Pending(q) = [k \in Delta(trs[q][i].src, trs[q][i].dst) |-> trs[q][i].dst[k]]
      BY Zenon, <1>2, <2>3 DEF Pending, Quiet
    <2>5. trs'[q] # <<>> /\ pc'[q] \notin Quiet
      BY Zenon, <1>2 DEF Stale
    <2>6. Pending(q)' = [k \in Delta(trs'[q][i].src, trs'[q][i].dst) |-> trs'[q][i].dst[k]]
      BY Zenon, <2>3, <2>5 DEF Pending, Quiet
    <2> QED
      BY Zenon, <2>4, <2>6 DEF Stale
  <1> QED
    BY Zenon, <1>1, <1>2

-----------------------------------------------------------------------------
(* The queues of the limiter and of the flush.                             *)
LEMMA SlotWaits ==
  ASSUME Shape, WaitInvariant, NEW p \in Jobs \cup {Fsyncer, Rooter}, pc[p] # "slotWait",
         slotWait' = Append(slotWait, p), UNCHANGED closedWait,
         pc' = [pc EXCEPT ![p] = "slotWait"]
  PROVE  WaitInvariant'
  <1> DEFINE S == Jobs \cup {Fsyncer, Rooter}
  <1>1. slotWait \in Seq(S)
    BY Zenon DEF WaitInvariant
  <1>2. PICK s, a : s = slotWait /\ a = slotWait' /\ a = Append(s, p)
    BY Zenon
  <1>3. s \in Seq(S) /\ p \in S
    BY Zenon, <1>1, <1>2
  <1> HIDE DEF S
  <1>4. /\ a \in Seq(S) /\ Len(s) \in Nat /\ Len(a) = Len(s) + 1 /\ DOMAIN s = 1..Len(s)
        /\ DOMAIN a = 1..(Len(s) + 1)
        /\ a[Len(s) + 1] = p /\ \A i \in 1..Len(s) : a[i] = s[i]
    BY <1>2, <1>3
  <1>5. p \in Procs /\ pc'[p] = "slotWait" /\ \A q \in Procs \ {p} : pc'[q] = pc[q]
    BY Zenon, Distinct DEF Shape
  <1>6. \A i \in 1..Len(s) : s[i] \in Jobs =>
          pc[s[i]] = "slotWait" /\ \A k \in 1..Len(s) : s[k] = s[i] => k = i
    BY Zenon, <1>2, <1>4 DEF WaitInvariant
  <1>7. ASSUME NEW i \in DOMAIN a, a[i] \in Jobs
        PROVE  pc'[a[i]] = "slotWait" /\ \A k \in DOMAIN a : a[k] = a[i] => k = i
    <2>1. a[i] \in Procs
      BY Zenon, <1>7, Distinct
    <2>2. pc'[a[i]] = "slotWait"
      <3>1. CASE i = Len(s) + 1
        BY Zenon, <1>4, <1>5, <3>1
      <3>2. CASE i \in 1..Len(s)
        <4>1. a[i] = s[i] /\ pc[s[i]] = "slotWait"
          BY Zenon, <1>4, <1>6, <1>7, <3>2
        <4> QED
          BY Zenon, <1>5, <2>1, <4>1
      <3> QED
        BY <1>4, <1>7, <3>1, <3>2
    <2>3. ASSUME NEW k \in DOMAIN a, a[k] = a[i] PROVE k = i
      <3>1. CASE i = Len(s) + 1 /\ k \in 1..Len(s)
        <4>1. s[k] = p /\ pc[s[k]] = "slotWait"
          BY Zenon, <1>4, <1>6, <1>7, <2>3, <3>1
        <4> QED
          BY Zenon, <4>1
      <3>2. CASE k = Len(s) + 1 /\ i \in 1..Len(s)
        <4>1. s[i] = p /\ pc[s[i]] = "slotWait"
          BY Zenon, <1>4, <1>6, <1>7, <2>3, <3>2
        <4> QED
          BY Zenon, <4>1
      <3>3. CASE k \in 1..Len(s) /\ i \in 1..Len(s)
        BY Zenon, <1>4, <1>6, <1>7, <2>3, <3>3
      <3> QED
        BY <1>4, <1>7, <2>3, <3>1, <3>2, <3>3
    <2> QED
      BY Zenon, <2>2, <2>3
  <1>8. slotWait' \in Seq(Jobs \cup {Fsyncer, Rooter})
    BY Zenon, <1>2, <1>4 DEF S
  <1> QED
    BY Zenon, <1>2, <1>7, <1>8 DEF WaitInvariant

(* Whom a release of slots wakes.                                          *)
LEMMA SlotWakes ==
  ASSUME Shape, WaitInvariant, NEW p \in Jobs \cup {Fsyncer, Rooter}, NEW next,
         pc[p] # "slotWait", ReleaseSlots(p, next), UNCHANGED closedWait
  PROVE  /\ WaitInvariant' /\ DOMAIN pc' = DOMAIN pc
         /\ p \in Jobs => pc'[p] = next
         /\ pc'[Setter] = pc[Setter] /\ pc'[Reader] = pc[Reader]
         /\ \A q \in Jobs \ {p} : pc'[q] = pc[q] \/ (pc[q] = "slotWait" /\ pc'[q] = "slot")
  <1> DEFINE S == Jobs \cup {Fsyncer, Rooter}
  <1>1. slotWait \in Seq(S) /\ p \in Procs
    BY Zenon, Distinct DEF WaitInvariant
  <1>2. CASE slotWait = <<>>
    <2>1. slotWait' = <<>> /\ pc' = [pc EXCEPT ![p] = next]
      BY Zenon, <1>2 DEF ReleaseSlots
    <2>2. WaitInvariant'
      <3>1. DOMAIN slotWait' = {} /\ slotWait' \in Seq(Jobs \cup {Fsyncer, Rooter})
        BY <2>1
      <3> QED
        BY Zenon, <3>1 DEF WaitInvariant
    <2> QED
      BY Zenon, <1>1, <2>1, <2>2, Distinct DEF Shape
  <1>3. CASE slotWait # <<>>
    <2>1. PICK s, h, t : s = slotWait /\ h = Head(s) /\ t = Tail(s)
      BY Zenon
    <2>2. s \in Seq(S) /\ s # <<>>
      BY Zenon, <1>1, <1>3, <2>1
    <2> HIDE DEF S
    <2>3. /\ Len(s) \in Nat /\ Len(s) # 0 /\ DOMAIN s = 1..Len(s) /\ h = s[1] /\ h \in S
          /\ t \in Seq(S) /\ DOMAIN t = 1..(Len(s) - 1) /\ \A i \in 1..(Len(s) - 1) : t[i] = s[i + 1]
      BY <2>1, <2>2
    <2>4. h \in Jobs \cup {Fsyncer, Rooter}
      BY Zenon, <2>3 DEF S
    <2>5. slotWait' = t /\ pc' = [pc EXCEPT ![p] = next, ![h] = "slot"]
      BY Zenon, <1>3, <2>1 DEF ReleaseSlots
    <2>6. \A i \in 1..Len(s) : s[i] \in Jobs =>
            pc[s[i]] = "slotWait" /\ \A k \in 1..Len(s) : s[k] = s[i] => k = i
      BY Zenon, <2>1, <2>3 DEF WaitInvariant
    <2>7. h \in Jobs => pc[h] = "slotWait" /\ h # p
      BY <2>3, <2>6
    <2>8. /\ DOMAIN pc' = Procs
          /\ \A q \in Procs : pc'[q] = IF q = h THEN "slot" ELSE IF q = p THEN next ELSE pc[q]
      BY Zenon, <2>5 DEF Shape
    <2>9. ASSUME NEW i \in DOMAIN t, t[i] \in Jobs
          PROVE  pc'[t[i]] = "slotWait" /\ \A k \in DOMAIN t : t[k] = t[i] => k = i
      <3>1. i \in 1..(Len(s) - 1) /\ i + 1 \in 1..Len(s) /\ t[i] = s[i + 1] /\ 1 \in 1..Len(s) /\ i + 1 # 1
        BY <2>3, <2>9
      <3>2. pc[t[i]] = "slotWait" /\ t[i] # h /\ t[i] # p /\ t[i] \in Procs
        BY Zenon, <2>3, <2>6, <2>9, <3>1, Distinct
      <3>3. ASSUME NEW k \in DOMAIN t, t[k] = t[i] PROVE k = i
        <4>1. k \in 1..(Len(s) - 1) /\ k + 1 \in 1..Len(s) /\ t[k] = s[k + 1]
          BY <2>3, <3>3
        <4>2. k + 1 = i + 1
          BY Zenon, <2>6, <2>9, <3>1, <3>3, <4>1
        <4> QED
          BY <3>1, <4>1, <4>2
      <3> QED
        BY Zenon, <2>8, <3>2, <3>3
    <2>10. slotWait' \in Seq(Jobs \cup {Fsyncer, Rooter})
      BY Zenon, <2>3, <2>5 DEF S
    <2>11. WaitInvariant'
      BY Zenon, <2>5, <2>9, <2>10 DEF WaitInvariant
    <2> QED
      BY Zenon, <1>1, <2>4, <2>7, <2>8, <2>11, Distinct DEF Shape
  <1> QED
    BY Zenon, <1>2, <1>3

(* Whom the close of a transaction wakes.                                  *)
LEMMA CloseWakes ==
  ASSUME Shape, WaitInvariant, NEW p \in Jobs \cup {Setter, Reader}, NEW next,
         pc[p] # "slotWait", next # "slotWait", Close(p, next), UNCHANGED slotWait
  PROVE  /\ WaitInvariant' /\ DOMAIN pc' = DOMAIN pc
         /\ pc'[p] = IF Len(trs[p]) = 1 THEN next ELSE pc[p]
         /\ \A q \in (Jobs \cup {Setter, Reader}) \ {p} : pc'[q] = pc[q]
  <1> DEFINE moved == IF Len(trs[p]) = 1 THEN [pc EXCEPT ![p] = next] ELSE pc
  <1>1. /\ DOMAIN moved = Procs /\ p \in Procs
        /\ \A q \in Procs : moved[q] = IF q = p /\ Len(trs[p]) = 1 THEN next ELSE pc[q]
    BY Zenon, Distinct DEF Shape
  <1>2. /\ closedWait' = IF flushing /\ closedWait # <<>> THEN Tail(closedWait) ELSE closedWait
        /\ pc' = IF flushing /\ closedWait # <<>> THEN [moved EXCEPT ![Head(closedWait)] = "flushCheck"]
                 ELSE moved
    BY Zenon DEF Close
  <1> HIDE DEF moved
  <1>3. closedWait \in Seq({Flusher, Rooter})
    BY Zenon DEF WaitInvariant
  <1>4. closedWait' \in Seq({Flusher, Rooter})
    BY <1>2, <1>3
  <1>5. /\ DOMAIN pc' = Procs
        /\ \A q \in Procs \ {Flusher, Rooter} : pc'[q] = moved[q]
    <2>1. CASE flushing /\ closedWait # <<>>
      <3>1. Head(closedWait) \in {Flusher, Rooter}
        BY <1>3, <2>1
      <3> QED
        BY Zenon, <1>1, <1>2, <2>1, <3>1
    <2>2. CASE ~(flushing /\ closedWait # <<>>)
      BY Zenon, <1>1, <1>2, <2>2
    <2> QED
      BY Zenon, <2>1, <2>2
  <1>6. \A q \in Jobs \cup {Setter, Reader} :
          pc'[q] = IF q = p /\ Len(trs[p]) = 1 THEN next ELSE pc[q]
    BY Zenon, <1>1, <1>5, Distinct
  <1>7. \A j \in Jobs : pc[j] = "slotWait" => pc'[j] = "slotWait"
    BY Zenon, <1>6
  <1>8. WaitInvariant'
    BY Zenon, <1>4, <1>7 DEF WaitInvariant
  <1> QED
    BY Zenon, <1>5, <1>6, <1>8 DEF Shape

LEMMA MovesInv ==
  ASSUME RInv, NEW j \in Jobs, Moves(j), Shape', Roots', WaitInvariant', JobInvariant(j)',
         \A c \in Callers : Call(c)'
  PROVE  RInv' /\ \A q \in Procs \ {j} : Pending(q)' = Pending(q)
  <1>1. ASSUME NEW k \in Jobs \ {j} PROVE JobInvariant(k)'
    <2>1. JobInvariant(k) /\ now \in Nat /\ trs'[k] = trs[k]
      BY Zenon, Distinct DEF RInv, Roots, Moves
    <2> QED
      BY Zenon, <2>1, JobKept DEF Moves
  <1>2. /\ trs'[Setter] = trs[Setter] /\ trs'[Reader] = trs[Reader] /\ UNCHANGED root
        /\ pc'[Setter] = pc[Setter] /\ pc'[Reader] = pc[Reader]
        /\ SetterInvariant /\ ReaderInvariant
    BY Zenon, Distinct DEF Moves, RInv
  <1>3. SetterInvariant' /\ ReaderInvariant'
    BY Zenon, <1>2, SetterKept, ReaderKept
  <1>4. ASSUME NEW q \in Procs \ {j} PROVE Pending(q)' = Pending(q)
    <2>1. trs'[q] = trs[q]
      BY Zenon DEF Moves
    <2>2. trs[q] = <<>> \/ q \in Jobs \cup {Setter, Reader}
      BY Zenon DEF RInv, Shape
    <2>3. q \in Jobs \cup {Setter, Reader} => (pc[q] \in Quiet <=> pc'[q] \in Quiet)
      BY Zenon DEF Quiet, Moves
    <2> QED
      BY Zenon, <2>1, <2>2, <2>3, PendingKept
  <1> QED
    BY Zenon, <1>1, <1>3, <1>4 DEF RInv

(* Of what a job leaves alone when it takes or gives up no extent.         *)
LEMMA MovesAlone ==
  ASSUME RInv, NEW j \in Jobs, NEW next, Goto(j, next),
         UNCHANGED <<root, now, extLock>>, \A q \in Procs \ {j} : trs'[q] = trs[q],
         \A k \in Jobs \ {j} : job'[k] = job[k]
  PROVE  Moves(j) /\ DOMAIN pc' = DOMAIN pc /\ pc'[j] = next
  <1>1. now \in Nat
    BY Zenon DEF RInv, Roots
  <1>2. DOMAIN pc = Procs /\ j \in Procs
    BY Zenon, Distinct DEF RInv, Shape
  <1>3. DOMAIN pc' = Procs /\ pc'[j] = next /\ \A q \in Procs \ {j} : pc'[q] = pc[q]
    BY Zenon, <1>2 DEF Goto
  <1>4. now <= now
    BY <1>1
  <1> QED
    BY Zenon, <1>1, <1>2, <1>3, <1>4, Distinct DEF Moves

(* The same when the transactions and the job stay, too.                   *)
LEMMA JobWalks ==
  ASSUME RInv, NEW j \in Jobs, NEW next, Goto(j, next),
         UNCHANGED <<root, named, durable, trs, job, now, meta>>, WaitInvariant',
         DOMAIN extLock' = DOMAIN extLock, DOMAIN calls' = DOMAIN calls,
         \A k \in Jobs \ {j} : \A e \in FileExtents : extLock[e] = k => extLock'[e] = k,
         next \in Clean \cup Editing \cup {"close"}, pc[j] \in Clean <=> next \in Clean,
         next \in Editing => pc[j] \in Editing, next \in Early => pc[j] \in Early,
         next # "idle" => pc[j] # "idle", pc[j] \in Quiet <=> next \in Quiet,
         next \in Locking => extLock'[ExtentOf(job[j].ofs)] = j,
         \A c \in Callers : Call(c)'
  PROVE  RInv' /\ StoreStep
  <1>1. now \in Nat /\ now <= now /\ DOMAIN pc = Procs /\ j \in Procs
    BY Distinct DEF RInv, Roots, Shape
  <1>2. DOMAIN pc' = Procs /\ pc'[j] = next /\ \A q \in Procs \ {j} : pc'[q] = pc[q]
    BY Zenon, <1>1 DEF Goto
  <1>3. Moves(j)
    BY Zenon, <1>1, <1>2, Distinct DEF Moves
  <1>4. JobInvariant(j) /\ now' \in Nat /\ now <= now' /\ trs'[j] = trs[j] /\ job'[j] = job[j]
    BY Zenon, <1>1 DEF RInv
  <1>5. JobInvariant(j)'
    BY Zenon, <1>1, <1>2, <1>4, JobGoes
  <1>6. Shape'
    BY Zenon, <1>1, <1>2, ShapeKept DEF RInv
  <1>7. Roots'
    BY Zenon, RootsKept DEF RInv
  <1>8. RInv' /\ \A q \in Procs \ {j} : Pending(q)' = Pending(q)
    BY Zenon, <1>3, <1>5, <1>6, <1>7, MovesInv
  <1>9. Pending(j)' = Pending(j)
    BY Zenon, <1>2, <1>4, PendingKept
  <1>10. \A q \in Procs : Pending(q)' = Pending(q)
    BY Zenon, <1>8, <1>9
  <1> QED
    BY Zenon, <1>8, <1>10, StutterStep

LEMMA WaitOthers ==
  ASSUME Shape, WaitInvariant, NEW p \in Procs, NEW next, Goto(p, next), pc[p] # "slotWait",
         UNCHANGED <<closedWait, slotWait>>
  PROVE  WaitInvariant'
  <1>1. \A j \in Jobs : pc[j] = "slotWait" => pc'[j] = "slotWait"
    BY Zenon, Distinct DEF Goto, Shape
  <1> QED
    BY Zenon, <1>1, WaitKept

LEMMA LockMetaStep == ASSUME RInv, NEW j \in Jobs, LockMeta(j) PROVE RInv' /\ StoreStep
  <1>1. /\ pc[j] = "metaLock" /\ Goto(j, "extLock")
        /\ UNCHANGED <<root, named, durable, trs, job, now, meta, closedWait, slotWait, extLock, calls>>
    BY Zenon DEF LockMeta, huggerVars
  <1>2. WaitInvariant' /\ \A c \in Callers : Call(c)'
    <2>1. pc[j] # "slotWait" /\ j \in Procs
      BY Zenon, <1>1, Distinct
    <2> QED
      BY Zenon, <1>1, <2>1, WaitOthers, CallsKept DEF RInv
  <1>3. /\ pc[j] \in Clean /\ "extLock" \in Clean /\ "extLock" \notin Editing /\ pc[j] \in Early
        /\ pc[j] \notin Quiet /\ "extLock" \notin Quiet /\ "extLock" \notin Locking /\ pc[j] # "idle"
    BY Zenon, <1>1 DEF Clean, Editing, Early, Locking, Quiet
  <1> QED
    BY Zenon, <1>1, <1>2, <1>3, JobWalks

LEMMA LockExtentStep == ASSUME RInv, NEW j \in Jobs, LockExtent(j) PROVE RInv' /\ StoreStep
  <1> DEFINE e == ExtentOf(job[j].ofs)
  <1>1. /\ pc[j] = "extLock" /\ Goto(j, "begin") /\ Locked(j, e)
        /\ UNCHANGED <<root, named, durable, trs, job, now, meta, closedWait, slotWait, calls>>
    BY Zenon DEF LockExtent, huggerVars
  <1>2. WaitInvariant' /\ \A c \in Callers : Call(c)'
    <2>1. pc[j] # "slotWait" /\ j \in Procs
      BY Zenon, <1>1, Distinct
    <2> QED
      BY Zenon, <1>1, <2>1, WaitOthers, CallsKept DEF RInv
  <1>3. /\ pc[j] \in Clean /\ "begin" \in Clean /\ "begin" \notin Editing /\ pc[j] \in Early
        /\ pc[j] \notin Quiet /\ "begin" \notin Quiet /\ pc[j] # "idle"
    BY Zenon, <1>1 DEF Clean, Editing, Early, Quiet
  <1>4. e \in Extents
    BY Zenon, <1>1 DEF RInv, JobInvariant, Extents
  <1> HIDE DEF e
  <1>5. /\ DOMAIN extLock' = DOMAIN extLock /\ extLock'[e] = j
        /\ \A k \in Jobs \ {j} : \A x \in FileExtents : extLock[x] = k => extLock'[x] = k
    BY Zenon, <1>1, <1>4, Distinct DEF Locked, RInv, Shape, Extents
  <1>6. extLock'[ExtentOf(job[j].ofs)] = j
    BY Zenon, <1>5 DEF e
  <1> QED
    BY Zenon, <1>1, <1>2, <1>3, <1>5, <1>6, JobWalks

LEMMA UnlockMetaStep == ASSUME RInv, NEW j \in Jobs, UnlockMeta(j) PROVE RInv' /\ StoreStep
  <1>1. /\ pc[j] = "unlockMeta" /\ Goto(j, "commit")
        /\ UNCHANGED <<root, named, durable, trs, job, now, meta, closedWait, slotWait, extLock, calls>>
    BY Zenon DEF UnlockMeta, huggerVars
  <1>2. WaitInvariant' /\ \A c \in Callers : Call(c)'
    <2>1. pc[j] # "slotWait" /\ j \in Procs
      BY Zenon, <1>1, Distinct
    <2> QED
      BY Zenon, <1>1, <2>1, WaitOthers, CallsKept DEF RInv
  <1>3. /\ pc[j] \notin Clean /\ "commit" \notin Clean /\ "commit" \in Editing /\ pc[j] \in Editing
        /\ pc[j] \notin Quiet /\ "commit" \notin Quiet /\ pc[j] # "idle" /\ "commit" \notin Early
        /\ pc[j] \in Locking
    BY Zenon, <1>1 DEF Clean, Editing, Early, Quiet, Locking
  <1>4. extLock'[ExtentOf(job[j].ofs)] = j
    BY Zenon, <1>1, <1>3 DEF RInv, JobInvariant
  <1> QED
    BY Zenon, <1>1, <1>2, <1>3, <1>4, JobWalks

(* The caller goes on with what is left of its request.                    *)
LEMMA CallsGoOn ==
  ASSUME NEW c, Call(c), NEW n \in Nat, NEW new,
         new = [ofs |-> calls[c].ofs + n, left |-> calls[c].left - n, busy |-> FALSE]
  PROVE  /\ new = [ofs |-> new.ofs, left |-> new.left, busy |-> new.busy]
         /\ new.ofs \in Int /\ new.left \in Int
         /\ \A x \in new.ofs..(new.ofs + new.left - 1) : ExtentOf(x) \in FileExtents
  <1>1. PICK o \in Int, l \in Int : /\ o = calls[c].ofs /\ l = calls[c].left
                                    /\ \A x \in o..(o + l - 1) : ExtentOf(x) \in FileExtents
    BY Zenon DEF Call
  <1>2. new.ofs = o + n /\ new.left = l - n
    BY Zenon, <1>1
  <1>3. \A x \in (o + n)..(o + n + (l - n) - 1) : x \in o..(o + l - 1)
    OBVIOUS
  <1>4. new = [ofs |-> new.ofs, left |-> new.left, busy |-> new.busy]
    BY Zenon
  <1> QED
    BY <1>1, <1>2, <1>3, <1>4

LEMMA GoWriteStep == ASSUME RInv, NEW j \in Jobs, GoWrite(j) PROVE RInv' /\ StoreStep
  <1>1. /\ pc[j] = "slot"
        /\ UNCHANGED <<root, named, durable, trs, job, now, meta, closedWait, extLock>>
    BY Zenon DEF GoWrite, huggerVars
  <1>2. JobInvariant(j) /\ Len(job[j].buf) \in Nat /\ j \in Procs
    BY Zenon, Distinct DEF RInv, JobInvariant, JobRecord
  <1>3. PICK next : /\ Goto(j, next) /\ next \in {"slotWait", "unlockMeta", "commit"}
                    /\ \/ next = "slotWait" /\ slotWait' = Append(slotWait, j)
                       \/ UNCHANGED slotWait
    BY Zenon DEF GoWrite, Limited2
  <1>4. WaitInvariant'
    <2>1. CASE next = "slotWait" /\ slotWait' = Append(slotWait, j)
      <3>1. Shape /\ WaitInvariant /\ j \in Jobs \cup {Fsyncer, Rooter} /\ pc[j] # "slotWait"
        BY Zenon, <1>1 DEF RInv
      <3>2. pc' = [pc EXCEPT ![j] = "slotWait"] /\ UNCHANGED closedWait
        BY Zenon, <1>1, <1>3, <2>1 DEF Goto
      <3> QED
        BY Zenon, <2>1, <3>1, <3>2, SlotWaits
    <2>2. CASE UNCHANGED slotWait
      <3>1. pc[j] # "slotWait" /\ UNCHANGED <<closedWait, slotWait>>
        BY Zenon, <1>1, <2>2
      <3> QED
        BY Zenon, <1>2, <1>3, <3>1, WaitOthers DEF RInv
    <2> QED
      BY Zenon, <1>3, <2>1, <2>2
  <1>5. DOMAIN calls' = DOMAIN calls /\ \A c \in Callers : Call(c)'
    <2> DEFINE n == Len(job[j].buf)
               New(c) == [ofs |-> calls[c].ofs + n, left |-> calls[c].left - n, busy |-> FALSE]
    <2>1. \/ UNCHANGED calls
          \/ calls' = [calls EXCEPT ![job[j].caller] = New(job[j].caller)]
      BY Zenon DEF GoWrite
    <2>2. DOMAIN calls = Callers /\ \A c \in Callers : Call(c)
      BY Zenon DEF RInv, Shape
    <2> HIDE DEF New
    <2>3. DOMAIN calls' = DOMAIN calls /\ \A c \in Callers : calls'[c] = calls[c] \/ calls'[c] = New(c)
      BY Zenon, <2>1, <2>2
    <2>4. ASSUME NEW c \in Callers PROVE Call(c)'
      <3>1. CASE calls'[c] = calls[c]
        BY Zenon, <2>2, <3>1 DEF Call
      <3>2. CASE calls'[c] = New(c)
        <4>1. Call(c) /\ n \in Nat
          BY Zenon, <1>2, <2>2
        <4>2. PICK new : new = calls'[c] /\ new = New(c)
          BY Zenon, <3>2
        <4>3. /\ new = [ofs |-> new.ofs, left |-> new.left, busy |-> new.busy]
              /\ new.ofs \in Int /\ new.left \in Int
              /\ \A x \in new.ofs..(new.ofs + new.left - 1) : ExtentOf(x) \in FileExtents
          BY Zenon, <4>1, <4>2, CallsGoOn DEF New
        <4> QED
          BY Zenon, <4>2, <4>3 DEF Call
      <3> QED
        BY Zenon, <2>3, <3>1, <3>2
    <2> QED
      BY Zenon, <2>3, <2>4
  <1>6. /\ pc[j] \notin Clean /\ next \notin Clean /\ next \in Editing /\ pc[j] \in Editing
        /\ pc[j] \notin Quiet /\ next \notin Quiet /\ pc[j] # "idle" /\ pc[j] \in Early
        /\ pc[j] \in Locking
    BY Zenon, <1>1, <1>3 DEF Clean, Editing, Early, Quiet, Locking
  <1>7. extLock'[ExtentOf(job[j].ofs)] = j
    BY Zenon, <1>1, <1>2, <1>6 DEF JobInvariant
  <1> QED
    BY Zenon, <1>1, <1>3, <1>4, <1>5, <1>6, <1>7, JobWalks

LEMMA NewJob ==
  ASSUME NEW c, NEW o, NEW n, NEW b, NEW J, FreshJob(J, c, o, n, b)
  PROVE  J = [ofs |-> o, buf |-> b, end |-> n, odata |-> <<>>, meta |-> <<>>,
              small |-> FALSE, second |-> FALSE, caller |-> c]
  <1>1. PICK no, e, z : no = FALSE /\ e = <<>> /\ z = 0
    BY Zenon
  <1> DEFINE F(x, y, v, t) == [ofs |-> x, buf |-> y, end |-> v, odata |-> e, meta |-> e,
                               small |-> no, second |-> no, caller |-> t]
  <1>2. NoJob = F(z, e, z, None)
    BY Zenon, <1>1 DEF NoJob
  <1>3. [F(z, e, z, None) EXCEPT !.caller = c] = F(z, e, z, c)
    OBVIOUS
  <1>4. [F(z, e, z, c) EXCEPT !.ofs = o] = F(o, e, z, c)
    OBVIOUS
  <1>5. [F(o, e, z, c) EXCEPT !.end = n] = F(o, e, n, c)
    OBVIOUS
  <1>6. [F(o, e, n, c) EXCEPT !.buf = b] = F(o, b, n, c)
    OBVIOUS
  <1>7. F(o, b, n, c) = [ofs |-> o, buf |-> b, end |-> n, odata |-> <<>>, meta |-> <<>>,
                         small |-> FALSE, second |-> FALSE, caller |-> c]
    BY Zenon, <1>1
  <1> HIDE DEF F
  <1>8. J = F(o, b, n, c)
    BY Zenon, <1>2, <1>3, <1>4, <1>5, <1>6 DEF FreshJob
  <1> QED
    BY Zenon, <1>7, <1>8

LEMMA JobSecond ==
  ASSUME NEW J, JobRecord(J), NEW K, K = [J EXCEPT !.second = TRUE]
  PROVE  JobRecord(K) /\ K.ofs = J.ofs /\ K.second = TRUE
  <1> DEFINE F(x) == [ofs |-> J.ofs, buf |-> J.buf, end |-> J.end, odata |-> J.odata, meta |-> J.meta,
                      small |-> J.small, second |-> x, caller |-> J.caller]
  <1>1. PICK yes : yes = TRUE
    BY Zenon
  <1>2. J = F(J.second)
    BY Zenon DEF JobRecord
  <1>3. [F(J.second) EXCEPT !.second = yes] = F(yes)
    OBVIOUS
  <1> HIDE DEF F
  <1>4. K = F(yes)
    BY Zenon, <1>1, <1>2, <1>3
  <1>5. K = [ofs |-> J.ofs, buf |-> J.buf, end |-> J.end, odata |-> J.odata, meta |-> J.meta,
             small |-> J.small, second |-> TRUE, caller |-> J.caller]
    BY Zenon, <1>1, <1>4 DEF F
  <1> QED
    BY Zenon, <1>5 DEF JobRecord

LEMMA CallBusy ==
  ASSUME NEW c, Call(c), NEW new, new = [calls[c] EXCEPT !.busy = TRUE]
  PROVE  /\ new = [ofs |-> new.ofs, left |-> new.left, busy |-> new.busy]
         /\ new.ofs = calls[c].ofs /\ new.left = calls[c].left
  <1>1. new = [ofs |-> calls[c].ofs, left |-> calls[c].left, busy |-> TRUE]
    BY Zenon DEF Call
  <1> QED
    BY Zenon, <1>1

LEMMA WriteStep ==
  ASSUME RInv, NEW c \in Callers, NEW j \in Jobs, Write(c, j)
  PROVE  RInv' /\ StoreStep
  <1>1. /\ pc[j] = "idle" /\ calls[c].left > 0 /\ Goto(j, "metaLock")
        /\ UNCHANGED <<root, named, durable, trs, now, meta, closedWait, slotWait, extLock>>
    BY Zenon DEF Write, huggerVars
  <1>2. JobInvariant(j) /\ Call(c) /\ j \in Procs /\ Shape /\ Roots
    BY Zenon, Distinct DEF RInv
  <1>3. trs[j] = <<>>
    BY Zenon, <1>1, <1>2 DEF JobInvariant, Clean
  <1>4. PICK o \in Int, l \in Int : o = calls[c].ofs /\ l = calls[c].left /\ ExtentOf(o) \in FileExtents
    <2>1. calls[c].ofs \in calls[c].ofs..(calls[c].ofs + calls[c].left - 1)
      BY <1>1, <1>2 DEF Call
    <2> QED
      BY Zenon, <1>2, <2>1 DEF Call
  <1>5. PICK J : /\ job' = [job EXCEPT ![j] = J] /\ J.ofs = o /\ ~J.second /\ JobRecord(J)
    <2> DEFINE w == Least(l, DataExtentSize - (o % DataExtentSize))
    <2>1. w \in Nat
      <3>1. o % DataExtentSize \in 0..(DataExtentSize - 1)
        BY DataExtentSizeAssumption
      <3> QED
        BY <1>1, <1>4, <3>1, DataExtentSizeAssumption DEF Least
    <2>2. job' = [job EXCEPT ![j] = [NoJob EXCEPT !.caller = c, !.ofs = o, !.end = o + l,
                                                  !.buf = [i \in 1..w |-> c]]]
      BY Zenon, <1>4 DEF Write
    <2> HIDE DEF w
    <2>3. PICK b, n, J : /\ b = [i \in 1..w |-> c] /\ n = o + l
                         /\ FreshJob(J, c, o, n, b)
                         /\ job' = [job EXCEPT ![j] = J]
      BY Zenon, <2>2 DEF FreshJob
    <2>4. /\ J.buf = b /\ J.ofs = o /\ J.second = FALSE
          /\ J = [ofs |-> J.ofs, buf |-> J.buf, end |-> J.end, odata |-> J.odata, meta |-> J.meta,
                  small |-> J.small, second |-> J.second, caller |-> J.caller]
      <3>1. J = [ofs |-> o, buf |-> b, end |-> n, odata |-> <<>>, meta |-> <<>>,
                 small |-> FALSE, second |-> FALSE, caller |-> c]
        BY Zenon, <2>3, NewJob
      <3> QED
        BY Zenon, <3>1
    <2>5. Len(J.buf) \in Nat
      BY <2>1, <2>3, <2>4
    <2> QED
      BY Zenon, <2>3, <2>4, <2>5 DEF JobRecord
  <1>6. DOMAIN job' = DOMAIN job /\ job'[j] = J /\ \A k \in Jobs \ {j} : job'[k] = job[k]
    BY Zenon, <1>2, <1>5 DEF Shape
  <1>7. DOMAIN calls' = DOMAIN calls /\ \A x \in Callers : Call(x)'
    <2>1. calls' = [calls EXCEPT ![c] = [calls[c] EXCEPT !.busy = TRUE]]
      BY Zenon DEF Write
    <2>2. DOMAIN calls' = DOMAIN calls /\ calls'[c] = [calls[c] EXCEPT !.busy = TRUE]
          /\ \A x \in Callers \ {c} : calls'[x] = calls[x]
      BY Zenon, <1>2, <2>1 DEF Shape
    <2>3. Call(c)'
      <3>1. PICK new : new = calls'[c] /\ new = [calls[c] EXCEPT !.busy = TRUE]
        BY Zenon, <2>2
      <3>2. /\ new = [ofs |-> new.ofs, left |-> new.left, busy |-> new.busy]
            /\ new.ofs = calls[c].ofs /\ new.left = calls[c].left
        BY Zenon, <1>2, <3>1, CallBusy
      <3> QED
        BY Zenon, <1>2, <3>1, <3>2 DEF Call
    <2>4. \A x \in Callers \ {c} : Call(x)'
      BY Zenon, <2>2 DEF RInv, Call
    <2> QED
      BY Zenon, <2>2, <2>3, <2>4
  <1>8. Moves(j) /\ DOMAIN pc' = DOMAIN pc /\ pc'[j] = "metaLock"
    BY Zenon, <1>1, <1>6, MovesAlone
  <1>9. WaitInvariant'
    <2>1. pc[j] # "slotWait"
      BY Zenon, <1>1
    <2> QED
      BY Zenon, <1>1, <1>2, <2>1, WaitOthers DEF RInv
  <1>10. Shape' /\ Roots'
    BY Zenon, <1>1, <1>2, <1>6, <1>7, <1>8, ShapeKept, RootsKept
  <1>11. JobInvariant(j)'
    <2>1. /\ pc'[j] \in Clean /\ pc'[j] \notin Editing /\ pc'[j] \notin Locking
          /\ trs'[j] = <<>>
      BY Zenon, <1>1, <1>3, <1>8 DEF Clean, Editing, Locking
    <2>2. ExtentOf(job'[j].ofs) \in FileExtents /\ JobRecord(job'[j]) /\ ~job'[j].second
      BY Zenon, <1>4, <1>5, <1>6
    <2> QED
      BY Zenon, <2>1, <2>2 DEF JobInvariant
  <1>12. RInv' /\ \A q \in Procs \ {j} : Pending(q)' = Pending(q)
    BY Zenon, <1>7, <1>8, <1>9, <1>10, <1>11, MovesInv
  <1>13. Pending(j)' = Pending(j)
    BY Zenon, <1>1, <1>3, PendingKept
  <1> QED
    BY Zenon, <1>1, <1>12, <1>13, StutterStep

LEMMA EndWriteStep == ASSUME RInv, NEW j \in Jobs, EndWrite(j) PROVE RInv' /\ StoreStep
  <1> DEFINE e == ExtentOf(job[j].ofs)
  <1>1. /\ pc[j] = "done" /\ ReleaseSlots(j, "idle") /\ extLock' = [extLock EXCEPT ![e] = None]
        /\ job' = [job EXCEPT ![j] = NoJob]
        /\ UNCHANGED <<root, named, durable, trs, now, meta, closedWait, calls>>
    BY Zenon DEF EndWrite, huggerVars
  <1>2. JobInvariant(j) /\ j \in Procs /\ Shape /\ Roots /\ WaitInvariant /\ pc[j] # "slotWait"
    BY Zenon, <1>1, Distinct DEF RInv
  <1>3. trs[j] = <<>> /\ extLock[e] = j
    BY Zenon, <1>1, <1>2 DEF JobInvariant, Clean, Locking
  <1> HIDE DEF e
  <1>4. /\ WaitInvariant' /\ DOMAIN pc' = DOMAIN pc /\ pc'[j] = "idle"
        /\ pc'[Setter] = pc[Setter] /\ pc'[Reader] = pc[Reader]
        /\ \A q \in Jobs \ {j} : pc'[q] = pc[q] \/ (pc[q] = "slotWait" /\ pc'[q] = "slot")
    BY Zenon, <1>1, <1>2, SlotWakes
  <1>5. /\ DOMAIN job' = DOMAIN job /\ job'[j] = NoJob /\ \A k \in Jobs \ {j} : job'[k] = job[k]
        /\ DOMAIN extLock' = DOMAIN extLock
        /\ \A k \in Jobs \ {j} : \A x \in FileExtents : extLock[x] = k => extLock'[x] = k
    BY Zenon, <1>1, <1>2, <1>3 DEF Shape, Extents
  <1>6. Moves(j)
    <2>1. now' \in Nat /\ now <= now'
      BY <1>1, <1>2 DEF Roots
    <2> QED
      BY Zenon, <1>1, <1>4, <1>5, <2>1 DEF Moves
  <1>7. Shape' /\ Roots' /\ \A c \in Callers : Call(c)'
    BY Zenon, <1>1, <1>2, <1>4, <1>5, ShapeKept, RootsKept, CallsKept DEF RInv
  <1>8. JobInvariant(j)'
    <2>1. /\ pc'[j] \in Clean /\ pc'[j] \notin Editing /\ pc'[j] \notin Locking
          /\ trs'[j] = <<>> /\ pc'[j] = "idle"
      BY Zenon, <1>1, <1>3, <1>4 DEF Clean, Editing, Locking
    <2>2. JobRecord(NoJob) /\ ~NoJob.second
      BY Zenon DEF NoJob, JobRecord
    <2> QED
      BY Zenon, <1>5, <2>1, <2>2 DEF JobInvariant
  <1>9. RInv' /\ \A q \in Procs \ {j} : Pending(q)' = Pending(q)
    BY Zenon, <1>4, <1>6, <1>7, <1>8, MovesInv
  <1>10. Pending(j)' = Pending(j)
    BY Zenon, <1>1, <1>3, PendingKept
  <1> QED
    BY Zenon, <1>1, <1>9, <1>10, StutterStep

LEMMA MetaSized ==
  ASSUME NEW m, MetaRecord(m), NEW n
  PROVE  MetaRecord(SetMetaSize(m, n))
  <1>1. CASE n = m.size
    BY Zenon, <1>1 DEF SetMetaSize
  <1>2. CASE n # m.size
    <2> DEFINE d == IF n > EmbeddedSize THEN <<>> ELSE m.data
               F(x, y) == [ctime |-> m.ctime, dir |-> m.dir, size |-> x, data |-> y]
               k == [m EXCEPT !.size = n]
    <2>1. m = F(m.size, m.data)
      BY Zenon DEF MetaRecord
    <2>2. k = F(n, m.data)
      BY DEF MetaRecord
    <2>3. SetMetaSize(m, n) = [k EXCEPT !.data = IF n > EmbeddedSize THEN <<>> ELSE k.data]
      BY Zenon, <1>2 DEF SetMetaSize
    <2>4. k.data = m.data
      BY Zenon, <2>2
    <2> HIDE DEF k
    <2>5. SetMetaSize(m, n) = [k EXCEPT !.data = d]
      BY Zenon, <2>3, <2>4
    <2> HIDE DEF d
    <2>6. SetMetaSize(m, n) = F(n, d)
      BY Zenon, <2>2, <2>5
    <2> QED
      BY Zenon, <2>6 DEF MetaRecord
  <1> QED
    BY Zenon, <1>1, <1>2

LEMMA MetaBegun ==
  ASSUME NEW s, MetaRecord(s), NEW d, NEW t, NEW m, BegunMeta(m, s, d, t)
  PROVE  MetaRecord(m) /\ m.ctime = t
  <1>1. m = [ctime |-> t, dir |-> s.dir, size |-> s.size, data |-> d]
    BY Zenon DEF MetaRecord, BegunMeta
  <1> QED
    BY Zenon, <1>1 DEF MetaRecord

LEMMA JobBegun ==
  ASSUME NEW J, JobRecord(J), NEW m, NEW o, NEW s, NEW K, BegunJob(K, J, m, o, s)
  PROVE  JobRecord(K) /\ K.ofs = J.ofs /\ K.second = J.second
  <1> DEFINE F(x, y, z) == [ofs |-> J.ofs, buf |-> J.buf, end |-> J.end, odata |-> y, meta |-> x,
                            small |-> z, second |-> J.second, caller |-> J.caller]
  <1>1. J = F(J.meta, J.odata, J.small)
    BY Zenon DEF JobRecord
  <1>2. [F(J.meta, J.odata, J.small) EXCEPT !.meta = m] = F(m, J.odata, J.small)
    OBVIOUS
  <1>3. [F(m, J.odata, J.small) EXCEPT !.odata = o] = F(m, o, J.small)
    OBVIOUS
  <1>4. [F(m, o, J.small) EXCEPT !.small = s] = F(m, o, s)
    OBVIOUS
  <1> HIDE DEF F
  <1>5. K = F(m, o, s)
    BY Zenon, <1>1, <1>2, <1>3, <1>4 DEF BegunJob
  <1>6. K = [ofs |-> J.ofs, buf |-> J.buf, end |-> J.end, odata |-> o, meta |-> m,
             small |-> s, second |-> J.second, caller |-> J.caller]
    BY Zenon, <1>5 DEF F
  <1> QED
    BY Zenon, <1>6 DEF JobRecord

(* The first transaction: the metadata, with the time of the call.         *)
LEMMA BeginWriteStep == ASSUME RInv, NEW j \in Jobs, BeginWrite(j) PROVE RInv' /\ StoreStep
  <1>1. PICK m, s, d, o, e, K :
          /\ pc[j] = "begin" /\ GetTransaction(j, TreeSet(root, MetaKey(Ino), m))
          /\ now' = now + 1 /\ meta' = m
          /\ BegunMeta(m, s, d, now + 1) /\ (s = meta \/ \E n : s = SetMetaSize(meta, n))
          /\ BegunJob(K, job[j], m, o, e) /\ job' = [job EXCEPT ![j] = K]
          /\ Goto(j, "slot")
          /\ UNCHANGED <<root, named, durable, closedWait, extLock, calls, slotWait>>
    <2> DEFINE J      == job[j]
               e      == ExtentOf(J.ofs)
               offset == e * DataExtentSize
               odata  == IF meta.size <= EmbeddedSize /\ e = 0 THEN meta.data ELSE <<>>
               sized  == IF J.end > meta.size THEN SetMetaSize(meta, J.end) ELSE meta
               small  == sized.size <= EmbeddedSize /\ J.end <= EmbeddedSize
               data   == IF small
                         THEN ExtentAfterWrite(sized, meta, root, Ino, odata, J.buf,
                                               J.ofs - offset, offset, J.end)
                         ELSE sized.data
               m      == [sized EXCEPT !.data = data, !.ctime = now + 1]
               K      == [job[j] EXCEPT !.meta = m, !.odata = odata, !.small = small]
    <2>1. /\ pc[j] = "begin" /\ GetTransaction(j, TreeSet(root, MetaKey(Ino), m))
          /\ now' = now + 1 /\ meta' = m
          /\ job' = [job EXCEPT ![j].meta = m, ![j].odata = odata, ![j].small = small]
          /\ Goto(j, "slot")
          /\ UNCHANGED <<root, named, durable, closedWait, extLock, calls, slotWait>>
      BY Zenon DEF BeginWrite
    <2>2. BegunMeta(m, sized, data, now + 1)
          /\ (sized = meta \/ \E n : sized = SetMetaSize(meta, n))
      BY Zenon DEF BegunMeta
    <2> HIDE DEF m, small, odata, data, sized
    <2>3. BegunJob(K, job[j], m, odata, small)
      BY Zenon DEF BegunJob
    <2>4. job' = [job EXCEPT ![j] = K]
      <3>1. j \in DOMAIN job
        BY Zenon DEF RInv, Shape
      <3> QED
        BY Zenon, <2>1, <3>1
    <2> HIDE DEF K
    <2> WITNESS m, sized, data, odata, small, K
    <2> QED
      BY Zenon, <2>1, <2>2, <2>3, <2>4
  <1>2. JobInvariant(j) /\ j \in Procs /\ Shape /\ Roots /\ JobRecord(job[j])
    BY Zenon, Distinct DEF RInv, JobInvariant
  <1>3. /\ trs[j] = <<>> /\ ~job[j].second /\ ExtentOf(job[j].ofs) \in FileExtents
        /\ extLock[ExtentOf(job[j].ofs)] = j
    BY Zenon, <1>1, <1>2 DEF JobInvariant, Clean, Locking, Early
  <1>4. MetaRecord(m) /\ m.ctime = now + 1
    <2>1. MetaRecord(s)
      BY Zenon, <1>1, <1>2, MetaSized DEF Roots
    <2>2. BegunMeta(m, s, d, now + 1)
      BY Zenon, <1>1
    <2> QED
      BY Zenon, <2>1, <2>2, MetaBegun
  <1>5. /\ DOMAIN job' = DOMAIN job /\ \A k \in Jobs \ {j} : job'[k] = job[k]
        /\ JobRecord(job'[j]) /\ job'[j].ofs = job[j].ofs /\ ~job'[j].second
    <2>1. DOMAIN job' = DOMAIN job /\ job'[j] = K /\ \A k \in Jobs \ {j} : job'[k] = job[k]
      BY Zenon, <1>1, <1>2 DEF Shape
    <2>2. JobRecord(K) /\ K.ofs = job[j].ofs /\ K.second = job[j].second
      <3>1. BegunJob(K, job[j], m, o, e) /\ JobRecord(job[j])
        BY Zenon, <1>1, <1>2
      <3> QED
        BY <3>1, JobBegun
    <2> QED
      BY Zenon, <1>3, <2>1, <2>2
  <1>tr. PICK tree, t : /\ tree = TreeSet(root, MetaKey(Ino), m)
                        /\ Begins(t, tree)
    BY Zenon DEF Begins
  <1>6. DOMAIN pc' = Procs /\ pc'[j] = "slot" /\ \A q \in Procs \ {j} : pc'[q] = pc[q]
    BY Zenon, <1>1, <1>2 DEF Goto, Shape
  <1>7. /\ Shape' /\ trs'[j] # <<>> /\ \A q \in Procs \ {j} : trs'[q] = trs[q]
        /\ \A i \in DOMAIN trs'[j] : trs'[j][i] = t
    <2>1. /\ Shape /\ j \in Jobs \cup {Setter, Reader} /\ DOMAIN pc' = DOMAIN pc
          /\ GetNestableTransaction(j, tree)
          /\ UNCHANGED <<extLock, calls>> /\ DOMAIN job' = DOMAIN job /\ DOMAIN trs[j] = {}
      <3>1. Shape /\ DOMAIN pc = Procs /\ j \in Jobs \cup {Setter, Reader}
        BY Zenon, <1>1, <1>2 DEF Shape
      <3>2. GetNestableTransaction(j, tree) /\ UNCHANGED <<extLock, calls>>
        BY Zenon, <1>1, <1>tr DEF GetTransaction, GetNestableTransaction
      <3> QED
        BY <1>3, <1>5, <1>6, <3>1, <3>2
    <2>2. /\ Shape' /\ trs'[j] # <<>> /\ \A q \in Procs \ {j} : trs'[q] = trs[q]
          /\ \A i \in DOMAIN trs'[j] : trs'[j][i] = t \/ i \in DOMAIN trs[j]
      <3>1. Begins(t, tree)
        BY Zenon, <1>tr
      <3>2. Pushed(j, t)
        BY Zenon, <2>1, <3>1, PushStack
      <3> QED
        BY Zenon, <3>2 DEF Pushed
    <2> QED
      BY Zenon, <2>1, <2>2
  <1>8. now \in Nat /\ now' \in Nat /\ now <= now' /\ m.ctime \in 0..now' /\ m.ctime > Ctime(root)
        /\ Ctime(root) <= now' /\ Ctime(root) \in Nat
    BY <1>1, <1>2, <1>4 DEF Roots, Tree
  <1>9. Moves(j)
    BY Zenon, <1>1, <1>5, <1>6, <1>7, <1>8, Distinct DEF Moves
  <1>10. Roots'
    BY Zenon, <1>1, <1>2, <1>4, <1>8 DEF Roots, Tree, Ctime
  <1>11. WaitInvariant' /\ \A c \in Callers : Call(c)'
    <2>1. pc[j] # "slotWait"
      BY Zenon, <1>1
    <2> QED
      BY Zenon, <1>1, <1>2, <2>1, WaitOthers, CallsKept DEF RInv
  <1>12. JobInvariant(j)'
    <2>1. /\ pc'[j] \in Editing /\ pc'[j] \notin Clean /\ pc'[j] # "idle" /\ ~job'[j].second
      BY Zenon, <1>5, <1>6 DEF Clean, Editing
    <2>2. tree = Put(root, MetaKey(Ino), m)
      BY <1>tr, <1>8 DEF Put
    <2>3. KeyOf(j)' = MetaKey(Ino)
      BY Zenon, <1>5 DEF KeyOf
    <2>4. t.src = root /\ t.dst = tree
      BY Zenon, <1>tr DEF Begins
    <2>5. Ctime(root) <= Ctime(root)
      BY <1>8
    <2>6. Sets(t, j, m)'
      BY Zenon, <1>1, <1>2, <1>5, <2>2, <2>3, <2>4, <2>5 DEF Sets, Roots, Tree, Ctime, Put
    <2>7. Edits(j)'
      BY Zenon, <1>7, <1>8, <2>6 DEF Edits
    <2> QED
      BY Zenon, <1>1, <1>3, <1>5, <1>7, <2>1, <2>7 DEF JobInvariant
  <1>13. RInv' /\ \A q \in Procs \ {j} : Pending(q)' = Pending(q)
    BY Zenon, <1>7, <1>9, <1>10, <1>11, <1>12, MovesInv
  <1>14. Pending(j) = <<>>
    BY Zenon, <1>3, PendingNone
  <1> QED
    BY Zenon, <1>1, <1>2, <1>13, <1>14, AskStep

(* The second transaction: the extent, which nobody else may write now.    *)
LEMMA ExtentKey ==
  ASSUME NEW x \in Int, NEW y \in Int,
         NewBlockKeyOffset(Ino, x * DataExtentSize) = NewBlockKeyOffset(Ino, y * DataExtentSize)
  PROVE  x = y
  <1>1. \A e \in Int : (e * DataExtentSize) \div DataExtentSize = e
    BY DataExtentSizeAssumption, SMTT(30)
  <1>2. PICK d, e : d = (x * DataExtentSize) \div DataExtentSize
                    /\ e = (y * DataExtentSize) \div DataExtentSize
    BY Zenon
  <1>3. NewBlockKey(Ino, BST_FILE_OFFSET2EXTENT, <<d>>) = NewBlockKey(Ino, BST_FILE_OFFSET2EXTENT, <<e>>)
    BY Zenon, <1>2 DEF NewBlockKeyOffset
  <1>4. d = e
    BY Zenon, <1>3 DEF NewBlockKey
  <1> QED
    BY Zenon, <1>1, <1>2, <1>4

LEMMA KeysDiffer ==
  ASSUME NEW x
  PROVE  /\ NewBlockKeyOffset(Ino, x) # MetaKey(Ino) /\ NewBlockKeyOffset(Ino, x) # XAttrKey
         /\ NewBlockKeyOffset(Ino, x).st # BST_META
         /\ XAttrKey # MetaKey(Ino) /\ XAttrKey.st # BST_META
  <1>1. /\ NewBlockKeyOffset(Ino, x).st = BST_FILE_OFFSET2EXTENT /\ MetaKey(Ino).st = BST_META
        /\ XAttrKey.st = BST_XATTR
    BY Zenon DEF NewBlockKeyOffset, MetaKey, XAttrKey, NewBlockKey
  <1> QED
    BY <1>1 DEF BST_META, BST_XATTR, BST_FILE_OFFSET2EXTENT

LEMMA WriteExtentStep == ASSUME RInv, NEW j \in Jobs, WriteExtent(j) PROVE RInv' /\ StoreStep
  <1>1. PICK v, x :
          /\ pc[j] = "begin2" /\ x = ExtentOf(job[j].ofs) * DataExtentSize
          /\ GetTransaction(j, TreeSet(root, NewBlockKeyOffset(Ino, x), v))
          /\ job' = [job EXCEPT ![j] = [job[j] EXCEPT !.second = TRUE]]
          /\ Goto(j, "commit")
          /\ UNCHANGED <<root, named, durable, closedWait, extLock, calls, slotWait, now, meta>>
    BY Zenon DEF WriteExtent
  <1>2. JobInvariant(j) /\ j \in Procs /\ Shape /\ Roots /\ JobRecord(job[j])
    BY Distinct DEF RInv, JobInvariant
  <1>3. /\ trs[j] = <<>> /\ ExtentOf(job[j].ofs) \in FileExtents /\ extLock[ExtentOf(job[j].ofs)] = j
    BY Zenon, <1>1, <1>2 DEF JobInvariant, Clean, Locking
  <1>4. /\ DOMAIN job' = DOMAIN job /\ \A k \in Jobs \ {j} : job'[k] = job[k]
        /\ JobRecord(job'[j]) /\ job'[j].ofs = job[j].ofs /\ job'[j].second = TRUE
    <2>1. PICK K : /\ K = job'[j] /\ K = [job[j] EXCEPT !.second = TRUE]
                   /\ DOMAIN job' = DOMAIN job /\ \A k \in Jobs \ {j} : job'[k] = job[k]
      BY Zenon, <1>1, <1>2 DEF Shape
    <2>2. JobRecord(K) /\ K.ofs = job[j].ofs /\ K.second = TRUE
      BY Zenon, <1>2, <2>1, JobSecond
    <2> QED
      BY Zenon, <2>1, <2>2
  <1>tr. PICK key, tree, t : /\ key = NewBlockKeyOffset(Ino, x) /\ tree = TreeSet(root, key, v)
                             /\ Begins(t, tree)
    BY Zenon DEF Begins
  <1>5. DOMAIN pc' = Procs /\ pc'[j] = "commit" /\ \A q \in Procs \ {j} : pc'[q] = pc[q]
    BY Zenon, <1>1, <1>2 DEF Goto, Shape
  <1>6. /\ Shape' /\ trs'[j] # <<>> /\ \A q \in Procs \ {j} : trs'[q] = trs[q]
        /\ \A i \in DOMAIN trs'[j] : trs'[j][i] = t
    <2>1. /\ Shape /\ j \in Jobs \cup {Setter, Reader} /\ DOMAIN pc' = DOMAIN pc
          /\ GetNestableTransaction(j, tree)
          /\ UNCHANGED <<extLock, calls>> /\ DOMAIN job' = DOMAIN job /\ DOMAIN trs[j] = {}
      BY <1>1, <1>2, <1>3, <1>tr, <1>4, <1>5 DEF GetTransaction, GetNestableTransaction, Shape
    <2>2. Begins(t, tree)
      BY Zenon, <1>tr
    <2>3. Pushed(j, t)
      BY Zenon, <2>1, <2>2, PushStack
    <2> QED
      BY Zenon, <2>1, <2>3 DEF Pushed
  <1>7. Moves(j)
    <2>1. now \in Nat /\ now' \in Nat /\ now <= now'
      BY <1>1, <1>2 DEF Roots
    <2> QED
      BY Zenon, <1>1, <1>4, <1>5, <1>6, <2>1, Distinct DEF Moves
  <1>8. WaitInvariant' /\ Roots' /\ \A c \in Callers : Call(c)'
    <2>1. pc[j] # "slotWait"
      BY Zenon, <1>1
    <2> QED
      BY Zenon, <1>1, <1>2, <2>1, WaitOthers, CallsKept, RootsKept DEF RInv
  <1>9. JobInvariant(j)'
    <2>1. /\ pc'[j] \in Editing /\ pc'[j] \notin Clean /\ pc'[j] \notin Early /\ pc'[j] # "idle"
      BY Zenon, <1>5 DEF Clean, Editing, Early
    <2>2. tree = Put(root, key, v)
      BY Zenon, <1>tr, KeysDiffer DEF Put
    <2>3. KeyOf(j)' = key
      BY Zenon, <1>1, <1>tr, <1>4 DEF KeyOf
    <2>4. t.src = root /\ t.dst = tree
      BY Zenon, <1>tr DEF Begins
    <2>5. Ctime(root) <= Ctime(root)
      BY <1>2 DEF Roots, Tree
    <2>6. SameAt(root, root, key)
      BY Zenon DEF SameAt
    <2>7. Sets(t, j, v)'
      BY Zenon, <1>1, <1>2, <2>2, <2>3, <2>4, <2>5, <2>6 DEF Sets, Roots, Tree, Ctime, Put
    <2>8. Edits(j)'
      BY Zenon, <1>4, <1>6, <2>7 DEF Edits
    <2> QED
      BY Zenon, <1>1, <1>3, <1>4, <1>6, <2>1, <2>8 DEF JobInvariant
  <1>10. RInv' /\ \A q \in Procs \ {j} : Pending(q)' = Pending(q)
    BY Zenon, <1>6, <1>7, <1>8, <1>9, MovesInv
  <1>11. Pending(j) = <<>>
    BY Zenon, <1>3, PendingNone
  <1> QED
    BY Zenon, <1>1, <1>2, <1>10, <1>11, AskStep

LEMMA CloseWriteStep == ASSUME RInv, NEW j \in Jobs, CloseWrite(j) PROVE RInv' /\ StoreStep
  <1>1. PICK next : /\ pc[j] = "close" /\ next \in {"done", "begin2"} /\ Close(j, next)
                    /\ UNCHANGED localVars
    BY Zenon DEF CloseWrite
  <1>2. /\ trs' = [trs EXCEPT ![j] = Front(@)] /\ UNCHANGED <<root, named, durable>>
        /\ UNCHANGED <<job, now, meta, extLock, calls, slotWait>>
    BY Zenon, <1>1 DEF Close, localVars
  <1>3. JobInvariant(j) /\ j \in Procs /\ Shape /\ Roots /\ WaitInvariant
    BY Zenon, Distinct DEF RInv
  <1>4. /\ trs[j] # <<>> /\ ExtentOf(job[j].ofs) \in FileExtents /\ extLock[ExtentOf(job[j].ofs)] = j
    BY Zenon, <1>1, <1>3 DEF JobInvariant, Clean, Locking
  <1>5. /\ WaitInvariant' /\ DOMAIN pc' = DOMAIN pc
        /\ pc'[j] = IF Len(trs[j]) = 1 THEN next ELSE pc[j]
        /\ \A q \in (Jobs \cup {Setter, Reader}) \ {j} : pc'[q] = pc[q]
    <2>1. pc[j] # "slotWait" /\ next # "slotWait" /\ UNCHANGED slotWait
      BY Zenon, <1>1, <1>2
    <2>2. j \in Jobs \cup {Setter, Reader}
      BY Zenon
    <2> QED
      BY Zenon, <1>1, <1>3, <2>1, <2>2, CloseWakes
  <1>6. /\ Shape' /\ (trs'[j] = <<>> <=> Len(trs[j]) = 1)
        /\ \A q \in Procs \ {j} : trs'[q] = trs[q]
    <2>1. UNCHANGED <<job, extLock, calls>>
      BY Zenon, <1>2
    <2> QED
      BY Zenon, <1>2, <1>3, <1>4, <1>5, <2>1, PopStack
  <1>7. Moves(j)
    <2>1. now \in Nat /\ now' \in Nat /\ now <= now'
      BY <1>2, <1>3 DEF Roots
    <2> QED
      BY Zenon, <1>2, <1>5, <1>6, <2>1, Distinct DEF Moves
  <1>8. Roots' /\ \A c \in Callers : Call(c)'
    BY Zenon, <1>2, <1>3, RootsKept, CallsKept DEF RInv
  <1>9. JobInvariant(j)'
    <2>1. /\ pc'[j] \in Clean \cup Editing \cup {"close"} /\ pc'[j] \notin Editing /\ pc'[j] # "idle"
          /\ (pc'[j] \in Clean <=> Len(trs[j]) = 1) /\ pc'[j] \notin Early
      BY Zenon, <1>1, <1>5 DEF Clean, Editing, Early
    <2>2. JobRecord(job'[j])
      BY Zenon, <1>2, <1>3 DEF JobInvariant
    <2> QED
      BY Zenon, <1>2, <1>4, <1>6, <2>1, <2>2 DEF JobInvariant
  <1>10. RInv' /\ \A q \in Procs \ {j} : Pending(q)' = Pending(q)
    BY Zenon, <1>5, <1>6, <1>7, <1>8, <1>9, MovesInv
  <1>11. Pending(j) = <<>> /\ Pending(j)' = <<>>
    <2>1. pc[j] \in Quiet /\ (trs'[j] = <<>> \/ pc'[j] \in Quiet)
      BY Zenon, <1>1, <1>5, <1>6 DEF Quiet
    <2> QED
      BY Zenon, <2>1, PendingNone, NextPendingNone
  <1> QED
    BY Zenon, <1>2, <1>10, <1>11, StutterStep

(* What a job's transactions have in common, taken apart.                  *)
LEMMA JobKey ==
  ASSUME RInv, NEW j \in Jobs, pc[j] \in Editing
  PROVE  /\ KeyOf(j).st = BST_META => KeyOf(j) = MetaKey(Ino)
         /\ job[j].second \in BOOLEAN /\ (KeyOf(j) = MetaKey(Ino) <=> ~job[j].second)
         /\ trs[j] # <<>> /\ 1 \in DOMAIN trs[j]
         /\ Len(trs[j]) \in DOMAIN trs[j] /\ Top(j) = trs[j][Len(trs[j])]
  <1>1. JobInvariant(j) /\ Stack(trs[j])
    BY Zenon, Distinct DEF RInv, Shape
  <1>2. job[j].second \in BOOLEAN /\ trs[j] # <<>>
    BY Zenon, <1>1 DEF JobInvariant, JobRecord, Clean, Editing
  <1>3. Len(trs[j]) \in DOMAIN trs[j] /\ Top(j) = trs[j][Len(trs[j])]
    BY Zenon, <1>1, <1>2, TopOfStack DEF Top
  <1>4. 1 \in DOMAIN trs[j]
    <2>1. Len(trs[j]) \in Nat /\ DOMAIN trs[j] = 1..Len(trs[j])
      BY Zenon, <1>1, StackSeq
    <2> QED
      BY <1>3, <2>1
  <1>5. CASE job[j].second
    <2>1. KeyOf(j) = NewBlockKeyOffset(Ino, ExtentOf(job[j].ofs) * DataExtentSize)
      BY Zenon, <1>5 DEF KeyOf
    <2> QED
      BY Zenon, <1>2, <1>3, <1>4, <1>5, <2>1, KeysDiffer
  <1>6. CASE ~job[j].second
    <2>1. KeyOf(j) = MetaKey(Ino)
      BY Zenon, <1>6 DEF KeyOf
    <2> QED
      BY Zenon, <1>2, <1>3, <1>4, <1>6, <2>1
  <1> QED
    BY Zenon, <1>5, <1>6

LEMMA RetryWriteStep == ASSUME RInv, NEW j \in Jobs, RetryWrite(j) PROVE RInv' /\ StoreStep
  <1>1. /\ pc[j] = "merge"
        /\ GetNestableTransaction(j, MergeTo3(root, Top(j).src, Top(j).dst, TRUE))
        /\ Goto(j, "commit")
        /\ UNCHANGED <<root, named, durable, closedWait, job, now, meta, extLock, calls, slotWait>>
    BY Zenon DEF RetryWrite, MergeAndRetry, localVars, Goto
  <1>2. JobInvariant(j) /\ j \in Procs /\ Shape /\ Roots /\ pc[j] \in Editing /\ pc[j] \in Locking
    BY Zenon, <1>1, Distinct DEF RInv, Editing, Locking
  <1>3. Edits(j)
    BY Zenon, <1>2 DEF JobInvariant
  <1>4. PICK v : /\ ~job[j].second => v.ctime \in 0..now
                 /\ \A i \in DOMAIN trs[j] : Sets(trs[j][i], j, v)
    BY Zenon, <1>3 DEF Edits
  <1>5. PICK k, top : /\ k = KeyOf(j) /\ top = Top(j) /\ Sets(top, j, v)
                      /\ (k.st = BST_META => k = MetaKey(Ino)) /\ (k = MetaKey(Ino) <=> ~job[j].second)
                      /\ trs[j] # <<>> /\ 1 \in DOMAIN trs[j] /\ job[j].second \in BOOLEAN
    BY Zenon, <1>2, <1>4, JobKey
  <1>6. now \in Nat /\ Tree(root) /\ Ctime(root) \in Nat
    BY Zenon, <1>2 DEF Roots, Tree
  <1>7. MergeTo3(root, top.src, top.dst, TRUE) = Put(root, k, v)
    <2>1. /\ Tree(top.src) /\ Ctime(top.src) <= Ctime(root) /\ top.dst = Put(top.src, k, v)
          /\ (k # MetaKey(Ino) => SameAt(top.src, root, k)) /\ (k = MetaKey(Ino) => v.ctime \in 0..now)
      BY Zenon, <1>4, <1>5 DEF Sets
    <2>2. k = MetaKey(Ino) => v.ctime \in Nat
      BY <1>6, <2>1
    <2>3. PICK s : s = top.src
      BY Zenon
    <2>4. Mergeable(root, s, k, v)
      BY Zenon, <1>5, <1>6, <2>1, <2>2, <2>3 DEF Mergeable
    <2>5. Merged(root, s, Put(s, k, v)) = Put(root, k, v)
      BY Zenon, <2>4, MergePut
    <2> QED
      BY Zenon, <2>1, <2>3, <2>5 DEF Merged
  <1>tr. PICK tree, t : tree = Put(root, k, v) /\ Begins(t, tree)
    BY Zenon DEF Begins
  <1>8. DOMAIN pc' = DOMAIN pc /\ pc'[j] = "commit" /\ \A q \in Procs \ {j} : pc'[q] = pc[q]
    BY Zenon, <1>1, <1>2 DEF Goto, Shape
  <1>9. Pushed(j, t)
    <2>1. /\ Begins(t, tree) /\ GetNestableTransaction(j, tree)
          /\ UNCHANGED <<extLock, calls>> /\ DOMAIN job' = DOMAIN job
          /\ j \in Jobs \cup {Setter, Reader} /\ DOMAIN pc' = DOMAIN pc /\ Shape
      BY Zenon, <1>1, <1>2, <1>5, <1>7, <1>tr, <1>8
    <2> QED
      BY Zenon, <2>1, PushStack
  <1>10. /\ Shape' /\ trs'[j] # <<>> /\ \A q \in Procs \ {j} : trs'[q] = trs[q]
         /\ \A i \in DOMAIN trs'[j] : trs'[j][i] = t \/ (i \in DOMAIN trs[j] /\ trs'[j][i] = trs[j][i])
         /\ trs'[j][1] = trs[j][1]
    BY Zenon, <1>5, <1>9 DEF Pushed
  <1>11. Moves(j)
    <2>1. now' \in Nat /\ now <= now'
      BY <1>1, <1>6
    <2> QED
      BY Zenon, <1>1, <1>8, <1>10, <2>1, Distinct DEF Moves
  <1>12. WaitInvariant' /\ Roots' /\ \A c \in Callers : Call(c)'
    <2>1. pc[j] # "slotWait"
      BY Zenon, <1>1
    <2> QED
      BY Zenon, <1>1, <1>2, <2>1, WaitOthers, CallsKept, RootsKept DEF RInv
  <1>13. JobInvariant(j)'
    <2>1. /\ pc'[j] \in Editing /\ pc'[j] \notin Clean /\ pc'[j] \notin Early /\ pc'[j] # "idle"
      BY Zenon, <1>8 DEF Clean, Editing, Early
    <2>2. t.src = root /\ t.dst = tree /\ KeyOf(j)' = k
      <3>1. KeyOf(j)' = KeyOf(j)
        BY Zenon, <1>1 DEF KeyOf
      <3> QED
        BY Zenon, <1>tr, <1>5, <3>1 DEF Begins
    <2>3. Ctime(root) <= Ctime(root) /\ SameAt(root, root, k)
      BY <1>6 DEF SameAt
    <2>4. Sets(t, j, v)'
      BY Zenon, <1>1, <1>6, <1>tr, <2>2, <2>3 DEF Sets, Tree, Ctime, Put
    <2>5. ASSUME NEW s, Sets(s, j, v) PROVE Sets(s, j, v)'
      BY Zenon, <1>1, <1>5, <2>2, <2>5 DEF Sets, Tree, Ctime, Put
    <2>6. ASSUME NEW i \in DOMAIN trs'[j] PROVE Sets(trs[j][i], j, v)'
      <3>1. PICK s : s = trs'[j][i]
        BY Zenon
      <3>2. Sets(s, j, v)'
        BY Zenon, <1>4, <1>10, <2>4, <2>5, <3>1
      <3> QED
        BY Zenon, <3>1, <3>2
    <2>7. Edits(j)'
      BY Zenon, <1>1, <1>4, <2>6 DEF Edits
    <2> QED
      BY Zenon, <1>1, <1>2, <1>10, <2>1, <2>7 DEF JobInvariant
  <1>14. RInv' /\ \A q \in Procs \ {j} : Pending(q)' = Pending(q)
    BY Zenon, <1>10, <1>11, <1>12, <1>13, MovesInv
  <1>15. Pending(j)' = Pending(j)
    <2>1. pc[j] \notin Quiet /\ pc'[j] \notin Quiet /\ j # Setter
      BY Zenon, <1>1, <1>8, Distinct DEF Quiet
    <2> QED
      BY Zenon, <1>5, <1>10, <2>1 DEF Pending, Quiet
  <1> QED
    BY Zenon, <1>1, <1>14, <1>15, StutterStep

LEMMA SwapRoots ==
  ASSUME Roots, NEW k, NEW v, k.st = BST_META => k = MetaKey(Ino),
         k = MetaKey(Ino) => v.ctime \in 0..now, root' = Put(root, k, v), UNCHANGED <<now, meta>>
  PROVE  Roots' /\ Ctime(root) <= Ctime(root)' /\ \A x : x # k => SameAt(root, root', x)
  <1>1. now \in Nat /\ Tree(root) /\ Ctime(root) <= now /\ MetaRecord(meta)
    BY Zenon DEF Roots
  <1>2. k = MetaKey(Ino) => v.ctime \in Nat
    BY <1>1
  <1>3. PICK r, s : r = root /\ s = root' /\ s = Put(r, k, v)
    BY Zenon
  <1>4. Tree(r) /\ Ctime(r) <= now
    BY Zenon, <1>1, <1>3
  <1>5. Tree(s) /\ Ctime(r) <= Ctime(s) /\ \A x : x # k => SameAt(r, s, x)
    BY Zenon, <1>2, <1>3, <1>4, PutTree
  <1>6. Ctime(s) <= now
    <2>1. CASE s = r
      BY Zenon, <1>4, <2>1
    <2>2. CASE s # r
      <3>1. s = TreeSet(r, k, v)
        BY Zenon, <1>3, <2>2 DEF Put
      <3>2. Ctime(s) = IF k = MetaKey(Ino) THEN v.ctime ELSE Ctime(r)
        BY Zenon, <1>4, <3>1 DEF Ctime, TreeSet, Tree
      <3> QED
        BY <1>1, <1>4, <3>2
    <2> QED
      BY Zenon, <2>1, <2>2
  <1>7. Tree(root)' /\ Ctime(root)' = Ctime(s)
    BY Zenon, <1>3, <1>5 DEF Tree, Ctime
  <1>8. now' = now /\ meta' = meta
    BY Zenon
  <1>9. Roots'
    BY Zenon, <1>1, <1>6, <1>7, <1>8 DEF Roots, MetaRecord
  <1> QED
    BY Zenon, <1>3, <1>5, <1>7, <1>9

(* Another job's transactions become stale and stay what they are.         *)
LEMMA SwapOtherJob ==
  ASSUME Roots, Roots', NEW j, JobInvariant(j), Stale(j), Ctime(root) <= Ctime(root)',
         job[j].second /\ pc[j] \in Editing => SameAt(root, root', KeyOf(j)),
         UNCHANGED <<job, now, extLock>>, pc'[j] = pc[j]
  PROVE  JobInvariant(j)'
  <1>1. KeyOf(j)' = KeyOf(j)
    BY Zenon DEF KeyOf
  <1>2. pc[j] \in Editing => Edits(j)'
    <2> SUFFICES ASSUME pc[j] \in Editing PROVE Edits(j)'
      BY Zenon
    <2>1. Edits(j)
      BY Zenon DEF JobInvariant
    <2>2. PICK v : /\ ~job[j].second => v.ctime \in 0..now
                   /\ \A i \in DOMAIN trs[j] : Sets(trs[j][i], j, v)
      BY Zenon, <2>1 DEF Edits
    <2>3. ASSUME NEW i \in DOMAIN trs'[j] PROVE Sets(trs[j][i], j, v)'
      <3>1. PICK s, t : /\ s = trs[j][i] /\ t = trs'[j][i] /\ Sets(s, j, v)
                        /\ t.src = s.src /\ t.dst = s.dst /\ t.fresh = FALSE
        BY Zenon, <2>2 DEF Stale
      <3>2. /\ Tree(t.src) /\ Ctime(t.src) <= Ctime(root) /\ t.dst = Put(t.src, KeyOf(j), v)
            /\ (job[j].second => SameAt(t.src, root, KeyOf(j)))
        BY Zenon, <3>1 DEF Sets
      <3>3. job[j].second => SameAt(t.src, root', KeyOf(j))
        BY Zenon, <3>2 DEF SameAt
      <3>4. Ctime(t.src) <= Ctime(root)'
        <4>1. PICK a, b, c : a = Ctime(t.src) /\ b = Ctime(root) /\ c = Ctime(root)'
          BY Zenon
        <4>2. a \in Nat /\ b \in Nat /\ c \in Nat /\ a <= b /\ b <= c
          BY Zenon, <3>2, <4>1 DEF Roots, Tree
        <4>3. a <= c
          BY <4>2
        <4> QED
          BY Zenon, <4>1, <4>3
      <3>5. Sets(t, j, v)'
        BY Zenon, <1>1, <3>1, <3>2, <3>3, <3>4 DEF Sets
      <3> QED
        BY Zenon, <3>1, <3>5
    <2> QED
      BY Zenon, <2>2, <2>3 DEF Edits
  <1> QED
    BY Zenon, <1>2 DEF JobInvariant, Stale

LEMMA SwapOthers ==
  ASSUME RInv, NEW u \in Procs, NEW k, NEW v, NEW next, Swaps(u, k, v, next),
         k.st = BST_META => k = MetaKey(Ino), k = MetaKey(Ino) => v.ctime \in 0..now,
         \A j \in Jobs \ {u} : job[j].second /\ pc[j] \in Editing => KeyOf(j) # k,
         pc[u] # "slotWait", u # Reader
  PROVE  /\ Shape' /\ Roots' /\ WaitInvariant' /\ ReaderInvariant'
         /\ \A c \in Callers : Call(c)'
         /\ \A j \in Jobs \ {u} : JobInvariant(j)'
         /\ u # Setter => SetterInvariant'
         /\ \A q \in Procs : Stale(q)
         /\ pc'[u] = next /\ \A q \in Procs \ {u} : Pending(q)' = Pending(q)
  <1>1. Shape /\ Roots /\ WaitInvariant
    BY Zenon DEF RInv
  <1>2. DOMAIN pc' = DOMAIN pc /\ pc'[u] = next /\ \A q \in Procs \ {u} : pc'[q] = pc[q]
    BY Zenon, <1>1 DEF Swaps, Goto, Shape
  <1>3. UNCHANGED <<now, meta>> /\ UNCHANGED <<closedWait, slotWait>> /\ UNCHANGED <<job, extLock, calls>>
        /\ UNCHANGED calls /\ UNCHANGED <<job, now, extLock>>
    BY Zenon DEF Swaps
  <1>4. Shape' /\ \A q \in Procs : Stale(q)
    BY Zenon, <1>1, <1>2, <1>3, SwapStacks DEF Swaps
  <1>5. Roots' /\ Ctime(root) <= Ctime(root)' /\ \A x : x # k => SameAt(root, root', x)
    BY Zenon, <1>1, <1>3, SwapRoots DEF Swaps
  <1>6. WaitInvariant'
    BY Zenon, <1>1, <1>3, WaitOthers DEF Swaps
  <1>7. \A c \in Callers : Call(c)'
    BY Zenon, <1>3, CallsKept DEF RInv
  <1>8. ASSUME NEW j \in Jobs \ {u} PROVE JobInvariant(j)'
    <2>1. JobInvariant(j) /\ Stale(j) /\ pc'[j] = pc[j]
      BY Zenon, <1>2, <1>4, Distinct DEF RInv
    <2>2. job[j].second /\ pc[j] \in Editing => SameAt(root, root', KeyOf(j))
      BY Zenon, <1>5
    <2> QED
      BY Zenon, <1>1, <1>3, <1>5, <2>1, <2>2, SwapOtherJob
  <1>9. ReaderInvariant'
    <2>1. pc'[Reader] = pc[Reader] /\ Stale(Reader)
      BY Zenon, <1>2, <1>4, Distinct
    <2> QED
      BY Zenon, <2>1 DEF RInv, ReaderInvariant, Stale
  <1>10. u # Setter => SetterInvariant'
    <2> SUFFICES ASSUME u # Setter PROVE SetterInvariant'
      BY Zenon
    <2>1. pc'[Setter] = pc[Setter] /\ Stale(Setter) /\ SetterInvariant /\ Stack(trs[Setter]) /\ Stack(trs'[Setter])
      BY Zenon, <1>1, <1>2, <1>4, Distinct DEF RInv, Shape
    <2>2. pc[Setter] = "tryCommit" =>
            /\ Top(Setter)'.src = Top(Setter).src /\ Top(Setter)'.dst = Top(Setter).dst
            /\ Top(Setter)'.fresh = FALSE
      <3> SUFFICES ASSUME pc[Setter] = "tryCommit"
                   PROVE  /\ Top(Setter)'.src = Top(Setter).src /\ Top(Setter)'.dst = Top(Setter).dst
                          /\ Top(Setter)'.fresh = FALSE
        BY Zenon
      <3>1. trs[Setter] # <<>> /\ trs'[Setter] # <<>>
        BY Zenon, <2>1 DEF SetterInvariant, Stale
      <3>2. /\ Len(trs[Setter]) \in DOMAIN trs[Setter] /\ Top(Setter) = trs[Setter][Len(trs[Setter])]
            /\ Top(Setter)' = trs'[Setter][Len(trs[Setter])]
        BY Zenon, <2>1, <3>1, TopOfStack DEF Stale, Top
      <3> QED
        BY Zenon, <2>1, <3>2 DEF Stale
    <2> QED
      BY Zenon, <2>1, <2>2 DEF SetterInvariant, Stale
  <1>11. ASSUME NEW q \in Procs \ {u} PROVE Pending(q)' = Pending(q)
    <2>1. Stack(trs[q]) /\ Stack(trs'[q]) /\ Stale(q) /\ pc'[q] = pc[q]
      BY Zenon, <1>1, <1>2, <1>4 DEF Shape
    <2> QED
      BY Zenon, <2>1, StalePending
  <1> QED
    BY Zenon, <1>2, <1>4, <1>5, <1>6, <1>7, <1>8, <1>9, <1>10, <1>11

-----------------------------------------------------------------------------
LEMMA OtherExtent ==
  ASSUME RInv, NEW j \in Jobs, pc[j] \in Editing, NEW i \in Jobs \ {j},
         job[i].second, pc[i] \in Editing
  PROVE  KeyOf(i) # KeyOf(j)
  <1>1. CASE ~job[j].second
    <2>1. KeyOf(j) = MetaKey(Ino)
      BY Zenon, <1>1 DEF KeyOf
    <2>2. KeyOf(i) # MetaKey(Ino)
      BY Zenon, JobKey
    <2> QED
      BY Zenon, <2>1, <2>2
  <1>2. CASE job[j].second
    <2>1. PICK x, y : x = ExtentOf(job[i].ofs) /\ y = ExtentOf(job[j].ofs)
      BY Zenon
    <2>2. JobInvariant(i) /\ JobInvariant(j) /\ pc[i] \in Locking /\ pc[j] \in Locking
          /\ pc[i] # "idle" /\ pc[j] # "idle"
      BY Zenon DEF RInv, Locking, Editing
    <2>3. x \in FileExtents /\ y \in FileExtents /\ extLock[x] = i /\ extLock[y] = j
      BY Zenon, <2>1, <2>2 DEF JobInvariant
    <2>4. x \in Int /\ y \in Int /\ x # y
      <3>1. FileExtents \subseteq Int
        BY ScenarioAssumption DEF FileExtents
      <3>2. i # j
        BY Zenon
      <3> QED
        BY Zenon, <2>3, <3>1, <3>2
    <2>5. KeyOf(i) = NewBlockKeyOffset(Ino, x * DataExtentSize) /\ KeyOf(j) = NewBlockKeyOffset(Ino, y * DataExtentSize)
      BY Zenon, <1>2, <2>1 DEF KeyOf
    <2> QED
      BY Zenon, <2>4, <2>5, ExtentKey
  <1> QED
    BY Zenon, <1>1, <1>2

(* The first transaction of a job has the change that the store waits for. *)
LEMMA JobApplied ==
  ASSUME RInv, NEW j \in Jobs, pc[j] \in Editing, NEW v,
         ~job[j].second => v.ctime \in 0..now,
         \A i \in DOMAIN trs[j] : Sets(trs[j][i], j, v),
         Put(root, KeyOf(j), v) # root
  PROVE  Pending(j) # <<>> /\ Store!Applied(Pending(j)) = Put(root, KeyOf(j), v)
  <1>1. PICK k, t : /\ k = KeyOf(j) /\ t = trs[j][1] /\ Sets(t, j, v)
                    /\ (k.st = BST_META => k = MetaKey(Ino)) /\ (k = MetaKey(Ino) <=> ~job[j].second)
                    /\ trs[j] # <<>> /\ job[j].second \in BOOLEAN
    BY Zenon, JobKey
  <1>2. Tree(root) /\ now \in Nat
    BY Zenon DEF RInv, Roots
  <1>3. k = MetaKey(Ino) => v.ctime \in Nat
    <2>1. ~job[j].second => v.ctime \in Nat
      BY <1>2
    <2> QED
      BY Zenon, <1>1, <2>1
  <1>4. PICK s : s = t.src
    BY Zenon
  <1>5. /\ Tree(s) /\ Ctime(s) <= Ctime(root) /\ t.dst = Put(s, k, v)
        /\ (k # MetaKey(Ino) => SameAt(s, root, k)) /\ Put(root, k, v) # root
    BY Zenon, <1>1, <1>4 DEF Sets
  <1>6. pc[j] \notin {"close", "try", "read"} /\ j # Setter
    BY Zenon, Distinct DEF Editing
  <1>f. /\ Tree(root) /\ Tree(s) /\ Ctime(s) <= Ctime(root) /\ (k.st = BST_META => k = MetaKey(Ino))
        /\ (k = MetaKey(Ino) => v.ctime \in Nat) /\ (k # MetaKey(Ino) => SameAt(s, root, k))
        /\ Put(root, k, v) # root
    BY Zenon, <1>1, <1>2, <1>3, <1>5
  <1>7. /\ Change(s, Put(s, k, v)) # <<>>
        /\ Store!Applied(Change(s, Put(s, k, v))) = Put(root, k, v)
    BY Zenon, <1>f, AppliedPut
  <1>8. Pending(j) = Change(s, Put(s, k, v))
    BY Zenon, <1>1, <1>4, <1>5, <1>6 DEF Pending, Change
  <1> QED
    BY Zenon, <1>1, <1>7, <1>8

LEMMA SwapWrite ==
  ASSUME RInv, NEW j \in Jobs, pc[j] = "commit", Top(j).dst # Top(j).src, SetIfEqualTo(j),
         Goto(j, "close"), UNCHANGED <<named, durable, closedWait>>, UNCHANGED localVars
  PROVE  RInv' /\ StoreStep
  <1>1. /\ Top(j).fresh /\ root' = Top(j).dst
        /\ trs' = [q \in Procs |-> [i \in DOMAIN trs[q] |-> [trs[q][i] EXCEPT !.fresh = FALSE]]]
        /\ UNCHANGED <<job, now, meta, extLock, calls, slotWait>>
    BY Zenon DEF SetIfEqualTo, localVars
  <1>2. JobInvariant(j) /\ j \in Procs /\ pc[j] \in Editing /\ pc[j] \in Locking /\ j # Reader /\ j # Setter
    BY Zenon, Distinct DEF RInv, Editing, Locking
  <1>3. PICK v : /\ ~job[j].second => v.ctime \in 0..now
                 /\ \A i \in DOMAIN trs[j] : Sets(trs[j][i], j, v)
    BY Zenon, <1>2 DEF JobInvariant, Edits
  <1>4. PICK k : k = KeyOf(j) /\ Sets(Top(j), j, v)
                 /\ (k.st = BST_META => k = MetaKey(Ino)) /\ (k = MetaKey(Ino) <=> ~job[j].second)
                 /\ trs[j] # <<>>
    BY Zenon, <1>2, <1>3, JobKey
  <1>5. root' = Put(root, k, v) /\ Put(root, k, v) # root
    BY Zenon, <1>1, <1>4 DEF Sets
  <1>6. Swaps(j, k, v, "close")
    BY Zenon, <1>1, <1>5 DEF Swaps
  <1>7. \A i \in Jobs \ {j} : job[i].second /\ pc[i] \in Editing => KeyOf(i) # k
    BY Zenon, <1>2, <1>4, OtherExtent
  <1>8. pc[j] # "slotWait" /\ (k = MetaKey(Ino) => v.ctime \in 0..now)
    BY Zenon, <1>3, <1>4
  <1>9. /\ Shape' /\ Roots' /\ WaitInvariant' /\ ReaderInvariant' /\ SetterInvariant'
        /\ (\A c \in Callers : Call(c)') /\ (\A i \in Jobs \ {j} : JobInvariant(i)')
        /\ Stale(j) /\ pc'[j] = "close" /\ \A q \in Procs \ {j} : Pending(q)' = Pending(q)
    BY Zenon, <1>2, <1>4, <1>6, <1>7, <1>8, SwapOthers
  <1>10. JobInvariant(j)'
    <2>1. pc'[j] \notin Clean /\ pc'[j] \notin Editing /\ pc'[j] \notin Early /\ pc'[j] # "idle"
      BY Zenon, <1>9 DEF Clean, Editing, Early
    <2>2. trs'[j] # <<>>
      BY Zenon, <1>4, <1>9 DEF Stale
    <2>3. JobRecord(job'[j])
      BY Zenon, <1>1, <1>2 DEF JobInvariant
    <2>4. ExtentOf(job[j].ofs) \in FileExtents /\ extLock[ExtentOf(job[j].ofs)] = j
      <3>1. pc[j] # "idle"
        BY Zenon
      <3> QED
        BY Zenon, <1>2, <3>1 DEF JobInvariant
    <2>5. pc'[j] \in Clean \cup Editing \cup {"close"}
      BY Zenon, <1>9
    <2> QED
      BY Zenon, <1>1, <2>1, <2>2, <2>3, <2>4, <2>5 DEF JobInvariant
  <1>11. RInv'
    <2>1. \A i \in Jobs : JobInvariant(i)'
      BY Zenon, <1>9, <1>10
    <2> QED
      BY Zenon, <1>9, <2>1 DEF RInv
  <1>12. Pending(j)' = <<>>
    <2>1. pc'[j] \in Quiet
      BY Zenon, <1>9 DEF Quiet
    <2> QED
      BY Zenon, <2>1, NextPendingNone
  <1>13. Pending(j) # <<>> /\ root' = Store!Applied(Pending(j))
    BY Zenon, <1>2, <1>3, <1>4, <1>5, JobApplied
  <1>14. UNCHANGED <<named, durable>>
    BY Zenon
  <1> QED
    BY Zenon, <1>2, <1>9, <1>11, <1>12, <1>13, <1>14, CommitStep

LEMMA CommitWriteStep == ASSUME RInv, NEW j \in Jobs, CommitWrite(j) PROVE RInv' /\ StoreStep
  <1>1. /\ pc[j] = "commit" /\ UNCHANGED localVars /\ UNCHANGED <<named, durable, closedWait>>
        /\ \/ CommitSucceeds(j) /\ Goto(j, "close")
           \/ CommitFails(j) /\ Goto(j, "merge")
    BY Zenon DEF CommitWrite, CommitUntilSucceeds, Goto
  <1>2. JobInvariant(j) /\ j \in Procs /\ Shape /\ Roots /\ WaitInvariant
        /\ extLock[ExtentOf(job[j].ofs)] = j /\ pc[j] # "slotWait"
    <2>1. pc[j] \in Locking
      BY Zenon, <1>1 DEF Locking, Editing
    <2> QED
      BY Zenon, <1>1, <2>1, Distinct DEF RInv, JobInvariant
  <1>3. UNCHANGED <<job, now, meta, extLock, calls, slotWait>>
    BY Zenon, <1>1 DEF localVars
  <1>4. /\ UNCHANGED <<closedWait, slotWait>> /\ UNCHANGED calls
    BY Zenon, <1>1, <1>3
  <1>5. \A c \in Callers : Call(c)'
    BY Zenon, <1>4, CallsKept DEF RInv
  <1>6. CASE CommitFails(j) /\ Goto(j, "merge")
    <2>1. WaitInvariant'
      BY Zenon, <1>2, <1>4, <1>6, WaitOthers
    <2>2. UNCHANGED <<root, named, durable, trs, job, now, meta>>
      BY Zenon, <1>1, <1>3, <1>6 DEF CommitFails
    <2>3. /\ DOMAIN extLock' = DOMAIN extLock /\ DOMAIN calls' = DOMAIN calls
          /\ (\A k \in Jobs \ {j} : \A e \in FileExtents : extLock[e] = k => extLock'[e] = k)
          /\ extLock'[ExtentOf(job[j].ofs)] = j
      BY Zenon, <1>2, <1>3
    <2>4. /\ "merge" \in Clean \cup Editing \cup {"close"} /\ (pc[j] \in Clean <=> "merge" \in Clean)
          /\ ("merge" \in Editing => pc[j] \in Editing) /\ ("merge" \in Early => pc[j] \in Early)
          /\ ("merge" # "idle" => pc[j] # "idle") /\ (pc[j] \in Quiet <=> "merge" \in Quiet)
      BY Zenon, <1>1 DEF Clean, Editing, Early, Quiet
    <2> QED
      BY Zenon, <1>5, <1>6, <2>1, <2>2, <2>3, <2>4, JobWalks
  <1>7. CASE CommitSucceeds(j) /\ Goto(j, "close") /\ Top(j).dst = Top(j).src
    <2>1. UNCHANGED <<root, trs>>
      BY Zenon, <1>7 DEF CommitSucceeds
    <2>2. Moves(j) /\ DOMAIN pc' = DOMAIN pc /\ pc'[j] = "close"
      <3>1. UNCHANGED <<root, now, extLock>> /\ (\A q \in Procs \ {j} : trs'[q] = trs[q])
            /\ \A k \in Jobs \ {j} : job'[k] = job[k]
        BY Zenon, <1>3, <2>1
      <3> QED
        BY Zenon, <1>7, <3>1, MovesAlone
    <2>3. WaitInvariant'
      BY Zenon, <1>2, <1>4, <1>7, WaitOthers
    <2>4. Roots' /\ Shape'
      BY Zenon, <1>2, <1>3, <2>1, <2>2, RootsKept, ShapeKept
    <2>5. JobInvariant(j)'
      <3>1. /\ UNCHANGED root /\ trs'[j] = trs[j] /\ job'[j] = job[j] /\ now \in Nat /\ now' \in Nat /\ now <= now'
        BY <1>2, <1>3, <2>1 DEF Roots
      <3>2. /\ pc'[j] \in Clean \cup Editing \cup {"close"} /\ (pc[j] \in Clean <=> pc'[j] \in Clean)
            /\ (pc'[j] \in Editing => pc[j] \in Editing) /\ (pc'[j] \in Early => pc[j] \in Early)
            /\ (pc'[j] # "idle" => pc[j] # "idle")
        BY Zenon, <1>1, <2>2 DEF Clean, Editing, Early
      <3>3. pc'[j] \in Locking => extLock'[ExtentOf(job[j].ofs)] = j
        BY Zenon, <1>2, <1>3
      <3> QED
        BY Zenon, <1>2, <3>1, <3>2, <3>3, JobGoes
    <2>6. RInv' /\ \A q \in Procs \ {j} : Pending(q)' = Pending(q)
      BY Zenon, <1>5, <2>2, <2>3, <2>4, <2>5, MovesInv
    <2>7. Pending(j)' = <<>>
      <3>1. pc'[j] \in Quiet
        BY Zenon, <2>2 DEF Quiet
      <3> QED
        BY Zenon, <3>1, NextPendingNone
    <2>8. UNCHANGED <<root, named, durable>>
      BY Zenon, <1>1, <2>1
    <2> QED
      BY Zenon, <1>2, <2>6, <2>7, <2>8, WithdrawStep
  <1>8. CASE CommitSucceeds(j) /\ Goto(j, "close") /\ Top(j).dst # Top(j).src
    <2>1. SetIfEqualTo(j)
      BY Zenon, <1>8 DEF CommitSucceeds
    <2> QED
      BY Zenon, <1>1, <1>8, <2>1, SwapWrite
  <1> QED
    BY Zenon, <1>1, <1>6, <1>7, <1>8

-----------------------------------------------------------------------------
(* A step of SetXAttr or of Read that leaves the root alone.               *)
LEMMA UserKept ==
  ASSUME RInv, NEW p \in {Setter, Reader}, UNCHANGED <<root, job, calls, meta, now>>,
         Shape', WaitInvariant', \A q \in Procs \ {p} : trs'[q] = trs[q],
         \A q \in (Jobs \cup {Setter, Reader}) \ {p} : pc'[q] = pc[q],
         \A j \in Jobs : \A e \in FileExtents : extLock[e] = j => extLock'[e] = j,
         p = Setter => SetterInvariant', p = Reader => ReaderInvariant'
  PROVE  RInv' /\ \A q \in Procs \ {p} : Pending(q)' = Pending(q)
  <1>1. Roots' /\ \A c \in Callers : Call(c)'
    BY Zenon, RootsKept, CallsKept DEF RInv
  <1>2. SetterInvariant'
    <2>1. CASE p = Reader
      <3>1. trs'[Setter] = trs[Setter] /\ pc'[Setter] = pc[Setter] /\ SetterInvariant /\ UNCHANGED root
        BY Zenon, <2>1, Distinct DEF RInv
      <3> QED
        BY Zenon, <3>1, SetterKept
    <2> QED
      BY Zenon, <2>1
  <1>3. ReaderInvariant'
    <2>1. CASE p = Setter
      <3>1. trs'[Reader] = trs[Reader] /\ pc'[Reader] = pc[Reader] /\ ReaderInvariant
        BY Zenon, <2>1, Distinct DEF RInv
      <3> QED
        BY Zenon, <3>1, ReaderKept
    <2> QED
      BY Zenon, <2>1
  <1>4. ASSUME NEW j \in Jobs PROVE JobInvariant(j)'
    <2>1. /\ JobInvariant(j) /\ UNCHANGED root /\ trs'[j] = trs[j] /\ job'[j] = job[j]
          /\ now \in Nat /\ now' \in Nat /\ now <= now' /\ pc'[j] = pc[j]
      BY Distinct DEF RInv, Roots
    <2> QED
      BY Zenon, <2>1, JobKept
  <1>5. RInv'
    BY Zenon, <1>1, <1>2, <1>3, <1>4 DEF RInv
  <1>6. ASSUME NEW q \in Procs \ {p} PROVE Pending(q)' = Pending(q)
    <2>1. trs'[q] = trs[q] /\ (trs[q] = <<>> \/ q \in (Jobs \cup {Setter, Reader}) \ {p})
      BY Zenon DEF RInv, Shape
    <2>2. trs[q] = <<>> \/ (pc[q] \in Quiet <=> pc'[q] \in Quiet)
      BY Zenon, <2>1
    <2> QED
      BY Zenon, <2>1, <2>2, PendingKept
  <1> QED
    BY Zenon, <1>5, <1>6

(* The locks of extents that jobs hold, when another process takes a lock. *)
LEMMA LockedKept ==
  ASSUME Shape, NEW p, NEW x, Locked(p, x)
  PROVE  /\ DOMAIN extLock' = DOMAIN extLock
         /\ \A j \in Jobs : \A e \in FileExtents : extLock[e] = j => extLock'[e] = j
  <1>1. FileExtents \subseteq Extents /\ \A j \in Jobs : j # None
    BY Zenon, Distinct DEF Extents
  <1>2. extLock[x] = None /\ extLock' = [extLock EXCEPT ![x] = p] /\ DOMAIN extLock = Extents
    BY Zenon DEF Locked, Shape
  <1> QED
    BY Zenon, <1>1, <1>2

(* Steps of a user that only change where it is and the locks.             *)
LEMMA UserWalks ==
  ASSUME RInv, NEW p \in {Setter, Reader}, Settled, NEW next, Goto(p, next), UNCHANGED trs,
         pc[p] # "slotWait", DOMAIN extLock' = DOMAIN extLock,
         \A j \in Jobs : \A e \in FileExtents : extLock[e] = j => extLock'[e] = j,
         p = Setter => SetterInvariant', p = Reader => ReaderInvariant'
  PROVE  RInv' /\ (\A q \in Procs \ {p} : Pending(q)' = Pending(q)) /\ pc'[p] = next
  <1>1. p \in Procs /\ Shape /\ WaitInvariant
    BY Zenon, Distinct DEF RInv
  <1>2. /\ DOMAIN pc' = DOMAIN pc /\ pc'[p] = next
        /\ \A q \in (Jobs \cup {Setter, Reader}) \ {p} : pc'[q] = pc[q]
    BY Zenon, <1>1, Distinct DEF Goto, Shape
  <1>3. WaitInvariant'
    BY Zenon, <1>1, WaitOthers DEF Settled
  <1>4. UNCHANGED <<root, job, calls, meta, now>> /\ DOMAIN job' = DOMAIN job /\ DOMAIN calls' = DOMAIN calls
    BY Zenon DEF Settled
  <1>5. Shape'
    BY Zenon, <1>1, <1>2, <1>4, ShapeKept
  <1>6. \A q \in Procs \ {p} : trs'[q] = trs[q]
    BY Zenon
  <1> QED
    BY Zenon, <1>2, <1>3, <1>4, <1>5, <1>6, UserKept

LEMMA UserCloses ==
  ASSUME RInv, NEW p \in {Setter, Reader}, UNCHANGED <<job, calls, meta, now, slotWait, extLock>>,
         NEW next, Close(p, next), pc[p] # "slotWait", next # "slotWait", trs[p] # <<>>,
         p = Setter /\ Closed(p, next) => SetterInvariant',
         p = Reader /\ Closed(p, next) => ReaderInvariant'
  PROVE  /\ RInv' /\ (\A q \in Procs \ {p} : Pending(q)' = Pending(q))
         /\ UNCHANGED <<root, named, durable>> /\ Closed(p, next)
  <1>1. p \in Procs /\ Shape /\ WaitInvariant /\ p \in Jobs \cup {Setter, Reader} /\ UNCHANGED slotWait
    BY Zenon, Distinct DEF RInv
  <1>2. /\ WaitInvariant' /\ DOMAIN pc' = DOMAIN pc
        /\ pc'[p] = IF Len(trs[p]) = 1 THEN next ELSE pc[p]
        /\ \A q \in (Jobs \cup {Setter, Reader}) \ {p} : pc'[q] = pc[q]
    BY Zenon, <1>1, CloseWakes
  <1>3. /\ trs' = [trs EXCEPT ![p] = Front(@)] /\ UNCHANGED <<root, named, durable>>
        /\ UNCHANGED <<job, extLock, calls>> /\ UNCHANGED <<root, job, calls, meta, now>>
    BY Zenon DEF Close
  <1>4. Shape' /\ (trs'[p] = <<>> <=> Len(trs[p]) = 1) /\ \A q \in Procs \ {p} : trs'[q] = trs[q]
    BY Zenon, <1>1, <1>2, <1>3, PopStack
  <1>5. \A j \in Jobs : \A e \in FileExtents : extLock[e] = j => extLock'[e] = j
    BY Zenon
  <1>6. Closed(p, next)
    BY Zenon, <1>2, <1>4 DEF Closed
  <1>7. (p = Setter => SetterInvariant') /\ (p = Reader => ReaderInvariant')
    BY Zenon, <1>6
  <1> QED
    BY Zenon, <1>2, <1>3, <1>4, <1>5, <1>6, <1>7, UserKept

LEMMA UserStacks ==
  ASSUME RInv, NEW p \in {Setter, Reader}, Settled, UNCHANGED extLock,
         NEW next, Goto(p, next), pc[p] # "slotWait",
         NEW tree, GetNestableTransaction(p, tree), NEW t, Begins(t, tree),
         (p = Setter /\ Pushed(p, t) /\ pc'[p] = next) => SetterInvariant',
         (p = Reader /\ Pushed(p, t) /\ pc'[p] = next) => ReaderInvariant'
  PROVE  RInv' /\ (\A q \in Procs \ {p} : Pending(q)' = Pending(q)) /\ Pushed(p, t) /\ pc'[p] = next
  <1>1. p \in Procs /\ Shape /\ WaitInvariant /\ p \in Jobs \cup {Setter, Reader}
    BY Zenon, Distinct DEF RInv
  <1>2. /\ DOMAIN pc' = DOMAIN pc /\ pc'[p] = next
        /\ \A q \in (Jobs \cup {Setter, Reader}) \ {p} : pc'[q] = pc[q]
    BY Zenon, <1>1, Distinct DEF Goto, Shape
  <1>3. WaitInvariant'
    BY Zenon, <1>1, WaitOthers DEF Settled
  <1>4. UNCHANGED <<root, job, calls, meta, now>> /\ DOMAIN job' = DOMAIN job /\ UNCHANGED <<extLock, calls>>
    BY Zenon DEF Settled
  <1>5. Pushed(p, t)
    BY Zenon, <1>1, <1>2, <1>4, PushStack
  <1>6. Shape' /\ \A q \in Procs \ {p} : trs'[q] = trs[q]
    BY Zenon, <1>5 DEF Pushed
  <1>7. (p = Setter => SetterInvariant') /\ (p = Reader => ReaderInvariant')
    BY Zenon, <1>2, <1>5
  <1>8. \A j \in Jobs : \A e \in FileExtents : extLock[e] = j => extLock'[e] = j
    BY Zenon
  <1> QED
    BY Zenon, <1>2, <1>3, <1>4, <1>5, <1>6, <1>7, <1>8, UserKept

-----------------------------------------------------------------------------
LEMMA LockAttributes ==
  ASSUME RInv, pc[Setter] = "idle", Locked(Setter, XAttrExtent), Goto(Setter, "try"),
         UNCHANGED huggerVars, Settled
  PROVE  RInv' /\ StoreStep
  <1>1. Setter \in {Setter, Reader} /\ Setter \in Procs /\ SetterInvariant /\ Shape /\ Setter # Reader
    BY Zenon, Distinct DEF RInv
  <1>2. UNCHANGED trs /\ trs[Setter] = <<>> /\ pc[Setter] # "slotWait"
    BY Zenon, <1>1 DEF SetterInvariant, huggerVars
  <1>3. /\ DOMAIN extLock' = DOMAIN extLock
        /\ \A j \in Jobs : \A e \in FileExtents : extLock[e] = j => extLock'[e] = j
    BY Zenon, <1>1, LockedKept
  <1>4. SetterInvariant'
    <2>1. pc'[Setter] = "try"
      BY Zenon, <1>1 DEF Goto, Shape
    <2> QED
      BY Zenon, <1>2, <2>1 DEF SetterInvariant
  <1>5. RInv' /\ \A q \in Procs \ {Setter} : Pending(q)' = Pending(q)
    BY Zenon, <1>1, <1>2, <1>3, <1>4, UserWalks
  <1>6. Pending(Setter) = <<>>
    BY Zenon, <1>2, PendingNone
  <1> QED
    BY Zenon, <1>1, <1>5, <1>6, AskStep DEF Settled

LEMMA UnlockAttributes ==
  ASSUME RInv, pc[Setter] = "unlock", extLock' = [extLock EXCEPT ![XAttrExtent] = None],
         Goto(Setter, "returned"), UNCHANGED huggerVars, Settled
  PROVE  RInv' /\ StoreStep
  <1>1. Setter \in {Setter, Reader} /\ Setter \in Procs /\ SetterInvariant /\ Shape /\ Setter # Reader
    BY Zenon, Distinct DEF RInv
  <1>2. UNCHANGED trs /\ trs[Setter] = <<>> /\ pc[Setter] # "slotWait"
    BY Zenon, <1>1 DEF SetterInvariant, huggerVars
  <1>3. /\ DOMAIN extLock' = DOMAIN extLock
        /\ \A j \in Jobs : \A e \in FileExtents : extLock[e] = j => extLock'[e] = j
    <2>1. XAttrExtent \notin FileExtents
      BY ScenarioAssumption DEF XAttrExtent, FileExtents
    <2> QED
      BY <2>1
  <1>4. SetterInvariant'
    <2>1. pc'[Setter] = "returned"
      BY Zenon, <1>1 DEF Goto, Shape
    <2> QED
      BY Zenon, <1>2, <2>1 DEF SetterInvariant
  <1>5. RInv' /\ \A q \in Procs \ {Setter} : Pending(q)' = Pending(q)
    BY Zenon, <1>1, <1>2, <1>3, <1>4, UserWalks
  <1>6. Pending(Setter) = <<>>
    BY Zenon, <1>2, PendingNone
  <1> QED
    BY Zenon, <1>1, <1>5, <1>6, AskStep DEF Settled

LEMMA TryAttribute ==
  ASSUME RInv, pc[Setter] = "try", NEW tree, tree = TreeSet(root, XAttrKey, XAttrValue),
         GetNestableTransaction(Setter, tree), Goto(Setter, "tryCommit"), UNCHANGED extLock, Settled
  PROVE  RInv' /\ StoreStep
  <1>1. Setter \in {Setter, Reader} /\ Setter \in Procs /\ Roots /\ pc[Setter] # "slotWait" /\ Setter # Reader
    BY Zenon, Distinct DEF RInv
  <1>2. PICK t : Begins(t, tree)
    BY Zenon DEF Begins
  <1>3. ASSUME Pushed(Setter, t), pc'[Setter] = "tryCommit" PROVE SetterInvariant'
    <2>1. trs'[Setter] # <<>> /\ Top(Setter)' = t
      BY Zenon, <1>3 DEF Pushed
    <2>2. t.src = root /\ t.dst = TreeSet(root, XAttrKey, XAttrValue) /\ UNCHANGED root /\ Tree(root)
      BY Zenon, <1>1, <1>2 DEF Begins, Roots, Settled
    <2>3. /\ pc'[Setter] \in {"idle", "try", "tryCommit", "close", "unlock", "returned"}
          /\ pc'[Setter] \notin {"idle", "unlock", "returned"}
      BY Zenon, <1>3
    <2>4. Tree(Top(Setter).src)' /\ Top(Setter)'.src = root' /\ Top(Setter)'.dst = TreeSet(Top(Setter)'.src, XAttrKey, XAttrValue)
      BY Zenon, <2>1, <2>2 DEF Tree, Ctime
    <2> QED
      BY Zenon, <2>1, <2>3, <2>4 DEF SetterInvariant
  <1>4. RInv' /\ \A q \in Procs \ {Setter} : Pending(q)' = Pending(q)
    BY Zenon, <1>1, <1>2, <1>3, UserStacks
  <1>5. Pending(Setter) = <<>>
    <2>1. pc[Setter] \in Quiet
      BY Zenon DEF Quiet
    <2> QED
      BY Zenon, <2>1, PendingNone
  <1> QED
    BY Zenon, <1>1, <1>4, <1>5, AskStep DEF Settled

(* A commit that changes nothing, or fails and tries again.                *)
LEMMA LeaveAttribute ==
  ASSUME RInv, pc[Setter] = "tryCommit", NEW next \in {"close", "try"}, Goto(Setter, next),
         UNCHANGED trs, UNCHANGED extLock, Settled
  PROVE  RInv' /\ StoreStep
  <1>1. Setter \in {Setter, Reader} /\ Setter \in Procs /\ SetterInvariant /\ Shape
        /\ pc[Setter] # "slotWait" /\ Setter # Reader
    BY Zenon, Distinct DEF RInv
  <1>2. pc'[Setter] = next
    BY Zenon, <1>1 DEF Goto, Shape
  <1>3. SetterInvariant'
    BY Zenon, <1>1, <1>2 DEF SetterInvariant
  <1>4. /\ DOMAIN extLock' = DOMAIN extLock
        /\ \A j \in Jobs : \A e \in FileExtents : extLock[e] = j => extLock'[e] = j
    BY Zenon
  <1>5. RInv' /\ \A q \in Procs \ {Setter} : Pending(q)' = Pending(q)
    BY Zenon, <1>1, <1>3, <1>4, UserWalks
  <1>6. Pending(Setter)' = <<>>
    <2>1. pc'[Setter] \in Quiet
      BY Zenon, <1>2 DEF Quiet
    <2> QED
      BY Zenon, <2>1, NextPendingNone
  <1> QED
    BY Zenon, <1>1, <1>5, <1>6, WithdrawStep DEF Settled

LEMMA SwapAttribute ==
  ASSUME RInv, pc[Setter] = "tryCommit", Top(Setter).dst # Top(Setter).src, SetIfEqualTo(Setter),
         Goto(Setter, "close"), UNCHANGED <<job, now, meta, extLock, calls, closedWait, slotWait>>,
         UNCHANGED <<named, durable>>
  PROVE  RInv' /\ StoreStep
  <1>1. /\ Setter \in Procs /\ SetterInvariant /\ Shape /\ Roots /\ Setter # Reader /\ Setter \notin Jobs
        /\ pc[Setter] # "slotWait"
    BY Zenon, Distinct DEF RInv
  <1>2. PICK t : /\ t = Top(Setter) /\ Tree(t.src) /\ t.src = root
                 /\ t.dst = TreeSet(t.src, XAttrKey, XAttrValue) /\ root' = t.dst
                 /\ t.dst # t.src /\ trs[Setter] # <<>>
    <2>1. Top(Setter).fresh /\ root' = Top(Setter).dst
      BY Zenon DEF SetIfEqualTo
    <2>2. /\ Tree(Top(Setter).src) /\ (Top(Setter).fresh => Top(Setter).src = root)
          /\ Top(Setter).dst = TreeSet(Top(Setter).src, XAttrKey, XAttrValue)
      BY Zenon, <1>1 DEF SetterInvariant
    <2>3. trs[Setter] # <<>>
      BY Zenon, <1>1 DEF SetterInvariant
    <2> QED
      BY Zenon, <2>1, <2>2, <2>3
  <1>3. PICK k, v : k = XAttrKey /\ v = XAttrValue /\ k # MetaKey(Ino) /\ (k.st = BST_META => k = MetaKey(Ino))
    BY Zenon, KeysDiffer
  <1>4. Put(root, k, v) = TreeSet(root, k, v) /\ root' = Put(root, k, v) /\ Put(root, k, v) # root
    BY Zenon, <1>2, <1>3 DEF Put
  <1>5. Swaps(Setter, k, v, "close")
    BY Zenon, <1>4 DEF Swaps, SetIfEqualTo
  <1>6. \A j \in Jobs \ {Setter} : job[j].second /\ pc[j] \in Editing => KeyOf(j) # k
    <2> SUFFICES ASSUME NEW j \in Jobs, job[j].second PROVE KeyOf(j) # k
      BY Zenon
    <2>1. KeyOf(j) = NewBlockKeyOffset(Ino, ExtentOf(job[j].ofs) * DataExtentSize)
      BY Zenon DEF KeyOf
    <2> QED
      BY Zenon, <1>3, <2>1, KeysDiffer
  <1>7. /\ Shape' /\ Roots' /\ WaitInvariant' /\ ReaderInvariant'
        /\ (\A c \in Callers : Call(c)') /\ (\A i \in Jobs \ {Setter} : JobInvariant(i)')
        /\ Stale(Setter) /\ pc'[Setter] = "close" /\ \A q \in Procs \ {Setter} : Pending(q)' = Pending(q)
    BY Zenon, <1>1, <1>3, <1>5, <1>6, SwapOthers
  <1>8. SetterInvariant'
    <2>1. trs'[Setter] # <<>>
      BY Zenon, <1>2, <1>7 DEF Stale
    <2> QED
      BY Zenon, <1>7, <2>1 DEF SetterInvariant
  <1>9. RInv'
    <2>1. \A i \in Jobs : JobInvariant(i)'
      BY Zenon, <1>1, <1>7
    <2> QED
      BY Zenon, <1>7, <1>8, <2>1 DEF RInv
  <1>10. Pending(Setter)' = <<>>
    <2>1. pc'[Setter] \in Quiet
      BY Zenon, <1>7 DEF Quiet
    <2> QED
      BY Zenon, <2>1, NextPendingNone
  <1>11. Pending(Setter) # <<>> /\ root' = Store!Applied(Pending(Setter))
    <2>1. PICK s : s = root
      BY Zenon
    <2>2. /\ Tree(root) /\ Tree(s) /\ Ctime(s) <= Ctime(root) /\ (k.st = BST_META => k = MetaKey(Ino))
          /\ (k = MetaKey(Ino) => v.ctime \in Nat) /\ (k # MetaKey(Ino) => SameAt(s, root, k))
          /\ Put(root, k, v) # root
      <3>1. Tree(root) /\ Ctime(root) <= Ctime(root) /\ SameAt(root, root, k)
        BY <1>1 DEF Roots, Tree, SameAt
      <3> QED
        BY Zenon, <1>3, <1>4, <2>1, <3>1
    <2>3. /\ Change(s, Put(s, k, v)) # <<>>
          /\ Store!Applied(Change(s, Put(s, k, v))) = Put(root, k, v)
      BY Zenon, <2>2, AppliedPut
    <2>4. t.src = s /\ t.dst = Put(s, k, v)
      BY Zenon, <1>2, <1>3, <1>4, <2>1
    <2>5. pc[Setter] \notin {"close", "try", "read"}
      BY Zenon
    <2>6. Pending(Setter) = Change(s, Put(s, k, v))
      BY Zenon, <1>2, <2>4, <2>5 DEF Pending, Change
    <2> QED
      BY Zenon, <1>4, <2>3, <2>6
  <1> QED
    BY Zenon, <1>1, <1>7, <1>9, <1>10, <1>11, CommitStep

-----------------------------------------------------------------------------
LEMMA CloseAttribute ==
  ASSUME RInv, pc[Setter] = "close", Close(Setter, "unlock"),
         UNCHANGED <<job, calls, meta, now, slotWait, extLock>>
  PROVE  RInv' /\ StoreStep
  <1>1. Setter \in {Setter, Reader} /\ Setter \in Procs /\ SetterInvariant /\ Setter # Reader
        /\ pc[Setter] # "slotWait" /\ "unlock" # "slotWait"
    BY Zenon, Distinct DEF RInv
  <1>2. trs[Setter] # <<>>
    BY Zenon, <1>1 DEF SetterInvariant
  <1>3. ASSUME Closed(Setter, "unlock") PROVE SetterInvariant'
    <2>1. CASE Len(trs[Setter]) = 1
      <3>1. pc'[Setter] = "unlock" /\ trs'[Setter] = <<>>
        BY Zenon, <1>3, <2>1 DEF Closed
      <3> QED
        BY Zenon, <3>1 DEF SetterInvariant
    <2>2. CASE Len(trs[Setter]) # 1
      <3>1. pc'[Setter] = "close" /\ trs'[Setter] # <<>>
        BY Zenon, <1>3, <2>2 DEF Closed
      <3> QED
        BY Zenon, <3>1 DEF SetterInvariant
    <2> QED
      BY Zenon, <2>1, <2>2
  <1>4. /\ RInv' /\ (\A q \in Procs \ {Setter} : Pending(q)' = Pending(q))
        /\ UNCHANGED <<root, named, durable>>
    BY Zenon, <1>1, <1>2, <1>3, UserCloses
  <1>5. Pending(Setter) = <<>>
    <2>1. pc[Setter] \in Quiet
      BY Zenon DEF Quiet
    <2> QED
      BY Zenon, <2>1, PendingNone
  <1> QED
    BY Zenon, <1>1, <1>4, <1>5, AskStep

LEMMA SetXAttrStep == ASSUME RInv, SetXAttr PROVE RInv' /\ StoreStep
  <1>1. UNCHANGED <<meta, calls, job, slotWait, now>>
    BY Zenon DEF SetXAttr
  <1>2. CASE /\ pc[Setter] = "idle" /\ Locked(Setter, XAttrExtent) /\ Goto(Setter, "try")
             /\ UNCHANGED huggerVars
    <2>1. Settled
      BY Zenon, <1>1, <1>2 DEF Settled, huggerVars
    <2> QED
      BY Zenon, <1>2, <2>1, LockAttributes
  <1>3. CASE /\ pc[Setter] = "try" /\ Update2Try(Setter, TreeSet(root, XAttrKey, XAttrValue))
             /\ Goto(Setter, "tryCommit") /\ UNCHANGED extLock
    <2>1. Settled
      BY Zenon, <1>1, <1>3 DEF Settled, Update2Try
    <2>2. PICK tree : tree = TreeSet(root, XAttrKey, XAttrValue) /\ GetNestableTransaction(Setter, tree)
      BY Zenon, <1>3 DEF Update2Try
    <2> QED
      BY Zenon, <1>3, <2>1, <2>2, TryAttribute
  <1>4. CASE pc[Setter] = "tryCommit" /\ TryCommit(Setter, "close", "try") /\ UNCHANGED extLock
    <2>1. UNCHANGED <<named, durable>> /\ UNCHANGED closedWait
      BY Zenon, <1>4 DEF TryCommit
    <2>2. CASE CommitFails(Setter) /\ Goto(Setter, "try")
      <3>1. Settled /\ UNCHANGED trs
        BY Zenon, <1>1, <2>1, <2>2 DEF Settled, CommitFails
      <3>2. "try" \in {"close", "try"}
        BY Zenon
      <3> QED
        BY Zenon, <1>4, <2>2, <3>1, <3>2, LeaveAttribute
    <2>3. CASE CommitSucceeds(Setter) /\ Goto(Setter, "close") /\ Top(Setter).dst = Top(Setter).src
      <3>1. UNCHANGED <<root, trs>>
        BY Zenon, <2>3 DEF CommitSucceeds
      <3>2. Settled /\ UNCHANGED trs /\ "close" \in {"close", "try"}
        BY Zenon, <1>1, <2>1, <3>1 DEF Settled
      <3> QED
        BY Zenon, <1>4, <2>3, <3>2, LeaveAttribute
    <2>4. CASE CommitSucceeds(Setter) /\ Goto(Setter, "close") /\ Top(Setter).dst # Top(Setter).src
      <3>1. SetIfEqualTo(Setter)
        BY Zenon, <2>4 DEF CommitSucceeds
      <3>2. UNCHANGED <<job, now, meta, extLock, calls, closedWait, slotWait>>
        BY Zenon, <1>1, <1>4, <2>1
      <3> QED
        BY Zenon, <1>4, <2>1, <2>4, <3>1, <3>2, SwapAttribute
    <2> QED
      BY Zenon, <1>4, <2>2, <2>3, <2>4 DEF TryCommit, Goto
  <1>5. CASE pc[Setter] = "close" /\ Close(Setter, "unlock") /\ UNCHANGED extLock
    <2>1. UNCHANGED <<job, calls, meta, now, slotWait, extLock>>
      BY Zenon, <1>1, <1>5
    <2> QED
      BY Zenon, <1>5, <2>1, CloseAttribute
  <1>6. CASE /\ pc[Setter] = "unlock" /\ extLock' = [extLock EXCEPT ![XAttrExtent] = None]
             /\ Goto(Setter, "returned") /\ UNCHANGED huggerVars
    <2>1. Settled
      BY Zenon, <1>1, <1>6 DEF Settled, huggerVars
    <2> QED
      BY Zenon, <1>6, <2>1, UnlockAttributes
  <1> QED
    BY Zenon, <1>2, <1>3, <1>4, <1>5, <1>6 DEF SetXAttr

-----------------------------------------------------------------------------
(* Read has no change to make.                                             *)
LEMMA ReadWalks ==
  ASSUME RInv, pc[Reader] # "read", NEW next \in {"readBegin", "returned"}, Goto(Reader, next),
         UNCHANGED huggerVars, Settled, pc[Reader] # "slotWait", DOMAIN extLock' = DOMAIN extLock,
         \A j \in Jobs : \A e \in FileExtents : extLock[e] = j => extLock'[e] = j
  PROVE  RInv' /\ StoreStep
  <1>1. Reader \in {Setter, Reader} /\ Reader \in Procs /\ ReaderInvariant /\ Shape /\ Reader # Setter
    BY Zenon, Distinct DEF RInv
  <1>2. UNCHANGED trs /\ trs[Reader] = <<>>
    BY Zenon, <1>1 DEF ReaderInvariant, huggerVars
  <1>3. ReaderInvariant'
    <2>1. pc'[Reader] = next
      BY Zenon, <1>1 DEF Goto, Shape
    <2> QED
      BY Zenon, <1>2, <2>1 DEF ReaderInvariant
  <1>4. RInv' /\ \A q \in Procs \ {Reader} : Pending(q)' = Pending(q)
    BY Zenon, <1>1, <1>2, <1>3, UserWalks
  <1>5. Pending(Reader) = <<>>
    BY Zenon, <1>2, PendingNone
  <1> QED
    BY Zenon, <1>1, <1>4, <1>5, AskStep DEF Settled

LEMMA ReadBegins ==
  ASSUME RInv, pc[Reader] = "readBegin", GetNestableTransaction(Reader, root), Goto(Reader, "read"),
         UNCHANGED extLock, Settled
  PROVE  RInv' /\ StoreStep
  <1>1. Reader \in {Setter, Reader} /\ Reader \in Procs /\ ReaderInvariant /\ Shape /\ Reader # Setter
        /\ pc[Reader] # "slotWait"
    BY Zenon, Distinct DEF RInv
  <1>2. trs[Reader] = <<>>
    BY Zenon, <1>1 DEF ReaderInvariant
  <1>3. PICK t : Begins(t, root)
    BY Zenon DEF Begins
  <1>4. Len(trs'[Reader]) = 1
    <2>1. trs'[Reader] = Append(trs[Reader], t)
      BY Zenon, <1>1, <1>3 DEF GetNestableTransaction, newTransaction, Begins, Shape
    <2> QED
      BY <1>2, <2>1
  <1>5. pc'[Reader] = "read" => ReaderInvariant'
    BY Zenon, <1>4 DEF ReaderInvariant
  <1>6. RInv' /\ \A q \in Procs \ {Reader} : Pending(q)' = Pending(q)
    BY Zenon, <1>1, <1>3, <1>5, UserStacks
  <1>7. Pending(Reader) = <<>>
    BY Zenon, <1>2, PendingNone
  <1> QED
    BY Zenon, <1>1, <1>6, <1>7, AskStep DEF Settled

LEMMA ReadCloses ==
  ASSUME RInv, pc[Reader] = "read", NEW next \in {"readNext", "readDone"}, Close(Reader, next),
         UNCHANGED <<job, calls, meta, now, slotWait, extLock>>
  PROVE  RInv' /\ StoreStep
  <1>1. Reader \in {Setter, Reader} /\ Reader \in Procs /\ ReaderInvariant /\ Reader # Setter
        /\ pc[Reader] # "slotWait" /\ next # "slotWait"
    BY Zenon, Distinct DEF RInv
  <1>2. Len(trs[Reader]) = 1 /\ trs[Reader] # <<>>
    BY <1>1 DEF ReaderInvariant
  <1>3. ASSUME Closed(Reader, next) PROVE ReaderInvariant'
    <2>1. pc'[Reader] = next /\ trs'[Reader] = <<>>
      BY Zenon, <1>2, <1>3 DEF Closed
    <2> QED
      BY Zenon, <2>1 DEF ReaderInvariant
  <1>4. /\ RInv' /\ (\A q \in Procs \ {Reader} : Pending(q)' = Pending(q))
        /\ UNCHANGED <<root, named, durable>>
    BY Zenon, <1>1, <1>2, <1>3, UserCloses
  <1>5. Pending(Reader) = <<>>
    <2>1. pc[Reader] \in Quiet
      BY Zenon DEF Quiet
    <2> QED
      BY Zenon, <2>1, PendingNone
  <1> QED
    BY Zenon, <1>1, <1>4, <1>5, AskStep

LEMMA ReadStep == ASSUME RInv, Read PROVE RInv' /\ StoreStep
  <1>1. UNCHANGED <<meta, calls, job, slotWait, now>>
    BY Zenon DEF Read
  <1>2. Shape
    BY Zenon DEF RInv
  <1>3. CASE /\ pc[Reader] \in {"idle", "readNext"} /\ Locked(Reader, ExtentOf(Len(got)))
             /\ Goto(Reader, "readBegin") /\ UNCHANGED huggerVars
    <2>1. Settled /\ pc[Reader] # "read" /\ pc[Reader] # "slotWait" /\ "readBegin" \in {"readBegin", "returned"}
      BY Zenon, <1>1, <1>3 DEF Settled, huggerVars
    <2>2. /\ DOMAIN extLock' = DOMAIN extLock
          /\ \A j \in Jobs : \A e \in FileExtents : extLock[e] = j => extLock'[e] = j
      BY Zenon, <1>2, <1>3, LockedKept
    <2> QED
      BY Zenon, <1>3, <2>1, <2>2, ReadWalks
  <1>4. CASE /\ pc[Reader] = "readBegin" /\ GetTransaction(Reader, root) /\ Goto(Reader, "read")
             /\ UNCHANGED <<root, oldRoot, named, durable, flushing, retryLock, closedWait, blocks,
                            extLock, got>>
    <2>1. Settled /\ UNCHANGED extLock
      BY Zenon, <1>1, <1>4 DEF Settled
    <2>2. GetNestableTransaction(Reader, root)
      BY Zenon, <1>4 DEF GetTransaction, GetNestableTransaction
    <2> QED
      BY Zenon, <1>4, <2>1, <2>2, ReadBegins
  <1>5. CASE /\ pc[Reader] = "read" /\ UNCHANGED extLock
             /\ \E next \in {"readNext", "readDone"} : Close(Reader, next)
    <2>1. UNCHANGED <<job, calls, meta, now, slotWait, extLock>>
      BY Zenon, <1>1, <1>5
    <2> QED
      BY Zenon, <1>5, <2>1, ReadCloses
  <1>6. CASE /\ pc[Reader] = "readDone" /\ Goto(Reader, "returned") /\ UNCHANGED huggerVars
             /\ extLock' = [e \in Extents |-> IF extLock[e] = Reader THEN None ELSE extLock[e]]
    <2>1. Settled /\ pc[Reader] # "read" /\ pc[Reader] # "slotWait" /\ "returned" \in {"readBegin", "returned"}
      BY Zenon, <1>1, <1>6 DEF Settled, huggerVars
    <2>2. DOMAIN extLock' = DOMAIN extLock
      BY Zenon, <1>2, <1>6 DEF Shape
    <2>3. \A j \in Jobs : \A e \in FileExtents : extLock[e] = j => extLock'[e] = j
      <3>1. FileExtents \subseteq Extents
        BY Zenon DEF Extents
      <3> QED
        BY Zenon, <1>6, <3>1, Distinct
    <2> QED
      BY Zenon, <1>6, <2>1, <2>2, <2>3, ReadWalks
  <1>7. \/ /\ pc[Reader] \in {"idle", "readNext"} /\ Locked(Reader, ExtentOf(Len(got)))
           /\ Goto(Reader, "readBegin") /\ UNCHANGED huggerVars
        \/ /\ pc[Reader] = "readBegin" /\ GetTransaction(Reader, root) /\ Goto(Reader, "read")
           /\ UNCHANGED <<root, oldRoot, named, durable, flushing, retryLock, closedWait, blocks,
                          extLock, got>>
        \/ /\ pc[Reader] = "read" /\ UNCHANGED extLock
           /\ \E next \in {"readNext", "readDone"} : Close(Reader, next)
        \/ /\ pc[Reader] = "readDone" /\ Goto(Reader, "returned") /\ UNCHANGED huggerVars
           /\ extLock' = [e \in Extents |-> IF extLock[e] = Reader THEN None ELSE extLock[e]]
    BY Zenon DEF Read
  <1> QED
    BY Zenon, <1>3, <1>4, <1>5, <1>6, <1>7

LEMMA OtherGoes ==
  ASSUME Shape, NEW p \in Other, NEW next, Goto(p, next)
  PROVE  DOMAIN pc' = DOMAIN pc /\ \A q \in Jobs \cup {Setter, Reader} : pc'[q] = pc[q]
  BY Zenon, Distinct DEF Goto, Shape, Other

LEMMA OtherWalks ==
  ASSUME RInv, NEW p \in Other, NEW next, Goto(p, next), Untouched, WaitInvariant'
  PROVE  RInv' /\ \A q \in Procs : Pending(q)' = Pending(q)
  <1>1. DOMAIN pc' = DOMAIN pc /\ \A q \in Jobs \cup {Setter, Reader} : pc'[q] = pc[q]
    BY Zenon, OtherGoes DEF RInv
  <1>2. UNCHANGED <<root, trs, job, calls, meta, extLock, now>> /\ UNCHANGED trs
    BY Zenon DEF Untouched
  <1>3. RInv'
    BY Zenon, <1>1, <1>2, OtherKept
  <1>4. \A q \in Procs : Pending(q)' = Pending(q)
    BY Zenon, <1>1, <1>2, OtherPending
  <1> QED
    BY Zenon, <1>3, <1>4

LEMMA OtherAlone ==
  ASSUME RInv, NEW p \in Other, NEW next, Goto(p, next), Untouched, UNCHANGED <<closedWait, slotWait>>
  PROVE  RInv' /\ \A q \in Procs : Pending(q)' = Pending(q)
  <1>1. \A j \in Jobs : pc[j] = "slotWait" => pc'[j] = "slotWait"
    BY Zenon, OtherGoes DEF RInv
  <1>2. WaitInvariant'
    BY Zenon, <1>1, WaitKept DEF RInv
  <1> QED
    BY Zenon, <1>2, OtherWalks

LEMMA FlushRootStep ==
  ASSUME RInv, NEW p \in Other, NEW next, FlushRoot(p, next), UNCHANGED localVars
  PROVE  RInv' /\ StoreStep
  <1>1. /\ Goto(p, next) /\ Untouched /\ UNCHANGED <<closedWait, slotWait>>
        /\ named' = root /\ UNCHANGED <<root, durable>>
    BY Zenon DEF FlushRoot, Goto, localVars, Untouched
  <1>2. RInv' /\ \A q \in Procs : Pending(q)' = Pending(q)
    BY Zenon, <1>1, OtherAlone
  <1>3. \A q \in Procs : Pending(q) = <<>>
    BY Zenon, PendingNone DEF FlushRoot, NoTransactions
  <1>4. \A q \in Procs : Pending(q) = <<>> /\ Pending(q)' = <<>>
    BY Zenon, <1>2, <1>3
  <1> QED
    BY Zenon, <1>1, <1>2, <1>4, SaveStep

LEMMA FlushWaitStep ==
  ASSUME RInv, NEW p \in {Flusher, Rooter}, NEW first, FlushWait(p, first), UNCHANGED localVars
  PROVE  RInv' /\ StoreStep
  <1>1. /\ p \in Other /\ Goto(p, "flushWait") /\ Untouched /\ UNCHANGED slotWait
        /\ closedWait' = Append(closedWait, p) /\ UNCHANGED <<root, named, durable>>
    BY Zenon DEF FlushWait, Goto, localVars, Untouched, Other
  <1>2. WaitInvariant'
    <2>1. \A j \in Jobs : pc'[j] = pc[j]
      BY Zenon, <1>1, OtherGoes DEF RInv
    <2>2. closedWait' \in Seq({Flusher, Rooter})
      <3>1. closedWait \in Seq({Flusher, Rooter})
        BY Zenon DEF RInv, WaitInvariant
      <3> QED
        BY <1>1, <3>1
    <2> QED
      BY Zenon, <1>1, <2>1, <2>2 DEF RInv, WaitInvariant
  <1>3. RInv' /\ \A q \in Procs : Pending(q)' = Pending(q)
    BY Zenon, <1>1, <1>2, OtherWalks
  <1> QED
    BY Zenon, <1>1, <1>3, StutterStep

LEMMA FlushStorageStep ==
  ASSUME RInv, NEW p \in Other, NEW next, FsFlushStorage(p, next)
  PROVE  RInv' /\ StoreStep
  <1>1. /\ Goto(p, next) /\ Untouched /\ UNCHANGED <<closedWait, slotWait>>
        /\ durable' = named /\ UNCHANGED <<root, named>>
    BY Zenon DEF FsFlushStorage, StorageFlush, localVars, Untouched
  <1>2. RInv' /\ \A q \in Procs : Pending(q)' = Pending(q)
    BY Zenon, <1>1, OtherAlone
  <1> QED
    BY Zenon, <1>1, <1>2, PersistStep

LEMMA FlushStep ==
  ASSUME RInv, NEW p \in {Flusher, Rooter}, NEW next, UNCHANGED localVars,
         Flush(p, next) \/ FlushWoken(p, next)
  PROVE  RInv' /\ StoreStep
  <1>1. p \in Other
    BY Zenon DEF Other
  <1>2. FlushRoot(p, next) \/ \E first : FlushWait(p, first)
    BY Zenon DEF Flush, FlushWoken
  <1> QED
    BY Zenon, <1>1, <1>2, FlushRootStep, FlushWaitStep

LEMMA ExclusiveStep ==
  ASSUME RInv, NEW p \in Other, Exclusive(p), UNCHANGED <<huggerVars, extLock, meta, calls, job, slotWait, now>>
  PROVE  RInv' /\ StoreStep
  <1>1. /\ Goto(p, "slot") /\ Untouched /\ UNCHANGED <<closedWait, slotWait>>
        /\ UNCHANGED <<root, named, durable>>
    BY Zenon DEF Exclusive, huggerVars, Untouched
  <1>2. RInv' /\ \A q \in Procs : Pending(q)' = Pending(q)
    BY Zenon, <1>1, OtherAlone
  <1> QED
    BY Zenon, <1>1, <1>2, StutterStep

LEMMA WaitExclusiveStep ==
  ASSUME RInv, NEW p \in {Fsyncer, Rooter}, WaitExclusive(p)
  PROVE  RInv' /\ StoreStep
  <1>1. /\ p \in Other /\ p \in Jobs \cup {Fsyncer, Rooter} /\ pc[p] # "slotWait" /\ Limited2(p, "exclusive")
        /\ Untouched /\ UNCHANGED closedWait /\ UNCHANGED <<root, named, durable>>
    BY Zenon DEF WaitExclusive, huggerVars, Untouched, Other
  <1>2. CASE slotWait' = Append(slotWait, p) /\ Goto(p, "slotWait")
    <2>1. WaitInvariant'
      BY Zenon, <1>1, <1>2, SlotWaits DEF RInv, Goto
    <2>2. RInv' /\ \A q \in Procs : Pending(q)' = Pending(q)
      BY Zenon, <1>1, <1>2, <2>1, OtherWalks
    <2> QED
      BY Zenon, <1>1, <2>2, StutterStep
  <1>3. CASE UNCHANGED slotWait /\ Goto(p, "exclusive")
    <2>1. UNCHANGED <<closedWait, slotWait>>
      BY Zenon, <1>1, <1>3
    <2>2. RInv' /\ \A q \in Procs : Pending(q)' = Pending(q)
      BY Zenon, <1>1, <1>3, <2>1, OtherAlone
    <2> QED
      BY Zenon, <1>1, <2>2, StutterStep
  <1> QED
    BY Zenon, <1>1, <1>2, <1>3 DEF Limited2

LEMMA EndExclusiveStep ==
  ASSUME RInv, NEW p \in {Fsyncer, Rooter}, NEW from \in {"exclusive", "rooted"}, NEW next,
         EndExclusive(p, from, next)
  PROVE  RInv' /\ StoreStep
  <1>1. /\ p \in Jobs \cup {Fsyncer, Rooter} /\ pc[p] # "slotWait" /\ ReleaseSlots(p, next)
        /\ UNCHANGED <<root, trs, job, calls, meta, extLock, now>> /\ UNCHANGED trs
        /\ UNCHANGED closedWait /\ UNCHANGED <<root, named, durable>>
    BY Zenon DEF EndExclusive, huggerVars
  <1>2. Shape /\ WaitInvariant /\ p \notin Jobs
    BY Zenon, Distinct DEF RInv
  <1>3. /\ WaitInvariant' /\ DOMAIN pc' = DOMAIN pc
        /\ pc'[Setter] = pc[Setter] /\ pc'[Reader] = pc[Reader]
        /\ \A q \in Jobs \ {p} : pc'[q] = pc[q] \/ (pc[q] = "slotWait" /\ pc'[q] = "slot")
    BY Zenon, <1>1, <1>2, SlotWakes
  <1>4. \A q \in Jobs \cup {Setter, Reader} :
          pc'[q] = pc[q] \/ (q \in Jobs /\ pc[q] = "slotWait" /\ pc'[q] = "slot")
    BY Zenon, <1>2, <1>3
  <1>5. RInv'
    BY Zenon, <1>1, <1>3, <1>4, OtherKept
  <1>6. \A q \in Procs : Pending(q)' = Pending(q)
    BY Zenon, <1>1, <1>4, OtherPending
  <1> QED
    BY Zenon, <1>1, <1>5, <1>6, StutterStep

-----------------------------------------------------------------------------
(* Where the file system starts.                                           *)
LEMMA InitTreeOK ==
  ASSUME NEW size \in Nat, NEW tree, tree = InitTree(size)
  PROVE  Tree(tree) /\ Ctime(tree) = 0 /\ MetaRecord(tree[MetaKey(Ino)])
  <1> DEFINE content == [i \in 1..size |-> InitialByte]
             m == [ctime |-> 0, dir |-> FALSE, size |-> size,
                   data |-> IF size <= EmbeddedSize THEN content ELSE <<>>]
             exts == IF size <= EmbeddedSize THEN {}
                     ELSE {e \in FileExtents : e * DataExtentSize < size}
             ekeys == {NewBlockKeyOffset(Ino, e * DataExtentSize) : e \in exts}
             keys == {MetaKey(Ino)} \cup ekeys
             ext(k) == SubSeq(content, k.data[1] * DataExtentSize + 1,
                              Least(size, (k.data[1] + 1) * DataExtentSize))
  <1>1. tree = [k \in keys |-> IF k = MetaKey(Ino) THEN m ELSE ext(k)]
    BY Zenon DEF InitTree
  <1>2. \A k \in ekeys : k.st # BST_META
    BY Zenon, KeysDiffer
  <1>3. m.ctime = 0 /\ MetaRecord(m)
    BY Zenon DEF MetaRecord
  <1> HIDE DEF m, ekeys, ext
  <1>4. DOMAIN tree = keys /\ tree[MetaKey(Ino)] = m /\ tree = [k \in DOMAIN tree |-> tree[k]]
    BY Zenon, <1>1
  <1>5. \A k \in DOMAIN tree : k.st = BST_META => k = MetaKey(Ino)
    BY Zenon, <1>2, <1>4
  <1>6. Ctime(tree) = 0
    BY Zenon, <1>3, <1>4 DEF Ctime
  <1>7. MetaKey(Ino) \in DOMAIN tree /\ Ctime(tree) \in Nat
    BY <1>4, <1>6
  <1> QED
    BY Zenon, <1>3, <1>4, <1>5, <1>6, <1>7 DEF Tree

LEMMA InitCall ==
  ASSUME NEW s \in Scenarios, NEW c \in Callers,
         calls[c] \in s.writes \cup {[ofs |-> 0, left |-> 0, busy |-> FALSE]}
  PROVE  Call(c)
  <1>1. CASE calls[c] \in s.writes
    <2>1. PICK w : w = calls[c]
      BY Zenon
    <2>2. /\ w \in [ofs : Nat, left : Nat, busy : {FALSE}]
          /\ \A x \in w.ofs..(w.ofs + w.left - 1) : ExtentOf(x) \in FileExtents
      BY Zenon, <1>1, <2>1, ScenarioAssumption
    <2>3. w = [ofs |-> w.ofs, left |-> w.left, busy |-> w.busy] /\ w.ofs \in Int /\ w.left \in Int
      BY <2>2
    <2> QED
      BY Zenon, <2>1, <2>2, <2>3 DEF Call
  <1>2. CASE calls[c] = [ofs |-> 0, left |-> 0, busy |-> FALSE]
    <2>1. PICK w : w = calls[c] /\ w = [ofs |-> 0, left |-> 0, busy |-> FALSE]
      BY Zenon, <1>2
    <2>2. w = [ofs |-> w.ofs, left |-> w.left, busy |-> w.busy] /\ w.ofs \in Int /\ w.left \in Int
      <3>1. w.ofs = 0 /\ w.left = 0 /\ w.busy = FALSE
        BY <2>1
      <3>2. w.ofs \in Int /\ w.left \in Int
        BY <3>1
      <3> QED
        BY Zenon, <2>1, <3>1, <3>2
    <2>3. \A x \in w.ofs..(w.ofs + w.left - 1) : ExtentOf(x) \in FileExtents
      BY <2>1
    <2> QED
      BY Zenon, <2>1, <2>2, <2>3 DEF Call
  <1> QED
    BY Zenon, <1>1, <1>2

LEMMA InitRInv == ASSUME Init PROVE RInv /\ Store!Init
  <1>1. PICK s \in Scenarios :
          /\ HuggerInit(InitTree(s.size)) /\ pc = [p \in Procs |-> "idle"]
          /\ extLock = [e \in Extents |-> None] /\ meta = InitTree(s.size)[MetaKey(Ino)]
          /\ calls \in [Callers -> s.writes \cup {[ofs |-> 0, left |-> 0, busy |-> FALSE]}]
          /\ job = [j \in Jobs |-> NoJob] /\ slotWait = <<>> /\ now = 0
    BY Zenon DEF Init
  <1>2. PICK tree : tree = InitTree(s.size) /\ root = tree /\ named = tree /\ durable = tree
                    /\ trs = [p \in Procs |-> <<>>] /\ closedWait = <<>> /\ meta = tree[MetaKey(Ino)]
    BY Zenon, <1>1 DEF HuggerInit
  <1>3. s.size \in Nat
    BY Zenon, ScenarioAssumption
  <1>4. Tree(tree) /\ Ctime(tree) = 0 /\ MetaRecord(tree[MetaKey(Ino)])
    BY Zenon, <1>2, <1>3, InitTreeOK
  <1>5. Roots
    <2>1. now \in Nat /\ Ctime(root) <= now
      BY <1>1, <1>2, <1>4
    <2> QED
      BY Zenon, <1>2, <1>4, <2>1 DEF Roots
  <1>6. Stack(<<>>)
    <2>1. <<>> = [i \in 1..0 |-> <<>>[i]]
      OBVIOUS
    <2> QED
      BY <2>1 DEF Stack
  <1>7. Shape
    <2>1. \A p \in Procs : trs[p] = <<>>
      BY Zenon, <1>2
    <2>2. DOMAIN trs = Procs /\ DOMAIN pc = Procs /\ DOMAIN job = Jobs /\ DOMAIN extLock = Extents /\ DOMAIN calls = Callers
      BY Zenon, <1>1, <1>2
    <2> QED
      BY Zenon, <1>6, <2>1, <2>2 DEF Shape
  <1>8. ASSUME NEW c \in Callers PROVE Call(c)
    <2>1. calls[c] \in s.writes \cup {[ofs |-> 0, left |-> 0, busy |-> FALSE]}
      BY Zenon, <1>1
    <2> QED
      BY Zenon, <2>1, InitCall
  <1>9. \A p \in Procs : pc[p] = "idle" /\ trs[p] = <<>>
    BY Zenon, <1>1, <1>2
  <1>10. ASSUME NEW j \in Jobs PROVE JobInvariant(j)
    <2>1. pc[j] = "idle" /\ trs[j] = <<>> /\ job[j] = NoJob
      BY Zenon, <1>1, <1>9, Distinct
    <2>2. JobRecord(NoJob) /\ NoJob.second = FALSE
      BY Zenon DEF JobRecord, NoJob
    <2>3. pc[j] \in Clean /\ pc[j] \notin Editing /\ pc[j] \notin Locking
      BY Zenon, <2>1 DEF Clean, Editing, Locking
    <2> QED
      BY Zenon, <2>1, <2>2, <2>3 DEF JobInvariant
  <1>11. SetterInvariant /\ ReaderInvariant
    <2>1. pc[Setter] = "idle" /\ trs[Setter] = <<>> /\ pc[Reader] = "idle" /\ trs[Reader] = <<>>
      BY Zenon, <1>9, Distinct
    <2> QED
      BY Zenon, <2>1 DEF SetterInvariant, ReaderInvariant
  <1>12. WaitInvariant
    BY <1>1, <1>2 DEF WaitInvariant
  <1>13. RInv
    BY Zenon, <1>5, <1>7, <1>8, <1>10, <1>11, <1>12 DEF RInv
  <1>14. \A p \in Procs : Pending(p) = <<>>
    BY Zenon, <1>9, PendingNone
  <1>15. Store!Init
    BY Zenon, <1>2, <1>14 DEF Store!Init
  <1> QED
    BY Zenon, <1>13, <1>15

LEMMA JobStepOK == ASSUME RInv, NEW j \in Jobs, JobStep(j) PROVE RInv' /\ StoreStep
  BY Zenon, LockMetaStep, LockExtentStep, BeginWriteStep, GoWriteStep, UnlockMetaStep, CommitWriteStep,
     RetryWriteStep, CloseWriteStep, WriteExtentStep, EndWriteStep DEF JobStep

LEMMA FsyncStep == ASSUME RInv, Fsync PROVE RInv' /\ StoreStep
  <1>1. Fsyncer \in Other /\ Fsyncer \in {Fsyncer, Rooter} /\ "exclusive" \in {"exclusive", "rooted"}
    BY Zenon DEF Other
  <1>2. CASE Exclusive(Fsyncer) /\ UNCHANGED <<huggerVars, active, metaLock, extLock, meta, calls,
                                      job, limit, running, slotWait, now, expect, got>>
    <2>1. UNCHANGED <<huggerVars, extLock, meta, calls, job, slotWait, now>>
      BY Zenon, <1>2
    <2> QED
      BY Zenon, <1>1, <1>2, <2>1, ExclusiveStep
  <1>3. CASE WaitExclusive(Fsyncer)
    BY Zenon, <1>1, <1>3, WaitExclusiveStep
  <1>4. CASE EndExclusive(Fsyncer, "exclusive", "storageFlush")
    BY Zenon, <1>1, <1>4, EndExclusiveStep
  <1>5. CASE FsFlushStorage(Fsyncer, "returned")
    BY Zenon, <1>1, <1>5, FlushStorageStep
  <1> QED
    BY Zenon, <1>2, <1>3, <1>4, <1>5 DEF Fsync

LEMMA RootBlockStep == ASSUME RInv, RootBlock PROVE RInv' /\ StoreStep
  <1>1. Rooter \in Other /\ Rooter \in {Fsyncer, Rooter} /\ Rooter \in {Flusher, Rooter}
        /\ "rooted" \in {"exclusive", "rooted"}
    BY Zenon DEF Other
  <1>2. CASE Exclusive(Rooter) /\ UNCHANGED <<huggerVars, active, metaLock, extLock, meta, calls,
                                      job, limit, running, slotWait, now, expect, got, promised>>
    <2>1. UNCHANGED <<huggerVars, extLock, meta, calls, job, slotWait, now>>
      BY Zenon, <1>2
    <2> QED
      BY Zenon, <1>1, <1>2, <2>1, ExclusiveStep
  <1>3. CASE WaitExclusive(Rooter)
    BY Zenon, <1>1, <1>3, WaitExclusiveStep
  <1>4. CASE (Flush(Rooter, "rooted") \/ FlushWoken(Rooter, "rooted")) /\ UNCHANGED localVars
    BY Zenon, <1>1, <1>4, FlushStep
  <1>5. CASE EndExclusive(Rooter, "rooted", "returned")
    BY Zenon, <1>1, <1>5, EndExclusiveStep
  <1> QED
    BY Zenon, <1>2, <1>3, <1>4, <1>5 DEF RootBlock

LEMMA SameStep == ASSUME RInv, UNCHANGED vars PROVE RInv' /\ StoreStep
  <1>1. /\ UNCHANGED <<root, trs, job, calls, meta, extLock, now>> /\ UNCHANGED pc /\ UNCHANGED trs
        /\ UNCHANGED <<closedWait, slotWait>> /\ UNCHANGED <<root, named, durable>>
    BY Zenon DEF vars, huggerVars, localVars
  <1>2. WaitInvariant'
    BY Zenon, <1>1, WaitKept DEF RInv
  <1>3. RInv'
    BY Zenon, <1>1, <1>2, OtherKept
  <1>4. \A q \in Procs : Pending(q)' = Pending(q)
    BY Zenon, <1>1, OtherPending
  <1> QED
    BY Zenon, <1>1, <1>3, <1>4, StutterStep

LEMMA NextStep == ASSUME RInv, [Next]_vars PROVE RInv' /\ StoreStep
  <1>1. CASE \E c \in Callers, j \in Jobs : Write(c, j)
    BY Zenon, <1>1, WriteStep
  <1>2. CASE \E j \in Jobs : JobStep(j)
    BY Zenon, <1>2, JobStepOK
  <1>3. CASE FsFlush
    <2>1. Flusher \in {Flusher, Rooter}
      BY Zenon
    <2> QED
      BY Zenon, <1>3, <2>1, FlushStep DEF FsFlush
  <1>4. CASE FsFlushStorage(Flusher, "idle")
    <2>1. Flusher \in Other
      BY Zenon DEF Other
    <2> QED
      BY Zenon, <1>4, <2>1, FlushStorageStep
  <1>5. CASE Fsync
    BY Zenon, <1>5, FsyncStep
  <1>6. CASE RootBlock
    BY Zenon, <1>6, RootBlockStep
  <1>7. CASE SetXAttr
    BY Zenon, <1>7, SetXAttrStep
  <1>8. CASE Read
    BY Zenon, <1>8, ReadStep
  <1>9. CASE UNCHANGED vars
    BY Zenon, <1>9, SameStep
  <1> QED
    BY Zenon, <1>1, <1>2, <1>3, <1>4, <1>5, <1>6, <1>7, <1>8, <1>9 DEF Next

(* The treehugger under the file system (ibtree/hugger, fs/merge.go)       *)
(* implements an atomic store, for every number of writers, jobs and       *)
(* limiter slots and every mix of the other calls: every commit, also one  *)
(* that lost the race for the root and was merged, applies exactly the     *)
(* change its transaction began with to the tree as it then is, and Flush  *)
(* names a tree on which no change is half made.                           *)
THEOREM StoreImplemented == Spec => ImplementsStore
  <1>1. Init => RInv /\ Store!Init
    BY Zenon, InitRInv
  <1>2. RInv /\ [Next]_vars => RInv' /\ [Store!Next]_(Store!storeVars)
    BY Zenon, NextStep DEF StoreStep
  <1> QED
    BY <1>1, <1>2, PTL DEF Spec, ImplementsStore, Store!Spec

-----------------------------------------------------------------------------
(***************************************************************************)
(* MergeTo3.                                                               *)
(***************************************************************************)

(* A merge invents nothing: every entry of its result comes, with its      *)
(* value, from the current tree or from the new one.                       *)
THEOREM NothingInvented ==
  ASSUME NEW current, NEW src, NEW dst, NEW local \in BOOLEAN,
         NEW k \in DOMAIN MergeTo3(current, src, dst, local)
  PROVE  \/ k \in DOMAIN current /\ MergeTo3(current, src, dst, local)[k] = current[k]
         \/ k \in DOMAIN dst /\ MergeTo3(current, src, dst, local)[k] = dst[k]
  BY Zenon DEF MergeTo3

(* The retry of a commit (local mode) keeps what the commit that won has   *)
(* done: an entry this transaction did not change is as it was in the tree *)
(* it is merged into.                                                      *)
THEOREM RetryKeepsWinner ==
  ASSUME NEW current, NEW src, NEW dst, NEW k, k \notin Delta(src, dst)
  PROVE  LET new == MergeTo3(current, src, dst, TRUE)
         IN  /\ k \in DOMAIN new <=> k \in DOMAIN current
             /\ k \in DOMAIN current => new[k] = current[k]
  BY Zenon DEF MergeTo3

(* It also keeps all of its own changes but those to metadata: the merged  *)
(* tree has what the transaction wrote and not what it deleted.            *)
THEOREM RetryKeepsLoser ==
  ASSUME NEW current, NEW src, NEW dst, NEW k \in Delta(src, dst), k.st # BST_META
  PROVE  LET new == MergeTo3(current, src, dst, TRUE)
         IN  /\ k \in DOMAIN new <=> k \in DOMAIN dst
             /\ k \in DOMAIN dst => new[k] = dst[k]
  <1>1. Applies(current, src, dst, TRUE, k)
    BY Zenon DEF Applies, Verdict
  <1> QED
    BY Zenon, <1>1 DEF MergeTo3

(* The merge of a tree from another server leaves alone every inode whose  *)
(* metadata did not change between the base and that tree.                 *)
THEOREM UnchangedInodeKept ==
  ASSUME NEW current, NEW src, NEW dst, NEW k \in DOMAIN current,
         MetaKey(k.ino) \notin Delta(src, dst)
  PROVE  LET new == MergeTo3(current, src, dst, FALSE)
         IN  k \in DOMAIN new /\ new[k] = current[k]
  BY Zenon DEF MergeTo3, InodeKeys, MetaKey, NewBlockKey

(* A change that does not meet one of the current tree is carried over,    *)
(* unless it deletes metadata.                                             *)
LEMMA IndependentApplies ==
  ASSUME NEW current, NEW src, NEW dst, WellKeyed(src), WellKeyed(dst),
         NEW k \in Delta(src, dst), k \notin Delta(src, current),
         k \in DOMAIN src /\ k.st = BST_META => k \in DOMAIN dst
  PROVE  Applies(current, src, dst, TRUE, k)
  <1>1. k \in DOMAIN src \cup DOMAIN dst
    BY Zenon DEF Delta
  <1>2. /\ k \in DOMAIN src <=> k \in DOMAIN current
        /\ k \in DOMAIN src => current[k] = src[k]
    BY Zenon DEF Delta
  <1>3. CASE k.st # BST_META
    BY Zenon, <1>3 DEF Applies, Verdict
  <1>4. CASE k.st = BST_META
    <2>1. k \in DOMAIN dst /\ MetaKey(k.ino) = k
      BY Zenon, <1>1, <1>4 DEF WellKeyed
    <2>2. \/ Verdict(current, src, dst, TRUE, k) = "MV_NEW"
          \/ Verdict(current, src, dst, TRUE, k) = "MV_EXISTING" /\ k \in DOMAIN current
      BY Zenon, <1>4, <2>1 DEF Verdict, MetaVerdict
    <2> QED
      BY Zenon, <1>2, <2>2 DEF Applies
  <1> QED
    BY Zenon, <1>3, <1>4

(* Of two transactions from the same root that change different entries,   *)
(* and delete no metadata, it does not matter which commits first: the     *)
(* merge of the one that lost yields the same tree either way.             *)
THEOREM IndependentCommitsCommute ==
  ASSUME NEW src, NEW one, NEW two,
         WellKeyed(src), WellKeyed(one), WellKeyed(two),
         Delta(src, one) \cap Delta(src, two) = {},
         \A k \in DOMAIN src : k.st = BST_META => k \in DOMAIN one \cap DOMAIN two
  PROVE  MergeTo3(one, src, two, TRUE) = MergeTo3(two, src, one, TRUE)
  <1> DEFINE Keep(current, dst) ==
               (DOMAIN current \ Delta(src, dst)) \cup (Delta(src, dst) \cap DOMAIN dst)
             Result(current, dst) ==
               [k \in Keep(current, dst) |->
                  IF k \in Delta(src, dst) THEN dst[k] ELSE current[k]]
  <1>1. MergeTo3(one, src, two, TRUE) = Result(one, two)
    <2>1. \A k \in Delta(src, two) : Applies(one, src, two, TRUE, k)
      BY Zenon, IndependentApplies
    <2>2. {k \in Delta(src, two) : Applies(one, src, two, TRUE, k)} = Delta(src, two)
      BY Zenon, <2>1
    <2> QED
      BY Zenon, <2>2 DEF MergeTo3
  <1>2. MergeTo3(two, src, one, TRUE) = Result(two, one)
    <2>1. \A k \in Delta(src, one) : Applies(two, src, one, TRUE, k)
      BY Zenon, IndependentApplies
    <2>2. {k \in Delta(src, one) : Applies(two, src, one, TRUE, k)} = Delta(src, one)
      BY Zenon, <2>1
    <2> QED
      BY Zenon, <2>2 DEF MergeTo3
  <1>3. Keep(one, two) = Keep(two, one)
    BY Zenon DEF Delta
  <1>4. \A k \in Keep(one, two) :
          (IF k \in Delta(src, two) THEN two[k] ELSE one[k]) =
          (IF k \in Delta(src, one) THEN one[k] ELSE two[k])
    BY Zenon DEF Delta
  <1> QED
    BY Zenon, <1>1, <1>2, <1>3, <1>4

LEMMA ForgetFresh ==
  ASSUME NEW t, Transaction(t)
  PROVE  /\ Transaction([t EXCEPT !.fresh = FALSE])
         /\ [t EXCEPT !.fresh = FALSE].dst = t.dst
  <1>1. ASSUME NEW d
        PROVE  /\ Transaction([t EXCEPT !.fresh = d])
               /\ [t EXCEPT !.fresh = d].dst = t.dst
    <2>1. [t EXCEPT !.fresh = d] = [src |-> t.src, dst |-> t.dst, fresh |-> d]
      BY DEF Transaction
    <2> QED
      BY Zenon, <2>1 DEF Transaction
  <1> QED
    BY <1>1, Zenon

(* Setting a key of another subtype adds no extent, and a merge has only   *)
(* extents that one of the two trees has.                                  *)
LEMMA SetExtents ==
  ASSUME NEW tree, NEW k, NEW v, k.st # BST_FILE_OFFSET2EXTENT
  PROVE  ExtentBlocks(TreeSet(tree, k, v)) \subseteq ExtentBlocks(tree)
  BY Zenon DEF ExtentBlocks, SubTypeKeys, TreeSet

LEMMA WriteExtents ==
  ASSUME NEW tree, NEW k, NEW v
  PROVE  ExtentBlocks(TreeSet(tree, k, v)) \subseteq ExtentBlocks(tree) \cup {v}
  BY Zenon DEF ExtentBlocks, SubTypeKeys, TreeSet

LEMMA MergeExtents ==
  ASSUME NEW current, NEW src, NEW dst
  PROVE  ExtentBlocks(MergeTo3(current, src, dst, TRUE))
           \subseteq ExtentBlocks(current) \cup ExtentBlocks(dst)
  <1> DEFINE m == MergeTo3(current, src, dst, TRUE)
  <1>1. ASSUME NEW k \in DOMAIN m
        PROVE  \/ k \in DOMAIN current /\ m[k] = current[k]
               \/ k \in DOMAIN dst /\ m[k] = dst[k]
    BY Zenon DEF MergeTo3
  <1> HIDE DEF m
  <1> QED
    BY Zenon, <1>1 DEF ExtentBlocks, SubTypeKeys, m

(* The steps of Hugger, as what they do to the tree and the transactions.  *)
LEMMA PushInv ==
  ASSUME IInv, NEW p \in Procs, NEW tree,
         trs' = [trs EXCEPT ![p] = newTransaction(p, tree)],
         UNCHANGED <<root, oldRoot>>, blocks \subseteq blocks',
         ExtentBlocks(tree) \subseteq Held'
  PROVE  IInv'
  <1> DEFINE t == [src |-> root, dst |-> tree, fresh |-> TRUE]
  <1>1. Stack(trs[p]) /\ Transaction(t)
    BY Zenon DEF IInv, Transaction
  <1>2. /\ Stack(Append(trs[p], t))
        /\ \A i \in DOMAIN Append(trs[p], t) :
             \/ Append(trs[p], t)[i] = t
             \/ i \in DOMAIN trs[p] /\ Append(trs[p], t)[i] = trs[p][i]
    BY Zenon, <1>1, AppendStack
  <1>3. DOMAIN trs' = Procs /\ trs'[p] = Append(trs[p], t)
        /\ \A q \in Procs : q # p => trs'[q] = trs[q]
    BY Zenon DEF IInv, newTransaction
  <1>4. Held \subseteq Held' /\ t.dst = tree
    BY Zenon DEF Held
  <1> HIDE DEF t
  <1>5. \A q \in Procs : Stack(trs'[q])
    BY Zenon, <1>2, <1>3 DEF IInv
  <1>6. ExtentBlocks(root') \subseteq Held'
    BY Zenon, <1>4 DEF IInv
  <1>7. \A q \in Procs : \A i \in DOMAIN trs'[q] : ExtentBlocks(trs'[q][i].dst) \subseteq Held'
    BY <1>2, <1>3, <1>4 DEF IInv
  <1> QED
    BY Zenon, <1>3, <1>5, <1>6, <1>7 DEF IInv

LEMMA CommitInv ==
  ASSUME IInv, NEW p \in Procs, CommitSucceeds(p), UNCHANGED <<oldRoot, blocks>>
  PROVE  IInv'
  <1>1. CASE UNCHANGED <<root, trs>>
    BY Zenon, <1>1 DEF IInv, Held
  <1>2. CASE SetIfEqualTo(p)
    <2>1. Len(trs[p]) \in DOMAIN trs[p] /\ Top(p) = trs[p][Len(trs[p])]
      BY Zenon, TopOfStack DEF IInv, CommitSucceeds, Top
    <2>2. ExtentBlocks(root') \subseteq Held
      BY Zenon, <1>2, <2>1 DEF IInv, SetIfEqualTo
    <2>3. Held' = Held
      BY Zenon DEF Held
    <2>4. DOMAIN trs' = Procs
      BY Zenon, <1>2 DEF SetIfEqualTo
    <2>5. ASSUME NEW q \in Procs
          PROVE  /\ Stack(trs'[q])
                 /\ \A i \in DOMAIN trs'[q] : ExtentBlocks(trs'[q][i].dst) \subseteq Held
      <3>1. trs'[q] = [i \in DOMAIN trs[q] |-> [trs[q][i] EXCEPT !.fresh = FALSE]]
        BY Zenon, <1>2 DEF SetIfEqualTo
      <3>2. /\ Len(trs[q]) \in Nat /\ DOMAIN trs[q] = 1..Len(trs[q])
            /\ \A i \in 1..Len(trs[q]) : Transaction(trs[q][i])
        BY Zenon, StackSeq DEF IInv
      <3>3. \A i \in 1..Len(trs[q]) : trs'[q][i] = [trs[q][i] EXCEPT !.fresh = FALSE]
        BY Zenon, <3>1, <3>2
      <3>4. \A i \in 1..Len(trs[q]) :
              Transaction(trs'[q][i]) /\ trs'[q][i].dst = trs[q][i].dst
        <4> TAKE i \in 1..Len(trs[q])
        <4>1. Transaction(trs[q][i])
          BY Zenon, <3>2
        <4> QED
          BY <3>3, <4>1, ForgetFresh, Zenon
      <3>5. DOMAIN trs'[q] = 1..Len(trs[q]) /\ trs'[q] = [i \in 1..Len(trs[q]) |-> trs'[q][i]]
        BY Zenon, <3>1, <3>2
      <3>6. Stack(trs'[q])
        BY Zenon, <3>2, <3>4, <3>5 DEF Stack
      <3> QED
        BY Zenon, <3>2, <3>4, <3>5, <3>6 DEF IInv
    <2> QED
      BY Zenon, <2>2, <2>3, <2>4, <2>5 DEF IInv
  <1> QED
    BY Zenon, <1>1, <1>2 DEF CommitSucceeds

LEMMA CloseInv ==
  ASSUME IInv, NEW p \in Procs, trs' = [trs EXCEPT ![p] = Front(@)],
         UNCHANGED <<root, oldRoot, blocks>>
  PROVE  IInv'
  <1>1. /\ Stack(Front(trs[p]))
        /\ \A i \in DOMAIN Front(trs[p]) : i \in DOMAIN trs[p] /\ Front(trs[p])[i] = trs[p][i]
    BY Zenon, FrontStack DEF IInv
  <1>2. DOMAIN trs' = Procs /\ trs'[p] = Front(trs[p])
        /\ \A q \in Procs : q # p => trs'[q] = trs[q]
    BY Zenon DEF IInv
  <1>3. Held' = Held
    BY Zenon DEF Held
  <1>4. \A q \in Procs : Stack(trs'[q])
    BY Zenon, <1>1, <1>2 DEF IInv
  <1>5. \A q \in Procs : \A i \in DOMAIN trs'[q] : ExtentBlocks(trs'[q][i].dst) \subseteq Held
    BY Zenon, <1>1, <1>2 DEF IInv
  <1> QED
    BY Zenon, <1>2, <1>3, <1>4, <1>5 DEF IInv

(* A flush lets go of all blocks but those of the root: no transaction is  *)
(* open then.                                                              *)
LEMMA FlushRootInv == ASSUME IInv, NEW p, NEW next, FlushRoot(p, next) PROVE IInv'
  <1>1. \A q \in Procs : trs'[q] = <<>>
    BY Zenon DEF FlushRoot, NoTransactions
  <1>2. root' = root /\ Held' = ExtentBlocks(root) /\ DOMAIN trs' = Procs
    BY Zenon DEF FlushRoot, Held, IInv
  <1>3. \A q \in Procs : Stack(trs'[q])
    BY Zenon DEF FlushRoot, IInv
  <1>4. \A q \in Procs : DOMAIN trs'[q] = {}
    BY <1>1
  <1> QED
    BY Zenon, <1>2, <1>3, <1>4 DEF IInv

LEMMA SameInv == ASSUME IInv, UNCHANGED <<root, oldRoot, trs, blocks>> PROVE IInv'
  BY Zenon DEF IInv, Held

LEMMA GetTransactionInv ==
  ASSUME IInv, NEW p \in Procs, NEW tree, ExtentBlocks(tree) \subseteq ExtentBlocks(root),
         GetNestableTransaction(p, tree), UNCHANGED <<root, oldRoot, blocks>>
  PROVE  IInv'
  <1>1. ExtentBlocks(tree) \subseteq Held'
    BY Zenon DEF IInv, Held
  <1> QED
    BY Zenon, <1>1, PushInv DEF GetNestableTransaction

LEMMA KeysOfOtherTypes ==
  /\ MetaKey(Ino).st # BST_FILE_OFFSET2EXTENT
  /\ XAttrKey.st # BST_FILE_OFFSET2EXTENT
  BY DEF MetaKey, XAttrKey, NewBlockKey, BST_META, BST_XATTR, BST_FILE_OFFSET2EXTENT

(* The steps of a call of write and of its goroutine.                      *)
LEMMA JobInv == ASSUME IInv, NEW j \in Jobs, JobStep(j) PROVE IInv'
  <1>1. j \in Procs
    BY Zenon, ProcsAssumption
  <1>2. CASE LockMeta(j) \/ LockExtent(j) \/ GoWrite(j) \/ UnlockMeta(j) \/ EndWrite(j)
    BY Zenon, <1>2, SameInv DEF LockMeta, LockExtent, GoWrite, UnlockMeta, EndWrite, huggerVars
  <1>3. CASE BeginWrite(j)
    <2>1. PICK m : /\ GetTransaction(j, TreeSet(root, MetaKey(Ino), m))
                   /\ UNCHANGED <<root, oldRoot, blocks>>
      BY Zenon, <1>3 DEF BeginWrite
    <2>2. ExtentBlocks(TreeSet(root, MetaKey(Ino), m)) \subseteq ExtentBlocks(root)
      BY Zenon, SetExtents, KeysOfOtherTypes
    <2> QED
      BY Zenon, <1>1, <2>1, <2>2, GetTransactionInv DEF GetTransaction, GetNestableTransaction
  <1>4. CASE CommitWrite(j)
    <2>1. CASE CommitSucceeds(j) /\ UNCHANGED <<oldRoot, blocks>>
      BY Zenon, <1>1, <2>1, CommitInv
    <2>2. CASE CommitFails(j) /\ UNCHANGED <<oldRoot, blocks>>
      BY Zenon, <2>2, SameInv DEF CommitFails
    <2> QED
      BY Zenon, <1>4, <2>1, <2>2 DEF CommitWrite, CommitUntilSucceeds
  <1>5. CASE RetryWrite(j)
    <2> DEFINE merged == MergeTo3(root, Top(j).src, Top(j).dst, TRUE)
    <2>1. /\ trs[j] # <<>>
          /\ GetNestableTransaction(j, merged)
          /\ UNCHANGED <<root, oldRoot, blocks>>
      BY Zenon, <1>5 DEF RetryWrite, MergeAndRetry
    <2>2. Len(trs[j]) \in DOMAIN trs[j] /\ Top(j) = trs[j][Len(trs[j])]
      BY Zenon, <1>1, <2>1, TopOfStack DEF IInv, Top
    <2>3. ExtentBlocks(merged) \subseteq ExtentBlocks(root) \cup ExtentBlocks(Top(j).dst)
      BY Zenon, MergeExtents
    <2> HIDE DEF merged
    <2>4. ExtentBlocks(merged) \subseteq Held'
      BY Zenon, <1>1, <2>1, <2>2, <2>3 DEF IInv, Held
    <2> QED
      BY Zenon, <1>1, <2>1, <2>4, PushInv DEF GetNestableTransaction
  <1>6. CASE CloseWrite(j)
    BY Zenon, <1>1, <1>6, CloseInv DEF CloseWrite, Close
  <1>7. CASE WriteExtent(j)
    <2>1. PICK k, content : /\ GetTransaction(j, TreeSet(root, k, content))
                            /\ blocks' = blocks \cup {content}
                            /\ UNCHANGED <<root, oldRoot>>
      BY Zenon, <1>7 DEF WriteExtent, GetStorageBlock
    <2>2. ExtentBlocks(TreeSet(root, k, content)) \subseteq ExtentBlocks(root) \cup {content}
      BY Zenon, WriteExtents
    <2>3. ExtentBlocks(TreeSet(root, k, content)) \subseteq Held'
      BY Zenon, <2>1, <2>2 DEF IInv, Held
    <2> QED
      BY Zenon, <1>1, <2>1, <2>3, PushInv DEF GetTransaction
  <1> QED
    BY Zenon, <1>2, <1>3, <1>4, <1>5, <1>6, <1>7 DEF JobStep

LEMMA FlushInv ==
  ASSUME IInv, NEW p, NEW next, Flush(p, next) \/ FlushWoken(p, next)
  PROVE  IInv'
  <1>1. CASE FlushRoot(p, next)
    BY Zenon, <1>1, FlushRootInv
  <1>2. CASE FlushWait(p, TRUE) \/ FlushWait(p, FALSE)
    BY Zenon, <1>2, SameInv DEF FlushWait
  <1> QED
    BY Zenon, <1>1, <1>2 DEF Flush, FlushWoken

LEMMA SetXAttrInv == ASSUME IInv, SetXAttr PROVE IInv'
  <1>1. Setter \in Procs
    BY Zenon, ProcsAssumption
  <1>2. CASE UNCHANGED huggerVars
    BY Zenon, <1>2, SameInv DEF huggerVars
  <1>3. CASE Update2Try(Setter, TreeSet(root, XAttrKey, XAttrValue))
    <2>1. /\ GetNestableTransaction(Setter, TreeSet(root, XAttrKey, XAttrValue))
          /\ UNCHANGED <<root, oldRoot, blocks>>
      BY Zenon, <1>3 DEF Update2Try
    <2>2. ExtentBlocks(TreeSet(root, XAttrKey, XAttrValue)) \subseteq ExtentBlocks(root)
      BY Zenon, SetExtents, KeysOfOtherTypes
    <2> QED
      BY Zenon, <1>1, <2>1, <2>2, GetTransactionInv
  <1>4. CASE TryCommit(Setter, "close", "try")
    <2>1. CASE CommitSucceeds(Setter) /\ UNCHANGED <<oldRoot, blocks>>
      BY Zenon, <1>1, <2>1, CommitInv
    <2>2. CASE CommitFails(Setter) /\ UNCHANGED <<oldRoot, blocks>>
      BY Zenon, <2>2, SameInv DEF CommitFails
    <2> QED
      BY Zenon, <1>4, <2>1, <2>2 DEF TryCommit
  <1>5. CASE Close(Setter, "unlock")
    BY Zenon, <1>1, <1>5, CloseInv DEF Close
  <1> QED
    BY Zenon, <1>2, <1>3, <1>4, <1>5 DEF SetXAttr

LEMMA ReadInv == ASSUME IInv, Read PROVE IInv'
  <1>1. Reader \in Procs
    BY Zenon, ProcsAssumption
  <1>2. CASE UNCHANGED huggerVars
    BY <1>2, SameInv DEF huggerVars
  <1>3. CASE GetTransaction(Reader, root) /\ UNCHANGED <<root, oldRoot, blocks>>
    BY Zenon, <1>1, <1>3, GetTransactionInv DEF GetTransaction, GetNestableTransaction
  <1>4. CASE \E next : Close(Reader, next)
    BY Zenon, <1>1, <1>4, CloseInv DEF Close
  <1> QED
    BY Zenon, <1>2, <1>3, <1>4 DEF Read

(* In every reachable state the data of every extent that the root or an   *)
(* open transaction refers to is held (NoDanglingExtent), however many     *)
(* writes, merges, reads, attribute changes and flushes run at once.       *)
THEOREM ExtentsHeld == Spec => []NoDanglingExtent
  <1>1. Init => IInv
    <2> SUFFICES ASSUME Init PROVE IInv
      BY Zenon
    <2>1. /\ root = oldRoot /\ blocks = {}
          /\ trs = [p \in Procs |-> <<>>]
      BY Zenon DEF Init, HuggerInit
    <2>2. Stack(<<>>)
      <3>1. <<>> = [i \in 1..0 |-> <<>>[i]]
        OBVIOUS
      <3> QED
        BY <3>1 DEF Stack
    <2> QED
      BY <2>1, <2>2 DEF IInv, Held
  <1>2. IInv /\ [Next]_vars => IInv'
    <2> SUFFICES ASSUME IInv, [Next]_vars PROVE IInv'
      BY Zenon
    <2>1. CASE \E c \in Callers, j \in Jobs : Write(c, j)
      BY Zenon, <2>1, SameInv DEF Write, huggerVars
    <2>2. CASE \E j \in Jobs : JobStep(j)
      BY Zenon, <2>2, JobInv
    <2>3. CASE FsFlush
      BY Zenon, <2>3, FlushInv DEF FsFlush
    <2>4. CASE FsFlushStorage(Flusher, "idle")
      BY Zenon, <2>4, SameInv DEF FsFlushStorage
    <2>5. CASE Fsync
      BY Zenon, <2>5, SameInv DEF Fsync, WaitExclusive, EndExclusive, FsFlushStorage, huggerVars
    <2>6. CASE RootBlock
      <3>1. CASE UNCHANGED huggerVars
        BY Zenon, <3>1, SameInv DEF huggerVars
      <3>2. CASE Flush(Rooter, "rooted") \/ FlushWoken(Rooter, "rooted")
        BY Zenon, <3>2, FlushInv
      <3> QED
        BY Zenon, <2>6, <3>1, <3>2 DEF RootBlock, WaitExclusive, EndExclusive
    <2>7. CASE SetXAttr
      BY Zenon, <2>7, SetXAttrInv
    <2>8. CASE Read
      BY Zenon, <2>8, ReadInv
    <2>9. CASE UNCHANGED vars
      BY Zenon, <2>9, SameInv DEF vars, huggerVars
    <2> QED
      BY Zenon, <2>1, <2>2, <2>3, <2>4, <2>5, <2>6, <2>7, <2>8, <2>9 DEF Next
  <1>3. IInv => NoDanglingExtent
    BY Zenon DEF IInv, Held, NoDanglingExtent
  <1> QED
    BY <1>1, <1>2, <1>3, PTL DEF Spec
=============================================================================
