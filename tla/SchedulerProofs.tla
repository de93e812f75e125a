--------------------------- MODULE SchedulerProofs ---------------------------
(***************************************************************************)
(* Safety of the scheduler for any number of workspaces and semaphores.    *)
(*                                                                         *)
(* A handler is a chain of small operations on the queues, the banks and   *)
(* the other places a process can be in, with a dispatch at the end.  The  *)
(* invariant is therefore stated about values (Consistent), with a place   *)
(* "nowhere" for the process an operation has in its hands, each operation *)
(* has a lemma, and the step of an action composes the lemmas of the       *)
(* operations it consists of.  The second part proves the refinement of    *)
(* PriorityScheduler.                                                      *)
(***************************************************************************)
EXTENDS SchedulerRefinement, SequenceTheorems, TLAPS

-----------------------------------------------------------------------------
(***************************************************************************)
(* What the list operations of the ST20 scheduler do to a list linked      *)
(* through the workspaces: enqueueProcess, the dequeue in dispatchProcess, *)
(* insertReadyQueue, and a semaphore's append and removal.  Each lemma is  *)
(* about one list; that the operations leave the other lists alone comes   *)
(* after them.                                                             *)
(***************************************************************************)
\* The link words of a well typed memory.
LinkType == [Proc -> Proc \union Descriptor \union {NoProcess}]

Holds(ws, w) == \E i \in 1 .. Len(ws) : ws[i] = w

HoldsWaiter(ds, w) == \E i \in 1 .. Len(ds) : ds[i].wptr = w

\* A list depends on the link words of its own workspaces only.
LEMMA ListsFrame ==
  ASSUME NEW lk, NEW lk2, NEW front, NEW back, NEW ws \in Seq(Proc),
         Lists(lk, front, back, ws),
         \A i \in 1 .. Len(ws) : lk2[ws[i]] = lk[ws[i]]
  PROVE  Lists(lk2, front, back, ws)
BY DEF Lists

\* Likewise the waiters of a semaphore.
LEMMA ListsWaitersFrame ==
  ASSUME NEW lk, NEW lk2, NEW front, NEW back, NEW ds \in Seq(Descriptor),
         ListsWaiters(lk, front, back, ds),
         \A i \in 1 .. Len(ds) : lk2[ds[i].wptr] = lk[ds[i].wptr]
  PROVE  ListsWaiters(lk2, front, back, ds)
BY DEF ListsWaiters

\* The front word is NO_PROCESS exactly when the list is empty.
LEMMA ListsEmpty ==
  ASSUME NEW lk, NEW front, NEW back, NEW ws \in Seq(Proc),
         Lists(lk, front, back, ws)
  PROVE  /\ front = NoProcess <=> ws = <<>>
         /\ back = NoProcess <=> ws = <<>>
         /\ ws # <<>> => /\ Len(ws) >= 1
                         /\ front = ws[1] /\ front \in Proc
                         /\ back = ws[Len(ws)] /\ back \in Proc
<1>1. CASE ws = <<>>
  BY <1>1 DEF Lists
<1>2. CASE ws # <<>>
  <2>1. Len(ws) \in Nat /\ Len(ws) >= 1
    BY <1>2, EmptySeq, LenProperties
  <2>2. ws[1] \in Proc /\ ws[Len(ws)] \in Proc
    BY <2>1, ElementOfSeq
  <2>3. QED
    BY <1>2, <2>1, <2>2, SchedulerAssumption DEF Lists
<1>3. QED
  BY <1>1, <1>2

\* Appending w the way enqueueProcess does.
LEMMA ListsAppend ==
  ASSUME NEW lk \in LinkType, NEW front, NEW back, NEW ws \in Seq(Proc),
         NEW w \in Proc,
         Lists(lk, front, back, ws), NoRepeats(ws),
         ~Holds(ws, w),
         NEW lk2,
         lk2 = IF front = NoProcess
               THEN [lk EXCEPT ![w] = NoProcess]
               ELSE [[lk EXCEPT ![w] = NoProcess] EXCEPT ![back] = w]
  PROVE  /\ Lists(lk2, IF front = NoProcess THEN w ELSE front, w, Append(ws, w))
         /\ Append(ws, w) \in Seq(Proc)
         /\ NoRepeats(Append(ws, w))
         /\ \A v : Holds(Append(ws, w), v) <=> v = w \/ Holds(ws, v)
<1> DEFINE new == Append(ws, w)
<1>1. /\ Len(ws) \in Nat
      /\ new \in Seq(Proc) /\ new # <<>>
      /\ Len(new) = Len(ws) + 1
      /\ \A i \in 1 .. Len(ws) : new[i] = ws[i] /\ ws[i] \in Proc
      /\ new[Len(ws) + 1] = w
  BY AppendProperties, LenProperties, ElementOfSeq
<1> HIDE DEF new
<1>2. /\ new \in Seq(Proc)
      /\ NoRepeats(new)
      /\ \A v : Holds(new, v) <=> v = w \/ Holds(ws, v)
  <2>1. \A i \in 1 .. Len(ws) : ws[i] # w
    BY DEF Holds
  <2>2. NoRepeats(new)
    BY <1>1, <2>1 DEF NoRepeats
  <2>3. \A v : Holds(new, v) <=> v = w \/ Holds(ws, v)
    BY <1>1 DEF Holds
  <2>4. QED
    BY <1>1, <2>2, <2>3
<1>3. CASE ws = <<>>
  <2>1. front = NoProcess /\ Len(ws) = 0
    BY <1>3, ListsEmpty
  <2>2. lk2[w] = NoProcess
    BY <2>1 DEF LinkType
  <2>3. Lists(lk2, w, w, new)
    BY <1>1, <2>1, <2>2 DEF Lists
  <2>4. QED
    BY <1>2, <2>1, <2>3 DEF new
<1>4. CASE ws # <<>>
  <2>1. /\ front # NoProcess /\ front = ws[1]
        /\ back = ws[Len(ws)] /\ back \in Proc /\ Len(ws) >= 1
    BY <1>4, ListsEmpty
  <2>2. /\ lk2[w] = NoProcess /\ lk2[back] = w
        /\ \A v \in Proc \ {w, back} : lk2[v] = lk[v]
    <3>1. back # w
      BY <1>1, <2>1 DEF Holds
    <3>2. QED
      BY <2>1, <3>1 DEF LinkType
  <2>3. ASSUME NEW i \in 1 .. Len(new)
        PROVE  lk2[new[i]] = IF i = Len(new) THEN NoProcess ELSE new[i + 1]
    <3>1. CASE i = Len(new)
      BY <1>1, <2>2, <3>1
    <3>2. CASE i = Len(ws)
      BY <1>1, <2>1, <2>2, <3>2
    <3>3. CASE i < Len(ws)
      <4>1. ws[i] # back /\ ws[i] # w
        BY <1>1, <2>1, <3>3 DEF NoRepeats, Holds
      <4>2. lk[ws[i]] = ws[i + 1]
        BY <1>1, <3>3 DEF Lists
      <4>3. i \in 1 .. Len(ws) /\ i + 1 \in 1 .. Len(ws) /\ i # Len(new)
        BY <1>1, <3>3
      <4>4. new[i] = ws[i] /\ new[i + 1] = ws[i + 1] /\ ws[i] \in Proc
        BY <1>1, <4>3
      <4>5. QED
        BY <2>2, <4>1, <4>2, <4>3, <4>4
    <3>4. QED
      BY <1>1, <3>1, <3>2, <3>3
  <2>4. QED
    <3>1. front = new[1] /\ w = new[Len(new)]
      BY <1>1, <2>1
    <3>2. Lists(lk2, front, w, new)
      BY <1>1, <2>3, <3>1 DEF Lists
    <3>3. QED
      BY <1>2, <2>1, <3>2 DEF new
<1>5. QED
  BY <1>3, <1>4

\* Taking the front off the way dispatchProcess does.
LEMMA ListsTail ==
  ASSUME NEW lk, NEW front, NEW back, NEW ws \in Seq(Proc), ws # <<>>,
         Lists(lk, front, back, ws), NoRepeats(ws)
  PROVE  /\ Lists(lk, lk[front], IF lk[front] = NoProcess THEN NoProcess ELSE back,
                  Tail(ws))
         /\ Tail(ws) \in Seq(Proc)
         /\ lk[front] \in Proc \union {NoProcess}
         /\ NoRepeats(Tail(ws))
         /\ \A w : Holds(Tail(ws), w) <=> w # front /\ Holds(ws, w)
<1> DEFINE rest == Tail(ws)
<1>1. /\ Len(ws) \in Nat /\ Len(ws) >= 1
      /\ rest \in Seq(Proc)
      /\ Len(rest) = Len(ws) - 1
      /\ \A i \in 1 .. Len(rest) : rest[i] = ws[i + 1]
      /\ \A i \in 1 .. Len(ws) : ws[i] \in Proc
  BY HeadTailProperties, EmptySeq, LenProperties, ElementOfSeq
<1> HIDE DEF rest
<1>2. /\ front = ws[1]
      /\ back = ws[Len(ws)]
      /\ lk[front] = IF Len(ws) = 1 THEN NoProcess ELSE ws[2]
  BY <1>1 DEF Lists
<1>3. rest = <<>> <=> Len(ws) = 1
  BY <1>1, EmptySeq
<1>4. NoRepeats(rest)
  BY <1>1 DEF NoRepeats
<1>5. lk[front] \in Proc \union {NoProcess} /\ (lk[front] = NoProcess <=> rest = <<>>)
  BY <1>1, <1>2, <1>3, SchedulerAssumption
<1>6. \A i \in 1 .. Len(rest) :
         lk[rest[i]] = IF i = Len(rest) THEN NoProcess ELSE rest[i + 1]
  BY <1>1 DEF Lists
<1>7. Lists(lk, lk[front], IF lk[front] = NoProcess THEN NoProcess ELSE back, rest)
  BY <1>1, <1>2, <1>3, <1>5, <1>6 DEF Lists
<1>8. ASSUME NEW w
      PROVE  Holds(rest, w) <=> w # front /\ Holds(ws, w)
  <2>1. ASSUME NEW i \in 1 .. Len(rest), rest[i] = w
        PROVE  w # front /\ \E j \in 1 .. Len(ws) : ws[j] = w
    BY <1>1, <1>2, <2>1 DEF NoRepeats
  <2>2. ASSUME NEW i \in 1 .. Len(ws), ws[i] = w, w # front
        PROVE  \E j \in 1 .. Len(rest) : rest[j] = w
    <3>1. i - 1 \in 1 .. Len(rest) /\ rest[i - 1] = w
      BY <1>1, <1>2, <2>2
    <3>2. QED
      BY <3>1
  <2>3. QED
    BY <2>1, <2>2 DEF Holds
<1>9. QED
  BY <1>1, <1>4, <1>5, <1>7, <1>8 DEF rest

\* Putting the list of ws in front of that of vs the way insertReadyQueue does.
LEMMA ListsConcat ==
  ASSUME NEW lk \in LinkType, NEW front, NEW back, NEW ws \in Seq(Proc),
         ws # <<>>, Lists(lk, front, back, ws), NoRepeats(ws),
         NEW front2, NEW back2, NEW vs \in Seq(Proc),
         Lists(lk, front2, back2, vs), NoRepeats(vs),
         \A w : ~(Holds(ws, w) /\ Holds(vs, w)),
         NEW lk2,
         lk2 = IF front2 = NoProcess THEN lk ELSE [lk EXCEPT ![back] = front2]
  PROVE  /\ Lists(lk2, front, IF front2 = NoProcess THEN back ELSE back2, ws \o vs)
         /\ ws \o vs \in Seq(Proc)
         /\ NoRepeats(ws \o vs)
         /\ \A w : Holds(ws \o vs, w) <=> Holds(ws, w) \/ Holds(vs, w)
<1> DEFINE all == ws \o vs
<1>0. \A i \in 1 .. Len(ws), j \in 1 .. Len(vs) : ws[i] # vs[j]
  BY DEF Holds
<1>1. /\ Len(ws) \in Nat /\ Len(ws) >= 1 /\ Len(vs) \in Nat
      /\ all \in Seq(Proc)
      /\ Len(all) = Len(ws) + Len(vs)
      /\ \A i \in 1 .. Len(all) :
           all[i] = IF i <= Len(ws) THEN ws[i] ELSE vs[i - Len(ws)]
      /\ \A i \in 1 .. Len(ws) : ws[i] \in Proc
      /\ \A i \in 1 .. Len(vs) : vs[i] \in Proc
  BY ConcatProperties, EmptySeq, LenProperties, ElementOfSeq
<1>2. all # <<>>
  BY <1>1, EmptySeq
<1>3. vs = <<>> => all = ws
  BY ConcatEmptySeq
<1> HIDE DEF all
<1>4. \A i \in 1 .. Len(ws) : i \in 1 .. Len(all) /\ all[i] = ws[i]
  BY <1>1
<1>5. \A j \in 1 .. Len(vs) : Len(ws) + j \in 1 .. Len(all) /\ all[Len(ws) + j] = vs[j]
  <2>1. ASSUME NEW j \in 1 .. Len(vs)
        PROVE  Len(ws) + j \in 1 .. Len(all) /\ all[Len(ws) + j] = vs[j]
    <3>1. /\ Len(ws) + j \in 1 .. Len(all) /\ ~(Len(ws) + j <= Len(ws))
          /\ (Len(ws) + j) - Len(ws) = j
      BY <1>1
    <3>2. QED
      BY <1>1, <3>1
  <2>2. QED
    BY <2>1
<1>6. NoRepeats(all)
  <2>1. ASSUME NEW i \in 1 .. Len(all), NEW j \in 1 .. Len(all), all[i] = all[j]
        PROVE  i = j
    <3>1. CASE i <= Len(ws) /\ j <= Len(ws)
      <4>1. i \in 1 .. Len(ws) /\ j \in 1 .. Len(ws)
        BY <1>1, <3>1
      <4>2. QED
        BY <1>4, <2>1, <4>1 DEF NoRepeats
    <3>2. CASE i > Len(ws) /\ j > Len(ws)
      <4>1. i - Len(ws) \in 1 .. Len(vs) /\ j - Len(ws) \in 1 .. Len(vs)
        BY <1>1, <3>2
      <4>2. all[i] = vs[i - Len(ws)] /\ all[j] = vs[j - Len(ws)]
        BY <1>1, <3>2
      <4>3. i - Len(ws) = j - Len(ws)
        BY <2>1, <4>1, <4>2 DEF NoRepeats
      <4>4. QED
        BY <1>1, <4>3
    <3>3. CASE i <= Len(ws) /\ j > Len(ws)
      <4>1. i \in 1 .. Len(ws) /\ j - Len(ws) \in 1 .. Len(vs)
        BY <1>1, <3>3
      <4>2. all[i] = ws[i] /\ all[j] = vs[j - Len(ws)]
        BY <1>1, <3>3
      <4>3. QED
        BY <1>0, <2>1, <4>1, <4>2
    <3>4. CASE i > Len(ws) /\ j <= Len(ws)
      <4>1. i - Len(ws) \in 1 .. Len(vs) /\ j \in 1 .. Len(ws)
        BY <1>1, <3>4
      <4>2. all[j] = ws[j] /\ all[i] = vs[i - Len(ws)]
        BY <1>1, <3>4
      <4>3. QED
        BY <1>0, <2>1, <4>1, <4>2
    <3>5. QED
      BY <1>1, <3>1, <3>2, <3>3, <3>4
  <2>2. QED
    BY <2>1 DEF NoRepeats
<1>7. ASSUME NEW w
      PROVE  Holds(all, w) <=> Holds(ws, w) \/ Holds(vs, w)
  <2>1. ASSUME NEW i \in 1 .. Len(all), all[i] = w
        PROVE  \/ \E j \in 1 .. Len(ws) : ws[j] = w
               \/ \E j \in 1 .. Len(vs) : vs[j] = w
    <3>1. CASE i <= Len(ws)
      BY <1>1, <2>1, <3>1
    <3>2. CASE i > Len(ws)
      <4>1. i - Len(ws) \in 1 .. Len(vs) /\ vs[i - Len(ws)] = w
        BY <1>1, <2>1, <3>2
      <4>2. QED
        BY <4>1
    <3>3. QED
      BY <1>1, <3>1, <3>2
  <2>2. QED
    BY <1>4, <1>5, <2>1 DEF Holds
<1>8. CASE vs = <<>>
  <2>1. front2 = NoProcess /\ all = ws /\ lk2 = lk
    BY <1>3, <1>8, ListsEmpty
  <2>2. QED
    BY <1>1, <1>6, <1>7, <2>1 DEF all
<1>9. CASE vs # <<>>
  <2>1. /\ front2 # NoProcess /\ front2 = vs[1] /\ back2 = vs[Len(vs)]
        /\ Len(vs) >= 1
        /\ front = ws[1] /\ back = ws[Len(ws)] /\ back \in Proc
    BY <1>9, ListsEmpty
  <2>2. /\ lk2[back] = front2
        /\ \A w \in Proc \ {back} : lk2[w] = lk[w]
    BY <2>1 DEF LinkType
  <2>3. ASSUME NEW i \in 1 .. Len(all)
        PROVE  lk2[all[i]] = IF i = Len(all) THEN NoProcess ELSE all[i + 1]
    <3>1. CASE i < Len(ws)
      <4>1. /\ i \in 1 .. Len(ws) /\ i + 1 \in 1 .. Len(ws) /\ i # Len(ws)
            /\ i # Len(all)
        BY <1>1, <3>1
      <4>2. lk[ws[i]] = ws[i + 1]
        BY <4>1 DEF Lists
      <4>3. ws[i] # back /\ ws[i] \in Proc
        BY <1>1, <2>1, <4>1 DEF NoRepeats
      <4>4. QED
        BY <1>4, <2>2, <4>1, <4>2, <4>3
    <3>2. CASE i = Len(ws)
      <4>1. all[i] = back /\ i # Len(all)
        BY <1>1, <1>4, <2>1, <3>2
      <4>2. 1 \in 1 .. Len(vs)
        BY <1>1, <2>1
      <4>3. all[i + 1] = vs[1]
        BY <1>5, <3>2, <4>2
      <4>4. QED
        BY <2>1, <2>2, <4>1, <4>3
    <3>3. CASE i > Len(ws)
      <4> DEFINE j == i - Len(ws)
      <4>1. j \in 1 .. Len(vs) /\ (j = Len(vs) <=> i = Len(all)) /\ i = Len(ws) + j
        BY <1>1, <3>3
      <4> HIDE DEF j
      <4>2. j # Len(vs) => j + 1 \in 1 .. Len(vs) /\ i + 1 = Len(ws) + (j + 1)
        BY <1>1, <4>1
      <4>3. lk[vs[j]] = IF j = Len(vs) THEN NoProcess ELSE vs[j + 1]
        BY <4>1 DEF Lists
      <4>4. Len(ws) \in 1 .. Len(ws)
        BY <1>1
      <4>5. vs[j] # back /\ vs[j] \in Proc
        BY <1>0, <1>1, <2>1, <4>1, <4>4
      <4>6. all[i] = vs[j] /\ (j # Len(vs) => all[i + 1] = vs[j + 1])
        BY <1>5, <4>1, <4>2
      <4>7. QED
        BY <2>2, <4>1, <4>3, <4>5, <4>6
    <3>4. QED
      BY <1>1, <3>1, <3>2, <3>3
  <2>4. front = all[1] /\ back2 = all[Len(all)]
    <3>1. 1 \in 1 .. Len(ws) /\ Len(vs) \in 1 .. Len(vs)
      BY <1>1, <2>1
    <3>2. QED
      BY <1>1, <1>4, <1>5, <2>1, <3>1
  <2>5. Lists(lk2, front, back2, all)
    BY <1>2, <2>3, <2>4 DEF Lists
  <2>6. QED
    BY <1>1, <1>6, <1>7, <2>1, <2>5 DEF all
<1>10. QED
  BY <1>8, <1>9

\* A process that waits once on a semaphore.
NoRepeatedWaiter(ds) ==
  \A i, j \in 1 .. Len(ds) : ds[i].wptr = ds[j].wptr => i = j

\* A semaphore's front word is NO_PROCESS exactly when nobody waits.
LEMMA ListsWaitersEmpty ==
  ASSUME NEW lk, NEW front, NEW back, NEW ds \in Seq(Descriptor),
         ListsWaiters(lk, front, back, ds)
  PROVE  /\ front = NoProcess <=> ds = <<>>
         /\ back = NoProcess <=> ds = <<>>
         /\ ds # <<>> => /\ Len(ds) >= 1
                         /\ front = ds[1] /\ front \in Descriptor
                         /\ back = ds[Len(ds)] /\ back \in Descriptor
<1>1. CASE ds = <<>>
  BY <1>1 DEF ListsWaiters
<1>2. CASE ds # <<>>
  <2>1. Len(ds) \in Nat /\ Len(ds) >= 1
    BY <1>2, EmptySeq, LenProperties
  <2>2. ds[1] \in Descriptor /\ ds[Len(ds)] \in Descriptor
    BY <2>1, ElementOfSeq
  <2>3. QED
    BY <1>2, <2>1, <2>2, SchedulerAssumption DEF ListsWaiters
<1>3. QED
  BY <1>1, <1>2

\* Queueing a waiter the way waitSemaphore does.
LEMMA ListsWaitersAppend ==
  ASSUME NEW lk \in LinkType, NEW front, NEW back, NEW ds \in Seq(Descriptor),
         NEW d \in Descriptor,
         ListsWaiters(lk, front, back, ds), NoRepeatedWaiter(ds),
         ~HoldsWaiter(ds, d.wptr),
         NEW lk2,
         lk2 = IF front = NoProcess
               THEN [lk EXCEPT ![d.wptr] = NoProcess]
               ELSE [[lk EXCEPT ![d.wptr] = NoProcess] EXCEPT ![back.wptr] = d]
  PROVE  /\ ListsWaiters(lk2, IF front = NoProcess THEN d ELSE front, d, Append(ds, d))
         /\ Append(ds, d) \in Seq(Descriptor)
         /\ NoRepeatedWaiter(Append(ds, d))
         /\ \A v : HoldsWaiter(Append(ds, d), v) <=> v = d.wptr \/ HoldsWaiter(ds, v)
<1> DEFINE new == Append(ds, d)
<1>1. /\ Len(ds) \in Nat
      /\ new \in Seq(Descriptor) /\ new # <<>>
      /\ Len(new) = Len(ds) + 1
      /\ \A i \in 1 .. Len(ds) : new[i] = ds[i] /\ ds[i] \in Descriptor
      /\ new[Len(ds) + 1] = d
  BY AppendProperties, LenProperties, ElementOfSeq
<1> HIDE DEF new
<1>2. /\ new \in Seq(Descriptor)
      /\ NoRepeatedWaiter(new)
      /\ \A v : HoldsWaiter(new, v) <=> v = d.wptr \/ HoldsWaiter(ds, v)
  <2>1. \A i \in 1 .. Len(ds) : ds[i].wptr # d.wptr
    BY DEF HoldsWaiter
  <2>2. NoRepeatedWaiter(new)
    BY <1>1, <2>1 DEF NoRepeatedWaiter
  <2>3. \A v : HoldsWaiter(new, v) <=> v = d.wptr \/ HoldsWaiter(ds, v)
    BY <1>1 DEF HoldsWaiter
  <2>4. QED
    BY <1>1, <2>2, <2>3
<1>3. d.wptr \in Proc /\ \A i \in 1 .. Len(ds) : ds[i].wptr \in Proc
  BY <1>1 DEF Descriptor
<1>4. CASE ds = <<>>
  <2>1. front = NoProcess /\ Len(ds) = 0
    BY <1>4, ListsWaitersEmpty
  <2>2. lk2[d.wptr] = NoProcess
    BY <1>3, <2>1 DEF LinkType
  <2>3. ListsWaiters(lk2, d, d, new)
    BY <1>1, <2>1, <2>2 DEF ListsWaiters
  <2>4. QED
    BY <1>2, <2>1, <2>3 DEF new
<1>5. CASE ds # <<>>
  <2>1. /\ front # NoProcess /\ front = ds[1]
        /\ back = ds[Len(ds)] /\ Len(ds) >= 1
    BY <1>5, ListsWaitersEmpty
  <2>2. back.wptr \in Proc /\ back.wptr # d.wptr
    BY <1>1, <1>3, <2>1 DEF HoldsWaiter
  <2>3. /\ lk2[d.wptr] = NoProcess /\ lk2[back.wptr] = d
        /\ \A v \in Proc \ {d.wptr, back.wptr} : lk2[v] = lk[v]
    BY <1>3, <2>1, <2>2 DEF LinkType
  <2>4. ASSUME NEW i \in 1 .. Len(new)
        PROVE  lk2[new[i].wptr] = IF i = Len(new) THEN NoProcess ELSE new[i + 1]
    <3>1. CASE i = Len(new)
      BY <1>1, <2>3, <3>1
    <3>2. CASE i = Len(ds)
      BY <1>1, <2>1, <2>3, <3>2
    <3>3. CASE i < Len(ds)
      <4>1. i \in 1 .. Len(ds) /\ i + 1 \in 1 .. Len(ds) /\ i # Len(new) /\ i # Len(ds)
        BY <1>1, <3>3
      <4>2. ds[i].wptr # back.wptr /\ ds[i].wptr # d.wptr
        BY <1>1, <2>1, <4>1 DEF NoRepeatedWaiter, HoldsWaiter
      <4>3. lk[ds[i].wptr] = ds[i + 1]
        BY <4>1 DEF ListsWaiters
      <4>4. new[i] = ds[i] /\ new[i + 1] = ds[i + 1] /\ ds[i].wptr \in Proc
        BY <1>1, <1>3, <4>1
      <4>5. QED
        BY <2>3, <4>1, <4>2, <4>3, <4>4
    <3>4. QED
      BY <1>1, <3>1, <3>2, <3>3
  <2>5. front = new[1] /\ d = new[Len(new)]
    BY <1>1, <2>1
  <2>6. ListsWaiters(lk2, front, d, new)
    BY <1>1, <2>4, <2>5 DEF ListsWaiters
  <2>7. QED
    BY <1>2, <2>1, <2>6 DEF new
<1>6. QED
  BY <1>4, <1>5

\* Taking the front waiter off the way signalSemaphore does.
LEMMA ListsWaitersTail ==
  ASSUME NEW lk, NEW front, NEW back, NEW ds \in Seq(Descriptor), ds # <<>>,
         ListsWaiters(lk, front, back, ds), NoRepeatedWaiter(ds)
  PROVE  /\ ListsWaiters(lk, lk[front.wptr],
                         IF lk[front.wptr] = NoProcess THEN NoProcess ELSE back,
                         Tail(ds))
         /\ Tail(ds) \in Seq(Descriptor)
         /\ lk[front.wptr] \in Descriptor \union {NoProcess}
         /\ NoRepeatedWaiter(Tail(ds))
         /\ \A w : HoldsWaiter(Tail(ds), w) <=> w # front.wptr /\ HoldsWaiter(ds, w)
<1> DEFINE rest == Tail(ds)
<1>1. /\ Len(ds) \in Nat /\ Len(ds) >= 1
      /\ rest \in Seq(Descriptor)
      /\ Len(rest) = Len(ds) - 1
      /\ \A i \in 1 .. Len(rest) : rest[i] = ds[i + 1]
      /\ \A i \in 1 .. Len(ds) : ds[i] \in Descriptor
  BY HeadTailProperties, EmptySeq, LenProperties, ElementOfSeq
<1> HIDE DEF rest
<1>2. /\ front = ds[1]
      /\ back = ds[Len(ds)]
      /\ lk[front.wptr] = IF Len(ds) = 1 THEN NoProcess ELSE ds[2]
  BY <1>1 DEF ListsWaiters
<1>3. rest = <<>> <=> Len(ds) = 1
  BY <1>1, EmptySeq
<1>4. NoRepeatedWaiter(rest)
  BY <1>1 DEF NoRepeatedWaiter
<1>5. /\ lk[front.wptr] \in Descriptor \union {NoProcess}
      /\ lk[front.wptr] = NoProcess <=> rest = <<>>
  BY <1>1, <1>2, <1>3, SchedulerAssumption
<1>6. \A i \in 1 .. Len(rest) :
         lk[rest[i].wptr] = IF i = Len(rest) THEN NoProcess ELSE rest[i + 1]
  BY SMTT(20), <1>1 DEF ListsWaiters
<1>7. ListsWaiters(lk, lk[front.wptr],
                   IF lk[front.wptr] = NoProcess THEN NoProcess ELSE back, rest)
  BY <1>1, <1>2, <1>3, <1>5, <1>6 DEF ListsWaiters
<1>8. ASSUME NEW w
      PROVE  HoldsWaiter(rest, w) <=> w # front.wptr /\ HoldsWaiter(ds, w)
  <2>1. ASSUME NEW i \in 1 .. Len(rest), rest[i].wptr = w
        PROVE  w # front.wptr /\ \E j \in 1 .. Len(ds) : ds[j].wptr = w
    <3>1. /\ i + 1 \in 1 .. Len(ds) /\ 1 \in 1 .. Len(ds) /\ i + 1 # 1
          /\ ds[i + 1].wptr = w
      BY <1>1, <2>1
    <3>2. w # ds[1].wptr
      BY <3>1 DEF NoRepeatedWaiter
    <3>3. QED
      BY <1>2, <3>1, <3>2
  <2>2. ASSUME NEW i \in 1 .. Len(ds), ds[i].wptr = w, w # front.wptr
        PROVE  \E j \in 1 .. Len(rest) : rest[j].wptr = w
    <3>1. i # 1
      BY <1>2, <2>2
    <3>2. i - 1 \in 1 .. Len(rest) /\ (i - 1) + 1 = i
      BY <1>1, <3>1
    <3>3. rest[i - 1] = ds[i]
      BY <1>1, <3>2
    <3>4. QED
      BY <2>2, <3>2, <3>3
  <2>3. QED
    BY <2>1, <2>2 DEF HoldsWaiter
<1>9. QED
  BY <1>1, <1>4, <1>5, <1>7, <1>8 DEF rest

-----------------------------------------------------------------------------
(* Where a process is *)

Parked       == [kind |-> "parked", at |-> NoProcess]
Running      == [kind |-> "running", at |-> NoProcess]
Preempted    == [kind |-> "preempted", at |-> NoProcess]
Asleep       == [kind |-> "asleep", at |-> NoProcess]
Chain        == [kind |-> "chain", at |-> NoProcess]
Nowhere      == [kind |-> "nowhere", at |-> NoProcess]
ReadyAt(p)   == [kind |-> "ready", at |-> p]
WaitingAt(s) == [kind |-> "waiting", at |-> s]

Anywhere == Place \union {Nowhere}

\* What the queue operations leave alone.
Rest == [semaphore |-> semaphore, semOrder |-> semOrder, asleep |-> asleep,
         chain |-> chain, chainOrder |-> chainOrder, parked |-> parked]

QueuesTyped(q) ==
  /\ q.fptr \in [Priority -> Proc \union {NoProcess}]
  /\ q.bptr \in [Priority -> Proc \union {NoProcess}]
  /\ q.link \in LinkType
  /\ q.order \in [Priority -> Seq(Proc)]

SemEnd  == Descriptor \union {NoProcess}
SemType == [Sem -> [count : Nat, front : SemEnd, back : SemEnd]]

RestTyped(r) ==
  /\ r.semaphore \in SemType
  /\ r.semOrder \in [Sem -> Seq(Descriptor)]
  /\ r.asleep \in SUBSET Descriptor
  /\ r.chain \in [front : Proc \union {NoProcess}, back : Proc \union {NoProcess}]
  /\ r.chainOrder \in Seq(Proc)
  /\ r.parked \in SUBSET Proc

Typed(f, c, sh, q, r) ==
  /\ f \in [Proc -> Anywhere]
  /\ c \in Context
  /\ sh \in Context \union {NoShadow}
  /\ QueuesTyped(q)
  /\ RestTyped(r)

\* The lists are what their histories say, and no list holds a process twice.
LinkedReady(q) ==
  \A p \in Priority : /\ Lists(q.link, q.fptr[p], q.bptr[p], q.order[p])
                      /\ NoRepeats(q.order[p])

LinkedChain(q, r) ==
  /\ Lists(q.link, r.chain.front, r.chain.back, r.chainOrder)
  /\ NoRepeats(r.chainOrder)

LinkedSems(q, r) ==
  \A s \in Sem : /\ ListsWaiters(q.link, r.semaphore[s].front, r.semaphore[s].back,
                                 r.semOrder[s])
                 /\ NoRepeatedWaiter(r.semOrder[s])

\* f tells for every process the place that holds it.
OwnedBanks(f, c, sh) ==
  \A w \in Proc : /\ f[w] = Running <=> c.running /\ c.wptr = w
                  /\ f[w] = Preempted <=> sh # NoShadow /\ sh.wptr = w

OwnedReady(f, q) ==
  \A p \in Priority, w \in Proc :
    f[w] = ReadyAt(p) <=> Holds(q.order[p], w)

OwnedChain(f, r) ==
  \A w \in Proc : f[w] = Chain <=> Holds(r.chainOrder, w)

OwnedSems(f, r) ==
  \A s \in Sem, w \in Proc :
    f[w] = WaitingAt(s) <=> HoldsWaiter(r.semOrder[s], w)

OwnedSets(f, r) ==
  /\ \A w \in Proc : /\ f[w] = Parked <=> w \in r.parked
                     /\ f[w] = Asleep <=> \E d \in r.asleep : d.wptr = w
  /\ \A d, e \in r.asleep : d.wptr = e.wptr => d = e

\* The shadow bank holds a low priority process interrupted by high priority.
ShadowFits(c, sh) ==
  sh # NoShadow => /\ c.priority = HIGH_PRIORITY
                   /\ sh.running /\ sh.priority = LOW_PRIORITY
                   /\ ~sh.interruptsDisabled

Consistent(f, c, sh, q, r) ==
  /\ Typed(f, c, sh, q, r)
  /\ LinkedReady(q) /\ LinkedChain(q, r) /\ LinkedSems(q, r)
  /\ OwnedBanks(f, c, sh) /\ OwnedReady(f, q) /\ OwnedChain(f, r)
  /\ OwnedSems(f, r) /\ OwnedSets(f, r)
  /\ ShadowFits(c, sh)

\* The places are pairwise different.
LEMMA Places ==
  /\ \A p \in Priority : ReadyAt(p) \in Place
  /\ \A s \in Sem : WaitingAt(s) \in Place
  /\ {Parked, Running, Preempted, Asleep, Chain} \subseteq Place
  /\ Nowhere \notin Place
  /\ Parked \notin {Running, Preempted, Asleep, Chain, Nowhere}
  /\ Running \notin {Preempted, Asleep, Chain, Nowhere}
  /\ Preempted \notin {Asleep, Chain, Nowhere}
  /\ Asleep \notin {Chain, Nowhere}
  /\ Chain # Nowhere
  /\ \A p : ReadyAt(p) \notin {Parked, Running, Preempted, Asleep, Chain, Nowhere}
  /\ \A s : WaitingAt(s) \notin {Parked, Running, Preempted, Asleep, Chain, Nowhere}
  /\ \A p, s : ReadyAt(p) # WaitingAt(s)
  /\ \A p, o : ReadyAt(p) = ReadyAt(o) => p = o
  /\ \A s, t : WaitingAt(s) = WaitingAt(t) => s = t
<1> USE DEF Parked, Running, Preempted, Asleep, Chain, Nowhere, ReadyAt, WaitingAt
<1>1. \A p \in Priority : ReadyAt(p) \in Place
  BY DEF Place
<1>2. \A s \in Sem : WaitingAt(s) \in Place
  BY DEF Place
<1>3. {Parked, Running, Preempted, Asleep, Chain} \subseteq Place
  BY DEF Place
<1>4. Nowhere \notin Place
  BY DEF Place
<1>5. /\ Parked \notin {Running, Preempted, Asleep, Chain, Nowhere}
      /\ Running \notin {Preempted, Asleep, Chain, Nowhere}
      /\ Preempted \notin {Asleep, Chain, Nowhere}
      /\ Asleep \notin {Chain, Nowhere}
      /\ Chain # Nowhere
  OBVIOUS
<1>6. \A p : ReadyAt(p).kind = "ready" /\ ReadyAt(p).at = p
  OBVIOUS
<1>7. \A s : WaitingAt(s).kind = "waiting" /\ WaitingAt(s).at = s
  OBVIOUS
<1>8. \A x \in {Parked, Running, Preempted, Asleep, Chain, Nowhere} :
        x.kind \notin {"ready", "waiting"}
  OBVIOUS
<1> HIDE DEF Parked, Running, Preempted, Asleep, Chain, Nowhere, ReadyAt, WaitingAt
<1>9. QED
  BY <1>1, <1>2, <1>3, <1>4, <1>5, <1>6, <1>7, <1>8

\* Link words lk may differ only for processes at one place and the one in hand.
WritesOnly(f, place, q, lk) ==
  \A v \in Proc : f[v] \notin {Nowhere, place} => lk[v] = q.link[v]

\* With link words lk the lists of all places but one are as they were.
ElsewhereLinked(place, q, r, lk) ==
  /\ \A p \in Priority : ReadyAt(p) # place =>
       Lists(lk, q.fptr[p], q.bptr[p], q.order[p])
  /\ Chain # place => Lists(lk, r.chain.front, r.chain.back, r.chainOrder)
  /\ \A s \in Sem : WaitingAt(s) # place =>
       ListsWaiters(lk, r.semaphore[s].front, r.semaphore[s].back, r.semOrder[s])

\* Writing link words of the processes at one place, and of the one in hand,
\* leaves the lists of every other place as they are.
LEMMA OthersLinked ==
  ASSUME NEW f, NEW c, NEW sh, NEW q, NEW r, Consistent(f, c, sh, q, r),
         NEW place, NEW lk, WritesOnly(f, place, q, lk)
  PROVE  ElsewhereLinked(place, q, r, lk)
<1> USE DEF WritesOnly
<1>1. ASSUME NEW p \in Priority, ReadyAt(p) # place
      PROVE  Lists(lk, q.fptr[p], q.bptr[p], q.order[p])
  <2>1. q.order[p] \in Seq(Proc)
    BY DEF Consistent, Typed, QueuesTyped
  <2>2. ASSUME NEW i \in 1 .. Len(q.order[p])
        PROVE  lk[q.order[p][i]] = q.link[q.order[p][i]]
    <3>1. q.order[p][i] \in Proc
      BY <2>1, ElementOfSeq
    <3>2. f[q.order[p][i]] = ReadyAt(p)
      BY <3>1 DEF Consistent, OwnedReady, Holds
    <3>3. QED
      BY <1>1, <3>1, <3>2, Places
  <2>3. QED
    BY <2>1, <2>2, ListsFrame DEF Consistent, LinkedReady
<1>2. ASSUME Chain # place
      PROVE  Lists(lk, r.chain.front, r.chain.back, r.chainOrder)
  <2>1. r.chainOrder \in Seq(Proc)
    BY DEF Consistent, Typed, RestTyped
  <2>2. ASSUME NEW i \in 1 .. Len(r.chainOrder)
        PROVE  lk[r.chainOrder[i]] = q.link[r.chainOrder[i]]
    <3>1. r.chainOrder[i] \in Proc
      BY <2>1, ElementOfSeq
    <3>2. f[r.chainOrder[i]] = Chain
      BY <3>1 DEF Consistent, OwnedChain, Holds
    <3>3. QED
      BY <1>2, <3>1, <3>2, Places
  <2>3. QED
    BY <2>1, <2>2, ListsFrame DEF Consistent, LinkedChain
<1>3. ASSUME NEW s \in Sem, WaitingAt(s) # place
      PROVE  ListsWaiters(lk, r.semaphore[s].front, r.semaphore[s].back, r.semOrder[s])
  <2>1. r.semOrder[s] \in Seq(Descriptor)
    BY DEF Consistent, Typed, RestTyped
  <2>2. ASSUME NEW i \in 1 .. Len(r.semOrder[s])
        PROVE  lk[r.semOrder[s][i].wptr] = q.link[r.semOrder[s][i].wptr]
    <3>1. r.semOrder[s][i] \in Descriptor
      BY <2>1, ElementOfSeq
    <3>2. r.semOrder[s][i].wptr \in Proc
      BY <3>1 DEF Descriptor
    <3>3. f[r.semOrder[s][i].wptr] = WaitingAt(s)
      BY <3>2 DEF Consistent, OwnedSems, HoldsWaiter
    <3>4. QED
      BY <1>3, <3>2, <3>3, Places
  <2>3. QED
    BY <2>1, <2>2, ListsWaitersFrame DEF Consistent, LinkedSems
<1>4. QED
  BY <1>1, <1>2, <1>3 DEF ElsewhereLinked

-------------------------------------------------------------------------------
\* enqueueProcess takes the process in hand into the queue of priority p.
LEMMA EnqueueConsistent ==
  ASSUME NEW f, NEW c, NEW sh, NEW q, NEW r, Consistent(f, c, sh, q, r),
         NEW w \in Proc, f[w] = Nowhere, NEW p \in Priority
  PROVE  Consistent([f EXCEPT ![w] = ReadyAt(p)], c, sh, Enqueue(q, w, p), r)
<1> DEFINE f2 == [f EXCEPT ![w] = ReadyAt(p)]
           q2 == Enqueue(q, w, p)
<1>1. /\ f \in [Proc -> Anywhere] /\ QueuesTyped(q) /\ RestTyped(r)
      /\ q.order[p] \in Seq(Proc)
      /\ LinkedReady(q) /\ LinkedChain(q, r) /\ LinkedSems(q, r)
      /\ OwnedBanks(f, c, sh) /\ OwnedReady(f, q) /\ OwnedChain(f, r)
      /\ OwnedSems(f, r) /\ OwnedSets(f, r)
  BY DEF Consistent, Typed, QueuesTyped
<1>2. /\ q2.fptr = [q.fptr EXCEPT ![p] = IF q.fptr[p] = NoProcess THEN w ELSE q.fptr[p]]
      /\ q2.bptr = [q.bptr EXCEPT ![p] = w]
      /\ q2.link = IF q.fptr[p] = NoProcess
                   THEN [q.link EXCEPT ![w] = NoProcess]
                   ELSE [[q.link EXCEPT ![w] = NoProcess] EXCEPT ![q.bptr[p]] = w]
      /\ q2.order = [q.order EXCEPT ![p] = Append(q.order[p], w)]
  BY DEF Enqueue
<1>3. /\ f2 \in [Proc -> Anywhere] /\ f2[w] = ReadyAt(p)
      /\ \A v \in Proc \ {w} : f2[v] = f[v]
  BY <1>1, Places DEF Anywhere
<1> HIDE DEF f2, q2
<1>4. /\ Lists(q.link, q.fptr[p], q.bptr[p], q.order[p])
      /\ NoRepeats(q.order[p])
      /\ ~Holds(q.order[p], w)
  BY <1>1, Places DEF LinkedReady, OwnedReady
<1>5. q.fptr[p] # NoProcess =>
        q.bptr[p] \in Proc /\ f[q.bptr[p]] = ReadyAt(p)
  <2> SUFFICES ASSUME q.fptr[p] # NoProcess
               PROVE  q.bptr[p] \in Proc /\ f[q.bptr[p]] = ReadyAt(p)
    OBVIOUS
  <2>1. /\ q.order[p] # <<>>
        /\ q.bptr[p] = q.order[p][Len(q.order[p])] /\ q.bptr[p] \in Proc
        /\ Len(q.order[p]) >= 1
    BY <1>1, <1>4, ListsEmpty
  <2>2. Len(q.order[p]) \in 1 .. Len(q.order[p])
    BY <1>1, <2>1, LenProperties
  <2>3. QED
    BY <1>1, <2>1, <2>2 DEF OwnedReady, Holds
<1>6. q2.link \in LinkType /\ QueuesTyped(q2)
  <2>1. Append(q.order[p], w) \in Seq(Proc)
    BY <1>1, AppendProperties
  <2>2. \A v \in Proc, x \in Proc \union {NoProcess}, lk \in LinkType :
          [lk EXCEPT ![v] = x] \in LinkType
    BY DEF LinkType
  <2>3. q2.link \in LinkType
    <3>1. [q.link EXCEPT ![w] = NoProcess] \in LinkType
      BY <1>1, <2>2 DEF QueuesTyped
    <3>2. q.fptr[p] # NoProcess =>
            [[q.link EXCEPT ![w] = NoProcess] EXCEPT ![q.bptr[p]] = w] \in LinkType
      BY <1>5, <2>2, <3>1
    <3>3. QED
      BY <1>2, <3>1, <3>2
  <2>4. QED
    BY <1>1, <1>2, <2>1, <2>3 DEF QueuesTyped
\* Only processes at p, and the one in hand, get another link word.
<1>7. WritesOnly(f, ReadyAt(p), q, q2.link)
  BY <1>1, <1>2, <1>5 DEF QueuesTyped, LinkType, WritesOnly
<1>8. /\ Lists(q2.link, IF q.fptr[p] = NoProcess THEN w ELSE q.fptr[p], w,
               Append(q.order[p], w))
      /\ NoRepeats(Append(q.order[p], w))
      /\ \A v : Holds(Append(q.order[p], w), v) <=> v = w \/ Holds(q.order[p], v)
  <2>1. q.link \in LinkType
    BY <1>1 DEF QueuesTyped
  <2>2. QED
    BY <1>1, <1>2, <1>4, <2>1, ListsAppend
<1>9. /\ \A o \in Priority : o # p => Lists(q2.link, q.fptr[o], q.bptr[o], q.order[o])
      /\ Lists(q2.link, r.chain.front, r.chain.back, r.chainOrder)
      /\ \A s \in Sem : ListsWaiters(q2.link, r.semaphore[s].front,
                                     r.semaphore[s].back, r.semOrder[s])
  <2>1. ElsewhereLinked(ReadyAt(p), q, r, q2.link)
    BY <1>7, OthersLinked
  <2>2. QED
    BY <2>1, Places DEF ElsewhereLinked
<1>10. LinkedReady(q2)
  <2>1. /\ Lists(q2.link, q2.fptr[p], q2.bptr[p], q2.order[p])
        /\ NoRepeats(q2.order[p])
    BY <1>1, <1>2, <1>8 DEF QueuesTyped
  <2>2. ASSUME NEW o \in Priority, o # p
        PROVE  /\ Lists(q2.link, q2.fptr[o], q2.bptr[o], q2.order[o])
               /\ NoRepeats(q2.order[o])
    BY <1>1, <1>2, <1>9, <2>2 DEF QueuesTyped, LinkedReady
  <2>3. QED
    BY <2>1, <2>2 DEF LinkedReady
<1>11. LinkedChain(q2, r) /\ LinkedSems(q2, r)
  BY <1>1, <1>9 DEF LinkedChain, LinkedSems
<1>12. OwnedReady(f2, q2)
  <2>1. ASSUME NEW v \in Proc
        PROVE  f2[v] = ReadyAt(p) <=> Holds(q2.order[p], v)
    <3>1. q2.order[p] = Append(q.order[p], w)
      BY <1>1, <1>2 DEF QueuesTyped
    <3>2. Holds(Append(q.order[p], w), v) <=> v = w \/ Holds(q.order[p], v)
      BY <1>8
    <3>3. QED
      BY <1>1, <1>3, <3>1, <3>2, Places DEF OwnedReady
  <2>2. ASSUME NEW o \in Priority, o # p, NEW v \in Proc
        PROVE  f2[v] = ReadyAt(o) <=> Holds(q2.order[o], v)
    <3>1. q2.order[o] = q.order[o]
      BY <1>1, <1>2, <2>2 DEF QueuesTyped
    <3>2. f2[v] = ReadyAt(o) <=> f[v] = ReadyAt(o)
      BY <1>1, <1>3, <2>2, Places
    <3>3. QED
      BY <1>1, <3>1, <3>2 DEF OwnedReady
  <2>3. QED
    BY <2>1, <2>2 DEF OwnedReady
<1>13. OwnedBanks(f2, c, sh) /\ OwnedChain(f2, r) /\ OwnedSems(f2, r) /\ OwnedSets(f2, r)
  BY <1>1, <1>3, Places DEF OwnedBanks, OwnedChain, OwnedSems, OwnedSets
<1>14. QED
  BY <1>1, <1>3, <1>6, <1>10, <1>11, <1>12, <1>13
     DEF Consistent, Typed, f2, q2

\* dispatchProcess takes the front of a queue in hand.
LEMMA DequeueConsistent ==
  ASSUME NEW f, NEW c, NEW sh, NEW q, NEW r, Consistent(f, c, sh, q, r),
         NEW p \in Priority, q.fptr[p] # NoProcess
  PROVE  /\ q.fptr[p] \in Proc
         /\ f[q.fptr[p]] = ReadyAt(p)
         /\ Consistent([f EXCEPT ![q.fptr[p]] = Nowhere], c, sh, Dequeue(q, p), r)
<1> DEFINE w == q.fptr[p]
           f2 == [f EXCEPT ![w] = Nowhere]
           q2 == Dequeue(q, p)
<1>1. /\ f \in [Proc -> Anywhere] /\ QueuesTyped(q) /\ RestTyped(r)
      /\ q.order[p] \in Seq(Proc)
      /\ LinkedReady(q) /\ LinkedChain(q, r) /\ LinkedSems(q, r)
      /\ OwnedBanks(f, c, sh) /\ OwnedReady(f, q) /\ OwnedChain(f, r)
      /\ OwnedSems(f, r) /\ OwnedSets(f, r)
  BY DEF Consistent, Typed, QueuesTyped
<1>2. /\ q2.fptr = [q.fptr EXCEPT ![p] = q.link[w]]
      /\ q2.bptr = [q.bptr EXCEPT ![p] = IF q.link[w] = NoProcess
                                          THEN NoProcess ELSE q.bptr[p]]
      /\ q2.link = q.link
      /\ q2.order = [q.order EXCEPT ![p] = Tail(q.order[p])]
  BY DEF Dequeue
<1>3. /\ Lists(q.link, w, q.bptr[p], q.order[p])
      /\ NoRepeats(q.order[p])
      /\ q.order[p] # <<>>
      /\ w \in Proc /\ w = q.order[p][1] /\ Len(q.order[p]) >= 1
  BY <1>1, ListsEmpty DEF LinkedReady
<1>4. f[w] = ReadyAt(p)
  <2>1. 1 \in 1 .. Len(q.order[p])
    BY <1>1, <1>3, LenProperties
  <2>2. QED
    BY <1>1, <1>3, <2>1 DEF OwnedReady, Holds
<1>5. /\ Lists(q.link, q.link[w], IF q.link[w] = NoProcess THEN NoProcess ELSE q.bptr[p],
               Tail(q.order[p]))
      /\ Tail(q.order[p]) \in Seq(Proc)
      /\ q.link[w] \in Proc \union {NoProcess}
      /\ NoRepeats(Tail(q.order[p]))
      /\ \A v : Holds(Tail(q.order[p]), v) <=> v # w /\ Holds(q.order[p], v)
  BY <1>1, <1>3, ListsTail
<1>6. /\ f2 \in [Proc -> Anywhere] /\ f2[w] = Nowhere
      /\ \A v \in Proc \ {w} : f2[v] = f[v]
  BY <1>1, <1>3 DEF Anywhere
<1> HIDE DEF f2, q2, w
<1>7. QueuesTyped(q2)
  BY <1>1, <1>2, <1>5 DEF QueuesTyped
<1>8. LinkedReady(q2)
  <2>1. /\ Lists(q2.link, q2.fptr[p], q2.bptr[p], q2.order[p])
        /\ NoRepeats(q2.order[p])
    BY <1>1, <1>2, <1>5 DEF QueuesTyped
  <2>2. ASSUME NEW o \in Priority, o # p
        PROVE  /\ Lists(q2.link, q2.fptr[o], q2.bptr[o], q2.order[o])
               /\ NoRepeats(q2.order[o])
    BY <1>1, <1>2, <2>2 DEF QueuesTyped, LinkedReady
  <2>3. QED
    BY <2>1, <2>2 DEF LinkedReady
<1>9. LinkedChain(q2, r) /\ LinkedSems(q2, r)
  BY <1>1, <1>2 DEF LinkedChain, LinkedSems
<1>10. OwnedReady(f2, q2)
  <2>1. ASSUME NEW v \in Proc
        PROVE  f2[v] = ReadyAt(p) <=> Holds(q2.order[p], v)
    <3>1. q2.order[p] = Tail(q.order[p])
      BY <1>1, <1>2 DEF QueuesTyped
    <3>2. f2[v] = ReadyAt(p) <=> v # w /\ f[v] = ReadyAt(p)
      BY <1>6, Places
    <3>3. f[v] = ReadyAt(p) <=> Holds(q.order[p], v)
      BY <1>1 DEF OwnedReady
    <3>4. QED
      BY <1>5, <3>1, <3>2, <3>3
  <2>2. ASSUME NEW o \in Priority, o # p, NEW v \in Proc
        PROVE  f2[v] = ReadyAt(o) <=> Holds(q2.order[o], v)
    <3>1. q2.order[o] = q.order[o]
      BY <1>1, <1>2, <2>2 DEF QueuesTyped
    <3>2. f2[v] = ReadyAt(o) <=> f[v] = ReadyAt(o)
      BY <1>4, <1>6, <2>2, Places
    <3>3. QED
      BY <1>1, <3>1, <3>2 DEF OwnedReady
  <2>3. QED
    BY <2>1, <2>2 DEF OwnedReady
<1>11. OwnedBanks(f2, c, sh) /\ OwnedChain(f2, r) /\ OwnedSems(f2, r) /\ OwnedSets(f2, r)
  BY <1>1, <1>4, <1>6, Places DEF OwnedBanks, OwnedChain, OwnedSems, OwnedSets
<1>12. Consistent(f2, c, sh, q2, r)
  BY <1>1, <1>6, <1>7, <1>8, <1>9, <1>10, <1>11 DEF Consistent, Typed
<1>13. QED
  BY <1>3, <1>4, <1>12 DEF f2, q2, w

-------------------------------------------------------------------------------
\* The banks change, and with them who is running, interrupted or in hand.
LEMMA BanksConsistent ==
  ASSUME NEW f, NEW c, NEW sh, NEW q, NEW r, Consistent(f, c, sh, q, r),
         NEW f2 \in [Proc -> Anywhere], NEW c2 \in Context,
         NEW sh2 \in Context \union {NoShadow},
         \A w \in Proc : \/ f2[w] = f[w]
                         \/ {f[w], f2[w]} \subseteq {Running, Preempted, Nowhere},
         OwnedBanks(f2, c2, sh2),
         ShadowFits(c2, sh2)
  PROVE  Consistent(f2, c2, sh2, q, r)
<1>1. OwnedReady(f2, q)
  <2>1. \A p \in Priority, w \in Proc : f2[w] = ReadyAt(p) <=> f[w] = ReadyAt(p)
    BY Places
  <2>2. QED
    BY <2>1 DEF Consistent, OwnedReady
<1>2. OwnedChain(f2, r)
  BY Places DEF Consistent, OwnedChain
<1>3. OwnedSems(f2, r)
  <2>1. \A s \in Sem, w \in Proc : f2[w] = WaitingAt(s) <=> f[w] = WaitingAt(s)
    BY Places
  <2>2. QED
    BY <2>1 DEF Consistent, OwnedSems
<1>4. OwnedSets(f2, r)
  BY Places DEF Consistent, OwnedSets
<1>5. QED
  BY <1>1, <1>2, <1>3, <1>4 DEF Consistent, Typed

\* A running process is descheduled: its bank stops and it is in hand.
LEMMA SuspendConsistent ==
  ASSUME NEW f, NEW c, NEW sh, NEW q, NEW r, Consistent(f, c, sh, q, r), c.running
  PROVE  /\ c.wptr \in Proc
         /\ Suspended(c) \in Context /\ ~Suspended(c).running
         /\ Suspended(c).priority = c.priority
         /\ Consistent([f EXCEPT ![c.wptr] = Nowhere], Suspended(c), sh, q, r)
<1> DEFINE f2 == [f EXCEPT ![c.wptr] = Nowhere]
           c2 == Suspended(c)
<1>1. /\ c \in Context /\ f \in [Proc -> Anywhere] /\ OwnedBanks(f, c, sh)
      /\ sh \in Context \union {NoShadow} /\ ShadowFits(c, sh)
  BY DEF Consistent, Typed
<1>2. /\ c2 \in Context /\ ~c2.running /\ c2.priority = c.priority
      /\ c.wptr \in Proc
  <2> DEFINE d == Fresh(c.wptr, c.priority)
  <2>1. c.wptr \in Proc /\ c.priority \in Priority
    BY <1>1 DEF Context
  <2>2. d \in Context /\ d.priority = c.priority
    BY <2>1 DEF Context, Fresh
  <2>3. c2 = [d EXCEPT !.running = FALSE]
    BY DEF Suspended
  <2> HIDE DEF c2, d
  <2>4. QED
    BY <2>1, <2>2, <2>3 DEF Context
<1>3. /\ f2 \in [Proc -> Anywhere] /\ f2[c.wptr] = Nowhere
      /\ f[c.wptr] = Running
      /\ \A w \in Proc \ {c.wptr} : f2[w] = f[w]
  BY <1>1, <1>2 DEF Anywhere, OwnedBanks
<1> HIDE DEF f2, c2
<1>4. OwnedBanks(f2, c2, sh)
  BY ZenonT(40), <1>1, <1>2, <1>3, Places DEF OwnedBanks
<1>5. ShadowFits(c2, sh)
  BY <1>1, <1>2 DEF ShadowFits
<1>6. Consistent(f2, c2, sh, q, r)
  BY <1>1, <1>2, <1>3, <1>4, <1>5, BanksConsistent
<1>7. QED
  BY <1>2, <1>6 DEF f2, c2

\* The process in hand gets the idle processor.
LEMMA FreshConsistent ==
  ASSUME NEW f, NEW c, NEW sh, NEW q, NEW r, Consistent(f, c, sh, q, r), ~c.running,
         NEW w \in Proc, f[w] = Nowhere, NEW p \in Priority,
         sh # NoShadow => p = HIGH_PRIORITY
  PROVE  Consistent([f EXCEPT ![w] = Running], Fresh(w, p), sh, q, r)
<1> DEFINE f2 == [f EXCEPT ![w] = Running]
           c2 == Fresh(w, p)
<1>1. /\ f \in [Proc -> Anywhere] /\ OwnedBanks(f, c, sh)
      /\ sh \in Context \union {NoShadow} /\ ShadowFits(c, sh)
  BY DEF Consistent, Typed
<1>2. c2 \in Context /\ c2.running /\ c2.wptr = w /\ c2.priority = p
  BY DEF Context, Fresh
<1>3. /\ f2 \in [Proc -> Anywhere] /\ f2[w] = Running
      /\ \A v \in Proc \ {w} : f2[v] = f[v]
  BY <1>1, Places DEF Anywhere
<1> HIDE DEF f2, c2
<1>4. OwnedBanks(f2, c2, sh)
  BY ZenonT(40), <1>1, <1>2, <1>3, Places DEF OwnedBanks
<1>5. ShadowFits(c2, sh)
  BY <1>1, <1>2 DEF ShadowFits
<1>6. \A v \in Proc : f2[v] = f[v] \/ {f[v], f2[v]} \subseteq {Running, Preempted, Nowhere}
  BY <1>3
<1>7. QED
  BY <1>1, <1>2, <1>3, <1>4, <1>5, <1>6, BanksConsistent DEF f2, c2

\* The process in hand takes the processor from low priority, whose bank goes
\* into the shadow.
LEMMA PreemptConsistent ==
  ASSUME NEW f, NEW c, NEW sh, NEW q, NEW r, Consistent(f, c, sh, q, r),
         c.running, c.priority = LOW_PRIORITY, ~c.interruptsDisabled,
         NEW w \in Proc, f[w] = Nowhere
  PROVE  \E f2 \in [Proc -> Anywhere] :
           /\ \A v \in Proc : f2[v] = Nowhere => f[v] = Nowhere /\ v # w
           /\ Consistent(f2, Fresh(w, HIGH_PRIORITY), c, q, r)
<1> DEFINE f2 == [f EXCEPT ![w] = Running, ![c.wptr] = Preempted]
           c2 == Fresh(w, HIGH_PRIORITY)
<1>1. /\ c \in Context /\ f \in [Proc -> Anywhere] /\ OwnedBanks(f, c, sh)
      /\ sh \in Context \union {NoShadow} /\ ShadowFits(c, sh)
  BY DEF Consistent, Typed
<1>2. /\ c2 \in Context /\ c2.running /\ c2.wptr = w /\ c2.priority = HIGH_PRIORITY
      /\ c.wptr \in Proc
      /\ sh = NoShadow
  BY <1>1 DEF Context, Fresh, ShadowFits, Priority, HIGH_PRIORITY, LOW_PRIORITY
<1>3. f[c.wptr] = Running /\ c.wptr # w
  BY <1>1, <1>2, Places DEF OwnedBanks
<1>4. /\ f2 \in [Proc -> Anywhere] /\ f2[w] = Running /\ f2[c.wptr] = Preempted
      /\ \A v \in Proc \ {w, c.wptr} : f2[v] = f[v]
  BY <1>1, <1>2, <1>3, Places DEF Anywhere
<1> HIDE DEF f2, c2
<1>5. OwnedBanks(f2, c2, c)
  BY ZenonT(40), <1>1, <1>2, <1>3, <1>4, Places, SchedulerAssumption DEF OwnedBanks
<1>6. ShadowFits(c2, c)
  BY <1>2 DEF ShadowFits
<1>7. \A v \in Proc : f2[v] = f[v] \/ {f[v], f2[v]} \subseteq {Running, Preempted, Nowhere}
  BY <1>3, <1>4
<1>8. Consistent(f2, c2, c, q, r)
  BY <1>1, <1>2, <1>4, <1>5, <1>6, <1>7, BanksConsistent
<1>9. \A v \in Proc : f2[v] = Nowhere => f[v] = Nowhere /\ v # w
  BY <1>4, Places
<1>10. QED
  BY <1>4, <1>8, <1>9 DEF c2

\* The interrupted process gets the idle processor back.
LEMMA ResumeConsistent ==
  ASSUME NEW f, NEW c, NEW sh, NEW q, NEW r, Consistent(f, c, sh, q, r),
         ~c.running, sh # NoShadow
  PROVE  \E f2 \in [Proc -> Anywhere] :
           /\ \A v \in Proc : f2[v] = Nowhere => f[v] = Nowhere
           /\ Consistent(f2, sh, NoShadow, q, r)
<1> DEFINE f2 == [f EXCEPT ![sh.wptr] = Running]
<1>1. /\ f \in [Proc -> Anywhere] /\ OwnedBanks(f, c, sh)
      /\ sh \in Context /\ sh.running /\ sh.wptr \in Proc
  BY DEF Consistent, Typed, ShadowFits, Context
<1>2. /\ f2 \in [Proc -> Anywhere] /\ f2[sh.wptr] = Running
      /\ f[sh.wptr] = Preempted
      /\ \A v \in Proc \ {sh.wptr} : f2[v] = f[v]
  BY <1>1, Places DEF Anywhere, OwnedBanks
<1> HIDE DEF f2
<1>3. OwnedBanks(f2, sh, NoShadow)
  BY <1>1, <1>2, Places DEF OwnedBanks
<1>4. ShadowFits(sh, NoShadow)
  BY DEF ShadowFits
<1>5. \A v \in Proc : f2[v] = f[v] \/ {f[v], f2[v]} \subseteq {Running, Preempted, Nowhere}
  BY <1>2
<1>6. Consistent(f2, sh, NoShadow, q, r)
  BY <1>1, <1>2, <1>3, <1>4, <1>5, BanksConsistent
<1>7. \A v \in Proc : f2[v] = Nowhere => f[v] = Nowhere
  BY <1>2, Places
<1>8. QED
  BY <1>2, <1>6, <1>7

-------------------------------------------------------------------------------
\* The sets of parked and sleeping processes change, and with them who is in
\* hand.
LEMMA SetsConsistent ==
  ASSUME NEW f, NEW c, NEW sh, NEW q, NEW r, Consistent(f, c, sh, q, r),
         NEW f2 \in [Proc -> Anywhere], NEW r2,
         r2.semaphore = r.semaphore, r2.semOrder = r.semOrder,
         r2.chain = r.chain, r2.chainOrder = r.chainOrder,
         r2.asleep \in SUBSET Descriptor, r2.parked \in SUBSET Proc,
         \A w \in Proc : \/ f2[w] = f[w]
                         \/ {f[w], f2[w]} \subseteq {Parked, Asleep, Nowhere},
         OwnedSets(f2, r2)
  PROVE  Consistent(f2, c, sh, q, r2)
<1>1. OwnedReady(f2, q)
  <2>1. \A p \in Priority, w \in Proc : f2[w] = ReadyAt(p) <=> f[w] = ReadyAt(p)
    BY Places
  <2>2. QED
    BY <2>1 DEF Consistent, OwnedReady
<1>2. OwnedChain(f2, r2)
  BY Places DEF Consistent, OwnedChain
<1>3. OwnedSems(f2, r2)
  <2>1. \A s \in Sem, w \in Proc : f2[w] = WaitingAt(s) <=> f[w] = WaitingAt(s)
    BY Places
  <2>2. QED
    BY <2>1 DEF Consistent, OwnedSems
<1>4. OwnedBanks(f2, c, sh)
  <2>1. \A w \in Proc : /\ f2[w] = Running <=> f[w] = Running
                        /\ f2[w] = Preempted <=> f[w] = Preempted
    BY Places
  <2>2. QED
    BY <2>1 DEF Consistent, OwnedBanks
<1>5. LinkedChain(q, r2) /\ LinkedSems(q, r2)
  BY DEF Consistent, LinkedChain, LinkedSems
<1>6. RestTyped(r2)
  BY DEF Consistent, Typed, RestTyped
<1>7. QED
  BY <1>1, <1>2, <1>3, <1>4, <1>5, <1>6 DEF Consistent, Typed

\* A parked process is taken in hand: startp and runp.
LEMMA UnparkConsistent ==
  ASSUME NEW f, NEW c, NEW sh, NEW q, NEW r, Consistent(f, c, sh, q, r),
         NEW w \in r.parked, NEW r2,
         r2.semaphore = r.semaphore, r2.semOrder = r.semOrder,
         r2.chain = r.chain, r2.chainOrder = r.chainOrder,
         r2.asleep = r.asleep, r2.parked = r.parked \ {w}
  PROVE  /\ w \in Proc
         /\ Consistent([f EXCEPT ![w] = Nowhere], c, sh, q, r2)
<1> DEFINE f2 == [f EXCEPT ![w] = Nowhere]
<1>1. /\ f \in [Proc -> Anywhere] /\ OwnedSets(f, r)
      /\ w \in Proc /\ r.parked \in SUBSET Proc /\ r.asleep \in SUBSET Descriptor
  BY DEF Consistent, Typed, RestTyped
<1>2. /\ f2 \in [Proc -> Anywhere] /\ f2[w] = Nowhere /\ f[w] = Parked
      /\ \A v \in Proc \ {w} : f2[v] = f[v]
  BY <1>1 DEF Anywhere, OwnedSets
<1> HIDE DEF f2
<1>3. OwnedSets(f2, r2)
  BY <1>1, <1>2, Places DEF OwnedSets
<1>4. \A v \in Proc : \/ f2[v] = f[v]
                      \/ {f[v], f2[v]} \subseteq {Parked, Asleep, Nowhere}
  BY <1>2
<1>5. Consistent(f2, c, sh, q, r2)
  BY <1>1, <1>2, <1>3, <1>4, SetsConsistent
<1>6. QED
  BY <1>1, <1>5 DEF f2

\* The process in hand ends or stops: stopp.
LEMMA ParkConsistent ==
  ASSUME NEW f, NEW c, NEW sh, NEW q, NEW r, Consistent(f, c, sh, q, r),
         NEW w \in Proc, f[w] = Nowhere, NEW r2,
         r2.semaphore = r.semaphore, r2.semOrder = r.semOrder,
         r2.chain = r.chain, r2.chainOrder = r.chainOrder,
         r2.asleep = r.asleep, r2.parked = r.parked \union {w}
  PROVE  Consistent([f EXCEPT ![w] = Parked], c, sh, q, r2)
<1> DEFINE f2 == [f EXCEPT ![w] = Parked]
<1>1. /\ f \in [Proc -> Anywhere] /\ OwnedSets(f, r)
      /\ r.parked \in SUBSET Proc /\ r.asleep \in SUBSET Descriptor
  BY DEF Consistent, Typed, RestTyped
<1>2. /\ f2 \in [Proc -> Anywhere] /\ f2[w] = Parked
      /\ \A v \in Proc \ {w} : f2[v] = f[v]
  BY <1>1, Places DEF Anywhere
<1> HIDE DEF f2
<1>3. OwnedSets(f2, r2)
  BY <1>1, <1>2, Places DEF OwnedSets
<1>4. \A v \in Proc : \/ f2[v] = f[v]
                      \/ {f[v], f2[v]} \subseteq {Parked, Asleep, Nowhere}
  BY <1>2
<1>5. r2.asleep \in SUBSET Descriptor /\ r2.parked \in SUBSET Proc
  BY <1>1
<1>6. Consistent(f2, c, sh, q, r2)
  BY <1>2, <1>3, <1>4, <1>5, SetsConsistent
<1>7. QED
  BY <1>6 DEF f2

\* The process in hand goes to sleep: tin.
LEMMA SleepConsistent ==
  ASSUME NEW f, NEW c, NEW sh, NEW q, NEW r, Consistent(f, c, sh, q, r),
         NEW d \in Descriptor, f[d.wptr] = Nowhere, NEW r2,
         r2.semaphore = r.semaphore, r2.semOrder = r.semOrder,
         r2.chain = r.chain, r2.chainOrder = r.chainOrder,
         r2.asleep = r.asleep \union {d}, r2.parked = r.parked
  PROVE  Consistent([f EXCEPT ![d.wptr] = Asleep], c, sh, q, r2)
<1> DEFINE f2 == [f EXCEPT ![d.wptr] = Asleep]
<1>1. /\ f \in [Proc -> Anywhere] /\ OwnedSets(f, r) /\ d.wptr \in Proc
      /\ r.parked \in SUBSET Proc /\ r.asleep \in SUBSET Descriptor
  BY DEF Consistent, Typed, RestTyped, Descriptor
<1>2. /\ f2 \in [Proc -> Anywhere] /\ f2[d.wptr] = Asleep
      /\ \A v \in Proc \ {d.wptr} : f2[v] = f[v]
  BY <1>1, Places DEF Anywhere
<1>3. \A e \in r.asleep : e.wptr # d.wptr
  BY <1>1, Places DEF OwnedSets
<1> HIDE DEF f2
<1>4. OwnedSets(f2, r2)
  <2>1. \A v \in Proc : f2[v] = Parked <=> v \in r2.parked
    <3>1. \A v \in Proc : f2[v] = Parked <=> f[v] = Parked
      BY <1>2, Places
    <3>2. QED
      BY <1>1, <3>1 DEF OwnedSets
  <2>2. \A v \in Proc : f2[v] = Asleep <=> \E e \in r2.asleep : e.wptr = v
    <3>1. \A v \in Proc : f2[v] = Asleep <=> v = d.wptr \/ f[v] = Asleep
      BY <1>2
    <3>2. \A v \in Proc : f[v] = Asleep <=> \E e \in r.asleep : e.wptr = v
      BY <1>1 DEF OwnedSets
    <3>3. \A v : (\E e \in r2.asleep : e.wptr = v)
                   <=> v = d.wptr \/ \E e \in r.asleep : e.wptr = v
      OBVIOUS
    <3>4. QED
      BY <3>1, <3>2, <3>3
  <2>3. \A e1, e2 \in r2.asleep : e1.wptr = e2.wptr => e1 = e2
    BY <1>1, <1>3 DEF OwnedSets
  <2>4. QED
    BY <2>1, <2>2, <2>3 DEF OwnedSets
<1>5. \A v \in Proc : \/ f2[v] = f[v]
                      \/ {f[v], f2[v]} \subseteq {Parked, Asleep, Nowhere}
  BY <1>2
<1>6. QED
  BY ZenonT(40), <1>1, <1>2, <1>4, <1>5, SetsConsistent DEF f2

\* A sleeper is taken in hand: releaseDueTimers.
LEMMA WakeConsistent ==
  ASSUME NEW f, NEW c, NEW sh, NEW q, NEW r, Consistent(f, c, sh, q, r),
         NEW d \in r.asleep, NEW r2,
         r2.semaphore = r.semaphore, r2.semOrder = r.semOrder,
         r2.chain = r.chain, r2.chainOrder = r.chainOrder,
         r2.asleep = r.asleep \ {d}, r2.parked = r.parked
  PROVE  /\ d.wptr \in Proc
         /\ Consistent([f EXCEPT ![d.wptr] = Nowhere], c, sh, q, r2)
<1> DEFINE f2 == [f EXCEPT ![d.wptr] = Nowhere]
<1>1. /\ f \in [Proc -> Anywhere] /\ OwnedSets(f, r) /\ d.wptr \in Proc
      /\ r.parked \in SUBSET Proc /\ r.asleep \in SUBSET Descriptor
  BY DEF Consistent, Typed, RestTyped, Descriptor
<1>2. /\ f2 \in [Proc -> Anywhere] /\ f2[d.wptr] = Nowhere /\ f[d.wptr] = Asleep
      /\ \A v \in Proc \ {d.wptr} : f2[v] = f[v]
  BY <1>1 DEF Anywhere, OwnedSets
<1> HIDE DEF f2
<1>3. OwnedSets(f2, r2)
  BY <1>1, <1>2, Places DEF OwnedSets
<1>4. \A v \in Proc : \/ f2[v] = f[v]
                      \/ {f[v], f2[v]} \subseteq {Parked, Asleep, Nowhere}
  BY <1>2
<1>5. Consistent(f2, c, sh, q, r2)
  BY <1>1, <1>2, <1>3, <1>4, SetsConsistent
<1>6. QED
  BY <1>1, <1>5 DEF f2

-------------------------------------------------------------------------------
\* What writing a semaphore's front and back words does to the semaphores.
LEMMA SemUpdate ==
  ASSUME NEW m \in SemType, NEW s \in Sem, NEW front \in SemEnd, NEW back \in SemEnd
  PROVE  LET m2 == [m EXCEPT ![s] = [count |-> @.count, front |-> front, back |-> back]]
         IN /\ m2 \in SemType
            /\ m2[s].front = front
            /\ m2[s].back = back
            /\ \A t \in Sem \ {s} : m2[t] = m[t]
BY DEF SemType

\* Writing its count leaves them.
LEMMA SemCount ==
  ASSUME NEW m \in SemType, NEW s \in Sem, NEW n \in Nat
  PROVE  LET m2 == [m EXCEPT ![s].count = n]
         IN /\ m2 \in SemType
            /\ \A t \in Sem : m2[t].front = m[t].front /\ m2[t].back = m[t].back
BY DEF SemType

\* d joins the back of the list of semaphore s: waitSemaphore.
QueuesWaiter(d, s, q, r, q2, r2) ==
  /\ q2.fptr = q.fptr /\ q2.bptr = q.bptr /\ q2.order = q.order
  /\ q2.link = IF r.semaphore[s].front = NoProcess
               THEN [q.link EXCEPT ![d.wptr] = NoProcess]
               ELSE [[q.link EXCEPT ![d.wptr] = NoProcess]
                       EXCEPT ![r.semaphore[s].back.wptr] = d]
  /\ r2.semaphore =
       [r.semaphore EXCEPT
          ![s] = [count |-> @.count,
                  front |-> IF @.front = NoProcess THEN d ELSE @.front,
                  back |-> d]]
  /\ r2.semOrder = [r.semOrder EXCEPT ![s] = Append(@, d)]
  /\ r2.chain = r.chain /\ r2.chainOrder = r.chainOrder
  /\ r2.asleep = r.asleep /\ r2.parked = r.parked

\* wait keeps the scheduler structures consistent.
LEMMA WaitConsistent ==
  ASSUME NEW f, NEW c, NEW sh, NEW q, NEW r, Consistent(f, c, sh, q, r),
         NEW d \in Descriptor, f[d.wptr] = Nowhere, NEW s \in Sem,
         NEW q2, NEW r2, QueuesWaiter(d, s, q, r, q2, r2)
  PROVE  Consistent([f EXCEPT ![d.wptr] = WaitingAt(s)], c, sh, q2, r2)
<1> USE DEF QueuesWaiter
<1> DEFINE f2 == [f EXCEPT ![d.wptr] = WaitingAt(s)]
           front == r.semaphore[s].front
           back == r.semaphore[s].back
           ds == r.semOrder[s]
<1>1. /\ f \in [Proc -> Anywhere] /\ QueuesTyped(q) /\ RestTyped(r)
      /\ LinkedReady(q) /\ LinkedChain(q, r) /\ LinkedSems(q, r)
      /\ OwnedBanks(f, c, sh) /\ OwnedReady(f, q) /\ OwnedChain(f, r)
      /\ OwnedSems(f, r) /\ OwnedSets(f, r)
  BY DEF Consistent, Typed
<1>2. d.wptr \in Proc /\ q.link \in LinkType /\ ds \in Seq(Descriptor)
  BY <1>1 DEF Descriptor, QueuesTyped, RestTyped
<1>3. /\ r2.semOrder[s] = Append(ds, d)
      /\ \A t \in Sem \ {s} : r2.semOrder[t] = r.semOrder[t]
  BY <1>1 DEF RestTyped
<1>4. /\ r2.semaphore \in SemType
      /\ r2.semaphore[s].front = IF front = NoProcess THEN d ELSE front
      /\ r2.semaphore[s].back = d
      /\ \A t \in Sem \ {s} : r2.semaphore[t] = r.semaphore[t]
  <2>1. r.semaphore \in SemType /\ front \in SemEnd /\ d \in SemEnd
    BY <1>1 DEF RestTyped, SemType, SemEnd
  <2>2. QED
    BY SMTT(20), <2>1, SemUpdate
<1>5. /\ f2 \in [Proc -> Anywhere] /\ f2[d.wptr] = WaitingAt(s)
      /\ \A v \in Proc \ {d.wptr} : f2[v] = f[v]
  BY <1>1, <1>2, Places DEF Anywhere
<1>6. /\ ListsWaiters(q.link, front, back, ds)
      /\ NoRepeatedWaiter(ds)
      /\ ~HoldsWaiter(ds, d.wptr)
  BY <1>1, <1>2, Places DEF LinkedSems, OwnedSems
<1> HIDE DEF f2, front, back, ds
<1>7. q2.link = IF front = NoProcess
                THEN [q.link EXCEPT ![d.wptr] = NoProcess]
                ELSE [[q.link EXCEPT ![d.wptr] = NoProcess] EXCEPT ![back.wptr] = d]
  BY DEF front, back
<1>8. front # NoProcess => back.wptr \in Proc /\ f[back.wptr] = WaitingAt(s)
  <2> SUFFICES ASSUME front # NoProcess
               PROVE  back.wptr \in Proc /\ f[back.wptr] = WaitingAt(s)
    OBVIOUS
  <2>1. ds # <<>> /\ back = ds[Len(ds)] /\ back \in Descriptor /\ Len(ds) >= 1
    BY <1>2, <1>6, ListsWaitersEmpty
  <2>2. Len(ds) \in 1 .. Len(ds) /\ back.wptr \in Proc
    BY <1>2, <2>1, LenProperties DEF Descriptor
  <2>3. HoldsWaiter(ds, back.wptr)
    BY <2>1, <2>2 DEF HoldsWaiter
  <2>4. QED
    BY <1>1, <2>2, <2>3 DEF OwnedSems, ds
<1>9. q2.link \in LinkType
  <2>1. \A v \in Proc, x \in Descriptor \union {NoProcess}, lk \in LinkType :
          [lk EXCEPT ![v] = x] \in LinkType
    BY DEF LinkType
  <2>2. [q.link EXCEPT ![d.wptr] = NoProcess] \in LinkType
    BY <1>2, <2>1
  <2>3. front # NoProcess =>
          [[q.link EXCEPT ![d.wptr] = NoProcess] EXCEPT ![back.wptr] = d] \in LinkType
    BY <1>8, <2>1, <2>2
  <2>4. QED
    BY <1>7, <2>2, <2>3
<1>10. /\ ListsWaiters(q2.link, IF front = NoProcess THEN d ELSE front, d, Append(ds, d))
       /\ Append(ds, d) \in Seq(Descriptor)
       /\ NoRepeatedWaiter(Append(ds, d))
       /\ \A v : HoldsWaiter(Append(ds, d), v) <=> v = d.wptr \/ HoldsWaiter(ds, v)
  BY <1>2, <1>6, <1>7, ListsWaitersAppend
<1>11. WritesOnly(f, WaitingAt(s), q, q2.link)
  BY <1>2, <1>7, <1>8 DEF LinkType, WritesOnly
<1>12. /\ \A p \in Priority : Lists(q2.link, q.fptr[p], q.bptr[p], q.order[p])
       /\ Lists(q2.link, r.chain.front, r.chain.back, r.chainOrder)
       /\ \A t \in Sem : t # s => ListsWaiters(q2.link, r.semaphore[t].front,
                                               r.semaphore[t].back, r.semOrder[t])
  <2>1. ElsewhereLinked(WaitingAt(s), q, r, q2.link)
    BY <1>11, OthersLinked
  <2>2. QED
    BY <2>1, Places DEF ElsewhereLinked
<1>13. QueuesTyped(q2) /\ LinkedReady(q2) /\ LinkedChain(q2, r2)
  BY <1>1, <1>9, <1>12 DEF QueuesTyped, LinkedReady, LinkedChain
<1>14. LinkedSems(q2, r2)
  <2>1. /\ ListsWaiters(q2.link, r2.semaphore[s].front, r2.semaphore[s].back, r2.semOrder[s])
        /\ NoRepeatedWaiter(r2.semOrder[s])
    BY <1>3, <1>4, <1>10
  <2>2. ASSUME NEW t \in Sem, t # s
        PROVE  /\ ListsWaiters(q2.link, r2.semaphore[t].front, r2.semaphore[t].back,
                               r2.semOrder[t])
               /\ NoRepeatedWaiter(r2.semOrder[t])
    <3>1. r2.semaphore[t] = r.semaphore[t] /\ r2.semOrder[t] = r.semOrder[t]
      BY <1>3, <1>4, <2>2
    <3>2. QED
      BY <1>1, <1>12, <2>2, <3>1 DEF LinkedSems
  <2>3. QED
    BY <2>1, <2>2 DEF LinkedSems
<1>15. RestTyped(r2)
  <2>1. r2.semOrder \in [Sem -> Seq(Descriptor)]
    BY <1>1, <1>10 DEF RestTyped, ds
  <2>2. QED
    BY <1>1, <1>4, <2>1 DEF RestTyped
<1>16. OwnedSems(f2, r2)
  <2>1. ASSUME NEW v \in Proc
        PROVE  f2[v] = WaitingAt(s) <=> HoldsWaiter(r2.semOrder[s], v)
    <3>1. f2[v] = WaitingAt(s) <=> v = d.wptr \/ f[v] = WaitingAt(s)
      BY <1>5
    <3>2. f[v] = WaitingAt(s) <=> HoldsWaiter(ds, v)
      BY <1>1 DEF OwnedSems, ds
    <3>3. QED
      BY <1>3, <1>10, <3>1, <3>2
  <2>2. ASSUME NEW t \in Sem, t # s, NEW v \in Proc
        PROVE  f2[v] = WaitingAt(t) <=> HoldsWaiter(r2.semOrder[t], v)
    <3>1. f2[v] = WaitingAt(t) <=> f[v] = WaitingAt(t)
      BY <1>5, <2>2, Places
    <3>2. QED
      BY <1>1, <1>3, <2>2, <3>1 DEF OwnedSems
  <2>3. QED
    BY <2>1, <2>2 DEF OwnedSems
<1>17. OwnedBanks(f2, c, sh) /\ OwnedReady(f2, q2) /\ OwnedChain(f2, r2) /\ OwnedSets(f2, r2)
  BY <1>1, <1>5, Places DEF OwnedBanks, OwnedReady, OwnedChain, OwnedSets
<1>18. Consistent(f2, c, sh, q2, r2)
  BY <1>5, <1>13, <1>14, <1>15, <1>16, <1>17 DEF Consistent, Typed
<1>19. QED
  BY <1>18 DEF f2

\* d, the longest waiter of semaphore s, is taken in hand: signalSemaphore.
TakesWaiter(d, next, s, q, r, r2) ==
  /\ d = r.semaphore[s].front /\ d # NoProcess
  /\ next = q.link[d.wptr]
  /\ r2.semaphore =
       [r.semaphore EXCEPT
          ![s] = [count |-> @.count,
                  front |-> next,
                  back |-> IF next = NoProcess THEN NoProcess ELSE @.back]]
  /\ r2.semOrder = [r.semOrder EXCEPT ![s] = Tail(@)]
  /\ r2.chain = r.chain /\ r2.chainOrder = r.chainOrder
  /\ r2.asleep = r.asleep /\ r2.parked = r.parked

\* signal keeps the scheduler structures consistent.
LEMMA SignalConsistent ==
  ASSUME NEW f, NEW c, NEW sh, NEW q, NEW r, Consistent(f, c, sh, q, r),
         NEW s \in Sem, NEW d, NEW next, NEW r2, TakesWaiter(d, next, s, q, r, r2)
  PROVE  /\ d \in Descriptor
         /\ Consistent([f EXCEPT ![d.wptr] = Nowhere], c, sh, q, r2)
<1> USE DEF TakesWaiter
<1> DEFINE f2 == [f EXCEPT ![d.wptr] = Nowhere]
           back == r.semaphore[s].back
           ds == r.semOrder[s]
<1>1. /\ f \in [Proc -> Anywhere] /\ QueuesTyped(q) /\ RestTyped(r)
      /\ LinkedReady(q) /\ LinkedChain(q, r) /\ LinkedSems(q, r)
      /\ OwnedBanks(f, c, sh) /\ OwnedReady(f, q) /\ OwnedChain(f, r)
      /\ OwnedSems(f, r) /\ OwnedSets(f, r)
  BY DEF Consistent, Typed
<1>2. /\ ds \in Seq(Descriptor)
      /\ ListsWaiters(q.link, d, back, ds)
      /\ NoRepeatedWaiter(ds)
  BY <1>1 DEF RestTyped, LinkedSems
<1>3. /\ r2.semOrder[s] = Tail(ds)
      /\ \A t \in Sem \ {s} : r2.semOrder[t] = r.semOrder[t]
  BY <1>1 DEF RestTyped
<1> HIDE DEF f2, back, ds
<1>4. ds # <<>> /\ d = ds[1] /\ d \in Descriptor /\ Len(ds) >= 1
  BY <1>2, ListsWaitersEmpty
<1>5. d.wptr \in Proc
  BY <1>4 DEF Descriptor
<1>6. f[d.wptr] = WaitingAt(s)
  <2>1. 1 \in 1 .. Len(ds)
    BY <1>2, <1>4, LenProperties
  <2>2. HoldsWaiter(ds, d.wptr)
    BY <1>4, <2>1 DEF HoldsWaiter
  <2>3. QED
    BY <1>1, <1>5, <2>2 DEF OwnedSems, ds
<1>7. /\ ListsWaiters(q.link, next, IF next = NoProcess THEN NoProcess ELSE back, Tail(ds))
      /\ Tail(ds) \in Seq(Descriptor)
      /\ next \in Descriptor \union {NoProcess}
      /\ NoRepeatedWaiter(Tail(ds))
      /\ \A v : HoldsWaiter(Tail(ds), v) <=> v # d.wptr /\ HoldsWaiter(ds, v)
  BY <1>2, <1>4, ListsWaitersTail
<1>8. /\ f2 \in [Proc -> Anywhere] /\ f2[d.wptr] = Nowhere
      /\ \A v \in Proc \ {d.wptr} : f2[v] = f[v]
  BY <1>1, <1>5 DEF Anywhere, f2
<1>9. /\ r2.semaphore \in SemType
      /\ r2.semaphore[s].front = next
      /\ r2.semaphore[s].back = IF next = NoProcess THEN NoProcess ELSE back
      /\ \A t \in Sem \ {s} : r2.semaphore[t] = r.semaphore[t]
  <2>1. r.semaphore \in SemType /\ next \in SemEnd /\ back \in SemEnd /\ NoProcess \in SemEnd
    BY <1>1, <1>7 DEF RestTyped, SemType, SemEnd, back
  <2>2. QED
    <3>1. r2.semaphore = [r.semaphore EXCEPT ![s] = [count |-> @.count, front |-> next,
                            back |-> IF next = NoProcess THEN NoProcess ELSE back]]
      BY <1>1 DEF back
    <3> DEFINE end == IF next = NoProcess THEN NoProcess ELSE back
    <3>2. end \in SemEnd
      BY <2>1
    <3> HIDE DEF TakesWaiter, end
    <3>3. r2.semaphore = [r.semaphore EXCEPT ![s] = [count |-> @.count, front |-> next,
                                                     back |-> end]]
      BY <3>1 DEF end
    <3>4. /\ r2.semaphore \in SemType
          /\ r2.semaphore[s].front = next /\ r2.semaphore[s].back = end
          /\ \A t \in Sem \ {s} : r2.semaphore[t] = r.semaphore[t]
      BY <2>1, <3>2, <3>3, SemUpdate
    <3> QED BY <3>4 DEF end
<1>10. RestTyped(r2)
  <2>1. r2.semOrder \in [Sem -> Seq(Descriptor)]
    BY <1>1, <1>7 DEF RestTyped, ds
  <2>2. QED
    BY <1>1, <1>9, <2>1 DEF RestTyped
<1>11. LinkedChain(q, r2) /\ LinkedSems(q, r2)
  <2>1. /\ ListsWaiters(q.link, r2.semaphore[s].front, r2.semaphore[s].back, r2.semOrder[s])
        /\ NoRepeatedWaiter(r2.semOrder[s])
    BY <1>3, <1>7, <1>9
  <2>2. ASSUME NEW t \in Sem, t # s
        PROVE  /\ ListsWaiters(q.link, r2.semaphore[t].front, r2.semaphore[t].back,
                               r2.semOrder[t])
               /\ NoRepeatedWaiter(r2.semOrder[t])
    <3>1. r2.semaphore[t] = r.semaphore[t] /\ r2.semOrder[t] = r.semOrder[t]
      BY <1>3, <1>9, <2>2
    <3>2. QED
      BY <1>1, <2>2, <3>1 DEF LinkedSems
  <2>3. LinkedSems(q, r2)
    BY <2>1, <2>2 DEF LinkedSems
  <2>4. QED
    BY <1>1, <2>3 DEF LinkedChain
<1>12. OwnedSems(f2, r2)
  <2>1. ASSUME NEW v \in Proc
        PROVE  f2[v] = WaitingAt(s) <=> HoldsWaiter(r2.semOrder[s], v)
    <3>1. f2[v] = WaitingAt(s) <=> v # d.wptr /\ f[v] = WaitingAt(s)
      BY <1>8, Places
    <3>2. f[v] = WaitingAt(s) <=> HoldsWaiter(ds, v)
      BY <1>1 DEF OwnedSems, ds
    <3>3. QED
      BY <1>3, <1>7, <3>1, <3>2
  <2>2. ASSUME NEW t \in Sem, t # s, NEW v \in Proc
        PROVE  f2[v] = WaitingAt(t) <=> HoldsWaiter(r2.semOrder[t], v)
    <3>1. f2[v] = WaitingAt(t) <=> f[v] = WaitingAt(t)
      BY <1>6, <1>8, <2>2, Places
    <3>2. QED
      BY <1>1, <1>3, <2>2, <3>1 DEF OwnedSems
  <2>3. QED
    BY <2>1, <2>2 DEF OwnedSems
<1>13. OwnedBanks(f2, c, sh) /\ OwnedReady(f2, q) /\ OwnedChain(f2, r2) /\ OwnedSets(f2, r2)
  <2>1. \A v \in Proc, o \in {Parked, Running, Preempted, Asleep, Chain} :
          f2[v] = o <=> f[v] = o
    BY <1>6, <1>8, Places
  <2>2. \A v \in Proc, o \in Priority : f2[v] = ReadyAt(o) <=> f[v] = ReadyAt(o)
    BY <1>6, <1>8, Places
  <2>3. OwnedBanks(f2, c, sh)
    BY <1>1, <2>1 DEF OwnedBanks
  <2>4. OwnedReady(f2, q)
    BY <1>1, <2>2 DEF OwnedReady
  <2>5. OwnedChain(f2, r2)
    BY <1>1, <2>1 DEF OwnedChain
  <2>6. OwnedSets(f2, r2)
    BY <1>1, <2>1 DEF OwnedSets
  <2> QED BY <2>3, <2>4, <2>5, <2>6
<1>14. Consistent(f2, c, sh, q, r2)
  BY <1>1, <1>8, <1>10, <1>11, <1>12, <1>13 DEF Consistent, Typed
<1>15. QED
  BY <1>4, <1>14 DEF f2

\* Only counts change.
LEMMA CountConsistent ==
  ASSUME NEW f, NEW c, NEW sh, NEW q, NEW r, Consistent(f, c, sh, q, r),
         NEW s \in Sem, NEW n \in Nat, NEW r2,
         r2.semaphore = [r.semaphore EXCEPT ![s].count = n],
         r2.semOrder = r.semOrder,
         r2.chain = r.chain, r2.chainOrder = r.chainOrder,
         r2.asleep = r.asleep, r2.parked = r.parked
  PROVE  Consistent(f, c, sh, q, r2)
<1>1. RestTyped(r) /\ LinkedSems(q, r)
  BY DEF Consistent, Typed
<1>2. /\ r2.semaphore \in SemType
      /\ \A t \in Sem : /\ r2.semaphore[t].front = r.semaphore[t].front
                        /\ r2.semaphore[t].back = r.semaphore[t].back
  <2>1. r.semaphore \in SemType
    BY <1>1 DEF RestTyped
  <2>2. QED
    BY <2>1, SemCount
<1>3. RestTyped(r2) /\ LinkedSems(q, r2)
  BY <1>1, <1>2 DEF RestTyped, LinkedSems
<1>4. QED
  BY <1>3 DEF Consistent, Typed, LinkedChain, OwnedChain, OwnedSems, OwnedSets

-------------------------------------------------------------------------------
\* The ready list and the program's list change places: swapqueue.
SwapsLists(p, q, r, q2, r2) ==
  /\ q2.fptr = [q.fptr EXCEPT ![p] = r.chain.front]
  /\ q2.bptr = [q.bptr EXCEPT ![p] = r.chain.back]
  /\ q2.link = q.link
  /\ q2.order = [q.order EXCEPT ![p] = r.chainOrder]
  /\ r2.chain = [front |-> q.fptr[p], back |-> q.bptr[p]]
  /\ r2.chainOrder = q.order[p]
  /\ r2.semaphore = r.semaphore /\ r2.semOrder = r.semOrder
  /\ r2.asleep = r.asleep /\ r2.parked = r.parked

PlacesSwapped(f, p) ==
  [w \in Proc |-> IF f[w] = Chain THEN ReadyAt(p)
                  ELSE IF f[w] = ReadyAt(p) THEN Chain
                  ELSE f[w]]

\* swapqueue keeps the scheduler structures consistent.
LEMMA SwapConsistent ==
  ASSUME NEW f, NEW c, NEW sh, NEW q, NEW r, Consistent(f, c, sh, q, r),
         NEW p \in Priority, NEW q2, NEW r2, SwapsLists(p, q, r, q2, r2)
  PROVE  Consistent(PlacesSwapped(f, p), c, sh, q2, r2)
<1> USE DEF SwapsLists
<1> DEFINE f2 == PlacesSwapped(f, p)
<1>1. /\ f \in [Proc -> Anywhere] /\ QueuesTyped(q) /\ RestTyped(r)
      /\ LinkedReady(q) /\ LinkedChain(q, r) /\ LinkedSems(q, r)
      /\ OwnedBanks(f, c, sh) /\ OwnedReady(f, q) /\ OwnedChain(f, r)
      /\ OwnedSems(f, r) /\ OwnedSets(f, r)
  BY DEF Consistent, Typed
<1>2. /\ f2 \in [Proc -> Anywhere]
      /\ \A w \in Proc : /\ f2[w] = ReadyAt(p) <=> f[w] = Chain
                         /\ f2[w] = Chain <=> f[w] = ReadyAt(p)
      /\ \A w \in Proc : \A place : place \notin {Chain, ReadyAt(p)} =>
           (f2[w] = place <=> f[w] = place)
  BY <1>1, Places DEF Anywhere, PlacesSwapped
<1> HIDE DEF f2
<1>3. /\ q2.fptr[p] = r.chain.front /\ q2.bptr[p] = r.chain.back
      /\ q2.order[p] = r.chainOrder
      /\ \A o \in Priority \ {p} : /\ q2.fptr[o] = q.fptr[o] /\ q2.bptr[o] = q.bptr[o]
                                   /\ q2.order[o] = q.order[o]
      /\ r2.chain.front = q.fptr[p] /\ r2.chain.back = q.bptr[p]
  BY <1>1 DEF QueuesTyped
<1>4. QueuesTyped(q2) /\ RestTyped(r2)
  <2>1. /\ r.chain.front \in Proc \union {NoProcess}
        /\ r.chain.back \in Proc \union {NoProcess}
        /\ r.chainOrder \in Seq(Proc)
    BY <1>1 DEF RestTyped
  <2>2. QueuesTyped(q2)
    BY <1>1, <2>1 DEF QueuesTyped
  <2>3. /\ q.fptr[p] \in Proc \union {NoProcess}
        /\ q.bptr[p] \in Proc \union {NoProcess}
        /\ q.order[p] \in Seq(Proc)
    BY <1>1 DEF QueuesTyped
  <2>4. RestTyped(r2)
    BY <1>1, <2>3 DEF RestTyped
  <2>5. QED
    BY <2>2, <2>4
<1>5. LinkedReady(q2)
  BY <1>1, <1>3 DEF LinkedReady, LinkedChain
<1>6. LinkedChain(q2, r2) /\ LinkedSems(q2, r2)
  BY <1>1, <1>3 DEF LinkedReady, LinkedChain, LinkedSems
<1>7. OwnedReady(f2, q2)
  <2>1. ASSUME NEW o \in Priority, o # p, NEW w \in Proc
        PROVE  f2[w] = ReadyAt(o) <=> Holds(q2.order[o], w)
    <3>1. f2[w] = ReadyAt(o) <=> f[w] = ReadyAt(o)
      BY <1>2, <2>1, Places
    <3>2. QED
      BY <1>1, <1>3, <2>1, <3>1 DEF OwnedReady
  <2>2. ASSUME NEW w \in Proc
        PROVE  f2[w] = ReadyAt(p) <=> Holds(q2.order[p], w)
    BY <1>1, <1>2, <1>3 DEF OwnedChain
  <2>3. QED
    BY <2>1, <2>2 DEF OwnedReady
<1>8. OwnedChain(f2, r2)
  BY <1>1, <1>2 DEF OwnedChain, OwnedReady
<1>9. OwnedBanks(f2, c, sh) /\ OwnedSets(f2, r2)
  <2>1. {Running, Preempted, Parked, Asleep} \intersect {Chain, ReadyAt(p)} = {}
    BY Places
  <2>2. ASSUME NEW w \in Proc, NEW place \in {Running, Preempted, Parked, Asleep}
        PROVE  f2[w] = place <=> f[w] = place
    <3>1. place \notin {Chain, ReadyAt(p)}
      BY <2>1
    <3>2. QED
      BY <1>2, <3>1
  <2>3. QED
    BY <1>1, <2>2 DEF OwnedBanks, OwnedSets
<1>10. OwnedSems(f2, r2)
  <2>1. ASSUME NEW s \in Sem, NEW w \in Proc
        PROVE  f2[w] = WaitingAt(s) <=> f[w] = WaitingAt(s)
    <3>1. WaitingAt(s) \notin {Chain, ReadyAt(p)}
      BY Places
    <3>2. QED
      BY <1>2, <3>1
  <2>2. QED
    BY <1>1, <2>1 DEF OwnedSems
<1>11. Consistent(f2, c, sh, q2, r2)
  BY <1>2, <1>4, <1>5, <1>6, <1>7, <1>8, <1>9, <1>10 DEF Consistent, Typed
<1>12. QED
  BY <1>11 DEF f2

\* The program's list goes in front of the ready list: insertReadyQueue.
SplicesLists(p, q, r, q2, r2) ==
  /\ r.chain.front # NoProcess
  /\ q2.fptr = [q.fptr EXCEPT ![p] = r.chain.front]
  /\ q2.bptr = [q.bptr EXCEPT ![p] = IF q.fptr[p] = NoProcess
                                     THEN r.chain.back ELSE @]
  /\ q2.link = IF q.fptr[p] = NoProcess
               THEN q.link ELSE [q.link EXCEPT ![r.chain.back] = q.fptr[p]]
  /\ q2.order = [q.order EXCEPT ![p] = r.chainOrder \o @]
  /\ r2.chain = [front |-> NoProcess, back |-> NoProcess]
  /\ r2.chainOrder = <<>>
  /\ r2.semaphore = r.semaphore /\ r2.semOrder = r.semOrder
  /\ r2.asleep = r.asleep /\ r2.parked = r.parked

PlacesSpliced(f, p) == [w \in Proc |-> IF f[w] = Chain THEN ReadyAt(p) ELSE f[w]]

\* insertqueue keeps the scheduler structures consistent.
LEMMA SpliceConsistent ==
  ASSUME NEW f, NEW c, NEW sh, NEW q, NEW r, Consistent(f, c, sh, q, r),
         NEW p \in Priority, NEW q2, NEW r2, SplicesLists(p, q, r, q2, r2)
  PROVE  Consistent(PlacesSpliced(f, p), c, sh, q2, r2)
<1> USE DEF SplicesLists
<1> DEFINE f2 == PlacesSpliced(f, p)
           all == r.chainOrder \o q.order[p]
<1>1. /\ f \in [Proc -> Anywhere] /\ QueuesTyped(q) /\ RestTyped(r)
      /\ LinkedReady(q) /\ LinkedChain(q, r) /\ LinkedSems(q, r)
      /\ OwnedBanks(f, c, sh) /\ OwnedReady(f, q) /\ OwnedChain(f, r)
      /\ OwnedSems(f, r) /\ OwnedSets(f, r)
  BY DEF Consistent, Typed
<1>2. /\ f2 \in [Proc -> Anywhere]
      /\ \A w \in Proc : /\ f2[w] = ReadyAt(p) <=> f[w] \in {Chain, ReadyAt(p)}
                         /\ f2[w] # Chain
      /\ \A w \in Proc : \A place : place \notin {Chain, ReadyAt(p)} =>
           (f2[w] = place <=> f[w] = place)
  BY <1>1, Places DEF Anywhere, PlacesSpliced
<1>3. /\ r.chainOrder \in Seq(Proc) /\ q.order[p] \in Seq(Proc)
      /\ q.link \in LinkType
      /\ Lists(q.link, r.chain.front, r.chain.back, r.chainOrder)
      /\ NoRepeats(r.chainOrder)
      /\ Lists(q.link, q.fptr[p], q.bptr[p], q.order[p])
      /\ NoRepeats(q.order[p])
  BY <1>1 DEF RestTyped, QueuesTyped, LinkedReady, LinkedChain
<1>4. /\ r.chainOrder # <<>> /\ Len(r.chainOrder) >= 1
      /\ r.chain.front \in Proc
      /\ r.chain.back = r.chainOrder[Len(r.chainOrder)] /\ r.chain.back \in Proc
      /\ q.fptr[p] \in Proc \union {NoProcess}
  BY <1>3, ListsEmpty
<1>5. \A w : ~(Holds(r.chainOrder, w) /\ Holds(q.order[p], w))
  <2>1. \A w : Holds(r.chainOrder, w) => w \in Proc
    BY <1>3, ElementOfSeq DEF Holds
  <2>2. ASSUME NEW w, Holds(r.chainOrder, w), Holds(q.order[p], w)
        PROVE  FALSE
    <3>1. w \in Proc
      BY <2>1, <2>2
    <3>2. f[w] = Chain /\ f[w] = ReadyAt(p)
      BY <1>1, <2>2, <3>1 DEF OwnedChain, OwnedReady
    <3>3. QED
      BY <3>2, Places
  <2>3. QED
    BY <2>2
<1>6. f[r.chain.back] = Chain
  <2>1. Len(r.chainOrder) \in 1 .. Len(r.chainOrder)
    BY <1>3, <1>4, LenProperties
  <2>2. Holds(r.chainOrder, r.chain.back)
    BY <1>4, <2>1 DEF Holds
  <2>3. QED
    BY <1>1, <1>4, <2>2 DEF OwnedChain
<1>7. q2.link \in LinkType /\ WritesOnly(f, Chain, q, q2.link)
  BY <1>3, <1>4, <1>6 DEF LinkType, WritesOnly
<1>8. /\ Lists(q2.link, r.chain.front,
               IF q.fptr[p] = NoProcess THEN r.chain.back ELSE q.bptr[p], all)
      /\ all \in Seq(Proc)
      /\ NoRepeats(all)
      /\ \A w : Holds(all, w) <=> Holds(r.chainOrder, w) \/ Holds(q.order[p], w)
  BY <1>3, <1>4, <1>5, ListsConcat
<1>9. ElsewhereLinked(Chain, q, r, q2.link)
  BY <1>7, OthersLinked
<1>10. /\ q2.fptr[p] = r.chain.front
       /\ q2.bptr[p] = IF q.fptr[p] = NoProcess THEN r.chain.back ELSE q.bptr[p]
       /\ q2.order[p] = all
       /\ \A o \in Priority \ {p} : /\ q2.fptr[o] = q.fptr[o] /\ q2.bptr[o] = q.bptr[o]
                                    /\ q2.order[o] = q.order[o]
  BY <1>1 DEF QueuesTyped
<1>11. QueuesTyped(q2)
  <2>1. q2.order \in [Priority -> Seq(Proc)]
    BY <1>1, <1>8 DEF QueuesTyped
  <2>2. QED
    BY <1>1, <1>4, <1>7, <2>1 DEF QueuesTyped
<1> HIDE DEF f2, all
<1>12. RestTyped(r2)
  <2>1. <<>> \in Seq(Proc)
    BY EmptySeq
  <2>2. QED
    BY <1>1, <2>1 DEF RestTyped
<1>13. LinkedReady(q2)
  <2>1. ASSUME NEW o \in Priority, o # p
        PROVE  /\ Lists(q2.link, q2.fptr[o], q2.bptr[o], q2.order[o])
               /\ NoRepeats(q2.order[o])
    BY <1>1, <1>9, <1>10, <2>1, Places DEF ElsewhereLinked, LinkedReady
  <2>2. QED
    BY <1>8, <1>10, <2>1 DEF LinkedReady
<1>14. LinkedChain(q2, r2) /\ LinkedSems(q2, r2)
  <2>1. LinkedChain(q2, r2)
    BY EmptySeq DEF LinkedChain, Lists, NoRepeats
  <2>2. LinkedSems(q2, r2)
    BY <1>1, <1>9, Places DEF LinkedSems, ElsewhereLinked
  <2>3. QED
    BY <2>1, <2>2
<1>15. OwnedReady(f2, q2)
  <2>1. ASSUME NEW o \in Priority, o # p, NEW w \in Proc
        PROVE  f2[w] = ReadyAt(o) <=> Holds(q2.order[o], w)
    <3>1. f2[w] = ReadyAt(o) <=> f[w] = ReadyAt(o)
      BY <1>2, <2>1, Places
    <3>2. QED
      BY <1>1, <1>10, <2>1, <3>1 DEF OwnedReady
  <2>2. ASSUME NEW w \in Proc
        PROVE  f2[w] = ReadyAt(p) <=> Holds(q2.order[p], w)
    BY <1>1, <1>2, <1>8, <1>10 DEF OwnedChain, OwnedReady
  <2>3. QED
    BY <2>1, <2>2 DEF OwnedReady
<1>16. OwnedChain(f2, r2)
  <2>1. \A w : ~Holds(<<>>, w)
    BY EmptySeq DEF Holds
  <2>2. QED
    BY <1>2, <2>1 DEF OwnedChain
<1>17. OwnedBanks(f2, c, sh) /\ OwnedSets(f2, r2)
  <2>1. {Running, Preempted, Parked, Asleep} \intersect {Chain, ReadyAt(p)} = {}
    BY Places
  <2>2. ASSUME NEW w \in Proc, NEW place \in {Running, Preempted, Parked, Asleep}
        PROVE  f2[w] = place <=> f[w] = place
    <3>1. place \notin {Chain, ReadyAt(p)}
      BY <2>1
    <3>2. QED
      BY <1>2, <3>1
  <2>3. QED
    BY <1>1, <2>2 DEF OwnedBanks, OwnedSets
<1>18. OwnedSems(f2, r2)
  <2>1. ASSUME NEW s \in Sem, NEW w \in Proc
        PROVE  f2[w] = WaitingAt(s) <=> f[w] = WaitingAt(s)
    <3>1. WaitingAt(s) \notin {Chain, ReadyAt(p)}
      BY Places
    <3>2. QED
      BY <1>2, <3>1
  <2>2. QED
    BY <1>1, <2>1 DEF OwnedSems
<1>19. Consistent(f2, c, sh, q2, r2)
  BY <1>2, <1>11, <1>12, <1>13, <1>14, <1>15, <1>16, <1>17, <1>18 DEF Consistent, Typed
<1>20. QED
  BY <1>19 DEF f2

-------------------------------------------------------------------------------
\* Between operations no process is in hand.
Settled(c, sh, q, r) == \E f \in [Proc -> Place] : Consistent(f, c, sh, q, r)

\* A place for everyone is enough.
LEMMA SettledIntro ==
  ASSUME NEW f, NEW c, NEW sh, NEW q, NEW r, Consistent(f, c, sh, q, r),
         \A w \in Proc : f[w] # Nowhere
  PROVE  Settled(c, sh, q, r)
<1>1. f \in [Proc -> Anywhere]
  BY DEF Consistent, Typed
<1>2. f \in [Proc -> Place]
  BY <1>1 DEF Anywhere
<1>3. QED
  BY <1>2 DEF Settled

\* Only the four parts of a queue record matter.
LEMMA SameQueues ==
  ASSUME NEW f, NEW c, NEW sh, NEW q, NEW r, Consistent(f, c, sh, q, r),
         NEW q2, q2.fptr = q.fptr, q2.bptr = q.bptr, q2.link = q.link,
         q2.order = q.order
  PROVE  Consistent(f, c, sh, q2, r)
<1>1. QueuesTyped(q2) /\ LinkedReady(q2) /\ LinkedChain(q2, r) /\ LinkedSems(q2, r)
      /\ OwnedReady(f, q2)
  BY DEF Consistent, Typed, QueuesTyped, LinkedReady, LinkedChain, LinkedSems, OwnedReady
<1>2. QED
  BY <1>1 DEF Consistent, Typed

\* dispatchProcess leaves every process in one place.
LEMMA DispatchSettled ==
  ASSUME NEW c, NEW q, NEW r, Settled(c, shadow, q, r),
         Dispatch(c, q)
  PROVE  Settled(cpu', shadow', Ready', r)
<1> PICK f \in [Proc -> Place] : Consistent(f, c, shadow, q, r)
  BY DEF Settled
<1>1. \A w \in Proc : f[w] # Nowhere
  BY Places
<1>2. HIGH_PRIORITY \in Priority /\ LOW_PRIORITY \in Priority
      /\ HIGH_PRIORITY # LOW_PRIORITY
  BY DEF Priority, HIGH_PRIORITY, LOW_PRIORITY
<1>3. ASSUME NEW x, SetReady(x)
      PROVE  /\ Ready'.fptr = x.fptr /\ Ready'.bptr = x.bptr
             /\ Ready'.link = x.link /\ Ready'.order = x.order
  BY <1>3 DEF SetReady, Ready
<1>4. CASE cpu' = c /\ SetReady(q) /\ shadow' = shadow
  <2>1. Consistent(f, c, shadow, Ready', r)
    BY <1>3, <1>4, SameQueues
  <2>2. QED
    BY <1>1, <1>4, <2>1, SettledIntro
<1>5. CASE /\ c.running /\ Preempts(c, q)
           /\ cpu' = Fresh(q.fptr[HIGH_PRIORITY], HIGH_PRIORITY)
           /\ shadow' = c
           /\ SetReady(Dequeue(q, HIGH_PRIORITY))
  <2> DEFINE w == q.fptr[HIGH_PRIORITY]
             q1 == Dequeue(q, HIGH_PRIORITY)
             f1 == [f EXCEPT ![w] = Nowhere]
  <2>1. w # NoProcess /\ c.priority = LOW_PRIORITY /\ ~c.interruptsDisabled
    BY <1>5 DEF Preempts
  <2>2. w \in Proc /\ Consistent(f1, c, shadow, q1, r)
    BY <1>2, <2>1, DequeueConsistent
  <2>3. f1[w] = Nowhere /\ \A v \in Proc \ {w} : f1[v] # Nowhere
    BY <1>1, <2>2
  <2> HIDE DEF w, q1, f1
  <2>4. PICK f2 \in [Proc -> Anywhere] :
          /\ \A v \in Proc : f2[v] = Nowhere => f1[v] = Nowhere /\ v # w
          /\ Consistent(f2, Fresh(w, HIGH_PRIORITY), c, q1, r)
    BY <1>5, <2>1, <2>2, <2>3, PreemptConsistent
  <2>5. Consistent(f2, Fresh(w, HIGH_PRIORITY), c, Ready', r)
    BY <1>3, <1>5, <2>4, SameQueues DEF q1
  <2>6. \A v \in Proc : f2[v] # Nowhere
    BY <2>3, <2>4
  <2>7. QED
    BY <1>5, <2>5, <2>6, SettledIntro DEF w
<1>6. CASE /\ ~c.running /\ shadow # NoShadow
           /\ cpu' = shadow /\ shadow' = NoShadow /\ SetReady(q)
  <2>1. PICK f2 \in [Proc -> Anywhere] :
          /\ \A v \in Proc : f2[v] = Nowhere => f[v] = Nowhere
          /\ Consistent(f2, shadow, NoShadow, q, r)
    BY <1>6, ResumeConsistent
  <2>2. Consistent(f2, shadow, NoShadow, Ready', r)
    BY <1>3, <1>6, <2>1, SameQueues
  <2>3. QED
    BY <1>1, <1>6, <2>1, <2>2, SettledIntro
<1>7. ASSUME NEW p \in Priority, ~c.running,
             ~Resumes(q),
             p = LOW_PRIORITY => q.fptr[HIGH_PRIORITY] = NoProcess,
             q.fptr[p] # NoProcess,
             cpu' = Fresh(q.fptr[p], p),
             SetReady(Dequeue(q, p)), shadow' = shadow
      PROVE  Settled(cpu', shadow', Ready', r)
  <2> DEFINE w == q.fptr[p]
             q1 == Dequeue(q, p)
             f1 == [f EXCEPT ![w] = Nowhere]
             f2 == [f1 EXCEPT ![w] = Running]
  <2>1. w \in Proc /\ Consistent(f1, c, shadow, q1, r)
    BY <1>7, DequeueConsistent
  <2>2. f1[w] = Nowhere /\ \A v \in Proc : f2[v] # Nowhere
    BY <1>1, <2>1, Places
  <2>3. shadow # NoShadow => p = HIGH_PRIORITY
    BY <1>7 DEF Resumes, Priority, HIGH_PRIORITY, LOW_PRIORITY
  <2> HIDE DEF w, q1, f1
  <2>4. Consistent(f2, Fresh(w, p), shadow, q1, r)
    BY <1>7, <2>1, <2>2, <2>3, FreshConsistent
  <2> HIDE DEF f2
  <2>5. Consistent(f2, Fresh(w, p), shadow, Ready', r)
    BY <1>3, <1>7, <2>4, SameQueues DEF q1
  <2>6. QED
    BY <1>7, <2>2, <2>5, SettledIntro DEF w
<1>8. QED
  BY <1>2, <1>4, <1>5, <1>6, <1>7 DEF Dispatch, Resumes

-------------------------------------------------------------------------------
(* The invariant *)

EnablesType == [Enable -> BOOLEAN]

\* The processor is never idle with a process in the shadow.
ShadowUnderRunning == shadow # NoShadow => cpu.running

Inv ==
  /\ Settled(cpu, shadow, Ready, Rest)
  /\ ShadowUnderRunning
  /\ enables \in EnablesType
  /\ phase \in {"poll", "exec"}
  /\ RightProcessRuns
  /\ NoWaiterWithCount

\* What the invariant says of the variables one by one.
LEMMA InvTypes ==
  ASSUME Inv
  PROVE  /\ cpu \in Context /\ cpu.wptr \in Proc /\ cpu.priority \in Priority
         /\ shadow \in Context \union {NoShadow}
         /\ enables \in EnablesType
         /\ fptr \in [Priority -> Proc \union {NoProcess}]
         /\ bptr \in [Priority -> Proc \union {NoProcess}]
         /\ link \in LinkType
         /\ order \in [Priority -> Seq(Proc)]
         /\ semaphore \in SemType
         /\ semOrder \in [Sem -> Seq(Descriptor)]
         /\ asleep \in SUBSET Descriptor
         /\ chain \in [front : Proc \union {NoProcess}, back : Proc \union {NoProcess}]
         /\ chainOrder \in Seq(Proc)
         /\ parked \in SUBSET Proc
<1>1. PICK f \in [Proc -> Place] : Consistent(f, cpu, shadow, Ready, Rest)
  BY DEF Inv, Settled
<1>2. cpu \in Context /\ shadow \in Context \union {NoShadow}
      /\ QueuesTyped(Ready) /\ RestTyped(Rest)
  BY <1>1 DEF Consistent, Typed
<1>3. cpu.wptr \in Proc /\ cpu.priority \in Priority
  BY <1>2 DEF Context
<1>4. QED
  BY <1>2, <1>3 DEF Inv, QueuesTyped, RestTyped, Ready, Rest

\* The shadow bank under the invariant.
LEMMA InvShadow ==
  ASSUME Inv
  PROVE  ShadowIsInterrupted
<1>1. PICK f \in [Proc -> Place] : Consistent(f, cpu, shadow, Ready, Rest)
  BY DEF Inv, Settled
<1>2. QED
  BY <1>1 DEF Consistent, ShadowFits, Inv, ShadowUnderRunning, ShadowIsInterrupted

\* A dispatch establishes the invariant from any settled state.
LEMMA DispatchInv ==
  ASSUME NEW c, NEW q, Settled(c, shadow, q, Rest'), Dispatch(c, q),
         enables' \in EnablesType, phase' = "poll", NoWaiterWithCount'
  PROVE  Inv'
<1>1. Settled(cpu', shadow', Ready', Rest')
  BY DispatchSettled
<1>2. PICK f \in [Proc -> Place] : Consistent(f, c, shadow, q, Rest')
  BY DEF Settled
<1>3. /\ QueuesTyped(q) /\ shadow \in Context \union {NoShadow}
      /\ ShadowFits(c, shadow) /\ c \in Context
  BY <1>2 DEF Consistent, Typed
<1>4. /\ Priority = {HIGH_PRIORITY, LOW_PRIORITY}
      /\ HIGH_PRIORITY # LOW_PRIORITY
      /\ c.priority \in Priority
  BY <1>3 DEF Priority, HIGH_PRIORITY, LOW_PRIORITY, Context
<1>5. \A w, p : Fresh(w, p).running /\ Fresh(w, p).priority = p
  BY DEF Fresh
<1>6. ShadowUnderRunning' /\ RightProcessRuns'
  <2>1. CASE /\ c.running /\ ~Preempts(c, q)
             /\ cpu' = c /\ SetReady(q) /\ UNCHANGED shadow
    BY <2>1 DEF ShadowUnderRunning, RightProcessRuns, Preempts, SetReady
  <2>2. CASE /\ c.running /\ Preempts(c, q)
             /\ cpu' = Fresh(q.fptr[HIGH_PRIORITY], HIGH_PRIORITY)
             /\ shadow' = c
             /\ SetReady(Dequeue(q, HIGH_PRIORITY))
    BY <1>4, <1>5, <2>2 DEF ShadowUnderRunning, RightProcessRuns
  <2>3. CASE /\ ~c.running /\ q.fptr[HIGH_PRIORITY] = NoProcess /\ shadow # NoShadow
             /\ cpu' = shadow /\ shadow' = NoShadow /\ SetReady(q)
    BY <1>3, <2>3 DEF ShadowUnderRunning, RightProcessRuns, ShadowFits, SetReady
  <2>4. CASE /\ ~c.running /\ q.fptr[HIGH_PRIORITY] # NoProcess
             /\ cpu' = Fresh(q.fptr[HIGH_PRIORITY], HIGH_PRIORITY)
             /\ SetReady(Dequeue(q, HIGH_PRIORITY)) /\ UNCHANGED shadow
    BY <1>4, <1>5, <2>4 DEF ShadowUnderRunning, RightProcessRuns
  <2>5. CASE /\ ~c.running /\ q.fptr[HIGH_PRIORITY] = NoProcess
             /\ cpu' = Fresh(q.fptr[LOW_PRIORITY], LOW_PRIORITY)
             /\ SetReady(Dequeue(q, LOW_PRIORITY)) /\ UNCHANGED shadow
    <3>1. fptr'[HIGH_PRIORITY] = NoProcess
      BY <1>3, <1>4, <2>5 DEF SetReady, Dequeue, QueuesTyped
    <3>2. QED
      BY <1>4, <1>5, <2>5, <3>1 DEF ShadowUnderRunning, RightProcessRuns
  <2>6. CASE /\ ~c.running /\ q.fptr[HIGH_PRIORITY] = NoProcess
             /\ q.fptr[LOW_PRIORITY] = NoProcess /\ shadow = NoShadow
             /\ cpu' = c /\ SetReady(q) /\ UNCHANGED shadow
    BY <1>4, <2>6 DEF ShadowUnderRunning, RightProcessRuns, SetReady
  <2>7. QED
    BY <1>4, <2>1, <2>2, <2>3, <2>4, <2>5, <2>6 DEF Dispatch, Resumes
<1>7. QED
  BY <1>1, <1>6 DEF Inv

-------------------------------------------------------------------------------
\* The initial state is settled: everyone but BootProcess is parked.
LEMMA InitInv == ASSUME Init PROVE Inv
<1> DEFINE f == [w \in Proc |-> IF w = BootProcess THEN Running ELSE Parked]
<1> USE DEF Init, InitWith
<1>1. /\ f \in [Proc -> Place]
      /\ \A w \in Proc : /\ f[w] = Running <=> w = BootProcess
                         /\ f[w] = Parked <=> w # BootProcess
                         /\ f[w] \in {Running, Parked}
  BY Places
<1>2. /\ Ready.fptr = [p \in Priority |-> NoProcess]
      /\ Ready.bptr = [p \in Priority |-> NoProcess]
      /\ Ready.link = [w \in Proc |-> NoProcess]
      /\ Ready.order = [p \in Priority |-> <<>>]
  BY DEF Ready
<1>3. /\ Rest.semaphore = [s \in Sem |->
                             [count |-> 0, front |-> NoProcess, back |-> NoProcess]]
      /\ Rest.semOrder = [s \in Sem |-> <<>>]
      /\ Rest.asleep = {} /\ Rest.parked = Proc \ {BootProcess}
      /\ Rest.chain = [front |-> NoProcess, back |-> NoProcess]
      /\ Rest.chainOrder = <<>>
  BY DEF Rest
<1>4. /\ cpu \in Context /\ cpu.running /\ cpu.wptr = BootProcess
      /\ shadow = NoShadow
  <2>1. LOW_PRIORITY \in Priority
    BY DEF Priority
  <2>2. QED
    BY <2>1, SchedulerAssumption DEF Context, Fresh
<1>5. /\ <<>> \in Seq(Proc) /\ <<>> \in Seq(Descriptor)
      /\ \A w : ~Holds(<<>>, w) /\ ~HoldsWaiter(<<>>, w)
      /\ NoRepeats(<<>>) /\ NoRepeatedWaiter(<<>>)
      /\ \A lk : /\ Lists(lk, NoProcess, NoProcess, <<>>)
                 /\ ListsWaiters(lk, NoProcess, NoProcess, <<>>)
  BY EmptySeq DEF Holds, HoldsWaiter, NoRepeats, NoRepeatedWaiter, Lists, ListsWaiters
<1> HIDE DEF f
<1>6. Typed(f, cpu, shadow, Ready, Rest)
  <2>1. QueuesTyped(Ready)
    BY <1>2, <1>5 DEF QueuesTyped, LinkType
  <2>2. RestTyped(Rest)
    BY <1>3, <1>5 DEF RestTyped, SemType, SemEnd
  <2>3. QED
    BY <1>1, <1>4, <2>1, <2>2 DEF Typed, Anywhere
<1>7. LinkedReady(Ready) /\ LinkedChain(Ready, Rest) /\ LinkedSems(Ready, Rest)
  BY <1>2, <1>3, <1>5 DEF LinkedReady, LinkedChain, LinkedSems
<1>8. OwnedBanks(f, cpu, shadow)
  BY <1>1, <1>4, Places DEF OwnedBanks
<1>9. OwnedReady(f, Ready) /\ OwnedChain(f, Rest) /\ OwnedSems(f, Rest)
  BY <1>1, <1>2, <1>3, <1>5, Places DEF OwnedReady, OwnedChain, OwnedSems
<1>10. OwnedSets(f, Rest)
  BY <1>1, <1>3, Places DEF OwnedSets
<1>11. Settled(cpu, shadow, Ready, Rest)
  BY <1>1, <1>4, <1>6, <1>7, <1>8, <1>9, <1>10 DEF Settled, Consistent, ShadowFits
<1>12. /\ ShadowUnderRunning /\ enables \in EnablesType /\ phase \in {"poll", "exec"}
       /\ RightProcessRuns /\ NoWaiterWithCount
  <2>1. ShadowUnderRunning
    BY <1>4 DEF ShadowUnderRunning
  <2>2. enables \in EnablesType
    BY DEF EnablesType
  <2>3. fptr = [p \in Priority |-> NoProcess] /\ HIGH_PRIORITY \in Priority
    BY DEF Priority
  <2>4. RightProcessRuns
    BY <1>4, <2>3 DEF RightProcessRuns
  <2>5. NoWaiterWithCount
    BY DEF NoWaiterWithCount
  <2>6. QED
    BY <2>1, <2>2, <2>4, <2>5
<1>13. QED
  BY <1>11, <1>12 DEF Inv

-------------------------------------------------------------------------------
(* The steps *)

\* Registers other than workspace, priority and running do not move anyone.
LEMMA SameBanks ==
  ASSUME NEW c, NEW sh, NEW q, NEW r, Settled(c, sh, q, r),
         NEW c2 \in Context, c2.wptr = c.wptr, c2.priority = c.priority,
         c2.running <=> c.running,
         NEW sh2 \in Context \union {NoShadow},
         sh2 = NoShadow <=> sh = NoShadow,
         sh # NoShadow => /\ sh2.wptr = sh.wptr /\ sh2.priority = sh.priority
                          /\ sh2.running /\ ~sh2.interruptsDisabled
  PROVE  Settled(c2, sh2, q, r)
<1>1. PICK f \in [Proc -> Place] : Consistent(f, c, sh, q, r)
  BY DEF Settled
<1>2. f \in [Proc -> Anywhere]
  BY <1>1 DEF Consistent, Typed
<1>3. OwnedBanks(f, c2, sh2) /\ ShadowFits(c2, sh2)
  BY <1>1 DEF Consistent, OwnedBanks, ShadowFits
<1>4. Consistent(f, c2, sh2, q, r)
  BY <1>1, <1>2, <1>3, BanksConsistent
<1>5. QED
  BY <1>1, <1>4 DEF Settled

\* ageQuantum changes the quantum count only, and never lowers it.
LEMMA AgedContext ==
  ASSUME NEW c \in Context, NEW ticks \in 0 .. 1
  PROVE  /\ Aged(c, ticks) \in Context
         /\ Aged(c, ticks).wptr = c.wptr
         /\ Aged(c, ticks).priority = c.priority
         /\ Aged(c, ticks).running = c.running
         /\ Aged(c, ticks).interruptsDisabled = c.interruptsDisabled
         /\ Aged(c, ticks).timeslicePeriods >= c.timeslicePeriods
         /\ Aged(c, ticks) =
              [c EXCEPT !.timeslicePeriods = Aged(c, ticks).timeslicePeriods]
<1>1. CASE /\ c.running /\ c.priority = LOW_PRIORITY
           /\ c.timeslicePeriods + ticks <= 2
  <2>1. Aged(c, ticks) = [c EXCEPT !.timeslicePeriods = c.timeslicePeriods + ticks]
    BY <1>1 DEF Aged
  <2>2. c.timeslicePeriods + ticks \in 0 .. 2
    BY <1>1 DEF Context
  <2>3. QED
    BY <2>1, <2>2 DEF Context
<1>2. CASE ~(/\ c.running /\ c.priority = LOW_PRIORITY
             /\ c.timeslicePeriods + ticks <= 2)
  <2>1. Aged(c, ticks) = c
    BY <1>2 DEF Aged
  <2>2. c.timeslicePeriods \in Int
    BY DEF Context
  <2>3. c = [c EXCEPT !.timeslicePeriods = c.timeslicePeriods]
    BY DEF Context
  <2>4. QED
    BY <2>1, <2>2, <2>3
<1>3. QED
  BY <1>1, <1>2

\* An advance of the clocks keeps the invariant.
LEMMA BeginStepInv ==
  ASSUME Inv, NEW ticks \in 0 .. 1, BeginStep(ticks)
  PROVE  Inv'
<1>1. Ready' = Ready /\ Rest' = Rest /\ phase' = "exec" /\ enables' = enables
  BY DEF BeginStep, Ready, Rest, history
<1>2. /\ cpu' \in Context /\ cpu'.wptr = cpu.wptr /\ cpu'.priority = cpu.priority
      /\ cpu'.running = cpu.running
  BY InvTypes, AgedContext DEF BeginStep
<1>3. /\ shadow' \in Context \union {NoShadow}
      /\ shadow' = NoShadow <=> shadow = NoShadow
      /\ shadow # NoShadow => /\ shadow'.wptr = shadow.wptr
                              /\ shadow'.priority = shadow.priority
                              /\ shadow'.running /\ ~shadow'.interruptsDisabled
  <2>1. CASE shadow = NoShadow
    BY <2>1 DEF BeginStep
  <2>2. CASE shadow # NoShadow
    <3>1. shadow \in Context /\ shadow' = Aged(shadow, ticks)
      BY <2>2, InvTypes DEF BeginStep
    <3>2. shadow.running /\ ~shadow.interruptsDisabled
      BY <2>2, InvShadow DEF ShadowIsInterrupted
    <3>3. shadow' # NoShadow
      BY <3>1, AgedContext, SchedulerAssumption
    <3>4. QED
      BY <2>2, <3>1, <3>2, <3>3, AgedContext
  <2>3. QED
    BY <2>1, <2>2
<1>4. Settled(cpu, shadow, Ready, Rest)
  BY DEF Inv
<1>5. Settled(cpu', shadow', Ready', Rest')
  BY <1>1, <1>2, <1>3, <1>4, SameBanks
<1>6. NoWaiterWithCount'
  BY DEF Inv, NoWaiterWithCount, BeginStep
<1>7. QED
  BY <1>1, <1>2, <1>3, <1>5, <1>6 DEF Inv, ShadowUnderRunning, RightProcessRuns

\* The release of a sleeper keeps the invariant.
LEMMA ReleaseInv ==
  ASSUME Inv, NEW d \in Descriptor, Release(d)
  PROVE  Inv'
<1>1. PICK f \in [Proc -> Place] : Consistent(f, cpu, shadow, Ready, Rest)
  BY DEF Inv, Settled
<1>2. /\ Rest'.semaphore = Rest.semaphore /\ Rest'.semOrder = Rest.semOrder
      /\ Rest'.chain = Rest.chain /\ Rest'.chainOrder = Rest.chainOrder
      /\ Rest'.asleep = Rest.asleep \ {d} /\ Rest'.parked = Rest.parked
      /\ d \in Rest.asleep
  BY DEF Release, Rest
<1> DEFINE w == d.wptr
           p == d.priority
           q == Enqueue(Ready, w, p)
           f1 == [f EXCEPT ![w] = Nowhere]
           f2 == [f1 EXCEPT ![w] = ReadyAt(p)]
<1>3. w \in Proc /\ p \in Priority
  BY DEF Descriptor
<1>4. Consistent(f1, cpu, shadow, Ready, Rest')
  BY <1>1, <1>2, WakeConsistent
<1>5. f1[w] = Nowhere /\ \A v \in Proc : f2[v] # Nowhere
  BY <1>3, Places
<1> HIDE DEF f1
<1>6. Consistent(f2, cpu, shadow, q, Rest')
  BY <1>3, <1>4, <1>5, EnqueueConsistent
<1> HIDE DEF f2
<1>7. Ready' = q /\ cpu' = cpu /\ shadow' = shadow /\ enables' = enables /\ phase' = "exec"
  BY DEF Release, SetReady, Ready, Enqueue
<1>8. Settled(cpu', shadow', Ready', Rest')
  BY <1>5, <1>6, <1>7, SettledIntro
<1>9. NoWaiterWithCount'
  BY DEF Inv, NoWaiterWithCount, Release
<1>10. QED
  BY <1>7, <1>8, <1>9 DEF Inv, ShadowUnderRunning, RightProcessRuns

\* The handlers that touch nothing but the bank and a queue.
LEMMA QuietDispatchInv ==
  ASSUME Inv, NEW c \in Context, c.wptr = cpu.wptr, c.priority = cpu.priority,
         c.running <=> cpu.running,
         UNCHANGED <<semaphore, asleep, chain, parked, semOrder, chainOrder>>,
         Dispatch(c, Ready), enables' \in EnablesType, phase' = "poll"
  PROVE  Inv'
<1>1. Settled(cpu, shadow, Ready, Rest) /\ NoWaiterWithCount
  BY DEF Inv
<1>2. Rest' = Rest /\ NoWaiterWithCount'
  BY <1>1 DEF Rest, NoWaiterWithCount
<1>3. /\ shadow \in Context \union {NoShadow}
      /\ shadow # NoShadow => shadow.running /\ ~shadow.interruptsDisabled
  BY InvTypes, InvShadow DEF ShadowIsInterrupted
<1>4. Settled(c, shadow, Ready, Rest')
  BY <1>1, <1>2, <1>3, SameBanks
<1>5. QED
  BY <1>2, <1>4, DispatchInv

\* The poll of an idle processor keeps the invariant.
LEMMA IdlePollInv == ASSUME Inv, IdlePoll PROVE Inv'
<1>1. enables' \in EnablesType
  BY InvTypes DEF IdlePoll
<1>2. QED
  BY <1>1, InvTypes, QuietDispatchInv DEF IdlePoll

\* An instruction that touches no queue keeps the invariant.
LEMMA ComputeInv == ASSUME Inv, Compute PROVE Inv'
<1>1. enables' \in EnablesType
  BY InvTypes DEF Compute
<1>2. QED
  BY <1>1, InvTypes, QuietDispatchInv DEF Compute, Executing

\* A start: the workspace leaves the parked set and is queued.
LEMMA StartInv ==
  ASSUME Inv, NEW w \in parked, NEW p \in Priority,
         parked' = parked \ {w},
         UNCHANGED <<semaphore, asleep, chain, semOrder, chainOrder, enables>>,
         Dispatch(cpu, Enqueue(Ready, w, p)), phase' = "poll"
  PROVE  Inv'
<1>1. PICK f \in [Proc -> Place] : Consistent(f, cpu, shadow, Ready, Rest)
  BY DEF Inv, Settled
<1>2. /\ Rest'.semaphore = Rest.semaphore /\ Rest'.semOrder = Rest.semOrder
      /\ Rest'.chain = Rest.chain /\ Rest'.chainOrder = Rest.chainOrder
      /\ Rest'.asleep = Rest.asleep /\ Rest'.parked = Rest.parked \ {w}
      /\ w \in Rest.parked
  BY DEF Rest
<1> DEFINE q == Enqueue(Ready, w, p)
           f1 == [f EXCEPT ![w] = Nowhere]
           f2 == [f1 EXCEPT ![w] = ReadyAt(p)]
<1>3. w \in Proc
  BY InvTypes
<1>4. Consistent(f1, cpu, shadow, Ready, Rest')
  BY <1>1, <1>2, UnparkConsistent
<1>5. f1[w] = Nowhere /\ \A v \in Proc : f2[v] # Nowhere
  BY <1>3, Places
<1> HIDE DEF f1
<1>6. Consistent(f2, cpu, shadow, q, Rest')
  BY <1>3, <1>4, <1>5, EnqueueConsistent
<1> HIDE DEF f2
<1>7. Settled(cpu, shadow, q, Rest')
  BY <1>5, <1>6, SettledIntro
<1>8. NoWaiterWithCount' /\ enables' \in EnablesType
  BY DEF Inv, NoWaiterWithCount
<1>9. QED
  BY <1>7, <1>8, DispatchInv

\* startp keeps the invariant.
LEMMA StartPInv == ASSUME Inv, NEW w \in Proc, StartP(w) PROVE Inv'
<1>1. w \in parked /\ cpu.priority \in Priority
  BY InvTypes DEF StartP
<1>2. QED
  BY <1>1, StartInv DEF StartP, Executing

\* runp keeps the invariant.
LEMMA RunPInv == ASSUME Inv, NEW d \in Descriptor, RunP(d) PROVE Inv'
<1>1. d.wptr \in parked /\ d.priority \in Priority
  BY DEF RunP, Descriptor
<1>2. QED
  BY <1>1, StartInv DEF RunP, Executing

\* The caller stops: it is descheduled, parked, and the next one dispatched.
LEMMA StopPInv == ASSUME Inv, StopP PROVE Inv'
<1>1. PICK f \in [Proc -> Place] : Consistent(f, cpu, shadow, Ready, Rest)
  BY DEF Inv, Settled
<1>2. /\ Rest'.semaphore = Rest.semaphore /\ Rest'.semOrder = Rest.semOrder
      /\ Rest'.chain = Rest.chain /\ Rest'.chainOrder = Rest.chainOrder
      /\ Rest'.asleep = Rest.asleep /\ Rest'.parked = Rest.parked \union {cpu.wptr}
      /\ cpu.running
  BY DEF Rest, StopP, Executing
<1> DEFINE c == Suspended(cpu)
           f1 == [f EXCEPT ![cpu.wptr] = Nowhere]
           f2 == [f1 EXCEPT ![cpu.wptr] = Parked]
<1>3. cpu.wptr \in Proc /\ Consistent(f1, c, shadow, Ready, Rest)
  BY <1>1, <1>2, SuspendConsistent
<1>4. f1[cpu.wptr] = Nowhere /\ \A v \in Proc : f2[v] # Nowhere
  BY <1>3, Places
<1> HIDE DEF f1, c
<1>5. Consistent(f2, c, shadow, Ready, Rest')
  BY <1>2, <1>3, <1>4, ParkConsistent
<1> HIDE DEF f2
<1>6. Settled(c, shadow, Ready, Rest')
  BY <1>4, <1>5, SettledIntro
<1>7. NoWaiterWithCount' /\ enables' \in EnablesType
  BY DEF Inv, NoWaiterWithCount, StopP
<1>8. QED
  BY <1>6, <1>7, DispatchInv DEF StopP, Executing, c

\* The caller sleeps.
LEMMA TinInv == ASSUME Inv, Tin PROVE Inv'
<1>1. PICK f \in [Proc -> Place] : Consistent(f, cpu, shadow, Ready, Rest)
  BY DEF Inv, Settled
<1>2. /\ Rest'.semaphore = Rest.semaphore /\ Rest'.semOrder = Rest.semOrder
      /\ Rest'.chain = Rest.chain /\ Rest'.chainOrder = Rest.chainOrder
      /\ Rest'.asleep = Rest.asleep \union {Self} /\ Rest'.parked = Rest.parked
      /\ cpu.running
  BY DEF Rest, Tin, Executing
<1> DEFINE c == Suspended(cpu)
           f1 == [f EXCEPT ![Self.wptr] = Nowhere]
           f2 == [f1 EXCEPT ![Self.wptr] = Asleep]
<1>3. Self \in Descriptor /\ Self.wptr = cpu.wptr
  BY InvTypes DEF Self, Descriptor
<1>4. cpu.wptr \in Proc /\ Consistent(f1, c, shadow, Ready, Rest)
  BY <1>1, <1>2, <1>3, SuspendConsistent
<1>5. f1[Self.wptr] = Nowhere /\ \A v \in Proc : f2[v] # Nowhere
  BY <1>3, <1>4, Places
<1> HIDE DEF f1, c
<1>6. Consistent(f2, c, shadow, Ready, Rest')
  BY <1>2, <1>3, <1>4, <1>5, SleepConsistent
<1> HIDE DEF f2
<1>7. Settled(c, shadow, Ready, Rest')
  BY <1>5, <1>6, SettledIntro
<1>8. NoWaiterWithCount' /\ enables' \in EnablesType
  BY DEF Inv, NoWaiterWithCount, Tin
<1>9. QED
  BY <1>7, <1>8, DispatchInv DEF Tin, Executing, c

\* A rotation puts the caller at the back of its queue.
LEMMA RotateInv ==
  ASSUME Inv, cpu.running, Rotate, phase' = "poll",
         UNCHANGED <<semaphore, asleep, chain, parked, semOrder, chainOrder, enables>>
  PROVE  Inv'
<1>1. Rest' = Rest /\ NoWaiterWithCount' /\ enables' \in EnablesType
  BY DEF Rest, Inv, NoWaiterWithCount
<1>2. CASE Dispatch(cpu, Ready)
  BY <1>1, <1>2, InvTypes, QuietDispatchInv
<1>3. CASE Dispatch(Suspended(cpu), Enqueue(Ready, cpu.wptr, cpu.priority))
  <2>1. PICK f \in [Proc -> Place] : Consistent(f, cpu, shadow, Ready, Rest)
    BY DEF Inv, Settled
  <2> DEFINE c == Suspended(cpu)
             w == cpu.wptr
             p == cpu.priority
             q == Enqueue(Ready, w, p)
             f1 == [f EXCEPT ![w] = Nowhere]
             f2 == [f1 EXCEPT ![w] = ReadyAt(p)]
  <2>2. w \in Proc /\ p \in Priority /\ Consistent(f1, c, shadow, Ready, Rest)
    BY <2>1, InvTypes, SuspendConsistent
  <2>3. f1[w] = Nowhere /\ \A v \in Proc : f2[v] # Nowhere
    BY <2>2, Places
  <2> HIDE DEF f1, c, w, p
  <2>4. Consistent(f2, c, shadow, q, Rest)
    BY <2>2, <2>3, EnqueueConsistent
  <2> HIDE DEF f2, q
  <2>5. Settled(c, shadow, q, Rest')
    BY <1>1, <2>3, <2>4, SettledIntro
  <2>6. Dispatch(c, q)
    BY <1>3 DEF c, q, w, p
  <2>7. QED
    BY <1>1, <2>5, <2>6, DispatchInv
<1>4. QED
  BY <1>2, <1>3 DEF Rotate

\* timeslice keeps the invariant.
LEMMA TimesliceInv == ASSUME Inv, Timeslice PROVE Inv'
BY RotateInv DEF Timeslice, Executing

\* A jump that times the process out keeps the invariant.
LEMMA JumpInv == ASSUME Inv, Jump PROVE Inv'
<1>1. CASE Rotate
  BY <1>1, RotateInv DEF Jump, Executing
<1>2. CASE Dispatch(cpu, Ready)
  <2>1. enables' \in EnablesType
    BY InvTypes DEF Jump
  <2>2. QED
    BY <1>2, <2>1, InvTypes, QuietDispatchInv DEF Jump, Executing
<1>3. QED
  BY <1>1, <1>2 DEF Jump

\* intdis and intenb keep the invariant.
LEMMA SetInterruptsDisabledInv ==
  ASSUME Inv, NEW b \in BOOLEAN, SetInterruptsDisabled(b)
  PROVE  Inv'
<1> DEFINE x == IF cpu.priority = LOW_PRIORITY THEN b ELSE cpu.interruptsDisabled
           c == [cpu EXCEPT !.interruptsDisabled = x]
<1>1. x \in BOOLEAN /\ cpu \in Context
  BY InvTypes DEF Context
<1> HIDE DEF x
<1>2. /\ c \in Context /\ c.wptr = cpu.wptr /\ c.priority = cpu.priority
      /\ c.running <=> cpu.running
  BY <1>1 DEF Context
<1>3. Dispatch(c, Ready)
  BY DEF SetInterruptsDisabled, x
<1>4. enables' \in EnablesType
  BY InvTypes DEF SetInterruptsDisabled
<1> HIDE DEF c
<1>5. QED
  BY <1>2, <1>3, <1>4, QuietDispatchInv DEF SetInterruptsDisabled, Executing

\* settimeslice keeps the invariant.
LEMMA SetTimesliceInv ==
  ASSUME Inv, NEW b \in BOOLEAN, SetTimeslice(b)
  PROVE  Inv'
<1> DEFINE x == IF cpu.priority = LOW_PRIORITY THEN b ELSE cpu.timesliceEnable
           c == [cpu EXCEPT !.timesliceEnable = x]
<1>1. x \in BOOLEAN /\ cpu \in Context
  BY InvTypes DEF Context
<1> HIDE DEF x
<1>2. /\ c \in Context /\ c.wptr = cpu.wptr /\ c.priority = cpu.priority
      /\ c.running <=> cpu.running
  BY <1>1 DEF Context
<1>3. Dispatch(c, Ready)
  BY DEF SetTimeslice, x
<1>4. enables' \in EnablesType
  BY InvTypes DEF SetTimeslice
<1> HIDE DEF c
<1>5. QED
  BY <1>2, <1>3, <1>4, QuietDispatchInv DEF SetTimeslice, Executing

\* gintdis and gintenb keep the invariant.
LEMMA SetGlobalEnablesInv ==
  ASSUME Inv, NEW mask \in SUBSET Enable, NEW b \in BOOLEAN, SetGlobalEnables(mask, b)
  PROVE  Inv'
<1>1. enables' \in EnablesType
  BY InvTypes DEF SetGlobalEnables, EnablesType
<1>2. QED
  BY <1>1, InvTypes, QuietDispatchInv DEF SetGlobalEnables, Executing

\* A wait takes a count, or queues the caller on the semaphore.
LEMMA WaitInv == ASSUME Inv, NEW s \in Sem, Wait(s) PROVE Inv'
<1>1. /\ semaphore \in SemType /\ enables' \in EnablesType /\ phase' = "poll" /\ cpu.running
  BY InvTypes DEF Wait, Executing
<1>2. CASE TakeCount(s)
  <2> USE DEF TakeCount
  <2> DEFINE n == semaphore[s].count - 1
  <2>1. n \in Nat
    BY <1>1, <1>2 DEF SemType
  <2>2. PICK f \in [Proc -> Place] : Consistent(f, cpu, shadow, Ready, Rest)
    BY DEF Inv, Settled
  <2>3. /\ Rest'.semaphore = [Rest.semaphore EXCEPT ![s].count = n]
        /\ Rest'.semOrder = Rest.semOrder
        /\ Rest'.chain = Rest.chain /\ Rest'.chainOrder = Rest.chainOrder
        /\ Rest'.asleep = Rest.asleep /\ Rest'.parked = Rest.parked
    BY <1>2 DEF Wait, Rest
  <2> HIDE DEF n
  <2>4. Consistent(f, cpu, shadow, Ready, Rest')
    BY <2>1, <2>2, <2>3, CountConsistent
  <2>5. Settled(cpu, shadow, Ready, Rest')
    BY <2>4 DEF Settled
  <2>6. NoWaiterWithCount'
    <3>1. \A t \in Sem : semaphore'[t].front = semaphore[t].front
      BY <1>1, <1>2, <2>1, SemCount DEF n
    <3>2. \A t \in Sem \ {s} : semaphore'[t] = semaphore[t]
      BY <1>1, <1>2 DEF SemType
    <3>3. QED
      BY <1>2, <3>1, <3>2 DEF Inv, NoWaiterWithCount
  <2>7. QED
    BY <1>1, <1>2, <2>5, <2>6, DispatchInv
<1>3. CASE JoinWaiters(s)
  <2> USE DEF JoinWaiters
  <2> DEFINE c == Suspended(cpu)
             lk == WaiterLinks(s)
             q == [Ready EXCEPT !.link = lk]
  <2>1. PICK f \in [Proc -> Place] : Consistent(f, cpu, shadow, Ready, Rest)
    BY DEF Inv, Settled
  <2> DEFINE f1 == [f EXCEPT ![Self.wptr] = Nowhere]
             f2 == [f1 EXCEPT ![Self.wptr] = WaitingAt(s)]
  <2>2. Self \in Descriptor /\ Self.wptr = cpu.wptr /\ Self \in SemEnd
    BY InvTypes DEF Self, Descriptor, SemEnd
  <2>3. cpu.wptr \in Proc /\ Consistent(f1, c, shadow, Ready, Rest)
    BY <1>1, <2>1, <2>2, SuspendConsistent
  <2>4. f1[Self.wptr] = Nowhere /\ \A v \in Proc : f2[v] # Nowhere
    BY <2>2, <2>3, Places
  <2>5. /\ Rest.semaphore = semaphore /\ Rest'.semaphore = semaphore'
        /\ Rest'.semOrder = [Rest.semOrder EXCEPT ![s] = Append(@, Self)]
        /\ Rest'.chain = Rest.chain /\ Rest'.chainOrder = Rest.chainOrder
        /\ Rest'.asleep = Rest.asleep /\ Rest'.parked = Rest.parked
    BY <1>3 DEF Wait, Rest
  <2>6. q.fptr = Ready.fptr /\ q.bptr = Ready.bptr /\ q.order = Ready.order /\ q.link = lk
    BY DEF Ready
  <2>7. lk = IF Rest.semaphore[s].front = NoProcess
             THEN [Ready.link EXCEPT ![Self.wptr] = NoProcess]
             ELSE [[Ready.link EXCEPT ![Self.wptr] = NoProcess]
                     EXCEPT ![Rest.semaphore[s].back.wptr] = Self]
    BY <2>2, <2>5 DEF Ready, WaiterLinks
  <2>8. Dispatch(c, q)
    BY <1>3
  <2> HIDE DEF f1, c, q, lk
  <2>9. QueuesWaiter(Self, s, Ready, Rest, q, Rest')
    BY <1>3, <2>5, <2>6, <2>7 DEF QueuesWaiter
  <2>10. Consistent(f2, c, shadow, q, Rest')
    BY <2>2, <2>3, <2>4, <2>9, WaitConsistent
  <2> HIDE DEF f2
  <2>11. Settled(c, shadow, q, Rest')
    BY <2>4, <2>10, SettledIntro
  <2>12. NoWaiterWithCount'
    <3>1. \A t \in Sem \ {s} : semaphore'[t] = semaphore[t]
      BY <1>1, <1>3 DEF SemType
    <3>2. semaphore'[s].count = 0
      BY <1>1, <1>3 DEF SemType
    <3>3. QED
      BY <3>1, <3>2 DEF Inv, NoWaiterWithCount
  <2>13. QED
    BY <1>1, <2>8, <2>11, <2>12, DispatchInv
<1>4. QED
  BY <1>2, <1>3 DEF Wait

\* A signal adds a count, or hands it to the longest waiter.
LEMMA SignalInv == ASSUME Inv, NEW s \in Sem, Signal(s) PROVE Inv'
<1>1. /\ semaphore \in SemType /\ enables' \in EnablesType /\ phase' = "poll"
  BY InvTypes DEF Signal, Executing
<1>2. PICK f \in [Proc -> Place] : Consistent(f, cpu, shadow, Ready, Rest)
  BY DEF Inv, Settled
<1>3. CASE AddCount(s)
  <2> USE DEF AddCount
  <2> DEFINE n == semaphore[s].count + 1
  <2>1. n \in Nat
    BY <1>1 DEF SemType
  <2>2. /\ Rest'.semaphore = [Rest.semaphore EXCEPT ![s].count = n]
        /\ Rest'.semOrder = Rest.semOrder
        /\ Rest'.chain = Rest.chain /\ Rest'.chainOrder = Rest.chainOrder
        /\ Rest'.asleep = Rest.asleep /\ Rest'.parked = Rest.parked
    BY <1>3 DEF Signal, Rest
  <2> HIDE DEF n
  <2>3. Consistent(f, cpu, shadow, Ready, Rest')
    BY <1>2, <2>1, <2>2, CountConsistent
  <2>4. Settled(cpu, shadow, Ready, Rest')
    BY <2>3 DEF Settled
  <2>5. NoWaiterWithCount'
    <3>1. \A t \in Sem : semaphore'[t].front = semaphore[t].front
      BY <1>1, <1>3, <2>1, SemCount DEF n
    <3>2. \A t \in Sem \ {s} : semaphore'[t] = semaphore[t]
      BY <1>1, <1>3 DEF SemType
    <3>3. QED
      BY <1>3, <3>1, <3>2 DEF Inv, NoWaiterWithCount
  <2>6. QED
    BY <1>1, <1>3, <2>4, <2>5, DispatchInv
<1>4. CASE WakeWaiter(s)
  <2> DEFINE d == semaphore[s].front
             next == link[d.wptr]
             q == Enqueue(Ready, d.wptr, d.priority)
             f1 == [f EXCEPT ![d.wptr] = Nowhere]
             f2 == [f1 EXCEPT ![d.wptr] = ReadyAt(d.priority)]
  <2>1. /\ semaphore' =
             [semaphore EXCEPT
                ![s] = [count |-> @.count,
                        front |-> next,
                        back |-> IF next = NoProcess THEN NoProcess ELSE @.back]]
        /\ Dispatch(cpu, q)
        /\ semOrder' = [semOrder EXCEPT ![s] = Tail(@)]
        /\ d # NoProcess
    BY <1>4 DEF WakeWaiter
  <2>2. /\ Rest.semaphore = semaphore /\ Rest'.semaphore = semaphore'
        /\ Rest'.semOrder = [Rest.semOrder EXCEPT ![s] = Tail(@)]
        /\ Rest'.chain = Rest.chain /\ Rest'.chainOrder = Rest.chainOrder
        /\ Rest'.asleep = Rest.asleep /\ Rest'.parked = Rest.parked
        /\ next = Ready.link[d.wptr]
    BY <2>1 DEF Signal, Rest, Ready
  <2> HIDE DEF d, next, q, f1, f2
  <2>3. TakesWaiter(d, next, s, Ready, Rest, Rest')
    BY <2>1, <2>2 DEF d, TakesWaiter
  <2>4. d \in Descriptor /\ Consistent(f1, cpu, shadow, Ready, Rest')
    BY <1>2, <2>3, SignalConsistent DEF f1
  <2>5. d.wptr \in Proc /\ d.priority \in Priority
    BY <2>4 DEF Descriptor
  <2>6. f1[d.wptr] = Nowhere /\ \A v \in Proc : f2[v] # Nowhere
    BY <2>5, Places DEF f1, f2
  <2>7. Consistent(f2, cpu, shadow, q, Rest')
    BY <2>4, <2>5, <2>6, EnqueueConsistent DEF f2, q
  <2>8. Settled(cpu, shadow, q, Rest')
    BY <2>6, <2>7, SettledIntro
  <2>9. NoWaiterWithCount'
    <3>1. \A t \in Sem \ {s} : semaphore'[t] = semaphore[t]
      BY <1>1, <2>1 DEF SemType
    <3>2. semaphore'[s].count = semaphore[s].count
      BY <1>1, <2>1 DEF SemType
    <3>3. QED
      BY <2>1, <3>1, <3>2 DEF Inv, NoWaiterWithCount, d
  <2>10. QED
    BY <1>1, <2>1, <2>8, <2>9, DispatchInv
<1>5. QED
  BY <1>3, <1>4 DEF Signal

\* swapqueue keeps the invariant.
LEMMA SwapQueueInv == ASSUME Inv, NEW p \in Priority, SwapQueue(p) PROVE Inv'
<1>1. PICK f \in [Proc -> Place] : Consistent(f, cpu, shadow, Ready, Rest)
  BY DEF Inv, Settled
<1> DEFINE q == [fptr  |-> [fptr EXCEPT ![p] = chain.front],
                 bptr  |-> [bptr EXCEPT ![p] = chain.back],
                 link  |-> link,
                 order |-> [order EXCEPT ![p] = chainOrder]]
           f2 == PlacesSwapped(f, p)
<1>2. /\ q.fptr = [Ready.fptr EXCEPT ![p] = Rest.chain.front]
      /\ q.bptr = [Ready.bptr EXCEPT ![p] = Rest.chain.back]
      /\ q.link = Ready.link
      /\ q.order = [Ready.order EXCEPT ![p] = Rest.chainOrder]
  BY DEF Ready, Rest
<1>3. /\ Rest'.chain = [front |-> Ready.fptr[p], back |-> Ready.bptr[p]]
      /\ Rest'.chainOrder = Ready.order[p]
      /\ Rest'.semaphore = Rest.semaphore /\ Rest'.semOrder = Rest.semOrder
      /\ Rest'.asleep = Rest.asleep /\ Rest'.parked = Rest.parked
  BY DEF SwapQueue, Ready, Rest
<1>4. Dispatch(cpu, q)
  BY DEF SwapQueue
<1> HIDE DEF q
<1>5. \A w \in Proc : f2[w] # Nowhere
  BY Places DEF PlacesSwapped
<1>6. SwapsLists(p, Ready, Rest, q, Rest')
  BY <1>2, <1>3 DEF SwapsLists
<1>7. Consistent(f2, cpu, shadow, q, Rest')
  BY <1>1, <1>6, SwapConsistent
<1> HIDE DEF f2
<1>8. Settled(cpu, shadow, q, Rest')
  BY <1>5, <1>7, SettledIntro
<1>9. NoWaiterWithCount' /\ enables' \in EnablesType /\ phase' = "poll"
  BY DEF Inv, NoWaiterWithCount, SwapQueue, Executing
<1>10. QED
  BY <1>4, <1>8, <1>9, DispatchInv

\* insertqueue keeps the invariant.
LEMMA InsertQueueInv == ASSUME Inv, NEW p \in Priority, InsertQueue(p) PROVE Inv'
<1>1. PICK f \in [Proc -> Place] : Consistent(f, cpu, shadow, Ready, Rest)
  BY DEF Inv, Settled
<1> DEFINE q == Spliced(p)
           f2 == PlacesSpliced(f, p)
<1>2. /\ q.fptr = [Ready.fptr EXCEPT ![p] = Rest.chain.front]
      /\ q.bptr = [Ready.bptr EXCEPT ![p] = IF Ready.fptr[p] = NoProcess
                                            THEN Rest.chain.back ELSE @]
      /\ q.link = IF Ready.fptr[p] = NoProcess
                  THEN Ready.link
                  ELSE [Ready.link EXCEPT ![Rest.chain.back] = Ready.fptr[p]]
      /\ q.order = [Ready.order EXCEPT ![p] = Rest.chainOrder \o @]
      /\ Rest.chain.front # NoProcess
  BY DEF Ready, Rest, Spliced, InsertQueue
<1>3. /\ Rest'.chain = [front |-> NoProcess, back |-> NoProcess]
      /\ Rest'.chainOrder = <<>>
      /\ Rest'.semaphore = Rest.semaphore /\ Rest'.semOrder = Rest.semOrder
      /\ Rest'.asleep = Rest.asleep /\ Rest'.parked = Rest.parked
  BY DEF InsertQueue, Ready, Rest
<1>4. Dispatch(cpu, q)
  BY DEF InsertQueue
<1> HIDE DEF q
<1>5. \A w \in Proc : f2[w] # Nowhere
  BY Places DEF PlacesSpliced
<1>6. SplicesLists(p, Ready, Rest, q, Rest')
  BY <1>2, <1>3 DEF SplicesLists
<1>7. Consistent(f2, cpu, shadow, q, Rest')
  BY <1>1, <1>6, SpliceConsistent
<1> HIDE DEF f2
<1>8. Settled(cpu, shadow, q, Rest')
  BY <1>5, <1>7, SettledIntro
<1>9. NoWaiterWithCount' /\ enables' \in EnablesType /\ phase' = "poll"
  BY DEF Inv, NoWaiterWithCount, InsertQueue, Executing
<1>10. QED
  BY <1>4, <1>8, <1>9, DispatchInv

\* A step that changes nothing keeps the invariant.
LEMMA StutterInv == ASSUME Inv, UNCHANGED vars PROVE Inv'
<1>1. Ready' = Ready /\ Rest' = Rest
  BY DEF vars, Ready, Rest
<1>2. /\ cpu' = cpu /\ shadow' = shadow /\ enables' = enables /\ phase' = phase
      /\ fptr' = fptr /\ semaphore' = semaphore
  BY DEF vars
<1>3. QED
  BY <1>1, <1>2 DEF Inv, ShadowUnderRunning, RightProcessRuns, NoWaiterWithCount

\* Every step preserves the invariant, one lemma for each action.
LEMMA NextInv == ASSUME Inv, [Next]_vars PROVE Inv'
<1>1. ASSUME NEW ticks \in 0 .. 1, BeginStep(ticks) PROVE Inv'
  BY <1>1, BeginStepInv
<1>2. ASSUME NEW d \in Descriptor, Release(d) PROVE Inv'
  BY <1>2, ReleaseInv
<1>3. CASE IdlePoll
  BY <1>3, IdlePollInv
<1>4. CASE Compute
  BY <1>4, ComputeInv
<1>5. ASSUME NEW w \in Proc, StartP(w) PROVE Inv'
  BY <1>5, StartPInv
<1>6. ASSUME NEW d \in Descriptor, RunP(d) PROVE Inv'
  BY <1>6, RunPInv
<1>7. CASE StopP
  BY <1>7, StopPInv
<1>8. CASE Tin
  BY <1>8, TinInv
<1>9. CASE Timeslice
  BY <1>9, TimesliceInv
<1>10. CASE Jump
  BY <1>10, JumpInv
<1>11. ASSUME NEW b \in BOOLEAN, SetInterruptsDisabled(b) PROVE Inv'
  BY <1>11, SetInterruptsDisabledInv
<1>12. ASSUME NEW b \in BOOLEAN, SetTimeslice(b) PROVE Inv'
  BY <1>12, SetTimesliceInv
<1>13. ASSUME NEW mask \in SUBSET Enable, NEW b \in BOOLEAN, SetGlobalEnables(mask, b)
       PROVE  Inv'
  BY <1>13, SetGlobalEnablesInv
<1>14. ASSUME NEW s \in Sem, Wait(s) PROVE Inv'
  BY <1>14, WaitInv
<1>15. ASSUME NEW s \in Sem, Signal(s) PROVE Inv'
  BY <1>15, SignalInv
<1>16. ASSUME NEW p \in Priority, SwapQueue(p) PROVE Inv'
  BY <1>16, SwapQueueInv
<1>17. ASSUME NEW p \in Priority, InsertQueue(p) PROVE Inv'
  BY <1>17, InsertQueueInv
<1>18. CASE UNCHANGED vars
  BY <1>18, StutterInv
<1>19. QED
  BY <1>1, <1>2, <1>3, <1>4, <1>5, <1>6, <1>7, <1>8, <1>9, <1>10, <1>11, <1>12,
     <1>13, <1>14, <1>15, <1>16, <1>17, <1>18 DEF Next

\* The invariant of the scheduler: every process is in one place, every list is
\* what its history says, and the banks fit together, in every reachable state.
THEOREM InvCorrect == Spec => []Inv
<1>1. Init => Inv
  BY InitInv
<1>2. Inv /\ [Next]_vars => Inv'
  BY NextInv
<1>3. QED
  BY <1>1, <1>2, PTL DEF Spec

-------------------------------------------------------------------------------
(* What the invariant implies *)

\* Every variable keeps its type, whatever the workspaces and semaphores.
THEOREM TypeCorrect == Spec => []TypeOK
<1>1. Inv => TypeOK
  BY InvTypes DEF Inv, TypeOK, LinkType, SemType, SemEnd, EnablesType
<1>2. QED
  BY <1>1, InvCorrect, PTL

\* Whatever mixture of enqueues, dispatches, splices and semaphore operations
\* runs, the ready lists in memory are the processes queued, in their order.
THEOREM ReadyListsCorrect == Spec => []ReadyListsInOrder
<1>1. Inv => ReadyListsInOrder
  <2>1. SUFFICES ASSUME Inv PROVE ReadyListsInOrder
    OBVIOUS
  <2>2. LinkedReady(Ready) /\ LinkedChain(Ready, Rest)
    BY <2>1 DEF Inv, Settled, Consistent
  <2>3. QED
    BY <2>2 DEF LinkedReady, LinkedChain, Ready, Rest, ReadyListsInOrder
<1>2. QED
  BY <1>1, InvCorrect, PTL

\* The same for the waiters of every semaphore, which share the link words.
THEOREM WaitersCorrect == Spec => []WaitersInOrder
<1>1. Inv => WaitersInOrder
  <2>1. SUFFICES ASSUME Inv PROVE WaitersInOrder
    OBVIOUS
  <2>2. LinkedSems(Ready, Rest)
    BY <2>1 DEF Inv, Settled, Consistent
  <2>3. QED
    BY <2>2 DEF LinkedSems, Ready, Rest, WaitersInOrder
<1>2. QED
  BY <1>1, InvCorrect, PTL

\* The place function tells what Held tells.
LEMMA HeldIffPlaced ==
  ASSUME NEW f, Consistent(f, cpu, shadow, Ready, Rest), ShadowUnderRunning,
         NEW w \in Proc, NEW place \in Place
  PROVE  w \in Held(place) <=> f[w] = place
<1>1. /\ OwnedBanks(f, cpu, shadow) /\ OwnedReady(f, Ready) /\ OwnedChain(f, Rest)
      /\ OwnedSems(f, Rest) /\ OwnedSets(f, Rest)
  BY DEF Consistent
<1>2. CASE place = Parked
  <2>1. Held(place) = parked
    BY <1>2 DEF Held, Parked
  <2>2. QED
    BY <1>1, <1>2, <2>1 DEF OwnedSets, Rest
<1>3. CASE place = Running
  <2>1. Held(place) = {v \in Proc : cpu.running /\ cpu.wptr = v}
    BY <1>3 DEF Held, Running
  <2>2. QED
    BY <1>1, <1>3, <2>1 DEF OwnedBanks
<1>4. CASE place = Preempted
  <2>1. Held(place) = {v \in Proc : shadow # NoShadow /\ shadow.wptr = v}
    BY <1>4 DEF Held, Preempted
  <2>2. QED
    BY <1>1, <1>4, <2>1 DEF OwnedBanks
<1>5. CASE place = Asleep
  <2>1. Held(place) = {d.wptr : d \in asleep}
    BY <1>5 DEF Held, Asleep
  <2>2. QED
    BY <1>1, <1>5, <2>1 DEF OwnedSets, Rest
<1>6. CASE place = Chain
  <2>1. Held(place) = {chainOrder[i] : i \in 1 .. Len(chainOrder)}
    BY <1>6 DEF Held, Chain
  <2>2. QED
    BY <1>1, <1>6, <2>1 DEF OwnedChain, Holds, Rest
<1>7. ASSUME NEW p \in Priority, place = ReadyAt(p)
      PROVE  w \in Held(place) <=> f[w] = place
  <2>1. Held(place) = {order[p][i] : i \in 1 .. Len(order[p])}
    BY <1>7 DEF Held, ReadyAt
  <2>2. f[w] = ReadyAt(p) <=> Holds(order[p], w)
    BY <1>1 DEF OwnedReady, Ready
  <2>3. QED
    BY <1>7, <2>1, <2>2 DEF Holds
<1>8. ASSUME NEW s \in Sem, place = WaitingAt(s)
      PROVE  w \in Held(place) <=> f[w] = place
  <2>1. Held(place) = {semOrder[s][i].wptr : i \in 1 .. Len(semOrder[s])}
    BY <1>8 DEF Held, WaitingAt
  <2>2. f[w] = WaitingAt(s) <=> HoldsWaiter(semOrder[s], w)
    BY <1>1 DEF OwnedSems, Rest
  <2>3. QED
    BY <1>8, <2>1, <2>2 DEF HoldsWaiter
<1>9. \/ place \in {Parked, Running, Preempted, Asleep, Chain}
      \/ \E p \in Priority : place = ReadyAt(p)
      \/ \E s \in Sem : place = WaitingAt(s)
  BY DEF Place, Parked, Running, Preempted, Asleep, Chain, ReadyAt, WaitingAt
<1>10. QED
  BY <1>2, <1>3, <1>4, <1>5, <1>6, <1>7, <1>8, <1>9

\* No process is lost or duplicated, for any number of processes.
THEOREM PlaceCorrect == Spec => []ExactlyOnePlace
<1>1. Inv => ExactlyOnePlace
  <2>1. SUFFICES ASSUME Inv PROVE ExactlyOnePlace
    OBVIOUS
  <2>2. PICK f \in [Proc -> Place] : Consistent(f, cpu, shadow, Ready, Rest)
    BY <2>1 DEF Inv, Settled
  <2>3. \A w \in Proc, place \in Place : w \in Held(place) <=> f[w] = place
    BY <2>1, <2>2, HeldIffPlaced DEF Inv
  <2>4. ASSUME NEW w \in Proc
        PROVE  \E place \in Place :
                 /\ w \in Held(place)
                 /\ \A other \in Place \ {place} : w \notin Held(other)
    <3>1. f[w] \in Place
      OBVIOUS
    <3>2. w \in Held(f[w])
      BY <2>3, <3>1
    <3>3. \A other \in Place \ {f[w]} : w \notin Held(other)
      BY <2>3
    <3>4. QED
      BY <3>1, <3>2, <3>3
  <2>5. /\ \A p \in Priority : NoRepeats(order[p])
        /\ NoRepeats(chainOrder)
    BY <2>2 DEF Consistent, LinkedReady, LinkedChain, Ready, Rest
  <2>6. \A s \in Sem : NoRepeatedWaiter(semOrder[s])
    BY <2>2 DEF Consistent, LinkedSems, Rest
  <2>7. \A d, e \in asleep : d.wptr = e.wptr => d = e
    BY <2>2 DEF Consistent, OwnedSets, Rest
  <2>8. QED
    BY <2>4, <2>5, <2>6, <2>7 DEF ExactlyOnePlace, NoRepeatedWaiter
<1>2. QED
  BY <1>1, InvCorrect, PTL

\* One shadow bank is enough, with any number of processes at each priority.
THEOREM ShadowCorrect == Spec => []ShadowIsInterrupted
BY InvShadow, InvCorrect, PTL

\* Between instructions the right process has the processor.
THEOREM RightProcessCorrect == Spec => []RightProcessRuns
<1>1. Inv => RightProcessRuns
  BY DEF Inv
<1>2. QED
  BY <1>1, InvCorrect, PTL

\* No semaphore, however many there are, keeps a count while a process waits.
THEOREM WakeupCorrect == Spec => []NoWaiterWithCount
<1>1. Inv => NoWaiterWithCount
  BY DEF Inv
<1>2. QED
  BY <1>1, InvCorrect, PTL

-------------------------------------------------------------------------------
(* The interrupted process *)

\* What a step may do while low priority is interrupted.
KeepsInterrupted ==
  shadow # NoShadow =>
    \/ /\ shadow' # NoShadow
       /\ shadow'.timeslicePeriods >= shadow.timeslicePeriods
       /\ shadow' = [shadow EXCEPT !.timeslicePeriods = shadow'.timeslicePeriods]
       /\ cpu'.priority = HIGH_PRIORITY
    \/ /\ shadow' = NoShadow
       /\ cpu' = shadow

\* A dispatch by a high priority process keeps the shadow bank or resumes it.
LEMMA DispatchKeepsInterrupted ==
  ASSUME Inv, NEW c, NEW q, Dispatch(c, q), c.priority = HIGH_PRIORITY
  PROVE  KeepsInterrupted
<1>1. SUFFICES ASSUME shadow # NoShadow
               PROVE  \/ shadow' = shadow /\ cpu'.priority = HIGH_PRIORITY
                      \/ shadow' = NoShadow /\ cpu' = shadow
  <2>1. shadow # NoShadow =>
          /\ shadow.timeslicePeriods >= shadow.timeslicePeriods
          /\ shadow = [shadow EXCEPT !.timeslicePeriods = shadow.timeslicePeriods]
    BY InvTypes DEF Context
  <2>2. QED
    BY <2>1 DEF KeepsInterrupted
<1>2. HIGH_PRIORITY # LOW_PRIORITY
  BY DEF HIGH_PRIORITY, LOW_PRIORITY
<1>3. ~Preempts(c, q)
  BY <1>2 DEF Preempts
<1>4. \A w, p : Fresh(w, p).priority = p
  BY DEF Fresh
<1>5. QED
  BY <1>1, <1>2, <1>3, <1>4 DEF Dispatch, Resumes

\* An instruction dispatches from a bank of the priority it ran at.
LEMMA InstructionDispatches ==
  ASSUME Inv, Next,
         \A ticks \in 0 .. 1 : ~BeginStep(ticks),
         \A d \in Descriptor : ~Release(d)
  PROVE  \E c, q : Dispatch(c, q) /\ c.priority = cpu.priority
<1>1. /\ Suspended(cpu).priority = cpu.priority
      /\ \A b : [cpu EXCEPT !.interruptsDisabled = b].priority = cpu.priority
      /\ \A b : [cpu EXCEPT !.timesliceEnable = b].priority = cpu.priority
  BY InvTypes DEF Suspended, Fresh, Context
<1>2. Rotate => \E c, q : Dispatch(c, q) /\ c.priority = cpu.priority
  BY <1>1 DEF Rotate
<1>3. CASE IdlePoll \/ Compute \/ StopP \/ Tin \/ Timeslice \/ Jump
  BY <1>1, <1>2, <1>3 DEF IdlePoll, Compute, StopP, Tin, Timeslice, Jump
<1>4. CASE \/ \E w \in Proc : StartP(w)
           \/ \E d \in Descriptor : RunP(d)
  BY <1>4 DEF StartP, RunP
<1>5. CASE \E b \in BOOLEAN : SetInterruptsDisabled(b)
  <2>1. PICK x : Dispatch([cpu EXCEPT !.interruptsDisabled = x], Ready)
    BY <1>5 DEF SetInterruptsDisabled
  <2>2. [cpu EXCEPT !.interruptsDisabled = x].priority = cpu.priority
    BY <1>1
  <2>3. QED
    BY <2>1, <2>2
<1>6. CASE \E b \in BOOLEAN : SetTimeslice(b)
  <2>1. PICK x : Dispatch([cpu EXCEPT !.timesliceEnable = x], Ready)
    BY <1>6 DEF SetTimeslice
  <2>2. [cpu EXCEPT !.timesliceEnable = x].priority = cpu.priority
    BY <1>1
  <2>3. QED
    BY <2>1, <2>2
<1>7. CASE \E mask \in SUBSET Enable, b \in BOOLEAN : SetGlobalEnables(mask, b)
  BY <1>7 DEF SetGlobalEnables
<1>8. CASE \E s \in Sem : Wait(s) \/ Signal(s)
  BY <1>1, <1>8 DEF Wait, Signal, TakeCount, JoinWaiters, AddCount, WakeWaiter
<1>9. CASE \E p \in Priority : SwapQueue(p) \/ InsertQueue(p)
  BY <1>9 DEF SwapQueue, InsertQueue
<1>10. QED
  BY <1>3, <1>4, <1>5, <1>6, <1>7, <1>8, <1>9 DEF Next

\* Nothing but its return ends an interruption, and the interrupted bank comes
\* back as it was, its quantum aside, before any other low priority process.
THEOREM InterruptedCorrect == Spec => InterruptedResumesFirst
<1>1. ASSUME Inv, [Next]_vars PROVE KeepsInterrupted \/ UNCHANGED vars
  <2>1. SUFFICES ASSUME Next, shadow # NoShadow PROVE KeepsInterrupted
    BY <1>1 DEF KeepsInterrupted
  <2>2. shadow \in Context /\ cpu.priority = HIGH_PRIORITY
    BY <1>1, <2>1, InvTypes, InvShadow DEF ShadowIsInterrupted
  <2>3. ASSUME NEW ticks \in 0 .. 1, BeginStep(ticks) PROVE KeepsInterrupted
    <3>1. shadow' = Aged(shadow, ticks) /\ cpu' = Aged(cpu, ticks)
      BY <2>1, <2>3 DEF BeginStep
    <3>2. cpu'.priority = HIGH_PRIORITY
      BY <1>1, <2>2, <3>1, InvTypes, AgedContext
    <3>3. shadow' # NoShadow
      BY <2>2, <3>1, AgedContext, SchedulerAssumption
    <3>4. QED
      BY <2>2, <3>1, <3>2, <3>3, AgedContext DEF KeepsInterrupted
  <2>4. ASSUME NEW d \in Descriptor, Release(d) PROVE KeepsInterrupted
    BY <2>2, <2>4 DEF Release, KeepsInterrupted, Context
  <2>5. CASE \E c, q : Dispatch(c, q) /\ c.priority = cpu.priority
    BY <1>1, <2>2, <2>5, DispatchKeepsInterrupted
  <2>6. QED
    BY <1>1, <2>1, <2>3, <2>4, <2>5, InstructionDispatches
<1>2. QED
  BY <1>1, InvCorrect, PTL DEF Spec, InterruptedResumesFirst, KeepsInterrupted

-----------------------------------------------------------------------------
(***************************************************************************)
(* The linked lists and register banks of the scheduler implement          *)
(* PriorityScheduler, for any number of workspaces and semaphores.  The    *)
(* heart is one lemma about dispatchProcess: from queues whose registers   *)
(* name the oldest process, it chooses as the abstract processor does.     *)
(* Around it, each instruction is one abstract action.                     *)
(***************************************************************************)
\* The process on the processor, for the bank c.
OnProcessor(c) == IF c.running THEN c.wptr ELSE NoProcess

InShadow == IF shadow = NoShadow THEN NoProcess ELSE shadow.wptr

\* What the abstract scheduler sees.
Seen == <<OnProcessor(cpu), cpu.priority, InShadow, order, chainOrder>>

\* The front register of each queue names its oldest process.
Faithful(q) ==
  /\ q.order \in [Priority -> Seq(Proc)]
  /\ \A p \in Priority :
       q.fptr[p] = IF q.order[p] = <<>> THEN NoProcess ELSE Head(q.order[p])

------------------------------------------------------------------------------
\* A list the invariant vouches for is faithful.
LEMMA ListFront ==
  ASSUME NEW lk, NEW front, NEW back, NEW ws \in Seq(Proc),
         Lists(lk, front, back, ws)
  PROVE  front = IF ws = <<>> THEN NoProcess ELSE Head(ws)
<1>1. ws # <<>> => Head(ws) = ws[1]
  BY HeadTailProperties
<1>2. QED
  BY <1>1 DEF Lists

\* The ready queues and the program's list are faithful between steps.
LEMMA InvFaithful ==
  ASSUME Inv
  PROVE  /\ Faithful(Ready)
         /\ chainOrder \in Seq(Proc)
         /\ chain.front = IF chainOrder = <<>> THEN NoProcess ELSE Head(chainOrder)
<1>1. PICK f \in [Proc -> Place] : Consistent(f, cpu, shadow, Ready, Rest)
  BY DEF Inv, Settled
<1>2. /\ order \in [Priority -> Seq(Proc)] /\ chainOrder \in Seq(Proc)
      /\ Ready.order = order
  BY InvTypes DEF Ready
<1>3. ASSUME NEW p \in Priority
      PROVE  Ready.fptr[p] = IF order[p] = <<>> THEN NoProcess ELSE Head(order[p])
  <2>1. Lists(Ready.link, Ready.fptr[p], Ready.bptr[p], order[p])
    BY <1>1, <1>2 DEF Consistent, LinkedReady
  <2>2. order[p] \in Seq(Proc)
    BY <1>2
  <2>3. QED
    BY <2>1, <2>2, ListFront
<1>4. Lists(link, chain.front, chain.back, chainOrder)
  BY <1>1 DEF Consistent, LinkedChain, Ready, Rest
<1>5. QED
  BY <1>2, <1>3, <1>4, ListFront DEF Faithful

\* enqueueProcess keeps a queue record faithful and appends to one queue.
LEMMA EnqueueFaithful ==
  ASSUME NEW q, Faithful(q), NEW w \in Proc, NEW p \in Priority,
         q.fptr \in [Priority -> Proc \union {NoProcess}]
  PROVE  /\ Faithful(Enqueue(q, w, p))
         /\ Enqueue(q, w, p).order = [q.order EXCEPT ![p] = Append(@, w)]
<1> DEFINE e == Enqueue(q, w, p)
<1>1. /\ e.fptr = [q.fptr EXCEPT ![p] = IF @ = NoProcess THEN w ELSE @]
      /\ e.order = [q.order EXCEPT ![p] = Append(@, w)]
  BY DEF Enqueue
<1>2. q.order \in [Priority -> Seq(Proc)]
  BY DEF Faithful
<1>3. /\ Append(q.order[p], w) \in Seq(Proc) /\ Append(q.order[p], w) # <<>>
      /\ q.order[p] = <<>> => Head(Append(q.order[p], w)) = w
      /\ q.order[p] # <<>> => Head(Append(q.order[p], w)) = Head(q.order[p])
  <2>1. q.order[p] \in Seq(Proc)
    BY <1>2
  <2>2. QED
    BY <2>1, AppendProperties
<1>4. q.order[p] # <<>> => Head(q.order[p]) # NoProcess
  <2>1. q.order[p] # <<>> => Head(q.order[p]) \in Proc
    BY <1>2, HeadTailProperties
  <2>2. QED
    BY <2>1, SchedulerAssumption
<1>5. q.fptr[p] = IF q.order[p] = <<>> THEN NoProcess ELSE Head(q.order[p])
  BY DEF Faithful
<1>6. e.order \in [Priority -> Seq(Proc)] /\ e.order[p] = Append(q.order[p], w)
  BY <1>1, <1>2, <1>3
<1>7. e.fptr[p] = Head(e.order[p])
  BY <1>1, <1>3, <1>4, <1>5, <1>6
<1>8. \A o \in Priority \ {p} :
        e.fptr[o] = IF e.order[o] = <<>> THEN NoProcess ELSE Head(e.order[o])
  BY <1>1, <1>2 DEF Faithful
<1> HIDE DEF e
<1>9. Faithful(e)
  BY <1>3, <1>6, <1>7, <1>8 DEF Faithful
<1>10. QED
  BY <1>1, <1>9 DEF e

\* dispatchProcess is the choice of the abstract processor.
LEMMA DispatchSimulates ==
  ASSUME Inv, NEW c \in Context, NEW q, Faithful(q), Dispatch(c, q),
         c.priority = cpu.priority
  PROVE  Abstract!Choose(OnProcessor(c), q.order)
<1>1. /\ Priority = {HIGH_PRIORITY, LOW_PRIORITY} /\ HIGH_PRIORITY # LOW_PRIORITY
      /\ c.priority \in Priority /\ c.wptr \in Proc
      /\ Abstract!High = HIGH_PRIORITY /\ Abstract!Low = LOW_PRIORITY
      /\ Abstract!Priority = Priority
  BY DEF Priority, HIGH_PRIORITY, LOW_PRIORITY, Context, Abstract!High,
         Abstract!Low, Abstract!Priority
<1>2. /\ shadow # NoShadow => /\ shadow.wptr \in Proc /\ shadow.running
                              /\ shadow.priority = LOW_PRIORITY
      /\ c # NoShadow
  BY InvTypes, InvShadow, SchedulerAssumption DEF ShadowIsInterrupted, Context
<1>3. \A w \in Proc : w # NoProcess
  BY SchedulerAssumption
<1>4. /\ q.order \in [Priority -> Seq(Proc)]
      /\ \A p \in Priority :
           /\ q.order[p] = <<>> <=> q.fptr[p] = NoProcess
           /\ q.fptr[p] # NoProcess => q.fptr[p] = Head(q.order[p])
  <2>1. \A p \in Priority : q.order[p] # <<>> => Head(q.order[p]) \in Proc
    BY HeadTailProperties DEF Faithful
  <2>2. QED
    BY <1>3, <2>1 DEF Faithful
<1>5. \A w, p : /\ Fresh(w, p).running /\ Fresh(w, p).priority = p
                /\ Fresh(w, p).wptr = w
  BY DEF Fresh
<1>6. \A p : Dequeue(q, p).order = [q.order EXCEPT ![p] = Tail(@)]
  BY DEF Dequeue
<1>7. \A x : SetReady(x) => order' = x.order
  BY DEF SetReady
<1>8. CASE /\ c.running /\ ~Preempts(c, q)
           /\ cpu' = c /\ SetReady(q) /\ UNCHANGED shadow
  <2>1. /\ OnProcessor(c) # NoProcess /\ OnProcessor(cpu') = OnProcessor(c)
        /\ cpu'.priority = cpu.priority /\ InShadow' = InShadow /\ order' = q.order
    BY <1>1, <1>3, <1>7, <1>8 DEF OnProcessor, InShadow
  <2>2. QED
    BY <1>1, <2>1 DEF Abstract!Choose, OnProcessor, InShadow
<1>9. CASE /\ c.running /\ Preempts(c, q)
           /\ cpu' = Fresh(q.fptr[HIGH_PRIORITY], HIGH_PRIORITY)
           /\ shadow' = c
           /\ SetReady(Dequeue(q, HIGH_PRIORITY))
  <2>1. cpu.priority = LOW_PRIORITY /\ q.fptr[HIGH_PRIORITY] # NoProcess
    BY <1>9 DEF Preempts
  <2>2. /\ OnProcessor(c) # NoProcess
        /\ cpu'.priority = HIGH_PRIORITY /\ InShadow' = OnProcessor(c)
    BY <1>1, <1>2, <1>3, <1>5, <1>9 DEF OnProcessor, InShadow
  <2>3. order' = [q.order EXCEPT ![HIGH_PRIORITY] = Tail(@)]
    BY <1>6, <1>7, <1>9
  <2>4. /\ OnProcessor(cpu') = Head(q.order[HIGH_PRIORITY])
        /\ q.order[HIGH_PRIORITY] # <<>>
    <3>1. OnProcessor(cpu') = q.fptr[HIGH_PRIORITY]
      BY <1>5, <1>9 DEF OnProcessor
    <3>2. QED
      BY <1>1, <1>4, <2>1, <3>1
  <2>5. QED
    BY <1>1, <2>1, <2>2, <2>3, <2>4 DEF Abstract!Choose, OnProcessor, InShadow
<1>10. CASE /\ ~c.running /\ Resumes(q)
            /\ cpu' = shadow /\ shadow' = NoShadow /\ SetReady(q)
  <2>1. /\ OnProcessor(c) = NoProcess
        /\ InShadow # NoProcess /\ OnProcessor(cpu') = InShadow
        /\ cpu'.priority = LOW_PRIORITY /\ InShadow' = NoProcess
        /\ order' = q.order /\ q.order[HIGH_PRIORITY] = <<>>
    BY <1>1, <1>2, <1>3, <1>4, <1>7, <1>10 DEF OnProcessor, InShadow, Resumes
  <2>2. QED
    BY <1>1, <2>1 DEF Abstract!Choose, OnProcessor, InShadow
<1>11. ASSUME NEW p \in Priority, ~c.running, ~Resumes(q),
              q.fptr[p] # NoProcess,
              p = LOW_PRIORITY => q.fptr[HIGH_PRIORITY] = NoProcess,
              cpu' = Fresh(q.fptr[p], p), SetReady(Dequeue(q, p)),
              UNCHANGED shadow
       PROVE  Abstract!Choose(OnProcessor(c), q.order)
  <2>1. /\ OnProcessor(c) = NoProcess
        /\ OnProcessor(cpu') = Head(q.order[p]) /\ cpu'.priority = p
        /\ InShadow' = InShadow
        /\ order' = [q.order EXCEPT ![p] = Tail(@)] /\ q.order[p] # <<>>
    <3>1. OnProcessor(c) = NoProcess /\ InShadow' = InShadow
      BY <1>11 DEF OnProcessor, InShadow
    <3>2. OnProcessor(cpu') = q.fptr[p] /\ cpu'.priority = p
      BY <1>5, <1>11 DEF OnProcessor
    <3>3. order' = [q.order EXCEPT ![p] = Tail(@)]
      BY <1>6, <1>7, <1>11
    <3>4. q.fptr[p] = Head(q.order[p]) /\ q.order[p] # <<>>
      BY <1>4, <1>11
    <3>5. QED
      BY <3>1, <3>2, <3>3, <3>4
  <2>2. CASE p = HIGH_PRIORITY
    BY <1>1, <2>1, <2>2 DEF Abstract!Choose, OnProcessor, InShadow
  <2>3. CASE p = LOW_PRIORITY
    <3>1. InShadow = NoProcess /\ q.order[HIGH_PRIORITY] = <<>>
      BY <1>1, <1>4, <1>11, <2>3 DEF Resumes, InShadow
    <3>2. QED
      BY <1>1, <2>1, <2>3, <3>1 DEF Abstract!Choose, OnProcessor, InShadow
  <2>4. QED
    BY <1>1, <2>2, <2>3
<1>12. CASE /\ ~c.running /\ shadow = NoShadow
            /\ \A p \in Priority : q.fptr[p] = NoProcess
            /\ cpu' = c /\ SetReady(q) /\ UNCHANGED shadow
  <2>1. q.order = [p \in Priority |-> <<>>]
    BY <1>4, <1>12
  <2>2. /\ OnProcessor(c) = NoProcess /\ OnProcessor(cpu') = NoProcess
        /\ cpu'.priority = cpu.priority
        /\ InShadow = NoProcess /\ InShadow' = InShadow /\ order' = q.order
    BY <1>7, <1>12 DEF OnProcessor, InShadow
  <2>3. QED
    BY <1>1, <2>1, <2>2 DEF Abstract!Choose, OnProcessor, InShadow
<1>13. QED
  <2>1. CASE c.running
    BY <1>8, <1>9, <2>1 DEF Dispatch
  <2>2. CASE ~c.running /\ Resumes(q)
    BY <1>10, <2>2 DEF Dispatch
  <2>3. CASE ~c.running /\ ~Resumes(q) /\ q.fptr[HIGH_PRIORITY] # NoProcess
    BY <1>1, <1>11, <2>3 DEF Dispatch
  <2>4. CASE /\ ~c.running /\ ~Resumes(q) /\ q.fptr[HIGH_PRIORITY] = NoProcess
             /\ q.fptr[LOW_PRIORITY] # NoProcess
    BY <1>1, <1>11, <2>4 DEF Dispatch
  <2>5. CASE /\ ~c.running /\ ~Resumes(q) /\ q.fptr[HIGH_PRIORITY] = NoProcess
             /\ q.fptr[LOW_PRIORITY] = NoProcess
    <3>1. shadow = NoShadow /\ \A p \in Priority : q.fptr[p] = NoProcess
      BY <1>1, <2>5 DEF Resumes
    <3>2. QED
      BY <1>12, <2>5, <3>1 DEF Dispatch
  <2>6. QED
    BY <2>1, <2>2, <2>3, <2>4, <2>5
------------------------------------------------------------------------------
(* Instructions *)

\* A process the scheduler knows to be neither running, interrupted, queued
\* nor on the program's list is blocked.
LEMMA PlacedElsewhere ==
  ASSUME NEW f \in [Proc -> Place], Consistent(f, cpu, shadow, Ready, Rest),
         NEW w \in Proc, f[w] \notin {Running, Preempted, Chain},
         \A p \in Priority : f[w] # ReadyAt(p)
  PROVE  w \in Abstract!Blocked
<1>1. w # NoProcess
  BY SchedulerAssumption
<1>2. w # OnProcessor(cpu) /\ w # InShadow
  BY <1>1 DEF Consistent, OwnedBanks, OnProcessor, InShadow
<1>3. \A p \in Priority : w \notin Abstract!InQueue(p)
  BY DEF Consistent, OwnedReady, Holds, Ready, Abstract!InQueue
<1>4. \A i \in 1 .. Len(chainOrder) : chainOrder[i] # w
  BY DEF Consistent, OwnedChain, Holds, Rest
<1>5. Abstract!Priority = Priority
  BY DEF Abstract!Priority, Priority, Abstract!High, Abstract!Low,
         HIGH_PRIORITY, LOW_PRIORITY
<1>6. QED
  BY <1>2, <1>3, <1>4, <1>5 DEF Abstract!Blocked, OnProcessor, InShadow

\* The processes that startp, runp, a timer or a signal make ready.
LEMMA BlockedProcesses ==
  ASSUME Inv
  PROVE  /\ \A w \in parked : w \in Abstract!Blocked
         /\ \A d \in asleep : d.wptr \in Abstract!Blocked
         /\ \A s \in Sem : semaphore[s].front # NoProcess =>
              /\ semaphore[s].front \in Descriptor
              /\ semaphore[s].front.wptr \in Abstract!Blocked
<1>1. PICK f \in [Proc -> Place] : Consistent(f, cpu, shadow, Ready, Rest)
  BY DEF Inv, Settled
<1>2. ASSUME NEW w \in parked PROVE w \in Abstract!Blocked
  <2>1. w \in Proc /\ f[w] = Parked
    BY <1>1, InvTypes DEF Consistent, OwnedSets, Rest
  <2>2. QED
    BY <1>1, <2>1, Places, PlacedElsewhere
<1>3. ASSUME NEW d \in asleep PROVE d.wptr \in Abstract!Blocked
  <2>1. d.wptr \in Proc
    BY InvTypes DEF Descriptor
  <2>2. f[d.wptr] = Asleep
    BY <1>1, <2>1 DEF Consistent, OwnedSets, Rest
  <2>3. QED
    BY <1>1, <2>1, <2>2, Places, PlacedElsewhere
<1>4. ASSUME NEW s \in Sem, semaphore[s].front # NoProcess
      PROVE  /\ semaphore[s].front \in Descriptor
             /\ semaphore[s].front.wptr \in Abstract!Blocked
  <2>1. /\ ListsWaiters(link, semaphore[s].front, semaphore[s].back, semOrder[s])
        /\ semOrder[s] \in Seq(Descriptor)
    BY <1>1, InvTypes DEF Consistent, LinkedSems, Ready, Rest
  <2>2. /\ Len(semOrder[s]) >= 1 /\ semaphore[s].front = semOrder[s][1]
        /\ semaphore[s].front \in Descriptor
    BY <1>4, <2>1, ListsWaitersEmpty
  <2> DEFINE w == semaphore[s].front.wptr
  <2>3. w \in Proc
    BY <2>2 DEF Descriptor
  <2>4. HoldsWaiter(semOrder[s], w)
    BY <2>1, <2>2, LenProperties DEF HoldsWaiter
  <2>5. f[w] = WaitingAt(s)
    BY <1>1, <2>3, <2>4 DEF Consistent, OwnedSems, Rest
  <2>6. QED
    BY <1>1, <2>2, <2>3, <2>5, Places, PlacedElsewhere
<1>5. QED
  BY <1>2, <1>3, <1>4

\* The abstract scheduler has the same two priorities.
LEMMA SamePriorities ==
  /\ Abstract!Priority = Priority
  /\ Abstract!High = HIGH_PRIORITY /\ Abstract!Low = LOW_PRIORITY
BY DEF Abstract!Priority, Priority, Abstract!High, Abstract!Low,
       HIGH_PRIORITY, LOW_PRIORITY

\* An instruction that leaves the queues alone.
LEMMA ContinueSimulates ==
  ASSUME Inv, NEW c \in Context, c.wptr = cpu.wptr, c.priority = cpu.priority,
         c.running <=> cpu.running, Dispatch(c, Ready), chainOrder' = chainOrder
  PROVE  Abstract!Continue
<1>1. OnProcessor(c) = OnProcessor(cpu) /\ Ready.order = order
  BY DEF OnProcessor, Ready
<1>2. Abstract!Choose(OnProcessor(c), Ready.order)
  BY InvFaithful, DispatchSimulates
<1>3. QED
  BY <1>1, <1>2 DEF Abstract!Continue, OnProcessor

\* An instruction that makes a blocked process ready.
LEMMA MakeReadySimulates ==
  ASSUME Inv, cpu.running, NEW w \in Proc, w \in Abstract!Blocked,
         NEW p \in Priority,
         Dispatch(cpu, Enqueue(Ready, w, p)), chainOrder' = chainOrder
  PROVE  Abstract!MakeReady(w, p)
<1> DEFINE q == Enqueue(Ready, w, p)
<1>1. /\ Ready.fptr \in [Priority -> Proc \union {NoProcess}]
      /\ Ready.order = order /\ Faithful(Ready)
  BY InvTypes, InvFaithful DEF Ready
<1>2. Faithful(q) /\ q.order = [order EXCEPT ![p] = Append(@, w)]
  <2>1. Faithful(q) /\ q.order = [Ready.order EXCEPT ![p] = Append(@, w)]
    BY ZenonT(40), <1>1, EnqueueFaithful
  <2>2. QED
    BY <1>1, <2>1
<1>3. Dispatch(cpu, q)
  OBVIOUS
<1> HIDE DEF q
<1>4. Abstract!Choose(OnProcessor(cpu), q.order)
  BY <1>2, <1>3, InvTypes, DispatchSimulates
<1>5. OnProcessor(cpu) # NoProcess
  BY InvTypes, SchedulerAssumption DEF OnProcessor
<1>6. QED
  BY <1>2, <1>4, <1>5 DEF Abstract!MakeReady, OnProcessor

\* What a descheduled bank keeps.
LEMMA SuspendedBank ==
  ASSUME Inv
  PROVE  /\ Suspended(cpu) \in Context
         /\ Suspended(cpu).priority = cpu.priority
         /\ OnProcessor(Suspended(cpu)) = NoProcess
<1> DEFINE c == Suspended(cpu)
<1> DEFINE d == Fresh(cpu.wptr, cpu.priority)
<1>1. d \in Context /\ d.priority = cpu.priority
  BY InvTypes DEF Context, Fresh
<1>2. c = [d EXCEPT !.running = FALSE]
  BY DEF Suspended
<1> HIDE DEF c, d
<1>3. c \in Context /\ c.priority = cpu.priority /\ ~c.running
  BY <1>1, <1>2 DEF Context
<1>4. QED
  BY <1>3 DEF OnProcessor, c

\* An instruction that blocks or ends its process.
LEMMA LeaveSimulates ==
  ASSUME Inv, cpu.running, NEW q, q.fptr = fptr, q.order = order,
         Dispatch(Suspended(cpu), q), chainOrder' = chainOrder
  PROVE  Abstract!Leave
<1>1. Faithful(q)
  BY InvFaithful DEF Faithful, Ready
<1>2. Abstract!Choose(NoProcess, order)
  BY <1>1, SuspendedBank, DispatchSimulates
<1>3. OnProcessor(cpu) # NoProcess
  BY InvTypes, SchedulerAssumption DEF OnProcessor
<1>4. QED
  BY <1>2, <1>3 DEF Abstract!Leave, OnProcessor

\* A rotation is a yield, or nothing when no process of that priority is ready.
LEMMA RotateSimulates ==
  ASSUME Inv, cpu.running, Rotate, chainOrder' = chainOrder
  PROVE  Abstract!Continue \/ Abstract!Yield
<1>1. CASE Dispatch(cpu, Ready)
  BY <1>1, InvTypes, ContinueSimulates
<1>2. CASE Dispatch(Suspended(cpu), Enqueue(Ready, cpu.wptr, cpu.priority))
  <2> DEFINE w == cpu.wptr
             p == cpu.priority
             q == Enqueue(Ready, w, p)
  <2>1. /\ Ready.fptr \in [Priority -> Proc \union {NoProcess}]
        /\ Ready.order = order /\ Faithful(Ready)
        /\ w \in Proc /\ p \in Priority
    BY InvTypes, InvFaithful DEF Ready
  <2> HIDE DEF w, p
  <2>2. Faithful(q) /\ q.order = [order EXCEPT ![p] = Append(@, w)]
    <3>1. Faithful(q) /\ q.order = [Ready.order EXCEPT ![p] = Append(@, w)]
      BY <2>1, EnqueueFaithful
    <3>2. QED
      BY <2>1, <3>1
  <2>3. Dispatch(Suspended(cpu), q)
    BY <1>2 DEF w, p
  <2> HIDE DEF q
  <2>4. Abstract!Choose(NoProcess, q.order)
    BY <2>2, <2>3, SuspendedBank, DispatchSimulates
  <2>5. cpu.wptr # NoProcess
    BY InvTypes, SchedulerAssumption
  <2>6. QED
    BY <2>2, <2>4, <2>5 DEF Abstract!Yield, w, p
<1>3. QED
  BY <1>1, <1>2 DEF Rotate

\* waitSemaphore takes a count or blocks the caller.
LEMMA WaitSimulates ==
  ASSUME Inv, NEW s \in Sem, Wait(s)
  PROVE  Abstract!Continue \/ Abstract!Leave
<1>1. cpu.running /\ chainOrder' = chainOrder
  BY DEF Wait, Executing
<1>2. CASE TakeCount(s)
  BY <1>1, <1>2, InvTypes, ContinueSimulates DEF TakeCount
<1>3. CASE JoinWaiters(s)
  <2> DEFINE q == [Ready EXCEPT !.link = WaiterLinks(s)]
  <2>1. q.fptr = fptr /\ q.order = order /\ Dispatch(Suspended(cpu), q)
    BY <1>3 DEF Ready, JoinWaiters
  <2> HIDE DEF q
  <2>2. QED
    BY <1>1, <2>1, LeaveSimulates
<1>4. QED
  BY <1>2, <1>3 DEF Wait

\* signalSemaphore adds a count or makes the longest waiter ready.
LEMMA SignalSimulates ==
  ASSUME Inv, NEW s \in Sem, Signal(s)
  PROVE  Abstract!Next
<1>1. cpu.running /\ chainOrder' = chainOrder
  BY DEF Signal, Executing
<1>2. CASE AddCount(s)
  <2>1. Abstract!Continue
    BY <1>1, <1>2, InvTypes, ContinueSimulates DEF AddCount
  <2>2. QED
    BY <2>1 DEF Abstract!Next
<1>3. CASE WakeWaiter(s)
  <2> DEFINE d == semaphore[s].front
  <2>1. d # NoProcess /\ Dispatch(cpu, Enqueue(Ready, d.wptr, d.priority))
    BY <1>3 DEF WakeWaiter
  <2>2. d \in Descriptor /\ d.wptr \in Abstract!Blocked
    BY <2>1, BlockedProcesses
  <2> HIDE DEF d
  <2>3. d.wptr \in Proc /\ d.priority \in Priority
    BY <2>2 DEF Descriptor
  <2>4. Abstract!MakeReady(d.wptr, d.priority)
    BY <1>1, <2>1, <2>2, <2>3, MakeReadySimulates
  <2>5. QED
    BY <2>3, <2>4, SamePriorities DEF Abstract!Next
<1>4. QED
  BY <1>2, <1>3 DEF Signal

\* swapqueue exchanges a ready queue and the program's list.
LEMMA SwapQueueSimulates ==
  ASSUME Inv, NEW p \in Priority, SwapQueue(p)
  PROVE  Abstract!Exchange(p)
<1> DEFINE q == [fptr  |-> [fptr EXCEPT ![p] = chain.front],
                 bptr  |-> [bptr EXCEPT ![p] = chain.back],
                 link  |-> link,
                 order |-> [order EXCEPT ![p] = chainOrder]]
<1>1. Dispatch(cpu, q) /\ cpu.running /\ chainOrder' = order[p]
  BY DEF SwapQueue, Executing
<1>2. /\ q.fptr = [fptr EXCEPT ![p] = chain.front]
      /\ q.order = [order EXCEPT ![p] = chainOrder]
  OBVIOUS
<1> HIDE DEF q
<1>3. Faithful(q)
  <2>1. Faithful(Ready) /\ Ready.fptr = fptr /\ Ready.order = order
    BY InvFaithful DEF Ready
  <2>2. q.order \in [Priority -> Seq(Proc)]
    BY <1>2, InvTypes
  <2>3. q.order[p] = chainOrder /\ q.fptr[p] = chain.front
    BY <1>2, InvTypes
  <2>4. \A o \in Priority \ {p} : q.order[o] = order[o] /\ q.fptr[o] = fptr[o]
    BY <1>2, InvTypes
  <2>5. QED
    BY <2>1, <2>2, <2>3, <2>4, InvFaithful DEF Faithful
<1>4. Abstract!Choose(OnProcessor(cpu), q.order)
  BY <1>1, <1>3, InvTypes, DispatchSimulates
<1>5. OnProcessor(cpu) # NoProcess
  BY <1>1, InvTypes, SchedulerAssumption DEF OnProcessor
<1>6. QED
  BY <1>1, <1>2, <1>4, <1>5 DEF Abstract!Exchange, OnProcessor

\* The oldest of two lists put together is the oldest of the first.
LEMMA HeadConcat ==
  ASSUME NEW ws \in Seq(Proc), ws # <<>>, NEW vs \in Seq(Proc)
  PROVE  /\ ws \o vs \in Seq(Proc) /\ ws \o vs # <<>>
         /\ Head(ws \o vs) = Head(ws)
<1>1. /\ ws \o vs \in Seq(Proc) /\ Len(ws \o vs) = Len(ws) + Len(vs)
      /\ \A i \in 1 .. Len(ws) + Len(vs) :
           (ws \o vs)[i] = IF i <= Len(ws) THEN ws[i] ELSE vs[i - Len(ws)]
  BY ConcatProperties
<1>2. Len(ws) \in Nat /\ Len(ws) >= 1 /\ Len(vs) \in Nat
  BY EmptySeq, LenProperties
<1>3. ws \o vs # <<>>
  BY <1>1, <1>2, EmptySeq
<1>4. Head(ws) = ws[1] /\ Head(ws \o vs) = (ws \o vs)[1]
  BY <1>1, <1>3, HeadTailProperties
<1>5. (ws \o vs)[1] = ws[1]
  BY <1>1, <1>2
<1>6. QED
  BY <1>1, <1>3, <1>4, <1>5

\* insertReadyQueue puts the program's list in front of a queue.
LEMMA InsertQueueSimulates ==
  ASSUME Inv, NEW p \in Priority, InsertQueue(p)
  PROVE  Abstract!PutBack(p)
<1> DEFINE q == Spliced(p)
           joined == chainOrder \o order[p]
<1>1. Dispatch(cpu, q) /\ cpu.running /\ chainOrder' = <<>>
  BY DEF InsertQueue, Executing
<1>2. /\ q.fptr = [fptr EXCEPT ![p] = chain.front]
      /\ q.order = [order EXCEPT ![p] = joined]
  BY DEF Spliced
<1> HIDE DEF q
<1>3. chainOrder # <<>> /\ chain.front = Head(chainOrder)
  BY InvFaithful DEF InsertQueue
<1>4. /\ joined \in Seq(Proc) /\ joined # <<>> /\ Head(joined) = chain.front
  BY <1>3, InvTypes, HeadConcat
<1>5. joined = chainOrder \o order[p]
  OBVIOUS
<1> HIDE DEF joined
<1>6. Faithful(q)
  <2>1. Faithful(Ready) /\ Ready.fptr = fptr /\ Ready.order = order
    BY InvFaithful DEF Ready
  <2>2. q.order \in [Priority -> Seq(Proc)]
    BY <1>2, <1>4, InvTypes
  <2>3. q.order[p] = joined /\ q.fptr[p] = chain.front
    BY <1>2, InvTypes
  <2>4. \A o \in Priority \ {p} : q.order[o] = order[o] /\ q.fptr[o] = fptr[o]
    BY <1>2, InvTypes
  <2>5. QED
    BY <1>4, <2>1, <2>2, <2>3, <2>4 DEF Faithful
<1>7. Abstract!Choose(OnProcessor(cpu), q.order)
  BY <1>1, <1>6, InvTypes, DispatchSimulates
<1>8. OnProcessor(cpu) # NoProcess
  BY <1>1, InvTypes, SchedulerAssumption DEF OnProcessor
<1>9. q.order = [order EXCEPT ![p] = chainOrder \o @]
  BY <1>2, <1>5
<1>10. QED
  BY <1>1, <1>3, <1>7, <1>8, <1>9 DEF Abstract!PutBack, OnProcessor

\* An advance of the clocks is invisible to the abstract scheduler.
LEMMA BeginStepStutters ==
  ASSUME Inv, NEW ticks \in 0 .. 1, BeginStep(ticks)
  PROVE  UNCHANGED Seen
<1>1. /\ cpu' = Aged(cpu, ticks)
      /\ shadow' = IF shadow = NoShadow THEN shadow ELSE Aged(shadow, ticks)
      /\ order' = order /\ chainOrder' = chainOrder
  BY DEF BeginStep, history
<1>2. /\ cpu'.wptr = cpu.wptr /\ cpu'.priority = cpu.priority
      /\ cpu'.running = cpu.running
  BY <1>1, InvTypes, AgedContext
<1>3. InShadow' = InShadow
  <2>1. CASE shadow = NoShadow
    BY <1>1, <2>1 DEF InShadow
  <2>2. CASE shadow # NoShadow
    <3>1. /\ shadow' \in Context /\ shadow'.wptr = shadow.wptr
      BY <1>1, <2>2, InvTypes, AgedContext
    <3>2. shadow' # NoShadow
      BY <3>1, SchedulerAssumption
    <3>3. QED
      BY <2>2, <3>1, <3>2 DEF InShadow
  <2>3. QED
    BY <2>1, <2>2
<1>4. OnProcessor(cpu)' = OnProcessor(cpu)
  BY <1>2 DEF OnProcessor
<1>5. QED
  BY <1>1, <1>2, <1>3, <1>4 DEF Seen

\* releaseDueTimers lets a sleeper arrive.
LEMMA ReleaseSimulates ==
  ASSUME Inv, NEW d \in Descriptor, Release(d)
  PROVE  Abstract!Arrive(d.wptr, d.priority)
<1>1. order' = [order EXCEPT ![d.priority] = Append(@, d.wptr)]
  BY DEF Release, SetReady, Enqueue, Ready
<1>2. d.wptr \in Abstract!Blocked
  BY BlockedProcesses DEF Release
<1>3. UNCHANGED <<cpu, shadow, chainOrder>>
  BY DEF Release
<1>4. QED
  BY <1>1, <1>2, <1>3 DEF Abstract!Arrive

\* Instructions that set a register of the bank.
LEMMA SetBankSimulates ==
  ASSUME Inv, NEW b \in BOOLEAN,
         SetInterruptsDisabled(b) \/ SetTimeslice(b)
  PROVE  Abstract!Continue
<1>1. PICK c \in Context :
        /\ c.wptr = cpu.wptr /\ c.priority = cpu.priority
        /\ c.running <=> cpu.running
        /\ Dispatch(c, Ready) /\ chainOrder' = chainOrder
  <2>1. CASE SetInterruptsDisabled(b)
    <3> DEFINE c == [cpu EXCEPT !.interruptsDisabled =
                       IF cpu.priority = LOW_PRIORITY THEN b ELSE @]
    <3>1. /\ c \in Context /\ c.wptr = cpu.wptr /\ c.priority = cpu.priority
          /\ c.running <=> cpu.running
      BY InvTypes DEF Context
    <3>2. Dispatch(c, Ready) /\ chainOrder' = chainOrder
      BY <2>1 DEF SetInterruptsDisabled
    <3> HIDE DEF c
    <3>3. QED
      BY <3>1, <3>2
  <2>2. CASE SetTimeslice(b)
    <3> DEFINE c == [cpu EXCEPT !.timesliceEnable =
                       IF cpu.priority = LOW_PRIORITY THEN b ELSE @]
    <3>1. /\ c \in Context /\ c.wptr = cpu.wptr /\ c.priority = cpu.priority
          /\ c.running <=> cpu.running
      BY InvTypes DEF Context
    <3>2. Dispatch(c, Ready) /\ chainOrder' = chainOrder
      BY <2>2 DEF SetTimeslice
    <3> HIDE DEF c
    <3>3. QED
      BY <3>1, <3>2
  <2>3. QED
    BY <2>1, <2>2
<1>2. QED
  BY <1>1, ContinueSimulates

\* Every step is a step of PriorityScheduler or changes nothing there.
LEMMA StepSimulates ==
  ASSUME Inv, [Next]_vars
  PROVE  Abstract!Next \/ UNCHANGED Seen
<1>1. ASSUME NEW ticks \in 0 .. 1, BeginStep(ticks) PROVE UNCHANGED Seen
  BY <1>1, BeginStepStutters
<1>2. ASSUME NEW d \in Descriptor, Release(d) PROVE Abstract!Next
  <2>1. d.wptr \in Proc /\ d.priority \in Abstract!Priority
    BY SamePriorities DEF Descriptor
  <2>2. QED
    BY <1>2, <2>1, ReleaseSimulates DEF Abstract!Next
<1>3. CASE IdlePoll \/ Compute
  <2>1. Abstract!Continue
    BY <1>3, InvTypes, ContinueSimulates DEF IdlePoll, Compute
  <2>2. QED
    BY <2>1 DEF Abstract!Next
<1>4. ASSUME NEW w \in Proc, StartP(w) PROVE Abstract!Next
  <2>1. w \in Abstract!Blocked /\ cpu.priority \in Priority
    BY <1>4, BlockedProcesses, InvTypes DEF StartP
  <2>2. Abstract!MakeReady(w, cpu.priority)
    BY <1>4, <2>1, MakeReadySimulates DEF StartP, Executing
  <2>3. QED
    BY <2>1, <2>2, SamePriorities DEF Abstract!Next
<1>5. ASSUME NEW d \in Descriptor, RunP(d) PROVE Abstract!Next
  <2>1. /\ d.wptr \in Proc /\ d.wptr \in Abstract!Blocked
        /\ d.priority \in Priority
    BY <1>5, BlockedProcesses DEF RunP, Descriptor
  <2>2. Abstract!MakeReady(d.wptr, d.priority)
    BY <1>5, <2>1, MakeReadySimulates DEF RunP, Executing
  <2>3. QED
    BY <2>1, <2>2, SamePriorities DEF Abstract!Next
<1>6. CASE StopP \/ Tin
  <2>1. /\ Dispatch(Suspended(cpu), Ready) /\ cpu.running
        /\ chainOrder' = chainOrder
        /\ Ready.fptr = fptr /\ Ready.order = order
    BY <1>6 DEF StopP, Tin, Executing, Ready
  <2>2. QED
    BY <2>1, LeaveSimulates DEF Abstract!Next
<1>7. CASE Timeslice \/ Jump
  <2>1. cpu.running /\ chainOrder' = chainOrder /\ (Rotate \/ Dispatch(cpu, Ready))
    BY <1>7 DEF Timeslice, Jump, Executing
  <2>2. Abstract!Continue \/ Abstract!Yield
    BY <2>1, InvTypes, RotateSimulates, ContinueSimulates
  <2>3. QED
    BY <2>2 DEF Abstract!Next
<1>8. ASSUME NEW b \in BOOLEAN, SetInterruptsDisabled(b) \/ SetTimeslice(b)
      PROVE  Abstract!Next
  BY <1>8, SetBankSimulates DEF Abstract!Next
<1>9. ASSUME NEW mask \in SUBSET Enable, NEW b \in BOOLEAN, SetGlobalEnables(mask, b)
      PROVE  Abstract!Next
  <2>1. Abstract!Continue
    BY <1>9, InvTypes, ContinueSimulates DEF SetGlobalEnables
  <2>2. QED
    BY <2>1 DEF Abstract!Next
<1>10. ASSUME NEW s \in Sem, Wait(s) \/ Signal(s) PROVE Abstract!Next
  BY <1>10, WaitSimulates, SignalSimulates DEF Abstract!Next
<1>11. ASSUME NEW p \in Priority, SwapQueue(p) \/ InsertQueue(p)
       PROVE  Abstract!Next
  BY <1>11, SwapQueueSimulates, InsertQueueSimulates, SamePriorities
     DEF Abstract!Next
<1>12. CASE UNCHANGED vars
  BY <1>12 DEF vars, Seen, OnProcessor, InShadow
<1>13. QED
  BY <1>1, <1>2, <1>3, <1>4, <1>5, <1>6, <1>7, <1>8, <1>9, <1>10, <1>11,
     <1>12 DEF Next

\* The scheduler of the source is two first-in first-out queues with
\* preemption, for any number of processes: what dispatchProcess takes off the
\* linked lists is what was queued first at the priority whose turn it is.
THEOREM SchedulerImplementsQueues == Spec => ImplementsPriorityScheduler
<1>1. Init => Abstract!Init
  BY SchedulerAssumption, SamePriorities
     DEF Init, InitWith, Fresh, Abstract!Init
<1>2. Inv /\ [Next]_vars => [Abstract!Next]_(Abstract!vars)
  BY StepSimulates DEF Abstract!vars, Seen, OnProcessor, InShadow
<1>3. QED
  BY <1>1, <1>2, InvCorrect, PTL
     DEF Spec, ImplementsPriorityScheduler, Abstract!Spec
==============================================================================
