------------------------- MODULE WorkerThreadsProofs -------------------------
(***************************************************************************)
(* Every request that waits has exactly one job, for any set of requests   *)
(* and any finite pool.  The invariant behind it does not count: it says   *)
(* where the one job of a request is, and counting comes last.             *)
(***************************************************************************)
EXTENDS WorkerThreads, SequenceTheorems, FiniteSetTheorems, TLAPS

(* Whether r has no job, or only a job s, in a queue q or in threads run.  *)
NotQueued(q, r) == \A i \in 1 .. Len(q) : q[i].req # r
QueuedOnce(q, r, s) ==
    \E i \in 1 .. Len(q) :
        /\ q[i] = Job(r, s)
        /\ \A k \in 1 .. Len(q) : q[k].req = r => k = i
NotHeld(run, r) == \A t \in Threads : run[t].req # r
HeldOnce(run, r, s) ==
    \E t \in Threads :
        /\ run[t] = Job(r, s)
        /\ \A u \in Threads : run[u].req = r => u = t

Typed ==
    /\ stage \in [Requests -> Stages \cup {"idle"}]
    /\ eligible \in [Requests -> BOOLEAN]
    /\ queue \in Seq(Jobs)
    /\ running \in [Threads -> Jobs \cup {NoJob, Orphan}]
    /\ posted \in [Requests -> BOOLEAN]

Nowhere(r) ==
    stage[r] = "idle" /\ NotQueued(queue, r) /\ NotHeld(running, r) /\ ~posted[r]
OnlyQueued(r) ==
    stage[r] # "idle" /\ QueuedOnce(queue, r, stage[r]) /\ NotHeld(running, r) /\ ~posted[r]
OnlyHeld(r) ==
    stage[r] # "idle" /\ NotQueued(queue, r) /\ HeldOnce(running, r, stage[r]) /\ ~posted[r]
OnlyPosted(r) ==
    stage[r] # "idle" /\ NotQueued(queue, r) /\ NotHeld(running, r) /\ posted[r]

InOnePlace(r) == Nowhere(r) \/ OnlyQueued(r) \/ OnlyHeld(r) \/ OnlyPosted(r)

IInv == Typed /\ \A r \in Requests : InOnePlace(r)

-----------------------------------------------------------------------------
(* What each operation on the queue does to the jobs in it.                *)

LEMMA JobFields ==
    ASSUME NEW r, NEW s
    PROVE  /\ Job(r, s).req = r
           /\ Job(r, s).stage = s
           /\ r \in Requests /\ s \in Stages => Job(r, s) \in Jobs
BY DEF Job, Jobs

(* A job submitted joins the others.                                       *)
LEMMA QueueAppend ==
    ASSUME NEW q \in Seq(Jobs), NEW r \in Requests, NEW s \in Stages
    PROVE  /\ Append(q, Job(r, s)) \in Seq(Jobs)
           /\ NotQueued(q, r) => QueuedOnce(Append(q, Job(r, s)), r, s)
           /\ \A o \in Requests \ {r} :
                 NotQueued(q, o) => NotQueued(Append(q, Job(r, s)), o)
           /\ \A o \in Requests \ {r}, z \in Stages :
                 QueuedOnce(q, o, z) => QueuedOnce(Append(q, Job(r, s)), o, z)
<1> DEFINE j == Job(r, s)
           p == Append(q, j)
<1>1. /\ j \in Jobs /\ j.req = r
      /\ p \in Seq(Jobs) /\ Len(p) = Len(q) + 1 /\ Len(q) \in Nat
      /\ \A i \in 1 .. Len(q) : p[i] = q[i]
      /\ p[Len(q) + 1] = j
  BY JobFields, AppendProperties, LenProperties
<1> HIDE DEF p, j
<1>2. NotQueued(q, r) => QueuedOnce(p, r, s)
  BY <1>1 DEF NotQueued, QueuedOnce, j
<1>3. ASSUME NEW o \in Requests \ {r}, NotQueued(q, o) PROVE NotQueued(p, o)
  BY <1>1, <1>3 DEF NotQueued
<1>4. ASSUME NEW o \in Requests \ {r}, NEW z \in Stages, QueuedOnce(q, o, z)
      PROVE  QueuedOnce(p, o, z)
  BY <1>1, <1>4 DEF QueuedOnce
<1> QED BY <1>1, <1>2, <1>3, <1>4 DEF p, j

(* The oldest job leaves, and the others stay.                             *)
LEMMA QueueTail ==
    ASSUME NEW q \in Seq(Jobs), q # <<>>
    PROVE  /\ Head(q) \in Jobs /\ Tail(q) \in Seq(Jobs)
           /\ Head(q) = q[1] /\ 1 \in 1 .. Len(q)
           /\ \A o \in Requests : NotQueued(q, o) => NotQueued(Tail(q), o)
           /\ \A o \in Requests, z \in Stages :
                 QueuedOnce(q, o, z) =>
                    IF Head(q).req = o
                    THEN Head(q) = Job(o, z) /\ NotQueued(Tail(q), o)
                    ELSE QueuedOnce(Tail(q), o, z)
<1> DEFINE p == Tail(q)
<1>1. /\ Head(q) \in Jobs /\ p \in Seq(Jobs) /\ Head(q) = q[1]
      /\ Len(q) \in Nat \ {0} /\ Len(p) = Len(q) - 1
      /\ \A i \in 1 .. Len(p) : p[i] = q[i + 1]
  BY HeadTailProperties, EmptySeq
<1>2. \A i \in 1 .. Len(p) : i + 1 \in 1 .. Len(q)
  BY <1>1
<1>3. \A i \in 2 .. Len(q) : i - 1 \in 1 .. Len(p) /\ p[i - 1] = q[i]
  BY <1>1
<1> HIDE DEF p
<1>4. ASSUME NEW o \in Requests, NotQueued(q, o) PROVE NotQueued(p, o)
  BY <1>1, <1>2, <1>4 DEF NotQueued
<1>5. ASSUME NEW o \in Requests, NEW z \in Stages, QueuedOnce(q, o, z),
             Head(q).req = o
      PROVE  Head(q) = Job(o, z) /\ NotQueued(p, o)
  <2>1. PICK i \in 1 .. Len(q) :
               q[i] = Job(o, z) /\ \A k \in 1 .. Len(q) : q[k].req = o => k = i
    BY <1>5 DEF QueuedOnce
  <2>2. i = 1
    BY <1>1, <1>5, <2>1
  <2> QED BY <1>1, <1>2, <2>1, <2>2 DEF NotQueued
<1>6. ASSUME NEW o \in Requests, NEW z \in Stages, QueuedOnce(q, o, z),
             Head(q).req # o
      PROVE  QueuedOnce(p, o, z)
  <2>1. PICK i \in 1 .. Len(q) :
               q[i] = Job(o, z) /\ \A k \in 1 .. Len(q) : q[k].req = o => k = i
    BY <1>6 DEF QueuedOnce
  <2>2. i \in 2 .. Len(q)
    BY <1>1, <1>6, <2>1, JobFields
  <2>3. i - 1 \in 1 .. Len(p) /\ p[i - 1] = Job(o, z)
    BY <1>3, <2>1, <2>2
  <2>4. \A k \in 1 .. Len(p) : p[k].req = o => k = i - 1
    BY <1>1, <1>2, <2>1
  <2> QED BY <2>3, <2>4 DEF QueuedOnce
<1> QED BY <1>1, <1>4, <1>5, <1>6 DEF p

(* A job withdrawn is gone, and the others stay.                           *)
LEMMA QueueWithdrawn ==
    ASSUME NEW r \in Requests, queue \in Seq(Jobs),
           \/ NotQueued(queue, r)
           \/ \E z \in Stages : QueuedOnce(queue, r, z)
    PROVE  /\ Withdrawn(r) \in Seq(Jobs)
           /\ NotQueued(Withdrawn(r), r)
           /\ \A o \in Requests \ {r} :
                 NotQueued(queue, o) => NotQueued(Withdrawn(r), o)
           /\ \A o \in Requests \ {r}, z \in Stages :
                 QueuedOnce(queue, o, z) => QueuedOnce(Withdrawn(r), o, z)
<1>1. CASE NotQueued(queue, r)
  <2>1. Withdrawn(r) = queue
    BY <1>1, LenProperties DEF Withdrawn, RemoveFirstMatch, NotQueued
  <2> QED BY <1>1, <2>1
<1>2. CASE \E z \in Stages : QueuedOnce(queue, r, z)
  <2> DEFINE w == Withdrawn(r)
  <2>1. PICK k \in 1 .. Len(queue) :
               /\ queue[k].req = r
               /\ \A i \in 1 .. Len(queue) : queue[i].req = r => i = k
    BY <1>2, JobFields DEF QueuedOnce
  <2>2. w = RemoveAt(queue, k)
    <3>1. {i \in 1 .. Len(queue) : queue[i].req = r} = {k}
      BY <2>1
    <3>2. Min({k}) = k
      BY DEF Min
    <3> QED BY <2>1, <3>1, <3>2 DEF Withdrawn, RemoveFirstMatch, SelectInSeq
  <2>3. /\ w \in Seq(Jobs) /\ Len(w) = Len(queue) - 1 /\ Len(queue) \in Nat
        /\ \A i \in 1 .. k - 1 : w[i] = queue[i]
        /\ \A i \in k .. Len(w) : w[i] = queue[i + 1]
    <3> DEFINE a == SubSeq(queue, 1, k - 1)
               b == SubSeq(queue, k + 1, Len(queue))
    <3>1. /\ Len(queue) \in Nat
          /\ \A i \in 1 .. Len(queue) : queue[i] \in Jobs
      BY LenProperties, ElementOfSeq
    <3>2. /\ a \in Seq(Jobs) /\ Len(a) = k - 1
          /\ \A i \in 1 .. k - 1 : a[i] = queue[i]
      <4>1. \A i \in 1 .. k - 1 : queue[i] \in Jobs
        BY <3>1
      <4> QED BY <3>1, <4>1, SubSeqProperties
    <3>3. /\ b \in Seq(Jobs) /\ Len(b) = Len(queue) - k
          /\ \A i \in 1 .. Len(queue) - k : b[i] = queue[k + i]
      <4>1. \A i \in k + 1 .. Len(queue) : queue[i] \in Jobs
        BY <3>1
      <4> QED BY <3>1, <4>1, SubSeqProperties
    <3>4. w = a \o b
      BY <2>2 DEF RemoveAt
    <3> HIDE DEF w, a, b
    <3>5. /\ w \in Seq(Jobs) /\ Len(w) = Len(a) + Len(b)
          /\ \A i \in 1 .. Len(a) + Len(b) :
                w[i] = IF i <= Len(a) THEN a[i] ELSE b[i - Len(a)]
      BY <3>2, <3>3, <3>4, ConcatProperties, Zenon
    <3>6. Len(w) = Len(queue) - 1
      BY <3>1, <3>2, <3>3, <3>5
    <3>7. ASSUME NEW i \in 1 .. k - 1 PROVE w[i] = queue[i]
      <4>1. Len(a) = k - 1 /\ Len(b) = Len(queue) - k /\ a[i] = queue[i]
        BY <3>2, <3>3
      <4>2. i \in 1 .. Len(a) + Len(b) /\ i <= Len(a)
        BY <2>1, <3>1, <4>1
      <4> QED BY <3>5, <4>1, <4>2
    <3>8. ASSUME NEW i \in k .. Len(w) PROVE w[i] = queue[i + 1]
      <4>1. w[i] = b[i - (k - 1)]
        BY <3>1, <3>2, <3>3, <3>5, <3>6, <3>8
      <4>2. i - (k - 1) \in 1 .. Len(queue) - k /\ k + (i - (k - 1)) = i + 1
        BY <3>1, <3>6, <3>8
      <4> QED BY <3>3, <4>1, <4>2
    <3> QED BY <3>1, <3>5, <3>6, <3>7, <3>8
  <2> HIDE DEF w
  <2>4. \A i \in 1 .. Len(w) :
           \E m \in 1 .. Len(queue) \ {k} :
              w[i] = queue[m] /\ i = (IF m < k THEN m ELSE m - 1)
    <3> TAKE i \in 1 .. Len(w)
    <3>1. CASE i < k
      <4> WITNESS i \in 1 .. Len(queue) \ {k}
      <4> QED BY <2>3, <3>1
    <3>2. CASE i >= k
      <4>1. i + 1 \in 1 .. Len(queue) \ {k}
        BY <2>3, <3>2
      <4> WITNESS i + 1 \in 1 .. Len(queue) \ {k}
      <4> QED BY <2>3, <3>2
    <3> QED BY <2>3, <3>1, <3>2
  <2>5. NotQueued(w, r)
    BY <2>1, <2>4 DEF NotQueued
  <2>6. ASSUME NEW o \in Requests \ {r}, NotQueued(queue, o) PROVE NotQueued(w, o)
    BY <2>4, <2>6 DEF NotQueued
  <2>7. ASSUME NEW o \in Requests \ {r}, NEW z \in Stages, QueuedOnce(queue, o, z)
        PROVE  QueuedOnce(w, o, z)
    <3>1. PICK m \in 1 .. Len(queue) :
                 /\ queue[m] = Job(o, z)
                 /\ \A i \in 1 .. Len(queue) : queue[i].req = o => i = m
      BY <2>7 DEF QueuedOnce
    <3>2. m # k
      BY <2>1, <3>1, JobFields
    <3> DEFINE n == IF m < k THEN m ELSE m - 1
    <3>3. n \in 1 .. Len(w) /\ w[n] = Job(o, z)
      <4>1. CASE m < k
        BY <2>3, <3>1, <4>1
      <4>2. CASE m > k
        <5>1. n = m - 1 /\ m - 1 \in k .. Len(w)
          BY <2>3, <3>1, <4>2
        <5>2. w[m - 1] = queue[m - 1 + 1] /\ m - 1 + 1 = m
          BY <2>3, <5>1
        <5> QED BY <2>3, <3>1, <5>1, <5>2
      <4> QED BY <3>1, <3>2, <4>1, <4>2
    <3>4. \A i \in 1 .. Len(w) : w[i].req = o => i = n
      BY <2>4, <3>1
    <3> QED BY <3>3, <3>4 DEF QueuedOnce
  <2> QED BY <2>3, <2>5, <2>6, <2>7 DEF w
<1> QED BY <1>1, <1>2

-----------------------------------------------------------------------------
(* What each operation does to the place of a request's job.               *)

(* A request whose job and stage a step leaves alone keeps its one place.  *)
LEMMA OthersStay ==
    ASSUME NEW o \in Requests, Typed, InOnePlace(o),
           stage'[o] = stage[o], posted'[o] = posted[o],
           NotQueued(queue, o) => NotQueued(queue', o),
           \A z \in Stages : QueuedOnce(queue, o, z) => QueuedOnce(queue', o, z),
           NotHeld(running, o) => NotHeld(running', o),
           \A z \in Stages : HeldOnce(running, o, z) => HeldOnce(running', o, z)
    PROVE  InOnePlace(o)'
<1>1. stage[o] # "idle" => stage[o] \in Stages
  BY DEF Typed
<1>2. CASE Nowhere(o)
  BY <1>2 DEF InOnePlace, Nowhere
<1>3. CASE OnlyQueued(o)
  BY <1>1, <1>3 DEF InOnePlace, OnlyQueued
<1>4. CASE OnlyHeld(o)
  BY <1>1, <1>4 DEF InOnePlace, OnlyHeld
<1>5. CASE OnlyPosted(o)
  BY <1>5 DEF InOnePlace, OnlyPosted
<1> QED BY <1>2, <1>3, <1>4, <1>5 DEF InOnePlace

(* A request that has no job left and submits one, or ends, has one place. *)
LEMMA SubmitPlaces ==
    ASSUME NEW r \in Requests, NEW s \in Stages \cup {"idle"}, NEW q \in Seq(Jobs),
           Typed, NotQueued(q, r), NotHeld(running', r), ~posted'[r], Submit(r, s, q)
    PROVE  /\ stage' \in [Requests -> Stages \cup {"idle"}]
           /\ queue' \in Seq(Jobs)
           /\ InOnePlace(r)'
           /\ \A o \in Requests \ {r} :
                 /\ stage'[o] = stage[o]
                 /\ NotQueued(q, o) => NotQueued(queue', o)
                 /\ \A z \in Stages : QueuedOnce(q, o, z) => QueuedOnce(queue', o, z)
<1>1. /\ stage' \in [Requests -> Stages \cup {"idle"}]
      /\ stage'[r] = s
      /\ \A o \in Requests \ {r} : stage'[o] = stage[o]
  BY DEF Submit, Typed
<1>2. CASE s = "idle"
  <2>1. queue' = q
    BY <1>2 DEF Submit
  <2>2. Nowhere(r)'
    BY <1>1, <1>2, <2>1 DEF Nowhere
  <2> QED BY <1>1, <2>1, <2>2 DEF InOnePlace
<1>3. CASE s # "idle"
  <2>1. s \in Stages /\ queue' = Append(q, Job(r, s))
    BY <1>3 DEF Submit
  <2>2. /\ queue' \in Seq(Jobs) /\ QueuedOnce(queue', r, s)
        /\ \A o \in Requests \ {r} : NotQueued(q, o) => NotQueued(queue', o)
        /\ \A o \in Requests \ {r}, z \in Stages :
              QueuedOnce(q, o, z) => QueuedOnce(queue', o, z)
    BY <2>1, QueueAppend
  <2>3. OnlyQueued(r)'
    BY <1>1, <1>3, <2>2 DEF OnlyQueued
  <2> QED BY <1>1, <2>2, <2>3 DEF InOnePlace
<1> QED BY <1>2, <1>3

(* Giving up on a job leaves no thread that works for the request.         *)
LEMMA DisownedThreads ==
    ASSUME NEW r \in Requests, Typed
    PROVE  /\ Disowned(r) \in [Threads -> Jobs \cup {NoJob, Orphan}]
           /\ NotHeld(Disowned(r), r)
           /\ \A o \in Requests \ {r} :
                 /\ NotHeld(running, o) => NotHeld(Disowned(r), o)
                 /\ \A z \in Stages : HeldOnce(running, o, z) => HeldOnce(Disowned(r), o, z)
<1>1. /\ Orphan.req \notin Requests
      /\ Disowned(r) \in [Threads -> Jobs \cup {NoJob, Orphan}]
      /\ \A t \in Threads :
            Disowned(r)[t] = IF running[t].req = r THEN Orphan ELSE running[t]
  BY ThreadsAssumption DEF Orphan, Disowned, Typed
<1> HIDE DEF Disowned
<1>2. NotHeld(Disowned(r), r)
  BY <1>1 DEF NotHeld
<1>3. ASSUME NEW o \in Requests \ {r}, NotHeld(running, o)
      PROVE  NotHeld(Disowned(r), o)
  BY <1>1, <1>3 DEF NotHeld
<1>4. ASSUME NEW o \in Requests \ {r}, NEW z \in Stages, HeldOnce(running, o, z)
      PROVE  HeldOnce(Disowned(r), o, z)
  <2>1. PICK t \in Threads :
               /\ running[t] = Job(o, z)
               /\ \A u \in Threads : running[u].req = o => u = t
    BY <1>4 DEF HeldOnce
  <2>2. Disowned(r)[t] = Job(o, z)
    BY <1>1, <2>1, JobFields
  <2>3. \A u \in Threads : Disowned(r)[u].req = o => u = t
    BY <1>1, <2>1
  <2> QED BY <2>2, <2>3 DEF HeldOnce
<1> QED BY <1>1, <1>2, <1>3, <1>4

(* Where a request goes on is a stage, or its end.                         *)
LEMMA AfterIsAStage ==
    ASSUME NEW r \in Requests, NEW s \in Stages
    PROVE  After(r, s) \subseteq Stages \cup {"idle"}
BY DEF After, Stages

-----------------------------------------------------------------------------
(* The invariant, step by step.                                            *)

LEMMA InitIInv == Init => IInv
<1> SUFFICES ASSUME Init PROVE IInv
  OBVIOUS
<1>1. Typed
  BY EmptySeq DEF Init, Typed
<1>2. ASSUME NEW r \in Requests PROVE Nowhere(r)
  <2>1. stage[r] = "idle" /\ ~posted[r] /\ NotQueued(queue, r)
    BY EmptySeq DEF Init, NotQueued
  <2>2. NotHeld(running, r)
    BY ThreadsAssumption DEF Init, NotHeld, NoJob
  <2> QED BY <2>1, <2>2 DEF Nowhere
<1> QED BY <1>1, <1>2 DEF IInv, InOnePlace

(* The oldest job moves from the queue to a thread.                        *)
LEMMA TakeStep ==
    ASSUME NEW t \in Threads, IInv, Take(t)
    PROVE  IInv'
<1>1. Typed /\ queue # <<>> /\ running[t] = NoJob /\ queue' = Tail(queue)
      /\ running' = [running EXCEPT ![t] = Head(queue)]
      /\ stage' = stage /\ eligible' = eligible /\ posted' = posted
  BY DEF Take, IInv
<1>2. /\ Head(queue) \in Jobs /\ Tail(queue) \in Seq(Jobs)
      /\ \A o \in Requests : NotQueued(queue, o) => NotQueued(Tail(queue), o)
      /\ \A o \in Requests, z \in Stages :
            QueuedOnce(queue, o, z) =>
               IF Head(queue).req = o
               THEN Head(queue) = Job(o, z) /\ NotQueued(Tail(queue), o)
               ELSE QueuedOnce(Tail(queue), o, z)
      /\ Head(queue) = queue[1] /\ 1 \in 1 .. Len(queue)
  BY <1>1, QueueTail DEF Typed
<1>3. Typed'
  BY <1>1, <1>2 DEF Typed
<1>4. /\ \A u \in Threads : running'[u] = IF u = t THEN Head(queue) ELSE running[u]
      /\ running[t].req \notin Requests
  BY <1>1, ThreadsAssumption DEF Typed, NoJob
<1>5. ASSUME NEW o \in Requests PROVE InOnePlace(o)'
  <2>1. InOnePlace(o)
    BY DEF IInv
  <2>2. CASE Head(queue).req = o
    <3>1. ~NotQueued(queue, o)
      BY <1>2, <2>2 DEF NotQueued
    <3>2. OnlyQueued(o) /\ stage[o] \in Stages
      BY <1>1, <2>1, <3>1 DEF InOnePlace, Nowhere, OnlyHeld, OnlyPosted, OnlyQueued, Typed
    <3>3. Head(queue) = Job(o, stage[o]) /\ NotQueued(queue', o)
      BY <1>1, <1>2, <2>2, <3>2 DEF OnlyQueued
    <3>4. HeldOnce(running', o, stage[o])
      BY <1>4, <3>2, <3>3 DEF OnlyQueued, NotHeld, HeldOnce
    <3>5. OnlyHeld(o)'
      BY <1>1, <3>2, <3>3, <3>4 DEF OnlyQueued, OnlyHeld
    <3> QED BY <3>5 DEF InOnePlace
  <2>3. CASE Head(queue).req # o
    <3>1. NotHeld(running, o) => NotHeld(running', o)
      BY <1>4, <2>3 DEF NotHeld
    <3>2. ASSUME NEW z \in Stages, HeldOnce(running, o, z)
          PROVE  HeldOnce(running', o, z)
      BY <1>4, <2>3, <3>2, JobFields DEF HeldOnce
    <3> QED BY <1>1, <1>2, <2>1, <2>3, <3>1, <3>2, OthersStay
  <2> QED BY <2>2, <2>3
<1> QED BY <1>3, <1>5 DEF IInv

(* A thread's job ends, and its result waits to be taken.                  *)
LEMMA FinishStep ==
    ASSUME NEW t \in Threads, IInv, Finish(t)
    PROVE  IInv'
<1>1. /\ Typed /\ running[t] # NoJob
      /\ running' = [running EXCEPT ![t] = NoJob]
      /\ posted' = [r \in Requests |-> posted[r] \/ running[t].req = r]
      /\ stage' = stage /\ eligible' = eligible /\ queue' = queue
  BY DEF Finish, IInv
<1>2. Typed'
  BY <1>1 DEF Typed
<1>3. /\ \A u \in Threads : running'[u] = IF u = t THEN NoJob ELSE running[u]
      /\ NoJob.req \notin Requests
  BY <1>1, ThreadsAssumption DEF Typed, NoJob
<1>4. ASSUME NEW o \in Requests PROVE InOnePlace(o)'
  <2>1. InOnePlace(o) /\ (posted'[o] <=> posted[o] \/ running[t].req = o)
    BY <1>1 DEF IInv
  <2>2. CASE running[t].req = o
    <3>1. OnlyHeld(o) /\ stage[o] \in Stages
      BY <1>1, <2>1, <2>2
         DEF InOnePlace, Nowhere, OnlyHeld, OnlyPosted, OnlyQueued, NotHeld, Typed
    <3>2. \A u \in Threads : running[u].req = o => u = t
      BY <2>2, <3>1 DEF OnlyHeld, HeldOnce
    <3>3. NotHeld(running', o)
      BY <1>3, <3>2 DEF NotHeld
    <3>4. OnlyPosted(o)'
      BY <1>1, <2>1, <2>2, <3>1, <3>3 DEF OnlyHeld, OnlyPosted
    <3> QED BY <3>4 DEF InOnePlace
  <2>3. CASE running[t].req # o
    <3>1. NotHeld(running, o) => NotHeld(running', o)
      BY <1>3 DEF NotHeld
    <3>2. ASSUME NEW z \in Stages, HeldOnce(running, o, z)
          PROVE  HeldOnce(running', o, z)
      BY <1>3, <2>3, <3>2, JobFields DEF HeldOnce
    <3>3. posted'[o] = posted[o]
      BY <1>1, <2>3 DEF Typed
    <3> QED BY <1>1, <2>1, <3>1, <3>2, <3>3, OthersStay
  <2> QED BY <2>2, <2>3
<1> QED BY <1>2, <1>4 DEF IInv

(* A request gives up on its job, and submits the next one or ends: what   *)
(* a timeout and a client that leaves have in common.                      *)
LEMMA GiveUpStep ==
    ASSUME NEW r \in Requests, IInv, stage[r] # "idle",
           NEW s \in Stages \cup {"idle"}, Submit(r, s, Withdrawn(r)),
           running' = Disowned(r), posted' = [posted EXCEPT ![r] = FALSE],
           eligible' = eligible
    PROVE  IInv'
<1>1. Typed /\ InOnePlace(r) /\ stage[r] \in Stages
  BY DEF IInv, Typed
<1>2. \/ NotQueued(queue, r)
      \/ \E z \in Stages : QueuedOnce(queue, r, z)
  BY <1>1 DEF InOnePlace, Nowhere, OnlyQueued, OnlyHeld, OnlyPosted
<1>3. /\ Withdrawn(r) \in Seq(Jobs) /\ NotQueued(Withdrawn(r), r)
      /\ \A o \in Requests \ {r} :
            NotQueued(queue, o) => NotQueued(Withdrawn(r), o)
      /\ \A o \in Requests \ {r}, z \in Stages :
            QueuedOnce(queue, o, z) => QueuedOnce(Withdrawn(r), o, z)
  BY <1>1, <1>2, QueueWithdrawn DEF Typed
<1>4. /\ running' \in [Threads -> Jobs \cup {NoJob, Orphan}]
      /\ NotHeld(running', r)
      /\ \A o \in Requests \ {r} :
            /\ NotHeld(running, o) => NotHeld(running', o)
            /\ \A z \in Stages : HeldOnce(running, o, z) => HeldOnce(running', o, z)
  BY <1>1, DisownedThreads
<1>5. /\ posted' \in [Requests -> BOOLEAN] /\ ~posted'[r]
      /\ \A o \in Requests \ {r} : posted'[o] = posted[o]
  BY <1>1 DEF Typed
<1> DEFINE q == Withdrawn(r)
<1> HIDE DEF q
<1>6. /\ stage' \in [Requests -> Stages \cup {"idle"}]
      /\ queue' \in Seq(Jobs)
      /\ InOnePlace(r)'
      /\ \A o \in Requests \ {r} :
            /\ stage'[o] = stage[o]
            /\ NotQueued(q, o) => NotQueued(queue', o)
            /\ \A z \in Stages : QueuedOnce(q, o, z) => QueuedOnce(queue', o, z)
  BY <1>1, <1>3, <1>4, <1>5, SubmitPlaces DEF q
<1>7. Typed'
  BY <1>1, <1>4, <1>5, <1>6 DEF Typed
<1>8. ASSUME NEW o \in Requests \ {r} PROVE InOnePlace(o)'
  <2>1. /\ NotQueued(queue, o) => NotQueued(queue', o)
        /\ \A z \in Stages : QueuedOnce(queue, o, z) => QueuedOnce(queue', o, z)
    BY <1>3, <1>6 DEF q
  <2> QED BY <1>1, <1>4, <1>5, <1>6, <2>1, OthersStay DEF IInv
<1> QED BY <1>6, <1>7, <1>8 DEF IInv

(* A request that has no job left submits one or ends, the queue and the   *)
(* threads being otherwise as they were: an arrival and a result taken.    *)
LEMMA GoOnStep ==
    ASSUME NEW r \in Requests, IInv, NotQueued(queue, r), NotHeld(running, r),
           NEW s \in Stages \cup {"idle"}, Submit(r, s, queue),
           running' = running,
           posted' \in [Requests -> BOOLEAN], ~posted'[r],
           \A o \in Requests \ {r} : posted'[o] = posted[o],
           eligible' \in [Requests -> BOOLEAN]
    PROVE  IInv'
<1>1. Typed
  BY DEF IInv
<1>2. /\ stage' \in [Requests -> Stages \cup {"idle"}]
      /\ queue' \in Seq(Jobs)
      /\ InOnePlace(r)'
      /\ \A o \in Requests \ {r} :
            /\ stage'[o] = stage[o]
            /\ NotQueued(queue, o) => NotQueued(queue', o)
            /\ \A z \in Stages : QueuedOnce(queue, o, z) => QueuedOnce(queue', o, z)
  BY <1>1, SubmitPlaces DEF Typed
<1>3. Typed'
  BY <1>1, <1>2 DEF Typed
<1>4. ASSUME NEW o \in Requests \ {r} PROVE InOnePlace(o)'
  BY <1>1, <1>2, OthersStay DEF IInv
<1> QED BY <1>2, <1>3, <1>4 DEF IInv

LEMMA ArriveStep ==
    ASSUME NEW r \in Requests, IInv, Arrive(r)
    PROVE  IInv'
<1>1. Typed /\ Nowhere(r)
  BY DEF Arrive, IInv, InOnePlace, Nowhere, OnlyQueued, OnlyHeld, OnlyPosted
<1>2. PICK s \in Entry \ {"idle"} : Submit(r, s, queue)
  BY DEF Arrive
<1>3. s \in Stages
  BY DEF Entry, Stages
<1>4. /\ running' = running /\ posted' = posted
      /\ eligible' \in [Requests -> BOOLEAN]
  BY <1>1 DEF Arrive, Typed
<1> QED BY <1>1, <1>2, <1>3, <1>4, GoOnStep DEF Nowhere, Typed

LEMMA ResumeStep ==
    ASSUME NEW r \in Requests, IInv, Resume(r)
    PROVE  IInv'
<1>1. Typed /\ OnlyPosted(r) /\ stage[r] \in Stages
  BY DEF Resume, IInv, InOnePlace, Nowhere, OnlyQueued, OnlyHeld, OnlyPosted, Typed
<1>2. PICK s \in After(r, stage[r]) : Submit(r, s, queue)
  BY DEF Resume
<1>3. s \in Stages \cup {"idle"}
  BY <1>1, AfterIsAStage
<1>4. /\ running' = running /\ eligible' = eligible
      /\ posted' = [posted EXCEPT ![r] = FALSE]
  BY DEF Resume
<1>5. /\ posted' \in [Requests -> BOOLEAN] /\ ~posted'[r]
      /\ \A o \in Requests \ {r} : posted'[o] = posted[o]
  BY <1>1, <1>4 DEF Typed
<1> QED BY <1>1, <1>2, <1>3, <1>4, <1>5, GoOnStep DEF OnlyPosted, Typed

LEMMA TimeoutStep ==
    ASSUME NEW r \in Requests, IInv, Timeout(r)
    PROVE  IInv'
<1>1. stage[r] \in Stages /\ stage[r] # "idle"
  BY DEF Timeout, Timed, Stages
<1>2. PICK s \in After(r, stage[r]) : Submit(r, s, Withdrawn(r))
  BY DEF Timeout
<1>3. s \in Stages \cup {"idle"}
  BY <1>1, AfterIsAStage
<1> QED BY <1>1, <1>2, <1>3, GiveUpStep DEF Timeout

LEMMA DisconnectStep ==
    ASSUME NEW r \in Requests, IInv, Disconnect(r)
    PROVE  IInv'
<1>1. stage[r] # "idle" /\ Submit(r, "idle", Withdrawn(r))
  BY DEF Disconnect
<1> QED BY <1>1, GiveUpStep DEF Disconnect

LEMMA NextIInv == IInv /\ [Next]_vars => IInv'
<1> SUFFICES ASSUME IInv, [Next]_vars PROVE IInv'
  OBVIOUS
<1>1. ASSUME NEW t \in Threads, Take(t) PROVE IInv'
  BY <1>1, TakeStep
<1>2. ASSUME NEW t \in Threads, Finish(t) PROVE IInv'
  BY <1>2, FinishStep
<1>3. ASSUME NEW r \in Requests, Arrive(r) PROVE IInv'
  BY <1>3, ArriveStep
<1>4. ASSUME NEW r \in Requests, Resume(r) PROVE IInv'
  BY <1>4, ResumeStep
<1>5. ASSUME NEW r \in Requests, Timeout(r) PROVE IInv'
  BY <1>5, TimeoutStep
<1>6. ASSUME NEW r \in Requests, Disconnect(r) PROVE IInv'
  BY <1>6, DisconnectStep
<1>7. CASE UNCHANGED vars
  BY <1>7 DEF vars, IInv, Typed, InOnePlace, Nowhere, OnlyQueued, OnlyHeld, OnlyPosted
<1> QED BY <1>1, <1>2, <1>3, <1>4, <1>5, <1>6, <1>7 DEF Next

-----------------------------------------------------------------------------
(* Counting.                                                               *)

LEMMA CountQueued ==
    ASSUME NEW q \in Seq(Jobs), NEW r
    PROVE  /\ NotQueued(q, r) => Cardinality({i \in DOMAIN q : q[i].req = r}) = 0
           /\ \A z : QueuedOnce(q, r, z) =>
                 Cardinality({i \in DOMAIN q : q[i].req = r}) = 1
<1> DEFINE A == {i \in DOMAIN q : q[i].req = r}
<1>1. A = {i \in 1 .. Len(q) : q[i].req = r}
  BY LenProperties
<1> HIDE DEF A
<1>2. ASSUME NotQueued(q, r) PROVE Cardinality(A) = 0
  BY <1>1, <1>2, FS_EmptySet DEF NotQueued
<1>3. ASSUME NEW z, QueuedOnce(q, r, z) PROVE Cardinality(A) = 1
  <2>1. PICK i \in 1 .. Len(q) :
               q[i] = Job(r, z) /\ \A k \in 1 .. Len(q) : q[k].req = r => k = i
    BY <1>3 DEF QueuedOnce
  <2>2. A = {i}
    BY <1>1, <2>1, JobFields
  <2> QED BY <2>2, FS_Singleton
<1> QED BY <1>2, <1>3 DEF A

LEMMA CountHeld ==
    ASSUME NEW run, NEW r
    PROVE  /\ NotHeld(run, r) => Cardinality({t \in Threads : run[t].req = r}) = 0
           /\ \A z : HeldOnce(run, r, z) =>
                 Cardinality({t \in Threads : run[t].req = r}) = 1
<1> DEFINE A == {t \in Threads : run[t].req = r}
<1>1. ASSUME NotHeld(run, r) PROVE Cardinality(A) = 0
  <2>1. A = {}
    BY <1>1 DEF NotHeld
  <2> QED BY <2>1, FS_EmptySet
<1>2. ASSUME NEW z, HeldOnce(run, r, z) PROVE Cardinality(A) = 1
  <2>1. PICK t \in Threads :
               run[t] = Job(r, z) /\ \A u \in Threads : run[u].req = r => u = t
    BY <1>2 DEF HeldOnce
  <2>2. A = {t}
    BY <2>1, JobFields
  <2> HIDE DEF A
  <2> QED BY <2>2, FS_Singleton
<1> QED BY <1>1, <1>2

LEMMA IInvCounts == IInv => OneJobPerWait
<1> SUFFICES ASSUME IInv, NEW r \in Requests
             PROVE  /\ Places(r) = (IF stage[r] = "idle" THEN 0 ELSE 1)
                    /\ \A i \in DOMAIN queue : queue[i].req = r => queue[i].stage = stage[r]
                    /\ \A t \in Threads :
                          running[t].req = r => running[t].stage = stage[r]
  BY DEF OneJobPerWait
<1>1. Typed /\ InOnePlace(r)
  BY DEF IInv
<1>2. /\ queue \in Seq(Jobs) /\ DOMAIN queue = 1 .. Len(queue)
  BY <1>1, LenProperties DEF Typed
<1> DEFINE Q == Cardinality({i \in DOMAIN queue : queue[i].req = r})
           H == Cardinality({t \in Threads : running[t].req = r})
<1>3. /\ NotQueued(queue, r) => Q = 0
      /\ \A z : QueuedOnce(queue, r, z) => Q = 1
      /\ NotHeld(running, r) => H = 0
      /\ \A z : HeldOnce(running, r, z) => H = 1
  <2>1. /\ NotQueued(queue, r) => Q = 0
        /\ \A z : QueuedOnce(queue, r, z) => Q = 1
    BY <1>2, CountQueued, Zenon
  <2>2. /\ NotHeld(running, r) => H = 0
        /\ \A z : HeldOnce(running, r, z) => H = 1
    BY CountHeld, Zenon
  <2> QED BY <2>1, <2>2
<1>4. Places(r) = Q + H + (IF posted[r] THEN 1 ELSE 0)
  BY DEF Places
<1> HIDE DEF Q, H
<1>5. Places(r) = (IF stage[r] = "idle" THEN 0 ELSE 1)
  BY <1>1, <1>3, <1>4 DEF InOnePlace, Nowhere, OnlyQueued, OnlyHeld, OnlyPosted
<1>6. \A i \in DOMAIN queue : queue[i].req = r => queue[i].stage = stage[r]
  BY <1>1, <1>2, JobFields
     DEF InOnePlace, Nowhere, OnlyQueued, OnlyHeld, OnlyPosted, NotQueued, QueuedOnce
<1>7. \A t \in Threads : running[t].req = r => running[t].stage = stage[r]
  BY <1>1, JobFields
     DEF InOnePlace, Nowhere, OnlyQueued, OnlyHeld, OnlyPosted, NotHeld, HeldOnce
<1> QED BY <1>5, <1>6, <1>7

(* A request that waits has exactly one job, in the queue, in a thread or  *)
(* just done, and it is the job it waits for; one that does not wait has   *)
(* none, whatever times out, leaves or hangs (asyncio.to_thread under      *)
(* wait_for: guardrails.py, semantic_cache.py, agent.py).                  *)
THEOREM OneJobPerWaitAlways == Spec => []OneJobPerWait
<1>1. Spec => []IInv
  BY InitIInv, NextIInv, PTL DEF Spec
<1> QED BY <1>1, IInvCounts, PTL

=============================================================================
