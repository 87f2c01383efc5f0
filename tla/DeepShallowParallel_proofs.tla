---------------------- MODULE DeepShallowParallel_proofs ----------------------
(***************************************************************************)
(* Theorems about DeepShallowParallel, for every team, alphabet, set of    *)
(* texts and length of a segment: which thread holds the lock, where a     *)
(* bucket is, and that the array the master returns is the suffix array.   *)
(***************************************************************************)
EXTENDS DeepShallowParallel, DeepShallowData_proofs

Critical == { "gotBounds", "update" }

TypeOK ==
  /\ s \in Texts
  /\ left \subseteq Buckets /\ pool \subseteq Buckets /\ sorted \subseteq Buckets
  /\ taken \in Buckets \cup { NoBucket }
  /\ task \in [Threads -> Buckets \cup { NoBucket }]
  /\ place \in [Threads -> { "idle", "bounds", "gotBounds", "sort", "anchors", "update" }]
  /\ writelock \in Threads \cup { Free }
  /\ master \in { "begin", "lock", "take", "unlock", "create", "wait", "done" }

\* A thread is in sort_bucket exactly while it has a bucket, and the master has
\* taken one exactly while it creates a task.  Between its omp_set_lock and the
\* creation it runs no task.
Busy ==
  /\ \A th \in Threads : place[th] = "idle" <=> task[th] = NoBucket
  /\ master = "create" <=> taken # NoBucket
  /\ master \in { "take", "unlock", "create" } => task[Master] = NoBucket

\* Whoever holds the lock is in a critical section, and the other way round.
Holder ==
  /\ \A th \in Threads : place[th] \in Critical => writelock = th
  /\ master \in { "take", "unlock" } => writelock = Master
  /\ writelock # Free =>
       \/ place[writelock] \in Critical
       \/ writelock = Master /\ master \in { "take", "unlock" }

Inv == TypeOK /\ Busy /\ Holder /\ EachBucketOnce

-----------------------------------------------------------------------------
(* Facts *)

\* No bucket is the empty tuple.
LEMMA NoBucketFact == NoBucket \notin Buckets
BY DEF NoBucket, Buckets

\* The size of a bucket is a number: a difference of two cardinalities.
LEMMA SizeType ==
  ASSUME NEW x \in Texts, NEW b
  PROVE  size_of_bucket(x, b) \in Int
<1>1. Len(x) \in Nat
  BY DataAssumption
<1>2. IsFiniteSet(Positions(x))
  BY <1>1, FS_Interval DEF Positions
<1>3. ASSUME NEW S, S \subseteq Positions(x) PROVE Cardinality(S) \in Nat
  BY <1>2, <1>3, FS_Subset, FS_CardinalityType
<1>4. start_of_bucket(x, b) \in Nat
  BY <1>3 DEF start_of_bucket
<1>5. end_of_bucket(x, b) \in Nat
  BY <1>3 DEF end_of_bucket
<1> QED
  BY <1>4, <1>5 DEF size_of_bucket

\* In the beginning nobody holds the lock and all buckets are left.
LEMMA InitInv == Init => Inv
<1> SUFFICES ASSUME Init PROVE Inv
  OBVIOUS
<1>1. TypeOK
  BY DEF Init, TypeOK
<1>2. Busy
  BY TeamAssumption DEF Init, Busy
<1>3. Holder
  BY DEF Init, Holder, Critical
<1>4. EachBucketOnce
  BY DEF Init, EachBucketOnce
<1> QED
  BY <1>1, <1>2, <1>3, <1>4 DEF Inv

\* Steps of the master that touch no bucket.
LEMMA MasterStep ==
  ASSUME Inv, SortSmallText \/ bucket_sort \/ MasterUnlocks \/ TaskWait
  PROVE  Inv'
<1> USE TeamAssumption, NoBucketFact
<1>1. TypeOK'
  BY DEF Inv, TypeOK, SortSmallText, bucket_sort, MasterUnlocks, TaskWait
<1>2. Busy'
  BY DEF Inv, TypeOK, Busy, SortSmallText, bucket_sort, MasterUnlocks, TaskWait
<1>3. Holder'
  BY DEF Inv, TypeOK, Busy, Holder, Critical, SortSmallText, bucket_sort, MasterUnlocks, TaskWait
<1>4. EachBucketOnce'
  BY DEF Inv, TypeOK, Busy, EachBucketOnce, SortSmallText, bucket_sort, MasterUnlocks, TaskWait
<1> QED
  BY <1>1, <1>2, <1>3, <1>4 DEF Inv

\* The master takes the free lock: it is in no task, so nobody is in a critical section.
LEMMA LocksStep ==
  ASSUME Inv, MasterLocks
  PROVE  Inv'
<1> USE TeamAssumption, NoBucketFact
<1>1. TypeOK'
  BY DEF Inv, TypeOK, MasterLocks, SetLock
<1>2. Busy'
  BY DEF Inv, TypeOK, Busy, MasterLocks, SetLock
<1>3. Holder'
  BY DEF Inv, TypeOK, Busy, Holder, Critical, MasterLocks, SetLock
<1>4. EachBucketOnce'
  BY DEF Inv, TypeOK, Busy, EachBucketOnce, MasterLocks, SetLock
<1> QED
  BY <1>1, <1>2, <1>3, <1>4 DEF Inv

\* Only buckets of less than two suffixes leave without a task.
LEMMA TakeSmallStep ==
  ASSUME Inv, TakeSmall
  PROVE  Inv'
<1> USE TeamAssumption, NoBucketFact
<1>1. TypeOK'
  BY DEF Inv, TypeOK, TakeSmall
<1>2. Busy'
  BY DEF Inv, TypeOK, Busy, TakeSmall
<1>3. Holder'
  BY DEF Inv, TypeOK, Busy, Holder, Critical, TakeSmall
<1>4. \A b \in left : size_of_bucket(s, b) \in Int
  BY SizeType DEF Inv, TypeOK
<1>5. EachBucketOnce'
  BY <1>4 DEF Inv, TypeOK, Busy, EachBucketOnce, TakeSmall
<1> QED
  BY <1>1, <1>2, <1>3, <1>5 DEF Inv

\* The bucket goes from left to taken, and the lock is free again.
LEMMA TakeBucketStep ==
  ASSUME Inv, TakeBucket
  PROVE  Inv'
<1> USE TeamAssumption, NoBucketFact
<1>1. TypeOK'
  BY DEF Inv, TypeOK, TakeBucket, get_smallest_bucket
<1>2. Busy'
  BY DEF Inv, TypeOK, Busy, TakeBucket, get_smallest_bucket
<1>3. Holder'
  BY DEF Inv, TypeOK, Busy, Holder, Critical, TakeBucket, get_smallest_bucket
<1>4. EachBucketOnce'
  BY DEF Inv, TypeOK, Busy, EachBucketOnce, TakeBucket, get_smallest_bucket
<1> QED
  BY <1>1, <1>2, <1>3, <1>4 DEF Inv

\* The bucket goes to the queue, or to the master as a thread of the team.
LEMMA CreateStep ==
  ASSUME Inv, CreateTask
  PROVE  Inv'
<1> USE TeamAssumption, NoBucketFact
<1>1. TypeOK'
  BY DEF Inv, TypeOK, Busy, CreateTask
<1>2. Busy'
  BY DEF Inv, TypeOK, Busy, CreateTask
<1>3. Holder'
  BY DEF Inv, TypeOK, Busy, Holder, Critical, CreateTask
<1>4. EachBucketOnce'
  BY DEF Inv, TypeOK, Busy, EachBucketOnce, CreateTask
<1> QED
  BY <1>1, <1>2, <1>3, <1>4 DEF Inv

\* The bucket goes from the queue to the thread.
LEMMA StartStep ==
  ASSUME Inv, NEW th \in Threads, StartTask(th)
  PROVE  Inv'
<1> USE TeamAssumption, NoBucketFact
<1>1. TypeOK'
  BY DEF Inv, TypeOK, StartTask
<1>2. Busy'
  BY DEF Inv, TypeOK, Busy, StartTask
<1>3. Holder'
  BY DEF Inv, TypeOK, Busy, Holder, Critical, StartTask
<1>4. EachBucketOnce'
  BY DEF Inv, TypeOK, Busy, EachBucketOnce, StartTask
<1> QED
  BY <1>1, <1>2, <1>3, <1>4 DEF Inv

\* A thread enters or leaves a critical section with its bucket.
LEMMA BoundsStep ==
  ASSUME Inv, NEW th \in Threads, ReadBounds(th) \/ ReleaseBounds(th) \/ LockAnchors(th)
  PROVE  Inv'
<1> USE TeamAssumption, NoBucketFact
<1>1. TypeOK'
  BY DEF Inv, TypeOK, ReadBounds, ReleaseBounds, LockAnchors, SetLock
<1>2. Busy'
  BY DEF Inv, TypeOK, Busy, ReadBounds, ReleaseBounds, LockAnchors, SetLock
<1>3. Holder'
  BY DEF Inv, TypeOK, Busy, Holder, Critical, ReadBounds, ReleaseBounds, LockAnchors, SetLock
<1>4. EachBucketOnce'
  BY DEF Inv, TypeOK, Busy, EachBucketOnce, ReadBounds, ReleaseBounds, LockAnchors, SetLock
<1> QED
  BY <1>1, <1>2, <1>3, <1>4 DEF Inv

\* Sorting takes place outside of critical sections.
LEMMA SortStep ==
  ASSUME Inv, NEW th \in Threads, SortBucket(th)
  PROVE  Inv'
<1> USE TeamAssumption, NoBucketFact
<1>1. TypeOK'
  BY DEF Inv, TypeOK, SortBucket
<1>2. Busy'
  BY DEF Inv, TypeOK, Busy, SortBucket
<1>3. Holder'
  BY DEF Inv, TypeOK, Busy, Holder, Critical, SortBucket
<1>4. EachBucketOnce'
  BY DEF Inv, TypeOK, Busy, EachBucketOnce, SortBucket
<1> QED
  BY <1>1, <1>2, <1>3, <1>4 DEF Inv

\* The bucket is sorted and its thread leaves the critical section.
LEMMA UpdateStep ==
  ASSUME Inv, NEW th \in Threads, UpdateAnchors(th)
  PROVE  Inv'
<1> USE TeamAssumption, NoBucketFact
<1>1. TypeOK'
  BY DEF Inv, TypeOK, Busy, UpdateAnchors
<1>2. Busy'
  BY DEF Inv, TypeOK, Busy, UpdateAnchors
<1>3. Holder'
  BY DEF Inv, TypeOK, Busy, Holder, Critical, UpdateAnchors
<1>4. EachBucketOnce'
  BY DEF Inv, TypeOK, Busy, EachBucketOnce, UpdateAnchors
<1> QED
  BY <1>1, <1>2, <1>3, <1>4 DEF Inv

\* Every step keeps the invariant.
LEMMA Step == Inv /\ [Next]_vars => Inv'
<1> SUFFICES ASSUME Inv, [Next]_vars PROVE Inv'
  OBVIOUS
<1>1. CASE SortSmallText \/ bucket_sort \/ MasterUnlocks \/ TaskWait
  BY <1>1, MasterStep
<1>2. CASE MasterLocks
  BY <1>2, LocksStep
<1>3. CASE TakeSmall
  BY <1>3, TakeSmallStep
<1>4. CASE TakeBucket
  BY <1>4, TakeBucketStep
<1>5. CASE CreateTask
  BY <1>5, CreateStep
<1>6. CASE \E th \in Threads : sort_bucket(th)
  BY <1>6, StartStep, BoundsStep, SortStep, UpdateStep DEF sort_bucket
<1>7. CASE UNCHANGED vars
  BY <1>7 DEF vars, Inv, TypeOK, Busy, Holder, EachBucketOnce
<1> QED
  BY <1>1, <1>2, <1>3, <1>4, <1>5, <1>6, <1>7 DEF Next, sort_all_buckets, Terminating

\* The invariant holds in every reachable state (saca_run_parallel.hpp).
THEOREM Invariance == Spec => []Inv
  BY InitInv, Step, PTL DEF Spec

\* No bucket is lost or sorted twice, for every team and every text (sort_all_buckets and sort_bucket).
THEOREM BucketsOnce == Spec => []EachBucketOnce
<1>1. Inv => EachBucketOnce
  BY DEF Inv
<1> QED
  BY <1>1, Invariance, PTL

\* The lock is with the thread in a critical section, and the master never asks for a
\* lock it holds (omp_set_lock in sort_all_buckets and sort_bucket).
THEOREM LockIsHeld == Spec => []LockDiscipline
<1>1. Inv => LockDiscipline
  BY TeamAssumption, NoBucketFact DEF Inv, TypeOK, Busy, Holder, Critical, LockDiscipline
<1> QED
  BY <1>1, Invariance, PTL

-----------------------------------------------------------------------------
(* The array *)

\* The stages of the array: the identity before bucketsort, then every suffix
\* in a cell of its bucket, in the end every one in its own.
ArrayInv ==
  /\ master = "begin" => suffix_array = [ c \in Positions(s) |-> c ] /\ sorted = {}
  /\ master \notin { "begin", "done" } => InOwnBuckets(s, suffix_array)
  /\ master = "done" => /\ suffix_array \in [ Positions(s) -> Positions(s) ]
                        /\ \A c \in Positions(s) : Rank(s, suffix_array[c]) = c

\* There are tasks only while the master is between bucketsort and taskwait,
\* which it reaches when it has taken all buckets.
TasksInv ==
  /\ master \in { "begin", "done" } =>
       pool = {} /\ \A th \in Threads : task[th] = NoBucket
  /\ master \in { "unlock", "wait" } => left = {}

\* A bucket whose task is over, or has sorted it and is on the way to the
\* anchors, holds its suffixes in order.
IsSorted(b) ==
  \/ b \in sorted
  \/ \E th \in Threads : task[th] = b /\ place[th] \in { "anchors", "update" }

SortedInv ==
  master # "begin" => \A b \in Buckets : IsSorted(b) => \A c \in CellsOf(s, b) : Rank(s, suffix_array[c]) = c

ParallelInv == Inv /\ ArrayInv /\ TasksInv /\ SortedInv

-----------------------------------------------------------------------------
(* Its steps *)

\* In the beginning the array is the identity and there are no tasks.
LEMMA InitArray == Init => ParallelInv
<1> SUFFICES ASSUME Init PROVE ParallelInv
  OBVIOUS
<1>1. ArrayInv /\ TasksInv /\ SortedInv
  BY DEF Init, ArrayInv, TasksInv, SortedInv
<1> QED
  BY <1>1, InitInv DEF ParallelInv

\* Steps that leave the array, and the buckets sorted in it, alone.
LEMMA ArrayStays ==
  ASSUME ParallelInv, s' = s, suffix_array' = suffix_array, master # "begin", master' # "begin",
         master = "done" <=> master' = "done",
         \A b \in Buckets : IsSorted(b)' => IsSorted(b)
  PROVE  ArrayInv' /\ SortedInv'
<1>1. ArrayInv'
  BY DEF ParallelInv, ArrayInv
<1>2. SortedInv'
  BY DEF ParallelInv, SortedInv
<1> QED
  BY <1>1, <1>2

\* The master's steps before and between the tasks' creation.
LEMMA MasterArray ==
  ASSUME ParallelInv, MasterLocks \/ TakeSmall \/ TakeBucket \/ MasterUnlocks
  PROVE  ArrayInv' /\ TasksInv' /\ SortedInv'
<1>1. /\ s' = s /\ suffix_array' = suffix_array /\ sorted' = sorted /\ pool' = pool
      /\ task' = task /\ place' = place
      /\ master \in { "lock", "take", "unlock" } /\ master' \in { "lock", "take", "unlock", "create", "wait" }
  BY DEF MasterLocks, TakeSmall, TakeBucket, MasterUnlocks
<1>2. \A b \in Buckets : IsSorted(b)' => IsSorted(b)
  BY <1>1 DEF IsSorted
<1>3. ArrayInv' /\ SortedInv'
  BY <1>1, <1>2, ArrayStays
<1>4. master' \in { "unlock", "wait" } => left' = {}
  BY DEF ParallelInv, TasksInv, MasterLocks, TakeSmall, TakeBucket, MasterUnlocks
<1> QED
  BY <1>1, <1>3, <1>4 DEF TasksInv

\* A new task is at the beginning of sort_bucket.
LEMMA CreateArray ==
  ASSUME ParallelInv, CreateTask
  PROVE  ArrayInv' /\ TasksInv' /\ SortedInv'
<1>1. /\ s' = s /\ suffix_array' = suffix_array /\ sorted' = sorted
      /\ master = "create" /\ master' = "lock"
      /\ \/ task' = task /\ place' = place
         \/ /\ task' = [ task EXCEPT ![Master] = taken ]
            /\ place' = [ place EXCEPT ![Master] = "bounds" ]
  BY DEF CreateTask
<1>2. task \in [ Threads -> Buckets \cup { NoBucket } ]
      /\ place \in [ Threads -> { "idle", "bounds", "gotBounds", "sort", "anchors", "update" } ]
  BY DEF ParallelInv, Inv, TypeOK
<1>3. \A b \in Buckets : IsSorted(b)' => IsSorted(b)
  BY <1>1, <1>2 DEF IsSorted
<1>4. ArrayInv' /\ SortedInv'
  BY <1>1, <1>3, ArrayStays
<1> QED
  BY <1>1, <1>4 DEF TasksInv

\* When nothing is left, queued or in work every bucket of two suffixes or more
\* has been sorted; the others are in order from the beginning.
LEMMA WaitArray ==
  ASSUME ParallelInv, TaskWait
  PROVE  ArrayInv' /\ TasksInv' /\ SortedInv'
<1>1. /\ s' = s /\ suffix_array' = suffix_array /\ sorted' = sorted /\ pool' = pool /\ left' = left
      /\ task' = task /\ place' = place
      /\ master = "wait" /\ master' = "done"
      /\ pool = {} /\ \A th \in Threads : task[th] = NoBucket
  BY DEF TaskWait
<1>2. TextInv(s) /\ InOwnBuckets(s, suffix_array) /\ left = {} /\ taken = NoBucket
  BY <1>1, TextFacts DEF ParallelInv, Inv, TypeOK, Busy, ArrayInv, TasksInv
<1>3. \A b \in Buckets : size_of_bucket(s, b) >= 2 => b \in sorted
  BY <1>1, <1>2, NoBucketFact DEF ParallelInv, Inv, EachBucketOnce
<1>4. ASSUME NEW c \in Positions(s) PROVE Rank(s, suffix_array[c]) = c
  <2> DEFINE b == BucketOf(s, suffix_array[c])
  <2>1. suffix_array[c] \in Positions(s) /\ c \in CellsOf(s, b)
    BY <1>2 DEF InOwnBuckets
  <2>2. b \in Buckets
    BY <1>2, <2>1, BucketFacts
  <2> HIDE DEF b
  <2>3. size_of_bucket(s, b) \in Int
    BY SizeType DEF ParallelInv, Inv, TypeOK
  <2>4. CASE size_of_bucket(s, b) >= 2
    BY <1>1, <1>3, <2>1, <2>2, <2>4 DEF ParallelInv, SortedInv, IsSorted
  <2>5. CASE size_of_bucket(s, b) < 2
    BY <1>2, <2>1, <2>2, <2>5, SmallBucketSorted
  <2> QED
    BY <2>3, <2>4, <2>5
<1>5. ArrayInv'
  BY <1>1, <1>2, <1>4 DEF ArrayInv, InOwnBuckets
<1>6. \A b \in Buckets : CellsOf(s, b) \subseteq Positions(s)
  BY <1>2, CellsFacts
<1>7. SortedInv'
  BY <1>1, <1>4, <1>6 DEF SortedInv
<1> QED
  BY <1>1, <1>5, <1>7 DEF TasksInv

\* Before the parallel region: a text of one or two characters is sorted, and
\* bucketsort puts the suffixes of a longer one in their buckets.
LEMMA PresortArray ==
  ASSUME ParallelInv, SortSmallText \/ bucket_sort
  PROVE  ArrayInv' /\ TasksInv' /\ SortedInv'
<1>1. /\ s' = s /\ sorted' = sorted /\ pool' = pool /\ task' = task /\ place' = place
      /\ master = "begin" /\ master' \in { "done", "lock" }
  BY DEF SortSmallText, bucket_sort
<1>2. /\ TextInv(s) /\ suffix_array = [ c \in Positions(s) |-> c ] /\ sorted = {}
      /\ pool = {} /\ \A th \in Threads : task[th] = NoBucket
  BY <1>1, TextFacts DEF ParallelInv, Inv, TypeOK, ArrayInv, TasksInv
<1>3. ArrayInv'
  <2>1. CASE SortSmallText
    <3>1. master' = "done" /\ suffix_array' = SortedIn(s, suffix_array, Positions(s))
      BY <2>1 DEF SortSmallText
    <3>2. /\ suffix_array' \in [ Positions(s) -> Positions(s) ]
          /\ \A c \in Positions(s) : Rank(s, suffix_array'[c]) = c
      BY <1>2, <3>1, WholeSorted
    <3> QED
      BY <1>1, <3>1, <3>2 DEF ArrayInv
  <2>2. CASE bucket_sort
    <3>1. master' = "lock" /\ suffix_array' = Presorted(s)
      BY <2>2 DEF bucket_sort
    <3>2. InOwnBuckets(s, suffix_array')
      BY <1>2, <3>1, PresortedFacts
    <3> QED
      BY <1>1, <3>1, <3>2 DEF ArrayInv
  <2> QED
    BY <2>1, <2>2
<1>4. \A b \in Buckets : ~IsSorted(b)'
  BY <1>1, <1>2, NoBucketFact DEF IsSorted
<1>5. SortedInv'
  BY <1>4 DEF SortedInv
<1> QED
  BY <1>1, <1>2, <1>3, <1>5 DEF TasksInv

\* A task gets its bucket, the lock, or rid of it.
LEMMA TaskArray ==
  ASSUME ParallelInv, NEW th \in Threads,
         StartTask(th) \/ ReadBounds(th) \/ ReleaseBounds(th) \/ LockAnchors(th) \/ UpdateAnchors(th)
  PROVE  ArrayInv' /\ TasksInv' /\ SortedInv'
<1>1. /\ s' = s /\ suffix_array' = suffix_array /\ master' = master /\ left' = left
      /\ pool' \subseteq pool
  BY DEF StartTask, ReadBounds, ReleaseBounds, LockAnchors, UpdateAnchors
<1>2. task \in [ Threads -> Buckets \cup { NoBucket } ]
      /\ place \in [ Threads -> { "idle", "bounds", "gotBounds", "sort", "anchors", "update" } ]
      /\ \A x \in Threads : place[x] = "idle" <=> task[x] = NoBucket
  BY DEF ParallelInv, Inv, TypeOK, Busy
<1>3. master \notin { "begin", "done" }
  <2>1. pool # {} \/ place[th] # "idle"
    BY DEF StartTask, ReadBounds, ReleaseBounds, LockAnchors, UpdateAnchors
  <2> QED
    BY <1>2, <2>1 DEF ParallelInv, TasksInv
<1>4. \A b \in Buckets : IsSorted(b)' => IsSorted(b)
  <2>1. CASE StartTask(th)
    BY <1>2, <2>1 DEF StartTask, IsSorted
  <2>2. CASE ReadBounds(th) \/ ReleaseBounds(th)
    BY <1>2, <2>2 DEF ReadBounds, ReleaseBounds, IsSorted
  <2>3. CASE LockAnchors(th)
    BY <1>2, <2>3 DEF LockAnchors, IsSorted
  <2>4. CASE UpdateAnchors(th)
    BY <1>2, <2>4, NoBucketFact DEF UpdateAnchors, IsSorted
  <2> QED
    BY <2>1, <2>2, <2>3, <2>4
<1>5. ArrayInv' /\ SortedInv'
  BY <1>1, <1>3, <1>4, ArrayStays
<1> QED
  BY <1>1, <1>3, <1>5 DEF ParallelInv, TasksInv

\* Sorting a bucket rearranges its own cells, and no other thread has it.
LEMMA SortArray ==
  ASSUME ParallelInv, NEW th \in Threads, SortBucket(th)
  PROVE  ArrayInv' /\ TasksInv' /\ SortedInv'
<1> DEFINE b == task[th]
<1>1. /\ s' = s /\ suffix_array' = SortedIn(s, suffix_array, CellsOf(s, b)) /\ master' = master
      /\ left' = left /\ pool' = pool /\ task' = task /\ sorted' = sorted
      /\ place[th] = "sort" /\ place' = [ place EXCEPT ![th] = "anchors" ]
  BY DEF SortBucket
<1>2. /\ TextInv(s)
      /\ task \in [ Threads -> Buckets \cup { NoBucket } ]
      /\ place \in [ Threads -> { "idle", "bounds", "gotBounds", "sort", "anchors", "update" } ]
      /\ \A x \in Threads : place[x] = "idle" <=> task[x] = NoBucket
  BY TextFacts DEF ParallelInv, Inv, TypeOK, Busy
<1>3. b \in Buckets
  BY <1>1, <1>2
<1>4. master \notin { "begin", "done" } /\ InOwnBuckets(s, suffix_array)
  BY <1>1, <1>2 DEF ParallelInv, TasksInv, ArrayInv
<1>5. /\ InOwnBuckets(s, suffix_array')
      /\ \A c \in CellsOf(s, b) : Rank(s, suffix_array'[c]) = c
      /\ \A c \in Positions(s) \ CellsOf(s, b) : suffix_array'[c] = suffix_array[c]
  BY <1>1, <1>2, <1>3, <1>4, BucketSorted
<1>6. \A d \in Buckets : IsSorted(d)' => d = b \/ IsSorted(d)
  BY <1>1, <1>2 DEF IsSorted
<1> HIDE DEF b
<1>7. ArrayInv'
  BY <1>1, <1>4, <1>5 DEF ArrayInv
<1>8. ASSUME NEW d \in Buckets, IsSorted(d)', NEW c \in CellsOf(s, d)
      PROVE  Rank(s, suffix_array'[c]) = c
  <2>1. CASE d = b
    BY <1>5, <1>8, <2>1
  <2>2. CASE d # b
    <3>1. Rank(s, suffix_array[c]) = c
      BY <1>4, <1>6, <1>8, <2>2 DEF ParallelInv, SortedInv
    <3>2. c \in Positions(s) /\ c \notin CellsOf(s, b)
      BY <1>2, <1>3, <2>2, CellsFacts, CellsApart
    <3> QED
      BY <1>5, <3>1, <3>2
  <2> QED
    BY <2>1, <2>2
<1>9. SortedInv'
  BY <1>1, <1>8 DEF SortedInv
<1>10. TasksInv'
  BY <1>1, <1>4 DEF ParallelInv, TasksInv
<1> QED
  BY <1>7, <1>9, <1>10

\* Every step keeps the invariant of the array.
LEMMA NextArray == ParallelInv /\ [Next]_vars => ParallelInv'
<1> SUFFICES ASSUME ParallelInv, [Next]_vars PROVE ParallelInv'
  OBVIOUS
<1>1. Inv'
  BY Step DEF ParallelInv
<1>2. ArrayInv' /\ TasksInv' /\ SortedInv'
  <2>1. CASE SortSmallText \/ bucket_sort
    BY <2>1, PresortArray
  <2>2. CASE MasterLocks \/ TakeSmall \/ TakeBucket \/ MasterUnlocks
    BY <2>2, MasterArray
  <2>3. CASE CreateTask
    BY <2>3, CreateArray
  <2>4. CASE TaskWait
    BY <2>4, WaitArray
  <2>5. CASE \E th \in Threads : sort_bucket(th)
    BY <2>5, TaskArray, SortArray DEF sort_bucket
  <2>6. CASE UNCHANGED vars
    BY <2>6 DEF vars, ParallelInv, ArrayInv, TasksInv, SortedInv, IsSorted
  <2> QED
    BY <2>1, <2>2, <2>3, <2>4, <2>5, <2>6 DEF Next, sort_all_buckets, Terminating
<1> QED
  BY <1>1, <1>2 DEF ParallelInv

\* The invariant of the array holds in every reachable state.
THEOREM ArrayInvariance == Spec => []ParallelInv
  BY InitArray, NextArray, PTL DEF Spec

\* When the master returns, the array is the suffix array: all tasks are over, and
\* neither their order nor what ran at the same time mattered (taskwait,
\* sort_bucket).
THEOREM ParallelDeepShallowCorrect == Spec => []ResultIsSuffixArray
<1>1. ParallelInv => ResultIsSuffixArray
  BY TextFacts, IsSuffixArray DEF ParallelInv, Inv, TypeOK, ArrayInv, ResultIsSuffixArray
<1> QED
  BY <1>1, ArrayInvariance, PTL

===============================================================================
