------------------------- MODULE DeepShallowParallel -------------------------
(***************************************************************************)
(* deep_shallow/saca_run_parallel.hpp.  The master thread takes the        *)
(* buckets from the sorting order and makes a task of each that has two or *)
(* more suffixes; the threads of the team run the tasks.  The anchors and  *)
(* the bucket data are accessed under one lock (writelock).                *)
(*                                                                         *)
(* The master waits at the end (taskwait), and there, like at the creation *)
(* of a task, the runtime may have it run a task itself.  Its place in     *)
(* sort_all_buckets is kept in master while it does.                       *)
(***************************************************************************)
EXTENDS DeepShallowData

CONSTANTS
  Threads,       \* the team
  Master         \* the thread that creates the tasks

Free == "free"   \* no thread

ASSUME TeamAssumption == Master \in Threads /\ Free \notin Threads

VARIABLES
  s,
  suffix_array,
  left,            \* buckets not yet taken from sorting_order
  ad,
  writelock,       \* the thread that holds the lock, or Free
  master,          \* the master's place: "begin", "lock", "take", "unlock",
                   \* "create", "wait" or "done"
  taken,           \* the bucket the master has taken, or NoBucket
  pool,            \* tasks created and not started
  task,            \* per thread: the bucket of the task it runs, or NoBucket
  place,           \* per thread: its place in sort_bucket
  sorted           \* history: buckets whose task is over

vars == << s, suffix_array, left, ad, writelock, master, taken, pool, task, place, sorted >>

n == Len(s)
NoBucket == << >>

Init ==
  /\ s \in Texts
  /\ suffix_array = [ c \in Positions(s) |-> c ]
  /\ left = Buckets
  /\ ad = NoAnchors(s)
  /\ writelock = Free
  /\ master = "begin"
  /\ taken = NoBucket
  /\ pool = {}
  /\ task = [ th \in Threads |-> NoBucket ]
  /\ place = [ th \in Threads |-> "idle" ]
  /\ sorted = {}

-----------------------------------------------------------------------------
(* The constructor and sort_all_buckets, by the master *)

\* Texts of one or two characters are sorted without tasks.
SortSmallText ==
  /\ master = "begin"
  /\ n < 3
  /\ suffix_array' = SortedIn(s, suffix_array, Positions(s))
  /\ master' = "done"
  /\ UNCHANGED << s, left, ad, writelock, taken, pool, task, place, sorted >>

bucket_sort ==
  /\ master = "begin"
  /\ n >= 3
  /\ suffix_array' = Presorted(s)
  /\ master' = "lock"
  /\ UNCHANGED << s, left, ad, writelock, taken, pool, task, place, sorted >>

\* omp_set_lock by thread th.
SetLock(th) == writelock = Free /\ writelock' = th

MasterLocks ==
  /\ master = "lock"
  /\ task[Master] = NoBucket
  /\ SetLock(Master)
  /\ master' = IF left = {} THEN "unlock" ELSE "take"
  /\ UNCHANGED << s, suffix_array, left, ad, taken, pool, task, place, sorted >>

\* Buckets of fewer than two suffixes come first and need no task; here they
\* are taken together.
TakeSmall ==
  LET small == { b \in left : size_of_bucket(s, b) < 2 }
  IN  /\ master = "take"
      /\ small # {}
      /\ left' = left \ small
      /\ writelock' = Free
      /\ master' = "lock"
      /\ UNCHANGED << s, suffix_array, ad, taken, pool, task, place, sorted >>

\* Faulty variant: the lock is kept while the task is created.
TakeBucket_KeepsLock ==
  \E b \in get_smallest_bucket(s, left) :
    /\ master = "take"
    /\ size_of_bucket(s, b) >= 2
    /\ left' = left \ { b }
    /\ taken' = b
    /\ master' = "create"
    /\ UNCHANGED << s, suffix_array, ad, writelock, pool, task, place, sorted >>

TakeBucket ==
  \E b \in get_smallest_bucket(s, left) :
    /\ master = "take"
    /\ size_of_bucket(s, b) >= 2
    /\ left' = left \ { b }
    /\ taken' = b
    /\ writelock' = Free
    /\ master' = "create"
    /\ UNCHANGED << s, suffix_array, ad, pool, task, place, sorted >>

\* The task is queued, or the runtime has the master run it at once.
CreateTask ==
  /\ master = "create"
  /\ master' = "lock"
  /\ taken' = NoBucket
  /\ \/ /\ pool' = pool \cup { taken }
        /\ UNCHANGED << task, place >>
     \/ /\ task' = [ task EXCEPT ![Master] = taken ]
        /\ place' = [ place EXCEPT ![Master] = "bounds" ]
        /\ UNCHANGED pool
  /\ UNCHANGED << s, suffix_array, left, ad, writelock, sorted >>

\* No bucket left: the lock is released and the master waits for the tasks.
MasterUnlocks ==
  /\ master = "unlock"
  /\ writelock' = Free
  /\ master' = "wait"
  /\ UNCHANGED << s, suffix_array, left, ad, taken, pool, task, place, sorted >>

\* Faulty variant: the master does not wait for the tasks.
TaskWait_None ==
  /\ master = "wait"
  /\ task[Master] = NoBucket
  /\ master' = "done"
  /\ UNCHANGED << s, suffix_array, left, ad, writelock, taken, pool, task, place, sorted >>

TaskWait ==
  /\ master = "wait"
  /\ pool = {}
  /\ \A th \in Threads : task[th] = NoBucket
  /\ master' = "done"
  /\ UNCHANGED << s, suffix_array, left, ad, writelock, taken, pool, task, place, sorted >>

-----------------------------------------------------------------------------
(* sort_bucket, by any thread *)

\* Faulty variant: the task stays queued.
StartTask_StaysQueued(th) ==
  \E b \in pool :
    /\ task[th] = NoBucket
    /\ th = Master => master = "wait"
    /\ task' = [ task EXCEPT ![th] = b ]
    /\ place' = [ place EXCEPT ![th] = "bounds" ]
    /\ UNCHANGED << s, suffix_array, left, ad, writelock, master, taken, pool, sorted >>

\* The threads other than the master wait for tasks at the barrier that ends
\* the parallel region; the master takes one at taskwait.
StartTask(th) ==
  \E b \in pool :
    /\ task[th] = NoBucket
    /\ th = Master => master = "wait"
    /\ pool' = pool \ { b }
    /\ task' = [ task EXCEPT ![th] = b ]
    /\ place' = [ place EXCEPT ![th] = "bounds" ]
    /\ UNCHANGED << s, suffix_array, left, ad, writelock, master, taken, sorted >>

\* The bucket's bounds are read under the lock.
ReadBounds(th) ==
  /\ place[th] = "bounds"
  /\ SetLock(th)
  /\ place' = [ place EXCEPT ![th] = "gotBounds" ]
  /\ UNCHANGED << s, suffix_array, left, ad, master, taken, pool, task, sorted >>

ReleaseBounds(th) ==
  /\ place[th] = "gotBounds"
  /\ writelock' = Free
  /\ place' = [ place EXCEPT ![th] = "sort" ]
  /\ UNCHANGED << s, suffix_array, left, ad, master, taken, pool, task, sorted >>

\* The bucket is sorted without the lock: shallow_sort, deep_sort; induced
\* sorting is switched off (try_induced_sort returns false), so that a task
\* reads and writes the cells of its own bucket only.
SortBucket(th) ==
  /\ place[th] = "sort"
  /\ suffix_array' = SortedIn(s, suffix_array, CellsOf(s, task[th]))
  /\ place' = [ place EXCEPT ![th] = "anchors" ]
  /\ UNCHANGED << s, left, ad, writelock, master, taken, pool, task, sorted >>

LockAnchors(th) ==
  /\ place[th] = "anchors"
  /\ SetLock(th)
  /\ place' = [ place EXCEPT ![th] = "update" ]
  /\ UNCHANGED << s, suffix_array, left, ad, master, taken, pool, task, sorted >>

\* Faulty variant: the lock is not released.
UpdateAnchors_KeepsLock(th) ==
  /\ place[th] = "update"
  /\ ad' = update_anchors(s, ad, suffix_array, task[th])
  /\ sorted' = sorted \cup { task[th] }
  /\ task' = [ task EXCEPT ![th] = NoBucket ]
  /\ place' = [ place EXCEPT ![th] = "idle" ]
  /\ UNCHANGED << s, suffix_array, left, writelock, master, taken, pool >>

UpdateAnchors(th) ==
  /\ place[th] = "update"
  /\ ad' = update_anchors(s, ad, suffix_array, task[th])
  /\ writelock' = Free
  /\ sorted' = sorted \cup { task[th] }
  /\ task' = [ task EXCEPT ![th] = NoBucket ]
  /\ place' = [ place EXCEPT ![th] = "idle" ]
  /\ UNCHANGED << s, suffix_array, left, master, taken, pool >>

Terminating == master = "done" /\ UNCHANGED vars

sort_all_buckets ==
  MasterLocks \/ TakeSmall \/ TakeBucket \/ CreateTask \/ MasterUnlocks \/ TaskWait

sort_bucket(th) ==
  \/ StartTask(th) \/ ReadBounds(th) \/ ReleaseBounds(th)
  \/ SortBucket(th) \/ LockAnchors(th) \/ UpdateAnchors(th)

Next ==
  \/ SortSmallText \/ bucket_sort
  \/ sort_all_buckets
  \/ \E th \in Threads : sort_bucket(th)
  \/ Terminating

\* A thread that can go on does; a free lock is not withheld from all of the
\* threads that want it.
Spec == Init /\ [][Next]_vars /\ WF_vars(Next)

-----------------------------------------------------------------------------
(* Properties *)

\* A bucket of two suffixes or more is in one place, and in one only: left,
\* taken, queued, with one thread, or sorted.
EachBucketOnce ==
  /\ \A b \in Buckets : size_of_bucket(s, b) >= 2 =>
       b \in left \cup pool \cup sorted \cup { taken } \cup { task[th] : th \in Threads }
  /\ \A a, b \in Threads : a # b /\ task[a] # NoBucket => task[a] # task[b]
  /\ \A th \in Threads :
       task[th] # NoBucket => task[th] \notin left \cup pool \cup sorted \cup { taken }
  /\ taken # NoBucket => taken \notin left \cup pool \cup sorted
  /\ left \cap pool = {} /\ left \cap sorted = {} /\ pool \cap sorted = {}

\* The lock is with the one thread that is in a critical section, and the
\* master does not hold it when the runtime may have it run a task, which
\* would ask for the lock again.
LockDiscipline ==
  /\ \A th \in Threads :
       place[th] \in { "gotBounds", "update" } => writelock = th
  /\ master \in { "take", "unlock" } => writelock = Master
  /\ master \in { "create", "wait" } /\ task[Master] = NoBucket => writelock # Master

\* When the constructor returns, the array is the suffix array: all tasks have
\* ended, and their order did not matter.
ResultIsSuffixArray == master = "done" => suffix_array = SuffixArray(s)

\* The construction ends: no thread waits for the lock for ever.
Completed == <>(master = "done")

=============================================================================
