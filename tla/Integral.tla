------------------------------- MODULE Integral -------------------------------
(***************************************************************************)
(* L3/Exercise2/integral.c: independent processes that meet in a named     *)
(* shared memory, add batches under a robust mutex that lies in it, count  *)
(* themselves in and out, and remove the names when the count reaches 0.   *)
(* A named semaphore covers only the opening of the memory: its creator    *)
(* zeroes it and initialises the mutex after sem_post.                     *)
(* A name can be removed and created again, so memories are numbered.      *)
(***************************************************************************)
EXTENDS Integers, FiniteSets, Functions

CONSTANTS Procs, Nobody,
          Batches            \* bound: batches of one process (3 in the code)

ProcAssumption  == IsFiniteSet(Procs) /\ Nobody \notin Procs
BatchAssumption == Batches \in Nat

Mems == 1..Cardinality(Procs)        \* every process creates at most one

VARIABLES semName, sems,    \* SEM_NAME: 0 or its semaphore; their values
          shmName, made,    \* SHM_NAME: 0 or its memory; memories made so far
          owner, counter, samples,   \* per memory: obj->mutex, counter, total_samples / N
          pc, sem, mem, first, batch, reg, last,   \* per process; reg: value loaded
          spoilt            \* history: memories initialised after first use

names == <<semName, shmName>>
store == <<owner, counter, samples>>
vars  == <<names, sems, made, store, pc, sem, mem, first, batch, reg, last, spoilt>>

Init ==
    /\ semName = 0 /\ sems = [m \in Mems |-> 1]
    /\ shmName = 0 /\ made = 0
    /\ owner = [m \in Mems |-> Nobody]
    /\ counter = [m \in Mems |-> 0] /\ samples = [m \in Mems |-> 0]
    /\ pc = [p \in Procs |-> "semOpen"]
    /\ sem = [p \in Procs |-> 0] /\ mem = [p \in Procs |-> 0]
    /\ first = [p \in Procs |-> FALSE] /\ last = [p \in Procs |-> FALSE]
    /\ batch = [p \in Procs |-> 0] /\ reg = [p \in Procs |-> 0]
    /\ spoilt = {}

Goto(p, l) == pc' = [pc EXCEPT ![p] = l]
Critical   == {"loadIn", "count", "unlockIn", "loadAdd", "add", "unlockAdd",
               "loadOut", "uncount", "unlockOut"}
Counted(m) == {p \in Procs : mem[p] = m /\ pc[p] \in
                  {"unlockIn", "work", "lockAdd", "lockOut"} \cup
                  (Critical \ {"loadIn", "count", "unlockOut"})}
Used(m)    == {p \in Procs : mem[p] = m /\
                  pc[p] \notin {"ftruncate", "semPost", "memset", "initMutex", "initCounter", "lockIn"}}

-----------------------------------------------------------------------------
(* Opening, under the named semaphore.                                     *)

NextSem == 1 + Cardinality({sem[p] : p \in Procs} \ {0})

\* sem_open with O_EXCL creates the semaphore with value 1 or finds it there.
SemOpen(p) ==
    /\ pc[p] = "semOpen"
    /\ IF semName = 0
         THEN /\ semName' = NextSem
              /\ sem' = [sem EXCEPT ![p] = semName'] /\ Goto(p, "semWait")
         ELSE Goto(p, "semReopen") /\ UNCHANGED <<semName, sem>>
    /\ UNCHANGED <<sems, shmName, made, store, mem, first, batch, reg, last, spoilt>>

\* The second sem_open; ERR when the last process removed the name meanwhile.
SemReopen(p) ==
    /\ pc[p] = "semReopen"
    /\ sem' = [sem EXCEPT ![p] = semName]
    /\ Goto(p, IF semName = 0 THEN "killed" ELSE "semWait")
    /\ UNCHANGED <<names, sems, made, store, mem, first, batch, reg, last, spoilt>>

SemWait(p) ==
    /\ pc[p] = "semWait" /\ sems[sem[p]] > 0
    /\ sems' = [sems EXCEPT ![sem[p]] = @ - 1]
    /\ Goto(p, "shmOpen")
    /\ UNCHANGED <<names, made, store, sem, mem, first, batch, reg, last, spoilt>>

\* shm_open with O_EXCL: the new memory has no bytes yet.
ShmOpen(p) ==
    /\ pc[p] = "shmOpen"
    /\ IF shmName = 0
         THEN /\ shmName' = made + 1 /\ made' = made + 1
              /\ mem' = [mem EXCEPT ![p] = made']
              /\ first' = [first EXCEPT ![p] = TRUE]
              /\ Goto(p, "ftruncate")
         ELSE Goto(p, "shmReopen") /\ UNCHANGED <<shmName, made, mem, first>>
    /\ UNCHANGED <<semName, sems, store, sem, batch, reg, last, spoilt>>

Ftruncate(p) ==
    /\ pc[p] = "ftruncate" /\ Goto(p, "semPost")
    /\ UNCHANGED <<names, sems, made, store, sem, mem, first, batch, reg, last, spoilt>>

Sized(m) == \A p \in Procs : pc[p] = "ftruncate" => mem[p] # m

ShmReopen(p) ==
    /\ pc[p] = "shmReopen"
    /\ mem' = [mem EXCEPT ![p] = shmName]
    /\ IF shmName = 0
         THEN Goto(p, "killed") /\ sems' = [sems EXCEPT ![sem[p]] = @ + 1]
         ELSE Goto(p, "semPost") /\ UNCHANGED sems
    /\ UNCHANGED <<names, made, store, sem, first, batch, reg, last, spoilt>>

\* fault: posted in both branches
SemPostTwice(p) ==
    /\ pc[p] = "semPost"
    /\ sems' = [sems EXCEPT ![sem[p]] = @ + 2]
    /\ Goto(p, IF first[p] THEN "memset" ELSE "lockIn")
    /\ UNCHANGED <<names, made, store, sem, mem, first, batch, reg, last, spoilt>>

SemPost(p) ==
    /\ pc[p] = "semPost"
    /\ sems' = [sems EXCEPT ![sem[p]] = @ + 1]
    /\ Goto(p, IF first[p] THEN "memset" ELSE "lockIn")
    /\ UNCHANGED <<names, made, store, sem, mem, first, batch, reg, last, spoilt>>

Spoil(m) == spoilt' = IF Used(m) = {} THEN spoilt ELSE spoilt \cup {m}

\* Whoever holds the mutex, which is usable zeroed, loses it.
Memset(p) ==
    /\ pc[p] = "memset"
    /\ owner' = [owner EXCEPT ![mem[p]] = Nobody]
    /\ counter' = [counter EXCEPT ![mem[p]] = 0]
    /\ samples' = [samples EXCEPT ![mem[p]] = 0]
    /\ Spoil(mem[p]) /\ Goto(p, "initMutex")
    /\ UNCHANGED <<names, sems, made, sem, mem, first, batch, reg, last>>

\* pthread_mutex_init in init_mutex.
InitMutex(p) ==
    /\ pc[p] = "initMutex"
    /\ owner' = [owner EXCEPT ![mem[p]] = Nobody]
    /\ Spoil(mem[p]) /\ Goto(p, "initCounter")
    /\ UNCHANGED <<names, sems, made, counter, samples, sem, mem, first, batch, reg, last>>

\* obj->counter = 0 at the end of init_mutex.
InitCounter(p) ==
    /\ pc[p] = "initCounter"
    /\ counter' = [counter EXCEPT ![mem[p]] = 0]
    /\ Spoil(mem[p]) /\ Goto(p, "lockIn")
    /\ UNCHANGED <<names, sems, made, owner, samples, sem, mem, first, batch, reg, last>>

-----------------------------------------------------------------------------
(* obj->mutex.  A holder never dies: kill comes from the process itself.   *)
Locked == [lockIn |-> "loadIn", lockAdd |-> "loadAdd", lockOut |-> "loadOut"]
Loaded == [loadIn |-> "count", loadAdd |-> "add", loadOut |-> "uncount"]

\* fault: an error of pthread_mutex_lock is ignored
LockRegardless(p) ==
    /\ pc[p] \in DOMAIN Locked
    /\ owner' = [owner EXCEPT ![mem[p]] = p]
    /\ Goto(p, Locked[pc[p]])
    /\ UNCHANGED <<names, sems, made, counter, samples, sem, mem, first, batch, reg, last, spoilt>>

Lock(p) ==
    /\ pc[p] \in DOMAIN Locked /\ Sized(mem[p])
    /\ owner[mem[p]] = Nobody
    /\ owner' = [owner EXCEPT ![mem[p]] = p]
    /\ Goto(p, Locked[pc[p]])
    /\ UNCHANGED <<names, sems, made, counter, samples, sem, mem, first, batch, reg, last, spoilt>>

\* SIGBUS: the creator holds an older semaphore and has not sized the memory yet.
TouchUnsized(p) ==
    /\ pc[p] = "lockIn" /\ ~Sized(mem[p])
    /\ Goto(p, "killed")
    /\ UNCHANGED <<names, sems, made, store, sem, mem, first, batch, reg, last, spoilt>>

\* EPERM, ignored, when the mutex was re-initialised under its holder.
Release(p) == owner' = IF owner[mem[p]] = p THEN [owner EXCEPT ![mem[p]] = Nobody] ELSE owner

\* The load of counter++, total_samples += N and counter--.
Load(p) ==
    /\ pc[p] \in DOMAIN Loaded
    /\ reg' = [reg EXCEPT ![p] = IF pc[p] = "loadAdd" THEN samples[mem[p]] ELSE counter[mem[p]]]
    /\ Goto(p, Loaded[pc[p]])
    /\ UNCHANGED <<names, sems, made, store, sem, mem, first, batch, last, spoilt>>

Count(p) ==
    /\ pc[p] = "count"
    /\ counter' = [counter EXCEPT ![mem[p]] = reg[p] + 1]
    /\ Goto(p, "unlockIn")
    /\ UNCHANGED <<names, sems, made, owner, samples, sem, mem, first, batch, reg, last, spoilt>>

UnlockIn(p) ==
    /\ pc[p] = "unlockIn"
    /\ Release(p) /\ Goto(p, "work")
    /\ UNCHANGED <<names, sems, made, counter, samples, sem, mem, first, batch, reg, last, spoilt>>

\* while(stop == 0 && batch < 3): SIGINT may set stop at any moment.
Work(p) ==
    /\ pc[p] = "work"
    /\ \/ batch[p] < Batches /\ Goto(p, "lockAdd")
       \/ Goto(p, "lockOut")
    /\ UNCHANGED <<names, sems, made, store, sem, mem, first, batch, reg, last, spoilt>>

Add(p) ==
    /\ pc[p] = "add"
    /\ samples' = [samples EXCEPT ![mem[p]] = reg[p] + 1]
    /\ batch' = [batch EXCEPT ![p] = @ + 1]
    /\ Goto(p, "unlockAdd")
    /\ UNCHANGED <<names, sems, made, owner, counter, sem, mem, first, reg, last, spoilt>>

UnlockAdd(p) ==
    /\ pc[p] = "unlockAdd"
    /\ Release(p) /\ Goto(p, "work")
    /\ UNCHANGED <<names, sems, made, counter, samples, sem, mem, first, batch, reg, last, spoilt>>

\* fault: the last one is recognised before it leaves
UncountEarly(p) ==
    /\ pc[p] = "uncount"
    /\ last' = [last EXCEPT ![p] = counter[mem[p]] = 0]
    /\ counter' = [counter EXCEPT ![mem[p]] = reg[p] - 1]
    /\ Goto(p, "unlockOut")
    /\ UNCHANGED <<names, sems, made, owner, samples, sem, mem, first, batch, reg, spoilt>>

Uncount(p) ==
    /\ pc[p] = "uncount"
    /\ counter' = [counter EXCEPT ![mem[p]] = reg[p] - 1]
    /\ last' = [last EXCEPT ![p] = counter'[mem[p]] = 0]
    /\ Goto(p, "unlockOut")
    /\ UNCHANGED <<names, sems, made, owner, samples, sem, mem, first, batch, reg, spoilt>>

\* fault: every process cleans up
UnlockOutAlways(p) ==
    /\ pc[p] = "unlockOut"
    /\ Release(p) /\ Goto(p, "shmUnlink")
    /\ UNCHANGED <<names, sems, made, counter, samples, sem, mem, first, batch, reg, last, spoilt>>

UnlockOut(p) ==
    /\ pc[p] = "unlockOut"
    /\ Release(p) /\ Goto(p, IF last[p] THEN "shmUnlink" ELSE "exited")
    /\ UNCHANGED <<names, sems, made, counter, samples, sem, mem, first, batch, reg, last, spoilt>>

\* shm_unlink removes whatever memory has the name now, or fails: ERR.
ShmUnlink(p) ==
    /\ pc[p] = "shmUnlink"
    /\ shmName' = 0
    /\ Goto(p, IF shmName = 0 THEN "killed" ELSE "semUnlink")
    /\ UNCHANGED <<semName, sems, made, store, sem, mem, first, batch, reg, last, spoilt>>

SemUnlink(p) ==
    /\ pc[p] = "semUnlink"
    /\ semName' = 0
    /\ Goto(p, IF semName = 0 THEN "killed" ELSE "exited")
    /\ UNCHANGED <<shmName, sems, made, store, sem, mem, first, batch, reg, last, spoilt>>

-----------------------------------------------------------------------------
Step(p) ==
    \/ SemOpen(p) \/ SemReopen(p) \/ SemWait(p) \/ ShmOpen(p) \/ Ftruncate(p) \/ ShmReopen(p)
    \/ SemPost(p) \/ Memset(p) \/ InitMutex(p) \/ InitCounter(p) \/ TouchUnsized(p)
    \/ Lock(p) \/ Load(p) \/ Count(p) \/ UnlockIn(p) \/ Work(p) \/ Add(p) \/ UnlockAdd(p)
    \/ Uncount(p) \/ UnlockOut(p) \/ ShmUnlink(p) \/ SemUnlink(p)

Gone == \A p \in Procs : pc[p] \in {"exited", "killed"}
Over == Gone /\ UNCHANGED vars
Next == (\E p \in Procs : Step(p)) \/ Over

Spec == Init /\ [][Next]_vars

-----------------------------------------------------------------------------
\* The types of the variables.
TypeOK ==
    /\ semName \in Mems \cup {0} /\ shmName \in Mems \cup {0} /\ made \in Mems \cup {0}
    /\ sems \in [Mems -> {0, 1}]
    /\ pc \in [Procs -> Critical \cup
                 {"semOpen", "semReopen", "semWait", "shmOpen", "ftruncate", "shmReopen", "semPost",
                  "memset", "initMutex", "initCounter", "lockIn", "work", "lockAdd", "lockOut",
                  "shmUnlink", "semUnlink", "exited", "killed"}]
    /\ owner \in [Mems -> Procs \cup {Nobody}]
    /\ counter \in [Mems -> Int] /\ samples \in [Mems -> Nat]
    /\ sem \in [Procs -> Mems \cup {0}] /\ mem \in [Procs -> Mems \cup {0}]
    /\ first \in [Procs -> BOOLEAN] /\ last \in [Procs -> BOOLEAN]
    /\ batch \in [Procs -> 0..Batches] /\ reg \in [Procs -> Int] /\ spoilt \subseteq Mems

\* In a memory that was initialised before anyone used it, one process at a
\* time is between lock and unlock.
OneInside ==
    \A p, q \in Procs : p # q /\ pc[p] \in Critical /\ pc[q] \in Critical /\ mem[p] = mem[q]
        => mem[p] \in spoilt

\* ... and the counter is the number of processes that counted themselves in and
\* not yet out: the decision to clean up rests on it.
CounterExact == \A m \in Mems \ spoilt : counter[m] = Cardinality(Counted(m))

Batched(m) == SumFunction([p \in Procs |-> IF mem[p] = m THEN batch[p] ELSE 0])

\* ... and no batch is lost from the totals.
SamplesExact == \A m \in Mems \ spoilt : samples[m] = Batched(m)

\* When every process is gone the names are gone too, unless some process was
\* killed by a failing call or a memory was initialised after first use.
NothingLeaks ==
    Gone /\ spoilt = {} /\ (\A p \in Procs : pc[p] # "killed") => shmName = 0 /\ semName = 0

\* A process is killed only after it lost a race for a name: it found the name
\* and could not open it, or removed it when another one already had, or got the
\* name of a memory from a process that another one's clean-up left with an old
\* semaphore.
KilledByARace ==
    \A p \in Procs : pc[p] = "killed" => \E q \in Procs \ {p} : last[q]
=============================================================================
