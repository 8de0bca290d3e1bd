------------------------------- MODULE Mutex -------------------------------
(***************************************************************************)
(* The mutexes of RT-Thread (src/rt-thread/src/ipc.c): recursive, handed   *)
(* over to the first waiter, and lending the owner the priority of a more  *)
(* urgent waiter.  A smaller number is a more urgent priority.             *)
(*                                                                         *)
(* A region with interrupts disabled is one action.  Any thread that does  *)
(* not wait may run: the scheduler, which runs the most urgent one, has a  *)
(* module of its own.                                                      *)
(***************************************************************************)
EXTENDS RtList, FiniteSetsExt

CONSTANTS
    Thread, Mutex, Nobody,
    Priority,       \* the priority each thread is given when it is created
    PrioFlag,       \* the mutexes of RT_IPC_FLAG_PRIO; the others are FIFO
    Nests,          \* <<k, m>>: m may be taken by a thread that holds k
    Removable,      \* the mutexes that their owner may detach
    InOrder,        \* whether what is taken last is released first
    MaxTakes        \* bound: the takes a thread has not released

\* hold is a byte.
ASSUME MutexAssumption ==
    /\ Nobody \notin Thread \cup Mutex
    /\ Priority \in [Thread -> Nat]
    /\ PrioFlag \subseteq Mutex /\ Removable \subseteq Mutex
    /\ Nests \subseteq Mutex \X Mutex
    /\ InOrder \in BOOLEAN
    /\ MaxTakes \in 1 .. 255

VARIABLES
    value, owner, original_priority, hold, suspend_thread,     \* of each mutex
    object,             \* the mutexes that are not detached
    current_priority,   \* of each thread
    error,              \* of each thread
    timed,              \* the threads whose timer runs
    pc,                 \* where each thread is in a call, and on which mutex
    taken               \* the takes that returned RT_EOK to each thread and that
                        \* it has not released, the last one first

mutexVars == <<value, owner, original_priority, hold>>
waitVars == <<suspend_thread, error, timed>>
vars == <<mutexVars, waitVars, object, current_priority, pc, taken>>

-----------------------------------------------------------------------------
Waits(t) == \E m \in Mutex : t \in ToSet(suspend_thread[m])
At(t, step) == pc[t].at = step /\ ~Waits(t)
Call(t, step, m) == pc' = [pc EXCEPT ![t] = [at |-> step, obj |-> m]]
Return(t) == pc' = [pc EXCEPT ![t] = [at |-> "run", obj |-> Nobody]]

\* The callers: a thread takes what it owns, or what may be taken inside everything
\* it holds, and nothing that is being detached.
MayTake(t, m) ==
    /\ At(t, "run") /\ m \in object
    /\ \A u \in Thread : pc[u] # [at |-> "wake", obj |-> m]
    /\ owner[m] = t \/ \A k \in ToSet(taken[t]) : <<k, m>> \in Nests
    /\ Len(taken[t]) < MaxTakes

Took(t, m) == taken' = [taken EXCEPT ![t] = <<m>> \o @]

-----------------------------------------------------------------------------
(* Parts of the calls.  (A "Mutant" is a wrong version of the definition    *)
(* after it; no action uses one.)                                           *)

\* The place of t in the suspend list of m: behind every waiter, or in front of the
\* first that is less urgent.
MutantPlace(list, t, m) == Len(list) + 1
Place(list, t, m) ==
    LET later == {i \in DOMAIN list :
                    m \in PrioFlag /\ current_priority[t] < current_priority[list[i]]}
    IN  IF later = {} THEN Len(list) + 1 ELSE Min(later)

\* rt_thread_resume, of the first waiter of m: its timer is stopped.
MutantResume(m) ==      \* it is not
    /\ suspend_thread' = [suspend_thread EXCEPT ![m] = Tail(@)]
    /\ UNCHANGED timed
Resume(m) ==
    /\ suspend_thread' = [suspend_thread EXCEPT ![m] = Tail(@)]
    /\ timed' = timed \ {Head(suspend_thread[m])}

\* RT_THREAD_CTRL_CHANGE_PRIORITY.  A waiter is not moved in its suspend list.
ChangePriority(t, p) == current_priority' = [current_priority EXCEPT ![t] = p]

MutantBoosts(t, m) == current_priority[t] > current_priority[owner[m]]
Boosts(t, m) == current_priority[t] < current_priority[owner[m]]

\* t becomes the owner, with the priority it has; n is hold until then.
MutantOwn(t, m, n) ==   \* it does not count as a take
    /\ owner' = [owner EXCEPT ![m] = t]
    /\ original_priority' = [original_priority EXCEPT ![m] = current_priority[t]]
    /\ hold' = [hold EXCEPT ![m] = n]
Own(t, m, n) ==
    /\ owner' = [owner EXCEPT ![m] = t]
    /\ original_priority' = [original_priority EXCEPT ![m] = current_priority[t]]
    /\ hold' = [hold EXCEPT ![m] = n + 1]

-----------------------------------------------------------------------------
(* rt_mutex_take.                                                          *)

Init ==
    /\ value = [m \in Mutex |-> 1]
    /\ owner = [m \in Mutex |-> Nobody]
    /\ original_priority = [m \in Mutex |-> 255]
    /\ hold = [m \in Mutex |-> 0]
    /\ suspend_thread = [m \in Mutex |-> <<>>]
    /\ object = Mutex
    /\ current_priority = Priority
    /\ error = [t \in Thread |-> "ok"]
    /\ timed = {}
    /\ pc = [t \in Thread |-> [at |-> "run", obj |-> Nobody]]
    /\ taken = [t \in Thread |-> <<>>]

TakeOwn(t, m) ==
    /\ MayTake(t, m) /\ owner[m] = t
    /\ error' = [error EXCEPT ![t] = "ok"]
    /\ hold' = [hold EXCEPT ![m] = @ + 1]
    /\ Took(t, m)
    /\ UNCHANGED <<value, owner, original_priority, suspend_thread, timed, object,
                   current_priority, pc>>

TakeFree(t, m) ==
    /\ MayTake(t, m) /\ owner[m] # t
    /\ value[m] > 0
    /\ error' = [error EXCEPT ![t] = "ok"]
    /\ value' = [value EXCEPT ![m] = @ - 1]
    /\ Own(t, m, hold[m])
    /\ Took(t, m)
    /\ UNCHANGED <<suspend_thread, timed, object, current_priority, pc>>

\* time = 0
TakeFails(t, m) ==
    /\ MayTake(t, m) /\ owner[m] # t
    /\ value[m] = 0
    /\ error' = [error EXCEPT ![t] = "timeout"]
    /\ UNCHANGED <<mutexVars, suspend_thread, timed, object, current_priority, pc, taken>>

\* time > 0, or RT_WAITING_FOREVER: the owner gets the priority of a more urgent
\* thread, and the thread is suspended.
TakeWaits(t, m) ==
    /\ MayTake(t, m) /\ owner[m] # t
    /\ value[m] = 0
    /\ error' = [error EXCEPT ![t] = "ok"]
    /\ IF Boosts(t, m) THEN ChangePriority(owner[m], current_priority[t])
                       ELSE UNCHANGED current_priority
    /\ suspend_thread' = [suspend_thread EXCEPT ![m] = InsertAt(@, Place(@, t, m), t)]
    /\ timed' \in {timed, timed \cup {t}}
    /\ Call(t, "taking", m)
    /\ UNCHANGED <<mutexVars, object, taken>>

\* The tick interrupt finds that t has waited long enough: rt_thread_timeout.
Timeout(t) ==
    /\ t \in timed
    /\ timed' = timed \ {t}
    /\ error' = [error EXCEPT ![t] = "timeout"]
    /\ suspend_thread' = [m \in Mutex |-> Unlink(suspend_thread[m], t)]
    /\ UNCHANGED <<mutexVars, object, current_priority, pc, taken>>

\* The thread runs again, and looks at its error.
TakeReturns(t) ==
    /\ At(t, "taking")
    /\ IF error[t] = "ok" THEN Took(t, pc[t].obj) ELSE UNCHANGED taken
    /\ Return(t)
    /\ UNCHANGED <<mutexVars, waitVars, object, current_priority>>

-----------------------------------------------------------------------------
(* rt_mutex_release.                                                       *)

\* The callers: of the mutexes that a thread has taken, the last one.
MayRelease(t, m) ==
    /\ At(t, "run") /\ m \in object
    /\ InOrder /\ owner[m] = t => Head(taken[t]) = m

Released(t, m) ==
    LET last == Min({i \in DOMAIN taken[t] : taken[t][i] = m})
    IN  taken' = [taken EXCEPT ![t] = RemoveAt(@, last)]

\* hold after one release.
Less(m) == (hold[m] - 1) % 256

ReleaseFails(t, m) ==
    /\ MayRelease(t, m)
    /\ t # owner[m]
    /\ error' = [error EXCEPT ![t] = "error"]
    /\ UNCHANGED <<mutexVars, suspend_thread, timed, object, current_priority, pc, taken>>

ReleaseHeld(t, m) ==
    /\ MayRelease(t, m)
    /\ t = owner[m] /\ Less(m) > 0
    /\ hold' = [hold EXCEPT ![m] = Less(m)]
    /\ Released(t, m)
    /\ UNCHANGED <<value, owner, original_priority, waitVars, object, current_priority, pc>>

\* The last release of an owner, which gets its priority back...
MutantRestore(t, m) == UNCHANGED current_priority
Restore(t, m) == ChangePriority(t, original_priority[m])

MutantGive(m) ==        \* the first waiter is woken to take it, and anyone may
    /\ value' = [value EXCEPT ![m] = @ + 1]
    /\ owner' = [owner EXCEPT ![m] = Nobody]
    /\ hold' = [hold EXCEPT ![m] = 0]
    /\ original_priority' = [original_priority EXCEPT ![m] = 255]
    /\ Resume(m)

\* ...hands the mutex over...
Give(m) ==
    /\ Own(Head(suspend_thread[m]), m, Less(m))
    /\ Resume(m)
    /\ UNCHANGED value

ReleaseGives(t, m) ==
    /\ MayRelease(t, m)
    /\ t = owner[m] /\ Less(m) = 0
    /\ suspend_thread[m] # <<>>
    /\ Restore(t, m)
    /\ Give(m)
    /\ Released(t, m)
    /\ UNCHANGED <<error, object, pc>>

\* ...or leaves it free.
ReleaseFrees(t, m) ==
    /\ MayRelease(t, m)
    /\ t = owner[m] /\ Less(m) = 0
    /\ suspend_thread[m] = <<>>
    /\ Restore(t, m)
    /\ hold' = [hold EXCEPT ![m] = 0]
    /\ value' = [value EXCEPT ![m] = @ + 1]
    /\ owner' = [owner EXCEPT ![m] = Nobody]
    /\ original_priority' = [original_priority EXCEPT ![m] = 255]
    /\ Released(t, m)
    /\ UNCHANGED <<waitVars, object, pc>>

-----------------------------------------------------------------------------
(* rt_mutex_detach, rt_mutex_delete: the waiters are woken, each in a region *)
(* of its own, and the object is removed.                                    *)

\* The callers: the owner, and while nobody waits with a timeout, because whether there
\* is a waiter is looked at before the region that resumes it (see Ipc).
Detach(t, m) ==
    /\ At(t, "run") /\ m \in object \cap Removable
    /\ owner[m] = t
    /\ ToSet(suspend_thread[m]) \cap timed = {}
    /\ Call(t, "wake", m)
    /\ UNCHANGED <<mutexVars, waitVars, object, current_priority, taken>>

WakeOne(t) ==
    LET m == pc[t].obj
    IN  /\ At(t, "wake")
        /\ suspend_thread[m] # <<>>
        /\ error' = [error EXCEPT ![Head(suspend_thread[m])] = "error"]
        /\ Resume(m)
        /\ UNCHANGED <<mutexVars, object, current_priority, pc, taken>>

Drop(t) ==
    /\ At(t, "wake")
    /\ suspend_thread[pc[t].obj] = <<>>
    /\ object' = object \ {pc[t].obj}
    /\ Return(t)
    /\ UNCHANGED <<mutexVars, waitVars, current_priority, taken>>

-----------------------------------------------------------------------------
Take(t, m) == TakeOwn(t, m) \/ TakeFree(t, m) \/ TakeFails(t, m) \/ TakeWaits(t, m)
Release(t, m) ==
    ReleaseFails(t, m) \/ ReleaseHeld(t, m) \/ ReleaseGives(t, m) \/ ReleaseFrees(t, m)

Next == \E t \in Thread :
    \/ Timeout(t) \/ TakeReturns(t) \/ WakeOne(t) \/ Drop(t)
    \/ \E m \in Mutex : Take(t, m) \/ Release(t, m) \/ Detach(t, m)

Spec == Init /\ [][Next]_vars

-----------------------------------------------------------------------------
(* Properties.                                                             *)

TypeOK ==
    /\ value \in [Mutex -> 0 .. 1]
    /\ owner \in [Mutex -> Thread \cup {Nobody}]
    /\ original_priority \in [Mutex -> {Priority[t] : t \in Thread} \cup {255}]
    /\ hold \in [Mutex -> 0 .. MaxTakes]
    /\ suspend_thread \in [Mutex -> Seq(Thread)]
    /\ object \subseteq Mutex
    /\ current_priority \in [Thread -> {Priority[t] : t \in Thread}]
    /\ error \in [Thread -> {"ok", "timeout", "error"}]
    /\ timed \subseteq Thread
    /\ pc \in [Thread -> [at : {"run", "taking", "wake"}, obj : Mutex \cup {Nobody}]]
    /\ taken \in [Thread -> Seq(Mutex)]

\* A thread that rt_mutex_take returned RT_EOK to, more often than it has released,
\* is the owner, alone, and hold counts its takes, the one it is about to return from
\* included; a mutex without an owner is free.
Takes(t, m) == Cardinality({i \in DOMAIN taken[t] : taken[t][i] = m})
Arriving(t, m) == pc[t] = [at |-> "taking", obj |-> m] /\ ~Waits(t) /\ error[t] = "ok"
TakersOwn ==
    \A m \in Mutex :
       /\ \A t \in Thread : Takes(t, m) > 0 \/ Arriving(t, m) => owner[m] = t
       /\ IF owner[m] = Nobody
          THEN value[m] = 1 /\ hold[m] = 0
          ELSE /\ value[m] = 0
               /\ hold[m] = Takes(owner[m], m) + IF Arriving(owner[m], m) THEN 1 ELSE 0

\* A hand-over, a timeout and a detach race for a waiter: who stops waiting without
\* an error has been made the owner, who has one has not, and nobody waits for a
\* mutex that nobody will release.
WaitEndsOnce ==
    /\ \A t \in Thread, m \in Mutex :
          pc[t] = [at |-> "taking", obj |-> m] /\ ~Waits(t) => (error[t] = "ok" <=> owner[m] = t)
    /\ \A m \in Mutex : suspend_thread[m] # <<>> =>
          m \in object /\ owner[m] # Nobody /\ owner[m] \notin ToSet(suspend_thread[m])

\* "change the owner thread to original priority" (rt_mutex_release): a thread that
\* owns no mutex has the priority it was given.
PriorityRestored ==
    \A t \in Thread : (\A m \in Mutex : owner[m] # t) => current_priority[t] = Priority[t]

\* "change the owner thread priority of mutex" (rt_mutex_take): the owner of a mutex
\* of RT_IPC_FLAG_PRIO that is never held together with another one is as urgent as
\* every waiter, after a hand-over too.
HeldAlone(m) == \A k \in Mutex : <<k, m>> \notin Nests /\ <<m, k>> \notin Nests
OwnerInherits ==
    \A m \in PrioFlag : HeldAlone(m) =>
       \A t \in ToSet(suspend_thread[m]) : current_priority[owner[m]] <= current_priority[t]

\* A mutex passes from its owner to the waiter whose turn it is: the most urgent one,
\* or the first of a FIFO mutex; nobody who was not waiting gets in between.
Turn(t, m) ==
    LET waiters == ToSet(suspend_thread[m])
    IN  IF waiters = {} THEN owner[m] = Nobody
        ELSE /\ t \in waiters
             /\ m \in PrioFlag /\ HeldAlone(m) => \A u \in waiters : Priority[t] <= Priority[u]
             /\ m \notin PrioFlag => t = Head(suspend_thread[m])
PassedInTurn ==
    [][\A m \in Mutex : owner'[m] \notin {owner[m], Nobody} => Turn(owner'[m], m)]_vars

=============================================================================
