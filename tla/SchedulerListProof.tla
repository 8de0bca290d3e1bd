------------------------- MODULE SchedulerListProof -------------------------
(***************************************************************************)
(* The lists of Scheduler, for every value of its constants: every thread  *)
(* is linked where its status says, none is lost, the bitmap agrees with   *)
(* the queues, rt_schedule always finds a thread, no switch is owed, and    *)
(* nobody in a ready queue is overtaken.                                    *)
(***************************************************************************)
EXTENDS SchedulerProof

USE DEF Object, Worker

-----------------------------------------------------------------------------
(* The inductive invariant.  Beside the properties it says what is true in  *)
(* the middle of a call on another thread, and of the current thread.       *)

\* t is on no list.
Off(t) ==
    /\ t \notin waiting \cup timer \cup ToSet(thread_defunct)
    /\ \A p \in Priority : t \notin ToSet(priority_table[p])

\* m may be in the middle of a call on t: nobody else is, and m is READY, or it is
\* the idle thread that frees t.
Caller(m, t) ==
    /\ t \in Thread \ {Idle}
    /\ \A n \in Thread : pc[n].obj = t => n = m
    /\ IF m = Idle THEN pc[m].at = "free" /\ t \notin Static
       ELSE pc[m].at # "free" /\ <<m, t>> \in Manages /\ stat[m] = "ready"

\* What m finds when it goes on.  The caller is more urgent than t, except in
\* rt_thread_startup, which finds t on no list and ends with rt_schedule.
Found(m, t) ==
    /\ pc[m].at \in {"unlink", "insert"} => stat[t] \in {"ready", "suspend"}
    /\ pc[m].at = "suspend" => stat[t] = "ready"
    /\ pc[m].at = "close" => stat[t] # "none"
    /\ pc[m].at \in {"bury", "free"} => stat[t] = "close"
    /\ pc[m].at \in {"insert", "close", "bury", "free"} => Off(t)
    /\ m # Idle => \/ current_priority[m] < current_priority[t]
                   \/ /\ pc[m].at \in {"unlink", "insert"} /\ pc[m].ret = "sched"
                      /\ stat[t] = "suspend" /\ t \notin waiting \cup timer

Calls ==
    /\ \A m \in Thread : pc[m].at \in {"run", "sched"} <=> pc[m].obj = Nobody
    /\ \A m, t \in Thread : pc[m].obj = t => Caller(m, t) /\ Found(m, t)

\* A thread does not run while another one is in the middle of a call on it.
NotRunning ==
    \A m \in Thread : pc[m].obj # Nobody => pc[m].obj \notin {on_cpu, rt_current_thread}

\* The current thread is READY, or it is about to call rt_schedule or has locked
\* the scheduler.
Runner ==
    rt_current_thread # Nobody =>
       \/ stat[rt_current_thread] = "ready"
       \/ /\ stat[rt_current_thread] = "suspend"
          /\ pc[rt_current_thread].at = "sched" \/ scheduler_lock_nest > 0
       \/ /\ stat[rt_current_thread] \in {"close", "none"}
          /\ pc[rt_current_thread].at = "sched" /\ scheduler_lock_nest = 0

\* The control block of a thread that is freed is not in use.
FreedOff == \A t \in Thread \ Static : stat[t] = "none" => t \notin {on_cpu, rt_current_thread}

IdleReady == stat[Idle] = "ready"

\* The parts of LinkedWhereStatSays.
Queued ==
    \A p \in Priority :
       /\ IsInjective(priority_table[p])
       /\ \A t \in ToSet(priority_table[p]) : stat[t] = "ready" /\ current_priority[t] = p
Sleeping == \A t \in waiting \cup timer : stat[t] = "suspend"
Buried ==
    /\ IsInjective(thread_defunct)
    /\ \A t \in ToSet(thread_defunct) : stat[t] = "close" /\ ~InCall(t, {"close", "bury"})

Structure ==
    /\ TypeInv
    /\ Queued /\ Sleeping /\ Buried
    /\ NoThreadLost /\ GroupMatchesTable
    /\ Calls /\ IdleReady
Running == SwitchSavesRunner /\ NotRunning /\ Runner /\ FreedOff
ListInv == Structure /\ Running

-----------------------------------------------------------------------------
(* The queues.                                                             *)

LEMMA EmptyList ==
    ASSUME NEW q \in Seq(Thread)
    PROVE  /\ q = <<>> <=> ToSet(q) = {}
           /\ q # <<>> => Head(q) \in ToSet(q)
<1>1. /\ Len(q) \in Nat /\ DOMAIN q = 1 .. Len(q)
      /\ q = <<>> <=> Len(q) = 0
  BY LenProperties, EmptySeq
<1>2. q # <<>> => 1 \in DOMAIN q /\ Head(q) = q[1]
  BY <1>1
<1>3. q # <<>> => Head(q) \in ToSet(q)
  BY <1>2 DEF ToSet
<1>4. q = <<>> => ToSet(q) = {}
  BY <1>1 DEF ToSet
<1> QED BY <1>3, <1>4

LEMMA QueueMembers ==
    ASSUME TypeOK, NEW p \in Priority
    PROVE  priority_table[p] \in Seq(Thread) /\ ToSet(priority_table[p]) \subseteq Thread
BY ListMembers DEF TypeOK

LEMMA QueueMembersNext ==
    ASSUME TypeOK', NEW p \in Priority
    PROVE  priority_table'[p] \in Seq(Thread) /\ ToSet(priority_table'[p]) \subseteq Thread
BY ListMembers DEF TypeOK

LEMMA DefunctMembers ==
    /\ TypeOK => ToSet(thread_defunct) \subseteq Thread
    /\ TypeOK' => ToSet(thread_defunct') \subseteq Thread
BY ListMembers DEF TypeOK

\* rt_list_remove(&t->tlist), whichever queue t is on.
LEMMA QueuesUnlinked ==
    ASSUME TypeOK, Queued, NEW t \in Thread, NEW p \in Priority
    PROVE  /\ Unlinked(priority_table, t)[p] \in Seq(Thread)
           /\ IsInjective(Unlinked(priority_table, t)[p])
           /\ ToSet(Unlinked(priority_table, t)[p]) = ToSet(priority_table[p]) \ {t}
           /\ p # current_priority[t] => Unlinked(priority_table, t)[p] = priority_table[p]
           /\ stat[t] # "ready" => Unlinked(priority_table, t)[p] = priority_table[p]
<1> DEFINE q == priority_table[p]
<1>1. q \in Seq(Thread) /\ IsInjective(q)
  BY QueueMembers DEF Queued
<1>2. Unlinked(priority_table, t)[p] = Unlink(q, t)
  BY DEF Unlinked
<1>3. t \notin ToSet(q) => Unlink(q, t) = q
  BY DEF Unlink
<1>4. p # current_priority[t] \/ stat[t] # "ready" => t \notin ToSet(q)
  BY DEF Queued
<1>5. /\ Unlink(q, t) \in Seq(Thread)
      /\ IsInjective(Unlink(q, t))
      /\ ToSet(Unlink(q, t)) = ToSet(q) \ {t}
  BY <1>1, UnlinkElements
<1> QED BY <1>2, <1>3, <1>4, <1>5

\* rt_schedule_insert_thread of a thread that is on no queue.
LEMMA QueuesInserted ==
    ASSUME TypeOK, Queued, NEW t \in Thread, InsertThread(t),
           t \notin ToSet(priority_table[current_priority[t]]), NEW p \in Priority
    PROVE  /\ IsInjective(priority_table'[p])
           /\ ToSet(priority_table'[p]) =
                 ToSet(priority_table[p]) \cup IF p = current_priority[t] THEN {t} ELSE {}
           /\ p # current_priority[t] => priority_table'[p] = priority_table[p]
           /\ p = current_priority[t] => priority_table'[p] # <<>>
<1> DEFINE q == priority_table[current_priority[t]]
<1>1. current_priority[t] \in Priority /\ priority_table \in [Priority -> Seq(Thread)]
  BY DEF TypeOK
<1>2. q \in Seq(Thread) /\ IsInjective(q)
  BY <1>1 DEF Queued
<1>3. /\ IsInjective(Enqueue(q, t))
      /\ ToSet(Enqueue(q, t)) = ToSet(q) \cup {t}
      /\ Enqueue(q, t) # <<>>
  BY <1>2, EnqueueElements
<1>4. priority_table' = [priority_table EXCEPT ![current_priority[t]] = Enqueue(q, t)]
  BY DEF InsertThread
<1> HIDE DEF q
<1>5. CASE p = current_priority[t]
  BY <1>1, <1>3, <1>4, <1>5 DEF q
<1>6. CASE p # current_priority[t]
  BY <1>1, <1>4, <1>6 DEF Queued
<1> QED BY <1>5, <1>6

-----------------------------------------------------------------------------
(* Calls.                                                                  *)

LEMMA AfterGoto ==
    ASSUME TypeOK, NEW m \in Thread, NEW step, Goto(m, step)
    PROVE  /\ pc'[m].at = step /\ pc'[m].obj = Nobody
           /\ \A x \in Thread \ {m} : pc'[x] = pc[x]
BY DEF TypeOK, Goto, AtRest

LEMMA AfterCall ==
    ASSUME TypeOK, NEW m \in Thread, NEW step, NEW t, NEW ret, Call(m, step, t, ret)
    PROVE  /\ pc'[m].at = step /\ pc'[m].obj = t /\ pc'[m].ret = ret
           /\ \A x \in Thread \ {m} : pc'[x] = pc[x]
BY DEF TypeOK, Call

\* The thread whose code runs is the current one, and no other works on it.
LEMMA WhoRuns ==
    ASSUME ListInv, NEW t \in Thread, NEW step, At(t, step)
    PROVE  /\ rt_current_thread = t /\ on_cpu = t /\ pc[t].at = step /\ t # Nobody
           /\ \A m \in Thread : pc[m].obj # t
           /\ step \in {"run", "sched"} => pc[t].obj = Nobody
<1>1. rt_current_thread = t /\ on_cpu = t /\ pc[t].at = step
  BY DEF ListInv, Running, SwitchSavesRunner, At, Runs
<1>2. t # Nobody
  BY SchedulerAssumption
<1> QED BY <1>1, <1>2 DEF ListInv, Structure, Running, NotRunning, Calls

\* A step of a thread that is in no call on another one leaves those calls alone.
LEMMA SameCalls ==
    ASSUME TypeOK, NEW t \in Thread, pc[t].obj = Nobody, NEW step, Goto(t, step)
    PROVE  /\ \A m \in Thread : pc'[m].obj = pc[m].obj
           /\ \A m \in Thread : pc[m].obj # Nobody => pc'[m] = pc[m]
           /\ \A u \in Thread, steps \in SUBSET Step : InCall(u, steps)' <=> InCall(u, steps)
<1>1. /\ \A m \in Thread : pc'[m].obj = pc[m].obj
      /\ \A m \in Thread : pc[m].obj # Nobody => pc'[m] = pc[m]
  BY AfterGoto
<1>2. ASSUME NEW u \in Thread, NEW steps \in SUBSET Step
      PROVE  InCall(u, steps)' <=> InCall(u, steps)
  <2>1. u # Nobody
    BY SchedulerAssumption
  <2>2. InCall(u, steps)' = \E m \in Thread : pc'[m].obj = u /\ pc'[m].at \in steps
    BY DEF InCall
  <2> QED BY <1>1, <2>1, <2>2 DEF InCall
<1> QED BY <1>1, <1>2

\* rt_schedule_remove_thread keeps the queues and the bitmap right.
LEMMA RemoveKeeps ==
    ASSUME Structure, TypeInv', NEW t \in Thread, RemoveThread(t),
           ~InCall(t, {"insert"}), current_priority' = current_priority,
           \A u \in Thread \ {t} : stat'[u] = stat[u],
           \A m \in Thread : pc[m].at = "insert" => pc'[m] = pc[m]
    PROVE  /\ Queued' /\ GroupMatchesTable'
           /\ \A p \in Priority : ToSet(priority_table'[p]) = ToSet(priority_table[p]) \ {t}
<1>1. TypeOK /\ Queued /\ TypeOK'
  BY DEF Structure, TypeInv
<1>2. priority_table' = Unlinked(priority_table, t)
  BY DEF RemoveThread
<1>3. \A p \in Priority :
         /\ IsInjective(priority_table'[p])
         /\ ToSet(priority_table'[p]) = ToSet(priority_table[p]) \ {t}
         /\ p # current_priority[t] => priority_table'[p] = priority_table[p]
  BY <1>1, <1>2, QueuesUnlinked
<1>4. Queued'
  BY <1>1, <1>3, QueueMembers DEF Queued
<1>5. ready_priority_group' = IF priority_table'[current_priority[t]] = <<>>
                              THEN ready_priority_group \ {current_priority[t]}
                              ELSE ready_priority_group
  BY DEF RemoveThread, GroupAfter
<1>6. ASSUME NEW p \in Priority, priority_table'[p] # <<>>
      PROVE  p \in ready_priority_group'
  <2>1. priority_table[p] \in Seq(Thread) /\ priority_table'[p] \in Seq(Thread)
    BY <1>1 DEF TypeOK
  <2>2. priority_table[p] # <<>>
    BY <1>3, <1>6, <2>1, EmptyList
  <2> QED BY <1>5, <1>6, <2>2 DEF Structure, GroupMatchesTable
<1>7. ASSUME NEW p \in ready_priority_group', priority_table'[p] = <<>>
      PROVE  \E u \in Thread : current_priority'[u] = p /\ stat'[u] = "ready"
                               /\ InCall(u, {"insert"})'
  <2>1. p \in ready_priority_group /\ p \in Priority /\ p # current_priority[t]
    BY <1>1, <1>5, <1>7 DEF TypeOK
  <2>2. priority_table[p] = <<>>
    BY <1>3, <1>7, <2>1
  <2>3. PICK u \in Thread : current_priority[u] = p /\ stat[u] = "ready" /\ InCall(u, {"insert"})
    BY <2>1, <2>2 DEF Structure, GroupMatchesTable
  <2>4. InCall(u, {"insert"})'
    BY <2>3 DEF InCall
  <2> QED BY <2>1, <2>3, <2>4
<1> QED BY <1>3, <1>4, <1>6, <1>7 DEF GroupMatchesTable

\* rt_schedule_insert_thread, of a thread that is on no queue, does so too.
LEMMA InsertKeeps ==
    ASSUME Structure, TypeInv', NEW t \in Thread, InsertThread(t),
           \A p \in Priority : t \notin ToSet(priority_table[p]),
           current_priority' = current_priority,
           \A m \in Thread : pc[m].at = "insert" => pc'[m] = pc[m] \/ pc[m].obj = t
    PROVE  /\ Queued' /\ GroupMatchesTable'
           /\ \A p \in Priority : ToSet(priority_table'[p]) =
                 ToSet(priority_table[p]) \cup IF p = current_priority[t] THEN {t} ELSE {}
<1>1. TypeOK /\ Queued /\ TypeOK' /\ current_priority[t] \in Priority
  BY DEF Structure, TypeInv, TypeOK
<1>2. stat'[t] = "ready" /\ \A u \in Thread \ {t} : stat'[u] = stat[u]
  BY <1>1 DEF InsertThread, TypeOK
<1>3. \A p \in Priority :
         /\ IsInjective(priority_table'[p])
         /\ ToSet(priority_table'[p]) =
               ToSet(priority_table[p]) \cup IF p = current_priority[t] THEN {t} ELSE {}
         /\ p # current_priority[t] => priority_table'[p] = priority_table[p]
         /\ p = current_priority[t] => priority_table'[p] # <<>>
  BY <1>1, QueuesInserted
<1>4. Queued'
  BY <1>1, <1>2, <1>3, QueueMembers DEF Queued
<1>5. ready_priority_group' = ready_priority_group \cup {current_priority[t]}
  BY DEF InsertThread
<1>6. \A p \in Priority : priority_table'[p] # <<>> => p \in ready_priority_group'
  BY <1>3, <1>5 DEF Structure, GroupMatchesTable
<1>7. ASSUME NEW p \in ready_priority_group', priority_table'[p] = <<>>
      PROVE  \E u \in Thread : current_priority'[u] = p /\ stat'[u] = "ready"
                               /\ InCall(u, {"insert"})'
  <2>1. p \in ready_priority_group /\ p \in Priority /\ p # current_priority[t]
    BY <1>1, <1>3, <1>5, <1>7 DEF TypeOK
  <2>2. PICK u \in Thread : current_priority[u] = p /\ stat[u] = "ready" /\ InCall(u, {"insert"})
    BY <1>3, <1>7, <2>1 DEF Structure, GroupMatchesTable
  <2>3. InCall(u, {"insert"})'
    BY <2>1, <2>2 DEF InCall
  <2> QED BY <1>2, <2>1, <2>2, <2>3
<1> QED BY <1>3, <1>4, <1>6, <1>7 DEF GroupMatchesTable

\* What the callers have found stays as it is, though a waiter may be resumed.
LEMMA CallsKept ==
    ASSUME Structure, current_priority' = current_priority,
           \A m \in Thread : /\ pc'[m].obj = pc[m].obj
                             /\ pc'[m].at \in {"run", "sched"} <=> pc'[m].obj = Nobody
                             /\ pc[m].obj # Nobody => /\ pc'[m] = pc[m]
                                                      /\ stat[m] = "ready" => stat'[m] = "ready",
           \A m, t \in Thread : pc[m].obj = t =>
              /\ \/ stat'[t] = stat[t]
                 \/ t \in waiting \cup timer /\ stat'[t] = "ready"
              /\ Off(t) => Off(t)'
              /\ t \notin waiting \cup timer => t \notin waiting' \cup timer'
    PROVE  Calls'
<1> SUFFICES ASSUME NEW m \in Thread, NEW t \in Thread, pc'[m].obj = t
             PROVE  Caller(m, t)' /\ Found(m, t)'
  BY DEF Calls
<1>1. Caller(m, t) /\ Found(m, t) /\ pc'[m] = pc[m] /\ pc[m].obj = t /\ t # Nobody
  BY SchedulerAssumption DEF Structure, Calls
<1>2. Caller(m, t)'
  BY <1>1 DEF Caller
<1>3. CASE stat'[t] = stat[t]
  BY <1>1, <1>2, <1>3 DEF Found
<1>4. CASE t \in waiting \cup timer /\ stat'[t] = "ready"
  <2>1. stat[t] = "suspend" /\ ~Off(t)
    BY <1>4 DEF Structure, Sleeping, Off
  <2> QED BY <1>1, <1>2, <1>4, <2>1 DEF Found
<1> QED BY <1>1, <1>3, <1>4

-----------------------------------------------------------------------------
(* Calls of a thread for itself.                                           *)

\* A thread that leaves its queue, and suspends or ends.
LEMMA LeaveStructure ==
    ASSUME ListInv, TypeInv', NEW t \in Worker, NEW step \in {"run", "sched"}, At(t, "run"),
           stat[t] = "ready", NEW s \in {"suspend", "close", "none"},
           RemoveThread(t), stat' = [stat EXCEPT ![t] = s], Goto(t, step),
           thread_defunct' = IF s = "close" THEN Push(thread_defunct, t) ELSE thread_defunct,
           waiting' \cup timer' \subseteq waiting \cup timer \cup {t},
           s # "suspend" => t \notin waiting' \cup timer',
           current_priority' = current_priority
    PROVE  Structure'
<1>1. Structure /\ TypeOK /\ t # Idle
  BY DEF ListInv, Structure, TypeInv
<1>2. /\ pc[t].at = "run" /\ t # Nobody /\ pc[t].obj = Nobody
      /\ \A m \in Thread : pc[m].obj # t
  BY WhoRuns
<1>3. /\ \A m \in Thread : pc'[m].obj = pc[m].obj
      /\ \A m \in Thread : pc[m].obj # Nobody => pc'[m] = pc[m]
      /\ \A u \in Thread, steps \in SUBSET Step : InCall(u, steps)' <=> InCall(u, steps)
  BY <1>1, <1>2, SameCalls
<1>4. stat'[t] = s /\ \A u \in Thread \ {t} : stat'[u] = stat[u]
  BY <1>1 DEF TypeOK
<1>5. /\ Queued' /\ GroupMatchesTable'
      /\ \A p \in Priority : ToSet(priority_table'[p]) = ToSet(priority_table[p]) \ {t}
  <2>1. ~InCall(t, {"insert"})
    BY <1>2 DEF InCall
  <2>2. \A m \in Thread : pc[m].at = "insert" => pc'[m] = pc[m]
    BY <1>1, <1>3 DEF Structure, Calls
  <2> QED BY <1>1, <1>4, <2>1, <2>2, RemoveKeeps
<1>6. Sleeping'
  BY <1>1, <1>4 DEF Structure, Sleeping, TypeOK
<1>7. /\ ToSet(thread_defunct') =
            ToSet(thread_defunct) \cup IF s = "close" THEN {t} ELSE {}
      /\ IsInjective(thread_defunct')
      /\ t \notin ToSet(thread_defunct)
  <2>1. t \notin ToSet(thread_defunct) /\ IsInjective(thread_defunct)
    BY <1>1 DEF Structure, Buried
  <2>2. thread_defunct \in Seq(Thread)
    BY <1>1 DEF TypeOK
  <2>3. /\ ToSet(Push(thread_defunct, t)) = ToSet(thread_defunct) \cup {t}
        /\ IsInjective(Push(thread_defunct, t))
    BY <2>1, <2>2, PushElements
  <2> QED BY <2>1, <2>3
<1>8. Buried'
  <2> SUFFICES ASSUME NEW u \in ToSet(thread_defunct')
               PROVE  stat'[u] = "close" /\ ~InCall(u, {"close", "bury"})'
    BY <1>7 DEF Buried
  <2>1. CASE u = t
    BY <1>2, <1>3, <1>4, <1>7, <2>1 DEF InCall
  <2>2. CASE u # t
    <3>1. u \in ToSet(thread_defunct) /\ u \in Thread
      BY <1>1, <1>7, <2>2, DefunctMembers
    <3> QED BY <1>1, <1>3, <1>4, <2>2, <3>1 DEF Structure, Buried, Step
  <2> QED BY <2>1, <2>2
<1>9. NoThreadLost'
  <2> SUFFICES ASSUME NEW u \in Thread
               PROVE  /\ stat'[u] = "ready" => \/ u \in ToSet(priority_table'[current_priority[u]])
                                               \/ InCall(u, {"insert", "close"})'
                      /\ stat'[u] = "close" => \/ u \in ToSet(thread_defunct')
                                               \/ InCall(u, {"close", "bury", "free"})'
    BY DEF NoThreadLost
  <2>1. CASE u = t
    BY <1>4, <1>7, <2>1
  <2>2. CASE u # t
    <3>1. /\ InCall(u, {"insert", "close"})' <=> InCall(u, {"insert", "close"})
          /\ InCall(u, {"close", "bury", "free"})' <=> InCall(u, {"close", "bury", "free"})
      BY <1>3 DEF Step
    <3>2. current_priority[u] \in Priority
      BY <1>1 DEF TypeOK
    <3> QED BY <1>1, <1>4, <1>5, <1>7, <2>2, <3>1, <3>2 DEF Structure, NoThreadLost
  <2> QED BY <2>1, <2>2
<1>10. Calls'
  <2>1. \A m \in Thread : /\ pc'[m].obj = pc[m].obj
                          /\ pc'[m].at \in {"run", "sched"} <=> pc'[m].obj = Nobody
                          /\ pc[m].obj # Nobody => /\ pc'[m] = pc[m]
                                                   /\ stat[m] = "ready" => stat'[m] = "ready"
    BY <1>1, <1>2, <1>3, <1>4, AfterGoto DEF Structure, Calls
  <2>2. \A u \in Thread \ {t} : Off(u) => Off(u)'
    BY <1>5, <1>7 DEF Off
  <2> QED BY <1>1, <1>2, <1>4, <2>1, <2>2, CallsKept
<1>11. IdleReady'
  BY <1>1, <1>4, SchedulerAssumption DEF Structure, IdleReady
<1> QED BY <1>5, <1>6, <1>8, <1>9, <1>10, <1>11 DEF Structure

\* Steps that leave every thread where it is, though a queue may be rotated.
LEMMA QuietStructure ==
    ASSUME Structure, TypeInv',
           UNCHANGED <<stat, current_priority, waiting, ready_priority_group, thread_defunct>>,
           \A p \in Priority : /\ IsInjective(priority_table'[p])
                               /\ ToSet(priority_table'[p]) = ToSet(priority_table[p]),
           \A u \in timer' \ timer : stat[u] = "suspend" /\ \A m \in Thread : pc[m].obj # u,
           \A m \in Thread : /\ pc'[m].obj = pc[m].obj
                             /\ pc'[m].at \in {"run", "sched"} <=> pc'[m].obj = Nobody
                             /\ pc[m].obj # Nobody => pc'[m] = pc[m]
    PROVE  Structure'
<1>1. TypeOK /\ TypeOK'
  BY DEF Structure, TypeInv
<1>2. ASSUME NEW u \in Thread, NEW steps
      PROVE  InCall(u, steps)' <=> InCall(u, steps)
  <2>1. u # Nobody
    BY SchedulerAssumption
  <2>2. InCall(u, steps)' = \E m \in Thread : pc'[m].obj = u /\ pc'[m].at \in steps
    BY DEF InCall
  <2> QED BY <2>1, <2>2 DEF InCall
<1>3. Queued' /\ Sleeping'
  BY DEF Structure, Queued, Sleeping
<1>4. Buried'
  BY <1>1, <1>2, DefunctMembers DEF Structure, Buried
<1>5. NoThreadLost'
  <2>1. \A u \in Thread : ToSet(priority_table'[current_priority[u]])
                            = ToSet(priority_table[current_priority[u]])
    BY <1>1 DEF TypeOK
  <2> QED BY <1>2, <2>1 DEF Structure, NoThreadLost
<1>6. GroupMatchesTable'
  <2>1. \A p \in Priority : priority_table'[p] = <<>> <=> priority_table[p] = <<>>
    <3> TAKE p \in Priority
    <3>1. priority_table[p] \in Seq(Thread) /\ priority_table'[p] \in Seq(Thread)
      BY <1>1 DEF TypeOK
    <3> QED BY <3>1, EmptyList
  <2>2. ready_priority_group \subseteq Priority
    BY <1>1 DEF TypeOK
  <2> QED BY <1>2, <2>1, <2>2 DEF Structure, GroupMatchesTable
<1>7. Calls'
  <2>1. ASSUME NEW m \in Thread, NEW t \in Thread, pc[m].obj = t
        PROVE  /\ Off(t) => Off(t)'
               /\ t \notin waiting \cup timer => t \notin waiting' \cup timer'
    BY <2>1 DEF Off
  <2> QED BY <2>1, CallsKept
<1> QED BY <1>3, <1>4, <1>5, <1>6, <1>7 DEF Structure, IdleReady

\* A rotated queue holds the same threads.
LEMMA Rotated ==
    ASSUME TypeOK, Queued, NEW t \in Thread, CanYield(t), ToTail(t), NEW p \in Priority
    PROVE  IsInjective(priority_table'[p]) /\ ToSet(priority_table'[p]) = ToSet(priority_table[p])
<1> DEFINE q == priority_table[current_priority[t]]
<1>1. current_priority[t] \in Priority /\ priority_table \in [Priority -> Seq(Thread)]
  BY DEF TypeOK
<1>2. q \in Seq(Thread) /\ IsInjective(q) /\ t \in ToSet(q)
  BY <1>1 DEF Queued, CanYield
<1>3. /\ Unlink(q, t) \in Seq(Thread)
      /\ IsInjective(Unlink(q, t))
      /\ ToSet(Unlink(q, t)) = ToSet(q) \ {t}
  BY <1>2, UnlinkElements
<1>4. /\ IsInjective(Enqueue(Unlink(q, t), t))
      /\ ToSet(Enqueue(Unlink(q, t), t)) = ToSet(q)
  <2> DEFINE r == Unlink(q, t)
  <2> HIDE DEF q, r
  <2>1. r \in Seq(Thread) /\ IsInjective(r) /\ ToSet(r) = ToSet(q) \ {t}
    BY <1>3 DEF r
  <2>2. IsInjective(Enqueue(r, t)) /\ ToSet(Enqueue(r, t)) = ToSet(r) \cup {t}
    BY <2>1, EnqueueElements
  <2> QED BY <1>2, <2>1, <2>2 DEF r
<1>5. priority_table' = [priority_table EXCEPT ![current_priority[t]] = Enqueue(Unlink(q, t), t)]
  BY DEF ToTail
<1> HIDE DEF q
<1>6. CASE p = current_priority[t]
  BY <1>1, <1>4, <1>5, <1>6 DEF q
<1>7. CASE p # current_priority[t]
  BY <1>1, <1>5, <1>7 DEF Queued
<1> QED BY <1>6, <1>7

-----------------------------------------------------------------------------
(* The thread that rt_schedule chooses.                                    *)

\* What is chosen is READY, is on its queue and is not in the middle of a call of
\* another one; no thread on a queue is more urgent.
Choice(to) ==
    /\ to \in Thread /\ stat[to] = "ready"
    /\ to \in ToSet(priority_table[current_priority[to]])
    /\ \A m \in Thread : pc[m].obj # to
    /\ current_priority[to] = HighestReady(ready_priority_group)

\* Whoever is in the middle of a call on another thread is on its queue.
LEMMA CallerQueued ==
    ASSUME Structure, NEW m \in Thread, NEW t \in Thread, pc[m].obj = t, m # Idle
    PROVE  m \in ToSet(priority_table[current_priority[m]])
<1>1. <<m, t>> \in Manages /\ stat[m] = "ready"
  BY DEF Structure, Calls, Caller
<1>2. \A n \in Thread : pc[n].obj # m
  <2> SUFFICES ASSUME NEW n \in Thread, pc[n].obj = m PROVE FALSE
    OBVIOUS
  <2>1. Caller(n, m) /\ Found(n, m)
    BY DEF Structure, Calls
  <2>2. CASE n = Idle
    BY <1>1, <2>1, <2>2 DEF Caller, Found
  <2>3. CASE n # Idle
    <3>1. <<n, m>> \in Manages
      BY <2>1, <2>3 DEF Caller
    <3> QED BY <1>1, <3>1, ManagesAssumption
  <2> QED BY <2>2, <2>3
<1> QED BY <1>1, <1>2 DEF Structure, NoThreadLost, InCall

LEMMA IdleQueued ==
    ASSUME Structure
    PROVE  Idle \in ToSet(priority_table[current_priority[Idle]])
<1>1. Idle \in Thread /\ stat[Idle] = "ready"
  BY SchedulerAssumption DEF Structure, IdleReady
<1>2. \A m \in Thread : pc[m].obj # Idle
  BY <1>1 DEF Structure, Calls, Caller
<1> QED BY <1>1, <1>2 DEF Structure, NoThreadLost, InCall

\* A queue that holds a thread has its bit set.
LEMMA BitSet ==
    ASSUME Structure, NEW t \in Thread, t \in ToSet(priority_table[current_priority[t]])
    PROVE  current_priority[t] \in ready_priority_group
<1>1. current_priority[t] \in Priority /\ priority_table[current_priority[t]] \in Seq(Thread)
  BY DEF Structure, TypeInv, TypeOK
<1>2. priority_table[current_priority[t]] # <<>>
  BY <1>1, EmptyList
<1> QED BY <1>1, <1>2 DEF Structure, GroupMatchesTable

LEMMA Chosen == Structure => Choice(ToThread(priority_table, ready_priority_group))
<1> SUFFICES ASSUME Structure
             PROVE  Choice(ToThread(priority_table, ready_priority_group))
  OBVIOUS
<1> DEFINE high == HighestReady(ready_priority_group)
           q == priority_table[high]
           to == ToThread(priority_table, ready_priority_group)
<1>1. /\ ready_priority_group \in SUBSET Priority /\ Priority \subseteq Int
      /\ priority_table \in [Priority -> Seq(Thread)]
      /\ current_priority \in [Thread -> Priority]
  <2>1. Priority \subseteq Int
    BY SchedulerAssumption DEF Priority
  <2> QED BY <2>1 DEF Structure, TypeInv, TypeOK
<1>2. ready_priority_group # {}
  BY IdleQueued, BitSet, SchedulerAssumption
<1>3. high \in ready_priority_group /\ \A p \in ready_priority_group : high <= p
  BY <1>1, <1>2, HighestType
<1> HIDE DEF high
<1>4. q # <<>>
  <2> SUFFICES ASSUME q = <<>> PROVE FALSE
    OBVIOUS
  <2>1. PICK t \in Thread : current_priority[t] = high /\ stat[t] = "ready" /\ InCall(t, {"insert"})
    BY <1>3 DEF Structure, GroupMatchesTable
  <2>2. PICK m \in Thread : pc[m].obj = t /\ pc[m].at = "insert"
    BY <2>1 DEF InCall
  <2>3. Caller(m, t) /\ Found(m, t)
    BY <2>2 DEF Structure, Calls
  <2>4. m # Idle /\ current_priority[m] < high
    BY <2>1, <2>2, <2>3 DEF Caller, Found
  <2>5. current_priority[m] \in ready_priority_group
    BY <2>2, <2>4, CallerQueued, BitSet
  <2> QED BY <1>1, <1>3, <2>4, <2>5
<1>5. to = Head(q) /\ q \in Seq(Thread)
  BY <1>1, <1>2, <1>3, <1>4 DEF ToThread, high
<1> HIDE DEF to
<1>6. to \in ToSet(q) /\ to \in Thread
  BY <1>4, <1>5, EmptyList, HeadTailProperties
<1>7. stat[to] = "ready" /\ current_priority[to] = high
  BY <1>1, <1>3, <1>6 DEF Structure, Queued
<1>8. ASSUME NEW m \in Thread, pc[m].obj = to PROVE FALSE
  <2>1. Caller(m, to) /\ Found(m, to)
    BY <1>6, <1>8 DEF Structure, Calls
  <2>2. m # Idle
    BY <1>7, <2>1 DEF Caller, Found
  <2>3. current_priority[m] < high
    BY <1>7, <2>1, <2>2 DEF Found
  <2>4. current_priority[m] \in ready_priority_group
    BY <1>6, <1>8, <2>2, CallerQueued, BitSet
  <2> QED BY <1>1, <1>3, <2>3, <2>4
<1>9. Choice(to)
  BY <1>6, <1>7, <1>8 DEF Choice, high
<1> QED BY <1>9 DEF to

LEMMA ChosenNext == Structure' => Choice(ToThread(priority_table, ready_priority_group))'
BY Chosen, PTL

-----------------------------------------------------------------------------
(* Calls on another thread.                                                *)

\* All threads but t stay where they are.
Elsewhere(t) ==
    \A u \in Thread \ {t} :
       /\ stat'[u] = stat[u] /\ current_priority'[u] = current_priority[u]
       /\ u \in waiting' <=> u \in waiting
       /\ u \in timer' <=> u \in timer
       /\ u \in ToSet(thread_defunct') <=> u \in ToSet(thread_defunct)
       /\ \A p \in Priority : u \in ToSet(priority_table'[p]) <=> u \in ToSet(priority_table[p])

\* No calls but those of m on t change.
OtherCalls(m, t) ==
    /\ \A n \in Thread \ {m} : /\ pc[n].obj # t /\ pc'[n].obj = pc[n].obj
                               /\ n # t => pc'[n] = pc[n]
    /\ pc[t].obj = Nobody /\ pc'[t].at \in {"run", "sched"}
    /\ pc[m].obj \in {t, Nobody} /\ pc'[m].obj \in {t, Nobody}
    /\ pc'[m].at \in {"run", "sched"} <=> pc'[m].obj = Nobody

\* t, which m has worked on, is where its status says.
Placed(m, t) ==
    /\ \A p \in Priority : t \in ToSet(priority_table[p]) =>
                              stat[t] = "ready" /\ current_priority[t] = p
    /\ t \in waiting \cup timer => stat[t] = "suspend"
    /\ t \in ToSet(thread_defunct) =>
          stat[t] = "close" /\ ~(pc[m].obj = t /\ pc[m].at \in {"close", "bury"})
    /\ stat[t] = "ready" => \/ t \in ToSet(priority_table[current_priority[t]])
                            \/ pc[m].obj = t /\ pc[m].at \in {"insert", "close"}
    /\ stat[t] = "close" => \/ t \in ToSet(thread_defunct)
                            \/ pc[m].obj = t /\ pc[m].at \in {"close", "bury", "free"}
    /\ pc[m].obj = t => /\ Found(m, t)
                        /\ IF m = Idle THEN pc[m].at = "free" /\ t \notin Static
                           ELSE pc[m].at # "free" /\ <<m, t>> \in Manages /\ stat[m] = "ready"

LEMMA MoveStructure ==
    ASSUME Structure, TypeInv', NEW m \in Thread, NEW t \in Thread \ {Idle, m},
           Elsewhere(t), OtherCalls(m, t), Placed(m, t)',
           \A p \in Priority : IsInjective(priority_table'[p]), IsInjective(thread_defunct'),
           GroupMatchesTable'
    PROVE  Structure'
<1>1. TypeOK /\ TypeOK' /\ t # Nobody
  BY SchedulerAssumption DEF Structure, TypeInv
<1>2. ASSUME NEW u \in Thread \ {t}, NEW steps
      PROVE  InCall(u, steps)' <=> InCall(u, steps)
  <2>1. u # Nobody
    BY SchedulerAssumption
  <2>2. InCall(u, steps)' = \E n \in Thread : pc'[n].obj = u /\ pc'[n].at \in steps
    BY DEF InCall
  <2> QED BY <2>1, <2>2 DEF InCall, OtherCalls
<1>3. ASSUME NEW steps
      PROVE  InCall(t, steps)' <=> pc'[m].obj = t /\ pc'[m].at \in steps
  <2>1. InCall(t, steps)' = \E n \in Thread : pc'[n].obj = t /\ pc'[n].at \in steps
    BY DEF InCall
  <2> QED BY <2>1 DEF OtherCalls
<1>4. Queued'
  <2> SUFFICES ASSUME NEW p \in Priority, NEW u \in ToSet(priority_table'[p])
               PROVE  stat'[u] = "ready" /\ current_priority'[u] = p
    BY DEF Queued
  <2>1. u \in Thread
    BY <1>1, QueueMembersNext
  <2>2. CASE u = t
    BY <2>2 DEF Placed
  <2>3. CASE u # t
    BY <2>1, <2>3 DEF Elsewhere, Structure, Queued
  <2> QED BY <2>2, <2>3
<1>5. Sleeping'
  BY <1>1 DEF Elsewhere, Placed, Structure, Sleeping, TypeOK
<1>6. Buried'
  <2> SUFFICES ASSUME NEW u \in ToSet(thread_defunct')
               PROVE  stat'[u] = "close" /\ ~InCall(u, {"close", "bury"})'
    BY DEF Buried
  <2>1. u \in Thread
    BY <1>1, DefunctMembers
  <2>2. CASE u = t
    BY <1>3, <2>2 DEF Placed
  <2>3. CASE u # t
    BY <1>2, <2>1, <2>3 DEF Elsewhere, Structure, Buried
  <2> QED BY <2>2, <2>3
<1>7. NoThreadLost'
  <2> SUFFICES ASSUME NEW u \in Thread
               PROVE  /\ stat'[u] = "ready" => \/ u \in ToSet(priority_table'[current_priority'[u]])
                                               \/ InCall(u, {"insert", "close"})'
                      /\ stat'[u] = "close" => \/ u \in ToSet(thread_defunct')
                                               \/ InCall(u, {"close", "bury", "free"})'
    BY DEF NoThreadLost
  <2>1. CASE u = t
    BY <1>3, <2>1 DEF Placed
  <2>2. CASE u # t
    <3>1. current_priority[u] \in Priority
      BY <1>1 DEF TypeOK
    <3> QED BY <1>2, <2>2, <3>1 DEF Elsewhere, Structure, NoThreadLost
  <2> QED BY <2>1, <2>2
<1>8. Calls'
  <2>1. \A n \in Thread : pc'[n].at \in {"run", "sched"} <=> pc'[n].obj = Nobody
    BY DEF OtherCalls, Structure, Calls
  <2>2. ASSUME NEW n \in Thread, NEW u \in Thread, pc'[n].obj = u
        PROVE  Caller(n, u)' /\ Found(n, u)'
    <3>1. CASE n = m
      <4>1. u = t
        BY <1>1, <2>2, <3>1, SchedulerAssumption DEF OtherCalls
      <4> QED BY <2>2, <3>1, <4>1 DEF OtherCalls, Placed, Caller
    <3>2. CASE n # m
      <4>1. n # t /\ pc'[n] = pc[n] /\ pc[n].obj = u /\ u # t
        BY <1>1, <2>2, <3>2, SchedulerAssumption DEF OtherCalls
      <4>2. Caller(n, u) /\ Found(n, u)
        BY <4>1 DEF Structure, Calls
      <4>3. Caller(n, u)'
        BY <4>1, <4>2 DEF Caller, OtherCalls, Elsewhere
      <4>4. Off(u) => Off(u)'
        BY <4>1 DEF Off, Elsewhere
      <4>5. Found(n, u)'
        BY <4>1, <4>2, <4>4 DEF Found, Elsewhere
      <4> QED BY <4>3, <4>5
    <3> QED BY <3>1, <3>2
  <2> QED BY <2>1, <2>2 DEF Calls
<1>9. IdleReady'
  BY SchedulerAssumption DEF Elsewhere, Structure, IdleReady
<1> QED BY <1>4, <1>5, <1>6, <1>7, <1>8, <1>9 DEF Structure

LEMMA GroupSame ==
    ASSUME Structure, NEW m \in Thread, NEW t \in Thread, Elsewhere(t), OtherCalls(m, t),
           UNCHANGED <<priority_table, ready_priority_group>>, pc[m].at # "insert"
    PROVE  GroupMatchesTable'
<1> SUFFICES ASSUME NEW p \in ready_priority_group, priority_table[p] = <<>>
             PROVE  \E u \in Thread : current_priority'[u] = p /\ stat'[u] = "ready"
                                      /\ InCall(u, {"insert"})'
  BY DEF GroupMatchesTable, Structure
<1>1. PICK u \in Thread : current_priority[u] = p /\ stat[u] = "ready" /\ InCall(u, {"insert"})
  BY DEF Structure, GroupMatchesTable
<1>2. PICK n \in Thread : pc[n].obj = u /\ pc[n].at = "insert"
  BY <1>1 DEF InCall
<1>3. n # m /\ u # t /\ pc[n].obj # Nobody
  BY <1>2, SchedulerAssumption DEF OtherCalls
<1>4. pc'[n] = pc[n]
  BY <1>3 DEF OtherCalls
<1>5. InCall(u, {"insert"})'
  BY <1>2, <1>4 DEF InCall
<1> QED BY <1>1, <1>3, <1>5 DEF Elsewhere

\* A manager runs, is not managed itself, and works on a thread that does not run.
LEMMA ManagerRuns ==
    ASSUME ListInv, NEW m \in Worker, NEW t \in Thread, Manager(m, t)
    PROVE  /\ t \in Thread \ {Idle, m} /\ t # Nobody /\ m # Nobody /\ <<m, t>> \in Manages
           /\ rt_current_thread = m /\ on_cpu = m
           /\ pc[m].at = "run" /\ pc[m].obj = Nobody
           /\ pc[t].obj = Nobody /\ pc[t].at \in {"run", "sched"}
           /\ \A n \in Thread : pc[n].obj # t
<1>1. <<m, t>> \in Manages /\ At(m, "run") /\ \A n \in Thread : pc[n].obj # t
  BY DEF Manager
<1>2. t \in Worker /\ t # m
  BY <1>1, ManagesAssumption
<1>3. pc[t].obj = Nobody
  <2> SUFFICES ASSUME NEW u \in Thread, pc[t].obj = u PROVE FALSE
    BY <1>2, ObjType DEF ListInv, Structure, TypeInv
  <2>1. <<t, u>> \in Manages
    BY <1>2 DEF ListInv, Structure, Calls, Caller
  <2> QED BY <1>1, <2>1, ManagesAssumption
<1>4. pc[t].at \in {"run", "sched"}
  BY <1>3 DEF ListInv, Structure, Calls
<1> QED BY <1>1, <1>2, <1>3, <1>4, WhoRuns, SchedulerAssumption

\* The same in the middle of a call.
LEMMA CallerRuns ==
    ASSUME ListInv, NEW m \in Worker, NEW t, pc[m].obj = t,
           NEW step \in Step \ {"run", "sched"}, At(m, step)
    PROVE  /\ t \in Thread \ {Idle, m} /\ <<m, t>> \in Manages /\ m # Nobody /\ t # Nobody
           /\ stat[m] = "ready" /\ rt_current_thread = m /\ on_cpu = m /\ pc[m].at = step
           /\ Found(m, t)
           /\ pc[t].obj = Nobody /\ pc[t].at \in {"run", "sched"}
           /\ \A n \in Thread \ {m} : pc[n].obj # t
<1>1. rt_current_thread = m /\ on_cpu = m /\ pc[m].at = step /\ m # Nobody
  BY WhoRuns
<1>2. t \in Thread /\ t # Nobody
  BY <1>1, SchedulerAssumption DEF ListInv, Structure, TypeInv, CallsOnThreads
<1>3. Caller(m, t) /\ Found(m, t)
  BY <1>2 DEF ListInv, Structure, Calls
<1>4. <<m, t>> \in Manages /\ stat[m] = "ready" /\ t # Idle /\ \A n \in Thread : pc[n].obj = t => n = m
  BY <1>3 DEF Caller
<1>5. t # m
  BY <1>4, ManagesAssumption
<1>6. pc[t].obj = Nobody
  <2> SUFFICES ASSUME NEW u \in Thread, pc[t].obj = u PROVE FALSE
    BY <1>2, ObjType DEF ListInv, Structure, TypeInv
  <2>1. <<t, u>> \in Manages
    BY <1>2, <1>4 DEF ListInv, Structure, Calls, Caller
  <2> QED BY <1>4, <2>1, ManagesAssumption
<1>7. pc[t].at \in {"run", "sched"}
  BY <1>2, <1>6 DEF ListInv, Structure, Calls
<1> QED BY <1>1, <1>2, <1>3, <1>4, <1>5, <1>6, <1>7

\* A thread that is to begin a call is READY, or it has locked the scheduler.
LEMMA RunnerStat ==
    ASSUME ListInv, NEW t \in Thread, At(t, "run")
    PROVE  stat[t] = "ready" \/ (stat[t] = "suspend" /\ scheduler_lock_nest > 0)
<1>1. rt_current_thread = t /\ pc[t].at = "run" /\ t # Nobody
  BY WhoRuns
<1>2. Runner
  BY DEF ListInv, Running
<1> QED BY <1>1, <1>2 DEF Runner

LEMMA CreateStep ==
    ASSUME ListInv, TypeInv', NEW m \in Worker, NEW t \in Thread, Create(m, t)
    PROVE  Structure' /\ OtherCalls(m, t) /\ Elsewhere(t)
<1>1. Structure /\ TypeOK
  BY DEF ListInv, Structure, TypeInv
<1>2. /\ t \in Thread \ {Idle, m} /\ t # Nobody /\ m # Nobody
      /\ pc[m].at = "run" /\ pc[m].obj = Nobody
      /\ pc[t].obj = Nobody
      /\ \A n \in Thread : pc[n].obj # t
  BY ManagerRuns DEF Create
<1>3. /\ stat[t] = "none" /\ stat'[t] = "init"
      /\ \A u \in Thread \ {t} : stat'[u] = stat[u] /\ current_priority'[u] = current_priority[u]
      /\ pc'[t] = AtRest /\ \A u \in Thread \ {t} : pc'[u] = pc[u]
      /\ UNCHANGED <<timer, waiting, priority_table, ready_priority_group, thread_defunct>>
  BY <1>1 DEF Create, TypeOK, listVars
<1>4. Elsewhere(t)
  BY <1>3 DEF Elsewhere
<1>5. OtherCalls(m, t)
  BY <1>2, <1>3 DEF OtherCalls, AtRest
<1>6. GroupMatchesTable'
  BY <1>1, <1>2, <1>3, <1>4, <1>5, GroupSame
<1>7. Placed(m, t)'
  BY <1>1, <1>2, <1>3 DEF Placed, Structure, Queued, Sleeping, Buried
<1>8. IsInjective(thread_defunct') /\ \A p \in Priority : IsInjective(priority_table'[p])
  BY <1>1, <1>3 DEF Structure, Queued, Buried
<1> QED BY <1>1, <1>2, <1>4, <1>5, <1>6, <1>7, <1>8, MoveStructure

-----------------------------------------------------------------------------
(* A waiting or sleeping thread is made READY, by another thread or by an    *)
(* interrupt.                                                              *)

LEMMA ResumeStructure ==
    ASSUME Structure, TypeInv', NEW w \in waiting \cup timer, InsertThread(w),
           waiting' = waiting \ {w}, timer' = timer \ {w},
           UNCHANGED <<current_priority, thread_defunct>>,
           \A m \in Thread : /\ pc'[m].obj = pc[m].obj
                             /\ pc'[m].at \in {"run", "sched"} <=> pc'[m].obj = Nobody
                             /\ pc[m].obj # Nobody => pc'[m] = pc[m]
    PROVE  Structure' /\ stat'[w] = "ready" /\ \A u \in Thread \ {w} : stat'[u] = stat[u]
<1>1. TypeOK /\ TypeOK' /\ w \in Thread /\ stat[w] = "suspend"
  BY DEF Structure, TypeInv, TypeOK, Sleeping
<1>2. stat'[w] = "ready" /\ \A u \in Thread \ {w} : stat'[u] = stat[u]
  BY <1>1 DEF InsertThread, TypeOK
<1>3. ASSUME NEW u \in Thread, NEW steps
      PROVE  InCall(u, steps)' <=> InCall(u, steps)
  <2>1. u # Nobody
    BY SchedulerAssumption
  <2>2. InCall(u, steps)' = \E m \in Thread : pc'[m].obj = u /\ pc'[m].at \in steps
    BY DEF InCall
  <2> QED BY <2>1, <2>2 DEF InCall
<1>4. /\ Queued' /\ GroupMatchesTable'
      /\ \A p \in Priority : ToSet(priority_table'[p]) =
            ToSet(priority_table[p]) \cup IF p = current_priority[w] THEN {w} ELSE {}
  <2>1. \A p \in Priority : w \notin ToSet(priority_table[p])
    BY <1>1 DEF Structure, Queued
  <2>2. \A m \in Thread : pc[m].at = "insert" => pc'[m] = pc[m]
    BY DEF Structure, Calls
  <2> QED BY <1>1, <2>1, <2>2, InsertKeeps
<1>5. Sleeping'
  BY <1>1, <1>2 DEF Structure, Sleeping, TypeOK
<1>6. Buried'
  <2>1. w \notin ToSet(thread_defunct)
    BY <1>1 DEF Structure, Buried
  <2> QED BY <1>1, <1>2, <1>3, <2>1, DefunctMembers DEF Structure, Buried
<1>7. NoThreadLost'
  <2> SUFFICES ASSUME NEW u \in Thread
               PROVE  /\ stat'[u] = "ready" => \/ u \in ToSet(priority_table'[current_priority[u]])
                                               \/ InCall(u, {"insert", "close"})'
                      /\ stat'[u] = "close" => \/ u \in ToSet(thread_defunct')
                                               \/ InCall(u, {"close", "bury", "free"})'
    BY DEF NoThreadLost
  <2>1. current_priority[u] \in Priority
    BY <1>1 DEF TypeOK
  <2>2. CASE u = w
    BY <1>2, <1>4, <2>1, <2>2
  <2>3. CASE u # w
    BY <1>2, <1>3, <1>4, <2>1, <2>3 DEF Structure, NoThreadLost
  <2> QED BY <2>2, <2>3
<1>8. Calls'
  <2>1. ASSUME NEW m \in Thread, NEW t \in Thread, pc[m].obj = t
        PROVE  /\ stat'[t] = stat[t] \/ (t \in waiting \cup timer /\ stat'[t] = "ready")
               /\ Off(t) => Off(t)'
               /\ t \notin waiting \cup timer => t \notin waiting' \cup timer'
    <3>1. Off(t) => t # w
      BY DEF Off
    <3>2. t # w => (Off(t) => Off(t)')
      BY <1>4 DEF Off
    <3> QED BY <1>2, <3>1, <3>2
  <2>2. \A m \in Thread : stat[m] = "ready" => stat'[m] = "ready"
    BY <1>2
  <2> QED BY <2>1, <2>2, CallsKept
<1>9. IdleReady'
  BY <1>2, SchedulerAssumption DEF Structure, IdleReady
<1> QED BY <1>2, <1>4, <1>5, <1>6, <1>7, <1>8, <1>9 DEF Structure

-----------------------------------------------------------------------------
(* Who runs after a step.                                                  *)

\* Steps that do not change the context on the processor.  The current thread stays,
\* or rt_schedule chooses one.
LEMMA RunningKept ==
    ASSUME ListInv, SwitchSavesRunner', on_cpu' = on_cpu,
           rt_current_thread' = rt_current_thread \/ Choice(rt_current_thread)',
           Choice(rt_current_thread)' \/ Runner',
           \A m \in Thread : pc'[m].obj # Nobody =>
              pc'[m].obj = pc[m].obj \/ pc'[m].obj \notin {on_cpu, rt_current_thread},
           \A t \in Thread \ Static : stat'[t] = "none" =>
              stat[t] = "none" \/ t \notin {on_cpu, rt_current_thread},
           \A m \in Thread : pc'[m].obj # Nobody => pc'[m].obj \in Thread
    PROVE  Running'
<1>1. NotRunning'
  <2> SUFFICES ASSUME NEW m \in Thread, pc'[m].obj # Nobody
               PROVE  pc'[m].obj \notin {on_cpu', rt_current_thread'}
    BY DEF NotRunning
  <2>1. pc'[m].obj \notin {on_cpu, rt_current_thread}
    BY DEF ListInv, Running, NotRunning
  <2>2. Choice(rt_current_thread)' => pc'[m].obj # rt_current_thread'
    BY DEF Choice
  <2> QED BY <2>1, <2>2
<1>2. Runner'
  BY DEF Choice, Runner
<1>3. FreedOff'
  BY DEF FreedOff, ListInv, Running, Choice
<1> QED BY <1>1, <1>2, <1>3 DEF Running

\* rt_schedule, on the queues as the step leaves them.
LEMMA ScheduleChooses ==
    ASSUME Structure', Schedule(priority_table', ready_priority_group')
    PROVE  /\ rt_current_thread' = rt_current_thread \/ Choice(rt_current_thread)'
           /\ scheduler_lock_nest = 0 =>
                 /\ Choice(rt_current_thread)'
                 /\ rt_current_thread' = ToThread(priority_table', ready_priority_group')
<1> DEFINE to == ToThread(priority_table', ready_priority_group')
<1>1. rt_current_thread' = to \/ (rt_current_thread' = rt_current_thread /\ scheduler_lock_nest # 0)
  BY DEF Schedule, ContextSwitch, switchVars
<1>2. Choice(ToThread(priority_table, ready_priority_group))'
  BY ChosenNext
<1>3. CASE rt_current_thread' = to
  <2>1. Choice(rt_current_thread)'
    BY <1>2, <1>3 DEF Choice
  <2> QED BY <1>3, <2>1
<1> QED BY <1>1, <1>3

\* A manager goes on running.
LEMMA ManagerRunning ==
    ASSUME ListInv, Structure', SwitchSavesRunner', NEW m \in Thread, NEW t \in Thread \ {m},
           Elsewhere(t), OtherCalls(m, t), Runs(m),
           stat[m] = "ready" \/ pc'[m] = pc[m],
           UNCHANGED <<rt_current_thread, on_cpu, scheduler_lock_nest>>
    PROVE  ListInv'
<1>1. on_cpu = m /\ rt_current_thread = m /\ m # Nobody /\ t # Nobody
  BY SchedulerAssumption DEF ListInv, Running, SwitchSavesRunner, Runs
<1>2. Runner'
  BY <1>1 DEF ListInv, Running, Runner, Elsewhere
<1>3. \A n \in Thread : pc'[n].obj # Nobody =>
         pc'[n].obj = pc[n].obj \/ pc'[n].obj \notin {on_cpu, rt_current_thread}
  BY <1>1 DEF OtherCalls
<1>4. \A u \in Thread : stat'[u] = "none" => stat[u] = "none" \/ u \notin {on_cpu, rt_current_thread}
  BY <1>1 DEF Elsewhere
<1>5. \A n \in Thread : pc'[n].obj # Nobody => pc'[n].obj \in Thread
  BY DEF Structure, TypeInv, TypeOK, Place
<1>6. Running'
  BY <1>2, <1>3, <1>4, <1>5, RunningKept
<1> QED BY <1>6 DEF ListInv

\* So does a thread that steps for itself.
LEMMA SelfRunning ==
    ASSUME ListInv, Structure', SwitchSavesRunner', Runner',
           \A m \in Thread : pc'[m].obj = pc[m].obj,
           \A t \in Thread \ Static : stat'[t] # "none" \/ stat'[t] = stat[t],
           UNCHANGED <<rt_current_thread, on_cpu>>
    PROVE  ListInv'
<1>1. \A n \in Thread : pc'[n].obj # Nobody => pc'[n].obj \in Thread
  BY DEF Structure, TypeInv, TypeOK, Place
<1>2. Running'
  BY <1>1, RunningKept
<1> QED BY <1>2 DEF ListInv

LEMMA ManagerStep ==
    ASSUME ListInv, TypeInv', SwitchSavesRunner', NEW m \in Thread, NEW t \in Thread \ {Idle, m},
           Elsewhere(t), OtherCalls(m, t), Placed(m, t)', GroupMatchesTable',
           \A p \in Priority : IsInjective(priority_table'[p]), IsInjective(thread_defunct'),
           Runs(m), stat[m] = "ready" \/ pc'[m] = pc[m],
           UNCHANGED <<rt_current_thread, on_cpu, scheduler_lock_nest>>
    PROVE  ListInv'
<1>1. Structure'
  BY MoveStructure DEF ListInv
<1> QED BY <1>1, ManagerRunning

-----------------------------------------------------------------------------
(* The steps of a manager m on a thread t.                                 *)

LEMMA StartupStep ==
    ASSUME ListInv, TypeInv', SwitchSavesRunner', NEW m \in Worker, NEW t \in Thread, Startup(m, t)
    PROVE  ListInv'
<1>1. Structure /\ TypeOK
  BY DEF ListInv, Structure, TypeInv
<1>2. /\ t \in Thread \ {Idle, m} /\ t # Nobody /\ m # Nobody /\ <<m, t>> \in Manages
      /\ pc[m].at = "run" /\ pc[m].obj = Nobody
      /\ pc[t].obj = Nobody /\ pc[t].at \in {"run", "sched"}
      /\ \A n \in Thread : pc[n].obj # t
  BY ManagerRuns DEF Startup
<1>3. /\ stat[t] = "init" /\ stat'[t] = "suspend" /\ stat[m] = "ready"
      /\ \A u \in Thread \ {t} : stat'[u] = stat[u] /\ current_priority'[u] = current_priority[u]
      /\ UNCHANGED <<timer, waiting, priority_table, ready_priority_group, thread_defunct>>
  BY <1>1 DEF Startup, TypeOK, listVars
<1>4. /\ pc'[m].at = "unlink" /\ pc'[m].obj = t /\ pc'[m].ret = "sched"
      /\ \A u \in Thread \ {m} : pc'[u] = pc[u]
  BY <1>1, AfterCall DEF Startup
<1>5. Elsewhere(t) /\ OtherCalls(m, t)
  BY <1>2, <1>3, <1>4 DEF Elsewhere, OtherCalls
<1>6. GroupMatchesTable'
  BY <1>1, <1>2, <1>3, <1>5, GroupSame
<1>7. Off(t)
  BY <1>1, <1>3 DEF Off, Structure, Queued, Sleeping, Buried
<1>8. Placed(m, t)'
  BY <1>2, <1>3, <1>4, <1>7 DEF Placed, Found, Off
<1>9. IsInjective(thread_defunct') /\ \A p \in Priority : IsInjective(priority_table'[p])
  BY <1>1, <1>3 DEF Structure, Queued, Buried
<1> QED BY <1>2, <1>3, <1>5, <1>6, <1>8, <1>9, ManagerStep DEF Startup, Manager, At, switchVars

\* rt_thread_resume and rt_thread_suspend before their regions: only m's place changes.
LEMMA AskStep ==
    ASSUME ListInv, TypeInv', SwitchSavesRunner', NEW m \in Worker, NEW t \in Thread,
           Resume(m, t) \/ Suspend(m, t)
    PROVE  ListInv'
<1>1. Structure /\ TypeOK
  BY DEF ListInv, Structure, TypeInv
<1>2. MayManage(m, t) /\ Manager(m, t) /\ Runs(m) /\ stat[m] = "ready"
  BY DEF Resume, Suspend, MayManage, Manager, At
<1>3. /\ t \in Thread \ {Idle, m} /\ t # Nobody /\ m # Nobody /\ <<m, t>> \in Manages
      /\ pc[m].at = "run" /\ pc[m].obj = Nobody
      /\ pc[t].obj = Nobody /\ pc[t].at \in {"run", "sched"}
      /\ \A n \in Thread : pc[n].obj # t
  BY <1>2, ManagerRuns
<1>4. /\ UNCHANGED <<stat, current_priority, timer, waiting, priority_table, ready_priority_group,
                     thread_defunct, rt_current_thread, on_cpu, scheduler_lock_nest>>
      /\ \/ stat[t] = "suspend" /\ Call(m, "unlink", t, "run")
         \/ stat[t] = "ready" /\ Call(m, "suspend", t, "run")
  BY DEF Resume, Suspend, Suspendable, threadVars, listVars, switchVars
<1>5. /\ \/ stat[t] = "suspend" /\ pc'[m].at = "unlink"
         \/ stat[t] = "ready" /\ pc'[m].at = "suspend"
      /\ pc'[m].obj = t /\ \A u \in Thread \ {m} : pc'[u] = pc[u]
  BY <1>1, <1>4, AfterCall
<1>6. Elsewhere(t) /\ OtherCalls(m, t)
  BY <1>3, <1>4, <1>5 DEF Elsewhere, OtherCalls
<1>7. GroupMatchesTable'
  BY <1>1, <1>3, <1>4, <1>6, GroupSame
<1>8. ~InCall(t, {"insert", "close"}) /\ t \notin ToSet(thread_defunct)
  BY <1>1, <1>3, <1>5 DEF InCall, Structure, Buried
<1>9. Placed(m, t)'
  BY <1>1, <1>2, <1>3, <1>4, <1>5, <1>8
     DEF Placed, Found, MayManage, Structure, Queued, Sleeping, NoThreadLost
<1>10. IsInjective(thread_defunct') /\ \A p \in Priority : IsInjective(priority_table'[p])
  BY <1>1, <1>4 DEF Structure, Queued, Buried
<1> QED BY <1>2, <1>3, <1>4, <1>6, <1>7, <1>9, <1>10, ManagerStep

LEMMA DeleteStep ==
    ASSUME ListInv, TypeInv', SwitchSavesRunner', NEW m \in Worker, NEW t \in Thread,
           Delete(m, t), ~DeleteSleeping
    PROVE  ListInv'
<1>1. Structure /\ TypeOK
  BY DEF ListInv, Structure, TypeInv
<1>2. MayManage(m, t) /\ Manager(m, t) /\ Runs(m) /\ stat[m] = "ready" /\ t \notin timer
  BY DEF Delete, MayManage, Manager, At
<1>3. /\ t \in Thread \ {Idle, m} /\ t # Nobody /\ m # Nobody /\ <<m, t>> \in Manages
      /\ pc[m].at = "run" /\ pc[m].obj = Nobody
      /\ pc[t].obj = Nobody /\ pc[t].at \in {"run", "sched"}
      /\ \A n \in Thread : pc[n].obj # t
  BY <1>2, ManagerRuns
<1>4. /\ UNCHANGED <<stat, current_priority, timer, rt_current_thread, on_cpu, scheduler_lock_nest>>
      /\ Call(m, "close", t, "run")
  BY DEF Delete, threadVars, switchVars
<1>5. pc'[m].at = "close" /\ pc'[m].obj = t /\ \A u \in Thread \ {m} : pc'[u] = pc[u]
  BY <1>1, <1>4, AfterCall
<1>6. OtherCalls(m, t)
  BY <1>3, <1>5 DEF OtherCalls
<1>7. /\ GroupMatchesTable' /\ Off(t)' /\ Elsewhere(t)
      /\ IsInjective(thread_defunct') /\ \A p \in Priority : IsInjective(priority_table'[p])
  <2>1. CASE stat[t] = "init"
    <3>1. UNCHANGED <<waiting, priority_table, ready_priority_group, thread_defunct>>
      BY <2>1 DEF Delete
    <3>2. Elsewhere(t)
      BY <1>4, <3>1 DEF Elsewhere
    <3>3. Off(t)'
      BY <1>1, <1>4, <2>1, <3>1 DEF Off, Structure, Queued, Sleeping, Buried
    <3>4. GroupMatchesTable'
      BY <1>1, <1>3, <1>6, <3>1, <3>2, GroupSame
    <3> QED BY <1>1, <3>1, <3>2, <3>3, <3>4 DEF Structure, Queued, Buried
  <2>2. CASE stat[t] # "init"
    <3>1. /\ RemoveThread(t) /\ waiting' = waiting \ {t}
          /\ thread_defunct' = Unlink(thread_defunct, t)
      BY <2>2 DEF Delete
    <3>2. ~InCall(t, {"insert"})
      BY <1>3 DEF InCall
    <3>3. /\ Queued' /\ GroupMatchesTable'
          /\ \A p \in Priority : ToSet(priority_table'[p]) = ToSet(priority_table[p]) \ {t}
      BY <1>1, <1>3, <1>4, <1>5, <3>1, <3>2, RemoveKeeps
    <3>4. /\ IsInjective(thread_defunct')
          /\ ToSet(thread_defunct') = ToSet(thread_defunct) \ {t}
      BY <1>1, <3>1, UnlinkElements DEF Structure, Buried, TypeOK
    <3>5. Elsewhere(t)
      BY <1>4, <3>1, <3>3, <3>4 DEF Elsewhere
    <3>6. Off(t)'
      BY <1>2, <1>4, <3>1, <3>3, <3>4 DEF Off
    <3> QED BY <3>3, <3>4, <3>5, <3>6 DEF Queued
  <2> QED BY <2>1, <2>2
<1>8. Placed(m, t)'
  BY <1>2, <1>3, <1>4, <1>5, <1>7 DEF Placed, Found, MayManage, Off
<1> QED BY <1>2, <1>3, <1>4, <1>6, <1>7, <1>8, ManagerStep

LEMMA ControlStep ==
    ASSUME ListInv, TypeInv', SwitchSavesRunner', NEW m \in Worker, NEW t \in Thread,
           NEW p \in Priority, Control(m, t, p)
    PROVE  ListInv'
<1>1. Structure /\ TypeOK /\ TypeOK'
  BY DEF ListInv, Structure, TypeInv
<1>2. MayManage(m, t) /\ Manager(m, t) /\ Runs(m) /\ stat[m] = "ready"
  BY DEF Control, MayManage, Manager, At
<1>3. /\ t \in Thread \ {Idle, m} /\ t # Nobody /\ m # Nobody /\ <<m, t>> \in Manages
      /\ pc[m].at = "run" /\ pc[m].obj = Nobody
      /\ pc[t].obj = Nobody /\ pc[t].at \in {"run", "sched"}
      /\ \A n \in Thread : pc[n].obj # t
  BY <1>2, ManagerRuns
<1>4. /\ UNCHANGED <<stat, timer, waiting, thread_defunct, rt_current_thread, on_cpu,
                     scheduler_lock_nest, pc>>
      /\ current_priority'[t] = p
      /\ \A u \in Thread \ {t} : current_priority'[u] = current_priority[u]
  BY <1>1 DEF Control, switchVars, TypeOK
<1>5. OtherCalls(m, t)
  BY <1>1, <1>3, <1>4 DEF OtherCalls
<1>6. ~InCall(t, {"insert", "close"}) /\ ~InCall(t, {"close", "bury", "free"})
  BY <1>3 DEF InCall
<1>7. CASE stat[t] # "ready"
  <2>1. UNCHANGED <<priority_table, ready_priority_group>>
    BY <1>7 DEF Control
  <2>2. Elsewhere(t)
    BY <1>4, <2>1 DEF Elsewhere
  <2>3. GroupMatchesTable'
    BY <1>1, <1>3, <1>5, <2>1, <2>2, GroupSame
  <2>4. Placed(m, t)'
    BY <1>1, <1>3, <1>4, <1>6, <1>7, <2>1
       DEF Placed, Structure, Queued, Sleeping, Buried, NoThreadLost
  <2>5. IsInjective(thread_defunct') /\ \A q \in Priority : IsInjective(priority_table'[q])
    BY <1>1, <1>4, <2>1 DEF Structure, Queued, Buried
  <2> QED BY <1>2, <1>3, <1>4, <1>5, <2>2, <2>3, <2>4, <2>5, ManagerStep
<1>8. CASE stat[t] = "ready"
  <2> DEFINE table == Unlinked(priority_table, t)
             old == current_priority[t]
  <2>1. /\ priority_table' = [table EXCEPT ![p] = Enqueue(@, t)]
        /\ ready_priority_group' = {p} \cup
              IF table[old] = <<>> THEN ready_priority_group \ {old} ELSE ready_priority_group
    BY <1>8 DEF Control, GroupAfter
  <2>2. \A q \in Priority :
           /\ table[q] \in Seq(Thread) /\ IsInjective(table[q])
           /\ ToSet(table[q]) = ToSet(priority_table[q]) \ {t}
           /\ q # old => table[q] = priority_table[q]
    BY <1>1, QueuesUnlinked DEF Structure
  <2>3. DOMAIN table = Priority
    BY DEF Unlinked
  <2> HIDE DEF table
  <2>4. /\ IsInjective(Enqueue(table[p], t))
        /\ ToSet(Enqueue(table[p], t)) = ToSet(table[p]) \cup {t}
        /\ Enqueue(table[p], t) # <<>>
    <3>1. table[p] \in Seq(Thread) /\ IsInjective(table[p]) /\ t \notin ToSet(table[p])
      BY <2>2
    <3> QED BY <3>1, EnqueueElements
  <2>5. /\ priority_table'[p] = Enqueue(table[p], t)
        /\ \A q \in Priority \ {p} : priority_table'[q] = table[q]
    BY <2>1, <2>3
  <2>6. \A q \in Priority :
           /\ IsInjective(priority_table'[q])
           /\ ToSet(priority_table'[q]) =
                 (ToSet(priority_table[q]) \ {t}) \cup IF q = p THEN {t} ELSE {}
    BY <2>2, <2>4, <2>5
  <2>7. Elsewhere(t)
    BY <1>4, <2>6 DEF Elsewhere
  <2>8. t \notin waiting \cup timer \cup ToSet(thread_defunct)
    BY <1>1, <1>8 DEF Structure, Sleeping, Buried
  <2>9. Placed(m, t)'
    BY <1>3, <1>4, <1>8, <2>6, <2>8 DEF Placed
  <2>10. ASSUME NEW q \in Priority, priority_table'[q] # <<>>
         PROVE  q \in ready_priority_group'
    <3>1. CASE q = p
      BY <2>1, <3>1
    <3>2. CASE q # p
      <4>1. table[q] # <<>> /\ table[q] \in Seq(Thread) /\ priority_table[q] \in Seq(Thread)
        BY <1>1, <2>2, <2>5, <2>10, <3>2 DEF TypeOK
      <4>2. priority_table[q] # <<>>
        BY <2>2, <4>1, EmptyList
      <4>3. q \in ready_priority_group
        BY <1>1, <4>2 DEF Structure, GroupMatchesTable
      <4> QED BY <2>1, <4>1, <4>3
    <3> QED BY <3>1, <3>2
  <2>11. ASSUME NEW q \in ready_priority_group', priority_table'[q] = <<>>
         PROVE  \E u \in Thread : current_priority'[u] = q /\ stat'[u] = "ready"
                                  /\ InCall(u, {"insert"})'
    <3>1. q \in Priority /\ q # p
      BY <1>1, <2>4, <2>5, <2>11 DEF TypeOK
    <3>2. q \in ready_priority_group /\ table[q] = <<>> /\ q # old
      BY <2>1, <2>5, <2>11, <3>1
    <3>3. PICK u \in Thread : current_priority[u] = q /\ stat[u] = "ready" /\ InCall(u, {"insert"})
      BY <1>1, <2>2, <3>1, <3>2 DEF Structure, GroupMatchesTable
    <3>4. u # t
      BY <3>2, <3>3
    <3>5. InCall(u, {"insert"})'
      BY <1>4, <3>3 DEF InCall
    <3> QED BY <1>4, <3>3, <3>4, <3>5
  <2>12. GroupMatchesTable'
    BY <2>10, <2>11 DEF GroupMatchesTable
  <2>13. IsInjective(thread_defunct')
    BY <1>1, <1>4 DEF Structure, Buried
  <2> QED BY <1>2, <1>3, <1>4, <1>5, <2>6, <2>7, <2>9, <2>12, <2>13, ManagerStep
<1> QED BY <1>7, <1>8

LEMMA ResumeUnlinkStep ==
    ASSUME ListInv, TypeInv', SwitchSavesRunner', NEW m \in Worker, NEW t, pc[m].obj = t,
           ResumeUnlink(m)
    PROVE  ListInv'
<1>1. Structure /\ TypeOK /\ TypeOK'
  BY DEF ListInv, Structure, TypeInv
<1>2. At(m, "unlink") /\ Runs(m) /\ "unlink" \in Step \ {"run", "sched"}
  BY DEF ResumeUnlink, At, Step
<1>3. /\ t \in Thread \ {Idle, m} /\ <<m, t>> \in Manages /\ stat[m] = "ready"
      /\ pc[m].at = "unlink" /\ Found(m, t) /\ t # Nobody
      /\ pc[t].obj = Nobody /\ pc[t].at \in {"run", "sched"}
      /\ \A n \in Thread \ {m} : pc[n].obj # t
  BY <1>2, CallerRuns
<1>4. /\ UNCHANGED <<stat, current_priority, ready_priority_group, rt_current_thread, on_cpu,
                     scheduler_lock_nest>>
      /\ priority_table' = Unlinked(priority_table, t)
      /\ waiting' = waiting \ {t} /\ timer' = timer \ {t}
      /\ thread_defunct' = Unlink(thread_defunct, t)
      /\ Call(m, "insert", t, pc[m].ret)
  BY DEF ResumeUnlink, switchVars
<1>5. /\ pc'[m].at = "insert" /\ pc'[m].obj = t /\ pc'[m].ret = pc[m].ret
      /\ \A u \in Thread \ {m} : pc'[u] = pc[u]
  BY <1>1, <1>4, AfterCall
<1>6. \A p \in Priority :
         /\ IsInjective(priority_table'[p])
         /\ ToSet(priority_table'[p]) = ToSet(priority_table[p]) \ {t}
         /\ p # current_priority[t] \/ stat[t] # "ready" => priority_table'[p] = priority_table[p]
  BY <1>1, <1>3, <1>4, QueuesUnlinked DEF Structure
<1>7. IsInjective(thread_defunct') /\ ToSet(thread_defunct') = ToSet(thread_defunct) \ {t}
  <2>1. thread_defunct \in Seq(Thread) /\ IsInjective(thread_defunct)
    BY <1>1 DEF Structure, Buried, TypeOK
  <2> QED BY <1>3, <1>4, <2>1, UnlinkElements
<1>8. Elsewhere(t) /\ Off(t)' /\ OtherCalls(m, t)
  BY <1>3, <1>4, <1>5, <1>6, <1>7 DEF Elsewhere, Off, OtherCalls
<1>9. Placed(m, t)'
  <2>1. stat[t] \in {"ready", "suspend"}
    BY <1>3 DEF Found
  <2>2. Found(m, t)'
    BY <1>3, <1>4, <1>5, <1>8 DEF Found, Off
  <2> QED BY <1>3, <1>4, <1>5, <1>8, <2>1, <2>2 DEF Placed, Off
<1>10. InCall(t, {"insert"})'
  BY <1>5 DEF InCall
<1>11. ASSUME NEW p \in Priority, priority_table'[p] # <<>>
       PROVE  p \in ready_priority_group'
  <2>1. priority_table[p] # <<>>
    <3>1. priority_table[p] \in Seq(Thread) /\ priority_table'[p] \in Seq(Thread)
      BY <1>1 DEF TypeOK
    <3> QED BY <1>6, <1>11, <3>1, EmptyList
  <2> QED BY <1>1, <1>4, <2>1 DEF Structure, GroupMatchesTable
<1>12. ASSUME NEW p \in ready_priority_group', priority_table'[p] = <<>>
       PROVE  \E u \in Thread : current_priority'[u] = p /\ stat'[u] = "ready"
                                /\ InCall(u, {"insert"})'
  <2>1. p \in Priority
    BY <1>1, <1>4 DEF TypeOK
  <2>2. CASE p = current_priority[t] /\ stat[t] = "ready"
    BY <1>3, <1>4, <1>10, <2>2
  <2>3. CASE ~(p = current_priority[t] /\ stat[t] = "ready")
    <3>1. PICK u \in Thread : current_priority[u] = p /\ stat[u] = "ready" /\ InCall(u, {"insert"})
      BY <1>1, <1>4, <1>6, <1>12, <2>1, <2>3 DEF Structure, GroupMatchesTable
    <3>2. PICK n \in Thread : pc[n].obj = u /\ pc[n].at = "insert"
      BY <3>1 DEF InCall
    <3>3. pc'[n] = pc[n]
      BY <1>3, <1>5, <3>2
    <3>4. InCall(u, {"insert"})'
      BY <3>2, <3>3 DEF InCall
    <3> QED BY <1>4, <3>1, <3>4
  <2> QED BY <2>2, <2>3
<1>13. GroupMatchesTable'
  BY <1>11, <1>12 DEF GroupMatchesTable
<1> QED BY <1>2, <1>3, <1>4, <1>6, <1>7, <1>8, <1>9, <1>13, ManagerStep

LEMMA ResumeInsertStep ==
    ASSUME ListInv, TypeInv', SwitchSavesRunner', NEW m \in Worker, NEW t, pc[m].obj = t,
           ResumeInsert(m)
    PROVE  ListInv'
<1>1. Structure /\ TypeOK
  BY DEF ListInv, Structure, TypeInv
<1>2. At(m, "insert") /\ Runs(m) /\ "insert" \in Step \ {"run", "sched"}
  BY DEF ResumeInsert, At, Step
<1>3. /\ t \in Thread \ {Idle, m} /\ stat[m] = "ready"
      /\ pc[m].at = "insert" /\ Found(m, t) /\ t # Nobody
      /\ pc[t].obj = Nobody /\ pc[t].at \in {"run", "sched"}
      /\ \A n \in Thread \ {m} : pc[n].obj # t
      /\ pc[m].ret \in {"run", "sched"}
  BY <1>1, <1>2, CallerRuns, ObjType
<1>4. /\ UNCHANGED <<current_priority, waiting, timer, thread_defunct, rt_current_thread, on_cpu,
                     scheduler_lock_nest>>
      /\ InsertThread(t) /\ Goto(m, pc[m].ret)
  BY DEF ResumeInsert, switchVars
<1>5. /\ pc'[m].at \in {"run", "sched"} /\ pc'[m].obj = Nobody
      /\ \A u \in Thread \ {m} : pc'[u] = pc[u]
  BY <1>1, <1>3, <1>4, AfterGoto
<1>6. stat'[t] = "ready" /\ \A u \in Thread \ {t} : stat'[u] = stat[u]
  BY <1>1, <1>3, <1>4 DEF InsertThread, TypeOK
<1>7. Off(t)
  BY <1>3 DEF Found
<1>8. /\ Queued' /\ GroupMatchesTable'
      /\ \A p \in Priority : ToSet(priority_table'[p]) =
            ToSet(priority_table[p]) \cup IF p = current_priority[t] THEN {t} ELSE {}
  BY <1>1, <1>3, <1>4, <1>5, <1>7, InsertKeeps DEF Off
<1>9. Elsewhere(t) /\ OtherCalls(m, t)
  BY <1>3, <1>4, <1>5, <1>6, <1>8 DEF Elsewhere, OtherCalls
<1>10. Placed(m, t)'
  <2>1. current_priority[t] \in Priority
    BY <1>1, <1>3 DEF TypeOK
  <2> QED BY <1>3, <1>4, <1>5, <1>6, <1>7, <1>8, <2>1 DEF Placed, Off
<1>11. IsInjective(thread_defunct') /\ \A p \in Priority : IsInjective(priority_table'[p])
  BY <1>1, <1>4, <1>8 DEF Structure, Queued, Buried
<1> QED BY <1>2, <1>3, <1>4, <1>8, <1>9, <1>10, <1>11, ManagerStep

LEMMA SuspendRemoveStep ==
    ASSUME ListInv, TypeInv', SwitchSavesRunner', NEW m \in Worker, NEW t, pc[m].obj = t,
           SuspendRemove(m)
    PROVE  ListInv'
<1>1. Structure /\ TypeOK
  BY DEF ListInv, Structure, TypeInv
<1>2. At(m, "suspend") /\ Runs(m) /\ "suspend" \in Step \ {"run", "sched"}
  BY DEF SuspendRemove, At, Step
<1>3. /\ t \in Thread \ {Idle, m} /\ stat[m] = "ready"
      /\ pc[m].at = "suspend" /\ Found(m, t) /\ t # Nobody
      /\ pc[t].obj = Nobody /\ pc[t].at \in {"run", "sched"}
      /\ \A n \in Thread \ {m} : pc[n].obj # t
  BY <1>2, CallerRuns
<1>4. /\ UNCHANGED <<current_priority, rt_current_thread, on_cpu, scheduler_lock_nest>>
      /\ RemoveThread(t) /\ Goto(m, "run")
      /\ waiting' = waiting \ {t} /\ timer' = timer \ {t}
      /\ thread_defunct' = Unlink(thread_defunct, t)
      /\ stat' = [stat EXCEPT ![t] = "suspend"]
  BY DEF SuspendRemove, switchVars
<1>5. pc'[m].at = "run" /\ pc'[m].obj = Nobody /\ \A u \in Thread \ {m} : pc'[u] = pc[u]
  BY <1>1, <1>3, <1>4, AfterGoto
<1>6. stat'[t] = "suspend" /\ \A u \in Thread \ {t} : stat'[u] = stat[u]
  BY <1>1, <1>3, <1>4 DEF TypeOK
<1>7. /\ Queued' /\ GroupMatchesTable'
      /\ \A p \in Priority : ToSet(priority_table'[p]) = ToSet(priority_table[p]) \ {t}
  <2>1. ~InCall(t, {"insert"})
    BY <1>3 DEF InCall
  <2> QED BY <1>1, <1>3, <1>4, <1>5, <1>6, <2>1, RemoveKeeps
<1>8. IsInjective(thread_defunct') /\ ToSet(thread_defunct') = ToSet(thread_defunct) \ {t}
  BY <1>1, <1>3, <1>4, UnlinkElements DEF Structure, Buried, TypeOK
<1>9. Elsewhere(t) /\ OtherCalls(m, t)
  BY <1>3, <1>4, <1>5, <1>6, <1>7, <1>8 DEF Elsewhere, OtherCalls
<1>10. Placed(m, t)'
  BY <1>3, <1>4, <1>5, <1>6, <1>7, <1>8 DEF Placed
<1>11. \A p \in Priority : IsInjective(priority_table'[p])
  BY <1>7 DEF Queued
<1> QED BY <1>2, <1>3, <1>4, <1>7, <1>8, <1>9, <1>10, <1>11, ManagerStep

LEMMA DeleteCloseStep ==
    ASSUME ListInv, TypeInv', SwitchSavesRunner', NEW m \in Worker, NEW t, pc[m].obj = t,
           DeleteClose(m)
    PROVE  ListInv'
<1>1. Structure /\ TypeOK
  BY DEF ListInv, Structure, TypeInv
<1>2. At(m, "close") /\ Runs(m) /\ "close" \in Step \ {"run", "sched"}
  BY DEF DeleteClose, At, Step
<1>3. /\ t \in Thread \ {Idle, m} /\ <<m, t>> \in Manages /\ stat[m] = "ready"
      /\ pc[m].at = "close" /\ Found(m, t) /\ t # Nobody
      /\ pc[t].obj = Nobody /\ pc[t].at \in {"run", "sched"}
      /\ \A n \in Thread \ {m} : pc[n].obj # t
  BY <1>2, CallerRuns
<1>4. Off(t) /\ current_priority[m] < current_priority[t]
  BY <1>3 DEF Found
<1>5. /\ UNCHANGED <<current_priority, waiting, priority_table, ready_priority_group, thread_defunct,
                     rt_current_thread, on_cpu, scheduler_lock_nest>>
      /\ timer' = timer \ {t} /\ stat' = [stat EXCEPT ![t] = FinalStat(t)]
      /\ IF FinalStat(t) = "close" THEN Call(m, "bury", t, "run") ELSE Goto(m, "run")
  BY DEF DeleteClose, listVars, switchVars
<1>6. /\ stat'[t] \in {"none", "close"}
      /\ IF stat'[t] = "close" THEN pc'[m].at = "bury" /\ pc'[m].obj = t
                               ELSE pc'[m].at = "run" /\ pc'[m].obj = Nobody
      /\ \A u \in Thread \ {m} : pc'[u] = pc[u]
      /\ \A u \in Thread \ {t} : stat'[u] = stat[u]
  <2>1. /\ stat'[t] = FinalStat(t) /\ \A u \in Thread \ {t} : stat'[u] = stat[u]
        /\ FinalStat(t) \in {"none", "close"}
    BY <1>1, <1>3, <1>5 DEF TypeOK, FinalStat
  <2>2. CASE FinalStat(t) = "close"
    BY <1>1, <1>5, <2>1, <2>2, AfterCall
  <2>3. CASE FinalStat(t) # "close"
    BY <1>1, <1>5, <2>1, <2>3, AfterGoto
  <2> QED BY <2>1, <2>2, <2>3
<1>7. Elsewhere(t) /\ OtherCalls(m, t)
  BY <1>3, <1>5, <1>6 DEF Elsewhere, OtherCalls
<1>8. GroupMatchesTable'
  BY <1>1, <1>3, <1>5, <1>7, GroupSame
<1>9. Off(t)'
  BY <1>4, <1>5 DEF Off
<1>10. Placed(m, t)'
  BY <1>3, <1>4, <1>5, <1>6, <1>9 DEF Placed, Found, Off
<1>11. IsInjective(thread_defunct') /\ \A p \in Priority : IsInjective(priority_table'[p])
  BY <1>1, <1>5 DEF Structure, Queued, Buried
<1> QED BY <1>2, <1>3, <1>5, <1>7, <1>8, <1>10, <1>11, ManagerStep

LEMMA DeleteBuryStep ==
    ASSUME ListInv, TypeInv', SwitchSavesRunner', NEW m \in Worker, NEW t, pc[m].obj = t,
           DeleteBury(m)
    PROVE  ListInv'
<1>1. Structure /\ TypeOK
  BY DEF ListInv, Structure, TypeInv
<1>2. At(m, "bury") /\ Runs(m) /\ "bury" \in Step \ {"run", "sched"}
  BY DEF DeleteBury, At, Step
<1>3. /\ t \in Thread \ {Idle, m} /\ stat[m] = "ready"
      /\ pc[m].at = "bury" /\ Found(m, t) /\ t # Nobody
      /\ pc[t].obj = Nobody /\ pc[t].at \in {"run", "sched"}
      /\ \A n \in Thread \ {m} : pc[n].obj # t
  BY <1>2, CallerRuns
<1>4. Off(t) /\ stat[t] = "close"
  BY <1>3 DEF Found
<1>5. /\ UNCHANGED <<stat, current_priority, timer, waiting, priority_table, ready_priority_group,
                     rt_current_thread, on_cpu, scheduler_lock_nest>>
      /\ thread_defunct' = Push(thread_defunct, t) /\ Goto(m, "run")
  BY DEF DeleteBury, Bury, threadVars, switchVars
<1>6. pc'[m].at = "run" /\ pc'[m].obj = Nobody /\ \A u \in Thread \ {m} : pc'[u] = pc[u]
  BY <1>1, <1>3, <1>5, AfterGoto
<1>7. IsInjective(thread_defunct') /\ ToSet(thread_defunct') = ToSet(thread_defunct) \cup {t}
  <2>1. thread_defunct \in Seq(Thread) /\ IsInjective(thread_defunct)
    BY <1>1 DEF Structure, Buried, TypeOK
  <2>2. t \notin ToSet(thread_defunct)
    BY <1>4 DEF Off
  <2> QED BY <1>3, <1>5, <2>1, <2>2, PushElements
<1>8. Elsewhere(t) /\ OtherCalls(m, t)
  BY <1>3, <1>5, <1>6, <1>7 DEF Elsewhere, OtherCalls
<1>9. GroupMatchesTable'
  BY <1>1, <1>3, <1>5, <1>8, GroupSame
<1>10. Placed(m, t)'
  BY <1>3, <1>4, <1>5, <1>6, <1>7 DEF Placed, Off
<1>11. \A p \in Priority : IsInjective(priority_table'[p])
  BY <1>1, <1>5 DEF Structure, Queued
<1> QED BY <1>2, <1>3, <1>5, <1>7, <1>8, <1>9, <1>10, <1>11, ManagerStep

-----------------------------------------------------------------------------
(* The idle thread frees what it finds on the defunct list.                *)

LEMMA ReapStep ==
    ASSUME ListInv, TypeInv', SwitchSavesRunner', NEW t, t = Head(thread_defunct), Reap
    PROVE  ListInv'
<1>1. Structure /\ TypeOK /\ Idle \in Thread /\ Idle \in Static
  BY SchedulerAssumption DEF ListInv, Structure, TypeInv
<1>2. /\ rt_current_thread = Idle /\ on_cpu = Idle
      /\ pc[Idle].at = "run" /\ pc[Idle].obj = Nobody
  BY <1>1, WhoRuns DEF Reap
<1>3. thread_defunct \in Seq(Thread) /\ thread_defunct # <<>> /\ IsInjective(thread_defunct)
  BY <1>1 DEF Reap, TypeOK, Structure, Buried
<1>4. /\ t \in ToSet(thread_defunct) /\ IsInjective(Tail(thread_defunct))
      /\ ToSet(Tail(thread_defunct)) = ToSet(thread_defunct) \ {t}
  BY <1>3, TailElements
<1>5. t \in Thread /\ t # Nobody /\ stat[t] = "close" /\ ~InCall(t, {"close", "bury"})
  BY <1>1, <1>4, DefunctMembers, SchedulerAssumption DEF Structure, Buried
<1>6. t # Idle
  BY <1>1, <1>5 DEF Structure, IdleReady
<1>7. \A n \in Thread : pc[n].obj # t
  <2> SUFFICES ASSUME NEW n \in Thread, pc[n].obj = t PROVE FALSE
    OBVIOUS
  <2>1. Found(n, t) /\ pc[n].at \notin {"run", "sched"} /\ pc[n].at \in Step
    BY <1>1, <1>5, ObjType DEF Structure, Calls
  <2>2. pc[n].at \notin {"close", "bury"} /\ ~Off(t)
    BY <1>4, <1>5 DEF InCall, Off
  <2> QED BY <1>5, <2>1, <2>2 DEF Found, Step
<1>8. pc[t].obj = Nobody /\ pc[t].at \in {"run", "sched"}
  <2>1. ASSUME NEW u \in Thread, pc[t].obj = u PROVE FALSE
    BY <1>1, <1>5, <1>6, <2>1 DEF Structure, Calls, Caller
  <2>2. pc[t].obj = Nobody
    BY <1>1, <1>5, <2>1, ObjType
  <2> QED BY <1>1, <1>5, <2>2 DEF Structure, Calls
<1>9. /\ thread_defunct' = Tail(thread_defunct)
      /\ UNCHANGED <<current_priority, timer, waiting, priority_table, ready_priority_group,
                     scheduler_lock_nest, on_cpu>>
      /\ \/ t \in Static /\ stat' = [stat EXCEPT ![t] = "none"] /\ UNCHANGED pc
         \/ t \notin Static /\ Call(Idle, "free", t, "run") /\ UNCHANGED stat
  BY DEF Reap
<1>10. /\ \A u \in Thread \ {t} : stat'[u] = stat[u]
       /\ \A n \in Thread \ {Idle} : pc'[n] = pc[n]
       /\ \/ t \in Static /\ stat'[t] = "none" /\ pc'[Idle] = pc[Idle]
          \/ t \notin Static /\ stat'[t] = "close" /\ pc'[Idle].at = "free" /\ pc'[Idle].obj = t
  BY <1>1, <1>5, <1>9, AfterCall DEF TypeOK
<1>11. Elsewhere(t) /\ OtherCalls(Idle, t)
  <2>1. Elsewhere(t)
    BY <1>4, <1>9, <1>10 DEF Elsewhere
  <2>2. \A n \in Thread \ {Idle} : pc[n].obj # t /\ pc'[n] = pc[n]
    BY <1>7, <1>10
  <2>3. pc'[t].at \in {"run", "sched"}
    BY <1>5, <1>6, <1>8, <1>10
  <2>4. /\ pc'[Idle].obj \in {t, Nobody}
        /\ pc'[Idle].at \in {"run", "sched"} <=> pc'[Idle].obj = Nobody
    BY <1>2, <1>5, <1>10
  <2> QED BY <1>2, <1>8, <2>1, <2>2, <2>3, <2>4 DEF OtherCalls
<1>12. GroupMatchesTable'
  BY <1>1, <1>2, <1>5, <1>9, <1>11, GroupSame
<1>13. Off(t)'
  BY <1>1, <1>4, <1>5, <1>9 DEF Off, Structure, Queued, Sleeping
<1>14. Placed(Idle, t)'
  BY <1>2, <1>5, <1>10, <1>13 DEF Placed, Found, Off
<1>15. IsInjective(thread_defunct') /\ \A p \in Priority : IsInjective(priority_table'[p])
  BY <1>1, <1>4, <1>9 DEF Structure, Queued
<1>16. Structure'
  BY <1>1, <1>5, <1>6, <1>11, <1>12, <1>14, <1>15, MoveStructure
<1>17. Schedule(priority_table', ready_priority_group')
  BY <1>9 DEF Reap
<1>18. /\ rt_current_thread' = rt_current_thread \/ Choice(rt_current_thread)'
       /\ scheduler_lock_nest = 0 => Choice(rt_current_thread)'
  BY <1>16, <1>17, ScheduleChooses
<1>19. Choice(rt_current_thread)' \/ Runner'
  BY <1>1, <1>2, <1>6, <1>10, <1>18 DEF Runner, Structure, IdleReady
<1>20. /\ \A n \in Thread : pc'[n].obj # Nobody =>
             pc'[n].obj = pc[n].obj \/ pc'[n].obj \notin {on_cpu, rt_current_thread}
       /\ \A u \in Thread : stat'[u] = "none" => stat[u] = "none" \/ u \notin {on_cpu, rt_current_thread}
       /\ \A n \in Thread : pc'[n].obj # Nobody => pc'[n].obj \in Thread
  <2>1. \A n \in Thread : pc'[n].obj # Nobody => pc'[n].obj \in Thread
    BY <1>16 DEF Structure, TypeInv, TypeOK, Place
  <2> QED BY <1>2, <1>6, <1>10, <2>1
<1>21. Running'
  BY <1>9, <1>18, <1>19, <1>20, RunningKept
<1> QED BY <1>16, <1>21 DEF ListInv

LEMMA FreeStep ==
    ASSUME ListInv, TypeInv', SwitchSavesRunner', NEW t, t = pc[Idle].obj, Free
    PROVE  ListInv'
<1>1. Structure /\ TypeOK /\ Idle \in Thread
  BY SchedulerAssumption DEF ListInv, Structure, TypeInv
<1>2. /\ rt_current_thread = Idle /\ on_cpu = Idle /\ Runs(Idle)
      /\ pc[Idle].at = "free" /\ stat[Idle] = "ready"
  BY <1>1, WhoRuns DEF Free, At, Structure, IdleReady
<1>3. t \in Thread /\ t # Nobody
  BY <1>1, <1>2, SchedulerAssumption DEF Structure, TypeInv, CallsOnThreads
<1>4. Caller(Idle, t) /\ Found(Idle, t)
  BY <1>1, <1>3 DEF Structure, Calls
<1>5. t # Idle /\ stat[t] = "close" /\ Off(t) /\ \A n \in Thread \ {Idle} : pc[n].obj # t
  BY <1>2, <1>4 DEF Caller, Found
<1>6. pc[t].obj = Nobody /\ pc[t].at \in {"run", "sched"}
  <2>1. ASSUME NEW u \in Thread, pc[t].obj = u PROVE FALSE
    BY <1>1, <1>3, <1>5, <2>1 DEF Structure, Calls, Caller
  <2>2. pc[t].obj = Nobody
    BY <1>1, <1>3, <2>1, ObjType
  <2> QED BY <1>1, <1>3, <2>2 DEF Structure, Calls
<1>7. /\ UNCHANGED <<current_priority, timer, waiting, priority_table, ready_priority_group,
                     thread_defunct, rt_current_thread, scheduler_lock_nest, on_cpu>>
      /\ stat'[t] = "none" /\ \A u \in Thread \ {t} : stat'[u] = stat[u]
      /\ Goto(Idle, "run")
  BY <1>1, <1>3 DEF Free, listVars, switchVars, TypeOK
<1>8. pc'[Idle].at = "run" /\ pc'[Idle].obj = Nobody /\ \A n \in Thread \ {Idle} : pc'[n] = pc[n]
  BY <1>1, <1>7, AfterGoto
<1>9. Elsewhere(t) /\ OtherCalls(Idle, t)
  <2>1. Elsewhere(t)
    BY <1>7 DEF Elsewhere
  <2>2. \A n \in Thread \ {Idle} : pc[n].obj # t /\ pc'[n] = pc[n]
    BY <1>5, <1>8
  <2>3. pc'[t].at \in {"run", "sched"} /\ pc[Idle].obj = t
    BY <1>3, <1>5, <1>6, <1>8
  <2> QED BY <1>6, <1>8, <2>1, <2>2, <2>3 DEF OtherCalls
<1>10. GroupMatchesTable'
  BY <1>1, <1>2, <1>3, <1>7, <1>9, GroupSame
<1>11. Placed(Idle, t)'
  BY <1>3, <1>5, <1>7, <1>8 DEF Placed, Off
<1>12. IsInjective(thread_defunct') /\ \A p \in Priority : IsInjective(priority_table'[p])
  BY <1>1, <1>7 DEF Structure, Queued, Buried
<1> QED BY <1>1, <1>2, <1>3, <1>5, <1>7, <1>9, <1>10, <1>11, <1>12, ManagerStep

-----------------------------------------------------------------------------
(* The steps of a thread for itself.                                       *)

\* rt_thread_sleep, a blocking IPC call, rt_thread_exit.
LEMMA LeaveStep ==
    ASSUME ListInv, TypeInv', SwitchSavesRunner', NEW t \in Worker, Sleep(t) \/ Wait(t) \/ Exit(t)
    PROVE  ListInv'
<1>1. Structure /\ TypeOK /\ Sleeping
  BY DEF ListInv, Structure, TypeInv
<1>2. At(t, "run") /\ Goto(t, "sched")
  BY DEF Sleep, Wait, Exit
<1>3. rt_current_thread = t /\ pc[t].at = "run" /\ pc[t].obj = Nobody /\ t # Nobody
      /\ \A m \in Thread : pc[m].obj # t
  BY <1>2, WhoRuns
<1>4. /\ UNCHANGED <<current_priority, rt_current_thread, on_cpu, scheduler_lock_nest>>
      /\ stat[t] = "ready" \/ (stat[t] = "suspend" /\ scheduler_lock_nest > 0)
  BY <1>2, RunnerStat DEF Sleep, Wait, Exit, switchVars
<1>5. pc'[t].at = "sched" /\ \A m \in Thread : pc'[m].obj = pc[m].obj
  BY <1>1, <1>2, <1>3, AfterGoto
<1>6. CASE stat[t] # "ready"
  <2>1. /\ Sleep(t) /\ timer' = timer \cup {t}
        /\ UNCHANGED <<stat, priority_table, ready_priority_group, waiting, thread_defunct>>
    BY <1>1, <1>4, <1>6 DEF Sleep, Wait, Exit, TypeOK
  <2>2. \A m \in Thread : /\ pc'[m].at \in {"run", "sched"} <=> pc'[m].obj = Nobody
                          /\ pc[m].obj # Nobody => pc'[m] = pc[m]
    BY <1>1, <1>2, <1>3, AfterGoto DEF Structure, Calls
  <2>3. Structure'
    BY <1>1, <1>3, <1>4, <1>5, <1>6, <2>1, <2>2, QuietStructure DEF Structure, Queued
  <2>4. Runner'
    BY <1>3, <1>4, <1>5, <1>6, <2>1 DEF Runner
  <2> QED BY <1>4, <1>5, <2>1, <2>3, <2>4, SelfRunning
<1>7. CASE stat[t] = "ready"
  <2>1. t \notin waiting \cup timer
    BY <1>1, <1>7 DEF Sleeping
  <2>2. ASSUME Sleep(t) \/ Wait(t) PROVE ListInv'
    <3>1. /\ stat' = [stat EXCEPT ![t] = "suspend"] /\ RemoveThread(t)
          /\ thread_defunct' = thread_defunct
          /\ waiting' \cup timer' \subseteq waiting \cup timer \cup {t}
      BY <1>7, <2>2 DEF Sleep, Wait
    <3>2. Structure'
      BY <1>2, <1>4, <1>7, <3>1, LeaveStructure
    <3>3. stat'[t] = "suspend" /\ \A u \in Thread \ {t} : stat'[u] = stat[u]
      BY <1>1, <3>1 DEF TypeOK
    <3>4. Runner'
      BY <1>3, <1>4, <1>5, <3>3 DEF Runner
    <3> QED BY <1>4, <1>5, <3>2, <3>3, <3>4, SelfRunning
  <2>3. ASSUME Exit(t) PROVE ListInv'
    <3>1. /\ stat' = [stat EXCEPT ![t] = FinalStat(t)] /\ RemoveThread(t)
          /\ thread_defunct' = IF FinalStat(t) = "close" THEN Push(thread_defunct, t)
                                                         ELSE thread_defunct
          /\ waiting' = waiting /\ timer' = timer \ {t}
          /\ scheduler_lock_nest = 0
      BY <2>3 DEF Exit, Bury
    <3>2. FinalStat(t) \in {"close", "none"} /\ (FinalStat(t) = "none" => t \in Static)
      BY DEF FinalStat
    <3>3. Structure'
      BY <1>2, <1>4, <1>7, <2>1, <3>1, <3>2, LeaveStructure
    <3>4. stat'[t] = FinalStat(t) /\ \A u \in Thread \ {t} : stat'[u] = stat[u]
      BY <1>1, <3>1 DEF TypeOK
    <3>5. Runner'
      BY <1>3, <1>4, <1>5, <3>1, <3>2, <3>4 DEF Runner
    <3> QED BY <1>4, <1>5, <3>2, <3>3, <3>4, <3>5, SelfRunning
  <2> QED BY <2>2, <2>3
<1> QED BY <1>6, <1>7

\* Steps that leave the threads and their queues alone.
LEMMA StillStructure ==
    ASSUME Structure, TypeInv',
           UNCHANGED <<stat, current_priority, timer, waiting, priority_table, ready_priority_group,
                       thread_defunct>>,
           \/ pc' = pc
           \/ \E t \in Thread, step \in {"run", "sched"} : pc[t].obj = Nobody /\ Goto(t, step)
    PROVE  Structure' /\ \A m \in Thread : pc'[m].obj = pc[m].obj
<1>1. TypeOK
  BY DEF Structure, TypeInv
<1>2. \A m \in Thread : /\ pc'[m].obj = pc[m].obj
                        /\ pc'[m].at \in {"run", "sched"} <=> pc'[m].obj = Nobody
                        /\ pc[m].obj # Nobody => pc'[m] = pc[m]
  <2>1. CASE pc' = pc
    BY <2>1 DEF Structure, Calls
  <2>2. ASSUME NEW t \in Thread, NEW step \in {"run", "sched"}, pc[t].obj = Nobody, Goto(t, step)
        PROVE  \A m \in Thread : /\ pc'[m].obj = pc[m].obj
                                 /\ pc'[m].at \in {"run", "sched"} <=> pc'[m].obj = Nobody
                                 /\ pc[m].obj # Nobody => pc'[m] = pc[m]
    BY <1>1, <2>2, AfterGoto DEF Structure, Calls
  <2> QED BY <2>1, <2>2
<1> QED BY <1>2, QuietStructure DEF Structure, Queued

LEMMA CriticalStep ==
    ASSUME ListInv, TypeInv', SwitchSavesRunner', NEW t \in Worker,
           EnterCritical(t) \/ ExitCritical(t)
    PROVE  ListInv'
<1>1. Structure /\ TypeOK /\ TypeOK'
  BY DEF ListInv, Structure, TypeInv
<1>2. /\ rt_current_thread = t /\ pc[t].at = "run" /\ pc[t].obj = Nobody /\ t # Nobody
  BY WhoRuns DEF EnterCritical, ExitCritical
<1>3. UNCHANGED <<stat, current_priority, timer, waiting, priority_table, ready_priority_group,
                  thread_defunct, rt_current_thread, on_cpu>>
  BY DEF EnterCritical, ExitCritical, threadVars, listVars, switchVars
<1>4. stat[t] = "ready" \/ (stat[t] = "suspend" /\ scheduler_lock_nest > 0)
  BY RunnerStat DEF EnterCritical, ExitCritical
<1>5. scheduler_lock_nest \in Nat
  BY <1>1 DEF TypeOK
<1>6. CASE EnterCritical(t)
  <2>1. pc' = pc /\ scheduler_lock_nest' = scheduler_lock_nest + 1
    BY <1>6 DEF EnterCritical
  <2>2. Structure' /\ \A m \in Thread : pc'[m].obj = pc[m].obj
    BY <1>1, <1>3, <2>1, StillStructure
  <2>3. Runner'
    BY <1>2, <1>3, <1>4, <1>5, <2>1 DEF Runner
  <2> QED BY <1>3, <2>2, <2>3, SelfRunning
<1>7. CASE ExitCritical(t)
  <2>1. /\ Goto(t, AfterUnlock) /\ scheduler_lock_nest' = scheduler_lock_nest - 1
        /\ scheduler_lock_nest > 0
    BY <1>7 DEF ExitCritical
  <2>2. AfterUnlock \in {"run", "sched"} /\ (AfterUnlock = "sched" \/ scheduler_lock_nest' > 0)
    BY <1>5, <2>1 DEF AfterUnlock
  <2>3. Structure' /\ \A m \in Thread : pc'[m].obj = pc[m].obj
    BY <1>1, <1>2, <1>3, <2>1, <2>2, StillStructure
  <2>4. pc'[t].at = AfterUnlock
    BY <1>1, <2>1, AfterGoto
  <2>5. Runner'
    BY <1>2, <1>3, <1>4, <2>2, <2>4 DEF Runner
  <2> QED BY <1>3, <2>3, <2>5, SelfRunning
<1> QED BY <1>6, <1>7

LEMMA YieldStep ==
    ASSUME ListInv, TypeInv', SwitchSavesRunner', NEW t \in Worker, Yield(t)
    PROVE  ListInv'
<1>1. Structure /\ TypeOK /\ Queued
  BY DEF ListInv, Structure, TypeInv
<1>2. /\ rt_current_thread = t /\ pc[t].at = "run" /\ pc[t].obj = Nobody /\ t # Nobody
  BY WhoRuns DEF Yield
<1>3. /\ UNCHANGED <<stat, current_priority, timer, waiting, ready_priority_group,
                     thread_defunct, rt_current_thread, on_cpu>>
      /\ CanYield(t) /\ ToTail(t) /\ Goto(t, "sched") /\ stat[t] = "ready"
  BY DEF Yield, threadVars, switchVars, CanYield
<1>4. \A p \in Priority : /\ IsInjective(priority_table'[p])
                          /\ ToSet(priority_table'[p]) = ToSet(priority_table[p])
  BY <1>1, <1>3, Rotated
<1>5. \A m \in Thread : /\ pc'[m].obj = pc[m].obj
                        /\ pc'[m].at \in {"run", "sched"} <=> pc'[m].obj = Nobody
                        /\ pc[m].obj # Nobody => pc'[m] = pc[m]
  BY <1>1, <1>2, <1>3, AfterGoto DEF Structure, Calls
<1>6. Structure'
  BY <1>1, <1>3, <1>4, <1>5, QuietStructure
<1>7. Runner'
  BY <1>2, <1>3 DEF Runner
<1> QED BY <1>3, <1>5, <1>6, <1>7, SelfRunning

LEMMA CallScheduleStep ==
    ASSUME ListInv, TypeInv', SwitchSavesRunner', NEW t \in Worker, CallSchedule(t)
    PROVE  ListInv'
<1>1. Structure /\ TypeOK
  BY DEF ListInv, Structure, TypeInv
<1>2. /\ rt_current_thread = t /\ pc[t].at = "sched" /\ pc[t].obj = Nobody /\ t # Nobody
  BY WhoRuns DEF CallSchedule
<1>3. /\ UNCHANGED <<stat, current_priority, timer, waiting, priority_table, ready_priority_group,
                     thread_defunct, on_cpu, scheduler_lock_nest>>
      /\ Goto(t, "run")
  BY DEF CallSchedule, threadVars, listVars
<1>4. Structure' /\ \A m \in Thread : pc'[m].obj = pc[m].obj
  BY <1>1, <1>2, <1>3, StillStructure
<1>5. Schedule(priority_table', ready_priority_group')
  BY <1>3 DEF CallSchedule
<1>6. /\ rt_current_thread' = rt_current_thread \/ Choice(rt_current_thread)'
      /\ scheduler_lock_nest = 0 => Choice(rt_current_thread)'
  BY <1>4, <1>5, ScheduleChooses
<1>7. scheduler_lock_nest \in Nat
  BY <1>1 DEF TypeOK
<1>8. Choice(rt_current_thread)' \/ Runner'
  BY <1>2, <1>3, <1>6, <1>7 DEF ListInv, Running, Runner
<1>9. \A m \in Thread : pc'[m].obj # Nobody => pc'[m].obj \in Thread
  BY <1>4 DEF Structure, TypeInv, TypeOK, Place
<1>10. Running'
  BY <1>3, <1>4, <1>6, <1>8, <1>9, RunningKept
<1> QED BY <1>4, <1>10 DEF ListInv

\* Another thread or a device resumes a waiter.
LEMMA WakeStep ==
    ASSUME ListInv, TypeInv', SwitchSavesRunner', NEW w \in Thread,
           (\E t \in Worker : Wake(t, w)) \/ DeviceWake(w)
    PROVE  ListInv'
<1>1. Structure /\ TypeOK
  BY DEF ListInv, Structure, TypeInv
<1>2. /\ UNCHANGED <<current_priority, thread_defunct, rt_current_thread, on_cpu, scheduler_lock_nest>>
      /\ w \in waiting /\ InsertThread(w) /\ waiting' = waiting \ {w} /\ timer' = timer \ {w}
  BY DEF Wake, DeviceWake, ResumeWaiter, switchVars
<1>3. /\ \A m \in Thread : /\ pc'[m].obj = pc[m].obj
                           /\ pc'[m].at \in {"run", "sched"} <=> pc'[m].obj = Nobody
                           /\ pc[m].obj # Nobody => pc'[m] = pc[m]
      /\ \A m \in Thread : pc[m].at = "sched" => pc'[m].at = "sched"
  <2>1. ASSUME NEW t \in Worker, Wake(t, w)
        PROVE  /\ \A m \in Thread : /\ pc'[m].obj = pc[m].obj
                                    /\ pc'[m].at \in {"run", "sched"} <=> pc'[m].obj = Nobody
                                    /\ pc[m].obj # Nobody => pc'[m] = pc[m]
               /\ \A m \in Thread : pc[m].at = "sched" => pc'[m].at = "sched"
    <3>1. pc[t].obj = Nobody /\ Goto(t, "sched")
      BY <2>1, WhoRuns DEF Wake
    <3> QED BY <1>1, <3>1, AfterGoto DEF Structure, Calls
  <2>2. CASE pc' = pc
    BY <1>1, <2>2 DEF Structure, Calls
  <2> QED BY <2>1, <2>2 DEF DeviceWake
<1>4. Structure' /\ stat'[w] = "ready" /\ \A u \in Thread \ {w} : stat'[u] = stat[u]
  BY <1>1, <1>2, <1>3, ResumeStructure
<1>5. Runner'
  <2>1. rt_current_thread \in Object
    BY <1>1 DEF TypeOK
  <2> QED BY <1>2, <1>3, <1>4, <2>1 DEF ListInv, Running, Runner
<1> QED BY <1>2, <1>3, <1>4, <1>5, SelfRunning

-----------------------------------------------------------------------------
(* Interrupts and the context switch.                                      *)

LEMMA TickListStep ==
    ASSUME ListInv, TypeInv', SwitchSavesRunner', NEW t, t = rt_current_thread, Tick
    PROVE  ListInv'
<1>1. Structure /\ TypeOK /\ Queued
  BY DEF ListInv, Structure, TypeInv
<1>2. t \in Thread
  BY <1>1 DEF Tick, CanInterrupt, TypeOK
<1>3. /\ UNCHANGED <<stat, current_priority, timer, waiting, ready_priority_group, thread_defunct,
                     on_cpu, scheduler_lock_nest, pc>>
      /\ \/ CanYield(t) /\ ToTail(t) /\ Schedule(priority_table', ready_priority_group)
         \/ UNCHANGED <<priority_table, switchVars>>
  BY DEF Tick
<1>4. CASE UNCHANGED <<priority_table, switchVars>>
  <2>1. Structure'
    BY <1>1, <1>3, <1>4, StillStructure
  <2>2. Runner'
    BY <1>3, <1>4 DEF switchVars, ListInv, Running, Runner
  <2> QED BY <1>3, <1>4, <2>1, <2>2, SelfRunning DEF switchVars
<1>5. CASE CanYield(t) /\ ToTail(t) /\ Schedule(priority_table', ready_priority_group)
  <2>1. \A p \in Priority : /\ IsInjective(priority_table'[p])
                            /\ ToSet(priority_table'[p]) = ToSet(priority_table[p])
    BY <1>1, <1>2, <1>5, Rotated
  <2>2. Structure'
    BY <1>1, <1>3, <2>1, QuietStructure DEF Structure, Calls
  <2>3. Schedule(priority_table', ready_priority_group')
    BY <1>3, <1>5
  <2>4. rt_current_thread' = rt_current_thread \/ Choice(rt_current_thread)'
    BY <2>2, <2>3, ScheduleChooses
  <2>5. Choice(rt_current_thread)' \/ Runner'
    BY <1>3, <1>5, <2>4 DEF Runner, CanYield
  <2>6. \A m \in Thread : pc'[m].obj # Nobody => pc'[m].obj \in Thread
    BY <2>2 DEF Structure, TypeInv, TypeOK, Place
  <2>7. Running'
    BY <1>3, <2>4, <2>5, <2>6, RunningKept
  <2> QED BY <2>2, <2>7 DEF ListInv
<1> QED BY <1>3, <1>4, <1>5

LEMMA TimerExpireStep ==
    ASSUME ListInv, TypeInv', SwitchSavesRunner', NEW w \in Thread, TimerExpire(w)
    PROVE  ListInv'
<1>1. Structure /\ TypeOK
  BY DEF ListInv, Structure, TypeInv
<1>2. /\ UNCHANGED <<current_priority, thread_defunct, on_cpu, scheduler_lock_nest, pc>>
      /\ w \in timer /\ InsertThread(w) /\ waiting' = waiting \ {w} /\ timer' = timer \ {w}
      /\ Schedule(priority_table', ready_priority_group')
  BY DEF TimerExpire
<1>3. Structure' /\ stat'[w] = "ready" /\ \A u \in Thread \ {w} : stat'[u] = stat[u]
  BY <1>1, <1>2, ResumeStructure DEF Structure, Calls
<1>4. rt_current_thread' = rt_current_thread \/ Choice(rt_current_thread)'
  BY <1>2, <1>3, ScheduleChooses
<1>5. Choice(rt_current_thread)' \/ Runner'
  <2>1. rt_current_thread \in Object
    BY <1>1 DEF TypeOK
  <2> QED BY <1>2, <1>3, <1>4, <2>1 DEF ListInv, Running, Runner
<1>6. \A m \in Thread : pc'[m].obj # Nobody => pc'[m].obj \in Thread
  BY <1>3 DEF Structure, TypeInv, TypeOK, Place
<1>7. Running'
  BY <1>2, <1>3, <1>4, <1>5, <1>6, RunningKept
<1> QED BY <1>3, <1>7 DEF ListInv

\* Interrupts that change no list; starting the scheduler; PendSV; stuttering.
LEMMA QuietStep ==
    ASSUME ListInv, TypeInv', SwitchSavesRunner',
           \/ SchedulerStart \/ PendSV \/ TickLeave
           \/ DeviceEnter \/ DeviceSchedule \/ DeviceLeave
           \/ UNCHANGED vars
    PROVE  ListInv'
<1>1. Structure /\ TypeOK
  BY DEF ListInv, Structure, TypeInv
<1>2. UNCHANGED <<stat, current_priority, timer, waiting, priority_table, ready_priority_group,
                  thread_defunct, scheduler_lock_nest, pc>>
  BY DEF SchedulerStart, PendSV, TickLeave, DeviceEnter, DeviceSchedule, DeviceLeave,
         vars, threadVars, listVars
<1>3. Structure'
  BY <1>1, <1>2, StillStructure
<1>4. \A m \in Thread : pc'[m].obj # Nobody => pc'[m].obj \in Thread
  BY <1>3 DEF Structure, TypeInv, TypeOK, Place
<1>5. CASE UNCHANGED <<rt_current_thread, on_cpu>>
  <2>1. Runner'
    BY <1>2, <1>5 DEF ListInv, Running, Runner
  <2> QED BY <1>2, <1>3, <1>5, <2>1, SelfRunning
<1>6. CASE SchedulerStart
  <2>1. /\ rt_current_thread' = ToThread(priority_table', ready_priority_group') /\ on_cpu' = on_cpu
    BY <1>2, <1>6 DEF SchedulerStart
  <2>2. Choice(rt_current_thread)'
    BY <1>3, <2>1, ChosenNext DEF Choice
  <2>3. Running'
    BY <1>2, <1>4, <2>1, <2>2, RunningKept
  <2> QED BY <1>3, <2>3 DEF ListInv
<1>7. CASE DeviceSchedule
  <2>1. Schedule(priority_table', ready_priority_group') /\ on_cpu' = on_cpu
    BY <1>2, <1>7 DEF DeviceSchedule
  <2>2. rt_current_thread' = rt_current_thread \/ Choice(rt_current_thread)'
    BY <1>3, <2>1, ScheduleChooses
  <2>3. Choice(rt_current_thread)' \/ Runner'
    BY <1>2, <2>2 DEF ListInv, Running, Runner
  <2>4. Running'
    BY <1>2, <1>4, <2>1, <2>2, <2>3, RunningKept
  <2> QED BY <1>3, <2>4 DEF ListInv
<1>8. CASE PendSV
  <2>1. on_cpu' = rt_current_thread /\ rt_current_thread' = rt_current_thread
    BY <1>8 DEF PendSV, ListInv, Running, SwitchSavesRunner
  <2>2. NotRunning' /\ Runner' /\ FreedOff'
    BY <1>2, <2>1 DEF ListInv, Running, NotRunning, Runner, FreedOff
  <2> QED BY <1>3, <2>2 DEF ListInv, Running
<1> QED BY <1>5, <1>6, <1>7, <1>8 DEF TickLeave, DeviceEnter, DeviceLeave, vars, switchVars

-----------------------------------------------------------------------------
(* The invariant holds.                                                    *)

LEMMA InitListInv == Init => ListInv
<1> SUFFICES ASSUME Init PROVE ListInv
  OBVIOUS
<1> USE SchedulerAssumption
<1>1. TypeInv /\ TypeOK
  BY InitTypeInv DEF TypeInv
<1>2. /\ \A m \in Thread : pc[m].at = "run" /\ pc[m].obj = Nobody
      /\ \A t \in Thread : ~InCall(t, {"insert", "close"})
  BY DEF Init, AtRest, InCall
<1>3. Queued
  <2> SUFFICES ASSUME NEW p \in Priority, NEW t \in ToSet(Booted[p])
               PROVE  stat[t] = "ready" /\ current_priority[t] = p
    BY DEF Init, Queued
  <2>1. InitPriority[t] = p /\ t \in Thread
    BY ListMembers
  <2> QED BY <2>1 DEF Init
<1>4. /\ Sleeping /\ GroupMatchesTable
      /\ ToSet(thread_defunct) = {} /\ IsInjective(thread_defunct)
  <2>1. thread_defunct = <<>> /\ thread_defunct \in Seq(Thread)
    BY DEF Init
  <2>2. ToSet(thread_defunct) = {} /\ IsInjective(thread_defunct)
    <3>1. DOMAIN thread_defunct = {}
      BY <2>1
    <3> QED BY <2>1, <3>1, EmptyList DEF IsInjective
  <2>3. Sleeping /\ GroupMatchesTable
    BY DEF Init, Sleeping, GroupMatchesTable
  <2> QED BY <2>2, <2>3
<1>5. NoThreadLost
  BY <1>2 DEF Init, NoThreadLost
<1>6. Calls
  BY <1>2 DEF Calls
<1>7. IdleReady
  BY DEF Init, IdleReady
<1>8. Structure
  BY <1>1, <1>3, <1>4, <1>5, <1>6, <1>7 DEF Structure, Buried
<1>9. Running
  BY <1>2 DEF Init, Running, SwitchSavesRunner, NotRunning, Runner, FreedOff
<1> QED BY <1>8, <1>9 DEF ListInv

LEMMA ListInvStep ==
    ASSUME ~DeleteSleeping
    PROVE  ListInv /\ [Next]_vars => ListInv'
<1> SUFFICES ASSUME ListInv, [Next]_vars PROVE ListInv'
  OBVIOUS
<1>1. TypeInv' /\ SwitchSavesRunner'
  BY TypeInvStep, SwitchSavesStep DEF ListInv, Structure, Running, TypeInv
<1>2. ASSUME NEW t \in Worker, Begin(t) PROVE ListInv'
  <2>1. CASE Sleep(t) \/ Wait(t) \/ Exit(t)
    BY <1>1, <2>1, LeaveStep
  <2>2. CASE Yield(t)
    BY <1>1, <2>2, YieldStep
  <2>3. CASE EnterCritical(t) \/ ExitCritical(t)
    BY <1>1, <2>3, CriticalStep
  <2>4. ASSUME NEW o \in Thread, Wake(t, o) PROVE ListInv'
    BY <1>1, <2>4, WakeStep
  <2>5. ASSUME NEW o \in Thread, Create(t, o) PROVE ListInv'
    <3>1. Structure' /\ OtherCalls(t, o) /\ Elsewhere(o)
      BY <1>1, <2>5, CreateStep
    <3>2. Manager(t, o) /\ Runs(t) /\ UNCHANGED <<rt_current_thread, on_cpu, scheduler_lock_nest>>
      BY <2>5 DEF Create, switchVars, Manager, At
    <3>3. o \in Thread \ {t}
      BY <3>2, ManagerRuns
    <3>4. pc'[t] = pc[t]
      BY <2>5, <3>3 DEF Create, ListInv, Structure, TypeInv, TypeOK
    <3> QED BY <1>1, <3>1, <3>2, <3>3, <3>4, ManagerRunning
  <2>6. ASSUME NEW o \in Thread, Startup(t, o) PROVE ListInv'
    BY <1>1, <2>6, StartupStep
  <2>7. ASSUME NEW o \in Thread, Resume(t, o) \/ Suspend(t, o) PROVE ListInv'
    BY <1>1, <2>7, AskStep
  <2>8. ASSUME NEW o \in Thread, Delete(t, o) PROVE ListInv'
    BY <1>1, <2>8, DeleteStep
  <2>9. ASSUME NEW o \in Thread, NEW p \in Priority, Control(t, o, p) PROVE ListInv'
    BY <1>1, <2>9, ControlStep
  <2> QED BY <1>2, <2>1, <2>2, <2>3, <2>4, <2>5, <2>6, <2>7, <2>8, <2>9 DEF Begin
<1>3. ASSUME NEW t \in Worker, Continue(t) PROVE ListInv'
  BY <1>1, <1>3, CallScheduleStep, ResumeUnlinkStep, ResumeInsertStep, SuspendRemoveStep,
     DeleteCloseStep, DeleteBuryStep DEF Continue
<1>4. CASE IdleStep
  BY <1>1, <1>4, ReapStep, FreeStep DEF IdleStep
<1>5. CASE Tick
  BY <1>1, <1>5, TickListStep
<1>6. ASSUME NEW t \in Thread, TimerExpire(t) PROVE ListInv'
  BY <1>1, <1>6, TimerExpireStep
<1>7. ASSUME NEW w \in Thread, DeviceWake(w) PROVE ListInv'
  BY <1>1, <1>7, WakeStep
<1>8. CASE \/ SchedulerStart \/ PendSV \/ TickLeave
           \/ DeviceEnter \/ DeviceSchedule \/ DeviceLeave
           \/ UNCHANGED vars
  BY <1>1, <1>8, QuietStep
<1> QED BY <1>2, <1>3, <1>4, <1>5, <1>6, <1>7, <1>8 DEF Next, TickStep, DeviceStep

LEMMA ListInvHolds ==
    ASSUME ~DeleteSleeping
    PROVE  Spec => []ListInv
BY InitListInv, ListInvStep, PTL DEF Spec

-----------------------------------------------------------------------------
(* The theorems.  ~DeleteSleeping is the caller's obligation of            *)
(* rt_thread_delete: without it a closed thread is woken by its timer.     *)

\* Every node is linked at most once, on the list the status of its thread calls for.
THEOREM ListsCorrect ==
    ASSUME ~DeleteSleeping
    PROVE  Spec => []LinkedWhereStatSays
<1>1. ListInv => LinkedWhereStatSays
  BY DEF ListInv, Structure, Queued, Sleeping, Buried, LinkedWhereStatSays
<1> QED BY <1>1, ListInvHolds, PTL

\* A READY thread is on its queue and a closed one on the defunct list, or the call
\* that moves it is still to put it there.
THEOREM NoneLost ==
    ASSUME ~DeleteSleeping
    PROVE  Spec => []NoThreadLost
<1>1. ListInv => NoThreadLost
  BY DEF ListInv, Structure
<1> QED BY <1>1, ListInvHolds, PTL

\* rt_thread_ready_priority_group agrees with the queues, but for the bit that
\* rt_thread_resume leaves between its two regions.
THEOREM BitmapCorrect ==
    ASSUME ~DeleteSleeping
    PROVE  Spec => []GroupMatchesTable
<1>1. ListInv => GroupMatchesTable
  BY DEF ListInv, Structure
<1> QED BY <1>1, ListInvHolds, PTL

\* Whatever interrupt comes, rt_schedule finds a thread under the bit that __rt_ffs
\* picks.
THEOREM DispatchCorrect ==
    ASSUME ~DeleteSleeping
    PROVE  Spec => []NeverDispatchesNobody
<1>1. ListInv => NeverDispatchesNobody
  BY Chosen, SchedulerAssumption DEF ListInv, Structure, Choice, NeverDispatchesNobody
<1> QED BY <1>1, ListInvHolds, PTL

\* A control block that is given back is on no list, and neither the processor nor a
\* pending switch uses its stack.
THEOREM FreedCorrect ==
    ASSUME ~DeleteSleeping
    PROVE  Spec => []FreedIsUnused
<1>1. ListInv => FreedIsUnused
  <2> SUFFICES ASSUME ListInv, NEW t \in Thread, stat[t] = "none"
               PROVE  /\ Off(t)
                      /\ t \notin Static => t \notin {on_cpu, rt_current_thread}
                                            /\ ~(switch_flag /\ switch_from = t)
    BY DEF FreedIsUnused, Off
  <2>1. Off(t)
    BY DEF Off, ListInv, Structure, Queued, Sleeping, Buried
  <2>2. t \notin Static => t \notin {on_cpu, rt_current_thread}
    BY DEF ListInv, Running, FreedOff
  <2>3. switch_flag => switch_from = on_cpu
    BY DEF ListInv, Running, SwitchSavesRunner
  <2> QED BY <2>1, <2>2, <2>3
<1> QED BY <1>1, ListInvHolds, PTL

\* A closed thread never becomes READY again.
THEOREM ClosedCorrect ==
    ASSUME ~DeleteSleeping
    PROVE  Spec => ClosedStaysClosed
<1>1. ListInv /\ [Next]_vars =>
         [\A t \in Thread : stat[t] = "close" => stat'[t] \in {"close", "none"}]_vars
  <2> SUFFICES ASSUME ListInv, Next, NEW t \in Thread, stat[t] = "close"
               PROVE  stat'[t] \in {"close", "none"}
    OBVIOUS
  <2>1. Structure /\ stat \in [Thread -> Stat]
    BY DEF ListInv, Structure, TypeInv, TypeOK
  <2>2. CASE stat' = stat
    BY <2>2
  <2>3. ASSUME NEW u \in Thread, NEW s,
               stat' = [stat EXCEPT ![u] = s],
               s \in {"close", "none"} \/ stat[u] # "close"
        PROVE  stat'[t] \in {"close", "none"}
    BY <2>1, <2>3
  <2>4. ASSUME NEW u \in waiting \cup timer, InsertThread(u) PROVE stat'[t] \in {"close", "none"}
    <3>1. u \in Thread /\ stat[u] = "suspend"
      BY <2>1 DEF Structure, TypeInv, TypeOK, Sleeping
    <3> QED BY <2>3, <2>4, <3>1 DEF InsertThread
  <2>5. ASSUME NEW u \in Worker, Begin(u) PROVE stat'[t] \in {"close", "none"}
    <3>1. CASE Sleep(u) \/ Wait(u)
      BY <2>2, <2>3, <3>1 DEF Sleep, Wait
    <3>2. CASE Exit(u)
      BY <2>3, <3>2 DEF Exit, FinalStat
    <3>3. CASE Yield(u) \/ EnterCritical(u) \/ ExitCritical(u)
      BY <2>2, <3>3 DEF Yield, EnterCritical, ExitCritical, threadVars
    <3>4. ASSUME NEW o \in Thread, Wake(u, o) PROVE stat'[t] \in {"close", "none"}
      BY <2>4, <3>4 DEF Wake, ResumeWaiter
    <3>5. ASSUME NEW o \in Thread, Create(u, o) \/ Startup(u, o)
          PROVE  stat'[t] \in {"close", "none"}
      BY <2>3, <3>5 DEF Create, Startup
    <3>6. ASSUME NEW o \in Thread, Resume(u, o) \/ Suspend(u, o) \/ Delete(u, o)
                                   \/ \E p \in Priority : Control(u, o, p)
          PROVE  stat'[t] \in {"close", "none"}
      BY <2>2, <3>6 DEF Resume, Suspend, Delete, Control, threadVars
    <3> QED BY <2>5, <3>1, <3>2, <3>3, <3>4, <3>5, <3>6 DEF Begin
  <2>6. ASSUME NEW m \in Worker, Continue(m) PROVE stat'[t] \in {"close", "none"}
    <3>1. CASE CallSchedule(m) \/ ResumeUnlink(m) \/ DeleteBury(m)
      BY <2>2, <3>1 DEF CallSchedule, ResumeUnlink, DeleteBury, threadVars
    <3>2. CASE ResumeInsert(m)
      <4>1. pc[m].obj \in Thread /\ Found(m, pc[m].obj) /\ pc[m].at = "insert"
        BY <3>2, CallerRuns DEF ResumeInsert, Step
      <4> QED BY <2>3, <3>2, <4>1 DEF ResumeInsert, InsertThread, Found
    <3>3. CASE SuspendRemove(m)
      <4>1. pc[m].obj \in Thread /\ Found(m, pc[m].obj) /\ pc[m].at = "suspend"
        BY <3>3, CallerRuns DEF SuspendRemove, Step
      <4> QED BY <2>3, <3>3, <4>1 DEF SuspendRemove, Found
    <3>4. CASE DeleteClose(m)
      <4>1. pc[m].obj \in Thread
        BY <3>4, CallerRuns DEF DeleteClose, Step
      <4> QED BY <2>3, <3>4, <4>1 DEF DeleteClose, FinalStat
    <3> QED BY <2>6, <3>1, <3>2, <3>3, <3>4 DEF Continue
  <2>7. CASE IdleStep
    BY <2>1, <2>7 DEF IdleStep, Reap, Free
  <2>8. ASSUME NEW w \in Thread, TimerExpire(w) \/ DeviceWake(w)
        PROVE  stat'[t] \in {"close", "none"}
    BY <2>4, <2>8 DEF TimerExpire, DeviceWake, ResumeWaiter
  <2>9. CASE \/ SchedulerStart \/ PendSV \/ Tick \/ TickLeave
             \/ DeviceEnter \/ DeviceSchedule \/ DeviceLeave
    BY <2>2, <2>9 DEF SchedulerStart, PendSV, Tick, TickLeave, DeviceEnter, DeviceSchedule,
                      DeviceLeave, threadVars
  <2> QED BY <2>5, <2>6, <2>7, <2>8, <2>9 DEF Next, TickStep, DeviceStep
<1> QED BY <1>1, ListInvHolds, PTL DEF Spec, ClosedStaysClosed

-----------------------------------------------------------------------------
(* No switch is owed.  The current thread is the one rt_schedule would      *)
(* choose, or it is about to call rt_schedule, or an interrupt that has made *)
(* a thread ready is.  It holds because a manager only moves threads that   *)
(* are less urgent than itself, so that the queue it heads stays the first. *)

NoDebt ==
    rt_current_thread # Nobody /\ scheduler_lock_nest = 0 =>
       \/ rt_current_thread = ToThread(priority_table, ready_priority_group)
       \/ pc[rt_current_thread].at = "sched"
       \/ "sched" \in ToSet(isr)

\* The thread chosen stays the same when only less urgent queues change.
LEMMA TopStays ==
    ASSUME Structure, Structure', NEW m \in Thread,
           m = ToThread(priority_table, ready_priority_group),
           priority_table'[current_priority[m]] = priority_table[current_priority[m]],
           \A p \in ready_priority_group' : p \in ready_priority_group \/ current_priority[m] < p
    PROVE  m = ToThread(priority_table', ready_priority_group')
<1> DEFINE high == current_priority[m]
<1>1. /\ Priority \subseteq Int /\ high \in Priority
      /\ ready_priority_group \in SUBSET Priority /\ ready_priority_group' \in SUBSET Priority
      /\ priority_table[high] \in Seq(Thread)
  <2>1. Priority \subseteq Int
    BY SchedulerAssumption DEF Priority
  <2>2. TypeOK /\ TypeOK'
    BY DEF Structure, TypeInv
  <2> QED BY <2>1, <2>2 DEF TypeOK
<1>2. Choice(m)
  BY Chosen
<1>3. high = HighestReady(ready_priority_group) /\ m \in ToSet(priority_table[high])
  BY <1>2 DEF Choice
<1>4. high \in ready_priority_group
  BY <1>3, BitSet
<1>5. \A p \in ready_priority_group : high <= p
  BY <1>1, <1>3, <1>4, HighestType
<1>6. m = Head(priority_table[high])
  BY <1>3, <1>4, SchedulerAssumption DEF ToThread
<1> HIDE DEF high
<1>7. priority_table'[high] # <<>>
  BY <1>1, <1>3, EmptyList DEF high
<1>8. high \in ready_priority_group'
  BY <1>1, <1>7 DEF Structure, GroupMatchesTable
<1>9. HighestReady(ready_priority_group') = high
  <2> DEFINE h == HighestReady(ready_priority_group')
  <2>1. h \in ready_priority_group' /\ h <= high
    BY <1>1, <1>8, HighestType
  <2> HIDE DEF h
  <2>2. h \in Int /\ high \in Int
    BY <1>1, <2>1
  <2>3. high <= h
    <3>1. h \in ready_priority_group \/ high < h
      BY <2>1 DEF high
    <3> QED BY <1>5, <2>2, <3>1
  <2>4. h = high
    BY <2>1, <2>2, <2>3
  <2> QED BY <2>4 DEF h
<1> QED BY <1>6, <1>7, <1>8, <1>9 DEF ToThread, high

\* A manager in the middle of a step is the one chosen.
LEMMA ManagerChosen ==
    ASSUME ListInv, NoDebt, NEW m \in Thread, Runs(m), pc[m].at # "sched", scheduler_lock_nest = 0
    PROVE  m = ToThread(priority_table, ready_priority_group)
<1>1. rt_current_thread = m /\ m # Nobody /\ isr = <<>>
  BY SchedulerAssumption DEF ListInv, Running, SwitchSavesRunner, Runs
<1>2. <<>> \in Seq(Thread)
  OBVIOUS
<1>3. ToSet(isr) = {}
  BY <1>1, <1>2, EmptyList
<1> QED BY <1>1, <1>3 DEF NoDebt

\* Steps of m that touch only less urgent queues.
LEMMA ManagerDebt ==
    ASSUME ListInv, ListInv', NoDebt, NEW m \in Thread, Runs(m), pc[m].at # "sched",
           UNCHANGED <<rt_current_thread, scheduler_lock_nest>>,
           priority_table'[current_priority[m]] = priority_table[current_priority[m]],
           \A p \in ready_priority_group' : p \in ready_priority_group \/ current_priority[m] < p
    PROVE  NoDebt'
<1> SUFFICES ASSUME scheduler_lock_nest = 0
             PROVE  rt_current_thread' = ToThread(priority_table', ready_priority_group')
  BY DEF NoDebt
<1>1. m = ToThread(priority_table, ready_priority_group)
  BY ManagerChosen
<1>2. rt_current_thread' = m
  BY DEF ListInv, Running, SwitchSavesRunner, Runs
<1>3. Structure /\ Structure'
  BY DEF ListInv
<1>4. m = ToThread(priority_table', ready_priority_group')
  BY <1>1, <1>3, TopStays
<1> QED BY <1>2, <1>4

\* rt_schedule pays what is owed.
LEMMA ScheduleDebt ==
    ASSUME ListInv', Schedule(priority_table', ready_priority_group'),
           scheduler_lock_nest' = scheduler_lock_nest
    PROVE  NoDebt'
BY ScheduleChooses DEF ListInv, NoDebt

\* A call of the current thread that ends with rt_schedule, or under the lock.
LEMMA OwnDebt ==
    ASSUME ListInv, NEW t \in Thread, NEW step, At(t, step), rt_current_thread' = rt_current_thread,
           pc'[t].at = "sched" \/ scheduler_lock_nest' # 0
    PROVE  NoDebt'
<1>1. rt_current_thread = t
  BY WhoRuns
<1> QED BY <1>1 DEF NoDebt

LEMMA BeginDebt ==
    ASSUME ListInv, ListInv', NoDebt, NEW t \in Worker, Begin(t)
    PROVE  NoDebt'
<1>1. TypeOK /\ Queued /\ scheduler_lock_nest \in Nat /\ current_priority[t] \in Priority
  <2>1. TypeOK /\ Queued
    BY DEF ListInv, Structure, TypeInv
  <2>2. scheduler_lock_nest \in 0 .. MaxLock /\ current_priority[t] \in Priority
    BY <2>1 DEF TypeOK
  <2>3. scheduler_lock_nest \in Nat
    BY <2>2, SchedulerAssumption
  <2> QED BY <2>1, <2>2, <2>3
<1>2. UNCHANGED rt_current_thread
  BY DEF Begin, Sleep, Wait, Yield, Exit, EnterCritical, ExitCritical, Wake, Create,
         Startup, Resume, Suspend, Delete, Control, switchVars
<1>3. CASE Sleep(t) \/ Wait(t) \/ Exit(t) \/ Yield(t) \/ \E o \in Thread : Wake(t, o)
  <2>1. At(t, "run") /\ Goto(t, "sched")
    BY <1>3 DEF Sleep, Wait, Exit, Yield, Wake
  <2> QED BY <1>1, <1>2, <2>1, AfterGoto, OwnDebt
<1>4. CASE EnterCritical(t)
  BY <1>1, <1>2, <1>4, OwnDebt DEF EnterCritical
<1>5. CASE ExitCritical(t)
  <2>1. /\ At(t, "run") /\ Goto(t, AfterUnlock) /\ scheduler_lock_nest > 0
        /\ scheduler_lock_nest' = scheduler_lock_nest - 1
    BY <1>5 DEF ExitCritical
  <2>2. pc'[t].at = AfterUnlock
    BY <1>1, <2>1, AfterGoto
  <2>3. pc'[t].at = "sched" \/ scheduler_lock_nest' # 0
    BY <1>1, <2>1, <2>2 DEF AfterUnlock
  <2> QED BY <1>2, <2>1, <2>3, OwnDebt
<1>6. ASSUME NEW o \in Thread, Create(t, o) \/ Startup(t, o) \/ Resume(t, o) \/ Suspend(t, o)
      PROVE  NoDebt'
  <2>1. /\ Runs(t) /\ pc[t].at = "run"
        /\ UNCHANGED <<priority_table, ready_priority_group, scheduler_lock_nest>>
    BY <1>6 DEF Create, Startup, Resume, Suspend, MayManage, Manager, At, listVars
  <2> QED BY <1>2, <2>1, ManagerDebt
<1>7. ASSUME NEW o \in Thread, Delete(t, o) PROVE NoDebt'
  <2>1. /\ Runs(t) /\ pc[t].at = "run" /\ scheduler_lock_nest' = scheduler_lock_nest
        /\ current_priority[t] < current_priority[o] /\ current_priority[o] \in Priority
    BY <1>1, <1>7 DEF Delete, MayManage, Manager, At, TypeOK
  <2>2. CASE UNCHANGED <<priority_table, ready_priority_group>>
    BY <1>2, <2>1, <2>2, ManagerDebt
  <2>3. CASE RemoveThread(o)
    <3>1. ready_priority_group' \subseteq ready_priority_group
      BY <2>3 DEF RemoveThread, GroupAfter
    <3>2. current_priority[t] # current_priority[o]
      BY <1>1, <2>1, SchedulerAssumption DEF Priority
    <3>3. priority_table'[current_priority[t]] = priority_table[current_priority[t]]
      BY <1>1, <2>3, <3>2, QueuesUnlinked DEF RemoveThread
    <3> QED BY <1>2, <2>1, <3>1, <3>3, ManagerDebt
  <2> QED BY <1>7, <2>2, <2>3 DEF Delete
<1>8. ASSUME NEW o \in Thread, NEW p \in Priority, Control(t, o, p) PROVE NoDebt'
  <2>1. /\ Runs(t) /\ pc[t].at = "run" /\ scheduler_lock_nest' = scheduler_lock_nest
        /\ current_priority[t] < current_priority[o] /\ current_priority[o] \in Priority
        /\ current_priority[t] < p
    BY <1>1, <1>8 DEF Control, MayManage, Manager, At, TypeOK
  <2>2. CASE UNCHANGED <<priority_table, ready_priority_group>>
    BY <1>2, <2>1, <2>2, ManagerDebt
  <2>3. CASE stat[o] = "ready"
    <3> DEFINE table == Unlinked(priority_table, o)
    <3>1. /\ priority_table' = [table EXCEPT ![p] = Enqueue(@, o)]
          /\ ready_priority_group' = {p} \cup
                GroupAfter(table, ready_priority_group, current_priority[o])
      BY <1>8, <2>3 DEF Control
    <3>2. GroupAfter(table, ready_priority_group, current_priority[o]) \subseteq ready_priority_group
      BY DEF GroupAfter
    <3>3. current_priority[t] # current_priority[o] /\ current_priority[t] # p
      <4>1. \A x, y \in Priority : x < y => x # y
        BY SchedulerAssumption DEF Priority
      <4> QED BY <1>1, <2>1, <4>1
    <3>4. table[current_priority[t]] = priority_table[current_priority[t]]
      BY <1>1, <3>3, QueuesUnlinked
    <3>5. DOMAIN table = Priority
      BY DEF Unlinked
    <3> HIDE DEF table
    <3>6. priority_table'[current_priority[t]] = priority_table[current_priority[t]]
      BY <1>1, <3>1, <3>3, <3>4, <3>5
    <3>7. \A q \in ready_priority_group' : q \in ready_priority_group \/ current_priority[t] < q
      BY <2>1, <3>1, <3>2
    <3> QED BY <1>2, <2>1, <3>6, <3>7, ManagerDebt
  <2> QED BY <1>8, <2>2, <2>3 DEF Control
<1> QED BY <1>3, <1>4, <1>5, <1>6, <1>7, <1>8 DEF Begin

LEMMA ContinueDebt ==
    ASSUME ListInv, ListInv', NoDebt, NEW m \in Worker, Continue(m)
    PROVE  NoDebt'
<1>1. TypeOK /\ Queued /\ current_priority[m] \in Priority /\ current_priority[m] \in Int
  <2>1. TypeOK /\ Queued
    BY DEF ListInv, Structure, TypeInv
  <2>2. current_priority[m] \in Priority
    BY <2>1 DEF TypeOK
  <2> QED BY <2>1, <2>2, SchedulerAssumption DEF Priority
<1>2. CASE CallSchedule(m)
  <2>1. Schedule(priority_table', ready_priority_group') /\ UNCHANGED scheduler_lock_nest
    BY <1>2 DEF CallSchedule, listVars
  <2> QED BY <2>1, ScheduleDebt
<1>3. CASE DeleteClose(m) \/ DeleteBury(m)
  <2>1. /\ Runs(m) /\ pc[m].at # "sched"
        /\ UNCHANGED <<priority_table, ready_priority_group, rt_current_thread, scheduler_lock_nest>>
    BY <1>3 DEF DeleteClose, DeleteBury, At, listVars, switchVars
  <2> QED BY <2>1, ManagerDebt
<1>4. ASSUME NEW t, pc[m].obj = t, SuspendRemove(m) PROVE NoDebt'
  <2>1. /\ Runs(m) /\ At(m, "suspend") /\ pc[m].at = "suspend" /\ RemoveThread(t)
        /\ UNCHANGED <<rt_current_thread, scheduler_lock_nest>>
    BY <1>4 DEF SuspendRemove, At, switchVars
  <2>2. t \in Thread /\ Found(m, t) /\ m # Idle
    BY <1>4, <2>1, CallerRuns DEF Step
  <2>3. current_priority[m] # current_priority[t]
    BY <1>1, <2>1, <2>2 DEF Found
  <2>4. ready_priority_group' \subseteq ready_priority_group
    BY <2>1 DEF RemoveThread, GroupAfter
  <2>5. priority_table'[current_priority[m]] = priority_table[current_priority[m]]
    BY <1>1, <2>1, <2>2, <2>3, QueuesUnlinked DEF RemoveThread
  <2> QED BY <2>1, <2>4, <2>5, ManagerDebt
<1>5. ASSUME NEW t, pc[m].obj = t, ResumeUnlink(m) PROVE NoDebt'
  <2>1. /\ Runs(m) /\ At(m, "unlink") /\ pc[m].at = "unlink"
        /\ priority_table' = Unlinked(priority_table, t)
        /\ UNCHANGED <<rt_current_thread, scheduler_lock_nest, ready_priority_group>>
    BY <1>5 DEF ResumeUnlink, At, switchVars
  <2>2. t \in Thread /\ Found(m, t) /\ m # Idle
    BY <1>5, <2>1, CallerRuns DEF Step
  <2>3. current_priority[m] # current_priority[t] \/ stat[t] # "ready"
    BY <1>1, <2>1, <2>2 DEF Found
  <2>4. priority_table'[current_priority[m]] = priority_table[current_priority[m]]
    BY <1>1, <2>1, <2>2, <2>3, QueuesUnlinked
  <2> QED BY <2>1, <2>4, ManagerDebt
<1>6. ASSUME NEW t, pc[m].obj = t, ResumeInsert(m) PROVE NoDebt'
  <2>1. /\ Runs(m) /\ At(m, "insert") /\ pc[m].at = "insert"
        /\ InsertThread(t) /\ Goto(m, pc[m].ret)
        /\ UNCHANGED <<rt_current_thread, scheduler_lock_nest>>
    BY <1>6 DEF ResumeInsert, At, switchVars
  <2>2. t \in Thread /\ Found(m, t) /\ m # Idle
    BY <1>6, <2>1, CallerRuns DEF Step
  <2>3. CASE pc[m].ret = "sched"
    BY <1>1, <2>1, <2>3, AfterGoto, OwnDebt
  <2>4. CASE current_priority[m] < current_priority[t]
    <3>1. current_priority[m] # current_priority[t] /\ current_priority[t] \in Priority
      BY <1>1, <2>2, <2>4 DEF TypeOK
    <3>2. priority_table'[current_priority[m]] = priority_table[current_priority[m]]
      BY <1>1, <2>1, <3>1 DEF InsertThread, TypeOK
    <3>3. \A p \in ready_priority_group' : p \in ready_priority_group \/ current_priority[m] < p
      BY <2>1, <2>4 DEF InsertThread
    <3> QED BY <2>1, <3>2, <3>3, ManagerDebt
  <2> QED BY <2>1, <2>2, <2>3, <2>4 DEF Found
<1> QED BY <1>2, <1>3, <1>4, <1>5, <1>6 DEF Continue

\* The frames of the interrupts that are active.
LEMMA IsrFrames ==
    ASSUME TypeOK
    PROVE  /\ \A at \in Frame : IsrEnter(at) => ToSet(isr) \subseteq ToSet(isr')
           /\ isr # <<>> /\ Head(isr) # "sched" /\ IsrLeave /\ "sched" \in ToSet(isr) =>
                 "sched" \in ToSet(isr')
<1>1. isr \in Seq(Frame)
  BY DEF TypeOK
<1>2. \A at \in Frame : ToSet(isr) \subseteq ToSet(<<at>> \o isr)
  BY <1>1, PushElements DEF Push
<1>3. ASSUME isr # <<>>, Head(isr) # "sched", "sched" \in ToSet(isr)
      PROVE  "sched" \in ToSet(Tail(isr))
  <2>1. /\ Len(isr) \in Nat /\ DOMAIN isr = 1 .. Len(isr) /\ Head(isr) = isr[1]
        /\ Tail(isr) \in Seq(Frame) /\ Len(Tail(isr)) = Len(isr) - 1
        /\ DOMAIN Tail(isr) = 1 .. Len(isr) - 1
        /\ \A j \in 1 .. Len(isr) - 1 : Tail(isr)[j] = isr[j + 1]
    BY <1>1, <1>3, LenProperties, HeadTailProperties
  <2>2. PICK i \in 1 .. Len(isr) : isr[i] = "sched"
    BY <1>3, <2>1 DEF ToSet
  <2>3. i # 1 /\ i - 1 \in 1 .. Len(isr) - 1 /\ (i - 1) + 1 = i
    BY <1>3, <2>1, <2>2
  <2>4. Tail(isr)[i - 1] = "sched"
    BY <2>1, <2>2, <2>3
  <2> QED BY <2>1, <2>3, <2>4 DEF ToSet
<1> QED BY <1>2, <1>3 DEF IsrEnter, IsrLeave

LEMMA NoDebtStep == ListInv /\ ListInv' /\ NoDebt /\ [Next]_vars => NoDebt'
<1> SUFFICES ASSUME ListInv, ListInv', NoDebt, [Next]_vars PROVE NoDebt'
  OBVIOUS
<1>1. TypeOK
  BY DEF ListInv, Structure, TypeInv
<1>2. ASSUME UNCHANGED <<rt_current_thread, scheduler_lock_nest, priority_table,
                         ready_priority_group, pc>>,
             "sched" \in ToSet(isr) => "sched" \in ToSet(isr')
      PROVE  NoDebt'
  BY <1>2 DEF NoDebt
<1>3. CASE PendSV \/ UNCHANGED vars
  BY <1>2, <1>3 DEF PendSV, vars, listVars, switchVars
<1>4. CASE SchedulerStart
  BY <1>4 DEF SchedulerStart, NoDebt, listVars
<1>5. CASE Reap \/ DeviceSchedule
  <2>1. Schedule(priority_table', ready_priority_group') /\ UNCHANGED scheduler_lock_nest
    BY <1>5 DEF Reap, DeviceSchedule, listVars
  <2> QED BY <2>1, ScheduleDebt
<1>6. ASSUME NEW t \in Thread, TimerExpire(t) PROVE NoDebt'
  BY <1>6, ScheduleDebt DEF TimerExpire
<1>7. CASE Free
  <2>1. /\ Runs(Idle) /\ pc[Idle].at = "free" /\ Idle \in Thread
        /\ UNCHANGED <<priority_table, ready_priority_group, rt_current_thread, scheduler_lock_nest>>
    BY <1>7, SchedulerAssumption DEF Free, At, listVars, switchVars
  <2> QED BY <2>1, ManagerDebt
<1>8. CASE Tick
  <2>1. CASE UNCHANGED <<priority_table, switchVars>>
    <3>1. "sched" \in ToSet(isr) => "sched" \in ToSet(isr')
      BY <1>1, <1>8, IsrFrames DEF Tick, Frame
    <3> QED BY <1>2, <1>8, <2>1, <3>1 DEF Tick, switchVars
  <2>2. CASE Schedule(priority_table', ready_priority_group)
    <3>1. Schedule(priority_table', ready_priority_group') /\ UNCHANGED scheduler_lock_nest
      BY <1>8, <2>2 DEF Tick
    <3> QED BY <3>1, ScheduleDebt
  <2> QED BY <1>8, <2>1, <2>2 DEF Tick
<1>9. CASE TickLeave \/ DeviceEnter \/ DeviceLeave
  <2>1. "sched" \in ToSet(isr) => "sched" \in ToSet(isr')
    BY <1>1, <1>9, IsrFrames DEF TickLeave, DeviceEnter, DeviceLeave, InIsr, Frame
  <2> QED BY <1>2, <1>9, <2>1 DEF TickLeave, DeviceEnter, DeviceLeave, listVars, switchVars
<1>10. ASSUME NEW w \in Thread, DeviceWake(w) PROVE NoDebt'
  <2>1. isr' = Push(<<>>, "sched") /\ <<>> \in Seq({"sched"})
    BY <1>10 DEF DeviceWake, Push
  <2>2. "sched" \in ToSet(isr')
    BY <2>1, PushElements
  <2> QED BY <2>2 DEF NoDebt
<1> QED BY <1>3, <1>4, <1>5, <1>6, <1>7, <1>8, <1>9, <1>10, BeginDebt, ContinueDebt
       DEF Next, IdleStep, TickStep, DeviceStep

\* A thread that executes its own code with the scheduler unlocked is the one
\* rt_schedule would choose: whoever made a more urgent thread ready has switched.
THEOREM SwitchesInTime ==
    ASSUME ~DeleteSleeping
    PROVE  Spec => []NoScheduleOwed
<1>1. Init => NoDebt
  BY DEF Init, NoDebt
<1>2. ListInv /\ NoDebt => NoScheduleOwed
  <2> SUFFICES ASSUME ListInv, NoDebt, ~switch_flag, isr = <<>>, on_cpu # Nobody,
                      scheduler_lock_nest = 0
               PROVE  \/ pc[on_cpu].at = "sched"
                      \/ on_cpu = ToThread(priority_table, ready_priority_group)
    BY DEF NoScheduleOwed
  <2>1. on_cpu \in Thread /\ Runs(on_cpu)
    BY DEF ListInv, Structure, TypeInv, TypeOK, Runs
  <2> QED BY <2>1, ManagerChosen
<1> QED BY <1>1, <1>2, ListInvHolds, NoDebtStep, PTL DEF Spec

-----------------------------------------------------------------------------
(* The order of a ready queue.  Taking a thread off leaves the order of the *)
(* others, putting one at the end lets it overtake nobody: whoever is       *)
(* overtaken went from its place to the end.                                *)

LEMMA UnlinkOrder ==
    ASSUME NEW S, NEW q \in Seq(S), NEW n, NEW a, NEW b, Precedes(Unlink(q, n), b, a)
    PROVE  Precedes(q, b, a)
<1>1. CASE n \notin ToSet(q)
  BY <1>1 DEF Unlink
<1>2. CASE n \in ToSet(q)
  <2> DEFINE k == CHOOSE i \in DOMAIN q : q[i] = n
             r == Unlink(q, n)
  <2>1. /\ Len(q) \in Nat /\ DOMAIN q = 1 .. Len(q)
        /\ k \in 1 .. Len(q) /\ r = RemoveAt(q, k)
    BY <1>2, LenProperties DEF Unlink, ToSet
  <2> HIDE DEF k, r
  <2>2. /\ DOMAIN r = 1 .. Len(q) - 1
        /\ \A j \in 1 .. Len(q) - 1 : r[j] = IF j < k THEN q[j] ELSE q[j + 1]
    <3>1. /\ r \in Seq(S) /\ Len(r) = Len(q) - 1
          /\ \A j \in 1 .. Len(q) - 1 : r[j] = IF j < k THEN q[j] ELSE q[j + 1]
      BY <2>1, RemoveAtElements
    <3> QED BY <3>1, LenProperties
  <2>3. PICK i \in 1 .. Len(q) - 1, j \in 1 .. Len(q) - 1 : i < j /\ r[i] = b /\ r[j] = a
    BY <2>2 DEF Precedes, r
  <2> DEFINE at(x) == IF x < k THEN x ELSE x + 1
  <2>4. /\ at(i) \in DOMAIN q /\ at(j) \in DOMAIN q /\ at(i) < at(j)
        /\ q[at(i)] = b /\ q[at(j)] = a
    BY <2>1, <2>2, <2>3
  <2> QED BY <2>4 DEF Precedes
<1> QED BY <1>1, <1>2

LEMMA EnqueueOrder ==
    ASSUME NEW S, NEW q \in Seq(S), NEW n \in S, NEW a, NEW b, a # n,
           Precedes(Enqueue(q, n), b, a)
    PROVE  Precedes(q, b, a)
<1>1. /\ Len(q) \in Nat /\ DOMAIN q = 1 .. Len(q)
      /\ Append(q, n) \in Seq(S) /\ Len(Append(q, n)) = Len(q) + 1
      /\ \A j \in 1 .. Len(q) : Append(q, n)[j] = q[j]
      /\ Append(q, n)[Len(q) + 1] = n
  BY LenProperties, AppendProperties
<1>2. DOMAIN Append(q, n) = 1 .. Len(q) + 1
  BY <1>1, LenProperties
<1>3. PICK i \in 1 .. Len(q) + 1, j \in 1 .. Len(q) + 1 :
         i < j /\ Append(q, n)[i] = b /\ Append(q, n)[j] = a
  BY <1>2 DEF Precedes, Enqueue
<1>4. i \in 1 .. Len(q) /\ j \in 1 .. Len(q) /\ q[i] = b /\ q[j] = a
  BY <1>1, <1>3
<1> QED BY <1>1, <1>3, <1>4 DEF Precedes

\* In the queue of p nobody is overtaken but o.
InOrderBut(p, o) ==
    \A a \in ToSet(priority_table[p]), b \in ToSet(priority_table'[p]) :
       Precedes(priority_table'[p], b, a) => Precedes(priority_table[p], b, a) \/ a = o

LEMMA TakenOff ==
    ASSUME TypeOK, NEW t, priority_table' = Unlinked(priority_table, t), NEW p \in Priority
    PROVE  InOrderBut(p, Nobody)
<1>1. priority_table'[p] = Unlink(priority_table[p], t) /\ priority_table[p] \in Seq(Thread)
  BY DEF TypeOK, Unlinked
<1> QED BY <1>1, UnlinkOrder DEF InOrderBut

LEMMA MadeReady ==
    ASSUME TypeOK, NEW t \in Thread, t \notin ToSet(priority_table[current_priority[t]]),
           InsertThread(t), NEW p \in Priority
    PROVE  InOrderBut(p, Nobody)
<1>1. priority_table \in [Priority -> Seq(Thread)]
  BY DEF TypeOK
<1>2. CASE p # current_priority[t]
  <2>1. priority_table'[p] = priority_table[p]
    BY <1>1, <1>2 DEF InsertThread
  <2> QED BY <2>1 DEF InOrderBut
<1>3. CASE p = current_priority[t]
  <2>1. /\ priority_table'[p] = Enqueue(priority_table[p], t)
        /\ priority_table[p] \in Seq(Thread) /\ t \notin ToSet(priority_table[p])
    BY <1>1, <1>3 DEF InsertThread
  <2> QED BY <2>1, EnqueueOrder DEF InOrderBut
<1> QED BY <1>2, <1>3

\* Off its place and to the end.
LEMMA MovedBack ==
    ASSUME NEW q \in Seq(Thread), IsInjective(q), NEW t \in Thread, NEW a, NEW b, a # t,
           Precedes(Enqueue(Unlink(q, t), t), b, a)
    PROVE  Precedes(q, b, a)
<1> DEFINE r == Unlink(q, t)
<1>1. r \in Seq(Thread)
  BY UnlinkElements
<1> HIDE DEF r
<1>2. Precedes(Enqueue(r, t), b, a)
  BY DEF r
<1>3. Precedes(r, b, a)
  BY <1>1, <1>2, EnqueueOrder
<1> QED BY <1>3, UnlinkOrder DEF r

LEMMA ToTailOrder ==
    ASSUME TypeOK, Queued, NEW t \in Thread, ToTail(t), NEW p \in Priority
    PROVE  InOrderBut(p, t)
<1>1. priority_table \in [Priority -> Seq(Thread)] /\ current_priority[t] \in Priority
  BY DEF TypeOK
<1>2. CASE p # current_priority[t]
  <2>1. priority_table'[p] = priority_table[p]
    BY <1>1, <1>2 DEF ToTail
  <2> QED BY <2>1 DEF InOrderBut
<1>3. CASE p = current_priority[t]
  <2>1. /\ priority_table'[p] = Enqueue(Unlink(priority_table[p], t), t)
        /\ priority_table[p] \in Seq(Thread) /\ IsInjective(priority_table[p])
    BY <1>1, <1>3 DEF ToTail, Queued
  <2> QED BY <2>1, MovedBack DEF InOrderBut
<1> QED BY <1>2, <1>3

LEMMA ControlOrder ==
    ASSUME TypeOK, Queued, NEW m \in Thread, NEW t \in Thread, NEW c \in Priority,
           Control(m, t, c), NEW p \in Priority
    PROVE  InOrderBut(p, IF p = c THEN t ELSE Nobody)
<1>1. priority_table \in [Priority -> Seq(Thread)]
  BY DEF TypeOK
<1>2. CASE priority_table' = priority_table
  BY <1>2 DEF InOrderBut
<1>3. CASE priority_table' = [Unlinked(priority_table, t) EXCEPT ![c] = Enqueue(@, t)]
  <2>1. priority_table[p] \in Seq(Thread) /\ IsInjective(priority_table[p])
    BY <1>1 DEF Queued
  <2>2. CASE p # c
    <3>1. priority_table'[p] = Unlink(priority_table[p], t)
      BY <1>3, <2>2 DEF Unlinked
    <3> QED BY <2>1, <3>1, UnlinkOrder DEF InOrderBut
  <2>3. CASE p = c
    <3>1. priority_table'[p] = Enqueue(Unlink(priority_table[p], t), t)
      BY <1>3, <2>3 DEF Unlinked
    <3> QED BY <2>1, <2>3, <3>1, MovedBack DEF InOrderBut
  <2> QED BY <2>2, <2>3
<1> QED BY <1>2, <1>3 DEF Control

\* Whoever runs again has been on no queue.
LEMMA WokenReady ==
    ASSUME ListInv, NEW t \in waiting \cup timer, InsertThread(t), NEW p \in Priority
    PROVE  InOrderBut(p, Nobody)
<1>1. TypeOK /\ Queued /\ t \in Thread /\ stat[t] = "suspend"
  BY DEF ListInv, Structure, TypeInv, TypeOK, Sleeping
<1>2. t \notin ToSet(priority_table[current_priority[t]])
  BY <1>1 DEF Queued, TypeOK
<1> QED BY <1>1, <1>2, MadeReady

\* Who may be overtaken in the queue of p, and that nobody else is.
Overtaken(p, a) == a = rt_current_thread \/ \E m \in Thread : Control(m, a, p)

OneOvertaken(p) == \E o \in Thread \cup {Nobody} :
                      InOrderBut(p, o) /\ (o \in Thread => Overtaken(p, o))

LEMMA OrderKept ==
    ASSUME ListInv, Next, NEW p \in Priority
    PROVE  OneOvertaken(p)
<1>1. TypeOK /\ Queued /\ Structure /\ Nobody \notin Thread
  BY SchedulerAssumption DEF ListInv, Structure, TypeInv
<1>2. InOrderBut(p, Nobody) => OneOvertaken(p)
  BY <1>1 DEF OneOvertaken
<1>3. ASSUME NEW o \in Thread, InOrderBut(p, o), Overtaken(p, o) PROVE OneOvertaken(p)
  <2>1. o \in Thread \cup {Nobody}
    OBVIOUS
  <2> QED BY <1>3, <2>1 DEF OneOvertaken
<1>4. ASSUME UNCHANGED priority_table PROVE OneOvertaken(p)
  <2>1. InOrderBut(p, Nobody)
    BY <1>4 DEF InOrderBut
  <2> QED BY <1>2, <2>1
<1>5. ASSUME NEW t, RemoveThread(t) PROVE OneOvertaken(p)
  BY <1>1, <1>2, <1>5, TakenOff DEF RemoveThread
<1>6. ASSUME NEW t \in waiting \cup timer, InsertThread(t) PROVE OneOvertaken(p)
  BY <1>2, <1>6, WokenReady
<1>7. ASSUME NEW t \in Thread, t = rt_current_thread, ToTail(t) PROVE OneOvertaken(p)
  BY <1>1, <1>3, <1>7, ToTailOrder DEF Overtaken
<1>8. ASSUME NEW m \in Thread, NEW t \in Thread, NEW c \in Priority, Control(m, t, c)
      PROVE  OneOvertaken(p)
  <2>1. CASE p = c
    BY <1>1, <1>3, <1>8, <2>1, ControlOrder DEF Overtaken
  <2>2. CASE p # c
    BY <1>1, <1>2, <1>8, <2>2, ControlOrder
  <2> QED BY <2>1, <2>2
<1>9. ASSUME NEW t \in Worker, Begin(t) PROVE OneOvertaken(p)
  <2>1. CASE Sleep(t) \/ Wait(t) \/ Exit(t)
    BY <1>4, <1>5, <2>1 DEF Sleep, Wait, Exit
  <2>2. CASE Yield(t)
    <3>1. At(t, "run") /\ ToTail(t)
      BY <2>2 DEF Yield
    <3> QED BY <1>7, <3>1, WhoRuns
  <2>3. CASE EnterCritical(t) \/ ExitCritical(t)
    BY <1>4, <2>3 DEF EnterCritical, ExitCritical, listVars
  <2>4. ASSUME NEW o \in Thread, Wake(t, o) PROVE OneOvertaken(p)
    BY <1>6, <2>4 DEF Wake, ResumeWaiter
  <2>5. ASSUME NEW o \in Thread, \/ Create(t, o) \/ Startup(t, o)
                                 \/ Resume(t, o) \/ Suspend(t, o)
        PROVE  OneOvertaken(p)
    BY <1>4, <2>5 DEF Create, Startup, Resume, Suspend, listVars
  <2>6. ASSUME NEW o \in Thread, Delete(t, o) PROVE OneOvertaken(p)
    BY <1>4, <1>5, <2>6 DEF Delete
  <2>7. ASSUME NEW o \in Thread, NEW c \in Priority, Control(t, o, c) PROVE OneOvertaken(p)
    BY <1>8, <2>7
  <2> QED BY <1>9, <2>1, <2>2, <2>3, <2>4, <2>5, <2>6, <2>7 DEF Begin
<1>10. ASSUME NEW m \in Worker, Continue(m) PROVE OneOvertaken(p)
  <2>1. CASE CallSchedule(m) \/ DeleteClose(m) \/ DeleteBury(m)
    BY <1>4, <2>1 DEF CallSchedule, DeleteClose, DeleteBury, listVars
  <2>2. CASE ResumeUnlink(m)
    BY <1>1, <1>2, <2>2, TakenOff DEF ResumeUnlink
  <2>3. CASE SuspendRemove(m)
    BY <1>5, <2>3 DEF SuspendRemove
  <2>4. CASE ResumeInsert(m)
    <3>1. pc[m].obj \in Thread /\ Found(m, pc[m].obj) /\ pc[m].at = "insert"
      BY <1>1, <2>4, CallerRuns DEF ResumeInsert, Step
    <3>2. /\ InsertThread(pc[m].obj)
          /\ pc[m].obj \notin ToSet(priority_table[current_priority[pc[m].obj]])
      BY <1>1, <2>4, <3>1 DEF ResumeInsert, Found, Off, TypeOK
    <3> QED BY <1>1, <1>2, <3>1, <3>2, MadeReady
  <2> QED BY <1>10, <2>1, <2>2, <2>3, <2>4 DEF Continue
<1>11. CASE IdleStep
  BY <1>4, <1>11 DEF IdleStep, Reap, Free, listVars
<1>12. CASE Tick
  <2>1. CASE priority_table' = priority_table
    BY <1>4, <2>1
  <2>2. CASE ToTail(rt_current_thread)
    <3>1. rt_current_thread \in Thread
      BY <1>1, <1>12 DEF Tick, CanInterrupt, TypeOK
    <3> QED BY <1>7, <2>2, <3>1
  <2> QED BY <1>12, <2>1, <2>2 DEF Tick
<1>13. ASSUME NEW w \in Thread, TimerExpire(w) \/ DeviceWake(w) PROVE OneOvertaken(p)
  BY <1>6, <1>13 DEF TimerExpire, DeviceWake, ResumeWaiter
<1>14. CASE \/ SchedulerStart \/ PendSV \/ TickLeave
            \/ DeviceEnter \/ DeviceSchedule \/ DeviceLeave
  BY <1>4, <1>14 DEF SchedulerStart, PendSV, TickLeave, DeviceEnter, DeviceSchedule,
                     DeviceLeave, listVars
<1> QED BY <1>9, <1>10, <1>11, <1>12, <1>13, <1>14 DEF Next, TickStep, DeviceStep

\* In a ready queue a thread is overtaken only when it is the current one, by a yield
\* or the end of its slice, or when its priority is set: whoever else becomes READY or
\* is taken off in between, in a call or in an interrupt.
THEOREM OrderCorrect ==
    ASSUME ~DeleteSleeping
    PROVE  Spec => NoOvertaking
<1>1. ListInv /\ [Next]_vars =>
         [\A p \in Priority :
             \A a \in ToSet(priority_table[p]), b \in ToSet(priority_table'[p]) :
                Precedes(priority_table'[p], b, a) =>
                   \/ Precedes(priority_table[p], b, a)
                   \/ a = rt_current_thread
                   \/ \E m \in Thread : Control(m, a, p)]_vars
  <2> SUFFICES ASSUME ListInv, Next, NEW p \in Priority,
                      NEW a \in ToSet(priority_table[p]), NEW b \in ToSet(priority_table'[p]),
                      Precedes(priority_table'[p], b, a)
               PROVE  Precedes(priority_table[p], b, a) \/ Overtaken(p, a)
    BY DEF Overtaken
  <2>1. a \in Thread
    BY QueueMembers DEF ListInv, Structure, TypeInv
  <2>2. PICK o \in Thread \cup {Nobody} : InOrderBut(p, o) /\ (o \in Thread => Overtaken(p, o))
    BY OrderKept DEF OneOvertaken
  <2> QED BY <2>1, <2>2 DEF InOrderBut
<1> QED BY <1>1, ListInvHolds, PTL DEF Spec, NoOvertaking

=============================================================================
