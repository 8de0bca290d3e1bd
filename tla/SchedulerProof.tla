--------------------------- MODULE SchedulerProof ---------------------------
(***************************************************************************)
(* Theorems about Scheduler, for every value of its constants: types, the  *)
(* context switch and the scheduler lock.                                  *)
(***************************************************************************)
EXTENDS Scheduler, RtListProof, WellFoundedInduction, TLAPS

USE DEF Object, Worker

-----------------------------------------------------------------------------
(* Types.                                                                  *)

LEMMA UnlinkType ==
    ASSUME NEW q \in Seq(Thread), NEW t
    PROVE  Unlink(q, t) \in Seq(Thread)
<1>1. CASE t \notin ToSet(q)
  BY <1>1 DEF Unlink
<1>2. CASE t \in ToSet(q)
  <2> DEFINE i == CHOOSE j \in DOMAIN q : q[j] = t
  <2>1. i \in 1 .. Len(q)
    BY <1>2, LenProperties DEF ToSet
  <2> HIDE DEF i
  <2>2. RemoveAt(q, i) \in Seq(Thread)
    BY <2>1, RemoveAtElements
  <2> QED BY <1>2, <2>2 DEF Unlink, i
<1> QED BY <1>1, <1>2

LEMMA QueueTypes ==
    ASSUME TypeOK, NEW t \in Thread
    PROVE  /\ Unlinked(priority_table, t) \in [Priority -> Seq(Thread)]
           /\ Unlink(thread_defunct, t) \in Seq(Thread)
           /\ Push(thread_defunct, t) \in Seq(Thread)
           /\ current_priority[t] \in Priority
<1>1. \A p \in Priority : Unlink(priority_table[p], t) \in Seq(Thread)
  BY UnlinkType DEF TypeOK
<1>2. Push(thread_defunct, t) \in Seq(Thread)
  BY PushElements DEF TypeOK
<1> QED BY <1>1, <1>2, UnlinkType DEF TypeOK, Unlinked

\* The queues after an insertion or a removal, the thread rt_schedule chooses.
LEMMA InsertType ==
    ASSUME TypeOK, NEW t \in Thread, InsertThread(t)
    PROVE  /\ stat' \in [Thread -> Stat]
           /\ priority_table' \in [Priority -> Seq(Thread)]
           /\ ready_priority_group' \subseteq Priority
<1>1. Enqueue(priority_table[current_priority[t]], t) \in Seq(Thread)
  BY QueueTypes, EnqueueElements DEF TypeOK
<1> QED BY <1>1, QueueTypes DEF TypeOK, InsertThread, Stat

LEMMA RemoveType ==
    ASSUME TypeOK, NEW t \in Thread, RemoveThread(t)
    PROVE  /\ priority_table' \in [Priority -> Seq(Thread)]
           /\ ready_priority_group' \subseteq Priority
BY QueueTypes DEF TypeOK, RemoveThread, GroupAfter

\* __rt_ffs finds the lowest bit: a set of priorities that is not empty has a least one.
LEMMA SmallestNumber ==
    ASSUME NEW T \in SUBSET Nat, T # {}
    PROVE  \E p \in T : \A q \in T : p <= q
<1> DEFINE R == OpToRel(<, Nat)
<1>1. IsWellFoundedOn(R, Nat)
  BY NatLessThanWellFounded
<1>2. R = {ss \in Nat \X Nat : ss[1] < ss[2]}
  BY DEF OpToRel
<1> HIDE DEF R
<1>3. PICK p \in T : \A q \in T : <<q, p>> \notin R
  BY <1>1, WFMin
<1>4. ASSUME NEW q \in T PROVE p <= q
  <2>1. p \in Nat /\ q \in Nat
    OBVIOUS
  <2>2. q < p => <<q, p>> \in R
    <3> SUFFICES ASSUME q < p PROVE <<q, p>> \in {ss \in Nat \X Nat : ss[1] < ss[2]}
      BY <1>2
    <3>1. <<q, p>> \in Nat \X Nat /\ <<q, p>>[1] = q /\ <<q, p>>[2] = p
      BY <2>1
    <3> QED BY <3>1
  <2> QED BY <1>3, <2>1, <2>2
<1> QED BY <1>4

LEMMA HighestType ==
    ASSUME NEW group \in SUBSET Priority, group # {}
    PROVE  /\ HighestReady(group) \in group
           /\ \A p \in group : HighestReady(group) <= p
<1>1. Priority \subseteq Nat
  BY SchedulerAssumption DEF Priority
<1>2. \E p \in group : \A q \in group : p <= q
  BY <1>1, SmallestNumber
<1> QED BY <1>2 DEF HighestReady

LEMMA ToThreadType ==
    ASSUME NEW table \in [Priority -> Seq(Thread)], NEW group \in SUBSET Priority
    PROVE  ToThread(table, group) \in Object
<1>1. CASE group = {} \/ table[HighestReady(group)] = <<>>
  BY <1>1 DEF ToThread
<1>2. CASE ~(group = {} \/ table[HighestReady(group)] = <<>>)
  <2>1. HighestReady(group) \in Priority
    BY <1>2, HighestType
  <2>2. Head(table[HighestReady(group)]) \in Thread
    BY <1>2, <2>1, HeadTailProperties
  <2> QED BY <1>2, <2>2 DEF ToThread
<1> QED BY <1>1, <1>2

LEMMA ScheduleType ==
    ASSUME TypeOK, NEW table \in [Priority -> Seq(Thread)], NEW group \in SUBSET Priority,
           Schedule(table, group)
    PROVE  /\ rt_current_thread' \in Object /\ switch_flag' \in BOOLEAN
           /\ switch_from' \in Object /\ switch_to' \in Object
<1> DEFINE to == ToThread(table, group)
<1>1. to \in Object
  BY ToThreadType
<1> HIDE DEF to
<1>2. CASE ContextSwitch(to)
  BY <1>1, <1>2 DEF TypeOK, ContextSwitch
<1>3. CASE UNCHANGED switchVars
  BY <1>3 DEF TypeOK, switchVars
<1> QED BY <1>2, <1>3 DEF Schedule, to

\* The place of a thread in a call, the frame of an interrupt.
LEMMA PcType ==
    ASSUME TypeOK, NEW m \in Thread, NEW step \in Step
    PROVE  /\ AtRest \in Place
           /\ Goto(m, step) => pc' \in [Thread -> Place]
           /\ \A t \in Object, ret \in {"run", "sched"} :
                 Call(m, step, t, ret) => pc' \in [Thread -> Place]
<1>1. AtRest \in Place
  BY DEF AtRest, Place, Step
<1>2. [AtRest EXCEPT !.at = step] \in Place
  BY DEF AtRest, Place
<1>3. \A t \in Object, ret \in {"run", "sched"} : [at |-> step, obj |-> t, ret |-> ret] \in Place
  BY DEF Place
<1>4. \A x \in Place : [pc EXCEPT ![m] = x] \in [Thread -> Place]
  BY DEF TypeOK
<1> QED BY <1>1, <1>2, <1>3, <1>4 DEF Goto, Call

LEMMA ObjType ==
    ASSUME TypeOK, NEW m \in Thread
    PROVE  pc[m].obj \in Object /\ pc[m].ret \in {"run", "sched"} /\ pc[m].at \in Step
BY DEF TypeOK, Place

LEMMA IsrType ==
    ASSUME TypeOK
    PROVE  /\ \A at \in Frame : IsrEnter(at) => isr' \in Seq(Frame)
           /\ isr # <<>> => Tail(isr) \in Seq(Frame)
<1>1. isr \in Seq(Frame)
  BY DEF TypeOK
<1>2. \A at \in Frame : <<at>> \o isr \in Seq(Frame)
  <2> TAKE at \in Frame
  <2>1. <<at>> \in Seq(Frame)
    OBVIOUS
  <2> QED BY <1>1, <2>1, ConcatProperties
<1>3. isr # <<>> => Tail(isr) \in Seq(Frame)
  BY <1>1, HeadTailProperties
<1> QED BY <1>2, <1>3 DEF IsrEnter

-----------------------------------------------------------------------------
(* obj is a thread wherever a call works on it, so TypeOK alone is not     *)
(* inductive: TypeInv adds that.                                           *)

CallsOnThreads == \A m \in Thread : pc[m].at \notin {"run", "sched"} => pc[m].obj \in Thread
TypeInv == TypeOK /\ CallsOnThreads

LEMMA InitTypeInv == Init => TypeInv
<1> SUFFICES ASSUME Init PROVE TypeInv
  OBVIOUS
<1> USE SchedulerAssumption
<1>1. stat \in [Thread -> Stat]
  BY DEF Init, Stat
<1>2. /\ remaining_tick \in [Thread -> Nat]
      /\ \A t \in Thread : remaining_tick[t] \in 1 .. InitTick[t]
  BY DEF Init
<1>3. pc \in [Thread -> Place] /\ \A m \in Thread : pc[m].at = "run"
  BY DEF Init, AtRest, Place, Step
<1>4. <<>> \in Seq(Thread) /\ <<>> \in Seq(Frame)
  OBVIOUS
<1>5. /\ timer \subseteq Thread /\ waiting \subseteq Thread
      /\ priority_table \in [Priority -> Seq(Thread)]
      /\ ready_priority_group \subseteq Priority
      /\ current_priority \in [Thread -> Priority]
  BY DEF Init
<1>6. scheduler_lock_nest \in 0 .. MaxLock
  BY DEF Init
<1> QED BY <1>1, <1>2, <1>3, <1>4, <1>5, <1>6 DEF Init, TypeInv, TypeOK, CallsOnThreads

LEMMA CallsType ==
    ASSUME TypeInv, NEW m \in Thread, NEW t \in Thread
    PROVE  /\ \A step \in {"run", "sched"} :
                 Goto(m, step) => pc' \in [Thread -> Place] /\ CallsOnThreads'
           /\ \A step \in Step, ret \in {"run", "sched"} :
                 Call(m, step, t, ret) => pc' \in [Thread -> Place] /\ CallsOnThreads'
<1>1. TypeOK
  BY DEF TypeInv
<1>2. ASSUME NEW step \in {"run", "sched"}, Goto(m, step)
      PROVE  pc' \in [Thread -> Place] /\ CallsOnThreads'
  <2>1. pc' \in [Thread -> Place]
    BY <1>1, <1>2, PcType DEF Step
  <2>2. pc'[m].at = step /\ \A x \in Thread \ {m} : pc'[x] = pc[x]
    BY <1>1, <1>2 DEF TypeOK, Goto, AtRest
  <2> QED BY <2>1, <2>2 DEF TypeInv, CallsOnThreads
<1>3. ASSUME NEW step \in Step, NEW ret \in {"run", "sched"}, Call(m, step, t, ret)
      PROVE  pc' \in [Thread -> Place] /\ CallsOnThreads'
  <2>1. pc' \in [Thread -> Place]
    BY <1>1, <1>3, PcType
  <2>2. pc'[m].obj = t /\ \A x \in Thread \ {m} : pc'[x] = pc[x]
    BY <1>1, <1>3 DEF TypeOK, Call
  <2> QED BY <2>1, <2>2 DEF TypeInv, CallsOnThreads
<1> QED BY <1>2, <1>3

LEMMA TypeInvStep == TypeInv /\ [Next]_vars => TypeInv'
<1> SUFFICES ASSUME TypeInv, [Next]_vars PROVE TypeInv'
  OBVIOUS
<1> USE SchedulerAssumption
<1>1. TypeOK /\ CallsOnThreads
  BY DEF TypeInv
<1>2. CASE UNCHANGED vars
  BY <1>1, <1>2 DEF TypeInv, TypeOK, CallsOnThreads, vars, threadVars, listVars, switchVars
<1>3. CASE SchedulerStart
  BY <1>1, <1>3, ToThreadType DEF SchedulerStart, TypeInv, TypeOK, CallsOnThreads, threadVars, listVars
<1>4. CASE PendSV
  BY <1>1, <1>4 DEF PendSV, TypeInv, TypeOK, CallsOnThreads, threadVars, listVars
<1>5. ASSUME NEW t \in Worker, CallSchedule(t) PROVE TypeInv'
  BY <1>1, <1>5, ScheduleType, CallsType
     DEF CallSchedule, TypeInv, TypeOK, threadVars, listVars, switchVars
<1>6. ASSUME NEW t \in Worker, Sleep(t) PROVE TypeInv'
  BY <1>1, <1>6, RemoveType, CallsType
     DEF Sleep, Stat, TypeInv, TypeOK, threadVars, listVars, switchVars
<1>7. ASSUME NEW t \in Worker, Wait(t) PROVE TypeInv'
  BY <1>1, <1>7, RemoveType, CallsType
     DEF Wait, Stat, TypeInv, TypeOK, threadVars, listVars, switchVars
<1>8. ASSUME NEW t \in Worker, Yield(t) PROVE TypeInv'
  BY <1>1, <1>8, CallsType, UnlinkType, EnqueueElements
     DEF Yield, ToTail, TypeInv, TypeOK, threadVars, listVars, switchVars
<1>9. ASSUME NEW t \in Worker, Exit(t) PROVE TypeInv'
  <2>1. pc' \in [Thread -> Place] /\ CallsOnThreads'
    BY <1>9, CallsType DEF Exit
  <2>2. thread_defunct' \in Seq(Thread)
    <3>1. t \in Thread /\ Push(thread_defunct, t) \in Seq(Thread)
      BY <1>1, QueueTypes
    <3> QED BY <1>1, <1>9, <3>1 DEF Exit, Bury, TypeOK
  <2>3. stat' \in [Thread -> Stat]
    BY <1>1, <1>9 DEF Exit, FinalStat, Stat, TypeOK
  <2> QED BY <1>1, <1>9, <2>1, <2>2, <2>3, RemoveType DEF Exit, TypeInv, TypeOK, switchVars
<1>10. ASSUME NEW t \in Worker, EnterCritical(t) PROVE TypeInv'
  <2>1. scheduler_lock_nest' \in 0 .. MaxLock
    BY <1>1, <1>10 DEF EnterCritical, TypeOK
  <2> QED BY <1>1, <1>10, <2>1
             DEF EnterCritical, TypeInv, TypeOK, CallsOnThreads, threadVars, listVars, switchVars
<1>11. ASSUME NEW t \in Worker, ExitCritical(t) PROVE TypeInv'
  <2>1. pc' \in [Thread -> Place] /\ CallsOnThreads'
    BY <1>11, CallsType DEF ExitCritical, AfterUnlock
  <2>2. scheduler_lock_nest' \in 0 .. MaxLock
    BY <1>1, <1>11 DEF ExitCritical, TypeOK
  <2> QED BY <1>1, <1>11, <2>1, <2>2
             DEF ExitCritical, TypeInv, TypeOK, threadVars, listVars, switchVars
<1>12. ASSUME NEW t \in Worker, NEW o \in Thread, Wake(t, o) PROVE TypeInv'
  BY <1>1, <1>12, InsertType, CallsType
     DEF Wake, ResumeWaiter, TypeInv, TypeOK, threadVars, listVars, switchVars
<1>13. ASSUME NEW t \in Worker, NEW o \in Thread, Create(t, o) PROVE TypeInv'
  <2>1. AtRest \in Place /\ AtRest.at = "run"
    BY <1>1, PcType DEF AtRest, Step
  <2>2. pc' \in [Thread -> Place] /\ CallsOnThreads'
    BY <1>1, <1>13, <2>1 DEF Create, TypeOK, CallsOnThreads
  <2>3. /\ remaining_tick' \in [Thread -> Nat]
        /\ \A x \in Thread : remaining_tick'[x] \in 1 .. InitTick[x]
    <3>1. InitTick[o] \in Nat \ {0}
      BY DEF SchedulerAssumption
    <3>2. /\ remaining_tick \in [Thread -> Nat]
          /\ \A x \in Thread : remaining_tick[x] \in 1 .. InitTick[x]
      BY <1>1 DEF TypeOK
    <3>3. remaining_tick' = [remaining_tick EXCEPT ![o] = InitTick[o]]
      BY <1>13 DEF Create
    <3> QED BY <3>1, <3>2, <3>3
  <2>4. stat' \in [Thread -> Stat] /\ current_priority' \in [Thread -> Priority]
    BY <1>1, <1>13 DEF Create, TypeOK, Stat
  <2> QED BY <1>1, <1>13, <2>2, <2>3, <2>4 DEF Create, TypeInv, TypeOK, listVars, switchVars
<1>14. ASSUME NEW t \in Worker, NEW o \in Thread, Startup(t, o) PROVE TypeInv'
  BY <1>1, <1>14, CallsType
     DEF Startup, Step, Stat, TypeInv, TypeOK, threadVars, listVars, switchVars
<1>15. ASSUME NEW t \in Worker, NEW o \in Thread, Resume(t, o) PROVE TypeInv'
  BY <1>1, <1>15, CallsType
     DEF Resume, Step, TypeInv, TypeOK, threadVars, listVars, switchVars
<1>16. ASSUME NEW t \in Worker, NEW o \in Thread, Suspend(t, o) PROVE TypeInv'
  BY <1>1, <1>16, CallsType
     DEF Suspend, Step, TypeInv, TypeOK, threadVars, listVars, switchVars
<1>17. ASSUME NEW t \in Worker, NEW o \in Thread, Delete(t, o) PROVE TypeInv'
  <2>1. pc' \in [Thread -> Place] /\ CallsOnThreads'
    BY <1>17, CallsType DEF Delete, Step
  <2>2. /\ priority_table' \in [Priority -> Seq(Thread)] /\ ready_priority_group' \subseteq Priority
        /\ waiting' \subseteq Thread /\ thread_defunct' \in Seq(Thread)
    <3>1. CASE stat[o] = "init"
      BY <1>1, <1>17, <3>1 DEF Delete, TypeOK
    <3>2. CASE stat[o] # "init"
      <4>1. Unlink(thread_defunct, o) \in Seq(Thread)
        BY <1>1, QueueTypes
      <4>2. RemoveThread(o) /\ waiting' = waiting \ {o} /\ thread_defunct' = Unlink(thread_defunct, o)
        BY <1>17, <3>2 DEF Delete
      <4>3. waiting' \subseteq Thread
        BY <1>1, <4>2 DEF TypeOK
      <4> QED BY <1>1, <4>1, <4>2, <4>3, RemoveType
    <3> QED BY <3>1, <3>2
  <2> QED BY <1>1, <1>17, <2>1, <2>2 DEF Delete, TypeInv, TypeOK, threadVars, switchVars
<1>18. ASSUME NEW t \in Worker, NEW o \in Thread, NEW p \in Priority, Control(t, o, p) PROVE TypeInv'
  <2>1. priority_table' \in [Priority -> Seq(Thread)] /\ ready_priority_group' \subseteq Priority
    <3> DEFINE table == Unlinked(priority_table, o)
    <3>1. table \in [Priority -> Seq(Thread)] /\ Enqueue(table[p], o) \in Seq(Thread)
      <4>1. table \in [Priority -> Seq(Thread)]
        BY <1>1, QueueTypes
      <4>2. table[p] \in Seq(Thread)
        BY <4>1
      <4> QED BY <4>1, <4>2, EnqueueElements
    <3> HIDE DEF table
    <3>2. CASE stat[o] = "ready"
      <4>1. /\ priority_table' = [table EXCEPT ![p] = Enqueue(@, o)]
            /\ ready_priority_group' = {p} \cup
                  GroupAfter(table, ready_priority_group, current_priority[o])
        BY <1>18, <3>2 DEF Control, table
      <4> QED BY <1>1, <3>1, <4>1 DEF GroupAfter, TypeOK
    <3>3. CASE stat[o] # "ready"
      BY <1>1, <1>18, <3>3 DEF Control, TypeOK
    <3> QED BY <3>2, <3>3
  <2> QED BY <1>1, <1>18, <2>1 DEF Control, CallsOnThreads, TypeInv, TypeOK, switchVars
<1>19. ASSUME NEW t \in Worker, ResumeUnlink(t) PROVE TypeInv'
  <2>1. pc[t].obj \in Thread /\ pc[t].ret \in {"run", "sched"}
    BY <1>1, <1>19, ObjType DEF ResumeUnlink, At, CallsOnThreads
  <2>2. pc' \in [Thread -> Place] /\ CallsOnThreads'
    BY <1>19, <2>1, CallsType DEF ResumeUnlink, Step
  <2>3. priority_table' \in [Priority -> Seq(Thread)] /\ thread_defunct' \in Seq(Thread)
    BY <1>1, <1>19, <2>1, QueueTypes DEF ResumeUnlink
  <2> QED BY <1>1, <1>19, <2>2, <2>3 DEF ResumeUnlink, TypeInv, TypeOK, switchVars
<1>20. ASSUME NEW t \in Worker, ResumeInsert(t) PROVE TypeInv'
  <2>1. pc[t].obj \in Thread /\ pc[t].ret \in {"run", "sched"}
    BY <1>1, <1>20, ObjType DEF ResumeInsert, At, CallsOnThreads
  <2>2. pc' \in [Thread -> Place] /\ CallsOnThreads'
    BY <1>20, <2>1, CallsType DEF ResumeInsert
  <2> QED BY <1>1, <1>20, <2>1, <2>2, InsertType DEF ResumeInsert, TypeInv, TypeOK, switchVars
<1>21. ASSUME NEW t \in Worker, SuspendRemove(t) PROVE TypeInv'
  <2>1. pc[t].obj \in Thread /\ pc[t].ret \in {"run", "sched"}
    BY <1>1, <1>21, ObjType DEF SuspendRemove, At, CallsOnThreads
  <2> QED BY <1>1, <1>21, <2>1, RemoveType, QueueTypes, CallsType
             DEF SuspendRemove, Stat, TypeInv, TypeOK, threadVars, listVars, switchVars
<1>22. ASSUME NEW t \in Worker, DeleteClose(t) PROVE TypeInv'
  <2>1. pc[t].obj \in Thread /\ pc[t].ret \in {"run", "sched"}
    BY <1>1, <1>22, ObjType DEF DeleteClose, At, CallsOnThreads
  <2> QED BY <1>1, <1>22, <2>1, CallsType
             DEF DeleteClose, FinalStat, Stat, Step, TypeInv, TypeOK, threadVars, listVars, switchVars
<1>23. ASSUME NEW t \in Worker, DeleteBury(t) PROVE TypeInv'
  <2>1. pc[t].obj \in Thread /\ pc[t].ret \in {"run", "sched"}
    BY <1>1, <1>23, ObjType DEF DeleteBury, At, CallsOnThreads
  <2> QED BY <1>1, <1>23, <2>1, QueueTypes, CallsType
             DEF DeleteBury, Bury, TypeInv, TypeOK, threadVars, listVars, switchVars
<1>24. ASSUME Reap PROVE TypeInv'
  <2> DEFINE o == Head(thread_defunct)
  <2>1. o \in Thread /\ Tail(thread_defunct) \in Seq(Thread) /\ Idle \in Thread
    BY <1>1, <1>24, HeadTailProperties DEF Reap, TypeOK
  <2>2. pc' \in [Thread -> Place] /\ CallsOnThreads' /\ stat' \in [Thread -> Stat]
    <3>1. CASE o \in Static
      BY <1>1, <1>24, <2>1, <3>1 DEF Reap, TypeOK, CallsOnThreads, Stat
    <3>2. CASE o \notin Static
      BY <1>1, <1>24, <2>1, <3>2, CallsType DEF Reap, TypeOK, TypeInv, Step
    <3> QED BY <3>1, <3>2
  <2>3. /\ rt_current_thread' \in Object /\ switch_flag' \in BOOLEAN
        /\ switch_from' \in Object /\ switch_to' \in Object
    BY <1>1, <1>24, ScheduleType DEF Reap, TypeOK
  <2> QED BY <1>1, <1>24, <2>1, <2>2, <2>3 DEF Reap, TypeInv, TypeOK
<1>25. ASSUME Free PROVE TypeInv'
  <2>1. Idle \in Thread /\ pc[Idle].obj \in Thread
    BY <1>1, <1>25 DEF Free, At, CallsOnThreads
  <2> QED BY <1>1, <1>25, <2>1, CallsType DEF Free, Stat, TypeInv, TypeOK, listVars, switchVars
<1>26. ASSUME Tick PROVE TypeInv'
  <2> DEFINE o == rt_current_thread
             q == priority_table[current_priority[o]]
  <2>1. o \in Thread
    BY <1>1, <1>26 DEF Tick, CanInterrupt, TypeOK
  <2>2. isr' \in Seq(Frame)
    BY <1>1, <1>26, IsrType DEF Tick, Frame
  <2>3. /\ remaining_tick' \in [Thread -> Nat]
        /\ \A t \in Thread : remaining_tick'[t] \in 1 .. InitTick[t]
    <3>1. remaining_tick[o] \in 1 .. InitTick[o] /\ InitTick[o] \in Nat \ {0}
      BY <1>1, <2>1 DEF TypeOK
    <3>2. Countdown(o) \in 1 .. InitTick[o]
      BY <3>1 DEF Countdown
    <3> QED BY <1>1, <1>26, <2>1, <3>1, <3>2 DEF Tick, TypeOK
  <2>4. priority_table' \in [Priority -> Seq(Thread)]
    <3>1. q \in Seq(Thread)
      BY <1>1, <2>1 DEF TypeOK
    <3>2. Enqueue(Unlink(q, o), o) \in Seq(Thread)
      BY <2>1, <3>1, UnlinkType, EnqueueElements
    <3>3. \/ UNCHANGED priority_table
          \/ priority_table' =
                [priority_table EXCEPT ![current_priority[o]] = Enqueue(Unlink(q, o), o)]
      BY <1>26 DEF Tick, ToTail
    <3>4. priority_table \in [Priority -> Seq(Thread)]
      BY <1>1 DEF TypeOK
    <3> HIDE DEF q
    <3> QED BY <3>2, <3>3, <3>4
  <2>5. /\ rt_current_thread' \in Object /\ switch_flag' \in BOOLEAN
        /\ switch_from' \in Object /\ switch_to' \in Object
    <3>1. CASE UNCHANGED switchVars
      BY <1>1, <3>1 DEF TypeOK, switchVars
    <3>2. CASE Schedule(priority_table', ready_priority_group)
      BY <1>1, <2>4, <3>2, ScheduleType DEF TypeOK
    <3> QED BY <1>26, <3>1, <3>2 DEF Tick
  <2> QED BY <1>1, <1>26, <2>2, <2>3, <2>4, <2>5 DEF Tick, TypeInv, TypeOK, CallsOnThreads
<1>27. ASSUME TickLeave PROVE TypeInv'
  <2>1. isr' \in Seq(Frame)
    BY <1>1, <1>27, IsrType DEF TickLeave, InIsr, IsrLeave
  <2> QED BY <1>1, <1>27, <2>1
             DEF TickLeave, TypeInv, TypeOK, CallsOnThreads, threadVars, listVars, switchVars
<1>28. ASSUME NEW t \in Thread, TimerExpire(t) PROVE TypeInv'
  <2>1. /\ stat' \in [Thread -> Stat]
        /\ priority_table' \in [Priority -> Seq(Thread)]
        /\ ready_priority_group' \subseteq Priority
    BY <1>1, <1>28, InsertType DEF TimerExpire
  <2>2. /\ rt_current_thread' \in Object /\ switch_flag' \in BOOLEAN
        /\ switch_from' \in Object /\ switch_to' \in Object
    BY <1>1, <1>28, <2>1, ScheduleType DEF TimerExpire
  <2> QED BY <1>1, <1>28, <2>1, <2>2 DEF TimerExpire, TypeInv, TypeOK, CallsOnThreads
<1>29. ASSUME DeviceEnter PROVE TypeInv'
  BY <1>1, <1>29, IsrType
     DEF DeviceEnter, Frame, TypeInv, TypeOK, CallsOnThreads, threadVars, listVars, switchVars
<1>30. ASSUME NEW t \in Thread, DeviceWake(t) PROVE TypeInv'
  <2>1. isr' \in Seq(Frame)
    BY <1>30 DEF DeviceWake, Frame
  <2> QED BY <1>1, <1>30, <2>1, InsertType
             DEF DeviceWake, ResumeWaiter, TypeInv, TypeOK, CallsOnThreads, switchVars
<1>31. ASSUME DeviceSchedule PROVE TypeInv'
  <2>1. isr' \in Seq(Frame)
    BY <1>1, <1>31, IsrType DEF DeviceSchedule, InIsr, IsrLeave
  <2> QED BY <1>1, <1>31, <2>1, ScheduleType
             DEF DeviceSchedule, TypeInv, TypeOK, CallsOnThreads, threadVars, listVars, switchVars
<1>32. ASSUME DeviceLeave PROVE TypeInv'
  <2>1. isr' \in Seq(Frame)
    BY <1>1, <1>32, IsrType DEF DeviceLeave, InIsr, IsrLeave
  <2> QED BY <1>1, <1>32, <2>1
             DEF DeviceLeave, TypeInv, TypeOK, CallsOnThreads, threadVars, listVars, switchVars
<1> QED BY <1>2, <1>3, <1>4, <1>5, <1>6, <1>7, <1>8, <1>9, <1>10, <1>11, <1>12, <1>13, <1>14, <1>15, <1>16, <1>17, <1>18, <1>19, <1>20, <1>21, <1>22, <1>23, <1>24, <1>25, <1>26, <1>27, <1>28, <1>29, <1>30, <1>31, <1>32
       DEF Next, Begin, Continue, IdleStep, TickStep, DeviceStep

\* Every variable keeps its type: in particular a call always works on a thread,
\* and no time slice runs below 1 (rt_tick_increase would wrap it around).
THEOREM TypeCorrect == Spec => []TypeOK
<1>1. TypeInv => TypeOK
  BY DEF TypeInv
<1> QED BY <1>1, InitTypeInv, TypeInvStep, PTL DEF Spec

-----------------------------------------------------------------------------
(* The context switch.                                                     *)

\* rt_schedule, on whatever queues, does what PendSV needs.
LEMMA ScheduleSaves ==
    ASSUME SwitchSavesRunner, NEW table, NEW group, Schedule(table, group),
           on_cpu' = on_cpu
    PROVE  SwitchSavesRunner'
<1> DEFINE to == ToThread(table, group)
<1>1. CASE ContextSwitch(to)
  BY <1>1 DEF ContextSwitch, SwitchSavesRunner
<1>2. CASE UNCHANGED switchVars
  BY <1>2 DEF SwitchSavesRunner, switchVars
<1> QED BY <1>1, <1>2 DEF Schedule

LEMMA SwitchSavesStep == TypeOK /\ SwitchSavesRunner /\ [Next]_vars => SwitchSavesRunner'
<1> SUFFICES ASSUME TypeOK, SwitchSavesRunner, [Next]_vars PROVE SwitchSavesRunner'
  OBVIOUS
<1>1. CASE UNCHANGED <<switchVars, on_cpu>>
  BY <1>1 DEF SwitchSavesRunner, switchVars
<1>2. CASE SchedulerStart
  BY <1>2 DEF SchedulerStart, SwitchSavesRunner
<1>3. CASE PendSV
  BY <1>3 DEF PendSV, SwitchSavesRunner
<1>4. ASSUME NEW t \in Worker, CallSchedule(t) PROVE SwitchSavesRunner'
  BY <1>4, ScheduleSaves DEF CallSchedule
<1>5. CASE Reap
  BY <1>5, ScheduleSaves DEF Reap
<1>6. CASE Tick
  BY <1>6, <1>1, ScheduleSaves DEF Tick
<1>7. ASSUME NEW t \in Thread, TimerExpire(t) PROVE SwitchSavesRunner'
  BY <1>7, ScheduleSaves DEF TimerExpire
<1>8. CASE DeviceSchedule
  BY <1>8, ScheduleSaves DEF DeviceSchedule
<1>9. ASSUME NEW t \in Worker, Begin(t) PROVE UNCHANGED <<switchVars, on_cpu>>
  BY <1>9 DEF Begin, Sleep, Wait, Yield, Exit, EnterCritical, ExitCritical, Wake, Create,
              Startup, Resume, Suspend, Delete, Control
<1>10. ASSUME NEW t \in Worker, Continue(t), ~CallSchedule(t)
       PROVE  UNCHANGED <<switchVars, on_cpu>>
  BY <1>10 DEF Continue, ResumeUnlink, ResumeInsert, SuspendRemove, DeleteClose, DeleteBury
<1>11. CASE Free \/ TickLeave \/ DeviceEnter \/ DeviceLeave
  BY <1>1, <1>11 DEF Free, TickLeave, DeviceEnter, DeviceLeave
<1>12. ASSUME NEW t \in Thread, DeviceWake(t) PROVE UNCHANGED <<switchVars, on_cpu>>
  BY <1>12 DEF DeviceWake
<1>13. CASE UNCHANGED vars
  BY <1>1, <1>13 DEF vars
<1> QED BY <1>2, <1>3, <1>4, <1>5, <1>6, <1>7, <1>8, <1>1, <1>9, <1>10, <1>11, <1>12, <1>13
       DEF Next, IdleStep, TickStep, DeviceStep

\* PendSV always saves the registers of the thread they belong to and loads those
\* of rt_current_thread, however many requests (rt_hw_context_switch) came before it.
THEOREM SwitchCorrect == Spec => []SwitchSavesRunner
<1>1. Init => SwitchSavesRunner
  BY DEF Init, SwitchSavesRunner
<1>2. TypeInv => TypeOK
  BY DEF TypeInv
<1> QED BY <1>1, <1>2, InitTypeInv, TypeInvStep, SwitchSavesStep, PTL DEF Spec

-----------------------------------------------------------------------------
(* The scheduler lock.  Nothing can be pending while it is held: the thread *)
(* that locks runs, so no switch is due, and rt_schedule asks for none.     *)

LockInv == scheduler_lock_nest > 0 => ~switch_flag /\ rt_current_thread # Nobody

\* rt_schedule leaves a locked scheduler as it is.
LEMMA ScheduleLocked ==
    ASSUME TypeOK, LockInv, NEW table, NEW group, Schedule(table, group),
           scheduler_lock_nest' = scheduler_lock_nest
    PROVE  LockInv'
<1>1. CASE scheduler_lock_nest = 0
  BY <1>1 DEF LockInv
<1>2. CASE scheduler_lock_nest # 0
  BY <1>2 DEF LockInv, Schedule, switchVars
<1> QED BY <1>1, <1>2

LEMMA LockInvStep == TypeOK /\ SwitchSavesRunner /\ LockInv /\ [Next]_vars => LockInv'
<1> SUFFICES ASSUME TypeOK, SwitchSavesRunner, LockInv, [Next]_vars PROVE LockInv'
  OBVIOUS
<1> USE SchedulerAssumption
<1>1. scheduler_lock_nest \in Nat
  BY DEF TypeOK
<1>2. CASE UNCHANGED <<switchVars, scheduler_lock_nest>>
  BY <1>2 DEF LockInv, switchVars
<1>3. CASE SchedulerStart
  BY <1>1, <1>3 DEF SchedulerStart, LockInv
<1>4. CASE PendSV
  BY <1>1, <1>4 DEF PendSV, LockInv
<1>5. ASSUME NEW t \in Worker, CallSchedule(t) PROVE LockInv'
  BY <1>5, ScheduleLocked DEF CallSchedule
<1>6. CASE Reap
  BY <1>6, ScheduleLocked DEF Reap
<1>7. CASE Tick
  BY <1>7, <1>2, ScheduleLocked DEF Tick
<1>8. ASSUME NEW t \in Thread, TimerExpire(t) PROVE LockInv'
  BY <1>8, ScheduleLocked DEF TimerExpire
<1>9. CASE DeviceSchedule
  BY <1>9, ScheduleLocked DEF DeviceSchedule
<1>10. ASSUME NEW t \in Worker, EnterCritical(t) \/ ExitCritical(t) PROVE LockInv'
  BY <1>10 DEF EnterCritical, ExitCritical, At, Runs, SwitchSavesRunner, LockInv, switchVars
<1>11. ASSUME NEW t \in Worker, Begin(t), ~(EnterCritical(t) \/ ExitCritical(t))
       PROVE  UNCHANGED <<switchVars, scheduler_lock_nest>>
  BY <1>11 DEF Begin, Sleep, Wait, Yield, Exit, Wake, Create,
               Startup, Resume, Suspend, Delete, Control
<1>12. ASSUME NEW t \in Worker, Continue(t), ~CallSchedule(t)
       PROVE  UNCHANGED <<switchVars, scheduler_lock_nest>>
  BY <1>12 DEF Continue, ResumeUnlink, ResumeInsert, SuspendRemove, DeleteClose, DeleteBury
<1>13. CASE Free \/ TickLeave \/ DeviceEnter \/ DeviceLeave
  BY <1>2, <1>13 DEF Free, TickLeave, DeviceEnter, DeviceLeave
<1>14. ASSUME NEW t \in Thread, DeviceWake(t) PROVE UNCHANGED <<switchVars, scheduler_lock_nest>>
  BY <1>14 DEF DeviceWake
<1>15. CASE UNCHANGED vars
  BY <1>2, <1>15 DEF vars
<1> QED BY <1>3, <1>4, <1>5, <1>6, <1>7, <1>8, <1>9, <1>2, <1>10, <1>11, <1>12, <1>13, <1>14, <1>15
       DEF Next, IdleStep, TickStep, DeviceStep

\* The thread that locked the scheduler keeps the processor until it leaves its
\* last critical section, whatever interrupts do.
THEOREM LockCorrect == Spec => LockKeepsProcessor
<1>1. Init => LockInv
  BY DEF Init, LockInv
<1>2. TypeInv => TypeOK
  BY DEF TypeInv
<1>3. LockInv /\ [Next]_vars => [scheduler_lock_nest > 0 => on_cpu' = on_cpu]_vars
  <2> SUFFICES ASSUME LockInv, Next, scheduler_lock_nest > 0
               PROVE  on_cpu' = on_cpu
    OBVIOUS
  <2>1. ~SchedulerStart /\ ~PendSV
    BY DEF LockInv, SchedulerStart, PendSV
  <2>2. ASSUME NEW t \in Worker, Begin(t) PROVE on_cpu' = on_cpu
    BY <2>2 DEF Begin, Sleep, Wait, Yield, Exit, EnterCritical, ExitCritical, Wake, Create,
                Startup, Resume, Suspend, Delete, Control
  <2>3. ASSUME NEW t \in Worker, Continue(t) PROVE on_cpu' = on_cpu
    BY <2>3 DEF Continue, CallSchedule, ResumeUnlink, ResumeInsert, SuspendRemove,
                DeleteClose, DeleteBury
  <2>4. IdleStep \/ Tick \/ TickStep \/ DeviceEnter \/ DeviceStep => on_cpu' = on_cpu
    BY DEF IdleStep, TickStep, DeviceStep, Reap, Free, Tick, TickLeave, TimerExpire,
           DeviceEnter, DeviceWake, DeviceSchedule, DeviceLeave
  <2> QED BY <2>1, <2>2, <2>3, <2>4 DEF Next
<1> QED BY <1>1, <1>2, <1>3, InitTypeInv, TypeInvStep, SwitchCorrect, SwitchSavesStep, LockInvStep,
           PTL DEF Spec, LockKeepsProcessor

=============================================================================
