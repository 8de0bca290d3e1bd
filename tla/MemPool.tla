------------------------------ MODULE MemPool ------------------------------
(***************************************************************************)
(* The memory pools of src/rt-thread/src/mempool.c: blocks of one size on a *)
(* free list, and a list of threads that wait for one, the last one first.  *)
(***************************************************************************)
EXTENDS Ipc

CONSTANTS
    Block,
    MaxWaits        \* bound: of suspend_thread_count

ASSUME PoolAssumption == IsFiniteSet(Block) /\ MaxWaits \in Nat

VARIABLES
    block_list, block_free_count, suspend_thread_count,
    allocated       \* the blocks that rt_mp_alloc returned and that are not freed

poolVars == <<block_list, block_free_count, suspend_thread_count, allocated>>

PoolInit ==
    /\ block_list = SetToSeq(Block)
    /\ block_free_count = Cardinality(Block)
    /\ suspend_thread_count = 0
    /\ allocated = {}

-----------------------------------------------------------------------------
MutantTakeBlock ==      \* the block stays on the list
    /\ block_free_count > 0
    /\ block_free_count' = block_free_count - 1
    /\ allocated' = allocated \cup {Head(block_list)}
    /\ UNCHANGED <<block_list, suspend_thread_count>>
TakeBlock ==
    /\ block_free_count > 0
    /\ block_free_count' = block_free_count - 1
    /\ block_list' = Tail(block_list)
    /\ allocated' = allocated \cup {Head(block_list)}
    /\ UNCHANGED suspend_thread_count

\* rt_mp_alloc of a block that is there
PoolAlloc ==
    /\ object = "live" /\ TakeBlock
    /\ UNCHANGED ipcVars

\* rt_list_insert_after: in front of those that wait already.
PoolAllocWaits(t) ==
    /\ suspend_thread_count < MaxWaits
    /\ Blocks(t, Receivers, Push(suspended[Receivers], t), "allocating", Nothing,
              {"ticks", "forever"}, block_free_count = 0)
    /\ suspend_thread_count' = suspend_thread_count + 1
    /\ UNCHANGED <<block_list, block_free_count, allocated>>

PoolAllocWaitsAgain(t) ==
    /\ suspend_thread_count < MaxWaits
    /\ BlocksAgain(t, Receivers, Push(suspended[Receivers], t), "allocating",
                   block_free_count = 0)
    /\ suspend_thread_count' = suspend_thread_count + IF t \in Waiters' THEN 1 ELSE 0
    /\ UNCHANGED <<block_list, block_free_count, allocated>>

PoolAllocReturns(t) ==
    /\ Woken(t, "allocating") /\ TakeBlock
    /\ Return(t)
    /\ UNCHANGED <<suspended, timed, object>>

PoolAllocFails(t) == Fails(t, "allocating") /\ UNCHANGED poolVars

\* rt_mp_free.  When suspend_thread_count says that a thread waits there has to be one:
\* the head of an empty list is no thread, and what the code does with it is unknown.
PoolFree(b) ==
    /\ object = "live" /\ b \in allocated
    /\ block_free_count' = block_free_count + 1
    /\ block_list' = Push(block_list, b)
    /\ allocated' = allocated \ {b}
    /\ \/ /\ suspend_thread_count > 0 /\ suspended[Receivers] # <<>>
          /\ error' = [error EXCEPT ![Head(suspended[Receivers])] = "ok"]
          /\ ListResume(Receivers)
          /\ suspend_thread_count' = suspend_thread_count - 1
       \/ /\ suspend_thread_count = 0
          /\ UNCHANGED <<suspended, timed, error, suspend_thread_count>>
    /\ UNCHANGED <<pc, object>>

\* rt_mp_detach, rt_mp_delete
PoolDetach(t) ==
    \/ /\ Detach(t, "detaching") \/ DetachTest(t) \/ DetachEnds(t, "gone")
       /\ UNCHANGED poolVars
    \/ /\ DetachResume(t)
       /\ suspend_thread_count' = suspend_thread_count - 1
       /\ UNCHANGED <<block_list, block_free_count, allocated>>

PoolNext ==
    \/ PoolAlloc
    \/ \E b \in Block : PoolFree(b)
    \/ \E t \in Thread :
          \/ PoolAllocWaits(t) \/ PoolAllocWaitsAgain(t)
          \/ PoolAllocReturns(t) \/ PoolAllocFails(t)
          \/ PoolDetach(t)
          \/ Timeout(t) /\ UNCHANGED poolVars

PoolSpec == IpcInit /\ PoolInit /\ [][PoolNext]_<<ipcVars, poolVars>>

-----------------------------------------------------------------------------
(* Properties.                                                             *)

PoolTypeOK ==
    /\ block_list \in Seq(Block) /\ allocated \subseteq Block
    /\ block_free_count \in 0 .. Cardinality(Block)
    /\ suspend_thread_count \in 0 .. MaxWaits

\* struct rt_mempool, suspend_thread_count: "numbers of thread pended on this
\* resource".  rt_mp_free relies on it to resume a thread.
CountsWaiters ==
    suspend_thread_count = Cardinality({t \in Waiters : pc[t].at = "allocating"})

\* Every block is free or allocated, once, and the free ones are counted, while
\* threads are woken for a block that others take from them.
BlocksConserved ==
    /\ block_free_count = Len(block_list)
    /\ IsInjective(block_list)
    /\ ToSet(block_list) \cap allocated = {}
    /\ ToSet(block_list) \cup allocated = Block

\* A thread is woken for every free block while others wait for one.
PoolNoLostWakeup ==
    suspended[Receivers] # <<>> => block_free_count <= Cardinality(Arriving("allocating"))

=============================================================================
