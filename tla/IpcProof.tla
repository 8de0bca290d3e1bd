----------------------------- MODULE IpcProof -----------------------------
(* Proofs about the objects that threads wait for: what every call keeps   *)
(* of the lists, the timers and the errors, and what the semaphore, the     *)
(* memory pool and the mailbox promise, for every set of threads.           *)
EXTENDS Objects, RtListProof, FiniteSetTheorems

-----------------------------------------------------------------------------
(* What is true of the waiting threads, whatever the object is.             *)

Waiting(l) == ToSet(suspended[l])

ReceiverSteps == {"taking", "allocating", "receiving", "popping", "awaiting"}
SenderSteps == {"sending", "pushing"}
\* A thread that is in a call and waits for nothing.
BusySteps == {"received", "filling", "urgent", "copying", "popped", "pushed",
              "starting", "completing"}
Steps == ReceiverSteps \cup SenderSteps \cup BusySteps \cup {"run", "test", "resume"}
Timeouts == {"none", "ticks", "forever"}
Wants == [event_set : SUBSET Bit, event_info : [all : BOOLEAN, clear : BOOLEAN]]
Args == Value \cup {Nothing} \cup List \cup Item \cup [item : Item, value : Value] \cup Wants

\* A thread is on one list at most, once.
ListsOK ==
    /\ suspended \in [List -> Seq(Thread)]
    /\ IsInjective(suspended[Receivers]) /\ IsInjective(suspended[Senders])
    /\ Waiting(Receivers) \cap Waiting(Senders) = {}

PcOK ==
    /\ error \in [Thread -> {"ok", "timeout", "error"}]
    /\ pc \in [Thread -> [at : Steps, timeout : Timeouts, arg : Args]]
    /\ object \in {"live", "locked", "detaching", "gone"}
    /\ \A t \in Thread : pc[t].at \in {"test", "resume"} => pc[t].arg \in List

\* A thread on a list has no error yet, and is where the list says; a timer runs only
\* for a thread that is on a list.
WaitOK ==
    /\ \A t \in Waiting(Receivers) : error[t] = "ok" /\ pc[t].at \in ReceiverSteps
    /\ \A t \in Waiting(Senders) : error[t] = "ok" /\ pc[t].at \in SenderSteps
    /\ \A t \in timed : t \in Waiting(Receivers) \cup Waiting(Senders)
    /\ \A t \in timed : pc[t].timeout = "ticks"

WaitInv == ListsOK /\ PcOK /\ WaitOK

LEMMA WaitersAre == Waiters = Waiting(Receivers) \cup Waiting(Senders)
<1>1. {ToSet(suspended[l]) : l \in List} = {Waiting(Receivers), Waiting(Senders)}
  BY DEF List, Waiting
<1> QED BY <1>1 DEF Waiters

LEMMA WaitersAreNext == Waiters' = Waiting(Receivers)' \cup Waiting(Senders)'
<1>1. {ToSet(suspended'[l]) : l \in List} = {Waiting(Receivers)', Waiting(Senders)'}
  BY DEF List, Waiting
<1> QED BY <1>1 DEF Waiters

LEMMA WaitersType == ListsOK => /\ Waiting(Receivers) \subseteq Thread
                                /\ Waiting(Senders) \subseteq Thread
<1> SUFFICES ASSUME ListsOK
             PROVE  Waiting(Receivers) \subseteq Thread /\ Waiting(Senders) \subseteq Thread
  OBVIOUS
<1>1. suspended[Receivers] \in Seq(Thread) /\ suspended[Senders] \in Seq(Thread)
  BY DEF ListsOK, List
<1> QED BY <1>1, ListMembers DEF Waiting

-----------------------------------------------------------------------------
(* What a step does to the lists.                                           *)

\* t is put on the list l.
Enters(t, l) ==
    /\ suspended' \in [List -> Seq(Thread)]
    /\ \A m \in List : IsInjective(suspended'[m])
    /\ Waiting(l)' = Waiting(l) \cup {t}
    /\ \A m \in List \ {l} : suspended'[m] = suspended[m]

\* t is taken off the list l.
Leaves(t, l) ==
    /\ suspended' \in [List -> Seq(Thread)]
    /\ \A m \in List : IsInjective(suspended'[m])
    /\ t \in Waiting(l) /\ Waiting(l)' = Waiting(l) \ {t}
    /\ \A m \in List \ {l} : suspended'[m] = suspended[m]
    /\ timed' = timed \ {t}

LEMMA ListSuspendElements ==
    ASSUME ListsOK, NEW l \in List, NEW t \in Thread, t \notin Waiting(l)
    PROVE  /\ ListSuspend(t, l) \in Seq(Thread)
           /\ IsInjective(ListSuspend(t, l))
           /\ ToSet(ListSuspend(t, l)) = Waiting(l) \cup {t}
<1>1. PICK q \in Seq(Thread) : q = suspended[l]
  BY DEF ListsOK, List
<1>2. IsInjective(q) /\ t \notin ToSet(q) /\ ToSet(q) = Waiting(l)
  BY <1>1 DEF ListsOK, List, Waiting
<1> DEFINE later == {i \in DOMAIN q : PrioFlag /\ Priority[t] < Priority[q[i]]}
<1>3. ListSuspend(t, l) = IF later = {} THEN Enqueue(q, t) ELSE InsertAt(q, Min(later), t)
  BY <1>1 DEF ListSuspend
<1> HIDE DEF later
<1>4. CASE later = {}
  <2>1. /\ Enqueue(q, t) \in Seq(Thread) /\ IsInjective(Enqueue(q, t))
        /\ ToSet(Enqueue(q, t)) = ToSet(q) \cup {t}
    BY ONLY <1>2, q \in Seq(Thread), t \in Thread, EnqueueElements
  <2> QED BY <1>2, <1>3, <1>4, <2>1
<1>5. CASE later # {}
  <2>1. Len(q) \in Nat /\ DOMAIN q = 1 .. Len(q)
    BY LenProperties
  <2>2. later \subseteq 1 .. Len(q) /\ later \in SUBSET Nat
    BY <2>1 DEF later
  <2>3. Min(later) \in later
    BY ONLY <1>5, <2>2, LeastPlace
  <2>4. PICK i \in 1 .. Len(q) + 1 : i = Min(later)
    <3>1. \A i \in 1 .. Len(q) : i \in 1 .. Len(q) + 1
      BY <2>1
    <3> QED BY ONLY <2>2, <2>3, <3>1
  <2>5. /\ InsertAt(q, i, t) \in Seq(Thread)
        /\ ToSet(InsertAt(q, i, t)) = ToSet(q) \cup {t}
        /\ IsInjective(InsertAt(q, i, t))
    BY ONLY <1>2, <2>4, q \in Seq(Thread), t \in Thread, InsertElements
  <2> QED BY <1>2, <1>3, <1>5, <2>4, <2>5
<1> QED BY <1>4, <1>5

LEMMA WaitEnters ==
    ASSUME ListsOK, NEW l \in List, NEW t \in Thread, NEW list \in Seq(Thread),
           IsInjective(list), ToSet(list) = Waiting(l) \cup {t},
           suspended' = [suspended EXCEPT ![l] = list]
    PROVE  Enters(t, l)
BY DEF Enters, ListsOK, Waiting, List

LEMMA ResumeLeaves ==
    ASSUME ListsOK, NEW l \in List, suspended[l] # <<>>, ListResume(l)
    PROVE  Leaves(Head(suspended[l]), l)
<1>1. suspended[l] \in Seq(Thread) /\ IsInjective(suspended[l])
  BY DEF ListsOK, List
<1>2. /\ Tail(suspended[l]) \in Seq(Thread) /\ IsInjective(Tail(suspended[l]))
      /\ Head(suspended[l]) \in ToSet(suspended[l])
      /\ ToSet(Tail(suspended[l])) = ToSet(suspended[l]) \ {Head(suspended[l])}
  BY <1>1, TailElements
<1>3. suspended' = [suspended EXCEPT ![l] = Tail(suspended[l])]
      /\ timed' = timed \ {Head(suspended[l])}
  BY DEF ListResume
<1> QED BY <1>1, <1>2, <1>3 DEF Leaves, ListsOK, Waiting, List

LEMMA UnlinkLeaves ==
    ASSUME WaitInv, NEW t \in timed, Timeout(t)
    PROVE  \E l \in List : Leaves(t, l)
<1>1. /\ suspended[Receivers] \in Seq(Thread) /\ IsInjective(suspended[Receivers])
      /\ suspended[Senders] \in Seq(Thread) /\ IsInjective(suspended[Senders])
  BY DEF WaitInv, ListsOK, List
<1>2. \A l \in List : /\ Unlink(suspended[l], t) \in Seq(Thread)
                      /\ IsInjective(Unlink(suspended[l], t))
                      /\ ToSet(Unlink(suspended[l], t)) = ToSet(suspended[l]) \ {t}
  BY <1>1, UnlinkElements DEF List
<1>3. \A l \in List : t \notin ToSet(suspended[l]) => Unlink(suspended[l], t) = suspended[l]
  BY DEF Unlink
<1>4. PICK l \in List : t \in Waiting(l) /\ \A m \in List \ {l} : t \notin Waiting(m)
  BY DEF WaitInv, WaitOK, ListsOK, List
<1>5. /\ suspended' = [m \in List |-> Unlink(suspended[m], t)]
      /\ timed' = timed \ {t}
  BY DEF Timeout
<1> QED BY <1>2, <1>3, <1>4, <1>5 DEF Leaves, Waiting

-----------------------------------------------------------------------------
(* What a step does to a thread: the steps of the calls are of these kinds. *)

LEMMA GoesKeeps ==
    ASSUME WaitInv, NEW t \in Thread, t \notin Waiters,
           NEW step \in Steps, NEW arg \in Args, step \in {"test", "resume"} => arg \in List,
           error' = [error EXCEPT ![t] = "ok"],
           pc' = [pc EXCEPT ![t] = [at |-> step, timeout |-> "none", arg |-> arg]],
           object' \in {"live", "locked", "detaching", "gone"},
           UNCHANGED <<suspended, timed>>
    PROVE  /\ WaitInv' /\ pc'[t].at = step /\ pc'[t].arg = arg /\ error'[t] = "ok"
           /\ \A u \in Thread \ {t} : pc'[u] = pc[u] /\ error'[u] = error[u]
           /\ Waiters' = Waiters
<1>1. t \notin Waiting(Receivers) /\ t \notin Waiting(Senders)
  BY WaitersAre
<1>2. ListsOK' /\ Waiting(Receivers)' = Waiting(Receivers) /\ Waiting(Senders)' = Waiting(Senders)
  BY DEF WaitInv, ListsOK, Waiting
<1>3. PcOK'
  BY DEF WaitInv, PcOK, Timeouts
<1>4. WaitOK'
  BY <1>1, <1>2, WaitersType DEF WaitInv, WaitOK, PcOK
<1>5. Waiters' = Waiters
  BY DEF Waiters
<1>6. /\ pc'[t].at = step /\ pc'[t].arg = arg /\ error'[t] = "ok"
      /\ \A u \in Thread \ {t} : pc'[u] = pc[u] /\ error'[u] = error[u]
  BY DEF WaitInv, PcOK
<1> QED BY <1>2, <1>3, <1>4, <1>5, <1>6 DEF WaitInv

\* A thread that waits is neither free to make a call nor detaching the object.
LEMMA WaitersWait ==
    ASSUME WaitInv, NEW t \in Waiters
    PROVE  /\ t \in Thread /\ error[t] = "ok"
           /\ pc[t].at \in ReceiverSteps \cup SenderSteps
BY WaitersAre, WaitersType DEF WaitInv, WaitOK

\* t is suspended.
LEMMA WaitKeeps ==
    ASSUME WaitInv, NEW t \in Thread, t \notin Waiters, NEW l \in List,
           NEW step \in IF l = Receivers THEN ReceiverSteps ELSE SenderSteps,
           NEW arg \in Args, NEW timeout \in Timeouts, NEW list \in Seq(Thread),
           IsInjective(list), ToSet(list) = Waiting(l) \cup {t},
           Wait(t, l, list, step, arg, timeout), UNCHANGED object
    PROVE  /\ WaitInv' /\ Waiters' = Waiters \cup {t} /\ Enters(t, l)
           /\ pc'[t].at = step /\ pc'[t].arg = arg
           /\ \A u \in Thread \ {t} : pc'[u] = pc[u] /\ error'[u] = error[u]
<1>1. /\ suspended' = [suspended EXCEPT ![l] = list]
      /\ error' = [error EXCEPT ![t] = "ok"]
      /\ pc' = [pc EXCEPT ![t] = [at |-> step, timeout |-> timeout, arg |-> arg]]
      /\ timed' = IF timeout = "ticks" THEN timed \cup {t} ELSE timed
  BY DEF Wait
<1>2. Enters(t, l)
  BY <1>1, WaitEnters DEF WaitInv
<1>3. t \notin Waiting(Receivers) /\ t \notin Waiting(Senders)
  BY WaitersAre
<1>4. \A m \in List \ {l} : Waiting(m)' = Waiting(m)
  BY <1>2 DEF Enters, Waiting
<1>5. ListsOK'
  <2>1. Waiting(l)' = Waiting(l) \cup {t}
    BY <1>2 DEF Enters
  <2>2. Waiting(Receivers)' \cap Waiting(Senders)' = {}
    BY <1>3, <1>4, <2>1 DEF ListsOK, WaitInv, List, Receivers, Senders
  <2> QED BY <1>2, <2>2 DEF Enters, ListsOK, List
<1>6. \A u \in Thread : IF u = t
        THEN /\ pc'[u] = [at |-> step, timeout |-> timeout, arg |-> arg] /\ error'[u] = "ok"
             /\ pc'[u].at = step /\ pc'[u].arg = arg /\ pc'[u].timeout = timeout
        ELSE pc'[u] = pc[u] /\ error'[u] = error[u]
  BY <1>1 DEF WaitInv, PcOK
<1>7. step \in Steps /\ step \notin {"test", "resume"}
  <2>1. step \in ReceiverSteps \/ step \in SenderSteps
    OBVIOUS
  <2> QED BY <2>1 DEF ReceiverSteps, SenderSteps, Steps
<1>8. PcOK'
  <2>1. [at |-> step, timeout |-> timeout, arg |-> arg] \in
            [at : Steps, timeout : Timeouts, arg : Args]
    BY <1>7
  <2> QED BY <1>1, <1>6, <1>7, <2>1 DEF PcOK, WaitInv
<1>9. Waiters' = Waiters \cup {t}
  BY <1>2, <1>4, WaitersAre, WaitersAreNext DEF Enters, List
<1>10. WaitOK'
  <2>1. Waiting(l)' = Waiting(l) \cup {t}
    BY <1>2 DEF Enters
  <2>2. /\ Waiting(Receivers)' = Waiting(Receivers) \cup IF l = Receivers THEN {t} ELSE {}
        /\ Waiting(Senders)' = Waiting(Senders) \cup IF l = Senders THEN {t} ELSE {}
    BY <2>1, <1>4 DEF List
  <2>3. \A u \in timed : u \in Waiting(Receivers) \cup Waiting(Senders) /\ u # t
    BY <1>3 DEF WaitInv, WaitOK
  <2>4. Waiting(Receivers) \subseteq Thread /\ Waiting(Senders) \subseteq Thread
    BY WaitersType DEF WaitInv
  <2>5. /\ \A u \in Waiting(Receivers)' : error'[u] = "ok" /\ pc'[u].at \in ReceiverSteps
        /\ \A u \in Waiting(Senders)' : error'[u] = "ok" /\ pc'[u].at \in SenderSteps
    BY <1>3, <1>6, <2>2, <2>4 DEF WaitInv, WaitOK, List, Receivers, Senders
  <2>6. \A u \in timed' : u \in Waiting(Receivers)' \cup Waiting(Senders)'
    BY <1>1, <2>2, <2>3 DEF List
  <2>7. \A u \in timed' : pc'[u].timeout = "ticks"
    BY <1>1, <1>6, <2>3, <2>4 DEF WaitInv, WaitOK
  <2> QED BY <2>5, <2>6, <2>7 DEF WaitOK
<1> QED BY <1>2, <1>5, <1>6, <1>8, <1>9, <1>10 DEF WaitInv

\* A waiter is taken off its list, and the other waiters are left alone.
LEMMA LeaveKeeps ==
    ASSUME WaitInv, PcOK', NEW l \in List, NEW h, Leaves(h, l),
           \A u \in Waiters \ {h} : pc'[u] = pc[u] /\ error'[u] = error[u]
    PROVE  /\ WaitInv' /\ Waiters' = Waiters \ {h} /\ h \in Waiters
           /\ \A m \in List \ {l} : Waiting(m)' = Waiting(m)
           /\ \A m \in List : Waiting(m)' \subseteq Waiting(m)
<1>1. \A m \in List \ {l} : Waiting(m)' = Waiting(m)
  BY DEF Leaves, Waiting
<1>2. Waiting(l)' = Waiting(l) \ {h} /\ h \in Waiting(l) /\ timed' = timed \ {h}
  BY DEF Leaves
<1>3. ListsOK'
  BY <1>1, <1>2 DEF Leaves, ListsOK, WaitInv, List
<1>4. /\ Waiting(Receivers)' = Waiting(Receivers) \ {h}
      /\ Waiting(Senders)' = Waiting(Senders) \ {h}
  BY <1>1, <1>2 DEF WaitInv, ListsOK, List
<1>5. WaitOK'
  BY <1>2, <1>4, WaitersAre DEF WaitOK, WaitInv
<1>6. Waiters' = Waiters \ {h} /\ h \in Waiters
  BY <1>2, <1>4, WaitersAre, WaitersAreNext DEF List
<1>7. \A m \in List : Waiting(m)' \subseteq Waiting(m)
  BY <1>1, <1>2
<1> QED BY <1>1, <1>3, <1>5, <1>6, <1>7 DEF WaitInv

-----------------------------------------------------------------------------
(* The steps that hand nothing to a waiter: a timeout, a reset and all that *)
(* detaching an object does.                                                *)

CallSteps == ReceiverSteps \cup SenderSteps \cup BusySteps

Quiet ==
    /\ \A step \in ReceiverSteps \cup SenderSteps : Arriving(step)' = Arriving(step)
    /\ \A l \in List : Waiting(l)' \subseteq Waiting(l)
    /\ \A u \in Thread : pc[u].at \in CallSteps \/ pc'[u].at \in CallSteps
                         => pc'[u].at = pc[u].at /\ pc'[u].arg = pc[u].arg

LEMMA TimeoutQuiet ==
    ASSUME WaitInv, NEW t \in Thread, Timeout(t)
    PROVE  /\ WaitInv' /\ Quiet /\ t \in Waiters /\ Waiters' = Waiters \ {t}
           /\ error'[t] = "timeout" /\ UNCHANGED <<pc, object>>
           /\ \A u \in Thread \ {t} : error'[u] = error[u]
<1>1. /\ t \in timed /\ UNCHANGED <<pc, object>>
      /\ error' = [error EXCEPT ![t] = "timeout"]
  BY DEF Timeout
<1>2. PICK l \in List : Leaves(t, l)
  BY <1>1, UnlinkLeaves
<1>3. PcOK'
  BY <1>1 DEF WaitInv, PcOK
<1>4. error'[t] = "timeout" /\ \A u \in Thread \ {t} : error'[u] = error[u]
  BY <1>1 DEF WaitInv, PcOK
<1>5. \A u \in Waiters \ {t} : pc'[u] = pc[u] /\ error'[u] = error[u]
  BY <1>1, <1>4, WaitersWait
<1>6. /\ WaitInv' /\ Waiters' = Waiters \ {t} /\ t \in Waiters
      /\ \A m \in List : Waiting(m)' \subseteq Waiting(m)
  BY <1>2, <1>3, <1>5, LeaveKeeps
<1>7. \A step \in ReceiverSteps \cup SenderSteps : Arriving(step)' = Arriving(step)
  BY <1>1, <1>4, <1>6 DEF Arriving
<1> QED BY <1>1, <1>4, <1>6, <1>7 DEF Quiet

LEMMA ResumeAllQuiet ==
    ASSUME WaitInv, ListResumeAll, UNCHANGED <<pc, object>>
    PROVE  WaitInv' /\ Quiet /\ Waiters' = {} /\ suspended' = [l \in List |-> <<>>]
<1>1. /\ suspended' = [l \in List |-> <<>>]
      /\ error' = [t \in Thread |-> IF t \in Waiters THEN "error" ELSE error[t]]
      /\ timed' = timed \ Waiters
  BY DEF ListResumeAll
<1>2. Waiting(Receivers)' = {} /\ Waiting(Senders)' = {}
  BY <1>1 DEF Waiting, ToSet, List
<1>3. Waiters' = {}
  BY <1>2, WaitersAreNext
<1>4. timed' = {}
  BY <1>1, WaitersAre DEF WaitInv, WaitOK
<1>5. ListsOK'
  BY <1>1, <1>2 DEF ListsOK, List, IsInjective
<1>6. PcOK'
  BY <1>1 DEF WaitInv, PcOK
<1>7. WaitOK'
  BY <1>2, <1>4 DEF WaitOK
<1>8. \A l \in List : Waiting(l)' \subseteq Waiting(l)
  BY <1>2 DEF List
<1>9. \A step \in ReceiverSteps \cup SenderSteps : Arriving(step)' = Arriving(step)
  BY <1>1, <1>3 DEF Arriving
<1> QED BY <1>1, <1>3, <1>5, <1>6, <1>7, <1>8, <1>9 DEF WaitInv, Quiet

\* A thread that is in no list and goes from one step outside the calls to another.
LEMMA GoesQuiet ==
    ASSUME WaitInv, NEW t \in Thread, t \notin Waiters, pc[t].at \notin CallSteps,
           NEW step \in {"run", "test", "resume"}, NEW arg \in Args,
           step \in {"test", "resume"} => arg \in List,
           error' = [error EXCEPT ![t] = "ok"],
           pc' = [pc EXCEPT ![t] = [at |-> step, timeout |-> "none", arg |-> arg]],
           object' \in {"live", "locked", "detaching", "gone"},
           UNCHANGED <<suspended, timed>>
    PROVE  /\ WaitInv' /\ Quiet /\ pc'[t].at = step /\ pc'[t].arg = arg
           /\ \A u \in Thread \ {t} : pc'[u] = pc[u] /\ error'[u] = error[u]
           /\ Waiters' = Waiters
<1>1. step \in Steps /\ step \notin CallSteps
  BY DEF Steps, CallSteps, ReceiverSteps, SenderSteps, BusySteps
<1>2. /\ WaitInv' /\ pc'[t].at = step /\ pc'[t].arg = arg
      /\ \A u \in Thread \ {t} : pc'[u] = pc[u] /\ error'[u] = error[u]
      /\ Waiters' = Waiters
  BY <1>1, GoesKeeps
<1>3. \A l \in List : Waiting(l)' \subseteq Waiting(l)
  BY DEF Waiting
<1>4. \A x \in ReceiverSteps \cup SenderSteps : Arriving(x)' = Arriving(x)
  BY <1>1, <1>2 DEF Arriving, CallSteps
<1>5. Quiet
  BY <1>1, <1>2, <1>3, <1>4 DEF Quiet
<1> QED BY <1>2, <1>5

LEMMA DetachStarts ==
    ASSUME WaitInv, NEW t \in Thread, NEW status \in {"locked", "detaching"},
           Detach(t, status)
    PROVE  /\ WaitInv' /\ Quiet /\ pc'[t].at = "test" /\ pc'[t].arg = Receivers
           /\ \A u \in Thread \ {t} : pc'[u] = pc[u] /\ error'[u] = error[u]
           /\ Waiters' = Waiters
<1>1. t \notin Waiters /\ pc[t].at \notin CallSteps
  BY DEF Detach, May, At, CallSteps, ReceiverSteps, SenderSteps, BusySteps
<1>2. Receivers \in Args /\ Receivers \in List
  BY DEF Args, List
<1>3. /\ error' = [error EXCEPT ![t] = "ok"]
      /\ pc' = [pc EXCEPT ![t] = [at |-> "test", timeout |-> "none", arg |-> Receivers]]
      /\ object' = status /\ UNCHANGED <<suspended, timed>>
  BY DEF Detach, Goto
<1> QED BY <1>1, <1>2, <1>3, GoesQuiet

LEMMA DetachTests ==
    ASSUME WaitInv, NEW t \in Thread, DetachTest(t)
    PROVE  /\ WaitInv' /\ Quiet /\ UNCHANGED <<suspended, timed, object>>
           /\ t \notin Waiters /\ pc[t].at = "test" /\ pc[t].arg \in List
           /\ \A u \in Thread \ {t} : pc'[u] = pc[u] /\ error'[u] = error[u]
           /\ Waiters' = Waiters
           /\ \/ /\ suspended[pc[t].arg] # <<>>
                 /\ pc'[t].at = "resume" /\ pc'[t].arg = pc[t].arg
              \/ /\ suspended[Receivers] = <<>> /\ pc[t].arg = Receivers
                 /\ pc'[t].at = "test" /\ pc'[t].arg = Senders
<1>1. /\ t \notin Waiters /\ pc[t].at = "test" /\ UNCHANGED <<suspended, timed, object>>
      /\ pc[t].arg \in List /\ pc[t].at \notin CallSteps
  BY DEF DetachTest, Tests, WaitInv, PcOK, CallSteps, ReceiverSteps, SenderSteps, BusySteps
<1>2. \A l \in List : l \in Args
  BY DEF Args
<1>3. object' \in {"live", "locked", "detaching", "gone"}
  BY <1>1 DEF WaitInv, PcOK
<1>4. CASE suspended[pc[t].arg] # <<>>
  <2>1. PICK l \in List : l = pc[t].arg
    BY <1>1
  <2>2. /\ error' = [error EXCEPT ![t] = "ok"]
        /\ pc' = [pc EXCEPT ![t] = [at |-> "resume", timeout |-> "none", arg |-> l]]
    BY <1>4, <2>1 DEF DetachTest, Goto
  <2>3. /\ WaitInv' /\ Quiet /\ pc'[t].at = "resume" /\ pc'[t].arg = l
        /\ \A u \in Thread \ {t} : pc'[u] = pc[u] /\ error'[u] = error[u]
        /\ Waiters' = Waiters
    BY <1>1, <1>2, <1>3, <2>2, GoesQuiet
  <2> QED BY <1>1, <1>4, <2>1, <2>3
<1>5. CASE suspended[pc[t].arg] = <<>>
  <2>1. /\ error' = [error EXCEPT ![t] = "ok"] /\ pc[t].arg = Receivers
        /\ pc' = [pc EXCEPT ![t] = [at |-> "test", timeout |-> "none", arg |-> Senders]]
    BY <1>5 DEF DetachTest, Goto
  <2>2. Senders \in List /\ Senders \in Args
    BY DEF List, Args
  <2>3. /\ WaitInv' /\ Quiet /\ pc'[t].at = "test" /\ pc'[t].arg = Senders
        /\ \A u \in Thread \ {t} : pc'[u] = pc[u] /\ error'[u] = error[u]
        /\ Waiters' = Waiters
    BY <1>1, <1>3, <2>1, <2>2, GoesQuiet
  <2> QED BY <1>1, <1>5, <2>1, <2>3
<1> QED BY <1>4, <1>5

LEMMA DetachResumes ==
    ASSUME WaitInv, NEW t \in Thread, DetachResume(t)
    PROVE  /\ WaitInv' /\ Quiet /\ UNCHANGED object
           /\ t \notin Waiters /\ pc[t].at = "resume" /\ pc[t].arg \in List
           /\ pc'[t].at = "test" /\ pc'[t].arg = pc[t].arg
           /\ \A u \in Thread \ {t} : pc'[u] = pc[u]
           /\ \A m \in List \ {pc[t].arg} : suspended'[m] = suspended[m]
           /\ timed' \subseteq timed
           /\ \E l \in List : l = pc[t].arg /\ \E h \in Waiting(l) :
                 /\ Leaves(h, l) /\ error'[h] = "error" /\ Waiters' = Waiters \ {h}
                 /\ \A u \in Thread \ {h} : error'[u] = error[u]
<1>1. PICK l : l = pc[t].arg
  OBVIOUS
<1>2. /\ pc[t].at = "resume" /\ suspended[l] # <<>> /\ ListResume(l)
      /\ error' = [error EXCEPT ![Head(suspended[l])] = "error"]
      /\ pc' = [pc EXCEPT ![t].at = "test"] /\ UNCHANGED object
  BY <1>1 DEF DetachResume
<1>3. l \in List /\ t \notin Waiters
  BY <1>1, <1>2, WaitersWait DEF WaitInv, PcOK, ReceiverSteps, SenderSteps
<1>4. PICK h : h = Head(suspended[l])
  OBVIOUS
<1>5. Leaves(h, l)
  BY <1>2, <1>3, <1>4, ResumeLeaves DEF WaitInv
<1>6. h \in Waiting(l) /\ h \in Waiters /\ h \in Thread /\ h # t
  BY <1>3, <1>5, WaitersAre, WaitersWait DEF Leaves, List
<1>7. error'[h] = "error" /\ \A u \in Thread \ {h} : error'[u] = error[u]
  BY <1>2, <1>4, <1>6 DEF WaitInv, PcOK
<1>8. /\ pc'[t].at = "test" /\ pc'[t].arg = pc[t].arg /\ pc'[t].timeout = pc[t].timeout
      /\ \A u \in Thread \ {t} : pc'[u] = pc[u]
  BY <1>2 DEF WaitInv, PcOK
<1>9. PcOK'
  <2>1. "test" \in Steps
    BY DEF Steps
  <2>2. pc' \in [Thread -> [at : Steps, timeout : Timeouts, arg : Args]]
    BY <1>2, <2>1 DEF WaitInv, PcOK
  <2>3. error' \in [Thread -> {"ok", "timeout", "error"}]
    BY <1>2 DEF WaitInv, PcOK
  <2>4. \A u \in Thread : pc'[u].at \in {"test", "resume"} => pc'[u].arg \in List
    BY <1>1, <1>3, <1>8 DEF WaitInv, PcOK
  <2> QED BY <1>2, <2>2, <2>3, <2>4 DEF WaitInv, PcOK
<1>10. \A u \in Waiters \ {h} : pc'[u] = pc[u] /\ error'[u] = error[u]
  BY <1>3, <1>7, <1>8, WaitersWait
<1>11. /\ WaitInv' /\ Waiters' = Waiters \ {h}
       /\ \A m \in List : Waiting(m)' \subseteq Waiting(m)
  BY <1>3, <1>5, <1>9, <1>10, LeaveKeeps
<1>12. "test" \notin CallSteps /\ "resume" \notin CallSteps
  BY DEF CallSteps, ReceiverSteps, SenderSteps, BusySteps
<1>13. \A x \in ReceiverSteps \cup SenderSteps : Arriving(x)' = Arriving(x)
  <2> SUFFICES ASSUME NEW x \in CallSteps PROVE Arriving(x)' = Arriving(x)
    BY DEF CallSteps
  <2> QED BY <1>2, <1>6, <1>7, <1>8, <1>11, <1>12 DEF Arriving
<1>14. Quiet
  BY <1>2, <1>8, <1>11, <1>12, <1>13 DEF Quiet
<1> QED BY <1>1, <1>2, <1>3, <1>5, <1>6, <1>7, <1>8, <1>11, <1>14 DEF Leaves

LEMMA DetachEnding ==
    ASSUME WaitInv, NEW t \in Thread, NEW status \in {"live", "gone"}, DetachEnds(t, status)
    PROVE  /\ WaitInv' /\ Quiet /\ object' = status /\ UNCHANGED <<suspended, timed>>
           /\ t \notin Waiters /\ pc[t].at = "test" /\ pc[t].arg = Senders
           /\ suspended[Senders] = <<>> /\ pc'[t].at = "run"
           /\ \A u \in Thread \ {t} : pc'[u] = pc[u] /\ error'[u] = error[u]
           /\ Waiters' = Waiters
<1>1. /\ t \notin Waiters /\ pc[t].at = "test" /\ pc[t].arg = Senders
      /\ suspended[Senders] = <<>> /\ object' = status /\ UNCHANGED <<suspended, timed>>
  BY DEF DetachEnds, Tests
<1>2. pc[t].at \notin CallSteps
  BY <1>1 DEF CallSteps, ReceiverSteps, SenderSteps, BusySteps
<1>3. /\ error' = [error EXCEPT ![t] = "ok"]
      /\ pc' = [pc EXCEPT ![t] = [at |-> "run", timeout |-> "none", arg |-> Nothing]]
  BY DEF DetachEnds, Return, Running
<1>4. Nothing \in Args
  BY DEF Args
<1> QED BY <1>1, <1>2, <1>3, <1>4, GoesQuiet

LEMMA DetachesQuiet ==
    ASSUME WaitInv, NEW t \in Thread,
           NEW status \in {"locked", "detaching"}, NEW end \in {"live", "gone"},
           \/ Detach(t, status) \/ DetachTest(t) \/ DetachResume(t) \/ DetachEnds(t, end)
    PROVE  WaitInv' /\ Quiet
BY DetachStarts, DetachTests, DetachResumes, DetachEnding

LEMMA RemovedQuiet ==
    ASSUME WaitInv, NEW t \in Thread, Removed(t)
    PROVE  WaitInv' /\ Quiet
BY DetachesQuiet DEF Removed

-----------------------------------------------------------------------------
(* Detaching an object that no call is busy with: whoever is left waits     *)
(* without a timeout, and is woken by the one thread that detaches it.      *)

Detacher(u) == pc[u].at \in {"test", "resume"}

\* The call of u is over, or will be as soon as u runs.
Done(u) == pc[u].at = "run" \/ error[u] = "error"

Detaching(d) ==
    /\ Detacher(d)
    /\ pc[d].arg = Senders => suspended[Receivers] = <<>>
    /\ pc[d].at = "resume" => suspended[pc[d].arg] # <<>>
    /\ \A u \in Thread \ {d} : ~Detacher(u) /\ (u \in Waiters \/ Done(u))

DetachInv ==
    \/ object = "live" /\ \A u \in Thread : ~Detacher(u)
    \/ object \in {"locked", "detaching"} /\ timed = {} /\ \E d \in Thread : Detaching(d)
    \/ object = "gone" /\ Waiters = {} /\ \A u \in Thread : ~Detacher(u) /\ Done(u)

LEMMA EmptyList ==
    ASSUME WaitInv
    PROVE  \A l \in List : suspended[l] = <<>> <=> Waiting(l) = {}
<1> SUFFICES ASSUME NEW l \in List PROVE suspended[l] = <<>> <=> Waiting(l) = {}
  OBVIOUS
<1>1. suspended[l] \in Seq(Thread)
  BY DEF WaitInv, ListsOK, List
<1>2. suspended[l] # <<>> => Head(suspended[l]) \in ToSet(suspended[l])
  BY <1>1, TailElements
<1>3. ToSet(<<>>) = {}
  BY DEF ToSet
<1> QED BY <1>2, <1>3 DEF Waiting

LEMMA EmptyListNext ==
    ASSUME WaitInv'
    PROVE  \A l \in List : suspended'[l] = <<>> <=> Waiting(l)' = {}
<1> SUFFICES ASSUME NEW l \in List PROVE suspended'[l] = <<>> <=> Waiting(l)' = {}
  OBVIOUS
<1>1. suspended'[l] \in Seq(Thread)
  BY DEF WaitInv, ListsOK, List
<1>2. suspended'[l] # <<>> => Head(suspended'[l]) \in ToSet(suspended'[l])
  BY <1>1, TailElements
<1>3. ToSet(<<>>) = {}
  BY DEF ToSet
<1> QED BY <1>2, <1>3 DEF Waiting

LEMMA DetachInvSays ==
    ASSUME WaitInv, DetachInv
    PROVE  DetachWakesAll
BY WaitersWait DEF DetachInv, DetachWakesAll, Detaching, Detacher, Done

\* No call goes on with what it waited for once the object is not live.
LEMMA NobodyWoken ==
    ASSUME WaitInv, DetachInv, NEW t \in Thread,
           NEW step \in ReceiverSteps \cup SenderSteps, Woken(t, step)
    PROVE  object = "live"
<1>1. pc[t].at = step /\ t \notin Waiters /\ error[t] = "ok"
  BY DEF Woken, At
<1>2. step \notin {"run", "test", "resume"}
  BY DEF ReceiverSteps, SenderSteps
<1> QED BY <1>1, <1>2 DEF DetachInv, Detaching, Detacher, Done

\* A call on a live object.
LEMMA LiveKeeps ==
    ASSUME DetachInv, object = "live", object' = "live",
           \A u \in Thread : pc'[u].at # pc[u].at =>
                 pc'[u].at \in ReceiverSteps \cup SenderSteps \cup BusySteps \cup {"run"}
    PROVE  DetachInv'
BY DEF DetachInv, Detacher, ReceiverSteps, SenderSteps, BusySteps

\* A call returns.
LEMMA ReturnKeeps ==
    ASSUME WaitInv, DetachInv, NEW t \in Thread, t \notin Waiters, ~Detacher(t), Return(t),
           UNCHANGED <<suspended, timed, object>>
    PROVE  DetachInv'
<1>1. /\ pc'[t].at = "run"
      /\ \A u \in Thread \ {t} : pc'[u] = pc[u] /\ error'[u] = error[u]
  BY DEF Return, Running, WaitInv, PcOK
<1>2. Waiters' = Waiters
  BY DEF Waiters
<1>3. CASE object = "live"
  BY <1>1, <1>3 DEF DetachInv, Detacher
<1>4. CASE object = "gone"
  BY <1>1, <1>2, <1>4 DEF DetachInv, Detacher, Done
<1>5. CASE object \in {"locked", "detaching"}
  <2>1. PICK d \in Thread : Detaching(d)
    BY <1>5 DEF DetachInv
  <2>2. d # t
    BY <2>1 DEF Detaching
  <2>3. Detaching(d)'
    BY <1>1, <1>2, <2>1, <2>2 DEF Detaching, Detacher, Done
  <2> QED BY <1>5, <2>3 DEF DetachInv
<1> QED BY <1>3, <1>4, <1>5 DEF WaitInv, PcOK

LEMMA TimeoutKeeps ==
    ASSUME WaitInv, DetachInv, NEW t \in Thread, Timeout(t)
    PROVE  DetachInv'
<1>1. object = "live"
  <2>1. t \in timed /\ t \in Waiters
    BY TimeoutQuiet DEF Timeout
  <2> QED BY <2>1 DEF DetachInv
<1> QED BY <1>1, TimeoutQuiet DEF DetachInv, Detacher

\* The steps of the thread that detaches the object.
LEMMA DetachesKeep ==
    ASSUME WaitInv, DetachInv, ~BusyDetach, NEW t \in Thread,
           NEW status \in {"locked", "detaching"}, NEW end \in {"live", "gone"},
           \/ Detach(t, status) \/ DetachTest(t) \/ DetachResume(t) \/ DetachEnds(t, end)
    PROVE  DetachInv'
<1>1. CASE Detach(t, status)
  <2>1. /\ object = "live" /\ object' = status /\ \A u \in Thread : Idle(u)
        /\ UNCHANGED <<suspended, timed>>
    BY <1>1 DEF Detach, May
  <2>2. timed = {}
    <3> SUFFICES ASSUME NEW u \in timed PROVE FALSE
      OBVIOUS
    <3>1. u \in Waiters /\ pc[u].timeout = "ticks"
      BY WaitersAre DEF WaitInv, WaitOK
    <3>2. u \in Thread /\ pc[u].at # "run"
      BY <3>1, WaitersWait DEF ReceiverSteps, SenderSteps
    <3> QED BY <2>1, <3>1, <3>2 DEF Idle
  <2>3. \A u \in Thread : ~Detacher(u)
    BY <2>1 DEF DetachInv
  <2>4. Receivers # Senders
    BY DEF Receivers, Senders
  <2>5. Detaching(t)'
    BY <1>1, <2>1, <2>3, <2>4, DetachStarts DEF Detaching, Detacher, Done, Idle
  <2> QED BY <2>1, <2>2, <2>5 DEF DetachInv
<1>2. CASE DetachTest(t)
  <2>1. /\ Detacher(t) /\ t \notin Waiters
        /\ UNCHANGED <<suspended, timed, object>> /\ Waiters' = Waiters
        /\ \A u \in Thread \ {t} : pc'[u] = pc[u] /\ error'[u] = error[u]
    BY <1>2, DetachTests DEF Detacher
  <2>2. object \in {"locked", "detaching"} /\ timed = {} /\ Detaching(t)
    BY <2>1 DEF DetachInv, Detaching
  <2>3. Detaching(t)'
    BY <1>2, <2>1, <2>2, DetachTests DEF Detaching, Detacher, Done
  <2> QED BY <2>1, <2>2, <2>3 DEF DetachInv
<1>3. CASE DetachResume(t)
  <2>1. /\ Detacher(t) /\ t \notin Waiters /\ UNCHANGED object /\ timed' \subseteq timed
        /\ pc[t].arg \in List /\ pc'[t].at = "test" /\ pc'[t].arg = pc[t].arg
        /\ \A u \in Thread \ {t} : pc'[u] = pc[u]
        /\ \A m \in List \ {pc[t].arg} : suspended'[m] = suspended[m]
    BY <1>3, DetachResumes DEF Detacher
  <2>2. object \in {"locked", "detaching"} /\ timed = {} /\ Detaching(t)
    BY <2>1 DEF DetachInv, Detaching
  <2>3. PICK h :
           /\ error'[h] = "error" /\ Waiters' = Waiters \ {h}
           /\ \A u \in Thread \ {h} : error'[u] = error[u]
    BY <1>3, DetachResumes
  <2>4. pc[t].arg = Senders => suspended'[Receivers] = <<>>
    BY <2>1, <2>2 DEF Detaching, List, Receivers, Senders
  <2>5. \A u \in Thread \ {t} : ~Detacher(u)' /\ (u \in Waiters' \/ Done(u)')
    BY <2>1, <2>2, <2>3 DEF Detaching, Detacher, Done
  <2>6. Detaching(t)'
    BY <2>1, <2>4, <2>5 DEF Detaching, Detacher
  <2> QED BY <2>1, <2>2, <2>6 DEF DetachInv
<1>4. CASE DetachEnds(t, end)
  <2>1. /\ Detacher(t) /\ t \notin Waiters /\ object' = end /\ Waiters' = Waiters
        /\ pc[t].arg = Senders /\ suspended[Senders] = <<>> /\ pc'[t].at = "run"
        /\ \A u \in Thread \ {t} : pc'[u] = pc[u] /\ error'[u] = error[u]
    BY <1>4, DetachEnding DEF Detacher
  <2>2. Detaching(t)
    BY <2>1 DEF DetachInv, Detaching
  <2>3. suspended[Receivers] = <<>>
    BY <2>1, <2>2 DEF Detaching
  <2>4. Waiters = {}
    BY <2>1, <2>3, EmptyList, WaitersAre DEF List
  <2> QED BY <2>1, <2>2, <2>4 DEF DetachInv, Detaching, Detacher, Done
<1> QED BY <1>1, <1>2, <1>3, <1>4

LEMMA RemovedKeeps ==
    ASSUME WaitInv, DetachInv, ~BusyDetach, NEW t \in Thread, Removed(t)
    PROVE  DetachInv'
BY DetachesKeep DEF Removed

-----------------------------------------------------------------------------
(* Who has been woken, and is counted.                                      *)

LEMMA ArrivingFinite ==
    \A step : IsFiniteSet(Arriving(step)) /\ Cardinality(Arriving(step)) \in Nat
<1> SUFFICES ASSUME NEW step
             PROVE  IsFiniteSet(Arriving(step)) /\ Cardinality(Arriving(step)) \in Nat
  OBVIOUS
<1>1. Arriving(step) \in SUBSET Thread /\ IsFiniteSet(Thread)
  BY IpcAssumption DEF Arriving
<1>2. IsFiniteSet(Arriving(step))
  BY ONLY <1>1, FS_Subset
<1> QED BY <1>2, FS_CardinalityType

LEMMA ArrivingBound ==
    \A step : Cardinality(Arriving(step)) <= Cardinality(Thread) /\ Cardinality(Thread) \in Nat
<1> SUFFICES ASSUME NEW step
             PROVE  Cardinality(Arriving(step)) <= Cardinality(Thread)
                    /\ Cardinality(Thread) \in Nat
  OBVIOUS
<1>1. Arriving(step) \in SUBSET Thread /\ IsFiniteSet(Thread)
  BY IpcAssumption DEF Arriving
<1> QED BY ONLY <1>1, FS_Subset, FS_CardinalityType

\* One more, or one less.
LEMMA OneMore ==
    ASSUME NEW S, NEW T, NEW x, IsFiniteSet(S), x \notin S, T = S \cup {x}
    PROVE  Cardinality(T) = Cardinality(S) + 1
BY FS_AddElement

LEMMA OneLess ==
    ASSUME NEW S, NEW T, NEW x, IsFiniteSet(S), x \in S, T = S \ {x}
    PROVE  Cardinality(T) = Cardinality(S) - 1
BY FS_RemoveElement

\* A thread that makes a call and has to wait is not counted yet.
LEMMA CallWaits ==
    ASSUME WaitInv, NEW t \in Thread, May(t), NEW l \in List,
           NEW step \in IF l = Receivers THEN ReceiverSteps ELSE SenderSteps,
           NEW arg \in Args, NEW timeout \in {"ticks", "forever"}, NEW list \in Seq(Thread),
           IsInjective(list), ToSet(list) = Waiting(l) \cup {t},
           Wait(t, l, list, step, arg, timeout), UNCHANGED object
    PROVE  /\ WaitInv' /\ Waiters' = Waiters \cup {t} /\ Enters(t, l)
           /\ pc'[t].at = step /\ pc'[t].arg = arg /\ pc[t].at = "run" /\ object = "live"
           /\ \A u \in Thread \ {t} : pc'[u] = pc[u] /\ error'[u] = error[u]
           /\ \A x \in ReceiverSteps \cup SenderSteps : Arriving(x)' = Arriving(x)
<1>1. t \notin Waiters /\ pc[t].at = "run" /\ object = "live"
  BY DEF May, At
<1>2. /\ WaitInv' /\ Waiters' = Waiters \cup {t} /\ Enters(t, l)
      /\ pc'[t].at = step /\ pc'[t].arg = arg
      /\ \A u \in Thread \ {t} : pc'[u] = pc[u] /\ error'[u] = error[u]
  BY <1>1, WaitKeeps DEF Timeouts
<1>3. "run" \notin ReceiverSteps \cup SenderSteps
  BY DEF ReceiverSteps, SenderSteps
<1>4. \A x \in ReceiverSteps \cup SenderSteps : Arriving(x)' = Arriving(x)
  BY <1>1, <1>2, <1>3 DEF Arriving
<1> QED BY <1>1, <1>2, <1>4

\* A thread that was woken and has to wait again is counted no more.
LEMMA WaitsAgain ==
    ASSUME WaitInv, NEW t \in Thread, NEW l \in List,
           NEW step \in IF l = Receivers THEN ReceiverSteps ELSE SenderSteps,
           Woken(t, step), NEW arg \in Args, NEW timeout \in {"ticks", "forever"},
           NEW list \in Seq(Thread), IsInjective(list), ToSet(list) = Waiting(l) \cup {t},
           Wait(t, l, list, step, arg, timeout), UNCHANGED object
    PROVE  /\ WaitInv' /\ Waiters' = Waiters \cup {t} /\ Enters(t, l)
           /\ pc'[t].at = step /\ pc'[t].arg = arg
           /\ \A u \in Thread \ {t} : pc'[u] = pc[u] /\ error'[u] = error[u]
           /\ \A x \in ReceiverSteps \cup SenderSteps : Arriving(x)' = Arriving(x) \ {t}
           /\ t \in Arriving(step)
<1>1. t \notin Waiters /\ pc[t].at = step /\ error[t] = "ok"
  BY DEF Woken, At
<1>2. /\ WaitInv' /\ Waiters' = Waiters \cup {t} /\ Enters(t, l)
      /\ pc'[t].at = step /\ pc'[t].arg = arg
      /\ \A u \in Thread \ {t} : pc'[u] = pc[u] /\ error'[u] = error[u]
  BY <1>1, WaitKeeps DEF Timeouts
<1>3. \A x \in ReceiverSteps \cup SenderSteps : Arriving(x)' = Arriving(x) \ {t}
  BY <1>1, <1>2 DEF Arriving
<1>4. t \in Arriving(step)
  BY <1>1 DEF Arriving
<1> QED BY <1>2, <1>3, <1>4

\* A call that returns: its thread is counted no more.
LEMMA CallReturns ==
    ASSUME WaitInv, NEW t \in Thread, t \notin Waiters, Return(t),
           UNCHANGED <<suspended, timed, object>>
    PROVE  /\ WaitInv' /\ Waiters' = Waiters /\ pc'[t].at = "run"
           /\ \A u \in Thread \ {t} : pc'[u] = pc[u] /\ error'[u] = error[u]
           /\ \A x \in ReceiverSteps \cup SenderSteps : Arriving(x)' = Arriving(x) \ {t}
<1>1. /\ error' = [error EXCEPT ![t] = "ok"]
      /\ pc' = [pc EXCEPT ![t] = [at |-> "run", timeout |-> "none", arg |-> Nothing]]
  BY DEF Return, Running
<1>2. "run" \in Steps /\ Nothing \in Args /\ "run" \notin ReceiverSteps \cup SenderSteps
  BY DEF Steps, Args, ReceiverSteps, SenderSteps
<1>3. object' \in {"live", "locked", "detaching", "gone"}
  BY DEF WaitInv, PcOK
<1>4. /\ WaitInv' /\ Waiters' = Waiters /\ pc'[t].at = "run"
      /\ \A u \in Thread \ {t} : pc'[u] = pc[u] /\ error'[u] = error[u]
  BY <1>1, <1>2, <1>3, GoesKeeps
<1>5. \A x \in ReceiverSteps \cup SenderSteps : Arriving(x)' = Arriving(x) \ {t}
  BY <1>2, <1>4 DEF Arriving
<1> QED BY <1>4, <1>5

LEMMA CallFails ==
    ASSUME WaitInv, NEW t \in Thread, NEW step \in ReceiverSteps \cup SenderSteps,
           Fails(t, step)
    PROVE  /\ WaitInv' /\ UNCHANGED <<suspended, timed, object>> /\ pc'[t].at = "run"
           /\ t \notin Waiters /\ pc[t].at = step
           /\ \A u \in Thread \ {t} : pc'[u] = pc[u] /\ error'[u] = error[u]
           /\ \A x \in ReceiverSteps \cup SenderSteps : Arriving(x)' = Arriving(x)
<1>1. /\ t \notin Waiters /\ pc[t].at = step /\ error[t] # "ok" /\ Return(t)
      /\ UNCHANGED <<suspended, timed, object>>
  BY DEF Fails, At
<1>2. /\ WaitInv' /\ pc'[t].at = "run"
      /\ \A u \in Thread \ {t} : pc'[u] = pc[u] /\ error'[u] = error[u]
      /\ \A x \in ReceiverSteps \cup SenderSteps : Arriving(x)' = Arriving(x) \ {t}
  BY <1>1, CallReturns
<1>3. \A x \in ReceiverSteps \cup SenderSteps : t \notin Arriving(x)
  BY <1>1 DEF Arriving
<1> QED BY <1>1, <1>2, <1>3

\* The first waiter of l is woken.
LEMMA ResumeWakes ==
    ASSUME WaitInv, NEW l \in List, suspended[l] # <<>>, ListResume(l),
           UNCHANGED <<error, pc, object>>
    PROVE  /\ WaitInv'
           /\ \E h \in Waiting(l) :
                 /\ Leaves(h, l) /\ h \in Thread
                 /\ \A x : h \notin Arriving(x)
                 /\ \A x : Arriving(x)' = Arriving(x) \cup IF pc[h].at = x THEN {h} ELSE {}
<1>1. PICK h : h = Head(suspended[l])
  OBVIOUS
<1>2. Leaves(h, l)
  BY <1>1, ResumeLeaves DEF WaitInv
<1>3. PcOK'
  BY DEF WaitInv, PcOK
<1>4. WaitInv' /\ Waiters' = Waiters \ {h} /\ h \in Waiters
  BY <1>2, <1>3, LeaveKeeps
<1>5. h \in Thread /\ error[h] = "ok"
  BY <1>4, WaitersWait
<1>6. \A x : h \notin Arriving(x)
  BY <1>4 DEF Arriving
<1>7. \A x : Arriving(x)' = Arriving(x) \cup IF pc[h].at = x THEN {h} ELSE {}
  BY <1>4, <1>5 DEF Arriving
<1>8. h \in Waiting(l)
  BY <1>2 DEF Leaves
<1> QED BY <1>2, <1>4, <1>5, <1>6, <1>7, <1>8

-----------------------------------------------------------------------------
(* The semaphore.                                                           *)

SemInv ==
    /\ WaitInv
    /\ value \in 0 .. MaxValue
    /\ TokensConserved
    /\ SemNoLostWakeup
    /\ \A t \in Waiting(Receivers) : pc[t].at = "taking"

LEMMA WaitStarts == IpcInit => WaitInv /\ DetachInv /\ \A step : step # "run" => Arriving(step) = {}
<1> SUFFICES ASSUME IpcInit
             PROVE  WaitInv /\ DetachInv /\ \A step : step # "run" => Arriving(step) = {}
  OBVIOUS
<1>1. /\ suspended = [l \in List |-> <<>>] /\ error = [t \in Thread |-> "ok"] /\ timed = {}
      /\ pc = [t \in Thread |-> [at |-> "run", timeout |-> "none", arg |-> Nothing]]
      /\ object = "live"
  BY DEF IpcInit, Running
<1>2. Waiting(Receivers) = {} /\ Waiting(Senders) = {}
  BY <1>1 DEF Waiting, ToSet, List
<1>3. ListsOK
  BY <1>1, <1>2 DEF ListsOK, List, IsInjective
<1>4. [at |-> "run", timeout |-> "none", arg |-> Nothing] \in
          [at : Steps, timeout : Timeouts, arg : Args]
  BY DEF Steps, Timeouts, Args
<1>5. \A t \in Thread : pc[t].at = "run"
  BY <1>1
<1>6. PcOK
  BY <1>1, <1>4, <1>5 DEF PcOK
<1>7. WaitOK
  BY <1>1, <1>2 DEF WaitOK
<1>8. DetachInv
  BY <1>1, <1>5 DEF DetachInv, Detacher
<1>9. \A step : step # "run" => Arriving(step) = {}
  BY <1>5 DEF Arriving
<1> QED BY <1>3, <1>6, <1>7, <1>8, <1>9 DEF WaitInv

LEMMA SemStarts == IpcInit /\ SemInit => SemInv
<1> SUFFICES ASSUME IpcInit, SemInit PROVE SemInv
  OBVIOUS
<1>1. WaitInv /\ Arriving("taking") = {}
  BY WaitStarts
<1>2. suspended[Receivers] = <<>>
  BY DEF IpcInit, List
<1>3. Waiting(Receivers) = {}
  BY <1>2 DEF Waiting, ToSet
<1>4. value = 1 /\ balance = 1 /\ value \in 0 .. MaxValue
  BY SemAssumption DEF SemInit
<1>5. TokensConserved
  BY <1>1, <1>4, FS_EmptySet DEF TokensConserved
<1> QED BY <1>1, <1>2, <1>3, <1>4, <1>5 DEF SemInv, SemNoLostWakeup

\* A step that hands nothing to a waiter.
LEMMA SemQuiet ==
    ASSUME SemInv, WaitInv', Quiet, UNCHANGED semVars
    PROVE  SemInv'
<1>1. value' = value /\ balance' = balance
  BY DEF semVars
<1>2. Arriving("taking")' = Arriving("taking")
  BY DEF Quiet, ReceiverSteps
<1>3. Waiting(Receivers)' \subseteq Waiting(Receivers) /\ Waiting(Receivers) \subseteq Thread
  BY WaitersType DEF Quiet, List, SemInv, WaitInv
<1>4. \A t \in Waiting(Receivers)' : pc'[t].at = "taking"
  BY <1>3 DEF SemInv, Quiet, CallSteps, ReceiverSteps
<1>5. suspended'[Receivers] # <<>> => suspended[Receivers] # <<>>
  BY <1>3, EmptyList, EmptyListNext DEF SemInv, List
<1>6. TokensConserved'
  BY <1>1, <1>2 DEF SemInv, TokensConserved
<1>7. SemNoLostWakeup'
  BY <1>1, <1>5 DEF SemInv, SemNoLostWakeup
<1> QED BY <1>1, <1>4, <1>6, <1>7 DEF SemInv

LEMMA MaxValueType == MaxValue \in Nat /\ MaxValue >= 1
BY SemAssumption

LEMMA SemStep ==
    ASSUME SemInv, SemNext
    PROVE  SemInv'
<1>1. /\ WaitInv /\ value \in Nat /\ value <= MaxValue /\ MaxValue \in Nat
      /\ value + Cardinality(Arriving("taking")) = balance
      /\ Cardinality(Arriving("taking")) \in Nat /\ IsFiniteSet(Arriving("taking"))
      /\ \A t \in Waiting(Receivers) : pc[t].at = "taking"
      /\ (suspended[Receivers] # <<>> => value = 0)
      /\ Waiting(Receivers) \subseteq Thread
  BY ArrivingFinite, WaitersType, MaxValueType DEF SemInv, TokensConserved, SemNoLostWakeup, WaitInv
<1>2. "taking" \in ReceiverSteps \cup SenderSteps /\ "taking" \in ReceiverSteps
      /\ Receivers \in List /\ Nothing \in Args
  BY DEF ReceiverSteps, List, Args
<1>3. CASE SemTake
  <2>1. value > 0 /\ value' = value - 1 /\ balance' = balance - 1 /\ UNCHANGED ipcVars
    BY <1>3 DEF SemTake
  <2>2. UNCHANGED <<suspended, error, timed, pc, object>>
    BY <2>1 DEF ipcVars, waitVars
  <2>3. WaitInv' /\ Arriving("taking")' = Arriving("taking")
        /\ Waiting(Receivers)' = Waiting(Receivers)
    BY <1>1, <2>2 DEF WaitInv, ListsOK, PcOK, WaitOK, Arriving, Waiters, Waiting
  <2> QED BY <1>1, <2>1, <2>2, <2>3 DEF SemInv, TokensConserved, SemNoLostWakeup
<1>4. CASE SemRelease
  <2>1. UNCHANGED <<error, pc, object>> /\ balance' = balance + 1
    BY <1>4 DEF SemRelease
  <2>2. CASE suspended[Receivers] # <<>> /\ ListResume(Receivers) /\ UNCHANGED value
    <3>1. WaitInv'
      BY <1>1, <1>2, <2>1, <2>2, ResumeWakes
    <3>2. PICK h \in Waiting(Receivers) :
             /\ Leaves(h, Receivers) /\ h \in Thread
             /\ \A x : h \notin Arriving(x)
             /\ \A x : Arriving(x)' = Arriving(x) \cup IF pc[h].at = x THEN {h} ELSE {}
      BY <1>1, <1>2, <2>1, <2>2, ResumeWakes
    <3>3. /\ Arriving("taking")' = Arriving("taking") \cup {h}
          /\ h \notin Arriving("taking")
      BY <1>1, <3>2
    <3>4. Cardinality(Arriving("taking")') = Cardinality(Arriving("taking")) + 1
      BY <1>1, <3>3, OneMore
    <3>5. \A t \in Waiting(Receivers)' : pc'[t].at = "taking"
      BY <1>1, <2>1, <3>2 DEF Leaves
    <3>6. TokensConserved'
      BY <1>1, <2>1, <2>2, <3>4 DEF TokensConserved
    <3> QED BY <1>1, <2>2, <3>1, <3>5, <3>6 DEF SemInv, SemNoLostWakeup
  <2>3. CASE /\ suspended[Receivers] = <<>> /\ value < MaxValue /\ value' = value + 1
             /\ UNCHANGED <<suspended, timed>>
    <3>1. WaitInv' /\ Arriving("taking")' = Arriving("taking")
          /\ Waiting(Receivers)' = Waiting(Receivers)
      BY <1>1, <2>1, <2>3 DEF WaitInv, ListsOK, PcOK, WaitOK, Arriving, Waiters, Waiting
    <3> QED BY <1>1, <2>1, <2>3, <3>1 DEF SemInv, TokensConserved, SemNoLostWakeup
  <2> QED BY <1>4, <2>2, <2>3 DEF SemRelease
<1>5. CASE SemReset
  <2>1. /\ ListResumeAll /\ UNCHANGED <<pc, object>>
        /\ \E v \in 0 .. MaxValue :
              value' = v /\ balance' = v + Cardinality(Arriving("taking"))
    BY <1>5 DEF SemReset
  <2>2. WaitInv' /\ Quiet /\ Waiters' = {} /\ suspended' = [l \in List |-> <<>>]
    BY <1>1, <2>1, ResumeAllQuiet
  <2>3. Waiting(Receivers)' = {} /\ suspended'[Receivers] = <<>>
    BY <1>2, <2>2, WaitersAreNext
  <2>4. Arriving("taking")' = Arriving("taking")
    BY <1>2, <2>2 DEF Quiet
  <2> QED BY <1>1, <2>1, <2>2, <2>3, <2>4 DEF SemInv, TokensConserved, SemNoLostWakeup
<1>6. ASSUME NEW t \in Thread, SemTakeWaits(t) PROVE SemInv'
  <2>1. May(t) /\ value = 0 /\ UNCHANGED object /\ UNCHANGED <<value, balance>>
    BY <1>6 DEF SemTakeWaits, Blocks, semVars
  <2>2. PICK timeout \in {"ticks", "forever"} :
           Wait(t, Receivers, ListSuspend(t, Receivers), "taking", Nothing, timeout)
    BY <1>6 DEF SemTakeWaits, Blocks
  <2>3. t \notin Waiting(Receivers)
    BY <2>1, WaitersAre DEF May, At
  <2>4. PICK list \in Seq(Thread) : /\ list = ListSuspend(t, Receivers) /\ IsInjective(list)
                                    /\ ToSet(list) = Waiting(Receivers) \cup {t}
    BY <1>1, <1>2, <2>3, ListSuspendElements DEF WaitInv
  <2>5. Wait(t, Receivers, list, "taking", Nothing, timeout)
    BY <2>2, <2>4
  <2>6. /\ WaitInv' /\ Enters(t, Receivers) /\ pc'[t].at = "taking"
        /\ \A u \in Thread \ {t} : pc'[u] = pc[u] /\ error'[u] = error[u]
        /\ \A x \in ReceiverSteps \cup SenderSteps : Arriving(x)' = Arriving(x)
    BY <1>1, <1>2, <2>1, <2>4, <2>5, CallWaits
  <2>7. \A u \in Waiting(Receivers)' : pc'[u].at = "taking"
    BY <1>1, <2>6 DEF Enters
  <2> QED BY <1>1, <1>2, <2>1, <2>6, <2>7 DEF SemInv, TokensConserved, SemNoLostWakeup
<1>7. ASSUME NEW t \in Thread, SemTakeReturns(t) PROVE SemInv'
  <2>1. /\ Woken(t, "taking") /\ balance' = balance - 1 /\ Return(t) /\ value' = value
        /\ UNCHANGED <<suspended, timed, object>>
    BY <1>7 DEF SemTakeReturns
  <2>2. t \notin Waiters /\ t \in Arriving("taking")
    BY <2>1 DEF Woken, At, Arriving
  <2>3. /\ WaitInv' /\ pc'[t].at = "run"
        /\ \A u \in Thread \ {t} : pc'[u] = pc[u]
        /\ \A x \in ReceiverSteps \cup SenderSteps : Arriving(x)' = Arriving(x) \ {t}
    BY <1>1, <2>1, <2>2, CallReturns
  <2>4. Cardinality(Arriving("taking")') = Cardinality(Arriving("taking")) - 1
    BY <1>1, <1>2, <2>2, <2>3, OneLess
  <2>5. Waiting(Receivers)' = Waiting(Receivers) /\ t \notin Waiting(Receivers)
    BY <2>1, <2>2, WaitersAre DEF Waiting
  <2>6. \A u \in Waiting(Receivers)' : pc'[u].at = "taking"
    BY <1>1, <2>3, <2>5
  <2> QED BY <1>1, <2>1, <2>3, <2>4, <2>6 DEF SemInv, TokensConserved, SemNoLostWakeup
<1>8. ASSUME NEW t \in Thread, SemTakeFails(t) PROVE SemInv'
  <2>1. Fails(t, "taking") /\ UNCHANGED <<value, balance>>
    BY <1>8 DEF SemTakeFails, semVars
  <2>2. /\ WaitInv' /\ UNCHANGED <<suspended, timed, object>> /\ t \notin Waiters
        /\ \A u \in Thread \ {t} : pc'[u] = pc[u]
        /\ \A x \in ReceiverSteps \cup SenderSteps : Arriving(x)' = Arriving(x)
    BY <1>1, <1>2, <2>1, CallFails
  <2>3. Waiting(Receivers)' = Waiting(Receivers) /\ t \notin Waiting(Receivers)
    BY <2>2, WaitersAre DEF Waiting
  <2> QED BY <1>1, <1>2, <2>1, <2>2, <2>3 DEF SemInv, TokensConserved, SemNoLostWakeup
<1>9. ASSUME NEW t \in Thread, Timeout(t) \/ Removed(t), UNCHANGED semVars PROVE SemInv'
  <2>1. WaitInv' /\ Quiet
    BY <1>1, <1>9, TimeoutQuiet, RemovedQuiet
  <2> QED BY <1>9, <2>1, SemQuiet
<1> QED BY <1>3, <1>4, <1>5, <1>6, <1>7, <1>8, <1>9 DEF SemNext

LEMMA SemDetachStep ==
    ASSUME SemInv, DetachInv, ~BusyDetach, SemNext
    PROVE  DetachInv'
<1>1. WaitInv
  BY DEF SemInv
<1>2. CASE SemTake \/ SemRelease \/ SemReset
  <2>1. object = "live" /\ UNCHANGED <<pc, object>>
    BY <1>2 DEF SemTake, SemRelease, SemReset, ipcVars, waitVars
  <2> QED BY <2>1, LiveKeeps
<1>3. ASSUME NEW t \in Thread, SemTakeWaits(t) PROVE DetachInv'
  <2>1. /\ object = "live" /\ UNCHANGED object
        /\ \E timeout \in {"ticks", "forever"} :
              pc' = [pc EXCEPT ![t] = [at |-> "taking", timeout |-> timeout, arg |-> Nothing]]
    BY <1>3 DEF SemTakeWaits, Blocks, May, Wait
  <2>2. \A u \in Thread : pc'[u].at # pc[u].at => pc'[u].at = "taking"
    BY <1>1, <2>1 DEF WaitInv, PcOK
  <2> QED BY <2>1, <2>2, LiveKeeps DEF ReceiverSteps
<1>4. ASSUME NEW t \in Thread, SemTakeReturns(t) \/ SemTakeFails(t) PROVE DetachInv'
  <2>1. At(t, "taking") /\ Return(t) /\ UNCHANGED <<suspended, timed, object>>
    BY <1>4 DEF SemTakeReturns, SemTakeFails, Woken, Fails
  <2>2. t \notin Waiters /\ ~Detacher(t)
    BY <2>1 DEF At, Detacher
  <2> QED BY <1>1, <2>1, <2>2, ReturnKeeps
<1>5. ASSUME NEW t \in Thread, Timeout(t) \/ Removed(t) PROVE DetachInv'
  BY <1>1, <1>5, TimeoutKeeps, RemovedKeeps
<1> QED BY <1>2, <1>3, <1>4, <1>5 DEF SemNext

-----------------------------------------------------------------------------
(* The memory pool.                                                         *)

\* The blocks on the free list are in the pool, once each.
LEMMA SetToSeqElements ==
    ASSUME NEW S, IsFiniteSet(S)
    PROVE  /\ SetToSeq(S) \in Seq(S) /\ Len(SetToSeq(S)) = Cardinality(S)
           /\ IsInjective(SetToSeq(S)) /\ ToSet(SetToSeq(S)) = S
<1>1. Cardinality(S) \in Nat /\ ExistsBijection(1 .. Cardinality(S), S)
  BY FS_CardinalityType
<1>2. PICK n \in Nat : n = Cardinality(S)
  BY <1>1
<1>3. \E f \in [1 .. n -> S] : IsInjective(f)
  <2>1. PICK f \in Bijection(1 .. n, S) : TRUE
    BY <1>1, <1>2 DEF ExistsBijection
  <2>2. f \in [1 .. n -> S] /\ \A i, j \in 1 .. n : f[i] = f[j] => i = j
    BY <2>1 DEF Bijection, Injection, Surjection, IsInjective
  <2> QED BY <2>2 DEF IsInjective
<1>4. PICK q : q = SetToSeq(S)
  OBVIOUS
<1>5. q \in [1 .. n -> S] /\ IsInjective(q)
  BY <1>2, <1>3, <1>4 DEF SetToSeq
<1>6. q \in Seq(S) /\ Len(q) = n /\ DOMAIN q = 1 .. n
  BY <1>5
<1>7. q \in Injection(1 .. n, S)
  BY <1>5 DEF Injection, IsInjective
<1>8. IsFiniteSet(1 .. n) /\ Cardinality(1 .. n) = n
  BY FS_Interval
<1>9. q \in Surjection(1 .. n, S)
  BY <1>2, <1>7, <1>8, FS_Injection
<1>10. ToSet(q) = S
  BY <1>5, <1>6, <1>9 DEF Surjection, ToSet
<1> QED BY <1>2, <1>4, <1>5, <1>6, <1>10

\* What is true of the blocks alone.
BlocksOK ==
    /\ block_list \in Seq(Block) /\ allocated \subseteq Block
    /\ BlocksConserved

LEMMA TakeBlockKeeps ==
    ASSUME BlocksOK, TakeBlock
    PROVE  /\ BlocksOK' /\ block_free_count \in Nat /\ block_free_count > 0
           /\ block_free_count' = block_free_count - 1
<1>1. PICK q \in Seq(Block) : q = block_list
  BY DEF BlocksOK
<1>2. /\ block_free_count = Len(q) /\ IsInjective(q) /\ ToSet(q) \cap allocated = {}
      /\ ToSet(q) \cup allocated = Block /\ allocated \subseteq Block
  BY <1>1 DEF BlocksOK, BlocksConserved
<1>3. /\ block_free_count > 0 /\ block_free_count' = block_free_count - 1
      /\ block_list' = Tail(q) /\ allocated' = allocated \cup {Head(q)}
  BY <1>1 DEF TakeBlock
<1>4. q # <<>> /\ Len(q) \in Nat /\ Len(Tail(q)) = Len(q) - 1
  BY <1>2, <1>3, LenProperties, HeadTailProperties
<1>5. /\ Tail(q) \in Seq(Block) /\ Head(q) \in ToSet(q) /\ IsInjective(Tail(q))
      /\ ToSet(Tail(q)) = ToSet(q) \ {Head(q)}
  BY <1>2, <1>4, TailElements
<1>6. BlocksConserved'
  BY <1>2, <1>3, <1>4, <1>5 DEF BlocksConserved
<1> QED BY <1>2, <1>3, <1>4, <1>5, <1>6 DEF BlocksOK

LEMMA FreeBlockKeeps ==
    ASSUME BlocksOK, NEW b \in allocated, block_free_count' = block_free_count + 1,
           block_list' = Push(block_list, b), allocated' = allocated \ {b}
    PROVE  BlocksOK' /\ block_free_count \in Nat
<1>1. PICK q \in Seq(Block) : q = block_list
  BY DEF BlocksOK
<1>2. /\ block_free_count = Len(q) /\ IsInjective(q) /\ ToSet(q) \cap allocated = {}
      /\ ToSet(q) \cup allocated = Block /\ allocated \subseteq Block
  BY <1>1 DEF BlocksOK, BlocksConserved
<1>3. b \in Block /\ b \notin ToSet(q)
  BY <1>2
<1>4. /\ Push(q, b) \in Seq(Block) /\ ToSet(Push(q, b)) = ToSet(q) \cup {b}
      /\ IsInjective(Push(q, b))
  BY <1>2, <1>3, PushElements
<1>5. Len(Push(q, b)) = Len(q) + 1 /\ Len(q) \in Nat
  <2>1. <<b>> \in Seq(Block) /\ Len(<<b>>) = 1 /\ Len(q) \in Nat
    BY <1>3, LenProperties
  <2>2. Len(<<b>> \o q) = Len(<<b>>) + Len(q)
    BY <2>1, ConcatProperties
  <2> QED BY <2>1, <2>2 DEF Push
<1>6. BlocksConserved'
  BY <1>1, <1>2, <1>3, <1>4, <1>5 DEF BlocksConserved
<1> QED BY <1>1, <1>2, <1>4, <1>5, <1>6 DEF BlocksOK

\* Only threads that allocate wait, and suspend_thread_count is no less than they are.
PoolWaitOK ==
    /\ WaitInv
    /\ Waiting(Senders) = {}
    /\ \A t \in Waiting(Receivers) : pc[t].at = "allocating"
    /\ suspend_thread_count \in 0 .. MaxWaits
    /\ Cardinality(Waiting(Receivers)) <= suspend_thread_count

PoolInv == PoolWaitOK /\ BlocksOK /\ PoolNoLostWakeup

LEMMA PoolFacts ==
    ASSUME PoolInv
    PROVE  /\ WaitInv /\ Waiting(Senders) = {} /\ Waiting(Receivers) \subseteq Thread
           /\ Waiters = Waiting(Receivers)
           /\ \A t \in Waiting(Receivers) : pc[t].at = "allocating"
           /\ suspend_thread_count \in Nat /\ suspend_thread_count <= MaxWaits /\ MaxWaits \in Nat
           /\ Cardinality(Waiting(Receivers)) \in Nat /\ IsFiniteSet(Waiting(Receivers))
           /\ Cardinality(Waiting(Receivers)) <= suspend_thread_count
           /\ block_free_count \in Nat /\ BlocksOK
           /\ Cardinality(Arriving("allocating")) \in Nat /\ IsFiniteSet(Arriving("allocating"))
           /\ (Waiting(Receivers) # {} =>
                  block_free_count <= Cardinality(Arriving("allocating")))
<1>1. WaitInv /\ Waiting(Receivers) \subseteq Thread
  BY WaitersType DEF PoolInv, PoolWaitOK, WaitInv
<1>2. Waiting(Receivers) \in SUBSET Thread /\ IsFiniteSet(Thread)
  BY <1>1, IpcAssumption
<1>3. IsFiniteSet(Waiting(Receivers))
  BY ONLY <1>2, FS_Subset
<1>4. Cardinality(Waiting(Receivers)) \in Nat
  BY ONLY <1>3, FS_CardinalityType
<1>5. block_free_count \in Nat
  BY LenProperties DEF PoolInv, BlocksOK, BlocksConserved
<1>6. Waiters = Waiting(Receivers)
  BY WaitersAre DEF PoolInv, PoolWaitOK
<1>7. Waiting(Receivers) # {} => block_free_count <= Cardinality(Arriving("allocating"))
  BY <1>1, EmptyList DEF PoolInv, PoolNoLostWakeup, List
<1>8. suspend_thread_count \in Nat /\ suspend_thread_count <= MaxWaits /\ MaxWaits \in Nat
  BY PoolAssumption DEF PoolInv, PoolWaitOK
<1> QED BY <1>1, <1>3, <1>4, <1>5, <1>6, <1>7, <1>8, ArrivingFinite DEF PoolInv, PoolWaitOK

\* How the invariant is put together after a step.
LEMMA PoolMakes ==
    ASSUME WaitInv', Waiting(Senders)' = {}, BlocksOK',
           \A t \in Waiting(Receivers)' : pc'[t].at = "allocating",
           suspend_thread_count' \in Nat, suspend_thread_count' <= MaxWaits,
           Cardinality(Waiting(Receivers)') <= suspend_thread_count',
           Waiting(Receivers)' # {} =>
               block_free_count' <= Cardinality(Arriving("allocating")')
    PROVE  PoolInv'
<1>1. MaxWaits \in Nat
  BY PoolAssumption
<1>2. PoolNoLostWakeup'
  BY EmptyListNext DEF PoolNoLostWakeup, List
<1>3. PoolWaitOK'
  BY <1>1 DEF PoolWaitOK
<1> QED BY <1>2, <1>3 DEF PoolInv

LEMMA PoolStarts == IpcInit /\ PoolInit => PoolInv
<1> SUFFICES ASSUME IpcInit, PoolInit PROVE PoolInv
  OBVIOUS
<1>1. WaitInv /\ Arriving("allocating") = {}
  BY WaitStarts
<1>2. suspended[Receivers] = <<>> /\ suspended[Senders] = <<>>
  BY DEF IpcInit, List
<1>3. Waiting(Receivers) = {} /\ Waiting(Senders) = {}
  BY <1>2 DEF Waiting, ToSet
<1>4. /\ block_list \in Seq(Block) /\ Len(block_list) = Cardinality(Block)
      /\ IsInjective(block_list) /\ ToSet(block_list) = Block
  BY PoolAssumption, SetToSeqElements DEF PoolInit
<1>5. BlocksOK
  BY <1>4 DEF BlocksOK, BlocksConserved, PoolInit
<1>6. suspend_thread_count = 0 /\ MaxWaits \in Nat
  BY PoolAssumption DEF PoolInit
<1>7. PoolWaitOK
  BY <1>1, <1>3, <1>6, FS_EmptySet DEF PoolWaitOK
<1> QED BY <1>2, <1>5, <1>7 DEF PoolInv, PoolNoLostWakeup

\* A step that hands nothing to a waiter; perhaps it counts one less.
LEMMA PoolQuiet ==
    ASSUME PoolInv, WaitInv', Quiet, UNCHANGED <<block_list, block_free_count, allocated>>,
           suspend_thread_count' \in Nat, suspend_thread_count' <= suspend_thread_count,
           Cardinality(Waiting(Receivers)') <= suspend_thread_count'
    PROVE  PoolInv'
<1>1. Arriving("allocating")' = Arriving("allocating")
  BY DEF Quiet, ReceiverSteps
<1>2. /\ Waiting(Receivers)' \subseteq Waiting(Receivers)
      /\ Waiting(Senders)' \subseteq Waiting(Senders)
  BY DEF Quiet, List
<1>3. \A t \in Waiting(Receivers)' : pc'[t].at = "allocating"
  BY <1>2, PoolFacts DEF Quiet, CallSteps, ReceiverSteps
<1>4. BlocksOK'
  BY PoolFacts DEF BlocksOK, BlocksConserved
<1>5. suspend_thread_count' <= MaxWaits
  BY PoolFacts
<1> QED BY <1>1, <1>2, <1>3, <1>4, <1>5, PoolFacts, PoolMakes

LEMMA FewerWaiters ==
    ASSUME PoolInv, WaitInv', Quiet
    PROVE  Cardinality(Waiting(Receivers)') <= Cardinality(Waiting(Receivers))
<1>1. PICK S, T : S = Waiting(Receivers) /\ T = Waiting(Receivers)'
  OBVIOUS
<1>2. T \in SUBSET S /\ IsFiniteSet(S)
  BY <1>1, PoolFacts DEF Quiet, List
<1>3. Cardinality(T) <= Cardinality(S)
  BY ONLY <1>2, FS_Subset
<1> QED BY <1>1, <1>3

\* A thread waits for a block, in front of the others.
LEMMA PoolWaitStep ==
    ASSUME PoolInv, NEW t \in Thread, t \notin Waiters, WaitInv', Enters(t, Receivers),
           pc'[t].at = "allocating", \A u \in Thread \ {t} : pc'[u] = pc[u],
           suspend_thread_count < MaxWaits, suspend_thread_count' = suspend_thread_count + 1,
           block_free_count = 0, UNCHANGED <<block_list, block_free_count, allocated>>
    PROVE  PoolInv'
<1>1. Waiting(Receivers)' = Waiting(Receivers) \cup {t} /\ suspended'[Senders] = suspended[Senders]
  BY DEF Enters, List, Receivers, Senders
<1>2. Waiting(Senders)' = {}
  BY <1>1, PoolFacts DEF Waiting
<1>3. t \notin Waiting(Receivers) /\ IsFiniteSet(Waiting(Receivers))
  BY PoolFacts
<1>4. Cardinality(Waiting(Receivers)') = Cardinality(Waiting(Receivers)) + 1
  BY <1>1, <1>3, OneMore
<1>5. \A u \in Waiting(Receivers)' : pc'[u].at = "allocating"
  BY <1>1, PoolFacts
<1>6. BlocksOK'
  BY PoolFacts DEF BlocksOK, BlocksConserved
<1>7. /\ suspend_thread_count' \in Nat /\ suspend_thread_count' <= MaxWaits
      /\ Cardinality(Waiting(Receivers)') <= suspend_thread_count'
  BY <1>4, PoolFacts
<1>8. block_free_count' <= Cardinality(Arriving("allocating")')
  <2>1. IsFiniteSet(Arriving("allocating")')
    <3>1. Arriving("allocating")' \in SUBSET Thread /\ IsFiniteSet(Thread)
      BY IpcAssumption DEF Arriving
    <3> QED BY ONLY <3>1, FS_Subset
  <2>2. Cardinality(Arriving("allocating")') \in Nat
    BY ONLY <2>1, FS_CardinalityType
  <2> QED BY <2>2
<1> QED BY <1>2, <1>5, <1>6, <1>7, <1>8, PoolMakes

\* A waiting thread is given a block that is freed.
LEMMA PoolFreeStep ==
    ASSUME PoolInv, NEW b \in Block, PoolFree(b)
    PROVE  PoolInv'
<1>1. /\ b \in allocated /\ block_free_count' = block_free_count + 1
      /\ block_list' = Push(block_list, b) /\ allocated' = allocated \ {b}
      /\ UNCHANGED <<pc, object>>
  BY DEF PoolFree
<1>2. BlocksOK'
  BY <1>1, FreeBlockKeeps DEF PoolInv
<1>3. Receivers \in List
  BY DEF List
<1>4. CASE /\ suspend_thread_count > 0 /\ suspended[Receivers] # <<>>
           /\ error' = [error EXCEPT ![Head(suspended[Receivers])] = "ok"]
           /\ ListResume(Receivers)
           /\ suspend_thread_count' = suspend_thread_count - 1
  <2>1. error' = error
    <3>1. Leaves(Head(suspended[Receivers]), Receivers)
      BY <1>3, <1>4, PoolFacts, ResumeLeaves DEF WaitInv
    <3>2. Head(suspended[Receivers]) \in Waiters
      BY <3>1, PoolFacts DEF Leaves
    <3>3. error[Head(suspended[Receivers])] = "ok"
      BY <3>2, PoolFacts, WaitersWait
    <3> QED BY <1>4, <3>3, PoolFacts DEF WaitInv, PcOK
  <2>2. WaitInv'
    BY <1>1, <1>3, <1>4, <2>1, PoolFacts, ResumeWakes
  <2>3. PICK h \in Waiting(Receivers) :
           /\ Leaves(h, Receivers) /\ h \in Thread
           /\ \A x : h \notin Arriving(x)
           /\ \A x : Arriving(x)' = Arriving(x) \cup IF pc[h].at = x THEN {h} ELSE {}
    BY <1>1, <1>3, <1>4, <2>1, PoolFacts, ResumeWakes
  <2>4. /\ Arriving("allocating")' = Arriving("allocating") \cup {h}
        /\ h \notin Arriving("allocating")
    BY <2>3, PoolFacts
  <2>5. Cardinality(Arriving("allocating")') = Cardinality(Arriving("allocating")) + 1
    BY <2>4, PoolFacts, OneMore
  <2>6. Waiting(Receivers)' = Waiting(Receivers) \ {h} /\ suspended'[Senders] = suspended[Senders]
    BY <2>3 DEF Leaves, List, Receivers, Senders
  <2>7. Cardinality(Waiting(Receivers)') = Cardinality(Waiting(Receivers)) - 1
    BY <2>3, <2>6, PoolFacts, OneLess
  <2>8. Waiting(Senders)' = {}
    BY <2>6, PoolFacts DEF Waiting
  <2>9. \A u \in Waiting(Receivers)' : pc'[u].at = "allocating"
    BY <1>1, <2>6, PoolFacts
  <2>10. /\ suspend_thread_count' \in Nat /\ suspend_thread_count' <= MaxWaits
         /\ Cardinality(Waiting(Receivers)') <= suspend_thread_count'
    BY <1>4, <2>7, PoolFacts
  <2>11. block_free_count' <= Cardinality(Arriving("allocating")')
    BY <1>1, <2>3, <2>5, PoolFacts
  <2> QED BY <1>2, <2>2, <2>8, <2>9, <2>10, <2>11, PoolMakes
<1>5. CASE suspend_thread_count = 0 /\ UNCHANGED <<suspended, timed, error, suspend_thread_count>>
  <2>1. Waiting(Receivers) = {}
    <3>1. Cardinality(Waiting(Receivers)) = 0 /\ IsFiniteSet(Waiting(Receivers))
      BY <1>5, PoolFacts
    <3> QED BY ONLY <3>1, FS_EmptySet
  <2>2. /\ WaitInv' /\ Waiting(Receivers)' = {} /\ Waiting(Senders)' = {}
    BY <1>1, <1>5, <2>1, PoolFacts DEF WaitInv, ListsOK, PcOK, WaitOK, Waiting
  <2>3. Cardinality(Waiting(Receivers)') <= suspend_thread_count'
    BY <1>5, <2>2, FS_EmptySet
  <2> QED BY <1>2, <1>5, <2>2, <2>3, PoolFacts, PoolMakes
<1> QED BY <1>4, <1>5 DEF PoolFree

\* A block is taken by a call that need not wait, or by a thread that was woken.
LEMMA PoolTakeStep ==
    ASSUME PoolInv, TakeBlock, WaitInv', UNCHANGED suspended,
           \A u \in Waiters : pc'[u] = pc[u],
           Cardinality(Arriving("allocating")') + 1 >= Cardinality(Arriving("allocating")),
           Cardinality(Arriving("allocating")') \in Nat
    PROVE  PoolInv'
<1>1. /\ BlocksOK' /\ block_free_count' = block_free_count - 1
      /\ suspend_thread_count' = suspend_thread_count
  BY TakeBlockKeeps DEF PoolInv, TakeBlock
<1>2. Waiting(Receivers)' = Waiting(Receivers) /\ Waiting(Senders)' = Waiting(Senders)
  BY DEF Waiting
<1>3. \A u \in Waiting(Receivers)' : pc'[u].at = "allocating"
  BY <1>2, PoolFacts
<1> QED BY <1>1, <1>2, <1>3, PoolFacts, PoolMakes

LEMMA PoolStep ==
    ASSUME PoolInv, PoolNext
    PROVE  PoolInv'
<1>1. /\ "allocating" \in ReceiverSteps \cup SenderSteps /\ "allocating" \in ReceiverSteps
      /\ Receivers \in List /\ Nothing \in Args
  BY DEF ReceiverSteps, List, Args
<1>2. CASE PoolAlloc
  <2>1. TakeBlock /\ UNCHANGED <<suspended, error, timed, pc, object>>
    BY <1>2 DEF PoolAlloc, ipcVars, waitVars
  <2>2. WaitInv' /\ Arriving("allocating")' = Arriving("allocating")
    BY <2>1, PoolFacts DEF WaitInv, ListsOK, PcOK, WaitOK, Arriving, Waiters, Waiting
  <2> QED BY <2>1, <2>2, PoolFacts, PoolTakeStep
<1>3. ASSUME NEW t \in Thread, PoolAllocWaits(t) PROVE PoolInv'
  <2>1. /\ May(t) /\ block_free_count = 0 /\ UNCHANGED object
        /\ suspend_thread_count < MaxWaits /\ suspend_thread_count' = suspend_thread_count + 1
        /\ UNCHANGED <<block_list, block_free_count, allocated>>
    BY <1>3 DEF PoolAllocWaits, Blocks
  <2>2. PICK timeout \in {"ticks", "forever"} :
           Wait(t, Receivers, Push(suspended[Receivers], t), "allocating", Nothing, timeout)
    BY <1>3 DEF PoolAllocWaits, Blocks
  <2>3. t \notin Waiters
    BY <2>1 DEF May, At
  <2>4. suspended[Receivers] \in Seq(Thread) /\ IsInjective(suspended[Receivers])
        /\ t \notin ToSet(suspended[Receivers])
    BY <1>1, <2>3, PoolFacts DEF WaitInv, ListsOK, Waiting
  <2>5. PICK list \in Seq(Thread) : /\ list = Push(suspended[Receivers], t) /\ IsInjective(list)
                                    /\ ToSet(list) = Waiting(Receivers) \cup {t}
    BY <2>4, PushElements DEF Waiting
  <2>6. Wait(t, Receivers, list, "allocating", Nothing, timeout)
    BY <2>2, <2>5
  <2>7. /\ WaitInv' /\ Enters(t, Receivers) /\ pc'[t].at = "allocating"
        /\ \A u \in Thread \ {t} : pc'[u] = pc[u]
    BY <1>1, <2>1, <2>5, <2>6, PoolFacts, CallWaits
  <2> QED BY <2>1, <2>3, <2>7, PoolWaitStep
<1>4. ASSUME NEW t \in Thread, PoolAllocWaitsAgain(t) PROVE PoolInv'
  <2>1. /\ Woken(t, "allocating") /\ block_free_count = 0 /\ UNCHANGED object
        /\ suspend_thread_count < MaxWaits
        /\ suspend_thread_count' = suspend_thread_count + IF t \in Waiters' THEN 1 ELSE 0
        /\ UNCHANGED <<block_list, block_free_count, allocated>>
    BY <1>4 DEF PoolAllocWaitsAgain, BlocksAgain
  <2>2. t \notin Waiters
    BY <2>1 DEF Woken, At
  <2>3. CASE Return(t) /\ UNCHANGED <<suspended, timed>>
    <3>1. /\ WaitInv' /\ Waiters' = Waiters
          /\ \A u \in Thread \ {t} : pc'[u] = pc[u]
      BY <2>1, <2>2, <2>3, PoolFacts, CallReturns
    <3>2. Waiting(Receivers)' = Waiting(Receivers) /\ Waiting(Senders)' = Waiting(Senders)
      BY <2>3 DEF Waiting
    <3>3. suspend_thread_count' = suspend_thread_count
      BY <2>1, <2>2, <3>1, PoolFacts
    <3>4. \A u \in Waiting(Receivers)' : pc'[u].at = "allocating"
      BY <2>2, <3>1, <3>2, PoolFacts
    <3>5. BlocksOK'
      BY <2>1, PoolFacts DEF BlocksOK, BlocksConserved
    <3>6. Arriving("allocating")' \in SUBSET Thread /\ IsFiniteSet(Thread)
      BY IpcAssumption DEF Arriving
    <3>7. Cardinality(Arriving("allocating")') \in Nat
      BY ONLY <3>6, FS_Subset, FS_CardinalityType
    <3> QED BY <2>1, <3>1, <3>2, <3>3, <3>4, <3>5, <3>7, PoolFacts, PoolMakes
  <2>4. CASE \E left \in Left(t) : left # "none" /\
                Wait(t, Receivers, Push(suspended[Receivers], t), "allocating", pc[t].arg, left)
    <3>1. pc[t].timeout \in Timeouts /\ pc[t].arg \in Args
      BY PoolFacts DEF WaitInv, PcOK
    <3>2. PICK timeout \in {"ticks", "forever"} :
             Wait(t, Receivers, Push(suspended[Receivers], t), "allocating", pc[t].arg, timeout)
      BY <2>4, <3>1 DEF Left, Timeouts
    <3>3. suspended[Receivers] \in Seq(Thread) /\ IsInjective(suspended[Receivers])
          /\ t \notin ToSet(suspended[Receivers])
      BY <1>1, <2>2, PoolFacts DEF WaitInv, ListsOK, Waiting
    <3>4. PICK list \in Seq(Thread) : /\ list = Push(suspended[Receivers], t)
                                      /\ IsInjective(list)
                                      /\ ToSet(list) = Waiting(Receivers) \cup {t}
      BY <3>3, PushElements DEF Waiting
    <3>5. PICK arg \in Args : arg = pc[t].arg
      BY <3>1
    <3>6. Wait(t, Receivers, list, "allocating", arg, timeout)
      BY <3>2, <3>4, <3>5
    <3>7. /\ WaitInv' /\ Enters(t, Receivers) /\ pc'[t].at = "allocating"
          /\ Waiters' = Waiters \cup {t} /\ \A u \in Thread \ {t} : pc'[u] = pc[u]
      BY <1>1, <2>1, <3>4, <3>6, PoolFacts, WaitsAgain
    <3>8. suspend_thread_count' = suspend_thread_count + 1
      BY <2>1, <3>7
    <3> QED BY <2>1, <2>2, <3>7, <3>8, PoolWaitStep
  <2> QED BY <1>4, <2>3, <2>4 DEF PoolAllocWaitsAgain, BlocksAgain
<1>5. ASSUME NEW t \in Thread, PoolAllocReturns(t) PROVE PoolInv'
  <2>1. /\ Woken(t, "allocating") /\ TakeBlock /\ Return(t)
        /\ UNCHANGED <<suspended, timed, object>>
    BY <1>5 DEF PoolAllocReturns
  <2>2. t \notin Waiters /\ t \in Arriving("allocating")
    BY <2>1 DEF Woken, At, Arriving
  <2>3. /\ WaitInv' /\ \A u \in Thread \ {t} : pc'[u] = pc[u]
        /\ \A x \in ReceiverSteps \cup SenderSteps : Arriving(x)' = Arriving(x) \ {t}
    BY <2>1, <2>2, PoolFacts, CallReturns
  <2>4. /\ Cardinality(Arriving("allocating")') = Cardinality(Arriving("allocating")) - 1
    BY <1>1, <2>2, <2>3, PoolFacts, OneLess
  <2>5. Arriving("allocating") # {} /\ IsFiniteSet(Arriving("allocating"))
    BY <2>2, PoolFacts
  <2>6. Cardinality(Arriving("allocating")) # 0
    BY ONLY <2>5, FS_EmptySet
  <2>7. \A u \in Waiters : pc'[u] = pc[u]
    BY <2>2, <2>3, PoolFacts
  <2>8. /\ Cardinality(Arriving("allocating")') \in Nat
        /\ Cardinality(Arriving("allocating")') + 1 >= Cardinality(Arriving("allocating"))
    BY <2>4, <2>6, PoolFacts
  <2> QED BY <2>1, <2>3, <2>7, <2>8, PoolTakeStep
<1>6. ASSUME NEW t \in Thread, PoolAllocFails(t) PROVE PoolInv'
  <2>1. /\ Fails(t, "allocating")
        /\ UNCHANGED <<block_list, block_free_count, suspend_thread_count, allocated>>
    BY <1>6 DEF PoolAllocFails, poolVars
  <2>2. /\ WaitInv' /\ UNCHANGED <<suspended, timed, object>> /\ t \notin Waiters
        /\ \A u \in Thread \ {t} : pc'[u] = pc[u]
        /\ \A x \in ReceiverSteps \cup SenderSteps : Arriving(x)' = Arriving(x)
    BY <1>1, <2>1, PoolFacts, CallFails
  <2>3. Waiting(Receivers)' = Waiting(Receivers) /\ Waiting(Senders)' = Waiting(Senders)
    BY <2>2 DEF Waiting
  <2>4. \A u \in Waiting(Receivers)' : pc'[u].at = "allocating"
    BY <2>2, <2>3, PoolFacts
  <2>5. BlocksOK' /\ Arriving("allocating")' = Arriving("allocating")
    BY <1>1, <2>1, <2>2, PoolFacts DEF BlocksOK, BlocksConserved
  <2> QED BY <2>1, <2>2, <2>3, <2>4, <2>5, PoolFacts, PoolMakes
<1>7. ASSUME NEW t \in Thread,
             Timeout(t) \/ Detach(t, "detaching") \/ DetachTest(t) \/ DetachEnds(t, "gone"),
             UNCHANGED poolVars
      PROVE  PoolInv'
  <2>1. WaitInv' /\ Quiet
    BY <1>7, PoolFacts, TimeoutQuiet, DetachStarts, DetachTests, DetachEnding
  <2>2. UNCHANGED <<block_list, block_free_count, suspend_thread_count, allocated>>
    BY <1>7 DEF poolVars
  <2>3. Waiting(Receivers)' \subseteq Waiting(Receivers)
    BY <2>1 DEF Quiet, List
  <2>4. Cardinality(Waiting(Receivers)') <= Cardinality(Waiting(Receivers))
    BY <2>1, FewerWaiters
  <2>5. IsFiniteSet(Waiting(Receivers)') /\ Cardinality(Waiting(Receivers)') \in Nat
    <3>1. Waiting(Receivers)' \in SUBSET Waiting(Receivers) /\ IsFiniteSet(Waiting(Receivers))
      BY <2>3, PoolFacts
    <3> QED BY ONLY <3>1, FS_Subset, FS_CardinalityType
  <2>6. Cardinality(Waiting(Receivers)') <= suspend_thread_count'
    BY <2>2, <2>4, <2>5, PoolFacts
  <2> QED BY <2>1, <2>2, <2>6, PoolFacts, PoolQuiet
<1>8. ASSUME NEW t \in Thread, DetachResume(t),
             suspend_thread_count' = suspend_thread_count - 1,
             UNCHANGED <<block_list, block_free_count, allocated>>
      PROVE  PoolInv'
  <2>1. WaitInv' /\ Quiet /\ pc[t].arg \in List
    BY <1>8, PoolFacts, DetachResumes
  <2>2. PICK l \in List : \E h \in Waiting(l) : Leaves(h, l)
    BY <1>8, PoolFacts, DetachResumes
  <2>3. l = Receivers
    BY <2>2, PoolFacts DEF List
  <2>4. PICK h \in Waiting(Receivers) : Waiting(Receivers)' = Waiting(Receivers) \ {h}
    BY <2>2, <2>3 DEF Leaves
  <2>5. Cardinality(Waiting(Receivers)') = Cardinality(Waiting(Receivers)) - 1
    BY <2>4, PoolFacts, OneLess
  <2>6. Waiting(Receivers) # {} /\ IsFiniteSet(Waiting(Receivers))
    BY <2>4, PoolFacts
  <2>7. Cardinality(Waiting(Receivers)) # 0
    BY ONLY <2>6, FS_EmptySet
  <2>8. /\ suspend_thread_count' \in Nat /\ suspend_thread_count' <= suspend_thread_count
        /\ Cardinality(Waiting(Receivers)') <= suspend_thread_count'
    BY <1>8, <2>5, <2>7, PoolFacts
  <2> QED BY <1>8, <2>1, <2>8, PoolQuiet
<1> QED BY <1>2, <1>3, <1>4, <1>5, <1>6, <1>7, <1>8, PoolFreeStep DEF PoolNext, PoolDetach

LEMMA PoolDetachStep ==
    ASSUME PoolInv, DetachInv, ~BusyDetach, PoolNext
    PROVE  DetachInv'
<1>1. WaitInv
  BY PoolFacts
<1>2. ASSUME PoolAlloc \/ \E b \in Block : PoolFree(b) PROVE DetachInv'
  <2>1. object = "live" /\ UNCHANGED <<pc, object>>
    BY <1>2 DEF PoolAlloc, PoolFree, ipcVars, waitVars
  <2> QED BY <2>1, LiveKeeps
<1>3. ASSUME NEW t \in Thread, PoolAllocWaits(t) \/ PoolAllocWaitsAgain(t) PROVE DetachInv'
  <2>1. "allocating" \in ReceiverSteps \cup SenderSteps
    BY DEF ReceiverSteps
  <2>2. object = "live" /\ UNCHANGED object
    BY <1>1, <1>3, <2>1, NobodyWoken
       DEF PoolAllocWaits, PoolAllocWaitsAgain, Blocks, BlocksAgain, May
  <2>3. \/ pc' = [pc EXCEPT ![t] = Running]
        \/ \E timeout, arg : pc' = [pc EXCEPT ![t] =
              [at |-> "allocating", timeout |-> timeout, arg |-> arg]]
    BY <1>3 DEF PoolAllocWaits, PoolAllocWaitsAgain, Blocks, BlocksAgain, Wait, Return
  <2>4. \A u \in Thread : pc'[u].at # pc[u].at => pc'[u].at \in {"allocating", "run"}
    BY <1>1, <2>3 DEF WaitInv, PcOK, Running
  <2> QED BY <2>2, <2>4, LiveKeeps DEF ReceiverSteps
<1>4. ASSUME NEW t \in Thread, PoolAllocReturns(t) \/ PoolAllocFails(t) PROVE DetachInv'
  <2>1. At(t, "allocating") /\ Return(t) /\ UNCHANGED <<suspended, timed, object>>
    BY <1>4 DEF PoolAllocReturns, PoolAllocFails, Woken, Fails
  <2>2. t \notin Waiters /\ ~Detacher(t)
    BY <2>1 DEF At, Detacher
  <2> QED BY <1>1, <2>1, <2>2, ReturnKeeps
<1>5. ASSUME NEW t \in Thread, Timeout(t) \/ PoolDetach(t) PROVE DetachInv'
  BY <1>1, <1>5, TimeoutKeeps, RemovedKeeps DEF PoolDetach, Removed
<1> QED BY <1>2, <1>3, <1>4, <1>5 DEF PoolNext

-----------------------------------------------------------------------------
(* The mailbox, as a ring.                                                  *)

\* The place of the ring that is k behind out_offset.
Place(k) == IF out_offset + k < MbSize THEN out_offset + k ELSE out_offset + k - MbSize

RingTypeOK ==
    /\ msg_pool \in [0 .. MbSize - 1 -> Value \cup {Nothing}]
    /\ entry \in Nat /\ entry <= MbSize
    /\ in_offset \in Nat /\ in_offset < MbSize
    /\ out_offset \in Nat /\ out_offset < MbSize

RingOK ==
    /\ RingTypeOK
    /\ in_offset = Place(entry)
    /\ \A k \in Nat : k < entry => msg_pool[Place(k)] \in Value

LEMMA WrapAround ==
    ASSUME NEW n \in Nat, n > 0, NEW x \in Nat, x < 2 * n
    PROVE  x % n = IF x < n THEN x ELSE x - n
OBVIOUS

LEMMA PlaceOf ==
    ASSUME RingTypeOK, NEW k \in Nat, k <= MbSize
    PROVE  (out_offset + k) % MbSize = Place(k) /\ Place(k) \in Nat /\ Place(k) < MbSize
<1>1. MbSize \in Nat /\ MbSize > 0 /\ out_offset \in Nat /\ out_offset < MbSize
  BY MbAssumption DEF RingTypeOK
<1>2. PICK n \in Nat : n = MbSize
  BY <1>1
<1>3. PICK x \in Nat : x = out_offset + k
  BY <1>1
<1>4. x % n = IF x < n THEN x ELSE x - n
  <2>1. n > 0 /\ x < 2 * n
    BY <1>1, <1>2, <1>3
  <2> QED BY ONLY <2>1, n \in Nat, x \in Nat, WrapAround
<1> QED BY <1>1, <1>2, <1>3, <1>4 DEF Place

MailsOK ==
    /\ Mails \in Seq(Value) /\ Len(Mails) = entry /\ DOMAIN Mails = 1 .. entry
    /\ \A i \in 1 .. entry : Mails[i] = msg_pool[Place(i - 1)]

LEMMA MailsAre == RingOK => MailsOK
<1> SUFFICES ASSUME RingOK PROVE MailsOK
  OBVIOUS
<1>1. entry \in Nat /\ entry <= MbSize /\ MbSize \in Nat
  BY MbAssumption DEF RingOK, RingTypeOK
<1>2. \A i \in 1 .. entry : i - 1 \in Nat /\ i - 1 < entry /\ i - 1 <= MbSize
                            /\ out_offset + i - 1 = out_offset + (i - 1)
  BY <1>1 DEF RingOK, RingTypeOK
<1>3. \A i \in 1 .. entry : (out_offset + i - 1) % MbSize = Place(i - 1)
  BY <1>2, PlaceOf DEF RingOK
<1>4. \A i \in 1 .. entry : Mails[i] = msg_pool[Place(i - 1)] /\ Mails[i] \in Value
  BY <1>2, <1>3 DEF Mails, RingOK
<1>5. Mails = [i \in 1 .. entry |-> msg_pool[(out_offset + i - 1) % MbSize]]
  BY DEF Mails
<1>6. Mails \in [1 .. entry -> Value]
  BY <1>4, <1>5
<1> QED BY <1>1, <1>4, <1>6 DEF MailsOK

\* A value is stored behind the others.
LEMMA StoreRing ==
    ASSUME RingOK, entry # MbSize, NEW v \in Value,
           msg_pool' = [msg_pool EXCEPT ![in_offset] = v],
           in_offset' = After(in_offset), entry' = entry + 1, out_offset' = out_offset
    PROVE  RingOK' /\ Mails' = Append(Mails, v)
<1>1. /\ MbSize \in Nat /\ MbSize > 0 /\ entry \in Nat /\ entry < MbSize
      /\ out_offset \in Nat /\ out_offset < MbSize
      /\ in_offset \in Nat /\ in_offset < MbSize /\ in_offset = Place(entry)
      /\ msg_pool \in [0 .. MbSize - 1 -> Value \cup {Nothing}]
  BY MbAssumption DEF RingOK, RingTypeOK
<1>2. in_offset \in 0 .. MbSize - 1
  BY <1>1
<1>3. msg_pool' \in [0 .. MbSize - 1 -> Value \cup {Nothing}]
  BY <1>1, <1>2
<1>4. RingTypeOK'
  BY <1>1, <1>3 DEF RingTypeOK, After
<1>5. \A k \in Nat : Place(k)' = Place(k)
  BY DEF Place
<1>6. in_offset' = Place(entry)'
  BY <1>1, <1>5 DEF After, Place
<1>7. \A k \in Nat : k < entry =>
          /\ Place(k) # in_offset /\ Place(k) \in 0 .. MbSize - 1
          /\ msg_pool'[Place(k)] = msg_pool[Place(k)]
  <2> SUFFICES ASSUME NEW k \in Nat, k < entry
               PROVE  /\ Place(k) # in_offset /\ Place(k) \in 0 .. MbSize - 1
                      /\ msg_pool'[Place(k)] = msg_pool[Place(k)]
    OBVIOUS
  <2>1. Place(k) # in_offset /\ Place(k) \in 0 .. MbSize - 1
    BY <1>1 DEF Place
  <2> QED BY <1>1, <2>1
<1>8. msg_pool'[in_offset] = v
  BY <1>1, <1>2
<1>9. \A k \in Nat : k < entry' => msg_pool'[Place(k)'] \in Value
  <2> SUFFICES ASSUME NEW k \in Nat, k < entry + 1 PROVE msg_pool'[Place(k)] \in Value
    BY <1>5
  <2>1. CASE k = entry
    BY <1>1, <1>8, <2>1
  <2>2. CASE k < entry
    BY <1>7, <2>2 DEF RingOK
  <2> QED BY <1>1, <2>1, <2>2
<1>10. RingOK'
  BY <1>4, <1>6, <1>9 DEF RingOK
<1>11. /\ Mails' \in Seq(Value) /\ Len(Mails') = entry + 1 /\ DOMAIN Mails' = 1 .. entry + 1
       /\ \A i \in 1 .. entry + 1 : Mails'[i] = msg_pool'[Place(i - 1)]
  <2>1. MailsOK'
    BY <1>10, MailsAre, PTL
  <2>2. /\ Mails' \in Seq(Value) /\ Len(Mails') = entry' /\ DOMAIN Mails' = 1 .. entry'
        /\ \A i \in 1 .. entry' : Mails'[i] = msg_pool'[Place(i - 1)']
    BY <2>1 DEF MailsOK
  <2>3. \A i \in 1 .. entry + 1 : Place(i - 1)' = Place(i - 1)
    BY DEF Place
  <2> QED BY <2>2, <2>3
<1>12. PICK q \in Seq(Value) : q = Mails
  BY MailsAre DEF MailsOK
<1>13. /\ Len(q) = entry /\ \A i \in 1 .. entry : q[i] = msg_pool[Place(i - 1)]
  BY <1>12, MailsAre DEF MailsOK
<1>14. /\ Append(q, v) \in Seq(Value) /\ Len(Append(q, v)) = entry + 1
       /\ \A i \in 1 .. entry : Append(q, v)[i] = q[i]
       /\ Append(q, v)[entry + 1] = v
  BY <1>13, AppendProperties
<1>15. \A i \in 1 .. entry + 1 : Mails'[i] = Append(q, v)[i]
  <2> SUFFICES ASSUME NEW i \in 1 .. entry + 1 PROVE Mails'[i] = Append(q, v)[i]
    OBVIOUS
  <2>1. CASE i = entry + 1
    <3>1. Place(i - 1) = in_offset
      BY <1>1, <2>1
    <3> QED BY <1>8, <1>11, <1>14, <2>1, <3>1
  <2>2. CASE i \in 1 .. entry
    <3>1. i - 1 \in Nat /\ i - 1 < entry
      BY <1>1, <2>2
    <3> QED BY <1>7, <1>11, <1>13, <1>14, <2>2, <3>1
  <2>3. i = entry + 1 \/ i \in 1 .. entry
    BY <1>1
  <2> QED BY <2>1, <2>2, <2>3
<1>16. Mails' = Append(q, v)
  <2>1. PICK p \in Seq(Value) : p = Mails'
    BY <1>11
  <2>2. /\ Len(p) = Len(Append(q, v)) /\ Append(q, v) \in Seq(Value)
        /\ \A i \in 1 .. Len(p) : p[i] = Append(q, v)[i]
    BY <1>1, <1>11, <1>14, <1>15, <2>1
  <2>3. p = Append(q, v)
    BY ONLY <2>2, p \in Seq(Value), SeqEqual
  <2> QED BY <2>1, <2>3
<1> QED BY <1>10, <1>12, <1>16

\* The first value is taken.
LEMMA TakeRing ==
    ASSUME RingOK, entry # 0, UNCHANGED <<msg_pool, in_offset>>,
           out_offset' = After(out_offset), entry' = entry - 1
    PROVE  /\ RingOK' /\ Mails # <<>> /\ Mails' = Tail(Mails)
           /\ Head(Mails) = msg_pool[out_offset] /\ msg_pool[out_offset] \in Value
<1>1. /\ MbSize \in Nat /\ MbSize > 0 /\ entry \in Nat /\ entry <= MbSize /\ entry > 0
      /\ out_offset \in Nat /\ out_offset < MbSize
      /\ in_offset \in Nat /\ in_offset < MbSize /\ in_offset = Place(entry)
      /\ msg_pool \in [0 .. MbSize - 1 -> Value \cup {Nothing}]
  BY MbAssumption DEF RingOK, RingTypeOK
<1>2. RingTypeOK'
  BY <1>1 DEF RingTypeOK, After
<1>3. \A k \in Nat : k < MbSize => Place(k)' = Place(k + 1)
  BY <1>1 DEF Place, After
<1>4. in_offset' = Place(entry)'
  BY <1>1 DEF Place, After
<1>5. \A k \in Nat : k < entry' => msg_pool'[Place(k)'] \in Value
  <2> SUFFICES ASSUME NEW k \in Nat, k < entry - 1 PROVE msg_pool[Place(k)'] \in Value
    OBVIOUS
  <2>1. k + 1 \in Nat /\ k + 1 < entry /\ k < MbSize
    BY <1>1
  <2> QED BY <1>3, <2>1 DEF RingOK
<1>6. RingOK'
  BY <1>2, <1>4, <1>5 DEF RingOK
<1>7. PICK q \in Seq(Value) : q = Mails
  BY MailsAre DEF MailsOK
<1>8. Len(q) = entry /\ \A i \in 1 .. entry : q[i] = msg_pool[Place(i - 1)]
  BY <1>7, MailsAre DEF MailsOK
<1>9. q # <<>>
  BY <1>1, <1>8
<1>10. /\ Tail(q) \in Seq(Value) /\ Len(Tail(q)) = entry - 1
       /\ \A i \in 1 .. entry - 1 : Tail(q)[i] = q[i + 1]
  BY <1>1, <1>8, <1>9, HeadTailProperties
<1>11. Head(q) = msg_pool[out_offset] /\ msg_pool[out_offset] \in Value
  <2>1. Head(q) = q[1]
    BY <1>9
  <2>2. Place(0) = out_offset
    BY <1>1 DEF Place
  <2>3. q[1] = msg_pool[Place(0)]
    BY <1>1, <1>8
  <2>4. msg_pool[Place(0)] \in Value
    BY <1>1 DEF RingOK
  <2> QED BY <2>1, <2>2, <2>3, <2>4
<1>12. MailsOK'
  BY <1>6, MailsAre, PTL
<1>13. PICK p \in Seq(Value) : p = Mails'
  BY <1>12 DEF MailsOK
<1>14. Len(p) = entry - 1 /\ \A i \in 1 .. entry - 1 : p[i] = msg_pool[Place(i - 1)']
  BY <1>12, <1>13 DEF MailsOK
<1>15. \A i \in 1 .. entry - 1 : p[i] = Tail(q)[i]
  <2> SUFFICES ASSUME NEW i \in 1 .. entry - 1 PROVE p[i] = Tail(q)[i]
    OBVIOUS
  <2>1. /\ i - 1 \in Nat /\ i - 1 < MbSize /\ (i - 1) + 1 = i
        /\ i + 1 \in 1 .. entry /\ (i + 1) - 1 = i
    BY <1>1
  <2>2. Place(i - 1)' = Place(i)
    BY <1>3, <2>1
  <2>3. q[i + 1] = msg_pool[Place(i)]
    BY <1>8, <2>1
  <2> QED BY <1>10, <1>14, <2>2, <2>3
<1>16. p = Tail(q)
  <2>1. /\ Len(p) = Len(Tail(q)) /\ Tail(q) \in Seq(Value)
        /\ \A i \in 1 .. Len(p) : p[i] = Tail(q)[i]
    BY <1>10, <1>14, <1>15
  <2> QED BY ONLY <2>1, p \in Seq(Value), SeqEqual
<1> QED BY <1>6, <1>7, <1>9, <1>11, <1>13, <1>16

-----------------------------------------------------------------------------
(* The mailbox and its waiters.                                             *)

\* The first waiter of l is woken if there is one, by a call that t has finished.
LEMMA ResumeGoes ==
    ASSUME WaitInv, NEW t \in Thread, t \notin Waiters, NEW step \in BusySteps \cup {"run"},
           NEW arg \in Args, NEW l \in List, ResumeIfAny(l), UNCHANGED object,
           error' = [error EXCEPT ![t] = "ok"],
           pc' = [pc EXCEPT ![t] = [at |-> step, timeout |-> "none", arg |-> arg]]
    PROVE  /\ WaitInv' /\ pc'[t].at = step /\ pc'[t].arg = arg
           /\ \A u \in Thread \ {t} : pc'[u] = pc[u]
           /\ \A m \in List \ {l} : Waiting(m)' = Waiting(m)
           /\ \/ /\ Waiting(l) = {} /\ Waiting(l)' = {}
                 /\ \A x \in ReceiverSteps \cup SenderSteps : Arriving(x)' = Arriving(x) \ {t}
              \/ \E h \in Waiting(l) :
                    /\ Waiting(l)' = Waiting(l) \ {h}
                    /\ \A x \in ReceiverSteps \cup SenderSteps :
                          /\ h \notin Arriving(x)
                          /\ Arriving(x)' = (Arriving(x) \ {t}) \cup
                                            IF pc[h].at = x THEN {h} ELSE {}
<1>1. step \in Steps /\ step \notin {"test", "resume"} /\ step \notin ReceiverSteps \cup SenderSteps
  BY DEF Steps, ReceiverSteps, SenderSteps, BusySteps
<1>2. object' \in {"live", "locked", "detaching", "gone"}
  BY DEF WaitInv, PcOK
<1>3. CASE suspended[l] = <<>>
  <2>1. UNCHANGED <<suspended, timed>>
    BY <1>3 DEF ResumeIfAny
  <2>2. /\ WaitInv' /\ pc'[t].at = step /\ pc'[t].arg = arg /\ Waiters' = Waiters
        /\ \A u \in Thread \ {t} : pc'[u] = pc[u] /\ error'[u] = error[u]
    BY <1>1, <1>2, <2>1, GoesKeeps
  <2>3. \A x \in ReceiverSteps \cup SenderSteps : Arriving(x)' = Arriving(x) \ {t}
    BY <1>1, <2>2 DEF Arriving
  <2>4. \A m \in List : Waiting(m)' = Waiting(m)
    BY <2>1 DEF Waiting
  <2>5. Waiting(l) = {}
    BY <1>3, EmptyList
  <2> QED BY <2>2, <2>3, <2>4, <2>5
<1>4. CASE suspended[l] # <<>>
  <2>1. ListResume(l)
    BY <1>4 DEF ResumeIfAny
  <2>2. PICK h : h = Head(suspended[l])
    OBVIOUS
  <2>3. Leaves(h, l)
    BY <1>4, <2>1, <2>2, ResumeLeaves DEF WaitInv
  <2>4. /\ pc'[t].at = step /\ pc'[t].arg = arg
        /\ \A u \in Thread \ {t} : pc'[u] = pc[u] /\ error'[u] = error[u]
    BY DEF WaitInv, PcOK
  <2>5. PcOK'
    <3>1. [at |-> step, timeout |-> "none", arg |-> arg] \in
              [at : Steps, timeout : Timeouts, arg : Args]
      BY <1>1 DEF Timeouts
    <3> QED BY <1>1, <1>2, <2>4, <3>1 DEF WaitInv, PcOK
  <2>6. \A u \in Waiters \ {h} : pc'[u] = pc[u] /\ error'[u] = error[u]
    BY <2>4, WaitersWait
  <2>7. /\ WaitInv' /\ Waiters' = Waiters \ {h} /\ h \in Waiters
        /\ \A m \in List \ {l} : Waiting(m)' = Waiting(m)
    BY <2>3, <2>5, <2>6, LeaveKeeps
  <2>8. h \in Thread /\ error[h] = "ok" /\ h # t
    BY <2>7, WaitersWait
  <2>9. \A x \in ReceiverSteps \cup SenderSteps :
           /\ h \notin Arriving(x)
           /\ Arriving(x)' = (Arriving(x) \ {t}) \cup IF pc[h].at = x THEN {h} ELSE {}
    BY <1>1, <2>4, <2>7, <2>8 DEF Arriving
  <2>10. h \in Waiting(l) /\ Waiting(l)' = Waiting(l) \ {h}
    BY <2>3 DEF Leaves
  <2> QED BY <2>4, <2>7, <2>9, <2>10
<1> QED BY <1>3, <1>4

\* What is woken for one more item, and who has gone.
LEMMA CountWoken ==
    ASSUME NEW A, NEW B, NEW t, NEW h, IsFiniteSet(A), h \notin A, h # t,
           B = (A \ {t}) \cup {h}
    PROVE  /\ IsFiniteSet(B) /\ Cardinality(B) \in Nat /\ Cardinality(A) \in Nat
           /\ Cardinality(B) = Cardinality(A) + IF t \in A THEN 0 ELSE 1
<1>1. PICK C : C = A \ {t}
  OBVIOUS
<1>2. /\ IsFiniteSet(C) /\ Cardinality(A) \in Nat
      /\ Cardinality(C) = IF t \in A THEN Cardinality(A) - 1 ELSE Cardinality(A)
  BY <1>1, FS_RemoveElement, FS_CardinalityType
<1>3. h \notin C /\ B = C \cup {h}
  BY <1>1
<1>4. IsFiniteSet(B) /\ Cardinality(B) = Cardinality(C) + 1
  BY <1>2, <1>3, FS_AddElement
<1>5. Cardinality(B) \in Nat
  BY <1>4, FS_CardinalityType
<1> QED BY <1>2, <1>4, <1>5

LEMMA CountGone ==
    ASSUME NEW A, NEW B, NEW t, IsFiniteSet(A), B = A \ {t}
    PROVE  /\ IsFiniteSet(B) /\ Cardinality(B) \in Nat /\ Cardinality(A) \in Nat
           /\ Cardinality(B) = Cardinality(A) - IF t \in A THEN 1 ELSE 0
BY FS_RemoveElement, FS_CardinalityType

MbPcOK ==
    /\ \A t \in Waiting(Receivers) : pc[t].at = "receiving"
    /\ \A t \in Waiting(Senders) : pc[t].at = "sending"
    /\ \A t \in Thread : pc[t].at \in {"sending", "received"} => pc[t].arg \in Value

MbInv == WaitInv /\ RingOK /\ MbPcOK /\ MbNoLostWakeup

LEMMA MbFacts ==
    ASSUME MbInv
    PROVE  /\ WaitInv /\ RingOK /\ MbPcOK
           /\ entry \in Nat /\ entry <= MbSize /\ MbSize \in Nat /\ MbSize > 0
           /\ Waiting(Receivers) \subseteq Thread /\ Waiting(Senders) \subseteq Thread
           /\ \A t \in Waiting(Receivers) : pc[t].at = "receiving"
           /\ \A t \in Waiting(Senders) : pc[t].at = "sending"
           /\ IsFiniteSet(Arriving("receiving")) /\ Cardinality(Arriving("receiving")) \in Nat
           /\ IsFiniteSet(Arriving("sending")) /\ Cardinality(Arriving("sending")) \in Nat
           /\ (Waiting(Receivers) # {} => entry <= Cardinality(Arriving("receiving")))
           /\ (Waiting(Senders) # {} => MbSize - entry <= Cardinality(Arriving("sending")))
<1>1. WaitInv /\ RingOK /\ MbPcOK
  BY DEF MbInv
<1>2. /\ entry \in Nat /\ entry <= MbSize /\ MbSize \in Nat /\ MbSize > 0
  BY <1>1, MbAssumption DEF RingOK, RingTypeOK
<1>3. Waiting(Receivers) \subseteq Thread /\ Waiting(Senders) \subseteq Thread
  BY <1>1, WaitersType DEF WaitInv
<1>4. /\ \A t \in Waiting(Receivers) : pc[t].at = "receiving"
      /\ \A t \in Waiting(Senders) : pc[t].at = "sending"
  BY <1>1 DEF MbPcOK, WaitInv, WaitOK, SenderSteps
<1>5. /\ (Waiting(Receivers) # {} => entry <= Cardinality(Arriving("receiving")))
      /\ (Waiting(Senders) # {} => MbSize - entry <= Cardinality(Arriving("sending")))
  BY <1>1, EmptyList DEF MbInv, MbNoLostWakeup, List
<1> QED BY <1>1, <1>2, <1>3, <1>4, <1>5, ArrivingFinite

LEMMA MbMakes ==
    ASSUME WaitInv', RingOK', MbPcOK',
           Waiting(Receivers)' # {} => entry' <= Cardinality(Arriving("receiving")'),
           Waiting(Senders)' # {} => MbSize - entry' <= Cardinality(Arriving("sending")')
    PROVE  MbInv'
BY EmptyListNext DEF MbInv, MbNoLostWakeup, List

-----------------------------------------------------------------------------
(* Each step of a mailbox is a step of a queue, or changes nothing of it.   *)

QueueStep == MailQueue!Next \/ UNCHANGED <<Mails, MbHeld>>

LEMMA HeldSame ==
    ASSUME \A u \in Thread : pc[u].at = "received" \/ pc'[u].at = "received"
                             => pc'[u].at = pc[u].at /\ pc'[u].arg = pc[u].arg
    PROVE  MbHeld' = MbHeld
<1>1. \A u \in Thread : (IF pc'[u].at = "received" THEN pc'[u].arg ELSE Nothing)
                        = (IF pc[u].at = "received" THEN pc[u].arg ELSE Nothing)
  OBVIOUS
<1> QED BY <1>1 DEF MbHeld

LEMMA RingSame ==
    ASSUME RingOK, UNCHANGED mbVars
    PROVE  RingOK' /\ Mails' = Mails /\ entry' = entry
<1>1. UNCHANGED <<msg_pool, entry, in_offset, out_offset>>
  BY DEF mbVars
<1> QED BY <1>1 DEF RingOK, RingTypeOK, Place, Mails

LEMMA MbQuiet ==
    ASSUME MbInv, WaitInv', Quiet, UNCHANGED mbVars
    PROVE  MbInv' /\ QueueStep
<1>1. RingOK' /\ Mails' = Mails /\ entry' = entry
  BY RingSame DEF MbInv
<1>2. \A u \in Thread : pc[u].at \in CallSteps \/ pc'[u].at \in CallSteps
                        => pc'[u].at = pc[u].at /\ pc'[u].arg = pc[u].arg
  BY DEF Quiet
<1>3. {"receiving", "sending", "received"} \subseteq CallSteps
  BY DEF CallSteps, ReceiverSteps, SenderSteps, BusySteps
<1>4. MbHeld' = MbHeld
  BY <1>2, <1>3, HeldSame
<1>5. /\ Waiting(Receivers)' \subseteq Waiting(Receivers)
      /\ Waiting(Senders)' \subseteq Waiting(Senders)
  BY DEF Quiet, List
<1>6. /\ Arriving("receiving")' = Arriving("receiving")
      /\ Arriving("sending")' = Arriving("sending")
  BY DEF Quiet, ReceiverSteps, SenderSteps
<1>7. MbPcOK'
  BY <1>2, <1>3, <1>5, MbFacts DEF MbPcOK
<1>8. MbInv'
  BY <1>1, <1>5, <1>6, <1>7, MbFacts, MbMakes
<1> QED BY <1>1, <1>4, <1>8 DEF QueueStep

LEMMA MbResetStep ==
    ASSUME MbInv, MbReset
    PROVE  MbInv' /\ QueueStep
<1>1. /\ ListResumeAll /\ UNCHANGED <<pc, object, msg_pool>>
      /\ entry' = 0 /\ in_offset' = 0 /\ out_offset' = 0
  BY DEF MbReset
<1>2. WaitInv' /\ Waiters' = {}
  BY <1>1, MbFacts, ResumeAllQuiet
<1>3. Waiting(Receivers)' = {} /\ Waiting(Senders)' = {}
  BY <1>2, WaitersAreNext
<1>4. RingOK'
  BY <1>1, MbFacts DEF RingOK, RingTypeOK, Place
<1>5. MbPcOK'
  BY <1>1, <1>3, MbFacts DEF MbPcOK
<1>6. MbInv'
  BY <1>2, <1>3, <1>4, <1>5, MbMakes
<1>7. MbHeld' = MbHeld
  BY <1>1, HeldSame
<1>8. Mails' = <<>>
  <2>1. MailsOK'
    BY <1>4, MailsAre, PTL
  <2>2. Mails' \in Seq(Value) /\ Len(Mails') = 0
    BY <1>1, <2>1 DEF MailsOK
  <2> QED BY <2>2, EmptySeq
<1>9. MailQueue!Reset
  BY <1>7, <1>8 DEF MailQueue!Reset
<1> QED BY <1>6, <1>9 DEF QueueStep, MailQueue!Next

\* A thread begins to wait, or waits again.
LEMMA MbWaitStep ==
    ASSUME MbInv, NEW t \in Thread, NEW l \in List, WaitInv', Enters(t, l),
           t \notin Waiters, pc[t].at # "received",
           pc'[t].at = IF l = Receivers THEN "receiving" ELSE "sending",
           l = Senders => pc'[t].arg \in Value,
           entry = IF l = Receivers THEN 0 ELSE MbSize,
           \A u \in Thread \ {t} : pc'[u] = pc[u],
           l # Receivers => Arriving("receiving")' = Arriving("receiving"),
           l # Senders => Arriving("sending")' = Arriving("sending"),
           UNCHANGED mbVars
    PROVE  MbInv' /\ QueueStep
<1>1. RingOK' /\ Mails' = Mails /\ entry' = entry
  BY RingSame DEF MbInv
<1>2. Receivers # Senders /\ l \in {Receivers, Senders}
  BY DEF Receivers, Senders, List
<1>3. pc'[t].at # "received"
  BY <1>2
<1>4. MbHeld' = MbHeld
  BY <1>3, HeldSame
<1>5. /\ Waiting(l)' = Waiting(l) \cup {t}
      /\ \A m \in List \ {l} : Waiting(m)' = Waiting(m)
  BY DEF Enters, Waiting
<1>6. MbPcOK'
  <2>1. /\ \A u \in Waiting(Receivers)' : pc'[u].at = "receiving"
        /\ \A u \in Waiting(Senders)' : pc'[u].at = "sending"
    BY <1>2, <1>5, MbFacts, WaitersAre DEF List
  <2>2. \A u \in Thread : pc'[u].at \in {"sending", "received"} => pc'[u].arg \in Value
    BY <1>2, MbFacts DEF MbPcOK
  <2> QED BY <2>1, <2>2 DEF MbPcOK
<1>7. \A x : Cardinality(Arriving(x)') \in Nat
  <2> SUFFICES ASSUME NEW x PROVE Cardinality(Arriving(x)') \in Nat
    OBVIOUS
  <2>1. Arriving(x)' \in SUBSET Thread /\ IsFiniteSet(Thread)
    BY IpcAssumption DEF Arriving
  <2> QED BY ONLY <2>1, FS_Subset, FS_CardinalityType
<1>8. CASE l = Receivers
  <2>1. Waiting(Senders)' = Waiting(Senders) /\ entry' = 0
        /\ Arriving("sending")' = Arriving("sending")
    BY <1>1, <1>2, <1>5, <1>8 DEF List
  <2> QED BY <1>1, <1>4, <1>6, <1>7, <2>1, MbFacts, MbMakes DEF QueueStep
<1>9. CASE l = Senders
  <2>1. Waiting(Receivers)' = Waiting(Receivers) /\ entry' = MbSize /\ entry = MbSize
        /\ Arriving("receiving")' = Arriving("receiving")
    BY <1>1, <1>2, <1>5, <1>9 DEF List
  <2> QED BY <1>1, <1>4, <1>6, <1>7, <2>1, MbFacts, MbMakes DEF QueueStep
<1> QED BY <1>2, <1>8, <1>9

\* A value is sent by an interrupt handler, or by a thread that does not wait.
LEMMA MbSendStep ==
    ASSUME MbInv, NEW v \in Value, MbSend(v)
    PROVE  MbInv' /\ QueueStep
<1>1. /\ entry # MbSize /\ msg_pool' = [msg_pool EXCEPT ![in_offset] = v]
      /\ in_offset' = After(in_offset) /\ entry' = entry + 1 /\ out_offset' = out_offset
      /\ ResumeIfAny(Receivers) /\ UNCHANGED <<error, pc, object>>
  BY DEF MbSend, MbStore
<1>2. RingOK' /\ Mails' = Append(Mails, v)
  BY <1>1, MbFacts, StoreRing
<1>3. MbHeld' = MbHeld
  BY <1>1, HeldSame
<1>4. Len(Mails) = entry
  BY MbFacts, MailsAre DEF MailsOK
<1>5. MailQueue!Send(v)
  BY <1>1, <1>2, <1>3, <1>4, MbFacts DEF MailQueue!Send
<1>6. QueueStep
  BY <1>5 DEF QueueStep, MailQueue!Next
<1>7. Receivers \in List /\ Receivers # Senders
  BY DEF List, Receivers, Senders
<1>8. CASE suspended[Receivers] = <<>>
  <2>1. UNCHANGED <<suspended, timed>>
    BY <1>1, <1>8 DEF ResumeIfAny
  <2>2. /\ WaitInv' /\ Waiting(Receivers)' = Waiting(Receivers)
        /\ Waiting(Senders)' = Waiting(Senders)
        /\ Arriving("sending")' = Arriving("sending")
    BY <1>1, <2>1, MbFacts DEF WaitInv, ListsOK, PcOK, WaitOK, Arriving, Waiters, Waiting
  <2>3. Waiting(Receivers)' = {}
    BY <1>7, <1>8, <2>2, MbFacts, EmptyList
  <2>4. MbPcOK'
    BY <1>1, <2>2, MbFacts DEF MbPcOK
  <2>5. Waiting(Senders)' # {} => MbSize - entry' <= Cardinality(Arriving("sending")')
    BY <1>1, <2>2, MbFacts
  <2> QED BY <1>2, <1>6, <2>2, <2>3, <2>4, <2>5, MbMakes
<1>9. CASE suspended[Receivers] # <<>>
  <2>1. ListResume(Receivers)
    BY <1>1, <1>9 DEF ResumeIfAny
  <2>2. WaitInv'
    BY <1>1, <1>7, <1>9, <2>1, MbFacts, ResumeWakes
  <2>3. PICK h \in Waiting(Receivers) :
           /\ Leaves(h, Receivers) /\ \A x : h \notin Arriving(x)
           /\ \A x : Arriving(x)' = Arriving(x) \cup IF pc[h].at = x THEN {h} ELSE {}
    BY <1>1, <1>7, <1>9, <2>1, MbFacts, ResumeWakes
  <2>4. pc[h].at = "receiving"
    BY MbFacts
  <2>5. /\ Arriving("receiving")' = Arriving("receiving") \cup {h}
        /\ h \notin Arriving("receiving")
        /\ Arriving("sending")' = Arriving("sending")
    BY <2>3, <2>4
  <2>6. Cardinality(Arriving("receiving")') = Cardinality(Arriving("receiving")) + 1
    BY <2>5, MbFacts, OneMore
  <2>7. /\ Waiting(Receivers)' \subseteq Waiting(Receivers)
        /\ Waiting(Senders)' = Waiting(Senders)
    BY <1>7, <2>3 DEF Leaves, List, Waiting
  <2>8. MbPcOK'
    BY <1>1, <2>7, MbFacts DEF MbPcOK
  <2>9. entry' <= Cardinality(Arriving("receiving")')
    BY <1>1, <2>3, <2>6, MbFacts
  <2>10. Waiting(Senders)' # {} => MbSize - entry' <= Cardinality(Arriving("sending")')
    BY <1>1, <2>5, <2>7, MbFacts
  <2> QED BY <1>2, <1>6, <2>2, <2>8, <2>9, <2>10, MbMakes
<1> QED BY <1>8, <1>9

\* A sender that was woken stores its value.
LEMMA MbSendReturnsStep ==
    ASSUME MbInv, NEW t \in Thread, MbSendReturns(t)
    PROVE  MbInv' /\ QueueStep
<1>1. /\ Woken(t, "sending") /\ entry # MbSize
      /\ msg_pool' = [msg_pool EXCEPT ![in_offset] = pc[t].arg]
      /\ in_offset' = After(in_offset) /\ entry' = entry + 1 /\ out_offset' = out_offset
      /\ ResumeIfAny(Receivers) /\ UNCHANGED object
      /\ error' = [error EXCEPT ![t] = "ok"]
      /\ pc' = [pc EXCEPT ![t] = [at |-> "run", timeout |-> "none", arg |-> Nothing]]
  BY DEF MbSendReturns, MbStore, Return, Running
<1>2. /\ t \notin Waiters /\ pc[t].at = "sending" /\ t \in Arriving("sending")
      /\ t \notin Arriving("receiving")
  BY <1>1 DEF Woken, At, Arriving
<1>3. PICK v \in Value : v = pc[t].arg
  BY <1>2, MbFacts DEF MbPcOK
<1>4. RingOK' /\ Mails' = Append(Mails, v)
  BY <1>1, <1>3, MbFacts, StoreRing
<1>5. Receivers \in List /\ Senders \in List /\ Receivers # Senders /\ Nothing \in Args
      /\ "receiving" \in ReceiverSteps /\ "sending" \in SenderSteps
  BY DEF List, Receivers, Senders, Args, ReceiverSteps, SenderSteps
<1>6. /\ WaitInv' /\ pc'[t].at = "run"
      /\ \A u \in Thread \ {t} : pc'[u] = pc[u]
      /\ \A m \in List \ {Receivers} : Waiting(m)' = Waiting(m)
      /\ \/ /\ Waiting(Receivers) = {} /\ Waiting(Receivers)' = {}
            /\ \A x \in ReceiverSteps \cup SenderSteps : Arriving(x)' = Arriving(x) \ {t}
         \/ \E h \in Waiting(Receivers) :
               /\ Waiting(Receivers)' = Waiting(Receivers) \ {h}
               /\ \A x \in ReceiverSteps \cup SenderSteps :
                     /\ h \notin Arriving(x)
                     /\ Arriving(x)' = (Arriving(x) \ {t}) \cup
                                       IF pc[h].at = x THEN {h} ELSE {}
  BY <1>1, <1>2, <1>5, MbFacts, ResumeGoes
<1>7. MbHeld' = MbHeld
  BY <1>2, <1>6, HeldSame
<1>8. Len(Mails) = entry
  BY MbFacts, MailsAre DEF MailsOK
<1>9. MailQueue!Send(v)
  BY <1>1, <1>4, <1>7, <1>8, MbFacts DEF MailQueue!Send
<1>10. QueueStep
  BY <1>9 DEF QueueStep, MailQueue!Next
<1>11. /\ Waiting(Receivers)' \subseteq Waiting(Receivers)
       /\ Waiting(Senders)' = Waiting(Senders)
  BY <1>5, <1>6
<1>12. MbPcOK'
  <2>1. t \notin Waiting(Receivers) /\ t \notin Waiting(Senders)
    BY <1>2, WaitersAre
  <2> QED BY <1>6, <1>11, <2>1, MbFacts DEF MbPcOK
<1>13. Arriving("sending")' = Arriving("sending") \ {t}
  BY <1>5, <1>6, MbFacts
<1>14. Cardinality(Arriving("sending")') = Cardinality(Arriving("sending")) - 1
  BY <1>2, <1>13, MbFacts, OneLess
<1>15. Waiting(Senders)' # {} => MbSize - entry' <= Cardinality(Arriving("sending")')
  BY <1>1, <1>11, <1>14, MbFacts
<1>16. Waiting(Receivers)' # {} => entry' <= Cardinality(Arriving("receiving")')
  <2> SUFFICES ASSUME Waiting(Receivers)' # {}
               PROVE  entry' <= Cardinality(Arriving("receiving")')
    OBVIOUS
  <2>1. PICK h \in Waiting(Receivers) :
           /\ h \notin Arriving("receiving")
           /\ Arriving("receiving")' = (Arriving("receiving") \ {t}) \cup {h}
    BY <1>5, <1>6, MbFacts
  <2>2. Arriving("receiving")' = Arriving("receiving") \cup {h}
    BY <1>2, <2>1
  <2>3. Cardinality(Arriving("receiving")') = Cardinality(Arriving("receiving")) + 1
    BY <2>1, <2>2, MbFacts, OneMore
  <2> QED BY <1>1, <2>1, <2>3, MbFacts
<1> QED BY <1>4, <1>6, <1>10, <1>12, <1>15, <1>16, MbMakes

\* A thread receives the first value.
LEMMA MbRecvStep ==
    ASSUME MbInv, NEW t \in Thread, MbRecv(t)
    PROVE  MbInv' /\ QueueStep
<1>1. PICK v : v = msg_pool[out_offset]
  OBVIOUS
<1>2. /\ May(t) \/ Woken(t, "receiving")
      /\ entry # 0 /\ out_offset' = After(out_offset) /\ entry' = entry - 1
      /\ ResumeIfAny(Senders) /\ UNCHANGED <<msg_pool, in_offset, object>>
      /\ error' = [error EXCEPT ![t] = "ok"]
      /\ pc' = [pc EXCEPT ![t] = [at |-> "received", timeout |-> "none", arg |-> v]]
  BY <1>1 DEF MbRecv, MbTake, Goto
<1>3. /\ t \notin Waiters /\ pc[t].at \in {"run", "receiving"} /\ t \notin Arriving("sending")
      /\ (pc[t].at = "receiving" => t \in Arriving("receiving"))
      /\ (pc[t].at = "run" => t \notin Arriving("receiving"))
  BY <1>2 DEF May, Woken, At, Arriving
<1>4. /\ RingOK' /\ Mails # <<>> /\ Mails' = Tail(Mails) /\ Head(Mails) = v /\ v \in Value
  BY <1>1, <1>2, MbFacts, TakeRing
<1>5. /\ Receivers \in List /\ Senders \in List /\ Receivers # Senders /\ v \in Args
      /\ "receiving" \in ReceiverSteps /\ "sending" \in SenderSteps
      /\ "received" \in BusySteps
  BY <1>4 DEF List, Receivers, Senders, Args, ReceiverSteps, SenderSteps, BusySteps
<1>6. /\ WaitInv' /\ pc'[t].at = "received" /\ pc'[t].arg = v
      /\ \A u \in Thread \ {t} : pc'[u] = pc[u]
      /\ \A m \in List \ {Senders} : Waiting(m)' = Waiting(m)
      /\ \/ /\ Waiting(Senders) = {} /\ Waiting(Senders)' = {}
            /\ \A x \in ReceiverSteps \cup SenderSteps : Arriving(x)' = Arriving(x) \ {t}
         \/ \E h \in Waiting(Senders) :
               /\ Waiting(Senders)' = Waiting(Senders) \ {h}
               /\ \A x \in ReceiverSteps \cup SenderSteps :
                     /\ h \notin Arriving(x)
                     /\ Arriving(x)' = (Arriving(x) \ {t}) \cup
                                       IF pc[h].at = x THEN {h} ELSE {}
  BY <1>2, <1>3, <1>5, MbFacts, ResumeGoes
<1>7. MailQueue!Recv(t)
  <2>1. /\ MbHeld' = [MbHeld EXCEPT ![t] = v] /\ MbHeld[t] = Nothing
    <3>1. MbHeld = [u \in Thread |-> IF pc[u].at = "received" THEN pc[u].arg ELSE Nothing]
      BY DEF MbHeld
    <3>2. MbHeld' = [u \in Thread |-> IF pc'[u].at = "received" THEN pc'[u].arg ELSE Nothing]
      BY DEF MbHeld
    <3>3. pc[t].at # "received"
      BY <1>3
    <3> QED BY <1>6, <3>1, <3>2, <3>3
  <2> QED BY <1>4, <2>1 DEF MailQueue!Recv
<1>8. QueueStep
  BY <1>7 DEF QueueStep, MailQueue!Next
<1>9. /\ Waiting(Receivers)' = Waiting(Receivers)
      /\ Waiting(Senders)' \subseteq Waiting(Senders)
  BY <1>5, <1>6
<1>10. MbPcOK'
  <2>1. t \notin Waiting(Receivers) /\ t \notin Waiting(Senders)
    BY <1>3, WaitersAre
  <2> QED BY <1>4, <1>6, <1>9, <2>1, MbFacts DEF MbPcOK
<1>11. Arriving("receiving")' = Arriving("receiving") \ {t}
  BY <1>5, <1>6, MbFacts
<1>12. Cardinality(Arriving("receiving")') >= Cardinality(Arriving("receiving")) - 1
       /\ Cardinality(Arriving("receiving")') \in Int
  <2>1. PICK A, B : A = Arriving("receiving") /\ B = Arriving("receiving")'
    OBVIOUS
  <2>2. IsFiniteSet(A) /\ B = A \ {t}
    BY <1>11, <2>1, MbFacts
  <2>3. /\ Cardinality(B) \in Nat /\ Cardinality(A) \in Nat
        /\ Cardinality(B) = Cardinality(A) - IF t \in A THEN 1 ELSE 0
    BY ONLY <2>2, CountGone
  <2> QED BY <2>1, <2>3
<1>13. Waiting(Receivers)' # {} => entry' <= Cardinality(Arriving("receiving")')
  BY <1>2, <1>9, <1>12, MbFacts
<1>14. Waiting(Senders)' # {} => MbSize - entry' <= Cardinality(Arriving("sending")')
  <2> SUFFICES ASSUME Waiting(Senders)' # {}
               PROVE  MbSize - entry' <= Cardinality(Arriving("sending")')
    OBVIOUS
  <2>1. PICK h \in Waiting(Senders) :
           /\ h \notin Arriving("sending")
           /\ Arriving("sending")' = (Arriving("sending") \ {t}) \cup {h}
    BY <1>5, <1>6, MbFacts
  <2>2. Arriving("sending")' = Arriving("sending") \cup {h}
    BY <1>3, <2>1
  <2>3. Cardinality(Arriving("sending")') = Cardinality(Arriving("sending")) + 1
    BY <2>1, <2>2, MbFacts, OneMore
  <2> QED BY <1>2, <2>1, <2>3, MbFacts
<1> QED BY <1>4, <1>6, <1>8, <1>10, <1>13, <1>14, MbMakes

\* A call returns, and gives back the value that it received or none.
LEMMA MbReturnStep ==
    ASSUME MbInv, NEW t \in Thread, t \notin Waiters, Return(t),
           pc[t].at = "received" \/ error[t] # "ok",
           UNCHANGED <<suspended, timed, object, mbVars>>
    PROVE  MbInv' /\ QueueStep
<1>1. RingOK' /\ Mails' = Mails /\ entry' = entry
  BY RingSame, MbFacts
<1>2. /\ WaitInv' /\ pc'[t].at = "run"
      /\ \A u \in Thread \ {t} : pc'[u] = pc[u]
      /\ \A x \in ReceiverSteps \cup SenderSteps : Arriving(x)' = Arriving(x) \ {t}
  BY MbFacts, CallReturns
<1>3. "receiving" \in ReceiverSteps /\ "sending" \in SenderSteps
  BY DEF ReceiverSteps, SenderSteps
<1>4. /\ Arriving("receiving")' = Arriving("receiving")
      /\ Arriving("sending")' = Arriving("sending")
  BY <1>2, <1>3 DEF Arriving
<1>5. Waiting(Receivers)' = Waiting(Receivers) /\ Waiting(Senders)' = Waiting(Senders)
  BY DEF Waiting
<1>6. MbPcOK'
  <2>1. t \notin Waiting(Receivers) /\ t \notin Waiting(Senders)
    BY WaitersAre
  <2> QED BY <1>2, <1>5, <2>1, MbFacts DEF MbPcOK
<1>7. MbInv'
  BY <1>1, <1>2, <1>4, <1>5, <1>6, MbFacts, MbMakes
<1>8. CASE pc[t].at # "received"
  <2>1. MbHeld' = MbHeld
    BY <1>2, <1>8, HeldSame
  <2> QED BY <1>1, <1>7, <2>1 DEF QueueStep
<1>9. CASE pc[t].at = "received"
  <2>1. pc[t].arg # Nothing
    BY <1>9, MbFacts, IpcAssumption DEF MbPcOK
  <2>2. MbHeld' = [MbHeld EXCEPT ![t] = Nothing] /\ MbHeld[t] # Nothing
    <3>1. MbHeld = [u \in Thread |-> IF pc[u].at = "received" THEN pc[u].arg ELSE Nothing]
      BY DEF MbHeld
    <3>2. MbHeld' = [u \in Thread |-> IF pc'[u].at = "received" THEN pc'[u].arg ELSE Nothing]
      BY DEF MbHeld
    <3> QED BY <1>2, <1>9, <2>1, <3>1, <3>2
  <2>3. MailQueue!Return(t)
    BY <1>1, <2>2 DEF MailQueue!Return
  <2> QED BY <1>7, <2>3 DEF QueueStep, MailQueue!Next
<1> QED BY <1>8, <1>9

\* A call that has to wait: the first time...
LEMMA MbBlocksStep ==
    ASSUME MbInv, NEW t \in Thread, NEW l \in List, NEW step \in {"receiving", "sending"},
           l = IF step = "receiving" THEN Receivers ELSE Senders,
           NEW arg \in Args, l = Senders => arg \in Value, May(t),
           entry = IF l = Receivers THEN 0 ELSE MbSize,
           NEW timeout \in {"ticks", "forever"},
           Wait(t, l, ListSuspend(t, l), step, arg, timeout), UNCHANGED <<object, mbVars>>
    PROVE  MbInv' /\ QueueStep
<1>1. t \notin Waiters /\ pc[t].at = "run"
  BY DEF May, At
<1>2. t \notin Waiting(l)
  BY <1>1, WaitersAre DEF List
<1>3. PICK list \in Seq(Thread) : /\ list = ListSuspend(t, l) /\ IsInjective(list)
                                  /\ ToSet(list) = Waiting(l) \cup {t}
  BY <1>2, MbFacts, ListSuspendElements DEF WaitInv
<1>4. Receivers # Senders /\ l \in {Receivers, Senders}
  BY DEF Receivers, Senders, List
<1>5. step \in IF l = Receivers THEN ReceiverSteps ELSE SenderSteps
  <2>1. "receiving" \in ReceiverSteps /\ "sending" \in SenderSteps
    BY DEF ReceiverSteps, SenderSteps
  <2>2. l = Receivers => step \in ReceiverSteps
    BY <1>4, <2>1
  <2>3. l # Receivers => step \in SenderSteps
    BY <2>1
  <2> QED BY <2>2, <2>3
<1>6. Wait(t, l, list, step, arg, timeout)
  BY <1>3
<1>7. /\ WaitInv' /\ Enters(t, l) /\ pc'[t].at = step /\ pc'[t].arg = arg
      /\ \A u \in Thread \ {t} : pc'[u] = pc[u]
      /\ \A x \in ReceiverSteps \cup SenderSteps : Arriving(x)' = Arriving(x)
  <2>1. WaitInv /\ UNCHANGED object
    BY MbFacts
  <2> QED BY ONLY <1>3, <1>5, <1>6, <2>1, t \in Thread, May(t), l \in List, arg \in Args,
                  timeout \in {"ticks", "forever"}, list \in Seq(Thread), CallWaits
<1>8. /\ Arriving("receiving")' = Arriving("receiving")
      /\ Arriving("sending")' = Arriving("sending")
  BY <1>7 DEF ReceiverSteps, SenderSteps
<1>9. pc'[t].at = IF l = Receivers THEN "receiving" ELSE "sending"
  BY <1>4, <1>7
<1> QED BY <1>1, <1>7, <1>8, <1>9, MbWaitStep

\* ...and again.
LEMMA MbAgainStep ==
    ASSUME MbInv, NEW t \in Thread, NEW l \in List, NEW step \in {"receiving", "sending"},
           l = IF step = "receiving" THEN Receivers ELSE Senders,
           Woken(t, step), entry = IF l = Receivers THEN 0 ELSE MbSize,
           NEW timeout \in {"ticks", "forever"},
           Wait(t, l, ListSuspend(t, l), step, pc[t].arg, timeout),
           UNCHANGED <<object, mbVars>>
    PROVE  MbInv' /\ QueueStep
<1>1. t \notin Waiters /\ pc[t].at = step
  BY DEF Woken, At
<1>2. t \notin Waiting(l)
  BY <1>1, WaitersAre DEF List
<1>3. PICK list \in Seq(Thread) : /\ list = ListSuspend(t, l) /\ IsInjective(list)
                                  /\ ToSet(list) = Waiting(l) \cup {t}
  BY <1>2, MbFacts, ListSuspendElements DEF WaitInv
<1>4. Receivers # Senders /\ l \in {Receivers, Senders}
  BY DEF Receivers, Senders, List
<1>5. step \in IF l = Receivers THEN ReceiverSteps ELSE SenderSteps
  <2>1. "receiving" \in ReceiverSteps /\ "sending" \in SenderSteps
    BY DEF ReceiverSteps, SenderSteps
  <2>2. l = Receivers => step \in ReceiverSteps
    BY <1>4, <2>1
  <2>3. l # Receivers => step \in SenderSteps
    BY <2>1
  <2> QED BY <2>2, <2>3
<1>6. PICK arg \in Args : arg = pc[t].arg
  BY MbFacts DEF WaitInv, PcOK
<1>7. Wait(t, l, list, step, arg, timeout)
  BY <1>3, <1>6
<1>8. /\ WaitInv' /\ Enters(t, l) /\ pc'[t].at = step /\ pc'[t].arg = arg
      /\ \A u \in Thread \ {t} : pc'[u] = pc[u]
      /\ \A x \in ReceiverSteps \cup SenderSteps : Arriving(x)' = Arriving(x) \ {t}
  <2>1. WaitInv /\ UNCHANGED object
    BY MbFacts
  <2> QED BY ONLY <1>3, <1>5, <1>7, <2>1, t \in Thread, Woken(t, step), l \in List,
                  arg \in Args, timeout \in {"ticks", "forever"}, list \in Seq(Thread),
                  WaitsAgain
<1>9. /\ (step # "receiving" => Arriving("receiving")' = Arriving("receiving"))
      /\ (step # "sending" => Arriving("sending")' = Arriving("sending"))
  BY <1>1, <1>8 DEF ReceiverSteps, SenderSteps, Arriving
<1>10. /\ pc'[t].at = IF l = Receivers THEN "receiving" ELSE "sending"
       /\ (l # Receivers => step # "receiving") /\ (l # Senders => step # "sending")
  BY <1>4, <1>8
<1>11. l = Senders => pc'[t].arg \in Value
  BY <1>1, <1>4, <1>6, <1>8, MbFacts DEF MbPcOK
<1> QED BY <1>1, <1>8, <1>9, <1>10, <1>11, MbWaitStep

\* A thread that was woken for nothing, and whose timeout is over.
LEMMA MbGivesUpStep ==
    ASSUME MbInv, NEW t \in Thread, NEW step \in {"receiving", "sending"}, Woken(t, step),
           Return(t), entry = IF step = "receiving" THEN 0 ELSE MbSize,
           UNCHANGED <<suspended, timed, object, mbVars>>
    PROVE  MbInv' /\ QueueStep
<1>1. RingOK' /\ Mails' = Mails /\ entry' = entry
  BY RingSame, MbFacts
<1>2. t \notin Waiters /\ pc[t].at = step
  BY DEF Woken, At
<1>3. /\ WaitInv' /\ pc'[t].at = "run"
      /\ \A u \in Thread \ {t} : pc'[u] = pc[u]
      /\ \A x \in ReceiverSteps \cup SenderSteps : Arriving(x)' = Arriving(x) \ {t}
  BY <1>2, MbFacts, CallReturns
<1>4. MbHeld' = MbHeld
  BY <1>2, <1>3, HeldSame
<1>5. Waiting(Receivers)' = Waiting(Receivers) /\ Waiting(Senders)' = Waiting(Senders)
  BY DEF Waiting
<1>6. MbPcOK'
  <2>1. t \notin Waiting(Receivers) /\ t \notin Waiting(Senders)
    BY <1>2, WaitersAre
  <2> QED BY <1>3, <1>5, <2>1, MbFacts DEF MbPcOK
<1>7. \A x : Cardinality(Arriving(x)') \in Nat
  <2> SUFFICES ASSUME NEW x PROVE Cardinality(Arriving(x)') \in Nat
    OBVIOUS
  <2>1. Arriving(x)' \in SUBSET Thread /\ IsFiniteSet(Thread)
    BY IpcAssumption DEF Arriving
  <2> QED BY ONLY <2>1, FS_Subset, FS_CardinalityType
<1>8. CASE step = "receiving"
  <2>1. Arriving("sending")' = Arriving("sending")
    BY <1>2, <1>3, <1>8 DEF SenderSteps, Arriving
  <2>2. entry' = 0
    BY <1>1, <1>8
  <2> QED BY <1>1, <1>3, <1>4, <1>5, <1>6, <1>7, <2>1, <2>2, MbFacts, MbMakes DEF QueueStep
<1>9. CASE step = "sending"
  <2>1. Arriving("receiving")' = Arriving("receiving")
    <3>1. "receiving" \in ReceiverSteps /\ t \notin Arriving("receiving")
      BY <1>2, <1>9 DEF ReceiverSteps, Arriving
    <3> QED BY <1>3, <3>1
  <2>2. entry' = MbSize /\ entry = MbSize
    BY <1>1, <1>9
  <2> QED BY <1>1, <1>3, <1>4, <1>5, <1>6, <1>7, <2>1, <2>2, MbFacts, MbMakes DEF QueueStep
<1> QED BY <1>8, <1>9

LEMMA MbStep ==
    ASSUME MbInv, MbNext
    PROVE  MbInv' /\ QueueStep
<1>1. /\ Receivers \in List /\ Senders \in List /\ Receivers # Senders
      /\ Nothing \in Args /\ Value \subseteq Args
  BY DEF List, Receivers, Senders, Args
<1>2. ASSUME NEW t \in Thread, NEW v \in Value, MbSendWaits(t, v) PROVE MbInv' /\ QueueStep
  <2>1. /\ May(t) /\ entry = MbSize /\ UNCHANGED <<object, mbVars>>
        /\ \E timeout \in {"ticks", "forever"} :
              Wait(t, Senders, ListSuspend(t, Senders), "sending", v, timeout)
    BY <1>2 DEF MbSendWaits, Blocks
  <2>2. entry = IF Senders = Receivers THEN 0 ELSE MbSize
    BY <1>1, <2>1
  <2>3. v \in Args
    BY <1>1
  <2> QED BY <1>1, <2>1, <2>2, <2>3, MbBlocksStep
<1>3. ASSUME NEW t \in Thread, MbRecvWaits(t) PROVE MbInv' /\ QueueStep
  <2>1. /\ May(t) /\ entry = 0 /\ UNCHANGED <<object, mbVars>>
        /\ \E timeout \in {"ticks", "forever"} :
              Wait(t, Receivers, ListSuspend(t, Receivers), "receiving", Nothing, timeout)
    BY <1>3 DEF MbRecvWaits, Blocks
  <2> QED BY <1>1, <2>1, MbBlocksStep
<1>4. ASSUME NEW t \in Thread PROVE \A left \in Left(t) : left \in {"none", "ticks", "forever"}
  <2>1. pc[t].timeout \in Timeouts
    BY MbFacts DEF WaitInv, PcOK
  <2> QED BY <2>1 DEF Left, Timeouts
<1>5. ASSUME NEW t \in Thread, MbSendWaitsAgain(t) PROVE MbInv' /\ QueueStep
  <2>1. /\ Woken(t, "sending") /\ entry = MbSize /\ UNCHANGED <<object, mbVars>>
    BY <1>5 DEF MbSendWaitsAgain, BlocksAgain
  <2>2. CASE Return(t) /\ UNCHANGED <<suspended, timed>>
    BY <2>1, <2>2, MbGivesUpStep
  <2>3. CASE \E timeout \in {"ticks", "forever"} :
                Wait(t, Senders, ListSuspend(t, Senders), "sending", pc[t].arg, timeout)
    <3>1. entry = IF Senders = Receivers THEN 0 ELSE MbSize
      BY <1>1, <2>1
    <3> QED BY <1>1, <2>1, <2>3, <3>1, MbAgainStep
  <2> QED BY <1>4, <1>5, <2>2, <2>3 DEF MbSendWaitsAgain, BlocksAgain
<1>6. ASSUME NEW t \in Thread, MbRecvWaitsAgain(t) PROVE MbInv' /\ QueueStep
  <2>1. /\ Woken(t, "receiving") /\ entry = 0 /\ UNCHANGED <<object, mbVars>>
    BY <1>6 DEF MbRecvWaitsAgain, BlocksAgain
  <2>2. CASE Return(t) /\ UNCHANGED <<suspended, timed>>
    BY <2>1, <2>2, MbGivesUpStep
  <2>3. CASE \E timeout \in {"ticks", "forever"} :
                Wait(t, Receivers, ListSuspend(t, Receivers), "receiving", pc[t].arg, timeout)
    BY <1>1, <2>1, <2>3, MbAgainStep
  <2> QED BY <1>4, <1>6, <2>2, <2>3 DEF MbRecvWaitsAgain, BlocksAgain
<1>7. ASSUME NEW t \in Thread, MbRecvReturns(t) \/ MbSendFails(t) \/ MbRecvFails(t)
      PROVE  MbInv' /\ QueueStep
  <2>1. /\ t \notin Waiters /\ Return(t) /\ (pc[t].at = "received" \/ error[t] # "ok")
        /\ UNCHANGED <<suspended, timed, object, mbVars>>
    BY <1>7 DEF MbRecvReturns, MbSendFails, MbRecvFails, Fails, At
  <2> QED BY <2>1, MbReturnStep
<1>8. ASSUME NEW t \in Thread, Timeout(t) \/ Removed(t), UNCHANGED mbVars
      PROVE  MbInv' /\ QueueStep
  <2>1. WaitInv' /\ Quiet
    BY <1>8, MbFacts, TimeoutQuiet, RemovedQuiet
  <2> QED BY <1>8, <2>1, MbQuiet
<1> QED BY <1>2, <1>3, <1>5, <1>6, <1>7, <1>8, MbResetStep, MbSendStep, MbSendReturnsStep,
           MbRecvStep DEF MbNext

LEMMA MbDetachStep ==
    ASSUME MbInv, DetachInv, ~BusyDetach, MbNext
    PROVE  DetachInv'
<1>1. WaitInv
  BY MbFacts
<1>2. "receiving" \in ReceiverSteps \cup SenderSteps /\ "sending" \in ReceiverSteps \cup SenderSteps
  BY DEF ReceiverSteps, SenderSteps
<1>3. ASSUME MbReset \/ \E v \in Value : MbSend(v) PROVE DetachInv'
  <2>1. object = "live" /\ UNCHANGED <<pc, object>>
    BY <1>3 DEF MbReset, MbSend
  <2> QED BY <2>1, LiveKeeps
<1>4. ASSUME NEW t \in Thread,
             \/ \E v \in Value : MbSendWaits(t, v)
             \/ MbSendWaitsAgain(t) \/ MbSendReturns(t)
             \/ MbRecv(t) \/ MbRecvWaits(t) \/ MbRecvWaitsAgain(t)
      PROVE  DetachInv'
  <2>1. (May(t) \/ Woken(t, "sending") \/ Woken(t, "receiving")) /\ UNCHANGED object
    BY <1>4 DEF MbSendWaits, MbSendWaitsAgain, MbSendReturns, MbRecv, MbRecvWaits,
                MbRecvWaitsAgain, Blocks, BlocksAgain, MbTake
  <2>2. object = "live"
    BY <1>1, <1>2, <2>1, NobodyWoken DEF May
  <2>3. \/ pc' = [pc EXCEPT ![t] = Running]
        \/ \E step \in {"sending", "receiving", "received"} : \E timeout, arg :
              pc' = [pc EXCEPT ![t] = [at |-> step, timeout |-> timeout, arg |-> arg]]
    BY <1>4 DEF MbSendWaits, MbSendWaitsAgain, MbSendReturns, MbRecv, MbRecvWaits,
                MbRecvWaitsAgain, Blocks, BlocksAgain, MbTake, Wait, Return, Goto
  <2>4. \A u \in Thread : pc'[u].at # pc[u].at
                          => pc'[u].at \in {"sending", "receiving", "received", "run"}
    BY <1>1, <2>3 DEF WaitInv, PcOK, Running
  <2>5. "received" \in BusySteps
    BY DEF BusySteps
  <2> QED BY <1>2, <2>1, <2>2, <2>4, <2>5, LiveKeeps
<1>5. ASSUME NEW t \in Thread, MbRecvReturns(t) \/ MbSendFails(t) \/ MbRecvFails(t)
      PROVE  DetachInv'
  <2>1. /\ t \notin Waiters /\ ~Detacher(t) /\ Return(t)
        /\ UNCHANGED <<suspended, timed, object>>
    BY <1>5 DEF MbRecvReturns, MbSendFails, MbRecvFails, Fails, At, Detacher
  <2> QED BY <1>1, <2>1, ReturnKeeps
<1>6. ASSUME NEW t \in Thread, Timeout(t) \/ Removed(t) PROVE DetachInv'
  BY <1>1, <1>6, TimeoutKeeps, RemovedKeeps
<1> QED BY <1>3, <1>4, <1>5, <1>6 DEF MbNext

LEMMA MbStarts == IpcInit /\ MbInit => MbInv /\ MailQueue!Init
<1> SUFFICES ASSUME IpcInit, MbInit PROVE MbInv /\ MailQueue!Init
  OBVIOUS
<1>1. WaitInv
  BY WaitStarts
<1>2. suspended[Receivers] = <<>> /\ suspended[Senders] = <<>>
  BY DEF IpcInit, List
<1>3. Waiting(Receivers) = {} /\ Waiting(Senders) = {}
  BY <1>2 DEF Waiting, ToSet
<1>4. RingOK
  BY MbAssumption DEF MbInit, RingOK, RingTypeOK, Place
<1>5. \A t \in Thread : pc[t].at = "run"
  BY DEF IpcInit, Running
<1>6. MbPcOK
  BY <1>3, <1>5 DEF MbPcOK
<1>7. MbInv
  BY <1>1, <1>2, <1>4, <1>6 DEF MbInv, MbNoLostWakeup
<1>8. MbHeld = [t \in Thread |-> Nothing]
  BY <1>5 DEF MbHeld
<1>9. Mails = <<>>
  <2>1. Mails \in Seq(Value) /\ Len(Mails) = 0
    BY <1>4, MailsAre DEF MailsOK, MbInit
  <2> QED BY <2>1, EmptySeq
<1> QED BY <1>7, <1>8, <1>9 DEF MailQueue!Init

-----------------------------------------------------------------------------
(* The objects.                                                             *)

\* What the step of an object of each kind is.
LEMMA StepsOf ==
    ASSUME Next
    PROVE  /\ kind' = kind
           /\ (kind = "sem" => SemNext) /\ (kind = "pool" => PoolNext)
           /\ (kind = "mb" => MbNext)
<1>1. kind' = kind
  BY DEF Next
<1>2. kind = "sem" => SemNext
  BY DEF Next
<1>3. kind = "pool" => PoolNext
  BY DEF Next
<1>4. kind = "mb" => MbNext
  BY DEF Next
<1> QED BY <1>1, <1>2, <1>3, <1>4

LEMMA StutterKeeps ==
    ASSUME UNCHANGED vars
    PROVE  /\ kind' = kind /\ (DetachInv => DetachInv')
           /\ (SemInv => SemInv') /\ (PoolInv => PoolInv')
           /\ (MbInv => MbInv' /\ QueueStep)
<1>1. /\ kind' = kind /\ UNCHANGED <<suspended, error, timed, pc, object>>
      /\ UNCHANGED <<value, balance>> /\ UNCHANGED mbVars
      /\ UNCHANGED <<block_list, block_free_count, suspend_thread_count, allocated>>
  BY DEF vars, ipcVars, waitVars, semVars, poolVars
<1>2. /\ Waiters' = Waiters /\ \A l : Waiting(l)' = Waiting(l)
      /\ \A x : Arriving(x)' = Arriving(x)
  BY <1>1 DEF Waiters, Waiting, Arriving
<1>3. WaitInv => WaitInv'
  BY <1>1 DEF WaitInv, ListsOK, PcOK, WaitOK, Waiting
<1>4. DetachInv => DetachInv'
  BY <1>1, <1>2 DEF DetachInv, Detaching, Detacher, Done
<1>5. SemInv => SemInv'
  BY <1>1, <1>2, <1>3 DEF SemInv, TokensConserved, SemNoLostWakeup
<1>6. PoolInv => PoolInv'
  BY <1>1, <1>2, <1>3 DEF PoolInv, PoolWaitOK, BlocksOK, BlocksConserved, PoolNoLostWakeup
<1>7. MbInv => MbInv' /\ QueueStep
  <2> SUFFICES ASSUME MbInv PROVE MbInv' /\ QueueStep
    OBVIOUS
  <2>1. Quiet
    BY <1>1, <1>2 DEF Quiet
  <2> QED BY <1>1, <1>3, <2>1, MbFacts, MbQuiet
<1> QED BY <1>1, <1>4, <1>5, <1>6, <1>7

\* The invariant of whichever of the three objects it is.
ObjectInv ==
    /\ (kind = "sem" => SemInv)
    /\ (kind = "pool" => PoolInv)
    /\ (kind = "mb" => MbInv)

LEMMA ObjectStarts == Init => ObjectInv /\ DetachInv /\ (kind = "mb" => MailQueue!Init)
BY WaitStarts, SemStarts, PoolStarts, MbStarts DEF Init, ObjectInv

LEMMA ObjectStep ==
    ASSUME ObjectInv, [Next]_vars
    PROVE  ObjectInv' /\ kind' = kind /\ (kind = "mb" => QueueStep)
<1>1. CASE Next
  <2>1. /\ kind' = kind
        /\ (kind = "sem" => SemNext) /\ (kind = "pool" => PoolNext) /\ (kind = "mb" => MbNext)
    BY <1>1, StepsOf
  <2>2. kind = "sem" => SemInv'
    BY <2>1, SemStep DEF ObjectInv
  <2>3. kind = "pool" => PoolInv'
    BY <2>1, PoolStep DEF ObjectInv
  <2>4. kind = "mb" => MbInv' /\ QueueStep
    BY <2>1, MbStep DEF ObjectInv
  <2> QED BY <2>1, <2>2, <2>3, <2>4 DEF ObjectInv
<1>2. CASE UNCHANGED vars
  BY <1>2, StutterKeeps DEF ObjectInv
<1> QED BY <1>1, <1>2

\* The kinds of object that these proofs are about.
Proved == {"sem", "pool", "mb"}

LEMMA ObjectInvariant == Spec => []ObjectInv
<1>1. Init => ObjectInv
  BY ObjectStarts
<1>2. ObjectInv /\ [Next]_vars => ObjectInv'
  BY ObjectStep
<1> QED BY <1>1, <1>2, PTL DEF Spec

LEMMA KindStays == Spec /\ kind \in Proved => [](kind \in Proved)
<1>1. kind \in Proved /\ [Next]_vars => (kind \in Proved)'
  <2> SUFFICES ASSUME kind \in Proved, [Next]_vars PROVE kind' \in Proved
    OBVIOUS
  <2> QED BY StepsOf, StutterKeeps
<1> QED BY <1>1, PTL DEF Spec

\* However releases, takes, timeouts, resets and a detach race for the waiters of a
\* semaphore, no token is lost or made (rt_sem_take, rt_sem_release, rt_thread_timeout).
THEOREM TokensCorrect == Spec /\ kind = "sem" => []TokensConserved
<1>1. kind = "sem" /\ [Next]_vars => (kind = "sem")'
  BY StepsOf, StutterKeeps
<1>2. ObjectInv /\ kind = "sem" => TokensConserved
  BY DEF ObjectInv, SemInv
<1> QED BY <1>1, <1>2, ObjectInvariant, PTL DEF Spec

\* Every block of a memory pool is free or allocated, once, while threads are woken for
\* blocks that others take from them (rt_mp_alloc, rt_mp_free).
THEOREM BlocksCorrect == Spec /\ kind = "pool" => []BlocksConserved
<1>1. kind = "pool" /\ [Next]_vars => (kind = "pool")'
  BY StepsOf, StutterKeeps
<1>2. ObjectInv /\ kind = "pool" => BlocksConserved
  BY DEF ObjectInv, PoolInv, BlocksOK
<1> QED BY <1>1, <1>2, ObjectInvariant, PTL DEF Spec

\* No thread sleeps through what it waits for at a semaphore, a memory pool or a
\* mailbox: for each token, block, value or free place that is there while a thread
\* waits for one, another has been woken to get it.
THEOREM WakeupsCorrect == Spec /\ kind \in Proved => []NoLostWakeup
<1>1. ObjectInv /\ kind \in Proved => NoLostWakeup
  <2> SUFFICES ASSUME ObjectInv, kind \in Proved PROVE NoLostWakeup
    OBVIOUS
  <2>1. CASE kind = "sem"
    BY <2>1 DEF ObjectInv, SemInv, NoLostWakeup
  <2>2. CASE kind = "pool"
    BY <2>2 DEF ObjectInv, PoolInv, NoLostWakeup
  <2>3. CASE kind = "mb"
    BY <2>3 DEF ObjectInv, MbInv, NoLostWakeup
  <2> QED BY <2>1, <2>2, <2>3 DEF Proved
<1> QED BY <1>1, ObjectInvariant, KindStays, PTL

\* Detaching a semaphore, a memory pool or a mailbox that no call is busy with wakes
\* every waiter of both lists with an error, and never looks for a waiter in an empty
\* list (rt_ipc_list_resume_all, rt_mp_detach).
THEOREM DetachCorrect == ~BusyDetach => (Spec /\ kind \in Proved => []DetachWakesAll)
<1> SUFFICES ASSUME ~BusyDetach PROVE Spec /\ kind \in Proved => []DetachWakesAll
  OBVIOUS
<1>1. Init => DetachInv
  BY ObjectStarts
<1>2. ObjectInv /\ kind \in Proved /\ DetachInv /\ [Next]_vars => DetachInv'
  <2> SUFFICES ASSUME ObjectInv, kind \in Proved, DetachInv, [Next]_vars PROVE DetachInv'
    OBVIOUS
  <2>1. CASE Next
    <3>1. CASE kind = "sem"
      BY <2>1, <3>1, StepsOf, SemDetachStep DEF ObjectInv
    <3>2. CASE kind = "pool"
      BY <2>1, <3>2, StepsOf, PoolDetachStep DEF ObjectInv
    <3>3. CASE kind = "mb"
      BY <2>1, <3>3, StepsOf, MbDetachStep DEF ObjectInv
    <3> QED BY <3>1, <3>2, <3>3 DEF Proved
  <2>2. CASE UNCHANGED vars
    BY <2>2, StutterKeeps
  <2> QED BY <2>1, <2>2
<1>3. ObjectInv /\ kind \in Proved /\ DetachInv => DetachWakesAll
  BY DetachInvSays DEF ObjectInv, Proved, SemInv, PoolInv, PoolWaitOK, MbInv
<1> QED BY <1>1, <1>2, <1>3, ObjectInvariant, KindStays, PTL DEF Spec

\* A mailbox implements a bounded queue: however sends, receives, timeouts, resets and
\* a detach race, what is received was sent, in that order, once, and no more values
\* are in it than it has room for (rt_mb_send_wait, rt_mb_recv).
THEOREM MailCorrect == Spec /\ kind = "mb" => MailboxIsQueue
<1>1. kind = "mb" /\ [Next]_vars => (kind = "mb")'
  BY StepsOf, StutterKeeps
<1>2. Init /\ kind = "mb" => MailQueue!Init
  BY ObjectStarts
<1>3. ObjectInv /\ kind = "mb" /\ [Next]_vars => [MailQueue!Next]_<<Mails, MbHeld>>
  BY ObjectStep DEF QueueStep
<1> QED BY <1>1, <1>2, <1>3, ObjectInvariant, PTL DEF Spec, MailboxIsQueue, MailQueue!Spec

=============================================================================
