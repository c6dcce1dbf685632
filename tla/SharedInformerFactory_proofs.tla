-------------------- MODULE SharedInformerFactory_proofs --------------------
(***************************************************************************)
(* The safety properties of the informer factory, for any types, callers   *)
(* and contexts, and its refinement of InformerLifecycle.                  *)
(***************************************************************************)
EXTENDS SharedInformerFactory, FiniteSets, FiniteSetTheorems, TLAPS

\* Who is in a critical section holds the mutex, and what it read is still so.
LockInv ==
    \A c \in Callers :
        /\ lock = c <=> call[c].at \in {"create", "start"}
        /\ call[c].at = "create" => /\ call[c].type \in Types
                                    /\ informers[call[c].type] = None
        /\ call[c].at = "start" => call[c].ctx \in Contexts /\ ~shuttingDown

\* The map has what was handed out, and no informer twice.
HandedInv ==
    /\ \A p \in handed : informers[p[1]] = p[2]
    /\ \A t \in Types : informers[t] # None => <<t, informers[t]>> \in handed
    /\ \A t, u \in Types : informers[t] = informers[u] /\ informers[t] # None => t = u

\* What has run is an informer of the map that was marked as started.
RunInv ==
    /\ \A t \in startedInformers : informers[t] # None
    /\ \A i \in Informers : run[i] # None => \E t \in startedInformers : informers[t] = i

\* The wait group counts the goroutines.
CountInv == IsFiniteSet(Running) /\ wg = Cardinality(Running)

ShutInv ==
    /\ \A c \in Callers : call[c].at \in {"shutdown", "terminated"} => shuttingDown
    /\ (released \/ \E c \in Callers : call[c].at = "terminated") => shuttingDown /\ Running = {}

\* A call of WaitForCacheSync knows what was started before it, and of each such
\* informer it still waits for it, or has found it synced, or reports it.
SyncInv ==
    \A c \in Callers :
        /\ call[c].before \subseteq startedInformers
        /\ call[c].waitFor \subseteq startedInformers
        /\ call[c].unsynced # {} => call[c].ctx \in cancelled
        /\ call[c].at = "wait" => call[c].before \subseteq call[c].waitFor
        /\ call[c].at \in {"result", "returned"} => \A t \in call[c].before :
                t \in call[c].waitFor \/ t \in call[c].unsynced \/ HasSynced(t)
        /\ call[c].at = "result" =>
                call[c].ctx \in cancelled \/ \A t \in call[c].waitFor : HasSynced(t)
        /\ call[c].at = "returned" => call[c].waitFor = {}

IInv == TypeOK /\ LockInv /\ HandedInv /\ RunInv /\ CountInv /\ ShutInv /\ SyncInv
-----------------------------------------------------------------------------
(* Types.                                                                  *)
LEMMA IdleTypes ==
    /\ Idle \in Calls
    /\ \A t \in Types : [Idle EXCEPT !.at = "create", !.type = t] \in Calls
    /\ \A x \in Contexts : [Idle EXCEPT !.at = "start", !.ctx = x] \in Calls
    /\ [Idle EXCEPT !.at = "shutdown"] \in Calls
    /\ \A x \in Contexts, B \in SUBSET Types :
            [Idle EXCEPT !.at = "snapshot", !.ctx = x, !.before = B] \in Calls
BY DEF Idle, Calls

LEMMA TypeStep ==
    ASSUME IInv, Next
    PROVE  TypeOK'
<1> USE DEF IInv, TypeOK
<1>0. \A c \in Callers : call[c] \in Calls
  OBVIOUS
<1>1. ASSUME NEW c \in Callers, NEW t \in Types, InformerMissing(c, t) PROVE TypeOK'
  BY <1>1, IdleTypes DEF InformerMissing, Begin, informerVars
<1>2. ASSUME NEW c \in Callers, CreateInformer(c) PROVE TypeOK'
  <2>1. call[c].type \in Types
    BY <1>2 DEF CreateInformer, LockInv
  <2>2. call' \in [Callers -> Calls]
    BY <1>2, IdleTypes DEF CreateInformer
  <2>3. informers' \in [Types -> Informers \cup {None}] /\ handed' \in SUBSET (Types \X Informers)
    BY <1>2, <2>1 DEF CreateInformer, New
  <2> QED
    BY <1>2, <2>2, <2>3 DEF CreateInformer, informerVars
<1>3. ASSUME NEW t \in Types, InformerExists(t) PROVE TypeOK'
  BY <1>3 DEF InformerExists, factoryVars, informerVars
<1>4. ASSUME NEW c \in Callers, NEW x \in Contexts, StartWithContext(c, x) PROVE TypeOK'
  BY <1>4, IdleTypes DEF StartWithContext, Begin, informerVars
<1>5. ASSUME NEW c \in Callers, StartInformer(c) PROVE TypeOK'
  <2>1. call[c].ctx \in Contexts
    BY <1>5 DEF StartInformer, LockInv
  <2>2. run' \in [Informers -> Contexts \cup {None, "stopped"}] /\ startedInformers' \in SUBSET Types
    BY <1>5, <2>1 DEF StartInformer, ToStart
  <2>3. wg' \in Nat
    BY <1>5 DEF StartInformer, Counted
  <2> QED
    BY <1>5, <2>2, <2>3 DEF StartInformer
<1>6. ASSUME NEW c \in Callers, AllStarted(c) PROVE TypeOK'
  BY <1>6, IdleTypes DEF AllStarted, informerVars
<1>7. ASSUME NEW c \in Callers, Shutdown(c) PROVE TypeOK'
  BY <1>7, IdleTypes DEF Shutdown, Begin, informerVars
<1>8. ASSUME NEW c \in Callers, GoroutinesTerminated(c) PROVE TypeOK'
  BY <1>8 DEF Calls, GoroutinesTerminated, Go, informerVars
<1>9. ASSUME NEW c \in Callers, NEW x \in Contexts, CallWaitForCacheSync(c, x) PROVE TypeOK'
  BY <1>9, IdleTypes DEF CallWaitForCacheSync, Begin, factoryVars, informerVars
<1>10. ASSUME NEW c \in Callers, Snapshot(c) PROVE TypeOK'
  <2>1. call'[c] = [call[c] EXCEPT !.at = "wait", !.waitFor = Started] /\ Started \in SUBSET Types
    BY <1>10 DEF Snapshot, Started
  <2>2. call'[c] \in Calls
    <3> HIDE DEF IInv, TypeOK
    <3> QED
      BY <1>0, <2>1 DEF Calls
  <2> QED
    BY <1>10, <2>2 DEF Snapshot, factoryVars, informerVars
<1>11. ASSUME NEW c \in Callers, Waited(c) \/ ResultComplete(c) PROVE TypeOK'
  <2>1. PICK at \in {"result", "returned"} : call' = [call EXCEPT ![c].at = at]
    BY <1>11 DEF Waited, ResultComplete, Go
  <2>2. call'[c] = [call[c] EXCEPT !.at = at]
    BY <2>1
  <2>3. call'[c] \in Calls
    <3> HIDE DEF IInv, TypeOK
    <3> QED
      BY <1>0, <2>2 DEF Calls
  <2> QED
    BY <1>11, <2>1, <2>3 DEF Waited, ResultComplete, factoryVars, informerVars
<1>12. ASSUME NEW c \in Callers, CollectResult(c) PROVE TypeOK'
  <2>1. PICK t \in call[c].waitFor :
            call' = [call EXCEPT
                ![c].waitFor = @ \ {t},
                ![c].unsynced = IF HasSynced(t) THEN @ ELSE @ \cup {t}]
    BY <1>12 DEF CollectResult
  <2> DEFINE W == call[c].waitFor \ {t}
             U == IF HasSynced(t) THEN call[c].unsynced ELSE call[c].unsynced \cup {t}
  <2>2. call'[c] = [call[c] EXCEPT !.waitFor = W, !.unsynced = U]
    BY <2>1
  <2>3. W \in SUBSET Types /\ U \in SUBSET Types
    BY DEF Calls
  <2>4. call'[c] \in Calls
    <3> HIDE DEF IInv, TypeOK, W, U
    <3> QED
      BY <1>0, <2>2, <2>3 DEF Calls
  <2> QED
    BY <1>12, <2>1, <2>4 DEF CollectResult, factoryVars, informerVars
<1>13. ASSUME NEW c \in Callers, Return(c) PROVE TypeOK'
  BY <1>13, IdleTypes DEF Return, factoryVars, informerVars
<1>14. ASSUME NEW i \in Informers, InformerSyncs(i) PROVE TypeOK'
  BY <1>14 DEF InformerSyncs, factoryVars
<1>15. ASSUME NEW i \in Informers, InformerStops(i) PROVE TypeOK'
  <2>1. i \in Running
    BY <1>15 DEF InformerStops, Running
  <2>2. wg # 0
    BY <2>1, FS_EmptySet DEF CountInv
  <2> QED
    BY <1>15, <2>2 DEF InformerStops
<1>16. ASSUME NEW x \in Contexts, Cancel(x) PROVE TypeOK'
  BY <1>16 DEF Cancel, factoryVars
<1> QED
  BY <1>1, <1>2, <1>3, <1>4, <1>5, <1>6, <1>7, <1>8, <1>9, <1>10, <1>11, <1>12, <1>13,
     <1>14, <1>15, <1>16 DEF Next, Proceed
-----------------------------------------------------------------------------
(* The mutex.                                                              *)
LEMMA LockStep ==
    ASSUME IInv, Next
    PROVE  LockInv'
<1> USE FactoryAssumption DEF IInv, TypeOK, LockInv
<1>1. ASSUME NEW c \in Callers, NEW t \in Types, InformerMissing(c, t) PROVE LockInv'
  <2>1. lock = None /\ lock' = c /\ informers' = informers /\ informers[t] = None
    BY <1>1 DEF InformerMissing, CanLock
  <2>2. /\ call'[c].at = "create" /\ call'[c].type = t
        /\ \A d \in Callers \ {c} : call'[d] = call[d]
    BY <1>1 DEF InformerMissing, Begin, Idle
  <2> QED
    BY <2>1, <2>2
<1>2. ASSUME NEW c \in Callers, CreateInformer(c) PROVE LockInv'
  <2>1. lock = c /\ lock' = None
    BY <1>2 DEF CreateInformer
  <2>2. call'[c] = Idle /\ \A d \in Callers \ {c} : call'[d] = call[d]
    BY <1>2 DEF CreateInformer
  <2> QED
    BY <2>1, <2>2 DEF Idle
<1>3. ASSUME NEW c \in Callers, NEW x \in Contexts, StartWithContext(c, x) PROVE LockInv'
  <2>1. lock = None /\ lock' = c /\ ~shuttingDown /\ shuttingDown' = shuttingDown
    BY <1>3 DEF StartWithContext, CanLock
  <2>2. /\ call'[c].at = "start" /\ call'[c].ctx = x
        /\ \A d \in Callers \ {c} : call'[d] = call[d]
    BY <1>3 DEF StartWithContext, Begin, Idle
  <2> QED
    BY <2>1, <2>2
<1>4. ASSUME NEW c \in Callers, AllStarted(c) PROVE LockInv'
  <2>1. lock = c /\ lock' = None
    BY <1>4 DEF AllStarted
  <2>2. call'[c] = Idle /\ \A d \in Callers \ {c} : call'[d] = call[d]
    BY <1>4 DEF AllStarted
  <2> QED
    BY <2>1, <2>2 DEF Idle
<1>5. ASSUME NEW c \in Callers, Shutdown(c) PROVE LockInv'
  <2>1. lock = None /\ lock' = None
    BY <1>5 DEF Shutdown, CanLock
  <2>2. call'[c].at = "shutdown" /\ \A d \in Callers \ {c} : call'[d] = call[d]
    BY <1>5 DEF Shutdown, Begin, Idle
  <2> QED
    BY <2>1, <2>2
\* Steps outside the critical sections.
<1>6. ASSUME NEW c \in Callers,
             \/ GoroutinesTerminated(c) \/ Snapshot(c) \/ Waited(c) \/ CollectResult(c)
             \/ ResultComplete(c) \/ Return(c) \/ \E x \in Contexts : CallWaitForCacheSync(c, x)
      PROVE  LockInv'
  <2>1. UNCHANGED <<lock, informers, shuttingDown>>
    BY <1>6 DEF GoroutinesTerminated, Snapshot, Waited, CollectResult, ResultComplete, Return,
       CallWaitForCacheSync, factoryVars
  <2>2. \A d \in Callers \ {c} : call'[d] = call[d]
    BY <1>6 DEF GoroutinesTerminated, Snapshot, Waited, CollectResult, ResultComplete, Return,
       CallWaitForCacheSync, Go, Begin
  <2>3. call[c].at \notin {"create", "start"}
    <3>1. CASE \E x \in Contexts : CallWaitForCacheSync(c, x)
      BY <3>1 DEF CallWaitForCacheSync, Begin, Idle
    <3>2. CASE \/ GoroutinesTerminated(c) \/ Snapshot(c) \/ Waited(c) \/ CollectResult(c)
               \/ ResultComplete(c) \/ Return(c)
      BY <3>2 DEF GoroutinesTerminated, Snapshot, Waited, CollectResult, ResultComplete,
         Return, Go
    <3> QED
      BY <1>6, <3>1, <3>2
  <2>4. call'[c].at \notin {"create", "start"}
    <3>1. CASE CollectResult(c)
      BY <3>1 DEF CollectResult, Calls
    <3>2. CASE Snapshot(c)
      BY <3>2 DEF Snapshot, Calls
    <3>3. CASE Return(c)
      BY <3>3 DEF Return, Idle
    <3>4. CASE GoroutinesTerminated(c) \/ Waited(c) \/ ResultComplete(c)
      BY <3>4 DEF GoroutinesTerminated, Waited, ResultComplete, Go, Calls
    <3>5. CASE \E x \in Contexts : CallWaitForCacheSync(c, x)
      BY <3>5 DEF CallWaitForCacheSync, Begin, Idle
    <3> QED
      BY <1>6, <3>1, <3>2, <3>3, <3>4, <3>5
  <2> QED
    BY <2>1, <2>2, <2>3, <2>4
<1>7. ASSUME UNCHANGED <<lock, informers, shuttingDown, call>> PROVE LockInv'
  BY <1>7
<1> QED
  BY <1>1, <1>2, <1>3, <1>4, <1>5, <1>6, <1>7 DEF Next, Proceed, InformerExists, StartInformer,
     InformerSyncs, InformerStops, Cancel, factoryVars
-----------------------------------------------------------------------------
(* The informers.                                                          *)

\* Only one action changes the map, one starts informers and one stops them.
LEMMA Writers ==
    ASSUME Next
    PROVE  /\ informers' = informers \/ \E c \in Callers : CreateInformer(c)
           /\ \/ UNCHANGED <<informers, handed>>
              \/ \E t \in Types : InformerExists(t)
              \/ \E c \in Callers : CreateInformer(c)
           /\ \/ UNCHANGED <<startedInformers, run, wg>>
              \/ \E c \in Callers : StartInformer(c)
              \/ \E i \in Informers : InformerStops(i)
BY DEF Next, Proceed, InformerMissing, CreateInformer, InformerExists, StartWithContext, StartInformer, AllStarted,
   Shutdown, GoroutinesTerminated, CallWaitForCacheSync, Snapshot, Waited, CollectResult,
   ResultComplete, Return, InformerSyncs, InformerStops, Cancel, factoryVars, informerVars

\* The informer of a type is created once, by a call that found none.
LEMMA Created ==
    ASSUME IInv, NEW c \in Callers, CreateInformer(c)
    PROVE  \E t \in Types, i \in New :
                /\ informers[t] = None
                /\ informers' = [informers EXCEPT ![t] = i]
                /\ handed' = handed \cup {<<t, i>>}
                /\ UNCHANGED <<startedInformers, run, wg, released, shuttingDown, synced, cancelled>>
BY DEF IInv, LockInv, CreateInformer, informerVars

LEMMA HandedStep ==
    ASSUME IInv, Next
    PROVE  HandedInv'
<1> USE FactoryAssumption DEF IInv, TypeOK, HandedInv
<1>1. CASE UNCHANGED <<informers, handed>>
  BY <1>1
<1>2. ASSUME NEW t \in Types, InformerExists(t) PROVE HandedInv'
  BY <1>2 DEF InformerExists, factoryVars
<1>3. ASSUME NEW c \in Callers, CreateInformer(c) PROVE HandedInv'
  <2>1. PICK t \in Types, i \in New :
            /\ informers[t] = None
            /\ informers' = [informers EXCEPT ![t] = i]
            /\ handed' = handed \cup {<<t, i>>}
    BY <1>3, Created
  <2>2. i \in Informers /\ i # None /\ \A p \in handed : p[2] # i
    BY DEF New
  <2>3. ASSUME NEW u \in Types, informers[u] = i
        PROVE  FALSE
    <3>1. <<u, i>> \in handed
      BY <2>2, <2>3
    <3>2. <<u, i>>[2] = i
      OBVIOUS
    <3> QED
      BY <2>2, <3>1, <3>2
  <2>4. \A p \in handed : p[1] # t
    BY <2>1
  <2> QED
    BY <2>1, <2>2, <2>3, <2>4
<1> QED
  BY <1>1, <1>2, <1>3, Writers

\* An informer is started when it never was before.
LEMMA StartedNew ==
    ASSUME IInv, NEW c \in Callers, StartInformer(c)
    PROVE  \E t \in Types :
                /\ informers[t] \in Informers
                /\ run[informers[t]] = None
                /\ call[c].ctx \in Contexts
                /\ run' = [run EXCEPT ![informers[t]] = call[c].ctx]
                /\ startedInformers' = startedInformers \cup {t}
                /\ wg' = wg + 1
                /\ informers' = informers
<1>1. PICK t \in ToStart : /\ run' = [run EXCEPT ![informers[t]] = call[c].ctx]
                           /\ startedInformers' = startedInformers \cup {t}
  BY DEF StartInformer
<1>2. t \in Types /\ t \notin startedInformers /\ informers[t] \in Informers
  BY DEF ToStart, IInv, TypeOK
<1>3. run[informers[t]] = None
  BY <1>2, FactoryAssumption DEF IInv, RunInv, HandedInv, TypeOK
<1>4. call[c].ctx \in Contexts
  BY DEF IInv, LockInv, StartInformer
<1> QED
  BY <1>1, <1>2, <1>3, <1>4 DEF StartInformer, Counted

LEMMA RunStep ==
    ASSUME IInv, Next
    PROVE  RunInv'
<1> USE FactoryAssumption DEF IInv, TypeOK, RunInv
<1>1. CASE UNCHANGED <<startedInformers, run, informers>>
  BY <1>1
<1>2. ASSUME NEW c \in Callers, CreateInformer(c) PROVE RunInv'
  <2>1. PICK t \in Types, i \in New :
            /\ informers[t] = None
            /\ informers' = [informers EXCEPT ![t] = i]
            /\ UNCHANGED <<startedInformers, run>>
    BY <1>2, Created
  <2>2. \A u \in startedInformers : u # t /\ informers'[u] = informers[u]
    BY <2>1
  <2> QED
    BY <2>1, <2>2
<1>3. ASSUME NEW c \in Callers, StartInformer(c) PROVE RunInv'
  <2>1. PICK t \in Types : /\ informers[t] \in Informers
                           /\ run' = [run EXCEPT ![informers[t]] = call[c].ctx]
                           /\ startedInformers' = startedInformers \cup {t}
                           /\ informers' = informers
    BY <1>3, StartedNew
  <2> QED
    BY <2>1
<1>4. ASSUME NEW i \in Informers, InformerStops(i) PROVE RunInv'
  BY <1>4 DEF InformerStops
<1> QED
  BY <1>1, <1>2, <1>3, <1>4, Writers

LEMMA CountStep ==
    ASSUME IInv, Next
    PROVE  CountInv'
<1> USE FactoryAssumption DEF IInv, TypeOK, CountInv
<1>1. CASE UNCHANGED <<run, wg>>
  BY <1>1 DEF Running
<1>2. ASSUME NEW c \in Callers, StartInformer(c) PROVE CountInv'
  <2>1. PICK t \in Types : /\ informers[t] \in Informers
                           /\ run[informers[t]] = None
                           /\ call[c].ctx \in Contexts
                           /\ run' = [run EXCEPT ![informers[t]] = call[c].ctx]
                           /\ wg' = wg + 1
    BY <1>2, StartedNew
  <2>2. Running' = Running \cup {informers[t]} /\ informers[t] \notin Running
    BY <2>1 DEF Running
  <2> QED
    BY <2>1, <2>2, FS_AddElement
<1>3. ASSUME NEW i \in Informers, InformerStops(i) PROVE CountInv'
  <2>1. Running' = Running \ {i} /\ i \in Running
    BY <1>3 DEF InformerStops, Running
  <2> QED
    BY <1>3, <2>1, FS_RemoveElement DEF InformerStops
<1> QED
  BY <1>1, <1>2, <1>3, Writers
-----------------------------------------------------------------------------
(* Shutting down.                                                          *)
LEMMA ShutStep ==
    ASSUME IInv, Next
    PROVE  ShutInv'
<1> USE FactoryAssumption DEF IInv, TypeOK, ShutInv
<1>1. Running = {} <=> wg = 0
  BY FS_EmptySet DEF CountInv
<1>2. ASSUME NEW c \in Callers, StartInformer(c) PROVE ShutInv'
  BY <1>2 DEF StartInformer, LockInv
<1>3. ASSUME NEW c \in Callers, Shutdown(c) PROVE ShutInv'
  <2>1. call'[c].at = "shutdown" /\ \A d \in Callers \ {c} : call'[d] = call[d]
    BY <1>3 DEF Shutdown, Begin, Idle
  <2>2. shuttingDown' /\ released' = released /\ Running' = Running
    BY <1>3 DEF Shutdown, Running, informerVars
  <2> QED
    BY <2>1, <2>2
<1>4. ASSUME NEW c \in Callers, GoroutinesTerminated(c) PROVE ShutInv'
  <2>1. shuttingDown /\ shuttingDown' = shuttingDown /\ Running' = Running /\ Running = {}
    BY <1>1, <1>4 DEF GoroutinesTerminated, Go, Running, informerVars
  <2> QED
    BY <2>1
<1>5. ASSUME NEW i \in Informers, InformerStops(i) PROVE ShutInv'
  <2>1. Running' \subseteq Running
    BY <1>5 DEF InformerStops, Running
  <2> QED
    BY <1>5, <2>1 DEF InformerStops
\* Calls that neither begin nor end to shut down.
<1>6. ASSUME UNCHANGED <<released, shuttingDown, run>>,
             \A c \in Callers : call'[c].at \in {"shutdown", "terminated"} => call'[c] = call[c]
      PROVE  ShutInv'
  <2>1. Running' = Running
    BY <1>6 DEF Running
  <2> QED
    BY <1>6, <2>1
<1>7. ASSUME NEW c \in Callers,
             \/ \E t \in Types : InformerMissing(c, t)
             \/ \E x \in Contexts : StartWithContext(c, x) \/ CallWaitForCacheSync(c, x)
      PROVE  ShutInv'
  <2>1. UNCHANGED <<released, shuttingDown, run>>
    BY <1>7 DEF InformerMissing, StartWithContext, CallWaitForCacheSync, factoryVars, informerVars
  <2>2. /\ call'[c].at \notin {"shutdown", "terminated"}
        /\ \A d \in Callers \ {c} : call'[d] = call[d]
    <3>1. CASE \E t \in Types : InformerMissing(c, t)
      BY <3>1 DEF InformerMissing, Begin, Idle
    <3>2. CASE \E x \in Contexts : StartWithContext(c, x)
      BY <3>2 DEF StartWithContext, Begin, Idle
    <3>3. CASE \E x \in Contexts : CallWaitForCacheSync(c, x)
      BY <3>3 DEF CallWaitForCacheSync, Begin, Idle
    <3> QED
      BY <1>7, <3>1, <3>2, <3>3
  <2> QED
    BY <1>6, <2>1, <2>2
<1>8. ASSUME NEW c \in Callers, CreateInformer(c) \/ AllStarted(c) \/ Return(c) PROVE ShutInv'
  <2>1. UNCHANGED <<released, shuttingDown, run>>
    BY <1>8 DEF CreateInformer, AllStarted, Return, factoryVars, informerVars
  <2>2. call'[c].at = "idle" /\ \A d \in Callers \ {c} : call'[d] = call[d]
    BY <1>8 DEF CreateInformer, AllStarted, Return, Idle
  <2> QED
    BY <1>6, <2>1, <2>2
<1>9. ASSUME NEW c \in Callers, Snapshot(c) \/ Waited(c) \/ CollectResult(c) \/ ResultComplete(c)
      PROVE  ShutInv'
  <2>1. UNCHANGED <<released, shuttingDown, run>>
    BY <1>9 DEF Snapshot, Waited, CollectResult, ResultComplete, factoryVars, informerVars
  <2>2. /\ call'[c].at \notin {"shutdown", "terminated"}
        /\ \A d \in Callers \ {c} : call'[d] = call[d]
    <3>1. CASE CollectResult(c)
      BY <3>1 DEF CollectResult, Calls
    <3>2. CASE Snapshot(c)
      BY <3>2 DEF Snapshot, Calls
    <3>3. CASE Waited(c) \/ ResultComplete(c)
      BY <3>3 DEF Waited, ResultComplete, Go, Calls
    <3> QED
      BY <1>9, <3>1, <3>2, <3>3
  <2> QED
    BY <1>6, <2>1, <2>2
<1>10. ASSUME UNCHANGED <<released, shuttingDown, run, call>> PROVE ShutInv'
  BY <1>6, <1>10
<1> QED
  BY <1>2, <1>3, <1>4, <1>5, <1>7, <1>8, <1>9, <1>10 DEF Next, Proceed, InformerExists,
     InformerSyncs, Cancel, factoryVars, informerVars
-----------------------------------------------------------------------------
(* Waiting for the first lists.                                            *)
SyncOf(c) ==
    /\ call[c].before \subseteq startedInformers
    /\ call[c].waitFor \subseteq startedInformers
    /\ call[c].unsynced # {} => call[c].ctx \in cancelled
    /\ call[c].at = "wait" => call[c].before \subseteq call[c].waitFor
    /\ call[c].at \in {"result", "returned"} => \A t \in call[c].before :
            t \in call[c].waitFor \/ t \in call[c].unsynced \/ HasSynced(t)
    /\ call[c].at = "result" =>
            call[c].ctx \in cancelled \/ \A t \in call[c].waitFor : HasSynced(t)
    /\ call[c].at = "returned" => call[c].waitFor = {}

\* What has been started, synced or cancelled stays so.
LEMMA Monotone ==
    ASSUME IInv, Next
    PROVE  /\ startedInformers \subseteq startedInformers'
           /\ cancelled \subseteq cancelled'
           /\ \A t \in startedInformers : HasSynced(t) => HasSynced(t)'
<1>1. startedInformers \subseteq startedInformers'
  BY Writers DEF StartInformer, InformerStops
<1>2. cancelled \subseteq cancelled' /\ synced \subseteq synced'
  BY DEF Next, Proceed, InformerMissing, CreateInformer, InformerExists, StartWithContext,
     StartInformer, AllStarted, Shutdown, GoroutinesTerminated, CallWaitForCacheSync, Snapshot,
     Waited, CollectResult, ResultComplete, Return, InformerSyncs, InformerStops, Cancel,
     factoryVars, informerVars
<1>3. \A t \in startedInformers : informers'[t] = informers[t]
  BY Writers, Created DEF IInv, TypeOK, RunInv
<1> QED
  BY <1>1, <1>2, <1>3 DEF HasSynced

LEMMA SameCallKeepsSync ==
    ASSUME IInv, Next, NEW c \in Callers, call'[c] = call[c]
    PROVE  SyncOf(c)'
<1>1. SyncOf(c)
  BY DEF IInv, SyncInv, SyncOf
<1>2. call[c].before \subseteq startedInformers
  BY <1>1 DEF SyncOf
<1> QED
  BY <1>1, <1>2, Monotone DEF SyncOf

\* A call that does not wait has nothing to report.
LEMMA FreshCallKeepsSync ==
    ASSUME NEW c \in Callers, call'[c].at \notin {"wait", "result", "returned"},
           call'[c].before \subseteq startedInformers', call'[c].waitFor = {},
           call'[c].unsynced = {}
    PROVE  SyncOf(c)'
BY DEF SyncOf

LEMMA SyncStep ==
    ASSUME IInv, Next
    PROVE  SyncInv'
<1> SUFFICES \A c \in Callers : SyncOf(c)'
  BY DEF SyncInv, SyncOf
<1>0. \A c \in Callers : SyncOf(c) /\ call[c] \in Calls
  BY DEF IInv, SyncInv, SyncOf, TypeOK
<1>1. ASSUME UNCHANGED call PROVE \A c \in Callers : SyncOf(c)'
  BY <1>1, SameCallKeepsSync
<1>2. ASSUME NEW c \in Callers, \A d \in Callers \ {c} : call'[d] = call[d], SyncOf(c)'
      PROVE  \A d \in Callers : SyncOf(d)'
  BY <1>2, SameCallKeepsSync
<1>3. ASSUME NEW c \in Callers, NEW t \in Types, InformerMissing(c, t)
      PROVE  \A d \in Callers : SyncOf(d)'
  <2>1. call' = [call EXCEPT ![c] = [Idle EXCEPT !.at = "create", !.type = t]]
    BY <1>3 DEF InformerMissing, Begin
  <2> QED
    BY <1>2, <2>1, FreshCallKeepsSync DEF Idle, IInv, TypeOK
<1>4. ASSUME NEW c \in Callers, NEW x \in Contexts, StartWithContext(c, x)
      PROVE  \A d \in Callers : SyncOf(d)'
  <2>1. call' = [call EXCEPT ![c] = [Idle EXCEPT !.at = "start", !.ctx = x]]
    BY <1>4 DEF StartWithContext, Begin
  <2> QED
    BY <1>2, <2>1, FreshCallKeepsSync DEF Idle, IInv, TypeOK
<1>5. ASSUME NEW c \in Callers, Shutdown(c) PROVE \A d \in Callers : SyncOf(d)'
  <2>1. call' = [call EXCEPT ![c] = [Idle EXCEPT !.at = "shutdown"]]
    BY <1>5 DEF Shutdown, Begin
  <2> QED
    BY <1>2, <2>1, FreshCallKeepsSync DEF Idle, IInv, TypeOK
<1>6. ASSUME NEW c \in Callers, CreateInformer(c) \/ AllStarted(c) \/ Return(c)
      PROVE  \A d \in Callers : SyncOf(d)'
  <2>1. call' = [call EXCEPT ![c] = Idle]
    BY <1>6 DEF CreateInformer, AllStarted, Return
  <2> QED
    BY <1>2, <2>1, FreshCallKeepsSync DEF Idle, IInv, TypeOK
<1>7. ASSUME NEW c \in Callers, GoroutinesTerminated(c) PROVE \A d \in Callers : SyncOf(d)'
  <2>1. call' = [call EXCEPT ![c].at = "terminated"]
    BY <1>7 DEF GoroutinesTerminated, Go
  <2>2. SyncOf(c)'
    BY <1>0, <1>7, <2>1 DEF SyncOf, Calls, GoroutinesTerminated, IInv, TypeOK, informerVars
  <2> QED
    BY <1>2, <2>1, <2>2 DEF IInv, TypeOK
<1>8. ASSUME NEW c \in Callers, NEW x \in Contexts, CallWaitForCacheSync(c, x)
      PROVE  \A d \in Callers : SyncOf(d)'
  <2>1. /\ call' = [call EXCEPT ![c] = [Idle EXCEPT !.at = "snapshot", !.ctx = x,
                                                    !.before = startedInformers]]
        /\ startedInformers' = startedInformers
    BY <1>8 DEF CallWaitForCacheSync, Begin, factoryVars
  <2> QED
    BY <1>2, <2>1, FreshCallKeepsSync DEF Idle, IInv, TypeOK
<1>9. ASSUME NEW c \in Callers, Snapshot(c) PROVE \A d \in Callers : SyncOf(d)'
  <2>1. /\ call[c].at = "snapshot"
        /\ call' = [call EXCEPT ![c].at = "wait", ![c].waitFor = Started]
        /\ UNCHANGED <<startedInformers, cancelled>>
    BY <1>9 DEF Snapshot, factoryVars, informerVars
  <2>2. Started = startedInformers
    BY DEF Started, IInv, RunInv
  <2>3. SyncOf(c)'
    BY <1>0, <2>1, <2>2 DEF SyncOf, Calls, IInv, TypeOK
  <2> QED
    BY <1>2, <2>1, <2>3 DEF IInv, TypeOK
<1>10. ASSUME NEW c \in Callers, Waited(c) PROVE \A d \in Callers : SyncOf(d)'
  <2>1. /\ call[c].at = "wait"
        /\ call' = [call EXCEPT ![c].at = "result"]
        /\ UNCHANGED <<startedInformers, cancelled, synced, informers>>
    BY <1>10 DEF Waited, Go, factoryVars, informerVars
  <2>2. call[c].ctx \in cancelled \/ \A t \in call[c].waitFor : HasSynced(t)
    BY <1>10 DEF Waited, WaitIsOver
  <2>3. SyncOf(c)'
    BY <1>0, <2>1, <2>2 DEF SyncOf, Calls, HasSynced, IInv, TypeOK
  <2> QED
    BY <1>2, <2>1, <2>3 DEF IInv, TypeOK
<1>11. ASSUME NEW c \in Callers, CollectResult(c) PROVE \A d \in Callers : SyncOf(d)'
  <2>1. PICK t \in call[c].waitFor :
            call' = [call EXCEPT
                ![c].waitFor = @ \ {t},
                ![c].unsynced = IF HasSynced(t) THEN @ ELSE @ \cup {t}]
    BY <1>11 DEF CollectResult
  <2>2. /\ call[c].at = "result"
        /\ UNCHANGED <<startedInformers, cancelled, synced, informers>>
    BY <1>11 DEF CollectResult, factoryVars, informerVars
  <2>3. CASE HasSynced(t)
    <3>1. /\ call'[c].waitFor = call[c].waitFor \ {t}
          /\ call'[c].unsynced = call[c].unsynced
          /\ call'[c].at = "result"
          /\ call'[c].before = call[c].before
          /\ call'[c].ctx = call[c].ctx
      BY <1>0, <2>1, <2>2, <2>3 DEF Calls, IInv, TypeOK
    <3>2. SyncOf(c)'
      BY <1>0, <2>2, <2>3, <3>1 DEF SyncOf, HasSynced
    <3> QED
      BY <1>2, <2>1, <3>2 DEF IInv, TypeOK
  <2>4. CASE ~HasSynced(t)
    <3>1. /\ call'[c].waitFor = call[c].waitFor \ {t}
          /\ call'[c].unsynced = call[c].unsynced \cup {t}
          /\ call'[c].at = "result"
          /\ call'[c].before = call[c].before
          /\ call'[c].ctx = call[c].ctx
      BY <1>0, <2>1, <2>2, <2>4 DEF Calls, IInv, TypeOK
    <3>2. call[c].ctx \in cancelled
      BY <1>0, <2>2, <2>4 DEF SyncOf
    <3>3. SyncOf(c)'
      BY <1>0, <2>2, <3>1, <3>2 DEF SyncOf, HasSynced
    <3> QED
      BY <1>2, <2>1, <3>3 DEF IInv, TypeOK
  <2> QED
    BY <2>3, <2>4
<1>12. ASSUME NEW c \in Callers, ResultComplete(c) PROVE \A d \in Callers : SyncOf(d)'
  <2>1. /\ call[c].at = "result" /\ call[c].waitFor = {}
        /\ call' = [call EXCEPT ![c].at = "returned"]
        /\ UNCHANGED <<startedInformers, cancelled, synced, informers>>
    BY <1>12 DEF ResultComplete, Go, factoryVars, informerVars
  <2>2. SyncOf(c)'
    BY <1>0, <2>1 DEF SyncOf, Calls, HasSynced, IInv, TypeOK
  <2> QED
    BY <1>2, <2>1, <2>2 DEF IInv, TypeOK
<1> QED
  BY <1>1, <1>3, <1>4, <1>5, <1>6, <1>7, <1>8, <1>9, <1>10, <1>11, <1>12 DEF Next, Proceed,
     InformerExists, StartInformer, InformerSyncs, InformerStops, Cancel
-----------------------------------------------------------------------------
LEMMA InvariantHolds == Spec => []IInv
<1>1. Init => IInv
  <2> SUFFICES ASSUME Init PROVE IInv
    OBVIOUS
  <2>1. TypeOK
    BY IdleTypes DEF Init, TypeOK
  <2>2. Running = {}
    BY FactoryAssumption DEF Init, Running
  <2>3. CountInv
    BY <2>2, FS_EmptySet DEF CountInv, Init
  <2>4. LockInv /\ HandedInv /\ RunInv /\ ShutInv /\ SyncInv
    BY FactoryAssumption DEF Init, Idle, LockInv, HandedInv, RunInv, ShutInv, SyncInv
  <2> QED
    BY <2>1, <2>3, <2>4 DEF IInv
<1>2. IInv /\ [Next]_vars => IInv'
  <2>1. ASSUME IInv, UNCHANGED vars PROVE IInv'
    BY <2>1 DEF IInv, TypeOK, LockInv, HandedInv, RunInv, CountInv, ShutInv, SyncInv, Running,
       HasSynced, vars, factoryVars, informerVars
  <2>2. ASSUME IInv, Next PROVE IInv'
    BY <2>2, TypeStep, LockStep, HandedStep, RunStep, CountStep, ShutStep, SyncStep DEF IInv
  <2> QED
    BY <2>1, <2>2
<1> QED
  BY <1>1, <1>2, PTL DEF Spec

\* The state of the factory, its informers and its callers is well typed.
THEOREM TypeCorrect == Spec => []TypeOK
BY InvariantHolds, PTL DEF IInv

\* Whoever asks for the informer of a type gets the same one, and no other runs
\* (factory.go, 211-235).
THEOREM OneInformer == Spec => []OneInformerPerType
<1>1. IInv => OneInformerPerType
  BY FactoryAssumption DEF IInv, TypeOK, HandedInv, RunInv, OneInformerPerType, Running
<1> QED
  BY <1>1, InvariantHolds, PTL

\* No call of Shutdown returns while an informer runs, and none is started
\* later (factory.go, 132-162).
THEOREM ShutdownIsFinal == Spec => []ShutdownBlocks
<1>1. IInv => ShutdownBlocks
  BY DEF IInv, ShutInv, ShutdownBlocks
<1> QED
  BY <1>1, InvariantHolds, PTL

\* A result of WaitForCacheSync without an error covers everything that was
\* started before (factory.go, 164-209).
THEOREM SyncResult == Spec => []SyncCoversStarted
<1>1. IInv => SyncCoversStarted
  BY DEF IInv, SyncInv, SyncCoversStarted
<1> QED
  BY <1>1, InvariantHolds, PTL

\* If one reports that a cache has not synced, the context was cancelled: the
\* result is never incomplete without a cause (factory.go, 192-207).
THEOREM FailureIsExplained == Spec => []FailureHasCause
<1>1. IInv => FailureHasCause
  BY DEF IInv, SyncInv, FailureHasCause
<1> QED
  BY <1>1, InvariantHolds, PTL
-----------------------------------------------------------------------------
(* The refinement.                                                         *)
StageOf == [t \in Types |-> Stage(informers[t])]

\* One informer changes the stage of its type only.
LEMMA StageMoves ==
    ASSUME IInv, NEW t \in Types, NEW i \in Informers,
           informers' = [informers EXCEPT ![t] = i],
           \A j \in Informers \ {i} : run'[j] = run[j],
           informers[t] \in {None, i}, informers[t] = None => i \in New
    PROVE  StageOf' = [StageOf EXCEPT ![t] = Stage(i)']
<1> USE FactoryAssumption DEF IInv, TypeOK
<1>1. ASSUME NEW u \in Types, u # t PROVE Stage(informers[u])' = Stage(informers[u])
  <2>1. informers'[u] = informers[u]
    BY <1>1
  <2>2. informers[u] # i
    <3>1. CASE informers[t] = i
      BY <1>1, <3>1 DEF HandedInv
    <3>2. CASE i \in New
      <4>1. informers[u] = i => <<u, i>> \in handed
        BY DEF HandedInv
      <4>2. <<u, i>>[2] = i
        OBVIOUS
      <4> QED
        BY <3>2, <4>1, <4>2 DEF New
    <3> QED
      BY <3>1, <3>2
  <2> QED
    BY <2>1, <2>2 DEF Stage
<1>2. informers'[t] = i
  OBVIOUS
<1> QED
  BY <1>1, <1>2 DEF StageOf

LEMMA SameStages ==
    ASSUME UNCHANGED <<informers, run>>
    PROVE  StageOf' = StageOf
BY DEF StageOf, Stage

LEMMA StepRefines ==
    ASSUME IInv, [Next]_vars
    PROVE  [Lifecycle!Next]_(Lifecycle!vars)
<1> USE FactoryAssumption DEF IInv, TypeOK
<1> DEFINE Same == StageOf' = StageOf /\ UNCHANGED <<shuttingDown, released>>
<1>1. ASSUME Same PROVE [Lifecycle!Next]_(Lifecycle!vars)
  BY <1>1 DEF Lifecycle!vars, StageOf
<1>2. ASSUME NEW c \in Callers, CreateInformer(c) PROVE \E t \in Types : Lifecycle!Request(t)
  <2>1. PICK t \in Types, i \in New : /\ informers[t] = None
                                      /\ informers' = [informers EXCEPT ![t] = i]
                                      /\ UNCHANGED <<run, released, shuttingDown>>
    BY <1>2, Created
  <2>2. i \in Informers /\ \A p \in handed : p[2] # i
    BY DEF New
  <2>3. run[i] = None
    <3>1. \A u \in Types : informers[u] = i => <<u, i>> \in handed
      BY <2>2 DEF HandedInv
    <3>2. \A u \in Types : <<u, i>>[2] = i
      OBVIOUS
    <3> QED
      BY <2>2, <3>1, <3>2 DEF RunInv
  <2>4. StageOf' = [StageOf EXCEPT ![t] = Stage(i)']
    BY <2>1, <2>2, StageMoves
  <2>5. Stage(i)' = "requested" /\ StageOf[t] = "none"
    BY <2>1, <2>2, <2>3 DEF Stage, StageOf
  <2> QED
    BY <2>1, <2>4, <2>5 DEF Lifecycle!Request, Lifecycle!Moves, StageOf
<1>3. ASSUME NEW c \in Callers, StartInformer(c) PROVE \E t \in Types : Lifecycle!Start(t)
  <2>1. PICK t \in Types : /\ informers[t] \in Informers
                           /\ run[informers[t]] = None
                           /\ call[c].ctx \in Contexts
                           /\ run' = [run EXCEPT ![informers[t]] = call[c].ctx]
                           /\ informers' = informers
    BY <1>3, StartedNew
  <2>2. StageOf' = [StageOf EXCEPT ![t] = Stage(informers[t])']
    <3>1. PICK i \in Informers : i = informers[t]
      BY <2>1
    <3>2. informers' = [informers EXCEPT ![t] = i]
      BY <2>1, <3>1
    <3>3. \A j \in Informers \ {i} : run'[j] = run[j]
      BY <2>1, <3>1
    <3>4. i # None /\ informers[t] \in {None, i} /\ (informers[t] = None => i \in New)
      BY <3>1
    <3>5. StageOf' = [StageOf EXCEPT ![t] = Stage(i)']
      BY <3>2, <3>3, <3>4, StageMoves
    <3>6. Stage(i)' = Stage(informers[t])'
      BY <2>1, <3>1 DEF Stage
    <3> QED
      BY <3>5, <3>6
  <2>3. Stage(informers[t])' = "running" /\ StageOf[t] = "requested"
    BY <2>1 DEF Stage, StageOf
  <2>4. ~shuttingDown /\ UNCHANGED <<released, shuttingDown>>
    BY <1>3 DEF StartInformer, LockInv
  <2> QED
    BY <2>2, <2>3, <2>4 DEF Lifecycle!Start, Lifecycle!Moves, StageOf
<1>4. ASSUME NEW i \in Informers, InformerStops(i) PROVE \E t \in Types : Lifecycle!Stop(t)
  <2>1. run[i] \in Contexts /\ run' = [run EXCEPT ![i] = "stopped"]
        /\ UNCHANGED <<informers, released, shuttingDown>>
    BY <1>4 DEF InformerStops
  <2>2. PICK t \in Types : informers[t] = i
    BY <2>1 DEF RunInv
  <2>3. informers' = [informers EXCEPT ![t] = i]
    BY <2>1, <2>2
  <2>4. StageOf' = [StageOf EXCEPT ![t] = Stage(i)']
    BY <2>1, <2>2, <2>3, StageMoves
  <2>5. Stage(i)' = "stopped" /\ StageOf[t] = "running"
    BY <2>1, <2>2 DEF Stage, StageOf
  <2> QED
    BY <2>1, <2>4, <2>5 DEF Lifecycle!Stop, Lifecycle!Moves, StageOf
<1>5. ASSUME NEW c \in Callers, Shutdown(c) PROVE Lifecycle!Close
  BY <1>5, SameStages DEF Shutdown, informerVars, Lifecycle!Close, StageOf
<1>6. ASSUME NEW c \in Callers, GoroutinesTerminated(c) PROVE Lifecycle!Closed
  <2>1. shuttingDown /\ Running = {} /\ released' /\ UNCHANGED <<shuttingDown, informers, run>>
    BY <1>6, FS_EmptySet DEF GoroutinesTerminated, Go, informerVars, ShutInv, CountInv
  <2>2. \A t \in Types : Stage(informers[t]) # "running"
    BY <2>1 DEF Stage, Running
  <2> QED
    BY <2>1, <2>2, SameStages DEF Lifecycle!Closed, StageOf
<1>7. ASSUME UNCHANGED <<informers, run, shuttingDown, released>> PROVE Same
  BY <1>7, SameStages
<1> QED
  BY <1>1, <1>2, <1>3, <1>4, <1>5, <1>6, <1>7 DEF Next, Proceed, InformerMissing, InformerExists,
     StartWithContext, AllStarted, CallWaitForCacheSync, Snapshot, Waited, CollectResult,
     ResultComplete, Return, InformerSyncs, Cancel, factoryVars, informerVars, vars, Lifecycle!Next

\* The factory is what its interface promises: an informer is created and
\* started once, none after Shutdown, which is done when all have stopped
\* (factory.go, 132-162 and 211-235).
THEOREM RefinesLifecycle == Spec => ImplementsLifecycle
<1>1. Init => Lifecycle!Init
  BY DEF Init, Lifecycle!Init, Stage
<1> QED
  BY <1>1, StepRefines, InvariantHolds, PTL DEF Spec, ImplementsLifecycle, Lifecycle!Spec
==============================================================================
