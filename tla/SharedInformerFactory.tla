------------------------ MODULE SharedInformerFactory ------------------------
(***************************************************************************)
(* pkg/client/informers/externalversions/factory.go: the factory that      *)
(* shares one informer per type among the goroutines of a client program.  *)
(*                                                                         *)
(* Calls are cut where they take the mutex, where they block, and inside   *)
(* the critical sections that read and then write.  The informers are      *)
(* client-go's: RunWithContext lists and watches until its context is      *)
(* cancelled, and syncs once.                                              *)
(***************************************************************************)
EXTENDS Naturals

CONSTANTS
    Types,          \* the types of objects
    Informers,      \* the informers that newFunc may return
    Callers,        \* the goroutines that use the factory
    Contexts,       \* the contexts (stop channels) they pass
    None            \* no informer, no caller, no type, no context

ASSUME FactoryAssumption ==
    /\ None \notin Types \cup Informers \cup Callers \cup Contexts \cup {"stopped"}
    /\ "stopped" \notin Contexts

VARIABLES
    lock,               \* the goroutine that holds the mutex
    informers,          \* type -> its informer
    startedInformers,   \* the types whose informer was started
    wg,                 \* the wait group's count
    shuttingDown,
    released,           \* informerName was released
    run,                \* informer -> the context it runs with, None before, "stopped" after
    synced,             \* the informers that have handled their first list
    cancelled,          \* the contexts that were cancelled
    call,               \* caller -> its call and the call's variables
    handed              \* the informers handed out so far, with their types (history)

factoryVars == <<lock, informers, startedInformers, wg, shuttingDown, released>>
informerVars == <<run, synced, cancelled>>
vars == <<factoryVars, informerVars, call, handed>>

\* Where a call is, the type or context it was given, the types it waits for,
\* the ones its result reports as not synced, and the ones that were started
\* before it (history).
Calls == [at       : {"idle", "create", "start", "shutdown", "terminated",
                      "snapshot", "wait", "result", "returned"},
          type     : Types \cup {None},
          ctx      : Contexts \cup {None},
          waitFor  : SUBSET Types,
          unsynced : SUBSET Types,
          before   : SUBSET Types]

Idle == [at |-> "idle", type |-> None, ctx |-> None,
         waitFor |-> {}, unsynced |-> {}, before |-> {}]

TypeOK ==
    /\ lock \in Callers \cup {None}
    /\ informers \in [Types -> Informers \cup {None}]
    /\ startedInformers \in SUBSET Types
    /\ wg \in Nat
    /\ shuttingDown \in BOOLEAN
    /\ released \in BOOLEAN
    /\ run \in [Informers -> Contexts \cup {None, "stopped"}]
    /\ synced \in SUBSET Informers
    /\ cancelled \in SUBSET Contexts
    /\ call \in [Callers -> Calls]
    /\ handed \in SUBSET (Types \X Informers)

Init ==
    /\ lock = None
    /\ informers = [t \in Types |-> None]
    /\ startedInformers = {}
    /\ wg = 0
    /\ shuttingDown = FALSE
    /\ released = FALSE
    /\ run = [i \in Informers |-> None]
    /\ synced = {}
    /\ cancelled = {}
    /\ call = [c \in Callers |-> Idle]
    /\ handed = {}

\* Variant: a factory without a mutex.
NoMutex == TRUE

CanLock == lock = None

Begin(c, new) ==
    /\ call[c] = Idle
    /\ call' = [call EXCEPT ![c] = new]

Go(c, from, to) ==
    /\ call[c].at = from
    /\ call' = [call EXCEPT ![c].at = to]
-----------------------------------------------------------------------------
(* InformerFor, called directly or through Informer(), Lister() and        *)
(* ForResource.                                                            *)
InformerMissing(c, t) ==
    /\ CanLock
    /\ informers[t] = None
    /\ Begin(c, [Idle EXCEPT !.at = "create", !.type = t])
    /\ lock' = c
    /\ UNCHANGED <<informers, startedInformers, wg, shuttingDown, released,
                   informerVars, handed>>

New == {i \in Informers : \A p \in handed : p[2] # i}

CreateInformer(c) ==
    /\ call[c].at = "create"
    /\ \E i \in New :
        /\ informers' = [informers EXCEPT ![call[c].type] = i]
        /\ handed' = handed \cup {<<call[c].type, i>>}
    /\ lock' = None
    /\ call' = [call EXCEPT ![c] = Idle]
    /\ UNCHANGED <<startedInformers, wg, shuttingDown, released, informerVars>>

\* Another call finds the informer: nothing changes but what was handed out.
InformerExists(t) ==
    /\ CanLock
    /\ informers[t] # None
    /\ handed' = handed \cup {<<t, informers[t]>>}
    /\ UNCHANGED <<factoryVars, informerVars, call>>
-----------------------------------------------------------------------------
(* Start and StartWithContext; once the factory shuts down they return     *)
(* without doing anything.                                                 *)
StartWithContext(c, x) ==
    /\ CanLock
    /\ ~shuttingDown
    /\ Begin(c, [Idle EXCEPT !.at = "start", !.ctx = x])
    /\ lock' = c
    /\ UNCHANGED <<informers, startedInformers, wg, shuttingDown, released,
                   informerVars, handed>>

ToStart == {t \in Types : informers[t] # None /\ t \notin startedInformers}

\* Variants: the goroutine is not counted by the wait group; it is counted by
\* Add and by Go.
NotCounted == wg

CountedTwice == wg + 2

Counted == wg + 1

StartInformer(c) ==
    /\ call[c].at = "start"
    /\ \E t \in ToStart :
        /\ run' = [run EXCEPT ![informers[t]] = call[c].ctx]
        /\ startedInformers' = startedInformers \cup {t}
    /\ wg' = Counted
    /\ UNCHANGED <<lock, informers, shuttingDown, released, synced, cancelled, call, handed>>

AllStarted(c) ==
    /\ call[c].at = "start"
    /\ ToStart = {}
    /\ lock' = None
    /\ call' = [call EXCEPT ![c] = Idle]
    /\ UNCHANGED <<informers, startedInformers, wg, shuttingDown, released,
                   informerVars, handed>>
-----------------------------------------------------------------------------
(* Shutdown, which several goroutines may call.                            *)
Shutdown(c) ==
    /\ CanLock
    /\ Begin(c, [Idle EXCEPT !.at = "shutdown"])
    /\ shuttingDown' = TRUE
    /\ UNCHANGED <<lock, informers, startedInformers, wg, released, informerVars, handed>>

GoroutinesTerminated(c) ==
    /\ wg = 0
    /\ Go(c, "shutdown", "terminated")
    /\ released' = TRUE
    /\ UNCHANGED <<lock, informers, startedInformers, wg, shuttingDown, informerVars, handed>>
-----------------------------------------------------------------------------
(* WaitForCacheSync and WaitForCacheSyncWithContext.                       *)
CallWaitForCacheSync(c, x) ==
    /\ Begin(c, [Idle EXCEPT !.at = "snapshot", !.ctx = x, !.before = startedInformers])
    /\ UNCHANGED <<factoryVars, informerVars, handed>>

\* Variant: informers that have stopped again are left out.
StillRunning == {t \in startedInformers : run[informers[t]] \in Contexts}

Started == {t \in startedInformers : informers[t] # None}

Snapshot(c) ==
    /\ CanLock
    /\ call[c].at = "snapshot"
    /\ call' = [call EXCEPT ![c].at = "wait", ![c].waitFor = Started]
    /\ UNCHANGED <<factoryVars, informerVars, handed>>

HasSynced(t) == informers[t] \in synced

\* Variants: waiting ends with the first informer that has synced; waiting
\* does not end with the context.
FirstHasSynced(c) ==
    \/ call[c].waitFor = {}
    \/ \E t \in call[c].waitFor : HasSynced(t)
    \/ call[c].ctx \in cancelled

AllHaveSynced(c) == \A t \in call[c].waitFor : HasSynced(t)

WaitIsOver(c) ==
    \/ \A t \in call[c].waitFor : HasSynced(t)
    \/ call[c].ctx \in cancelled

Waited(c) ==
    /\ WaitIsOver(c)
    /\ Go(c, "wait", "result")
    /\ UNCHANGED <<factoryVars, informerVars, handed>>

\* The result asks each informer once more, without the mutex.
CollectResult(c) ==
    /\ call[c].at = "result"
    /\ \E t \in call[c].waitFor :
        call' = [call EXCEPT
            ![c].waitFor = @ \ {t},
            ![c].unsynced = IF HasSynced(t) THEN @ ELSE @ \cup {t}]
    /\ UNCHANGED <<factoryVars, informerVars, handed>>

ResultComplete(c) ==
    /\ call[c].waitFor = {}
    /\ Go(c, "result", "returned")
    /\ UNCHANGED <<factoryVars, informerVars, handed>>

\* The caller of Shutdown or WaitForCacheSync goes on.
Return(c) ==
    /\ call[c].at \in {"terminated", "returned"}
    /\ call' = [call EXCEPT ![c] = Idle]
    /\ UNCHANGED <<factoryVars, informerVars, handed>>
-----------------------------------------------------------------------------
(* The informers and the contexts they run with.                           *)
InformerSyncs(i) ==
    /\ run[i] \in Contexts
    /\ synced' = synced \cup {i}
    /\ UNCHANGED <<factoryVars, run, cancelled, call, handed>>

InformerStops(i) ==
    /\ run[i] \in cancelled
    /\ run' = [run EXCEPT ![i] = "stopped"]
    /\ wg' = wg - 1
    /\ UNCHANGED <<lock, informers, startedInformers, shuttingDown, released,
                   synced, cancelled, call, handed>>

Cancel(x) ==
    /\ cancelled' = cancelled \cup {x}
    /\ UNCHANGED <<factoryVars, run, synced, call, handed>>
-----------------------------------------------------------------------------
\* What a call does without its caller or the informers doing anything.
Proceed(c) ==
    \/ CreateInformer(c)
    \/ StartInformer(c)
    \/ AllStarted(c)
    \/ GoroutinesTerminated(c)
    \/ Snapshot(c)
    \/ Waited(c)
    \/ CollectResult(c)
    \/ ResultComplete(c)

Next ==
    \/ \E c \in Callers :
        \/ \E t \in Types : InformerMissing(c, t)
        \/ \E x \in Contexts : StartWithContext(c, x) \/ CallWaitForCacheSync(c, x)
        \/ Shutdown(c)
        \/ Proceed(c)
        \/ Return(c)
    \/ \E t \in Types : InformerExists(t)
    \/ \E i \in Informers : InformerSyncs(i) \/ InformerStops(i)
    \/ \E x \in Contexts : Cancel(x)

Spec == Init /\ [][Next]_vars

\* Goroutines are scheduled, a mutex is granted to who waits for it long
\* enough, and a running informer stops when its context is cancelled.  No
\* caller has to call anything, and no context has to be cancelled.
Fairness ==
    /\ \A c \in Callers : SF_vars(Proceed(c))
    /\ \A i \in Informers : WF_vars(InformerStops(i))

FairSpec == Spec /\ Fairness
-----------------------------------------------------------------------------
Running == {i \in Informers : run[i] \in Contexts}

(* Whoever asks for the informer of a type is handed the same informer, at *)
(* whatever time (InformerFor, factory.go:213-235), and only informers     *)
(* that were handed out run: no caller listens to one that is never        *)
(* started, or misses another one that is.                                 *)
OneInformerPerType ==
    /\ \A p, q \in handed : p[1] = q[1] => p[2] = q[2]
    /\ \A i \in Running : \E t \in Types : <<t, i>> \in handed

(* Every call of Shutdown, concurrent ones included, blocks until all      *)
(* goroutines have terminated, and none is running afterwards; the name of *)
(* the informers is not released before (factory.go:154-162).              *)
ShutdownBlocks ==
    (released \/ \E c \in Callers : call[c].at = "terminated") => Running = {}

(* A result of WaitForCacheSync without an error covers every informer     *)
(* that had been started before the call (factory.go:169-209).             *)
SyncCoversStarted ==
    \A c \in Callers :
        call[c].at = "returned" /\ call[c].unsynced = {} =>
            \A t \in call[c].before : HasSynced(t)

(* "This must be non-nil": a result that reports an informer that has not  *)
(* synced has an error, because the context was cancelled, although the    *)
(* informers go on syncing while the result is put together                *)
(* (factory.go:190-207).                                                   *)
FailureHasCause ==
    \A c \in Callers : call[c].unsynced # {} => call[c].ctx \in cancelled

(* The factory implements what its interface promises: an informer runs at *)
(* most once, none starts after Shutdown, and the factory is shut down     *)
(* when the last one has stopped.                                          *)
Stage(i) ==
    IF i = None THEN "none"
    ELSE IF run[i] = None THEN "requested"
    ELSE IF run[i] = "stopped" THEN "stopped" ELSE "running"

Lifecycle == INSTANCE InformerLifecycle WITH
    stage <- [t \in Types |-> Stage(informers[t])],
    closing <- shuttingDown,
    closed <- released

ImplementsLifecycle == Lifecycle!Spec

(* Shutdown returns once the contexts of the running informers are         *)
(* cancelled, also when this happens while it is waiting                   *)
(* (factory.go:154-162).                                                   *)
ShutdownReturns ==
    \A c \in Callers :
        call[c].at = "shutdown" /\ (\A i \in Running : run[i] \in cancelled)
            ~> call[c].at = "terminated"

(* WaitForCacheSync returns once its context is cancelled, whatever the    *)
(* informers do, and nobody keeps the mutex from it for ever.              *)
WaitForCacheSyncReturns ==
    \A c \in Callers :
        call[c].at \in {"snapshot", "wait"} /\ call[c].ctx \in cancelled
            ~> call[c].at = "returned"
==============================================================================
