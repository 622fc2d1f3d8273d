--------------------------- MODULE ModuleLifetime ---------------------------
(***************************************************************************)
(* One module object (an Instance or a Factory), the detached threads that *)
(* run its transitions, and the owner that disposes of it.                 *)
(*                                                                         *)
(* The constructor starts one detached thread, Initializer, around a       *)
(* TransitionInitializing; each Stop() starts one detached thread around a *)
(* TransitionStopping.  Such a thread, step by step:                       *)
(*   spawned  - runs, has not touched the object yet                       *)
(*   waiting  - counted in mRefCounter, spins while a transition runs      *)
(*   working  - mCanTransition, does the transition's work                 *)
(*   refused  - ~mCanTransition, about to leave                            *)
(*   done     - its Transition object is destroyed                         *)
(*   dangling - used the object after its memory was released (undefined   *)
(*              in the code; here the thread stays put)                    *)
(* The owner runs "if (!IsInState(Stopped)) Stop(); SpinUntil(Stopped);    *)
(* delete": the disposal lambdas of the factories, then the destructor,    *)
(* which tests the counter under the mutex, unlocks, and only then lets    *)
(* the memory go.                                                          *)
(***************************************************************************)
EXTENDS StateMachine, Naturals, FiniteSets

CONSTANTS Initializer,  \* the thread the constructor starts
          Stoppers,     \* the threads Stop() starts, one per call (a bound)
          Closer        \* of these, the one the owner's own Stop() starts

ASSUME ThreadsAssumption ==
    /\ IsFiniteSet(Stoppers)
    /\ Closer \in Stoppers
    /\ Initializer \notin Stoppers

VARIABLES core,            \* mModuleStatus
          mRefCounter,     \* its count of reporters and transitions
          pc,              \* where each detached thread is
          mCanTransition,  \* the verdict each Transition object keeps
          owner,           \* how far the owner's disposal is
          inTime           \* history: who counted itself before the destructor
                           \* found mRefCounter to be 0

vars == <<core, mRefCounter, pc, mCanTransition, owner, inTime>>

Threads == Stoppers \cup {Initializer}

Locations ==
    {"idle", "spawned", "waiting", "working", "refused", "done", "dangling"}

Phases == {"using", "spinning", "destructing", "releasing", "freed"}

\* The destructor has found the counter to be 0 and does not look again.
PastTest == owner \in {"releasing", "freed"}

TypeOK ==
    /\ core \in StateMachineCore
    /\ mRefCounter \in Nat
    /\ pc \in [Threads -> Locations]
    /\ mCanTransition \in [Threads -> BOOLEAN]
    /\ owner \in Phases
    /\ inTime \subseteq Threads

-----------------------------------------------------------------------------
\* mStatusReporter holds the first reference from construction on.
Init ==
    /\ core = NewCore
    /\ mRefCounter = 1
    /\ pc = [t \in Threads |-> IF t = Initializer THEN "spawned" ELSE "idle"]
    /\ mCanTransition = [t \in Threads |-> FALSE]
    /\ owner = "using"
    /\ inTime = {}

\* Thread t moves from location `from` to location `to`.
Goto(t, from, to) == pc[t] = from /\ pc' = [pc EXCEPT ![t] = to]

\* The module's own worker threads exist from the initializing transition on
\* and are joined by the stopping one; any of them may call Stop().
WorkersMayRun == core.mHasRunInitializing /\ core.mState # "Stopped"

\* Stop(), by a user of the object or by one of its workers.
Stop(t) ==
    /\ t # Closer
    /\ owner = "using" \/ (owner = "spinning" /\ WorkersMayRun)
    /\ Goto(t, "idle", "spawned")
    /\ UNCHANGED <<core, mRefCounter, mCanTransition, owner, inTime>>

\* if (!IsInState(Stopped)) Stop();
Dispose ==
    /\ owner = "using"
    /\ owner' = "spinning"
    /\ pc' = IF IsInState(core, "Stopped") THEN pc
             ELSE [pc EXCEPT ![Closer] = "spawned"]
    /\ UNCHANGED <<core, mRefCounter, mCanTransition, inTime>>

DecRefCounter == mRefCounter' = IF mRefCounter # 0 THEN mRefCounter - 1 ELSE 0

\* SpinUntil(Stopped) returns; the members are destroyed, mStatusReporter
\* among them.
ReleaseReporter ==
    /\ owner = "spinning"
    /\ IsInState(core, "Stopped")
    /\ owner' = "destructing"
    /\ DecRefCounter
    /\ UNCHANGED <<core, pc, mCanTransition, inTime>>

\* Slip: ~StateMachineCore does not wait for its references.
LeaveSpinAtOnce ==
    /\ owner = "destructing"
    /\ owner' = "releasing"
    /\ UNCHANGED <<core, mRefCounter, pc, mCanTransition, inTime>>

\* ~StateMachineCore sees no reference, unlocks and leaves its spin.
LeaveSpin ==
    /\ owner = "destructing"
    /\ mRefCounter = 0
    /\ owner' = "releasing"
    /\ UNCHANGED <<core, mRefCounter, pc, mCanTransition, inTime>>

\* The mutex, the other members and the memory go, whoever came meanwhile.
Free ==
    /\ owner = "releasing"
    /\ owner' = "freed"
    /\ UNCHANGED <<core, mRefCounter, pc, mCanTransition, inTime>>

\* The Transition constructor counts itself.
Attach(t) ==
    /\ owner # "freed"
    /\ Goto(t, "spawned", "waiting")
    /\ mRefCounter' = mRefCounter + 1
    /\ inTime' = IF PastTest THEN inTime ELSE inTime \cup {t}
    /\ UNCHANGED <<core, mCanTransition, owner>>

\* Its next step, whichever it is, on an object that is gone.
TouchFreed(t) ==
    /\ owner = "freed"
    /\ pc[t] \in {"spawned", "waiting", "working", "refused"}
    /\ pc' = [pc EXCEPT ![t] = "dangling"]
    /\ UNCHANGED <<core, mRefCounter, mCanTransition, owner, inTime>>

\* The spin of the constructor ends and the transition is granted ...
Grant(t) ==
    /\ owner # "freed"
    /\ MayDecide(core)
    /\ \/ t = Initializer /\ MayInitialize(core) /\ core' = BeginInitializing(core)
       \/ t \in Stoppers /\ MayStop(core) /\ core' = BeginStopping(core)
    /\ Goto(t, "waiting", "working")
    /\ mCanTransition' = [mCanTransition EXCEPT ![t] = TRUE]
    /\ UNCHANGED <<mRefCounter, owner, inTime>>

\* ... or refused.
Refuse(t) ==
    /\ owner # "freed"
    /\ MayDecide(core)
    /\ IF t = Initializer THEN ~MayInitialize(core) ELSE ~MayStop(core)
    /\ Goto(t, "waiting", "refused")
    /\ UNCHANGED <<core, mRefCounter, mCanTransition, owner, inTime>>

\* ~Transition...() of a granted transition.  Any initializing may report a
\* problem (SetTransitionError).
Finish(t) ==
    /\ owner # "freed"
    /\ Goto(t, "working", "done")
    /\ DecRefCounter
    /\ IF t = Initializer
       THEN \E hasProblem \in BOOLEAN : core' = EndInitializing(core, hasProblem)
       ELSE core' = EndStopping(core)
    /\ UNCHANGED <<mCanTransition, owner, inTime>>

\* Slip: only a granted transition gives its reference back.
LeaveCounted(t) ==
    /\ owner # "freed"
    /\ Goto(t, "refused", "done")
    /\ UNCHANGED <<core, mRefCounter, mCanTransition, owner, inTime>>

Leave(t) ==
    /\ owner # "freed"
    /\ Goto(t, "refused", "done")
    /\ DecRefCounter
    /\ UNCHANGED <<core, mCanTransition, owner, inTime>>

Run(t) == Attach(t) \/ TouchFreed(t) \/ Grant(t) \/ Refuse(t) \/ Finish(t) \/ Leave(t)

OwnerStep == Dispose \/ ReleaseReporter \/ LeaveSpin \/ Free

\* Every thread has run out and the object is gone.
Terminated ==
    /\ owner = "freed"
    /\ \A t \in Threads : pc[t] \in {"idle", "done", "dangling"}
    /\ UNCHANGED vars

Next ==
    \/ \E t \in Stoppers : Stop(t)
    \/ \E t \in Threads : Run(t)
    \/ OwnerStep
    \/ Terminated

\* Every thread that can move is scheduled again; a transition's work ends.
\* Nobody is obliged to call Stop() or to dispose of the object, but an owner
\* that began goes on.
Fairness ==
    /\ \A t \in Threads : WF_vars(Run(t))
    /\ WF_vars(ReleaseReporter \/ LeaveSpin \/ Free)

Spec == Init /\ [][Next]_vars

FairSpec == Spec /\ Fairness

-----------------------------------------------------------------------------
Working == {t \in Threads : pc[t] = "working"}

Attached == {t \in Threads : pc[t] \in {"waiting", "working", "refused"}}

(* The reporter of the object counts until it is destroyed. *)
ReporterRefs == IF owner \in {"using", "spinning"} THEN 1 ELSE 0

(* The transition flag is set exactly while one granted thread works, and   *)
(* the run-once flags record which grants were made.                         *)
TransitionsOK ==
    /\ core.mIsInTransition <=> Working # {}
    /\ \A t, u \in Working : t = u
    /\ \A t \in Working : mCanTransition[t]
    /\ \A t \in Threads : mCanTransition[t] => pc[t] \in {"working", "done"}
    /\ \A t, u \in Stoppers : mCanTransition[t] /\ mCanTransition[u] => t = u
    /\ core.mHasRunInitializing <=> mCanTransition[Initializer]
    /\ core.mHasRunStopping <=> \E t \in Stoppers : mCanTransition[t]

(* What the state word still owes to a transition, and no longer does.       *)
StateOK ==
    /\ Working # {} => core.mState # "Stopped"
    /\ pc[Initializer] = "working" => core.mState = "Ready" /\ ~core.mHasRunStopping
    /\ core.mHasRunStopping /\ Working = {} => core.mState = "Stopped"
    /\ core.mState = "Running" => core.mHasRunInitializing

(* The owner calls Stop() once at most, and the destructor is past its spin  *)
(* only when the module is stopped.                                          *)
OwnerOK ==
    /\ owner = "using" => pc[Closer] = "idle"
    /\ owner \in {"destructing", "releasing", "freed"} => IsInState(core, "Stopped")

(* mRefCounter is the number of live reporters and transitions, up to the    *)
(* threads that the release of the memory caught.                            *)
ReferencesOK == owner # "freed" => mRefCounter = Cardinality(Attached) + ReporterRefs

(* Once the destructor has seen no reference, whoever is attached is late,   *)
(* and so is whoever the release of the memory caught.                       *)
InTimeOK ==
    /\ PastTest => Attached \cap inTime = {}
    /\ \A t \in Threads : pc[t] \in {"idle", "spawned", "dangling"} => t \notin inTime
    /\ \A t \in Threads : pc[t] = "dangling" => owner = "freed"

(* Why everything below holds, for any number of Stop() calls.               *)
Inv ==
    /\ TypeOK
    /\ TransitionsOK
    /\ StateOK
    /\ OwnerOK
    /\ ReferencesOK
    /\ InTimeOK

(* DESIGN.md and state_machine.hpp: at any moment at most one thread does    *)
(* the work of a transition, though any number may have asked for one.       *)
Exclusive == \A t, u \in Threads : pc[t] = "working" /\ pc[u] = "working" => t = u

(* However many threads call Stop(), the stopping work (closing sockets,     *)
(* joining workers, nulling pointers) is granted to one of them only.        *)
RunOnce == \A t, u \in Stoppers : mCanTransition[t] /\ mCanTransition[u] => t = u

(* When the members of the object are torn down, no thread is in the middle  *)
(* of a transition's work, which uses those members.                         *)
QuiescentTeardown == owner \in {"destructing", "releasing", "freed"} => Working = {}

(* What the reference counter does guarantee: a thread that counted itself   *)
(* before the destructor's test has left before the memory goes.  One that   *)
(* comes after the test may count itself and lose the memory nonetheless:    *)
(* the mutex is unlocked between the two.                                    *)
CountedInTimeIsSafe == owner = "freed" => \A t \in inTime : pc[t] = "done"

(* A stopped module is dead: no late or refused transition changes it.       *)
StoppedIsFinal == [][IsInState(core, "Stopped") => core' = core]_vars

(* The threads, locks and flags implement the life cycle that the comments   *)
(* promise, and every transition that begins ends.                           *)
AbstractPhase == PhaseOf(core, pc[Initializer] # "working")

Abstract == INSTANCE Lifecycle WITH phase <- AbstractPhase

ImplementsLifecycle == Abstract!Spec

(* An owner that disposes of the object gets its memory back: its Stop()     *)
(* takes effect wherever the initializing transition is at that time, and    *)
(* the destructor does not wait for a reference that nobody gives back.      *)
DisposeEnds == owner = "spinning" ~> owner = "freed"

(* DESIGN.md:10: the destructor terminates the object completely and waits   *)
(* for that before it returns, so no thread of the object outlives it.       *)
NoThreadOutlivesObject ==
    owner = "freed" => \A t \in Threads : pc[t] \in {"idle", "done"}

=============================================================================
