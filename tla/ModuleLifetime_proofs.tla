------------------------ MODULE ModuleLifetime_proofs -----------------------
(***************************************************************************)
(* Proofs about ModuleLifetime, for any finite number of Stop() calls.     *)
(***************************************************************************)
EXTENDS ModuleLifetime, FiniteSetTheorems, TLAPS

-----------------------------------------------------------------------------
(* The life cycle word *)

(* Each operation on the word gives a well-typed word back. *)
LEMMA CoreTyping ==
    ASSUME NEW c \in StateMachineCore, NEW b \in BOOLEAN
    PROVE  /\ BeginInitializing(c) \in StateMachineCore
           /\ BeginStopping(c) \in StateMachineCore
           /\ EndInitializing(c, b) \in StateMachineCore
           /\ EndStopping(c) \in StateMachineCore
BY DEF StateMachineCore, States, BeginInitializing, BeginStopping,
       EndInitializing, EndStopping

(* A transition begins by raising the flag and its own run-once flag only. *)
LEMMA CoreBegins ==
    ASSUME NEW c \in StateMachineCore
    PROVE  /\ BeginInitializing(c).mState = c.mState
           /\ BeginInitializing(c).mIsInTransition = TRUE
           /\ BeginInitializing(c).mHasRunInitializing = TRUE
           /\ BeginInitializing(c).mHasRunStopping = c.mHasRunStopping
           /\ BeginStopping(c).mState = c.mState
           /\ BeginStopping(c).mIsInTransition = TRUE
           /\ BeginStopping(c).mHasRunInitializing = c.mHasRunInitializing
           /\ BeginStopping(c).mHasRunStopping = TRUE
BY DEF StateMachineCore, BeginInitializing, BeginStopping

(* It ends by clearing the flag and setting the state; the run-once flags   *)
(* stay.                                                                    *)
LEMMA CoreEnds ==
    ASSUME NEW c \in StateMachineCore, NEW d,
           d = EndStopping(c) \/ \E b \in BOOLEAN : d = EndInitializing(c, b)
    PROVE  /\ d.mState \in {"Running", "Stopped"}
           /\ d = EndStopping(c) => d.mState = "Stopped"
           /\ d.mIsInTransition = FALSE
           /\ d.mHasRunInitializing = c.mHasRunInitializing
           /\ d.mHasRunStopping = c.mHasRunStopping
BY DEF StateMachineCore, EndInitializing, EndStopping

-----------------------------------------------------------------------------
(* Counting the attached threads *)

(* The attached threads can be counted: there are finitely many threads. *)
LEMMA AttachedFinite ==
    IsFiniteSet(Threads) /\ IsFiniteSet(Attached) /\ Cardinality(Attached) \in Nat
<1>1. IsFiniteSet(Threads)
  BY ThreadsAssumption, FS_AddElement DEF Threads
<1>2. Attached \subseteq Threads
  BY DEF Attached
<1> QED
  BY <1>1, <1>2, FS_Subset, FS_CardinalityType

(* A thread that moves between locations of one kind leaves the set of *)
(* attached threads as it is. *)
LEMMA AttachedSame ==
    ASSUME TypeOK, NEW t \in Threads, NEW from, NEW to \in Locations,
           Goto(t, from, to),
           from \in {"waiting", "working", "refused"}
             <=> to \in {"waiting", "working", "refused"}
    PROVE  Attached' = Attached
BY DEF Attached, Goto, TypeOK

(* Entering the Transition constructor adds one attached thread. *)
LEMMA AttachedGains ==
    ASSUME TypeOK, NEW t \in Threads, Goto(t, "spawned", "waiting")
    PROVE  Cardinality(Attached)' = Cardinality(Attached) + 1
<1>1. Attached' = Attached \cup {t} /\ t \notin Attached
  BY DEF Attached, Goto, TypeOK, Locations
<1>2. Cardinality(Attached \cup {t}) = Cardinality(Attached) + 1
  BY <1>1, AttachedFinite, FS_AddElement
<1> QED
  BY <1>1, <1>2

(* Destroying a Transition object removes one, and there was one to remove. *)
LEMMA AttachedLoses ==
    ASSUME TypeOK, NEW t \in Threads, NEW from \in {"working", "refused"},
           Goto(t, from, "done")
    PROVE  /\ Cardinality(Attached)' = Cardinality(Attached) - 1
           /\ Cardinality(Attached) > 0
<1>1. Attached' = Attached \ {t} /\ t \in Attached
  BY DEF Attached, Goto, TypeOK, Locations
<1>2. Cardinality(Attached \ {t}) = Cardinality(Attached) - 1
  BY <1>1, AttachedFinite, FS_RemoveElement
<1>3. IsFiniteSet(Attached \ {t})
  BY AttachedFinite, FS_RemoveElement
<1>4. Cardinality(Attached \ {t}) \in Nat
  BY <1>3, FS_CardinalityType
<1> QED
  BY <1>1, <1>2, <1>4, AttachedFinite

-----------------------------------------------------------------------------
(* The inductive invariant *)

(* A freshly constructed object satisfies the invariant. *)
LEMMA InitInv == Init => Inv
<1> SUFFICES ASSUME Init PROVE Inv
  OBVIOUS
<1> USE ThreadsAssumption DEF Init, NewCore
<1>1. TypeOK
  BY DEF TypeOK, StateMachineCore, States, Locations, Phases, Threads
<1>2. Working = {} /\ Attached = {}
  BY DEF Working, Attached
<1>3. TransitionsOK /\ StateOK /\ OwnerOK /\ InTimeOK
  BY <1>2 DEF TransitionsOK, StateOK, OwnerOK, IsInState, InTimeOK, PastTest, Threads
<1>4. ReferencesOK
  BY <1>2, FS_EmptySet DEF ReferencesOK, ReporterRefs
<1> QED
  BY <1>1, <1>3, <1>4 DEF Inv

(* Every step of a thread or of the owner keeps the invariant. *)
LEMMA NextInv == Inv /\ [Next]_vars => Inv'
<1> SUFFICES ASSUME Inv, [Next]_vars PROVE Inv'
  OBVIOUS
<1> USE ThreadsAssumption
<1>t. TypeOK /\ TransitionsOK /\ StateOK /\ OwnerOK /\ ReferencesOK /\ InTimeOK
  BY DEF Inv
<1>c. Cardinality(Attached) \in Nat
  BY AttachedFinite
<1>s. Stoppers \subseteq Threads /\ Initializer \in Threads
  BY DEF Threads
<1>1. ASSUME NEW t \in Stoppers, Stop(t) PROVE Inv'
  <2> USE <1>1, <1>t, <1>s DEF Stop, Goto
  <2>1. TypeOK'
    BY DEF TypeOK, Locations
  <2>2. Attached' = Attached /\ Working' = Working
    BY DEF Attached, Working, TypeOK, Locations
  <2>3. TransitionsOK' /\ StateOK' /\ OwnerOK'
    BY <2>2 DEF TransitionsOK, StateOK, OwnerOK, TypeOK, Locations, IsInState
  <2>4. ReferencesOK'
    BY <2>2 DEF ReferencesOK, ReporterRefs
  <2>i. InTimeOK'
    BY DEF InTimeOK, PastTest, Attached, Goto, TypeOK, Locations, Phases
  <2> QED
    BY <2>i, <2>1, <2>3, <2>4 DEF Inv
<1>2. CASE Dispose
  <2> USE <1>2, <1>t, <1>s DEF Dispose
  <2>1. TypeOK'
    BY DEF TypeOK, Locations, Phases
  <2>2. pc[Closer] = "idle" /\ Closer # Initializer
    BY DEF OwnerOK
  <2>3. Attached' = Attached /\ Working' = Working
    BY <2>2 DEF Attached, Working, TypeOK
  <2>4. TransitionsOK' /\ StateOK' /\ OwnerOK'
    BY <2>2, <2>3 DEF TransitionsOK, StateOK, OwnerOK, TypeOK, IsInState
  <2>5. ReferencesOK'
    BY <2>3 DEF ReferencesOK, ReporterRefs
  <2>i. InTimeOK'
    <3>1. /\ ~PastTest'
          /\ inTime' = inTime
          /\ \A t \in Threads : pc'[t] = pc[t] \/ (t = Closer /\ pc'[t] = "spawned")
      BY DEF PastTest, TypeOK
    <3> QED
      BY <3>1, <2>2, <1>s DEF InTimeOK
  <2> QED
    BY <2>i, <2>1, <2>4, <2>5 DEF Inv
<1>3. CASE ReleaseReporter
  <2> USE <1>3, <1>t, <1>s DEF ReleaseReporter, DecRefCounter
  <2>1. TypeOK'
    BY DEF TypeOK, Phases
  <2>2. Attached' = Attached /\ Working' = Working
    BY DEF Attached, Working
  <2>3. TransitionsOK' /\ StateOK' /\ OwnerOK'
    BY <2>2 DEF TransitionsOK, StateOK, OwnerOK, IsInState
  <2>4. ReferencesOK'
    BY <2>2, <1>c DEF ReferencesOK, ReporterRefs
  <2>i. InTimeOK'
    BY DEF InTimeOK, PastTest, Attached, Goto, TypeOK, Locations, Phases
  <2> QED
    BY <2>i, <2>1, <2>3, <2>4 DEF Inv
<1>4. CASE LeaveSpin
  <2> USE <1>4, <1>t, <1>s DEF LeaveSpin
  <2>1. TypeOK'
    BY DEF TypeOK, Phases
  <2>2. Attached' = Attached /\ Working' = Working
    BY DEF Attached, Working
  <2>3. TransitionsOK' /\ StateOK' /\ OwnerOK'
    BY <2>2 DEF TransitionsOK, StateOK, OwnerOK, IsInState
  <2>4. ReferencesOK'
    BY <2>2 DEF ReferencesOK, ReporterRefs
  <2>i. InTimeOK'
    <3>1. Cardinality(Attached) = 0
      BY <1>c DEF ReferencesOK, ReporterRefs
    <3>2. Attached' = {} /\ pc' = pc /\ inTime' = inTime
      BY <3>1, <2>2, AttachedFinite, FS_EmptySet
    <3>3. owner' # "freed" /\ owner # "freed"
      OBVIOUS
    <3> QED
      BY <3>2, <3>3 DEF InTimeOK
  <2> QED
    BY <2>i, <2>1, <2>3, <2>4 DEF Inv
<1>5. ASSUME NEW t \in Threads, Attach(t) PROVE Inv'
  <2> USE <1>5, <1>t, <1>s DEF Attach
  <2>1. TypeOK'
    BY DEF TypeOK, Locations, Goto
  <2>2. Working' = Working
    BY DEF Working, Goto, TypeOK
  <2>3. TransitionsOK' /\ StateOK' /\ OwnerOK'
    BY <2>2 DEF TransitionsOK, StateOK, OwnerOK, IsInState, Goto, TypeOK
  <2>4. ReferencesOK'
    BY AttachedGains, <1>c DEF ReferencesOK, ReporterRefs
  <2>i. InTimeOK'
    BY DEF InTimeOK, PastTest, Attached, Goto, TypeOK, Locations, Phases
  <2> QED
    BY <2>i, <2>1, <2>3, <2>4 DEF Inv
<1>6. ASSUME NEW t \in Threads, TouchFreed(t) PROVE Inv'
  <2> USE <1>6, <1>t, <1>s DEF TouchFreed
  <2>1. TypeOK'
    BY DEF TypeOK, Locations
  <2>2. Working = {} /\ Working' = {}
    BY DEF Working, TypeOK, OwnerOK, TransitionsOK, IsInState
  <2>3. TransitionsOK' /\ StateOK' /\ OwnerOK'
    <3>1. /\ core' = core /\ mCanTransition' = mCanTransition /\ owner' = owner
          /\ owner = "freed"
          /\ \A u \in Threads : ~mCanTransition[u] \/ pc[u] = "done"
      BY <2>2 DEF TransitionsOK, Working
    <3>2. \A u \in Threads : /\ pc[u] = "done" => pc'[u] = "done"
                            /\ pc'[u] # "working"
      BY <2>2 DEF Working, TypeOK
    <3>3. TransitionsOK'
      BY <3>1, <3>2, <2>2 DEF TransitionsOK
    <3>4. StateOK' /\ OwnerOK'
      BY <3>1, <3>2, <2>2 DEF StateOK, OwnerOK, IsInState
    <3> QED
      BY <3>3, <3>4
  <2>4. ReferencesOK'
    BY DEF ReferencesOK
  <2>i. InTimeOK'
    BY DEF InTimeOK, PastTest, Attached, TypeOK, Locations, Phases
  <2> QED
    BY <2>i, <2>1, <2>3, <2>4 DEF Inv
<1>7. ASSUME NEW t \in Threads, Grant(t) PROVE Inv'
  <2> USE <1>7, <1>t, <1>s DEF Grant
  <2>1. TypeOK'
    BY CoreTyping DEF TypeOK, Locations, Goto
  <2>2. Working = {} /\ Working' = {t}
    BY DEF Working, Goto, TypeOK, TransitionsOK, MayDecide
  <2>3. Attached' = Attached
    BY DEF Attached, Goto, TypeOK
  <2>4. pc[t] = "waiting" /\ pc' = [pc EXCEPT ![t] = "working"]
    BY DEF Goto
  <2>5. TransitionsOK' /\ StateOK'
    <3>1. CASE t = Initializer /\ MayInitialize(core) /\ core' = BeginInitializing(core)
      <4>1. /\ core'.mState = "Ready" /\ core'.mIsInTransition
            /\ core'.mHasRunInitializing
            /\ core'.mHasRunStopping = core.mHasRunStopping
        BY <3>1, CoreBegins DEF TypeOK, MayInitialize
      <4>2. \A u \in Threads : u # t => /\ pc'[u] = pc[u]
                                      /\ mCanTransition'[u] = mCanTransition[u]
        BY <2>4 DEF TypeOK
      <4>3. pc'[t] = "working" /\ mCanTransition'[t]
        BY <2>4 DEF TypeOK
      <4>4. TransitionsOK'
        BY <3>1, <4>1, <4>2, <4>3, <2>2 DEF TransitionsOK
      <4>5. core.mHasRunStopping = FALSE
        BY <3>1, <2>2 DEF StateOK, MayInitialize, TypeOK, StateMachineCore
      <4> QED
        BY <3>1, <4>1, <4>4, <4>5, <2>2 DEF StateOK
    <3>2. CASE t \in Stoppers /\ MayStop(core) /\ core' = BeginStopping(core)
      <4>1. /\ core'.mState = core.mState /\ core'.mIsInTransition
            /\ core'.mHasRunInitializing = core.mHasRunInitializing
            /\ core'.mHasRunStopping
        BY <3>2, CoreBegins DEF TypeOK
      <4>2. \A u \in Threads : u # t => /\ pc'[u] = pc[u]
                                      /\ mCanTransition'[u] = mCanTransition[u]
        BY <2>4 DEF TypeOK
      <4>3. pc'[t] = "working" /\ mCanTransition'[t]
        BY <2>4 DEF TypeOK
      <4>4. \A u \in Stoppers : ~mCanTransition[u]
        BY <3>2 DEF TransitionsOK, MayStop
      <4>5. TransitionsOK'
        BY <3>2, <4>1, <4>2, <4>3, <4>4, <2>2 DEF TransitionsOK
      <4>6. pc'[Initializer] # "working"
        BY <3>2, <4>2, <2>2 DEF Working
      <4> QED
        BY <3>2, <4>1, <4>5, <4>6, <2>2 DEF StateOK, MayStop
    <3> QED
      BY <3>1, <3>2
  <2>6. core.mState # "Stopped"
    BY DEF MayInitialize, MayStop
  <2>7. OwnerOK'
    BY <2>4, <2>6 DEF OwnerOK, IsInState, TypeOK
  <2>8. ReferencesOK'
    BY <2>3 DEF ReferencesOK, ReporterRefs
  <2>i. InTimeOK'
    BY DEF InTimeOK, PastTest, Attached, Goto, TypeOK, Locations, Phases
  <2> QED
    BY <2>i, <2>1, <2>5, <2>7, <2>8 DEF Inv
<1>8. ASSUME NEW t \in Threads, Refuse(t) PROVE Inv'
  <2> USE <1>8, <1>t, <1>s DEF Refuse
  <2>1. TypeOK'
    BY DEF TypeOK, Locations, Goto
  <2>2. Attached' = Attached /\ Working' = Working
    BY DEF Attached, Working, Goto, TypeOK
  <2>3. TransitionsOK' /\ StateOK' /\ OwnerOK'
    BY <2>2 DEF TransitionsOK, StateOK, OwnerOK, IsInState, Goto, TypeOK
  <2>4. ReferencesOK'
    BY <2>2 DEF ReferencesOK, ReporterRefs
  <2>i. InTimeOK'
    BY DEF InTimeOK, PastTest, Attached, Goto, TypeOK, Locations, Phases
  <2> QED
    BY <2>i, <2>1, <2>3, <2>4 DEF Inv
<1>9. ASSUME NEW t \in Threads, Finish(t) PROVE Inv'
  <2> USE <1>9, <1>t, <1>s DEF Finish
  <2>1. PICK b \in BOOLEAN :
           core' = IF t = Initializer THEN EndInitializing(core, b)
                                      ELSE EndStopping(core)
    BY DEF TypeOK
  <2>2. TypeOK'
    BY <2>1, CoreTyping DEF TypeOK, Locations, Goto, DecRefCounter
  <2>3. pc[t] = "working" /\ pc' = [pc EXCEPT ![t] = "done"]
    BY DEF Goto
  <2>4. Working = {t} /\ Working' = {}
    BY <2>3 DEF Working, TypeOK, TransitionsOK
  <2>5. mCanTransition[t]
    BY <2>4 DEF TransitionsOK
  <2>6. TransitionsOK' /\ StateOK'
    <3>1. /\ \A u \in Threads : u # t => pc'[u] = pc[u]
          /\ pc'[t] = "done"
      BY <2>3 DEF TypeOK
    <3>2. /\ core'.mIsInTransition = FALSE
          /\ core'.mHasRunInitializing = core.mHasRunInitializing
          /\ core'.mHasRunStopping = core.mHasRunStopping
          /\ core'.mState \in {"Running", "Stopped"}
          /\ t # Initializer => core'.mState = "Stopped"
      BY <2>1, CoreEnds DEF TypeOK
    <3>3. TransitionsOK'
      BY <3>1, <3>2, <2>4 DEF TransitionsOK
    <3>4. t = Initializer => ~core.mHasRunStopping
      BY <2>3 DEF StateOK
    <3>5. t = Initializer => core.mHasRunInitializing
      BY <2>5 DEF TransitionsOK
    <3>6. pc'[Initializer] # "working"
      BY <3>1, <2>4 DEF Working
    <3>7. StateOK'
      BY <3>2, <3>4, <3>5, <3>6, <2>4 DEF StateOK
    <3> QED
      BY <3>3, <3>7
  <2>7. ReferencesOK' /\ mRefCounter # 0
    <3>1. /\ Cardinality(Attached)' = Cardinality(Attached) - 1
          /\ Cardinality(Attached) > 0
      BY AttachedLoses
    <3> QED
      BY <3>1, <1>c DEF ReferencesOK, ReporterRefs, DecRefCounter
  <2>8. OwnerOK'
    BY <2>3, <2>4, <2>7 DEF OwnerOK, IsInState, TypeOK, TransitionsOK
  <2>i. InTimeOK'
    BY DEF InTimeOK, PastTest, Attached, Goto, TypeOK, Locations, Phases
  <2> QED
    BY <2>i, <2>2, <2>6, <2>7, <2>8 DEF Inv
<1>10. ASSUME NEW t \in Threads, Leave(t) PROVE Inv'
  <2> USE <1>10, <1>t, <1>s DEF Leave
  <2>1. TypeOK'
    BY DEF TypeOK, Locations, Goto, DecRefCounter
  <2>2. Working' = Working
    BY DEF Working, Goto, TypeOK
  <2>3. ReferencesOK' /\ mRefCounter # 0
    BY AttachedLoses, <1>c DEF ReferencesOK, ReporterRefs, DecRefCounter
  <2>4. TransitionsOK' /\ StateOK' /\ OwnerOK'
    BY <2>2, <2>3 DEF TransitionsOK, StateOK, OwnerOK, IsInState, Goto, TypeOK
  <2>i. InTimeOK'
    BY DEF InTimeOK, PastTest, Attached, Goto, TypeOK, Locations, Phases
  <2> QED
    BY <2>i, <2>1, <2>3, <2>4 DEF Inv
<1>11. CASE Free
  <2> USE <1>11, <1>t, <1>s DEF Free
  <2>1. TypeOK'
    BY DEF TypeOK, Phases
  <2>2. Attached' = Attached /\ Working' = Working
    BY DEF Attached, Working
  <2>3. TransitionsOK' /\ StateOK' /\ OwnerOK'
    BY <2>2 DEF TransitionsOK, StateOK, OwnerOK, IsInState
  <2>4. ReferencesOK'
    BY <2>2 DEF ReferencesOK, ReporterRefs
  <2>i. InTimeOK'
    BY DEF InTimeOK, PastTest, Attached, TypeOK
  <2> QED
    BY <2>i, <2>1, <2>3, <2>4 DEF Inv
<1>12. CASE UNCHANGED vars
  BY <1>12, <1>t DEF Inv, vars, TypeOK, TransitionsOK, StateOK, OwnerOK, ReferencesOK,
     InTimeOK, PastTest, Working, Attached, ReporterRefs, IsInState
<1> QED
  BY <1>1, <1>2, <1>3, <1>4, <1>5, <1>6, <1>7, <1>8, <1>9, <1>10, <1>11, <1>12
     DEF Next, Run, OwnerStep, Terminated

(* The invariant holds in every reachable state, for any finite set of Stop() *)
(* threads.                                                                   *)
THEOREM Invariance == Spec => []Inv
BY InitInv, NextInv, PTL DEF Spec

-----------------------------------------------------------------------------
(* What the invariant gives *)

(* The variables keep their types. *)
THEOREM TypeCorrect == Spec => []TypeOK
BY Invariance, PTL DEF Inv

(* DESIGN.md: at most one transition runs at any moment, whatever the number *)
(* of threads that asked for one.                                            *)
THEOREM ExclusiveHolds == Spec => []Exclusive
<1>1. Inv => Exclusive
  BY DEF Inv, TransitionsOK, Exclusive, Working
<1> QED
  BY <1>1, Invariance, PTL

(* DESIGN.md: the stopping work is done once, for any number of Stop() calls. *)
THEOREM RunOnceHolds == Spec => []RunOnce
<1>1. Inv => RunOnce
  BY DEF Inv, TransitionsOK, RunOnce
<1> QED
  BY <1>1, Invariance, PTL

(* The members are destroyed only when no transition's work uses them. *)
THEOREM QuiescentTeardownHolds == Spec => []QuiescentTeardown
<1>1. Inv => QuiescentTeardown
  BY DEF Inv, TransitionsOK, OwnerOK, QuiescentTeardown, IsInState
<1> QED
  BY <1>1, Invariance, PTL

(* A thread that counted itself before the destructor's test has left by the *)
(* time the memory goes, however many others come after the test.             *)
THEOREM CountedInTimeIsSafeHolds == Spec => []CountedInTimeIsSafe
<1>1. Inv => CountedInTimeIsSafe
  <2> SUFFICES ASSUME Inv, owner = "freed", NEW t \in inTime PROVE pc[t] = "done"
    BY DEF CountedInTimeIsSafe
  <2>1. t \in Threads /\ pc[t] \in Locations
    BY DEF Inv, TypeOK
  <2>2. t \notin Attached
    BY DEF Inv, InTimeOK, PastTest
  <2> QED
    BY <2>1, <2>2 DEF Inv, InTimeOK, Attached, Locations
<1> QED
  BY <1>1, Invariance, PTL

(* No step of any thread changes the word of a stopped module. *)
THEOREM StoppedIsFinalHolds == Spec => StoppedIsFinal
<1>1. Inv /\ [Next]_vars => [IsInState(core, "Stopped") => core' = core]_vars
  <2> SUFFICES ASSUME Inv, [Next]_vars, IsInState(core, "Stopped") PROVE core' = core
    OBVIOUS
  <2>1. Working = {}
    BY DEF Inv, TransitionsOK, IsInState
  <2>2. ~MayInitialize(core) /\ ~MayStop(core)
    BY DEF MayInitialize, MayStop, IsInState
  <2>3. \A t \in Threads : ~Finish(t) /\ ~Grant(t)
    BY <2>1, <2>2 DEF Finish, Grant, Goto, Working
  <2> QED
    BY <2>3 DEF Next, Run, OwnerStep, Stop, Dispose, ReleaseReporter, LeaveSpin, Free,
       Attach, TouchFreed, Refuse, Leave, Terminated, vars
<1> QED
  BY <1>1, Invariance, PTL DEF Spec, StoppedIsFinal

-----------------------------------------------------------------------------
(* Refinement: the safety part of Lifecycle *)

(* Every step of a thread is a step of the life cycle, or leaves it alone. *)
LEMMA StepRefines == Inv /\ Inv' /\ [Next]_vars => [Abstract!Next]_AbstractPhase
<1> SUFFICES ASSUME Inv, Inv', [Next]_vars
             PROVE  [Abstract!Next]_AbstractPhase
  OBVIOUS
<1> USE ThreadsAssumption
<1>t. TypeOK /\ TransitionsOK /\ StateOK /\ OwnerOK
  BY DEF Inv
<1>0. TransitionsOK'
  BY DEF Inv
<1>1. ASSUME NEW t \in Threads, Grant(t) PROVE [Abstract!Next]_AbstractPhase
  <2>1. core.mIsInTransition = FALSE /\ AbstractPhase = core.mState
    BY <1>1, <1>t DEF Grant, MayDecide, AbstractPhase, PhaseOf, TypeOK, StateMachineCore
  <2>2. pc' = [pc EXCEPT ![t] = "working"] /\ Working = {}
    BY <1>1, <1>t DEF Grant, Goto, MayDecide, TransitionsOK
  <2>3. CASE t = Initializer /\ MayInitialize(core) /\ core' = BeginInitializing(core)
    <3>1. core'.mIsInTransition = TRUE /\ pc'[Initializer] = "working"
      BY <2>2, <2>3, <1>t, CoreBegins DEF TypeOK, Threads
    <3>2. AbstractPhase' = "Initializing" /\ AbstractPhase = "Ready"
      BY <3>1, <2>1, <2>3 DEF AbstractPhase, PhaseOf, MayInitialize
    <3> QED
      BY <3>2 DEF Abstract!Next, Abstract!BeginInitializing
  <2>4. CASE t \in Stoppers /\ MayStop(core) /\ core' = BeginStopping(core)
    <3>1. core'.mIsInTransition = TRUE /\ pc'[Initializer] # "working"
      BY <2>2, <2>4, <1>t, CoreBegins DEF TypeOK, Threads, Working
    <3>2. AbstractPhase' = "Stopping" /\ AbstractPhase \in {"Ready", "Running"}
      BY <3>1, <2>1, <2>4 DEF AbstractPhase, PhaseOf, MayStop
    <3> QED
      BY <3>2 DEF Abstract!Next, Abstract!BeginStopping
  <2> QED
    BY <1>1, <2>3, <2>4 DEF Grant
<1>2. ASSUME NEW t \in Threads, Finish(t) PROVE [Abstract!Next]_AbstractPhase
  <2>1. Working = {t} /\ pc[t] = "working" /\ core.mIsInTransition
    BY <1>2, <1>t DEF Finish, Goto, Working, TransitionsOK
  <2>2. CASE t = Initializer
    <3>1. core'.mState \in {"Running", "Stopped"} /\ core'.mIsInTransition = FALSE
      BY <1>2, <2>2, <1>t, CoreEnds DEF Finish, TypeOK
    <3>2. AbstractPhase = "Initializing" /\ AbstractPhase' \in {"Running", "Stopped"}
      BY <3>1, <2>1, <2>2 DEF AbstractPhase, PhaseOf
    <3> QED
      BY <3>2 DEF Abstract!Next, Abstract!EndInitializing
  <2>3. CASE t # Initializer
    <3>1. core'.mState = "Stopped" /\ core'.mIsInTransition = FALSE
      BY <1>2, <2>3, <1>t, CoreEnds DEF Finish, TypeOK
    <3>2. pc[Initializer] # "working"
      BY <2>1, <2>3 DEF Working, Threads
    <3>3. AbstractPhase = "Stopping" /\ AbstractPhase' = "Stopped"
      BY <3>1, <3>2, <2>1 DEF AbstractPhase, PhaseOf
    <3> QED
      BY <3>3 DEF Abstract!Next, Abstract!EndStopping
  <2> QED
    BY <2>2, <2>3
<1>3. ASSUME core' = core, Working' = Working PROVE AbstractPhase' = AbstractPhase
  BY <1>3 DEF AbstractPhase, PhaseOf, Working, Threads
<1>4. ASSUME NEW t \in Threads, Attach(t) \/ TouchFreed(t) \/ Refuse(t) \/ Leave(t)
      PROVE  AbstractPhase' = AbstractPhase
  <2>1. core' = core
    BY <1>4 DEF Attach, TouchFreed, Refuse, Leave
  <2>2. Working' = Working
    <3>1. CASE TouchFreed(t)
      <4>1. Working = {}
        BY <3>1, <1>t DEF TouchFreed, OwnerOK, IsInState, TransitionsOK
      <4> QED
        BY <3>1, <4>1, <1>t DEF TouchFreed, Working, TypeOK
    <3>2. CASE ~TouchFreed(t)
      BY <1>4, <3>2, <1>t DEF Attach, Refuse, Leave, Goto, Working, TypeOK
    <3> QED
      BY <3>1, <3>2
  <2> QED
    BY <1>3, <2>1, <2>2
<1>5. ASSUME NEW t \in Stoppers, Stop(t) PROVE AbstractPhase' = AbstractPhase
  <2>1. core' = core /\ Working' = Working
    BY <1>5, <1>t DEF Stop, Goto, Working, TypeOK, Threads
  <2> QED
    BY <1>3, <2>1
<1>6. CASE OwnerStep \/ UNCHANGED vars
  <2>1. core' = core
    BY <1>6 DEF OwnerStep, Dispose, ReleaseReporter, LeaveSpin, Free, vars
  <2>2. pc'[Initializer] = pc[Initializer]
    BY <1>6, <1>t DEF OwnerStep, Dispose, ReleaseReporter, LeaveSpin, Free, vars, TypeOK, Threads
  <2> QED
    BY <2>1, <2>2 DEF AbstractPhase, PhaseOf
<1> QED
  BY <1>1, <1>2, <1>4, <1>5, <1>6 DEF Next, Run, Terminated

(* The threads implement the safety part of the life cycle that the comments *)
(* of state_machine.hpp promise; its liveness part is model-checked.         *)
THEOREM LifecycleSafety == Spec => Abstract!Safety
<1>1. Init => Abstract!Init
  BY DEF Init, NewCore, AbstractPhase, PhaseOf, Abstract!Init
<1> QED
  BY <1>1, StepRefines, Invariance, PTL DEF Spec, Abstract!Safety

=============================================================================
