---------------------------- MODULE StateMachine ----------------------------
(***************************************************************************)
(* The life cycle word every module of WhispersAbyss keeps                 *)
(* (state_machine.hpp): a state, a transition flag and one run-once flag   *)
(* per kind of transition, all read and written under mStateMutex.         *)
(* Operators only; the modules that use them own the variables.  The       *)
(* reference counter of the same class is modelled where it matters, in    *)
(* ModuleLifetime.                                                         *)
(***************************************************************************)

States == {"Ready", "Running", "Stopped"}

StateMachineCore == [mState : States, mIsInTransition : BOOLEAN,
                     mHasRunInitializing : BOOLEAN, mHasRunStopping : BOOLEAN]

\* Slip: starting from StateMachine::None, the value no code uses.
NewCoreNone == [mState |-> "None", mIsInTransition |-> FALSE,
                mHasRunInitializing |-> FALSE, mHasRunStopping |-> FALSE]

\* Every module constructs its core with StateMachine::Ready.
NewCore == [mState |-> "Ready", mIsInTransition |-> FALSE,
            mHasRunInitializing |-> FALSE, mHasRunStopping |-> FALSE]

\* StateMachineReporter::IsInState, and the exit condition of SpinUntil.
IsInState(c, s) == c.mState = s /\ ~c.mIsInTransition

\* Where a module is in its Lifecycle, given which of the two transitions works.
PhaseOf(c, stopping) ==
    IF ~c.mIsInTransition THEN c.mState
    ELSE IF stopping THEN "Stopping" ELSE "Initializing"

\* The spin loops of the two Transition constructors leave only then.
MayDecide(c) == ~c.mIsInTransition

\* Slip: only the run-once flag is tested.
MayInitializeLate(c) == ~c.mHasRunInitializing

MayInitialize(c) == c.mState = "Ready" /\ ~c.mHasRunInitializing

\* Slip: no stop before the module has initialized.
MayStopRunning(c) == c.mState = "Running" /\ ~c.mHasRunStopping

MayStop(c) == c.mState \in {"Ready", "Running"} /\ ~c.mHasRunStopping

BeginInitializing(c) ==
    [c EXCEPT !.mHasRunInitializing = TRUE, !.mIsInTransition = TRUE]

BeginStopping(c) ==
    [c EXCEPT !.mHasRunStopping = TRUE, !.mIsInTransition = TRUE]

\* ~TransitionInitializing and ~TransitionStopping, when mCanTransition.
EndInitializing(c, hasProblem) ==
    [c EXCEPT !.mState = IF hasProblem THEN "Stopped" ELSE "Running",
              !.mIsInTransition = FALSE]

\* Slip: the transition flag stays set.
EndStoppingHeld(c) == [c EXCEPT !.mState = "Stopped"]

EndStopping(c) ==
    [c EXCEPT !.mState = "Stopped", !.mIsInTransition = FALSE]

=============================================================================
