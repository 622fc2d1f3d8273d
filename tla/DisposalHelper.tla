--------------------------- MODULE DisposalHelper ---------------------------
(***************************************************************************)
(* The queue and the thread through which a factory destroys its used      *)
(* instances (others_helper.hpp).  The thread repeats: move the queue into *)
(* its cache, under the mutex; if the cache is empty, leave when a stop is *)
(* requested and sleep otherwise; else destroy the cached items in order.  *)
(* The actions are composed by the factory that owns the helper.           *)
(***************************************************************************)
EXTENDS Sequences, Naturals

CONSTANT Item  \* what is disposed of

VARIABLES mDequeDisposal,
          cache,          \* what the thread has taken and not destroyed
          tdDisposal,     \* where the thread is; "none" before Start
          stopRequested,
          destroyed       \* history: what mDestroyFunc was applied to

vars == <<mDequeDisposal, cache, tdDisposal, stopRequested, destroyed>>

TypeOK ==
    /\ {mDequeDisposal, cache, destroyed} \subseteq Seq(Item)
    /\ tdDisposal \in {"none", "copy", "test", "destroy", "exited"}
    /\ stopRequested \in BOOLEAN

Init ==
    /\ mDequeDisposal = <<>> /\ cache = <<>> /\ destroyed = <<>>
    /\ tdDisposal = "none"
    /\ stopRequested = FALSE

Start ==
    /\ tdDisposal = "none" /\ tdDisposal' = "copy"
    /\ UNCHANGED <<mDequeDisposal, cache, stopRequested, destroyed>>

\* Slip: new items go to the front.
MoveFront(items) ==
    /\ mDequeDisposal' = items \o mDequeDisposal
    /\ UNCHANGED <<cache, tdDisposal, stopRequested, destroyed>>

\* Both overloads of Move, under mMutex.
Move(items) ==
    /\ mDequeDisposal' = mDequeDisposal \o items
    /\ UNCHANGED <<cache, tdDisposal, stopRequested, destroyed>>

\* Stop() asks the thread, if there is one, and then joins it.
RequestStop ==
    /\ stopRequested' = (tdDisposal # "none")
    /\ UNCHANGED <<mDequeDisposal, cache, tdDisposal, destroyed>>

Joined == tdDisposal \in {"none", "exited"}

Copy ==
    /\ tdDisposal = "copy" /\ tdDisposal' = "test"
    /\ cache' = cache \o mDequeDisposal
    /\ mDequeDisposal' = <<>>
    /\ UNCHANGED <<stopRequested, destroyed>>

\* Slip: an empty cache ends the thread.
TestOnce ==
    /\ tdDisposal = "test"
    /\ tdDisposal' = IF cache # <<>> THEN "destroy" ELSE "exited"
    /\ UNCHANGED <<mDequeDisposal, cache, stopRequested, destroyed>>

Test ==
    /\ tdDisposal = "test"
    /\ tdDisposal' = IF cache # <<>> THEN "destroy"
                     ELSE IF stopRequested THEN "exited" ELSE "copy"
    /\ UNCHANGED <<mDequeDisposal, cache, stopRequested, destroyed>>

\* mDestroyFunc(ptr) has returned for the next item; cache.clear() after the
\* last one.
Destroyed ==
    /\ tdDisposal = "destroy"
    /\ destroyed' = Append(destroyed, Head(cache))
    /\ cache' = Tail(cache)
    /\ tdDisposal' = IF Len(cache) = 1 THEN "copy" ELSE "destroy"
    /\ UNCHANGED <<mDequeDisposal, stopRequested>>

\* Everything handed in so far, oldest first.
Moved == destroyed \o cache \o mDequeDisposal
=============================================================================
