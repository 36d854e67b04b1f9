---------------------------- MODULE EngineLocks ----------------------------
(***************************************************************************)
(* Who holds Engine.mu while a validation that completes a quorum is fed   *)
(* into the tracker (internal/consensus/rcl/engine.go, validations.go).    *)
(*                                                                         *)
(* Handlers (OnValidation on the router's goroutine, timerEntry on the     *)
(* heartbeat's) take Engine.mu for writing and call ValidationTracker.Add; *)
(* readers (State, Mode, Phase) take it for reading.  Add takes the        *)
(* tracker's own lock, which is never held across a step, and dispatches   *)
(* the fully-validated callback after releasing it.                        *)
(***************************************************************************)
EXTENDS Naturals

CONSTANTS Handlers, Readers, None

Threads == Handlers \cup Readers

VARIABLES
    pc,      \* where each thread is
    writer,  \* the thread that holds Engine.mu for writing, or None
    readers  \* the threads that hold it for reading

vars == <<pc, writer, readers>>

Init ==
    /\ pc = [t \in Threads |-> "idle"]
    /\ writer = None
    /\ readers = {}

Goto(t, where) == pc' = [pc EXCEPT ![t] = where]

(* sync.RWMutex: a writer that waits keeps new readers out.                 *)
CanLock == writer = None /\ readers = {}
CanRLock == writer = None /\ \A t \in Threads : pc[t] # "lock"

(* A handler calls e.mu.Lock.                                               *)
Arrive(t) ==
    /\ t \in Handlers /\ pc[t] = "idle"
    /\ Goto(t, "lock")
    /\ UNCHANGED <<writer, readers>>

Lock(t) ==
    /\ pc[t] = "lock" /\ CanLock
    /\ writer' = t
    /\ Goto(t, "add")
    /\ UNCHANGED readers

(* Add under the tracker's lock: the validation completes a quorum or not.  *)
Add(t) ==
    /\ pc[t] = "add"
    /\ \E fires \in BOOLEAN : Goto(t, IF fires THEN "callback" ELSE "unlock")
    /\ UNCHANGED <<writer, readers>>

(* The callback installed by Start: it tells the adaptor, reads archive and *)
(* inMemoryLedgers under e.mu.RLock, and calls ExpireOld.                   *)
CallbackRLock(t) ==
    /\ pc[t] = "callback" /\ CanRLock
    /\ readers' = readers \cup {t}
    /\ Goto(t, "snapshot")
    /\ UNCHANGED writer

CallbackRUnlock(t) ==
    /\ pc[t] = "snapshot"
    /\ readers' = readers \ {t}
    /\ Goto(t, "unlock")
    /\ UNCHANGED writer

(* The deferred e.mu.Unlock of the handler.                                 *)
Unlock(t) ==
    /\ pc[t] = "unlock"
    /\ writer' = None
    /\ Goto(t, "idle")
    /\ UNCHANGED readers

ReaderRLock(t) ==
    /\ t \in Readers /\ pc[t] = "idle" /\ CanRLock
    /\ readers' = readers \cup {t}
    /\ Goto(t, "read")
    /\ UNCHANGED writer

ReaderRUnlock(t) ==
    /\ pc[t] = "read"
    /\ readers' = readers \ {t}
    /\ Goto(t, "idle")
    /\ UNCHANGED writer

Step(t) ==
    \/ Lock(t) \/ Add(t) \/ CallbackRLock(t) \/ CallbackRUnlock(t)
    \/ Unlock(t) \/ ReaderRUnlock(t)

Next == \E t \in Threads : Step(t) \/ Arrive(t) \/ ReaderRLock(t)

(* Goroutines are scheduled fairly, and a waiting writer gets the lock.     *)
Spec == Init /\ [][Next]_vars /\ \A t \in Threads : SF_vars(Step(t))

(* The comment on Add: the callback "may take other locks (engine.mu, ...)  *)
(* without deadlocking", so every Add returns.                              *)
AddReturns == \A t \in Handlers : (pc[t] = "add") ~> (pc[t] = "unlock")
=============================================================================
