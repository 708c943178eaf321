---------------------------- MODULE BackEndInit ----------------------------
(******************************************************************************)
(* How a thread comes by a back end: getBackEnd() of jws.cpp, jwa.cpp,        *)
(* base64url.cpp and jwk_thumbprint.cpp, each with a once_flag and a          *)
(* unique_ptr of its own; the factory behind them, a static object of         *)
(* BackEndFactory::get(); and jwk.cpp, which asks the factory for a back      *)
(* end per call and shares none.                                              *)
(*                                                                            *)
(* Threads call the library at the same time.  std::call_once runs the        *)
(* lambda in one of the threads that come while the flag is unset and makes   *)
(* the others wait; if the lambda leaves by an exception, which createBackEnd *)
(* does when memory is short, the flag is unset again and the caller gets     *)
(* the exception.  A function-local static is initialised by the first        *)
(* thread that comes by while later ones wait.                                *)
(*                                                                            *)
(* Where the caller is marked noexcept (decode_ of base64url.cpp, the         *)
(* nothrow parsers) such an exception ends the process, and nothing is left   *)
(* to be said; the behaviours here are those in which it goes on.             *)
(*                                                                            *)
(* A back end is named after the thread that made it.                         *)
(******************************************************************************)
CONSTANTS
    Threads,  \* threads that call the library
    Units,    \* translation units with a back end of their own
    Own,      \* jwk.cpp, whose calls make their own
    None      \* no thread, no unit, no back end

ASSUME InitAssumption ==
    /\ Own \notin Units
    /\ None \notin Threads \union Units \union {Own}
    /\ None \notin Units \X Threads

VARIABLES
    pc,        \* pc[t]: where thread t is
    unit,      \* unit[t]: the unit whose code it is in, or None
    flag,      \* flag[u]: the once_flag of unit u
    runner,    \* runner[u]: the thread that runs the lambda of unit u, or None
    back_end,  \* back_end[u]: the back end of unit u, or None
    factory,   \* the guard of the factory object
    using      \* using[t]: the back end thread t works with, or None

vars == <<pc, unit, flag, runner, back_end, factory, using>>

Steps == {"idle", "once", "factory", "construct", "create", "return", "deref", "use"}

\* A thread enters getBackEnd() of a unit, or the code of jwk.cpp.
Call(t, u) ==
    /\ pc[t] = "idle"
    /\ unit' = [unit EXCEPT ![t] = u]
    /\ pc' = [pc EXCEPT ![t] = IF u = Own THEN "factory" ELSE "once"]
    /\ UNCHANGED <<flag, runner, back_end, factory, using>>

\* Mutant: the flag is looked at and set in two steps that others come between,
\* as with a plain bool.
Mutant_Claims(t, u) == flag[u] # "done"

\* call_once lets a thread run the lambda when nobody does or did.
Claims(t, u) == flag[u] = "unset"

\* call_once: run the lambda, or go on when somebody has.  While another thread
\* runs it there is no step to take.
EnterOnce(t) ==
    /\ pc[t] = "once"
    /\ \/ /\ Claims(t, unit[t])
          /\ flag' = [flag EXCEPT ![unit[t]] = "running"]
          /\ runner' = [runner EXCEPT ![unit[t]] = t]
          /\ pc' = [pc EXCEPT ![t] = "factory"]
       \/ /\ flag[unit[t]] = "done"
          /\ pc' = [pc EXCEPT ![t] = "deref"]
          /\ UNCHANGED <<flag, runner>>
    /\ UNCHANGED <<unit, back_end, factory, using>>

\* BackEndFactory::get(): the first thread constructs the object.
GetFactory(t) ==
    /\ pc[t] = "factory"
    /\ \/ factory = "none" /\ factory' = "constructing" /\ pc' = [pc EXCEPT ![t] = "construct"]
       \/ factory = "ready" /\ pc' = [pc EXCEPT ![t] = "create"] /\ UNCHANGED factory
    /\ UNCHANGED <<unit, flag, runner, back_end, using>>

ConstructFactory(t) ==
    /\ pc[t] = "construct"
    /\ factory' = "ready"
    /\ pc' = [pc EXCEPT ![t] = "create"]
    /\ UNCHANGED <<unit, flag, runner, back_end, using>>

\* createBackEnd() succeeds and its result is stored.
Create(t) ==
    /\ pc[t] = "create"
    /\ IF unit[t] = Own
       THEN /\ using' = [using EXCEPT ![t] = t]
            /\ pc' = [pc EXCEPT ![t] = "use"]
            /\ UNCHANGED back_end
       ELSE /\ back_end' = [back_end EXCEPT ![unit[t]] = t]
            /\ pc' = [pc EXCEPT ![t] = "return"]
            /\ UNCHANGED using
    /\ UNCHANGED <<unit, flag, runner, factory>>

\* Mutant: the flag is set although nothing was made.
Mutant_FlagAfterThrow == "done"

\* What an exceptional call leaves in the flag: as if it had not been made.
FlagAfterThrow == "unset"

\* Mutant: the exception is swallowed and the lambda tries again.
Mutant_CreateThrows(t) ==
    /\ pc[t] = "create"
    /\ pc' = [pc EXCEPT ![t] = "factory"]
    /\ UNCHANGED <<unit, flag, runner, back_end, factory, using>>

\* createBackEnd() throws; the caller of the library gets the exception.
CreateThrows(t) ==
    /\ pc[t] = "create"
    /\ pc' = [pc EXCEPT ![t] = "idle"]
    /\ unit' = [unit EXCEPT ![t] = None]
    /\ IF unit[t] = Own THEN UNCHANGED <<flag, runner>>
       ELSE /\ flag' = [flag EXCEPT ![unit[t]] = FlagAfterThrow]
            /\ runner' = [runner EXCEPT ![unit[t]] = None]
    /\ UNCHANGED <<back_end, factory, using>>

\* The lambda returns and call_once sets the flag.
ReturnOnce(t) ==
    /\ pc[t] = "return"
    /\ flag' = [flag EXCEPT ![unit[t]] = "done"]
    /\ runner' = [runner EXCEPT ![unit[t]] = None]
    /\ pc' = [pc EXCEPT ![t] = "deref"]
    /\ UNCHANGED <<unit, back_end, factory, using>>

\* *back_end is handed out.
Deref(t) ==
    /\ pc[t] = "deref"
    /\ using' = [using EXCEPT ![t] = back_end[unit[t]]]
    /\ pc' = [pc EXCEPT ![t] = "use"]
    /\ UNCHANGED <<unit, flag, runner, back_end, factory>>

\* The operation on the back end ends; one of jwk.cpp's own is destroyed.
Leave(t) ==
    /\ pc[t] = "use"
    /\ pc' = [pc EXCEPT ![t] = "idle"]
    /\ unit' = [unit EXCEPT ![t] = None]
    /\ using' = [using EXCEPT ![t] = None]
    /\ UNCHANGED <<flag, runner, back_end, factory>>

Step(t) ==
    \/ EnterOnce(t) \/ GetFactory(t) \/ ConstructFactory(t)
    \/ Create(t) \/ CreateThrows(t) \/ ReturnOnce(t) \/ Deref(t) \/ Leave(t)

Init ==
    /\ pc = [t \in Threads |-> "idle"]
    /\ unit = [t \in Threads |-> None]
    /\ flag = [u \in Units |-> "unset"]
    /\ runner = [u \in Units |-> None]
    /\ back_end = [u \in Units |-> None]
    /\ factory = "none"
    /\ using = [t \in Threads |-> None]

Next == \E t \in Threads : Step(t) \/ \E u \in Units \union {Own} : Call(t, u)

\* A thread in the library goes on, and call_once, of the threads that wait for
\* a flag, lets another one in each time a lambda has thrown: none waits while
\* others are let in for ever.
Fairness == \A t \in Threads : WF_vars(Step(t)) /\ SF_vars(EnterOnce(t))

Spec == Init /\ [][Next]_vars /\ Fairness

-----------------------------------------------------------------------------
(* Properties. *)

\* Every variable has its type, and a flag that is set has a back end behind it.
TypeOK ==
    /\ pc \in [Threads -> Steps]
    /\ unit \in [Threads -> Units \union {Own, None}]
    /\ flag \in [Units -> {"unset", "running", "done"}]
    /\ runner \in [Units -> Threads \union {None}]
    /\ back_end \in [Units -> Threads \union {None}]
    /\ \A u \in Units : flag[u] = "done" => back_end[u] # None
    /\ factory \in {"none", "constructing", "ready"}
    /\ using \in [Threads -> Threads \union {None}]

\* Nobody works with a null back end, and all who work with the back end of a
\* unit at the same time work with the one the unit keeps, however their first
\* calls met and whichever of them failed.
OneBackEnd ==
    \A t \in Threads : pc[t] = "use" =>
        /\ using[t] # None
        /\ unit[t] # Own => using[t] = back_end[unit[t]]

\* A call into the library ends, by a result or by an exception, although other
\* threads hold the flag or the factory when it comes, or fail while they do.
EveryCallEnds == \A t \in Threads : pc[t] # "idle" ~> pc[t] = "idle"

\* Each unit's code sees what SharedBackEnd promises: one back end, made once and
\* never replaced.  The calls of jwk.cpp are no part of it.
Shared == INSTANCE SharedBackEnd WITH
    instance <- back_end,
    serving  <- [t \in Threads |-> IF pc[t] = "use" /\ unit[t] # Own
                                   THEN <<unit[t], using[t]>> ELSE None]

ImplementsShared == Shared!Spec
=============================================================================
