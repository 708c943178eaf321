--------------------------- MODULE SharedBackEnd ---------------------------
(***************************************************************************)
(* What getBackEnd() promises the code of a translation unit: every call   *)
(* that does not fail is answered with the one back end of that unit,      *)
(* which is made by whoever asks first and then stays.                     *)
(***************************************************************************)
CONSTANTS Threads, Units, None

VARIABLES
    instance,  \* instance[u]: the back end of unit u, or None
    serving    \* serving[t]: the unit and the back end thread t was given, or None

\* A call is answered.  The first for a unit may also make its back end; the
\* thread that does so gives the back end its name.
Make(t, u) ==
    /\ instance[u] = None
    /\ instance' = [instance EXCEPT ![u] = t]
    /\ UNCHANGED serving

Obtain(t, u) ==
    /\ instance[u] # None
    /\ serving[t] = None
    /\ serving' = [serving EXCEPT ![t] = <<u, instance[u]>>]
    /\ UNCHANGED instance

Finish(t) ==
    /\ serving[t] # None
    /\ serving' = [serving EXCEPT ![t] = None]
    /\ UNCHANGED instance

Init == instance = [u \in Units |-> None] /\ serving = [t \in Threads |-> None]

Next == \E t \in Threads : \/ \E u \in Units : Make(t, u) \/ Obtain(t, u)
                           \/ Finish(t)

Spec == Init /\ [][Next]_<<instance, serving>>
=============================================================================
