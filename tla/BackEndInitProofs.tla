------------------------- MODULE BackEndInitProofs -------------------------
(****************************************************************************)
(* Proofs about BackEndInit, for any threads and any units: the variables   *)
(* keep their types, nobody works with a null or a second back end, and     *)
(* getBackEnd() implements SharedBackEnd.  That calls end rests on fairness *)
(* and is left to TLC.                                                      *)
(****************************************************************************)
EXTENDS BackEndInit, TLAPS

\* Steps in which a thread runs the lambda of a unit.
Inside == {"factory", "construct", "create", "return"}

Typed ==
    /\ pc \in [Threads -> Steps]
    /\ unit \in [Threads -> Units \union {Own, None}]
    /\ flag \in [Units -> {"unset", "running", "done"}]
    /\ runner \in [Units -> Threads \union {None}]
    /\ back_end \in [Units -> Threads \union {None}]
    /\ factory \in {"none", "constructing", "ready"}
    /\ using \in [Threads -> Threads \union {None}]

\* Only the code of a unit waits for a flag, returns to it or reads what it
\* guards.
InAUnit(t) == pc[t] \in {"once", "return", "deref"} => unit[t] \in Units

\* A thread that runs the lambda of a unit is the one the flag knows, so that
\* there is only one.
IsRunner(t) ==
    pc[t] \in Inside /\ unit[t] # Own =>
        /\ unit[t] \in Units
        /\ flag[unit[t]] = "running"
        /\ runner[unit[t]] = t

\* Until the lambda has stored a back end there is none.
NotYet(t) ==
    pc[t] \in {"factory", "construct", "create"} /\ unit[t] # Own => back_end[unit[t]] = None

Stored(t) == pc[t] = "return" => back_end[unit[t]] # None

\* A thread past the flag finds it set.
PastFlag(t) == pc[t] = "deref" => flag[unit[t]] = "done"

\* A thread at work has its unit's back end, or one of its own.
AtWork(t) ==
    pc[t] = "use" =>
        /\ using[t] # None
        /\ unit[t] # Own => /\ unit[t] \in Units
                            /\ flag[unit[t]] = "done"
                            /\ using[t] = back_end[unit[t]]

\* The flag says whether there is a back end.
FlagTells(u) == /\ flag[u] = "done" => back_end[u] # None
                /\ flag[u] = "unset" => back_end[u] = None

IInv ==
    /\ Typed
    /\ \A t \in Threads : /\ InAUnit(t) /\ IsRunner(t) /\ NotYet(t)
                          /\ Stored(t) /\ PastFlag(t) /\ AtWork(t)
    /\ \A u \in Units : FlagTells(u)

\* The invariant of the induction holds in every initial state.
LEMMA InitEstablishes == Init => IInv
BY InitAssumption DEF Init, IInv, Typed, InAUnit, IsRunner, NotYet, Stored, PastFlag, AtWork,
    FlagTells, Steps, Inside

\* A step that changes the program counter of one thread only.
LEMMA StepKeeps ==
    ASSUME IInv, NEW t \in Threads, Step(t) \/ \E u \in Units \union {Own} : Call(t, u)
    PROVE  IInv'
<1>. USE InitAssumption DEF IInv, Typed, InAUnit, IsRunner, NotYet, Stored, PastFlag, AtWork,
        FlagTells, Steps, Inside
<1>1. ASSUME NEW u \in Units \union {Own}, Call(t, u)
      PROVE  IInv'
  BY <1>1 DEF Call
<1>2. CASE EnterOnce(t)
  BY <1>2 DEF EnterOnce, Claims
<1>3. CASE GetFactory(t)
  BY <1>3 DEF GetFactory
<1>4. CASE ConstructFactory(t)
  BY <1>4 DEF ConstructFactory
<1>5. CASE Create(t)
  BY <1>5 DEF Create
<1>6. CASE CreateThrows(t)
  BY <1>6 DEF CreateThrows, FlagAfterThrow
<1>7. CASE ReturnOnce(t)
  BY <1>7 DEF ReturnOnce
<1>8. CASE Deref(t)
  BY <1>8 DEF Deref
<1>9. CASE Leave(t)
  BY <1>9 DEF Leave
<1>. QED BY <1>1, <1>2, <1>3, <1>4, <1>5, <1>6, <1>7, <1>8, <1>9 DEF Step

\* Every step keeps the invariant of the induction.
LEMMA NextKeeps == IInv /\ [Next]_vars => IInv'
<1>1. ASSUME IInv, Next
      PROVE  IInv'
  BY <1>1, StepKeeps DEF Next
<1>2. ASSUME IInv, UNCHANGED vars
      PROVE  IInv'
  BY <1>2 DEF vars, IInv, Typed, InAUnit, IsRunner, NotYet, Stored, PastFlag, AtWork, FlagTells
<1>. QED BY <1>1, <1>2

\* The invariant of the induction holds throughout.
LEMMA Invariance == Spec => []IInv
BY InitEstablishes, NextKeeps, PTL DEF Spec

\* Every variable keeps its type and a flag that is set has a back end behind it,
\* for any threads and units.
THEOREM TypeCorrect == Spec => []TypeOK
<1>1. IInv => TypeOK
  BY DEF IInv, Typed, FlagTells, TypeOK
<1>. QED BY <1>1, Invariance, PTL

\* Nobody works with a null back end, nor with another than its unit's, however
\* many threads come at once and whichever first calls fail.
THEOREM Uniqueness == Spec => []OneBackEnd
<1>1. IInv => OneBackEnd
  BY DEF IInv, AtWork, OneBackEnd
<1>. QED BY <1>1, Invariance, PTL

-----------------------------------------------------------------------------
(* The refinement of SharedBackEnd. *)

Serving == [t \in Threads |-> IF pc[t] = "use" /\ unit[t] # Own
                              THEN <<unit[t], using[t]>> ELSE None]

\* What a thread is served with, before and after a step of thread t: only t's
\* own entry can differ.
LEMMA ServingKept ==
    ASSUME IInv, NEW t \in Threads, Step(t) \/ \E u \in Units \union {Own} : Call(t, u),
           (pc'[t] = "use" /\ unit'[t] # Own) = FALSE, pc[t] # "use" \/ unit[t] = Own
    PROVE  Serving' = Serving
<1>. USE DEF IInv, Typed, Serving
<1>1. ASSUME NEW s \in Threads, s # t
      PROVE  pc'[s] = pc[s] /\ unit'[s] = unit[s] /\ using'[s] = using[s]
  BY <1>1 DEF Step, Call, EnterOnce, GetFactory, ConstructFactory, Create, CreateThrows,
        ReturnOnce, Deref, Leave
<1>. QED BY <1>1

\* The initial states of BackEndInit are initial states of SharedBackEnd.
LEMMA InitRefines == Init => Shared!Init
BY DEF Init, Shared!Init

\* A step of a thread is a step of SharedBackEnd or changes nothing it sees.
LEMMA StepRefines ==
    ASSUME IInv, NEW t \in Threads, Step(t) \/ \E u \in Units \union {Own} : Call(t, u)
    PROVE  Shared!Next \/ (back_end' = back_end /\ Serving' = Serving)
<1>. USE InitAssumption DEF IInv, Typed
<1>1. ASSUME NEW u \in Units \union {Own}, Call(t, u)
      PROVE  back_end' = back_end /\ Serving' = Serving
  BY <1>1, ServingKept DEF Call
<1>2. CASE EnterOnce(t)
  BY <1>2, ServingKept DEF EnterOnce, Step
<1>3. CASE GetFactory(t)
  BY <1>3, ServingKept DEF GetFactory, Step
<1>4. CASE ConstructFactory(t)
  BY <1>4, ServingKept DEF ConstructFactory, Step
<1>5. CASE Create(t) /\ unit[t] = Own
  <2>1. back_end' = back_end
    BY <1>5 DEF Create
  <2>2. unit' = unit /\ pc[t] = "create"
    BY <1>5 DEF Create
  <2>. QED BY <1>5, <2>1, <2>2, ServingKept DEF Step
<1>6. CASE Create(t) /\ unit[t] # Own
  <2>1. pc[t] = "create" /\ pc'[t] = "return" /\ unit[t] \in Units
    BY <1>6 DEF Create, IsRunner, Inside
  <2>2. Serving' = Serving
    BY <1>6, <2>1, ServingKept DEF Step
  <2>3. back_end[unit[t]] = None /\ back_end' = [back_end EXCEPT ![unit[t]] = t]
    BY <1>6, <2>1 DEF Create, NotYet
  <2>4. Shared!Make(t, unit[t])
    BY <2>2, <2>3 DEF Shared!Make, Serving
  <2>. QED BY <2>1, <2>4 DEF Shared!Next
<1>7. CASE CreateThrows(t)
  BY <1>7, ServingKept DEF CreateThrows, Step
<1>8. CASE ReturnOnce(t)
  BY <1>8, ServingKept DEF ReturnOnce, Step
<1>9. CASE Deref(t)
  <2>1. pc[t] = "deref" /\ unit[t] \in Units /\ back_end[unit[t]] # None
    BY <1>9 DEF Deref, InAUnit, PastFlag, FlagTells
  <2>2. Serving[t] = None
    BY <2>1 DEF Serving
  <2>3. Serving' = [Serving EXCEPT ![t] = <<unit[t], back_end[unit[t]]>>]
    BY <1>9, <2>1 DEF Deref, Serving
  <2>4. back_end' = back_end
    BY <1>9 DEF Deref
  <2>5. PICK u \in Units : u = unit[t]
    BY <2>1
  <2>6. Shared!Obtain(t, u)
    BY <2>1, <2>2, <2>3, <2>4, <2>5 DEF Shared!Obtain, Serving
  <2>. QED BY <2>6 DEF Shared!Next
<1>10. CASE Leave(t) /\ unit[t] = Own
  BY <1>10, ServingKept DEF Leave, Step
<1>11. CASE Leave(t) /\ unit[t] # Own
  <2>1. pc[t] = "use" /\ unit[t] \in Units /\ using[t] \in Threads
    BY <1>11 DEF Leave, AtWork
  <2>2. Serving[t] # None
    BY <2>1 DEF Serving
  <2>3. Serving' = [Serving EXCEPT ![t] = None]
    BY <1>11, <2>1 DEF Leave, Serving
  <2>4. back_end' = back_end
    BY <1>11 DEF Leave
  <2>5. Shared!Finish(t)
    BY <2>2, <2>3, <2>4 DEF Shared!Finish, Serving
  <2>. QED BY <2>5 DEF Shared!Next
<1>. QED BY <1>1, <1>2, <1>3, <1>4, <1>5, <1>6, <1>7, <1>8, <1>9, <1>10, <1>11 DEF Step

\* getBackEnd() implements what SharedBackEnd promises: one back end per unit,
\* made once and never replaced, for any threads and units.
THEOREM Implementation == Spec => ImplementsShared
<1>1. IInv /\ [Next]_vars => [Shared!Next]_<<back_end, Serving>>
  <2>1. ASSUME IInv, Next
        PROVE  Shared!Next \/ (back_end' = back_end /\ Serving' = Serving)
    BY <2>1, StepRefines DEF Next
  <2>2. ASSUME UNCHANGED vars
        PROVE  back_end' = back_end /\ Serving' = Serving
    BY <2>2 DEF vars, Serving
  <2>. QED BY <2>1, <2>2
<1>. QED BY <1>1, InitRefines, Invariance, PTL DEF Spec, ImplementsShared, Shared!Spec, Serving
=============================================================================
