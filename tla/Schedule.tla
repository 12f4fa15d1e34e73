------------------------------ MODULE Schedule ------------------------------
(***************************************************************************)
(* What the task list of the kernel promises to the application, without   *)
(* the array that holds it: a set of registered functions, each with its   *)
(* own countdown.  A function is registered at most once, a call about one *)
(* function disturbs no other, a tick advances all of them together and    *)
(* registers or forgets none, and a registration is refused only when      *)
(* Capacity other functions are registered.                                *)
(*                                                                         *)
(* TaskTable.tla, the array of kernel.c, is shown to implement this.       *)
(***************************************************************************)
EXTENDS Integers, FiniteSets

CONSTANTS
  Task,       \* functions an application may register
  Capacity,   \* number of functions that fit
  Period,     \* periods an application may ask for, in ticks
  AppState,   \* states an application may give to a task
  Garbage     \* what an uninitialised repeat period may hold

VARIABLE plan \* registered function -> its countdown

ACTIVE == 1   \* KSTATE_ACTIVE
DONE   == 255 \* the state of a task that will not run again

Registered == DOMAIN plan

Countdown == [left : Nat, every : Nat, state : AppState \cup {DONE}]

(***************************************************************************)
(* A period of 0 is served as a period of 1.                               *)
(***************************************************************************)
Last(period) == IF period = 0 THEN 0 ELSE period - 1

Expired(c) == c.state = ACTIVE /\ c.left = 0

Advance(c) ==
  CASE c.state # ACTIVE            -> c
    [] c.state = ACTIVE /\ c.left # 0 -> [c EXCEPT !.left = @ - 1]
    [] Expired(c) /\ c.every = 0   -> [c EXCEPT !.state = DONE]
    [] Expired(c) /\ c.every # 0   -> [c EXCEPT !.left = c.every]

-----------------------------------------------------------------------------

Init == plan = [t \in {} |-> {}]

(***************************************************************************)
(* The countdown of a new registration; for a known function it replaces   *)
(* the one it had.                                                         *)
(***************************************************************************)
Fresh(c) ==
  /\ c.state \in AppState
  /\ \E period \in Period : c.left = Last(period) /\ c.every \in Garbage \cup {Last(period)}

Register(t) ==
  /\ t \in Registered \/ Cardinality(Registered) < Capacity
  /\ t \in Registered' /\ Fresh(plan'[t])
  /\ plan' = [u \in Registered \cup {t} |-> IF u = t THEN plan'[t] ELSE plan[u]]

Refuse(t) ==
  /\ t \notin Registered
  /\ Cardinality(Registered) = Capacity
  /\ UNCHANGED plan

Unregister(t) == plan' = [u \in Registered \ {t} |-> plan[u]]

SetState(t, state) ==
  /\ t \in Registered
  /\ plan' = [plan EXCEPT ![t].state = state]

Clear == plan' = [t \in {} |-> {}]

Tick == plan' = [t \in Registered |-> Advance(plan[t])]

Next ==
  \/ \E t \in Task : Register(t) \/ Refuse(t) \/ Unregister(t)
  \/ \E t \in Task, state \in AppState : SetState(t, state)
  \/ Clear
  \/ Tick

Spec == Init /\ [][Next]_plan
=============================================================================
