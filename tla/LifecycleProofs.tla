---------------------------- MODULE LifecycleProofs ----------------------------
(***************************************************************************)
(* Proofs about Lifecycle for any number of clients, any idle period and   *)
(* any number of messages.                                                 *)
(***************************************************************************)
EXTENDS Lifecycle, FiniteSetTheorems, TLAPS

\* What wait_for_idle knows while it sleeps: if nothing changed since it looked,
\* nothing runs, and the quiet so far and the sleep left make up a whole period.
SleepInv ==
  /\ observed <= generation
  /\ waiter = "off" => Running = {}
  /\ waiter = "sleeping" /\ observed = generation =>
       active = 0 /\ quiet + left >= IdleTimeout

LifeInv == TypeOK /\ ActiveCountsGuards /\ SleepInv

\* The handlers that run are finitely many, never more than the clients.
LEMMA RunningFinite ==
  /\ IsFiniteSet(Running)
  /\ Cardinality(Running) \in Nat
  /\ Cardinality(Running) <= Cardinality(Caller)
  /\ Cardinality(Caller) \in Nat
<1>1. Running \subseteq Caller
  BY DEF Running
<1>2. QED
  BY <1>1, LifecycleAssumption, FS_Subset, FS_CardinalityType

\* A handler that begins adds one to the handlers that run.
LEMMA BeginCounts ==
  ASSUME NEW c \in Caller, op \in [Caller -> Ops], Begin(c)
  PROVE  Cardinality(Running') = Cardinality(Running) + 1
<1>1. Running' = Running \union {c} /\ c \notin Running
  BY DEF Begin, Running
<1>2. QED
  BY <1>1, RunningFinite, FS_AddElement

\* A handler that ends takes one from them.
LEMMA FinishCounts ==
  ASSUME NEW c \in Caller, op \in [Caller -> Ops], Finish(c)
  PROVE  Cardinality(Running') = Cardinality(Running) - 1 /\ Cardinality(Running) > 0
<1>1. Running' = Running \ {c} /\ c \in Running
  BY DEF Finish, Running
<1>2. Cardinality(Running') = Cardinality(Running) - 1
  BY <1>1, RunningFinite, FS_RemoveElement
<1>3. Cardinality(Running') \in Nat
  BY <1>1, RunningFinite, FS_RemoveElement, FS_CardinalityType
<1>4. QED
  BY <1>2, <1>3, RunningFinite

\* No handler runs when no call is in flight.
LEMMA NoneRunning == Running = {} => Cardinality(Running) = 0
  BY FS_EmptySet

\* LifeInv holds when the bus has started the daemon.
LEMMA InitLifeInv == Init => LifeInv
<1> SUFFICES ASSUME Init
             PROVE  LifeInv
  OBVIOUS
<1>1. op \in [Caller -> Ops] /\ Running = {}
  BY DEF Init, Ops, Running
<1>2. TypeOK
  <2>1. traffic \in BOOLEAN
    BY Zenon DEF Init
  <2>2. /\ waiter \in Waiters
        /\ active \in 0..Cardinality(Caller)
        /\ left \in 0..IdleTimeout /\ quiet \in 0..IdleTimeout
        /\ events \in 0..MaxEvents
        /\ generation \in Nat /\ observed \in Nat
    BY LifecycleAssumption, RunningFinite DEF Init, Waiters
  <2>3. QED
    BY <1>1, <2>1, <2>2 DEF TypeOK
<1>3. ActiveCountsGuards
  BY <1>1, NoneRunning DEF Init, ActiveCountsGuards
<1>4. SleepInv
  BY DEF Init, SleepInv
<1>5. QED
  BY <1>2, <1>3, <1>4 DEF LifeInv

\* Every step of a client, the bus, a handler or wait_for_idle keeps LifeInv.
LEMMA NextLifeInv == LifeInv /\ [Next]_vars => LifeInv'
<1> SUFFICES ASSUME LifeInv, [Next]_vars
             PROVE  LifeInv'
  OBVIOUS
<1> USE LifecycleAssumption, RunningFinite
        DEF LifeInv, TypeOK, ActiveCountsGuards, SleepInv, Ops, Waiters
<1>1. ASSUME NEW c \in Caller, Call(c)
      PROVE  LifeInv'
  <2>1. Running' = Running
    BY <1>1 DEF Call, Running
  <2>2. QED
    BY <1>1, <2>1 DEF Call
<1>2. CASE Traffic
  BY <1>2 DEF Traffic, Running
<1>3. CASE Activate
  <2>1. Running' = {} /\ Cardinality(Running') = 0
    BY <1>3, FS_EmptySet DEF Activate, Running
  <2>2. traffic' \in BOOLEAN
    BY <1>3, Zenon DEF Activate
  <2>3. TypeOK'
    BY <1>3, <2>2 DEF Activate
  <2>4. ActiveCountsGuards' /\ SleepInv'
    BY <1>3, <2>1 DEF Activate
  <2>5. QED
    BY <2>3, <2>4
<1>4. CASE Record
  <2>1. Running' = Running
    BY <1>4 DEF Record, Update, Running
  <2>2. traffic' \in BOOLEAN
    BY <1>4, Zenon DEF Record
  <2>3. TypeOK'
    BY <1>4, <2>2 DEF Record, Update
  <2>4. ActiveCountsGuards' /\ SleepInv'
    BY <1>4, <2>1 DEF Record, Update
  <2>5. QED
    BY <2>3, <2>4
<1>5. ASSUME NEW c \in Caller, Begin(c)
      PROVE  LifeInv'
  <2>1. Cardinality(Running') = Cardinality(Running) + 1
    BY <1>5, BeginCounts
  <2>2. Running' \subseteq Caller
    BY DEF Running
  <2>3. Cardinality(Running') <= Cardinality(Caller)
    BY <2>2, FS_Subset
  <2>4. QED
    BY <1>5, <2>1, <2>3 DEF Begin, Update
<1>6. ASSUME NEW c \in Caller, Finish(c)
      PROVE  LifeInv'
  <2>1. Cardinality(Running') = Cardinality(Running) - 1 /\ Cardinality(Running) > 0
    BY <1>6, FinishCounts
  <2>2. waiter # "off"
    BY <1>6 DEF Finish, Running
  <2>3. QED
    BY <1>6, <2>1, <2>2 DEF Finish, Update
<1>7. CASE Observe
  BY <1>7 DEF Observe, Running
<1>8. CASE Changed
  BY <1>8 DEF Changed, Running
<1>9. CASE TimerEnds
  BY <1>9 DEF TimerEnds, Running
<1>10. CASE Exit
  <2>1. Running' = {}
    BY <1>10 DEF Exit, Running
  <2>2. Cardinality(Running') = 0
    BY <2>1, FS_EmptySet
  <2>3. op' \in [Caller -> Ops]
    BY <1>10 DEF Exit
  <2>4. traffic' \in BOOLEAN
    BY <1>10, Zenon DEF Exit
  <2>5. TypeOK'
    BY <1>10, <2>3, <2>4 DEF Exit
  <2>6. ActiveCountsGuards' /\ SleepInv'
    BY <1>10, <2>1, <2>2 DEF Exit
  <2>7. QED
    BY <2>5, <2>6
<1>11. CASE Tick
  BY <1>11 DEF Tick, Running
<1>12. CASE UNCHANGED vars
  BY <1>12 DEF vars, Running
<1>13. QED
  BY <1>1, <1>2, <1>3, <1>4, <1>5, <1>6, <1>7, <1>8, <1>9, <1>10, <1>11, <1>12 DEF Next, Daemon

\* LifeInv is an invariant.
LEMMA LifeInvariant == Spec => []LifeInv
  BY InitLifeInv, NextLifeInv, PTL DEF Spec

\* The count of active operations is the number of guards alive, for any number of
\* clients and through any restarts.
THEOREM GuardsAreCounted == Spec => []ActiveCountsGuards
<1>1. LifeInv => ActiveCountsGuards
  BY DEF LifeInv
<1>2. QED
  BY <1>1, LifeInvariant, PTL

\* Every variable keeps its type.
THEOREM TypeCorrect == Spec => []TypeOK
<1>1. LifeInv => TypeOK
  BY DEF LifeInv
<1>2. QED
  BY <1>1, LifeInvariant, PTL

\* The daemon decides to leave only after a whole idle period with no handler.
THEOREM WholePeriodBeforeExit == Spec => ExitOnlyWhenIdle
<1>1. LifeInv /\ [Next]_vars =>
        [waiter = "sleeping" /\ waiter' = "exiting" => Running = {} /\ quiet = IdleTimeout]_vars
  <2> SUFFICES ASSUME LifeInv, [Next]_vars, waiter = "sleeping", waiter' = "exiting"
               PROVE  Running = {} /\ quiet = IdleTimeout
    OBVIOUS
  <2>1. TimerEnds
    BY DEF Next, Daemon, vars, Call, Traffic, Activate, Record, Begin, Finish, Observe,
           Changed, Exit, Tick
  <2>2. left = 0 /\ active = 0 /\ generation = observed
    BY <2>1 DEF TimerEnds
  <2>3. quiet = IdleTimeout
    BY <2>2, LifecycleAssumption DEF LifeInv, SleepInv, TypeOK
  <2>4. Cardinality(Running) = 0
    BY <2>2 DEF LifeInv, ActiveCountsGuards
  <2>5. Running = {}
    BY <2>4, RunningFinite, FS_EmptySet
  <2>6. QED
    BY <2>3, <2>5
<1>2. QED
  BY <1>1, LifeInvariant, PTL DEF Spec, ExitOnlyWhenIdle
=============================================================================
