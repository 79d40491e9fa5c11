------------------------------ MODULE Lifecycle ------------------------------
(***************************************************************************)
(* The on-demand life of bootcontrold: the bus starts it for a call, every *)
(* method holds an OperationGuard, and it exits after a full idle period   *)
(* (crates/daemon/src/lifecycle.rs, the end of main in main.rs).           *)
(*                                                                         *)
(* The watch channel always carries the mutex-protected state, so both are *)
(* one pair of variables, and the version of the channel is `generation'.  *)
(***************************************************************************)
EXTENDS Naturals, FiniteSets

CONSTANTS
  Caller,       \* clients, each with at most one call
  IdleTimeout,  \* the idle period, in clock ticks
  MaxEvents     \* bound on the calls and other messages of a behaviour

ASSUME LifecycleAssumption ==
  /\ IsFiniteSet(Caller)
  /\ IdleTimeout \in Nat \ {0}
  /\ MaxEvents \in Nat

VARIABLES
  op,           \* where each client's call is
  traffic,      \* messages the connection monitor has yet to record
  active,       \* ActivityState.active_operations
  generation,   \* ActivityState.generation
  waiter,       \* where wait_for_idle, and main behind it, is
  observed,     \* the generation wait_for_idle took with borrow_and_update
  left,         \* ticks until its sleep ends
  quiet,        \* ticks since the state last changed, at most IdleTimeout
  events        \* calls and messages so far

vars == <<op, traffic, active, generation, waiter, observed, left, quiet, events>>

\* "sent": the message waits in the socket; "running": its handler holds a guard;
\* "noreply": the bus tells the client that the daemon left.
Ops == {"none", "sent", "running", "replied", "noreply"}

Waiters == {"observe", "busy", "sleeping", "exiting", "off"}

Running == {c \in Caller : op[c] = "running"}

-----------------------------------------------------------------------------
(* The clients and the bus                                                 *)

\* A client calls; the bus passes the message on, or starts the daemon with it.
Call(c) ==
  /\ events < MaxEvents
  /\ op[c] \in {"none", "replied", "noreply"}
  /\ op' = [op EXCEPT ![c] = "sent"]
  /\ traffic' = (waiter # "off")
  /\ events' = events + 1
  /\ UNCHANGED <<active, generation, waiter, observed, left, quiet>>

\* Any other message on the connection.
Traffic ==
  /\ events < MaxEvents
  /\ waiter # "off"
  /\ traffic' = TRUE
  /\ events' = events + 1
  /\ UNCHANGED <<op, active, generation, waiter, observed, left, quiet>>

\* Bus activation: a call is waiting and the daemon does not run.
Activate ==
  /\ waiter = "off"
  /\ \E c \in Caller : op[c] = "sent"
  /\ waiter' = "observe"
  /\ active' = 0
  /\ generation' = 0
  /\ observed' = 0
  /\ left' = 0
  /\ quiet' = 0
  /\ traffic' = FALSE
  /\ UNCHANGED <<op, events>>

-----------------------------------------------------------------------------
(* ActivityTracker                                                         *)

\* update: the mutation, the next generation, and the send to the watch channel.
Update(count) ==
  /\ active' = count
  /\ generation' = generation + 1
  /\ quiet' = 0

\* monitor_connection_activity: record_activity for messages seen since the last.
Record ==
  /\ traffic
  /\ waiter \notin {"exiting", "off"}
  /\ traffic' = FALSE
  /\ Update(active)
  /\ UNCHANGED <<op, waiter, observed, left, events>>

\* A handler task starts with begin_operation.
Begin(c) ==
  /\ op[c] = "sent"
  /\ waiter # "off"
  /\ op' = [op EXCEPT ![c] = "running"]
  /\ Update(active + 1)
  /\ UNCHANGED <<traffic, waiter, observed, left, events>>

\* Mutant: the guard of a handler is forgotten, not dropped.
FinishLeaks(c) ==
  /\ op[c] = "running"
  /\ op' = [op EXCEPT ![c] = "replied"]
  /\ UNCHANGED <<traffic, active, generation, waiter, observed, left, quiet, events>>

\* Mutant: the guard is released by hand and once more by Drop.
FinishTwice(c) ==
  /\ op[c] = "running"
  /\ op' = [op EXCEPT ![c] = "replied"]
  /\ Update(IF active > 1 THEN active - 2 ELSE 0)
  /\ UNCHANGED <<traffic, waiter, observed, left, events>>

\* The handler ends, with a reply or an error, and drops its guard.
Finish(c) ==
  /\ op[c] = "running"
  /\ op' = [op EXCEPT ![c] = "replied"]
  /\ Update(IF active > 0 THEN active - 1 ELSE 0)
  /\ UNCHANGED <<traffic, waiter, observed, left, events>>

-----------------------------------------------------------------------------
(* wait_for_idle                                                           *)

\* borrow_and_update: with operations active it only waits for a change, else
\* it sleeps for the full period.
Observe ==
  /\ waiter = "observe"
  /\ observed' = generation
  /\ \/ active > 0 /\ waiter' = "busy" /\ left' = left
     \/ active = 0 /\ waiter' = "sleeping" /\ left' = IdleTimeout
  /\ UNCHANGED <<op, traffic, active, generation, quiet, events>>

\* changed() completes: the state has changed since it was observed.
Changed ==
  /\ waiter \in {"busy", "sleeping"}
  /\ generation # observed
  /\ waiter' = "observe"
  /\ UNCHANGED <<op, traffic, active, generation, observed, left, quiet, events>>

\* Mutant: only the count is compared when the sleep ends.
TimerEndsCountOnly ==
  /\ waiter = "sleeping"
  /\ left = 0
  /\ waiter' = IF active = 0 THEN "exiting" ELSE "observe"
  /\ UNCHANGED <<op, traffic, active, generation, observed, left, quiet, events>>

\* The sleep completes. When a change completes too, select may still take this
\* branch, so the state is compared with the one observed.
TimerEnds ==
  /\ waiter = "sleeping"
  /\ left = 0
  /\ waiter' = IF active = 0 /\ generation = observed THEN "exiting" ELSE "observe"
  /\ UNCHANGED <<op, traffic, active, generation, observed, left, quiet, events>>

\* main returns: the runtime is dropped with its tasks, and the bus answers for
\* the calls that are left.
Exit ==
  /\ waiter = "exiting"
  /\ waiter' = "off"
  /\ op' = [c \in Caller |-> IF op[c] \in {"sent", "running"} THEN "noreply" ELSE op[c]]
  /\ traffic' = FALSE
  /\ active' = 0
  /\ UNCHANGED <<generation, observed, left, quiet, events>>

\* Time passes.
Tick ==
  /\ waiter # "off"
  /\ left' = IF waiter = "sleeping" /\ left > 0 THEN left - 1 ELSE left
  /\ quiet' = IF quiet < IdleTimeout THEN quiet + 1 ELSE quiet
  /\ UNCHANGED <<op, traffic, active, generation, waiter, observed, events>>

-----------------------------------------------------------------------------
\* The bus has just started the daemon for a first call.
Init ==
  /\ \E c \in Caller : op = [d \in Caller |-> IF d = c THEN "sent" ELSE "none"]
  /\ traffic = FALSE
  /\ active = 0
  /\ generation = 0
  /\ waiter = "observe"
  /\ observed = 0
  /\ left = 0
  /\ quiet = 0
  /\ events = 0

Daemon ==
  \/ Record \/ Observe \/ Changed \/ TimerEnds \/ Exit
  \/ \E c \in Caller : Begin(c) \/ Finish(c)

Next ==
  \/ Daemon
  \/ \E c \in Caller : Call(c)
  \/ Traffic \/ Activate \/ Tick

Spec == Init /\ [][Next]_vars

\* Time passes, the bus activates the daemon, the runtime polls every task that is
\* ready, and a handler ends. Nothing obliges a client to call.
FairSpec ==
  /\ Spec
  /\ WF_vars(Tick) /\ WF_vars(Activate)
  /\ WF_vars(Record) /\ WF_vars(Observe) /\ WF_vars(Changed)
  /\ WF_vars(TimerEnds) /\ WF_vars(Exit)
  /\ \A c \in Caller : WF_vars(Begin(c)) /\ WF_vars(Finish(c))

-----------------------------------------------------------------------------
(* Properties                                                              *)

\* Every variable has its type.
TypeOK ==
  /\ op \in [Caller -> Ops]
  /\ traffic \in BOOLEAN
  /\ active \in 0..Cardinality(Caller)
  /\ generation \in Nat
  /\ waiter \in Waiters
  /\ observed \in Nat
  /\ left \in 0..IdleTimeout
  /\ quiet \in 0..IdleTimeout
  /\ events \in 0..MaxEvents

\* active_operations is the number of guards alive, across replies, errors and
\* restarts of the daemon: a count that drifts up keeps root running for ever, one
\* that drifts down lets the daemon leave under a running handler.
ActiveCountsGuards == active = Cardinality(Running)

\* wait_for_idle returns only after a whole idle period in which no handler ran or
\* ended and no message was recorded, also when the sleep and a change complete
\* at the same time.
ExitOnlyWhenIdle ==
  [][waiter = "sleeping" /\ waiter' = "exiting" =>
       Running = {} /\ quiet = IdleTimeout]_vars

\* Once clients stop calling, the daemon exits and stays away: no root process lingers.
EventuallyOff == <>[](waiter = "off")
=============================================================================
