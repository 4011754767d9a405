---------------------------- MODULE MCCallbacks ----------------------------
(***************************************************************************)
(* Model-checking instance of the components that keep callbacks and see   *)
(* to it that they are called: the two hosts, of which the environment     *)
(* picks one, the ring of nodes, the scheduler, and the queue of           *)
(* synchronous callbacks.  A behaviour is one of one component; the others *)
(* stay as they are.                                                       *)
(***************************************************************************)
EXTENDS SyncCallbackQueue, HostConfig

CONSTANT Expirations

VARIABLES
  component,
  \* of CallbackRing
  allocated, expires, next, previous, firstCallbackNode,
  \* of Scheduler
  clock, requestIsKnown, queue, created, expirationTime, priority, turn, isPerformingWork, isSchedulerPaused,
  currentHostCallbackDidTimeout, currentPriorityLevel, currentEventStartTime,
  currentExpirationTime, stack, hostRequest

Ring == INSTANCE CallbackRing WITH MaxNode <- 5

\* Two priority levels, of which the timeouts keep the order of the real ones.
Tasks == INSTANCE Scheduler WITH
  MaxNode <- 2, Expirations <- -1 .. 6, TimeoutOf <- <<-1, 1, 1, 2, 5>>, CustomTimeouts <- {},
  Levels <- {1, 3}, EnableSchedulerDebugging <- FALSE, MaxTime <- 1, MaxDepth <- 2,
  allocated <- created, expires <- expirationTime, now <- clock,
  isHostCallbackScheduled <- requestIsKnown

ringVars == <<allocated, expires, next, previous, firstCallbackNode>>
taskVars == <<clock, requestIsKnown, queue, created, expirationTime, priority, turn, isPerformingWork,
              isSchedulerPaused, currentHostCallbackDidTimeout, currentPriorityLevel,
              currentEventStartTime, currentExpirationTime, stack, hostRequest>>
allVars == <<component, hostVars, ringVars, taskVars, vars>>

CallbacksInit ==
  /\ component \in {"host", "ring", "tasks", "sync"}
  /\ HostConfigInit /\ (component # "host" => hasDOM)
  /\ Ring!RingInit /\ Tasks!Init /\ Init

CallbacksNext ==
  \/ component = "host" /\ HostConfigNext /\ UNCHANGED <<component, ringVars, taskVars, vars>>
  \/ component = "ring" /\ Ring!RingNext /\ UNCHANGED <<component, hostVars, taskVars, vars>>
  \/ component = "sync" /\ Next /\ UNCHANGED <<component, hostVars, ringVars, taskVars>>
  \/ component = "tasks" /\ Tasks!Next /\ UNCHANGED <<component, hostVars, ringVars, vars>>

\* The fairness of the component that runs.
CallbacksFairness ==
  /\ WF_domVars(component = "host" /\ hasDOM /\ OnMessage)
  /\ WF_domVars(component = "host" /\ hasDOM /\ FrameTimeout)
  /\ WF_domVars(component = "host" /\ hasDOM /\ FlushEnds)
  /\ WF_domVars(component = "host" /\ hasDOM /\ Tick)
  /\ SF_noDOMVars(component = "host" /\ ~hasDOM /\ FlushCallback)
  /\ WF_noDOMVars(component = "host" /\ ~hasDOM /\ DeferredRequest)
  /\ WF_noDOMVars(component = "host" /\ ~hasDOM /\ FlushCallbackEnds)
  /\ SF_Tasks!vars(component = "tasks" /\ Tasks!HostAnswers)
  /\ WF_Tasks!vars(component = "tasks" /\ (Tasks!FlushFirstCallback \/ Tasks!FlushReturns))
  /\ \A depth \in 1 .. 2 :
       SF_Tasks!vars(component = "tasks" /\ Len(stack) = depth /\ Tasks!UserCodeReturns)
  /\ WF_vars(component = "sync" /\ \E h \in pending : SchedulerRuns(h))
  /\ WF_vars(component = "sync" /\ (CallbackReturns \/ CallbackThrows))

CallbacksSpec == CallbacksInit /\ [][CallbacksNext]_allVars /\ CallbacksFairness
-----------------------------------------------------------------------------
\* Every callback in the scheduler's list is taken from it in the end, and every
\* synchronous one is called.
EveryCallbackIsTaken == Tasks!EveryCallbackIsTaken /\ EveryCallbackIsCalled

\* The ring implements the ordered list CallbackQueue.
ImplementsQueue == Ring!ImplementsQueue

\* Frames are of 3 ms at the default rate and of at least 1 ms.
MCTimeouts == {-2, 2}
MCFrameRates == {-1, 0, 4}
MCExpirations == {-1, 2, 3}
=============================================================================
