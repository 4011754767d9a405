--------------------------- MODULE ServerRenderer ---------------------------
(***************************************************************************)
(* packages/react-dom/src/server: ReactPartialRenderer.js, which walks a   *)
(* tree of elements with a stack of frames and can stop between elements,  *)
(* with ReactThreadIDAllocator.js, ReactPartialRendererContext.js and      *)
(* ReactPartialRendererHooks.js.                                           *)
(*                                                                         *)
(* Several renderers are alive at a time: streams, which are read in parts *)
(* and may be destroyed, and calls of renderToString, also from within a   *)
(* component.  They share the context objects, where each has the slot of  *)
(* its thread ID, and the module variables of the hooks.  The markup is    *)
(* left out.                                                               *)
(***************************************************************************)
EXTENDS Integers, Sequences, SequencesExt, FiniteSets

CONSTANTS
  Element,        \* the elements
  Kind,           \* "dom", "class", "function", "provider", "consumer" or "suspense"
  Kids,           \* the children it renders, or the component returns
  Fallback,       \* of a suspense boundary
  ContextOf,      \* of a provider or a consumer
  ValueOf,        \* of a provider
  Body,           \* of a class or a function: what it does before it returns
  Top,            \* the elements that are rendered as a whole
  Nested,         \* the element that a component renders to a string
  Context, Default,
  Stream, Inner,  \* the renderers of streams, and of renderToString within components
  InitialThreads, MaxThreads,  \* 16 and 0x10000
  Nil

\* What is assumed of the constants.
ASSUME ServerRendererAssumption ==
  /\ Top \subseteq Element /\ Nested \in Element /\ Nil \notin Element
  /\ Kids \in [Element -> Seq(Element)] /\ Fallback \in [Element -> Seq(Element)]
  /\ \A e \in Element : Kind[e] \in {"provider", "consumer"} => ContextOf[e] \in Context
  /\ Body \in [Element -> Seq({"useState", "update", "renderToString", "suspend", "throw"})]
  /\ \A e \in Element : \A i \in DOMAIN Body[e] :
       Body[e][i] = "update" => \E j \in 1 .. i - 1 : Body[e][j] = "useState"
  /\ Stream \cap Inner = {}
  /\ InitialThreads \in Nat \ {0, 1} /\ MaxThreads \in Nat

Renderer == Stream \cup Inner

VARIABLES
  nextAvailableThreadIDs,   \* a sequence; entry i + 1 is the array's entry i
  value,                    \* of each context: its slots, _threadCount of them
  renderer,                 \* of each renderer: the object, exhausted before it is created
  reading,                  \* the calls of read(), the innermost last
  currentThreadID,
  hooks                     \* the module variables of ReactPartialRendererHooks.js

allocatorVars == <<nextAvailableThreadIDs, value>>
serverVars == <<allocatorVars, renderer, reading, currentThreadID, hooks>>

\* `updates` is the map of render-phase updates: of each queue, the action of the last one.
NoHooks == [currentlyRenderingComponent |-> 0, list |-> <<>>, at |-> 0, updates |-> <<>>,
            didScheduleRenderPhaseUpdate |-> FALSE, numberOfReRenders |-> 0]

NoRenderer == [threadID |-> 0, stack |-> <<>>, exhausted |-> TRUE, suspenseDepth |-> 0,
               contextStack |-> <<>>]

ServerInit ==
  /\ nextAvailableThreadIDs =
       [i \in 1 .. InitialThreads |-> IF i = InitialThreads THEN 0 ELSE i]
  /\ value = [c \in Context |-> <<>>]
  /\ renderer = [r \in Renderer |-> NoRenderer]
  /\ reading = <<>> /\ currentThreadID = 0
  /\ hooks = NoHooks
-----------------------------------------------------------------------------
(* Thread IDs, kept in a list that starts in entry 0 of the array.          *)

firstAvailable(ids) == ids[1]

growThreadCount(ids) ==
  LET oldSize == Len(ids)
  IN  [i \in 1 .. 2 * oldSize |->
         CASE i = 1 -> oldSize + 1
           [] i = 2 * oldSize -> 0
           [] i \in oldSize + 1 .. 2 * oldSize - 1 -> i
           [] OTHER -> ids[i]]

mayAlloc(ids) == firstAvailable(ids) # 0 \/ 2 * Len(ids) <= MaxThreads

\* The allocated ID and the array after it.
allocThreadID(ids) ==
  LET id == firstAvailable(ids)
  IN  IF id = 0 THEN [id |-> Len(ids), ids |-> growThreadCount(ids)]
      ELSE [id |-> id, ids |-> [ids EXCEPT ![1] = ids[id + 1]]]

freeThreadID(ids, id) == [ids EXCEPT ![id + 1] = ids[1], ![1] = id]
-----------------------------------------------------------------------------
(* Contexts.                                                                *)

\* The slots of a context after validateContextBounds: entry i + 1 is that of
\* the thread with ID i.
validateContextBounds(c, id) ==
  IF Len(value[c]) > id THEN value[c]
  ELSE value[c] \o [i \in 1 .. id + 1 - Len(value[c]) |-> Default]

pushProvider(S, e) ==
  LET c == ContextOf[e]
  IN  [S EXCEPT !.contextStack =
         Append(@, [context |-> c, previous |-> validateContextBounds(c, S.threadID)[S.threadID + 1]])]

popProvider(S) == [S EXCEPT !.contextStack = Front(@)]

\* The entries of a context on the stack.
entriesOf(S, c) == {k \in DOMAIN S.contextStack : S.contextStack[k].context = c}

\* Mutant: the providers are cleared from the outermost to the innermost.
ClearsInOrder(S) ==
  [c \in Context |->
     IF entriesOf(S, c) = {} THEN value[c]
     ELSE [value[c] EXCEPT ![S.threadID + 1] = S.contextStack[Max(entriesOf(S, c))].previous]]

\* The slots after clearProviders: each context gets the value it had before
\* the first provider on the stack.
clearProviders(S) ==
  [c \in Context |->
     IF entriesOf(S, c) = {} THEN value[c]
     ELSE [value[c] EXCEPT ![S.threadID + 1] = S.contextStack[Min(entriesOf(S, c))].previous]]
-----------------------------------------------------------------------------
(* Renderers.                                                               *)

NewFrame(type, children, fallback) ==
  [type |-> type, children |-> children, childIndex |-> 0, fallback |-> fallback]

NewRenderer(id, e) ==
  [threadID |-> id, stack |-> <<NewFrame(Nil, <<e>>, <<>>)>>, exhausted |-> FALSE,
   suspenseDepth |-> 0, contextStack |-> <<>>]

NoRun == [pc |-> 0, states |-> <<>>, first |-> 0, updates |-> 0, base |-> 0, failing |-> FALSE]

Reading(r) == [renderer |-> r, prevThreadID |-> currentThreadID, suspended |-> FALSE,
               child |-> Nil, run |-> NoRun]

isAlive(r) == ~renderer[r].exhausted

call == Last(reading)
R == renderer[call.renderer]
frame == Last(R.stack)
WithCall(c) == Append(Front(reading), c)
WithRenderer(S) == [renderer EXCEPT ![call.renderer] = S]

isReading == reading # <<>>
betweenChildren == isReading /\ call.child = Nil
isRunning == isReading /\ call.run.pc # 0

\* The constructor, called by the application.
Create(r, e) ==
  /\ ~isReading /\ mayAlloc(nextAvailableThreadIDs)
  /\ ~isAlive(r)
  /\ LET alloc == allocThreadID(nextAvailableThreadIDs)
     IN  /\ nextAvailableThreadIDs' = alloc.ids
         /\ renderer' = [renderer EXCEPT ![r] = NewRenderer(alloc.id, e)]
  /\ UNCHANGED <<value, reading, currentThreadID, hooks>>

Read(r) ==
  /\ ~isReading /\ isAlive(r)
  /\ reading' = <<Reading(r)>>
  /\ currentThreadID' = renderer[r].threadID
  /\ UNCHANGED <<allocatorVars, renderer, hooks>>

destroyed(S) == [S EXCEPT !.exhausted = TRUE]

\* The reader of a stream is done with it, or it failed.
Destroy(r) ==
  /\ ~isReading /\ isAlive(r)
  /\ renderer' = [renderer EXCEPT ![r] = destroyed(@)]
  /\ value' = clearProviders(renderer[r])
  /\ nextAvailableThreadIDs' = freeThreadID(nextAvailableThreadIDs, renderer[r].threadID)
  /\ UNCHANGED <<reading, currentThreadID, hooks>>

\* Enough is rendered.  The markup in a suspense boundary is buffered, so that
\* read() does not return in one.
StopReading ==
  /\ betweenChildren /\ call.renderer \in Stream
  /\ R.suspenseDepth = 0
  /\ reading' = Front(reading)
  /\ currentThreadID' = call.prevThreadID
  /\ UNCHANGED <<allocatorVars, renderer, hooks>>

\* read() has rendered everything; a component goes on after renderToString.
Finish ==
  /\ betweenChildren /\ R.stack = <<>>
  /\ renderer' = WithRenderer(destroyed(R))
  /\ nextAvailableThreadIDs' = freeThreadID(nextAvailableThreadIDs, R.threadID)
  /\ reading' = Front(reading)
  /\ currentThreadID' = call.prevThreadID
  /\ UNCHANGED <<value, hooks>>

\* A frame is done, or rendering was suspended within it.
PopFrame ==
  /\ betweenChildren /\ R.stack # <<>>
  /\ call.suspended \/ frame.childIndex >= Len(frame.children)
  /\ LET S == [R EXCEPT !.stack = Front(@)]
         type == IF frame.type = Nil THEN "dom" ELSE Kind[frame.type]
         here == type = "suspense" /\ call.suspended
     IN  /\ renderer' = WithRenderer(
              CASE type = "provider" -> popProvider(S)
                [] type = "suspense" ->
                     [S EXCEPT !.suspenseDepth = @ - 1,
                               !.stack = IF here THEN Append(@, NewFrame(Nil, frame.fallback, <<>>))
                                         ELSE @]
                [] OTHER -> S)
         /\ value' = IF type = "provider"
                     THEN [value EXCEPT ![Last(R.contextStack).context][R.threadID + 1] =
                             Last(R.contextStack).previous]
                     ELSE value
         /\ reading' = WithCall([call EXCEPT !.suspended = @ /\ ~here])
  /\ UNCHANGED <<nextAvailableThreadIDs, currentThreadID, hooks>>

NextChild ==
  /\ betweenChildren /\ R.stack # <<>>
  /\ ~call.suspended /\ frame.childIndex < Len(frame.children)
  /\ renderer' = WithRenderer([R EXCEPT !.stack[Len(R.stack)].childIndex = @ + 1])
  /\ reading' = WithCall([call EXCEPT !.child = frame.children[frame.childIndex + 1]])
  /\ UNCHANGED <<allocatorVars, currentThreadID, hooks>>

rendering(kind) == isReading /\ call.child # Nil /\ ~isRunning /\ Kind[call.child] = kind

\* resolve() goes on with the one element a component returns; any other
\* children are put into a frame.
Returned(e) ==
  IF Len(Kids[e]) = 1
  THEN /\ reading' = WithCall([call EXCEPT !.child = Kids[e][1], !.run = NoRun])
       /\ UNCHANGED renderer
  ELSE /\ reading' = WithCall([call EXCEPT !.child = Nil, !.run = NoRun])
       /\ renderer' = WithRenderer([R EXCEPT !.stack = Append(@, NewFrame(Nil, Kids[e], <<>>))])

Pushed(S, type, fallback) ==
  /\ renderer' = WithRenderer([S EXCEPT !.stack = Append(@, NewFrame(type, Kids[call.child], fallback))])
  /\ reading' = WithCall([call EXCEPT !.child = Nil])

renderDOM ==
  /\ rendering("dom")
  /\ Pushed(R, call.child, <<>>)
  /\ UNCHANGED <<allocatorVars, currentThreadID, hooks>>

renderSuspense ==
  /\ rendering("suspense")
  /\ Pushed([R EXCEPT !.suspenseDepth = @ + 1], call.child, Fallback[call.child])
  /\ UNCHANGED <<allocatorVars, currentThreadID, hooks>>

renderProvider ==
  /\ rendering("provider")
  /\ LET c == ContextOf[call.child]
     IN  value' = [value EXCEPT ![c] =
              [validateContextBounds(c, R.threadID) EXCEPT ![R.threadID + 1] = ValueOf[call.child]]]
  /\ Pushed(pushProvider(R, call.child), call.child, <<>>)
  /\ UNCHANGED <<nextAvailableThreadIDs, currentThreadID, hooks>>

\* What is read is checked by the invariant, of every context at any time.
renderConsumer ==
  /\ rendering("consumer")
  /\ LET c == ContextOf[call.child]
     IN  value' = [value EXCEPT ![c] = validateContextBounds(c, R.threadID)]
  /\ Pushed(R, call.child, <<>>)
  /\ UNCHANGED <<nextAvailableThreadIDs, currentThreadID, hooks>>

-----------------------------------------------------------------------------
(* Components.  The states of component e are <<e, 0>> at first and the first *)
(* of them <<e, 1>> after the update it makes of it while it renders; base is   *)
(* 1 if it did before this call of it.                                        *)

isFunction == Kind[call.child] = "function"

\* A function component prepares to use hooks first.
callComponent ==
  /\ isReading /\ call.child # Nil /\ ~isRunning /\ Kind[call.child] \in {"class", "function"}
  /\ reading' = WithCall([call EXCEPT !.run.pc = 1])
  /\ hooks' = IF isFunction
              THEN [hooks EXCEPT !.currentlyRenderingComponent = Len(reading)]
              ELSE hooks
  /\ UNCHANGED <<allocatorVars, renderer, currentThreadID>>

run == call.run
does(op) == /\ isRunning /\ ~run.failing
            /\ run.pc <= Len(Body[call.child]) /\ Body[call.child][run.pc] = op

\* createWorkInProgressHook: the next hook of the list, or a new one.
isReRender == hooks.at < Len(hooks.list)

\* Thrown instead: no component is rendering, or the hook is one more than in
\* the pass before.
isInvalidCall ==
  \/ hooks.currentlyRenderingComponent = 0
  \/ ~isReRender /\ hooks.numberOfReRenders > 0

\* useReducer with an initial state of its own for each component.
useState ==
  /\ does("useState") /\ ~isInvalidCall
  /\ LET at == hooks.at + 1
         isUpdated == at \in DOMAIN hooks.updates
         state == IF ~isReRender THEN <<call.child, 0>>
                  ELSE IF isUpdated THEN hooks.updates[at] ELSE hooks.list[at]
     IN  /\ hooks' = [hooks EXCEPT
              !.at = at,
              !.list = IF isReRender THEN [@ EXCEPT ![at] = state] ELSE Append(@, state),
              !.updates = IF isReRender THEN [q \in DOMAIN @ \ {at} |-> @[q]] ELSE @]
         /\ reading' = WithCall([call EXCEPT
              !.run.pc = @ + 1,
              !.run.states = Append(@, state),
              !.run.first = IF run.states = <<>> THEN at ELSE @])
  /\ UNCHANGED <<allocatorVars, renderer, currentThreadID>>

\* The component dispatches an update of its first state, unless it did.
dispatchAction ==
  /\ does("update")
  /\ LET isRenderPhase == hooks.currentlyRenderingComponent = Len(reading)
         dispatched == run.states[1] = <<call.child, 0>> /\ isRenderPhase
         action == <<call.child, 1>>
     IN  /\ hooks' = IF dispatched
                     THEN [hooks EXCEPT !.didScheduleRenderPhaseUpdate = TRUE,
                                        !.updates = [q \in DOMAIN @ \cup {run.first} |->
                                                      IF q = run.first THEN action ELSE @[q]]]
                     ELSE hooks
         /\ reading' = WithCall([call EXCEPT !.run.pc = @ + 1, 
                                             !.run.updates = IF dispatched THEN 1 ELSE @])
  /\ UNCHANGED <<allocatorVars, renderer, currentThreadID>>

\* renderToString within a component.
renderToString(r) ==
  /\ does("renderToString") /\ mayAlloc(nextAvailableThreadIDs) /\ ~isAlive(r)
  /\ LET alloc == allocThreadID(nextAvailableThreadIDs)
     IN  /\ nextAvailableThreadIDs' = alloc.ids
         /\ renderer' = [renderer EXCEPT ![r] = NewRenderer(alloc.id, Nested)]
         /\ currentThreadID' = alloc.id
  /\ reading' = Append(WithCall([call EXCEPT !.run.pc = @ + 1]), Reading(r))
  /\ UNCHANGED <<value, hooks>>

\* A thenable is thrown: the frames up to the nearest boundary, or all of
\* them, will be popped.
suspend ==
  /\ does("suspend")
  /\ reading' = WithCall([call EXCEPT !.child = Nil, !.run = NoRun, !.suspended = TRUE])
  /\ UNCHANGED <<allocatorVars, renderer, currentThreadID, hooks>>

\* An error leaves read(), whose caller destroys the renderer; from
\* renderToString it goes on in the component that called it.
throw ==
  /\ isRunning /\ (run.failing \/ does("throw") \/ (does("useState") /\ isInvalidCall))
  /\ reading' = IF Len(reading) = 1 THEN <<>>
                ELSE [Front(reading) EXCEPT ![Len(reading) - 1].run.failing = TRUE]
  /\ currentThreadID' = call.prevThreadID
  /\ renderer' = WithRenderer(destroyed(R))
  /\ value' = clearProviders(R)
  /\ nextAvailableThreadIDs' = freeThreadID(nextAvailableThreadIDs, R.threadID)
  /\ UNCHANGED hooks

\* What finishHooks leaves.
resetHooks == NoHooks

\* The component returned.  finishHooks calls it again if it updated its state.
componentReturns ==
  /\ isRunning /\ ~run.failing /\ run.pc > Len(Body[call.child])
  /\ IF isFunction /\ hooks.didScheduleRenderPhaseUpdate
     THEN /\ hooks' = [hooks EXCEPT !.didScheduleRenderPhaseUpdate = FALSE,
                                    !.numberOfReRenders = @ + 1, !.at = 0]
          /\ reading' = WithCall([call EXCEPT !.run.pc = 1, !.run.states = <<>>,
                                              !.run.base = run.updates])
          /\ UNCHANGED renderer
     ELSE /\ hooks' = IF isFunction THEN resetHooks ELSE hooks
          /\ Returned(call.child)
  /\ UNCHANGED <<allocatorVars, currentThreadID>>

ServerNext ==
  \/ \E r \in Stream, e \in Top : Create(r, e)
  \/ \E r \in Stream : Read(r) \/ Destroy(r)
  \/ StopReading \/ Finish \/ PopFrame \/ NextChild
  \/ renderDOM \/ renderSuspense \/ renderProvider \/ renderConsumer
  \/ callComponent \/ useState \/ dispatchAction
  \/ \E r \in Inner : renderToString(r)
  \/ suspend \/ throw \/ componentReturns

ServerSpec == ServerInit /\ [][ServerNext]_serverVars
-----------------------------------------------------------------------------
\* The value of a context for thread `id`.
slotOf(c, id) == IF Len(value[c]) > id THEN value[c][id + 1] ELSE Default

provides(f, c) == f.type # Nil /\ Kind[f.type] = "provider" /\ ContextOf[f.type] = c

\* v is what the nearest provider of c among the first n frames provides.
IsNearest(v, stack, n, c) ==
  \/ v = Default /\ \A i \in 1 .. n : ~provides(stack[i], c)
  \/ \E i \in 1 .. n : /\ provides(stack[i], c) /\ v = ValueOf[stack[i].type]
                       /\ \A j \in i + 1 .. n : ~provides(stack[j], c)

\* What a renderer reads of a context is its own: the slot of its thread holds
\* the value of the nearest provider around the element it is at, or the
\* default, whatever other renderers did, left behind or are doing; and the
\* renderer that runs reads the slot of its own thread.
ContextsAreOwn ==
  /\ \A r \in Renderer, c \in Context : isAlive(r) =>
       IsNearest(slotOf(c, renderer[r].threadID), renderer[r].stack, Len(renderer[r].stack), c)
  /\ currentThreadID = IF isReading THEN R.threadID ELSE 0

\* The hooks of a component return its own states, each as its updates left it,
\* whatever rendered before it or is rendered within it.
StatesAreOwn ==
  \A i \in DOMAIN reading :
    LET component == reading[i].run
    IN  \A s \in DOMAIN component.states :
          component.states[s] = <<reading[i].child, IF s = 1 THEN component.base ELSE 0>>

\* Only function components use hooks, and one that does renders to its end: it
\* does not throw or suspend, and renders nothing to a string.
HooksRunThrough ==
  \A e \in Element :
    LET does_(op) == \E i \in DOMAIN Body[e] : Body[e][i] = op
    IN  does_("useState") =>
          Kind[e] = "function" /\ ~does_("throw") /\ ~does_("suspend") /\ ~does_("renderToString")

\* Requests that a server renders in turns do not mix: contexts are those of the
\* renderer that reads them, and so are the states of components, as far as
\* these run through (HooksReset is about the others).
RequestsAreSeparate == ContextsAreOwn /\ (HooksRunThrough => StatesAreOwn)

\* "The following should have already been reset", says a comment in
\* prepareToUseHooks of the module variables of the hooks.
HooksReset == [][callComponent /\ isFunction => hooks = NoHooks]_serverVars
=============================================================================
