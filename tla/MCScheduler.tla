---------------------------- MODULE MCScheduler ----------------------------
(***************************************************************************)
(* Model-checking instance of the components that take what applications   *)
(* give them and must stay intact whatever it is: the scheduler with its   *)
(* callbacks, the press responder with events, timers and ownership, a     *)
(* subscription with its sources, the server renderer with components and  *)
(* the readers of its streams, hydration with a server's markup, the       *)
(* tracing of interactions, a cache, the batches of a root, and the touches *)
(* of a native screen.  A behaviour is one of one component; the others    *)
(* stay as they are.                                                       *)
(*                                                                         *)
(* The scheduler's timeouts keep the order of the real ones (-1, 250,      *)
(* 5000, 10000, 2^30 - 1), and two of them are within the clock's reach.   *)
(***************************************************************************)
EXTENDS Scheduler, MCPress, MCServerRenderer, ResponderEventPlugin, Tracing,
        ReactCache, ReactBatch, CreateSubscription

VARIABLES
  component,
  \* of Hydration
  rendered, server, work, hydrationParentFiber, nextHydratableInstance, isHydrating, stateNode,
  placed, updated, effectList, childNodes, nodeValue, hydrationPhase

\* Forests whose leaves of some kinds hold nothing; a parser joins texts that follow
\* each other.
Forests(n, labels, leaves) ==
  {f \in UNION {[1 .. k -> {[kind |-> l[1], name |-> l[2], parent |-> p] :
                              l \in labels, p \in 0 .. k - 1}] : k \in 0 .. n} :
     /\ \A i \in DOMAIN f :
          /\ f[i].parent < i /\ (f[i].parent # 0 => f[f[i].parent].kind \notin leaves)
          /\ \A j \in f[i].parent + 1 .. i - 1 : f[j].parent >= f[i].parent
     /\ \A i, j \in DOMAIN f :
          i < j /\ f[i].kind = "text" /\ f[j].kind = "text" /\ f[i].parent = f[j].parent =>
            \E k \in i + 1 .. j - 1 : f[k].parent = f[i].parent}
AtMostOne(f, kind) == Cardinality({i \in DOMAIN f : f[i].kind = kind}) <= 1
StartsWith(f, name) ==  \* of two names; the other case is its mirror image
  \A i \in DOMAIN f : f[i].kind = "element" =>
    f[i].name = name \/ \E j \in 1 .. i - 1 : f[j].kind = "element"

\* Three fibers, with an empty text or without, and four of which a component
\* renders the last two; three nodes of the server.
Elements == {<<"element", "a">>, <<"element", "b">>}
MCRendered ==
  {f \in Forests(3, Elements \cup {<<"text", "x">>, <<"text", "">>, <<"component", "">>}, {"text"}) :
     AtMostOne(f, "component") /\ StartsWith(f, "a")}
  \cup {f \in Forests(4, Elements \cup {<<"component", "">>}, {}) :
          Len(f) = 4 /\ AtMostOne(f, "component") /\ StartsWith(f, "a")
          /\ \E i \in 1 .. 2 : f[i].kind = "component" /\ f[i + 1].parent = i /\ f[i + 2].parent = i}
MCMarkup ==
  {f \in Forests(3, Elements \cup {<<"text", "y">>, <<"comment", "">>}, {"text", "comment"}) :
     AtMostOne(f, "comment")}

\* Comments are in the way of up to two fibers.
FewAroundComments(fibers, markup) ==
  Len(fibers) <= 2 \/ \A n \in DOMAIN markup : markup[n].kind # "comment"

Hydrate == INSTANCE Hydration WITH
  Rendered <- MCRendered, Markup <- MCMarkup, NoNode <- Nil

ASSUME Hydrate!HydrationAssumption

hydrationVars == <<rendered, server, work, hydrationParentFiber, nextHydratableInstance, isHydrating,
                   stateNode, placed, updated, effectList, childNodes, nodeValue, hydrationPhase>>
componentVars == <<component, vars, pressVars, subscriptionVars, serverVars, hydrationVars,
                   tracingVars, cacheVars, batchVars, responderVars>>

ComponentsInit ==
  /\ component \in {"scheduler", "press", "subscription", "server", "hydration", "tracing", "cache",
                    "batches", "responders"}
  /\ Init /\ ServerInit /\ TracingInit /\ BatchInit
  /\ ResponderInit
  /\ PressInit /\ (component # "press" => /\ props = [p \in DOMAIN props |-> FALSE]
                                          /\ devices = {"pointer", "keyboard"})
  /\ SubscriptionInit /\ (component # "subscription" => parentSource = "A")
  /\ CacheInit /\ (component # "cache" => LIMIT = 0)
  /\ IF component = "hydration" THEN Hydrate!HydrationInit /\ FewAroundComments(rendered, server)
     ELSE /\ rendered = <<>> /\ server = <<>> /\ work = <<>> /\ hydrationParentFiber = Nil
          /\ nextHydratableInstance = Nil /\ isHydrating = FALSE /\ stateNode = <<>>
          /\ placed = {} /\ updated = {} /\ effectList = <<>> /\ childNodes = <<>>
          /\ nodeValue = <<>> /\ hydrationPhase = "none"

\* What a step of each component leaves as it is.
Older == UNCHANGED <<component, vars, pressVars, subscriptionVars, serverVars>>
Newer == UNCHANGED <<component, hydrationVars, tracingVars, cacheVars, batchVars, responderVars>>

\* After what the code gets wrong, batches are followed no further than one render.
BatchesToFollow == known = {} \/ renders <= 1

ComponentsNext ==
  \/ component = "scheduler" /\ Next /\ Newer
     /\ UNCHANGED <<pressVars, subscriptionVars, serverVars>>
  \/ component = "press" /\ PressNext /\ Newer
     /\ UNCHANGED <<vars, subscriptionVars, serverVars>>
  \/ component = "subscription" /\ SubscriptionNext /\ Newer
     /\ UNCHANGED <<vars, pressVars, serverVars>>
  \/ component = "server" /\ ServerNext /\ Newer
     /\ UNCHANGED <<vars, pressVars, subscriptionVars>>
  \/ component = "hydration" /\ Hydrate!HydrationNext /\ Older
     /\ UNCHANGED <<tracingVars, cacheVars, batchVars, responderVars>>
  \/ component = "tracing" /\ TracingNext /\ Older
     /\ UNCHANGED <<hydrationVars, cacheVars, batchVars, responderVars>>
  \/ component = "cache" /\ CacheNext /\ Older
     /\ UNCHANGED <<hydrationVars, tracingVars, batchVars, responderVars>>
  \/ component = "batches" /\ BatchesToFollow /\ BatchNext /\ Older
     /\ UNCHANGED <<hydrationVars, tracingVars, cacheVars, responderVars>>
  \/ component = "responders" /\ ResponderNext /\ Older
     /\ UNCHANGED <<hydrationVars, tracingVars, cacheVars, batchVars>>

ComponentsSpec == ComponentsInit /\ [][ComponentsNext]_componentVars
-----------------------------------------------------------------------------
\* Whatever the server has rendered, hydration ends with what the client renders.
HydratesAsRendered == component = "hydration" => Hydrate!HydratesAsRendered

MCExpirations == -1 .. 6
MCTimeoutOf == <<-1, 1, 1, 2, 5>>
MCCustomTimeouts == {}
MCLevels == {0, 1}

\* A view with a view in it, and one beside them.
MCAncestorsOf == [screen |-> {"screen"}, list |-> {"screen", "list"},
                  row |-> {"screen", "list", "row"}, bar |-> {"screen", "bar"}]
MCView == DOMAIN MCAncestorsOf
=============================================================================
