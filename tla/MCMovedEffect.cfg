SPECIFICATION HookSpec
CONSTANTS
  State <- MCState
  Initial = 0
  Action <- MCAction
  Dispatched = {"switch", "zero"}
  Reduce <- MCReduce
  RenderPhase <- MCRenderPhase
  Deps = {d1, d2}
  RE_RENDER_LIMIT = 2
  MaxTime = 2
  MaxUpdate <- MCMaxUpdate
  Kinds = {"passive"}
  Moves = {{}, {"Placement"}}
  Nil = Nil
INVARIANT
  EffectsPaired
CHECK_DEADLOCK FALSE
