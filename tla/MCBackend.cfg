\* Two functions and DO blocks, two permission sets, two pieces of
\* outstanding event-loop work: safety, the lease contract and liveness.
CONSTANTS
  f = f
  g = g
  do = do
  s1 = s1
  p0 = p0
  p1 = p1
  t1 = t1
  t2 = t2
  None = None
  Oids <- MCTwo
  DoBlock = do
  Sources <- MCSources
  Grants <- MCGrants
  NoGrant = p0
  Slots <- MCSlots
SPECIFICATION FairSpec
INVARIANTS
  TypeOK
  IdleIsClean
  OneInvocationInside
  HolderHasItsGrants
  ContextIsScoped
  SqlOnlyBelowABody
PROPERTIES
  NestedLeavesRuntimeAlone
  ImplementsContract
  EveryCallReturns
