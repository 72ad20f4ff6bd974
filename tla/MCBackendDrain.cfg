\* Work left in the event loop by a call that returned.
CONSTANTS
  f = f
  g = g
  do = do
  s1 = s1
  p0 = p0
  p1 = p1
  t1 = t1
  t2 = t2
  None = None
  Oids <- MCOne
  DoBlock = do
  Sources <- MCSources
  Grants <- MCGrants
  NoGrant = p0
  Slots <- MCOneSlot
SPECIFICATION Spec
PROPERTY DrainedBeforeReturn
