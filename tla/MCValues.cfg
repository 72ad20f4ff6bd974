\* Integers of 2, 3 and 5 bits, floats of 2 and 3 significant bits.
CONSTANTS
  t = t
  u = u
  W2 = 2
  W4 = 3
  W8 = 5
  P4 = 2
  P8 = 3
  E4 = 4
  E8 = 6
  Texts = {t, u}
  JsonText <- MCJsonText
  Nothing = Nothing
SPECIFICATION Spec
INVARIANTS
  TypeOK
  

  
  
  
