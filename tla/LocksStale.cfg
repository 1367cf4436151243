CONSTANTS
  t1 = t1
  t2 = t2
  Tx = {t1, t2}
  User = {1, 2}
  Bots = {2}
  Conv = {1, 2}
  Sent = {1}
  Kinds = {"send", "allow_bots"}
SPECIFICATION Spec
PROPERTIES BotsBarred
CHECK_DEADLOCK FALSE
