CONSTANTS
  c1 = c1  c2 = c2  i1 = i1  i2 = i2  m1 = m1  m2 = m2  m3 = m3
  Conns = {c1, c2}
  Instances = {i1, i2}
  InstOf <- MCInstOf
  Words <- MCWords
  Broker = "rabbitmq"
  UserOf <- MCUserOf
  OrgOf <- MCOrgOf
  Msgs = {m1, m2, m3}
  TargetOf <- MCTargetOf
  Flaky = {c2}
  Patient = {c1}
SPECIFICATION Spec
CHECK_DEADLOCK FALSE
INVARIANTS ExactlyTheAudience OnlyMine NoLeak
