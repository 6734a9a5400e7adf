SPECIFICATION FairSpec
CONSTANTS
  pop = pop  imap = imap  local = local  send = send  m1 = m1  m2 = m2
  SendTask = send
  Accounts = {pop, imap, local}
  Kind <- ThreeKinds
  Messages = {m1, m2}
INVARIANTS TypeOK InfoIsInTable PassIsUnsent
PROPERTY EveryRequestIsServed
