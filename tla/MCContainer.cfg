SPECIFICATION FairSpec
CONSTANTS
  repo = repo
  service = service
  beanA = beanA
  beanB = beanB
  form = form
  boot = boot
  g1 = g1
  g2 = g2
  tRepo = tRepo
  tService = tService
  tA = tA
  tB = tB
  tForm = tForm
  Beans <- MCBeans
  Types <- MCTypes
  Boot = boot
  Threads <- MCThreads
  Repositories = {repo}
  Services = {service}
  TypeOf <- MCTypeOf
  Named <- MCNamed
  Graphs <- MCGraphs
  MaxFaults = 1
  Err = Err
  Panicked = Panicked
  Nil = Nil
INVARIANTS
  OneInstance
PROPERTY Resolves
CHECK_DEADLOCK FALSE
