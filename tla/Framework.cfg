SPECIFICATION Spec
CONSTANTS
  Null = Null
  Names <- MCNames
  Threads = {t1, t2}
  V4 <- MCV4
  V6 <- MCV6
  Low <- MCLow
  Net <- MCNet
  Lmbs <- MCLmbs
  JavaInterfaces <- MCJavaInterfaces
  JavaMaps <- MCJavaMaps
  Pathnames <- MCPathnames
  MaxInterfaces = 2
SYMMETRY Interchangeable
INVARIANTS
  TypeOK
  LmbGoesToItsSubnet
  ObjectsComeBack
  ParentsLeadUp
