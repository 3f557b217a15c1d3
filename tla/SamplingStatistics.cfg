SPECIFICATION Spec
CONSTANTS
  Threads = {t1, t2}
  Free = Free
  MaxAppliers = 3
  MaxDocs = 3
  MaxRequests = 2
SYMMETRY Symmetry
INVARIANTS TypeOK ReportSound NoOverReport Conservation ConsistentReport
