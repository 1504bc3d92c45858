SPECIFICATION Spec
CONSTANTS
  a = a
  b = b
  m = m
  n = n
  e = e
  f = f
  once = once
  Signals = {a, b}
  Memos = {m, n}
  Effects = {e, f, once}
  OnceEffects = {once}
  None = None
  Programs <- MCPrograms
  MaxWrites = 2
  MaxBatchDepth = 2
INVARIANTS TypeOK Drained NoRerunInBatch Settled RunOncePerFlush
PROPERTY DisposedNeverRuns
