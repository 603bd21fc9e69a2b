\* Two blocks, two holders, two lifetimes per block: sharing, double frees that rob
\* the sharer or leave it one reference short, recycling under the same id,
\* exhaustion.
CONSTANTS
  num_gpu_blocks = 2
  Holder = {c1, c2}
  MaxGeneration = 3
SPECIFICATION Spec
INVARIANT HandlesSafe
PROPERTY ImplementsPool
CHECK_DEADLOCK FALSE
