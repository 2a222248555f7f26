\* Every operation on both back ends: odd and even sizes, grids that hang over
\* the output, images smaller than the padded tensor.
CONSTANT Calls <- MCCalls
SPECIFICATION Spec
INVARIANT AccessesInside
INVARIANT ComputesMeaning
