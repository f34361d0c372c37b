SPECIFICATION AnyListSpec
CONSTANTS
    Node = {n1, n2, n3, n4}
    Data = {d1, d2}
    Nil = Nil
INVARIANT PushedAtFront
CHECK_DEADLOCK FALSE
