SPECIFICATION Spec
CONSTANTS
    Results <- SolidPages
    Thread = {t1, t2}
    App = App
    MaxExecute = 2
    MaxOverrun = 2
SYMMETRY Symmetry
INVARIANT DeliveredInOrder
