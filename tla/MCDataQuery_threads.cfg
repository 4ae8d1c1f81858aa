SPECIFICATION Spec
CONSTANTS
    Results <- AnyPages
    Thread = {t1, t2}
    App = App
    MaxExecute = 3
    MaxOverrun = 2
INVARIANT OneWorker
INVARIANT DestroyedQuiet
INVARIANT WorkersNeverSleep
PROPERTY RequestStable
