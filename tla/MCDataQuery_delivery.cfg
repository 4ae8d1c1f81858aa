SPECIFICATION FairSpec
CONSTANTS
    Results <- SolidPages
    Thread = {t1, t2}
    App = App
    MaxExecute = 1
    MaxOverrun = 2
INVARIANT DeliveredInOrder
INVARIANT NoDataMeansComplete
INVARIANT PageOnItsWay
PROPERTY CallsReturn
PROPERTY StreamsRows
