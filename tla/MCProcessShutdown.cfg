SPECIFICATION FairProcessSpec
CONSTANTS
    w1 = w1
    w2 = w2
    consumer = consumer
    Others <- OneOther
    Server = server
    Workers <- TwoWorkers
INVARIANTS
    DrainedMeansIdle
PROPERTIES
    ShutdownEnds
