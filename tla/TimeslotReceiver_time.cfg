SPECIFICATION FairSpec
CONSTANTS
    MaxFn = 2
    MaxMn = 2
    Usages = {4}
INVARIANTS TypeOK TimeIsAirTime TrafficIsOfThisBurst OneSlotPerFrame
PROPERTY TimeBecomesRight
