CONSTANTS
    NoLink = NoLink
    StatsdFaults <- AllStatsdFaults
    W = 1024
    Named <- Eths
    Tables <- SomeTables
    BootTicks <- Boots
    MinuteTicks <- Minutes
    MaxTurns = 2
SPECIFICATION Spec
INVARIANTS TypeOK PacketWhole CpuRight
PROPERTIES StopsOnTerm
CHECK_DEADLOCK FALSE
