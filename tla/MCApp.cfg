SPECIFICATION AppSpec
CONSTANTS
    PWM_STEPS = 2
    SHUNT_LOOP_TIME = 2
    SHUNT_IDLE_TIME = 3
    MaxLate = 2
    Half = 5
    Parms <- MCParms
    Voltages <- MCVoltages
    Temps <- MCTemps
    IDLE_TIME = 2
    DFU_TIME = 3
    SECOND = 1
    TEST_SECONDS = 2
    WDT_TIME = 3
    MaxLoop = 1
    PKT_MIN = 2
    TestFuncs = {"off", "io", "shunt", "blink", "badkey"}
INVARIANTS
    WatchdogFed
    NoPacketAsleep
    LoadExplained
    LoadsEnd
PROPERTIES
    SleepsOnlyWhenQuiet
    TimedStatesEnd
    PacketsTaken
