SPECIFICATION Spec
CONSTANTS
    PWM_STEPS = 8
    SHUNT_LOOP_TIME = 2
    SHUNT_IDLE_TIME = 5
    MaxLate = 1
    Half = 6
    Parms <- MCParms
    Voltages <- MCVoltages
    Temps <- MCTemps
INVARIANTS
    DarkWhenOff
    CurvesFollowed
    UnattendedEnds
PROPERTIES
    HotCoolsDown
