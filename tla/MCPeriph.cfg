SPECIFICATION Spec
CONSTANTS
    Leds = {LED_BLUE}
    OnTimes = {0, 2}
    OffTimes = {0, 3}
    ADC_POWERUP_TIME = 1
    ADC_SAMPLE_PERIOD = 2
    ADC_CH_CELLV = ADC_CH_CELLV
    ADC_CH_BOARD_TEMP = ADC_CH_BOARD_TEMP
    ADC_CH_EXT_TEMP = ADC_CH_EXT_TEMP
    ADC_CH_MCU_TEMP = ADC_CH_MCU_TEMP
    Scenes <- MCScenes
    Calibrations <- MCCalibrations
    MaxLoop = 1
INVARIANTS
    PhasesLast
    SamplesSpaced
    ReadingsExact
PROPERTIES
    FollowsInput
