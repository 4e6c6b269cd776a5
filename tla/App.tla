-------------------------------- MODULE App --------------------------------
(***************************************************************************)
(* The application: main_loop() with its states (main.c), the state        *)
(* machine processor that runs them (kissm.c) and the test modes           *)
(* (testmode.c), on top of the shunt (Shunt).                              *)
(*                                                                         *)
(* A pass of the main loop is two steps, with time and the bus in between. *)
(* Poll finds the event: an expired state timer, or else a packet, whose   *)
(* command cmd_process() executes there and then, or else none.  A handler *)
(* step then runs the present state with that event; if it asks for        *)
(* another state, the exit and entry handlers are part of the same step.   *)
(*                                                                         *)
(* Of the bus this module keeps how far the next packet has come (`rx'),   *)
(* see Cmd for the rest.  A packet takes at least PKT_MIN ticks, longer    *)
(* than a pass of the main loop.  Timers are kept as in Shunt.             *)
(*                                                                         *)
(* History variables: `calm', ticks in idle since the last command or the  *)
(* entry into idle; `tested', ticks since a test function was turned on or *)
(* the testmode state entered, whichever came last.                        *)
(***************************************************************************)
EXTENDS Shunt

CONSTANTS
    IDLE_TIME,          \* 1000, of the states powerup and idle
    DFU_TIME,           \* 8000
    SECOND,             \* 1000, the unit of the test mode timeout
    TEST_SECONDS,       \* 60
    WDT_TIME,           \* the watchdog's period, WDTO_1S
    MaxLoop,            \* ticks that one pass of the main loop may take
    PKT_MIN,            \* ticks that a packet takes on the bus
    TestFuncs           \* test functions that the bus may ask for

ASSUME AppAssumption ==
    /\ IDLE_TIME \in Nat /\ DFU_TIME \in Nat /\ SECOND \in Nat
    /\ TEST_SECONDS \in Nat \ {0} /\ WDT_TIME \in Nat
    /\ MaxLoop \in Nat \ {0} /\ PKT_MIN \in Nat
    /\ PKT_MIN > MaxLoop
    /\ MaxLoop < IDLE_TIME /\ MaxLoop < DFU_TIME /\ MaxLoop <= SECOND
    /\ 2 * MaxLoop < WDT_TIME
    /\ SECOND < Half
    /\ 2 * MaxLoop <= MaxLate /\ 2 * MaxLoop <= SHUNT_LOOP_TIME
    /\ TestFuncs \subseteq {"off", "vref", "io", "shunt", "blink", "badkey"}

VARIABLES
    state,          \* p_ps, the present state
    pc,             \* "poll" or "run"
    evt,            \* the event of this pass
    state_tmr,      \* ticks left of it
    test_state,
    test_seconds,
    test_timeout,   \* ticks left of it
    extio,          \* the external output
    asleep,         \* the processor is stopped
    wdt,            \* ticks since the watchdog was petted
    lag,            \* ticks since this pass of the main loop began
    rx,             \* the next packet on the bus
    calm,
    tested

testVars == <<test_state, test_seconds, test_timeout, extio>>
mainVars == <<state, pc, evt, state_tmr, asleep, wdt, lag, rx, calm, tested>>
vars == <<shuntVars, testVars, mainVars>>

NoTimer == -1       \* state_tmr is not in the timer list
WdtOff  == -1       \* the watchdog is disabled

\* rx: no packet; 1 + the ticks since its sync byte; a packet waits
NoPacket == 0
Ready == PKT_MIN + 2

States == {"initial", "powerup", "idle", "dfu", "shunt", "testmode", "sleep"}

\* Commands as the states see them; "other" stands for those that no state
\* looks at.  STATUS, SETPARM, FACTORY and TESTMODE have effects of their own in
\* Poll.
Commands == {"DFU", "SHUNTON", "SHUNTOFF", "TESTMODE", "other"}
Events   == Commands \cup {"none", "timeout"}

CalmCap == IDLE_TIME
TestedCap == TEST_SECONDS * SECOND + Half + 3 * MaxLoop

\* Every variable holds what its C type allows, and the seconds of a test
\* function never pass the limit at which it ends (testmode.c:52-58, 126-140).
AppTypeOK ==
    /\ TypeOK
    /\ state \in States
    /\ pc \in {"poll", "run"}
    /\ evt \in Events
    /\ state_tmr \in {NoTimer} \cup 0 .. IDLE_TIME \cup 0 .. DFU_TIME
    /\ test_state \in {"off", "vref", "io", "shunt", "blink"}
    /\ test_seconds \in 0 .. TEST_SECONDS - 1
    /\ test_timeout \in Left
    /\ extio \in BOOLEAN /\ asleep \in BOOLEAN
    /\ wdt \in {WdtOff} \cup 0 .. WDT_TIME
    /\ lag \in 0 .. MaxLoop
    /\ rx \in 0 .. Ready
    /\ calm \in 0 .. CalmCap /\ tested \in 0 .. TestedCap

\* main_loop() up to the forever loop
AppInit ==
    /\ Init
    /\ state = "initial" /\ pc = "poll" /\ evt = "none"
    /\ state_tmr = NoTimer
    /\ test_state = "off" /\ test_seconds = 0 /\ test_timeout = 0
    /\ extio = FALSE /\ asleep = FALSE
    /\ wdt = 0 /\ lag = 0 /\ rx = NoPacket
    /\ calm = 0 /\ tested = 0

-----------------------------------------------------------------------------
(* testmode.c.                                                             *)

\* testmode_off()
TestOff ==
    /\ Stop
    /\ extio' = FALSE
    /\ test_state' = "off"
    /\ test_seconds' = 0 /\ test_timeout' = 0

\* testmode_on(); it does not turn off what was on before
TestOn(func, val0) ==
    \/ func = "off" /\ TestOff
    \/ /\ func # "off"
       /\ test_state' = func
       /\ test_seconds' = 0 /\ test_timeout' = SECOND
       /\ extio' = IF func = "io" THEN TRUE ELSE extio
       /\ IF func = "shunt" THEN Start(val0) ELSE UNCHANGED shuntVars

\* the test functions' own part of testmode_run(): the blink pattern turns the
\* shunt load on and off, and the shunt load is turned off above 60 degrees
TestFunction(temp) ==
    \/ test_state = "blink" /\ override' \in BOOLEAN
       /\ UNCHANGED <<parms, shunt_status, pwm, timer, shunt_timeout,
                      loop_timeout, vrange, trange, hot, quiet, extio, test_state>>
    \/ test_state # "blink" /\ UNCHANGED <<shuntVars, extio, test_state>>

\* as TestRun, but the seconds start over with each one (a mutant)
TestRunForever(temp) ==
    IF test_state = "off" \/ (test_state = "shunt" /\ U16(temp) > 60)
    THEN TestOff
    ELSE /\ TestFunction(temp)
         /\ test_timeout' = IF test_timeout <= 0 THEN SECOND ELSE test_timeout
         /\ UNCHANGED test_seconds

\* testmode_run(); the function has ended if test_state is "off" then
TestRun(temp) ==
    LET second == test_timeout <= 0
        over   == second /\ test_seconds + 1 >= TEST_SECONDS
    IN IF \/ test_state = "off" \/ over
          \/ test_state = "shunt" /\ U16(temp) > 60
       THEN TestOff
       ELSE /\ TestFunction(temp)
            /\ test_seconds' = IF second THEN test_seconds + 1 ELSE test_seconds
            /\ test_timeout' = IF second THEN test_timeout + SECOND ELSE test_timeout

-----------------------------------------------------------------------------
(* Interrupts and the bus.                                                 *)

\* A tick; while the processor sleeps, the tick timer stands still.  The timers
\* of the shunt are read by shunt_run() only, which the shunt state alone calls,
\* after it has set them.
AppTick ==
    /\ ~asleep /\ lag < MaxLoop
    /\ IF state = "shunt" THEN ShuntTick ELSE UNCHANGED shuntVars
    /\ lag' = lag + 1
    /\ state_tmr' = IF state_tmr > 0 THEN state_tmr - 1 ELSE state_tmr
    /\ test_timeout' = IF test_state = "off" THEN 0 ELSE Down(test_timeout)
    /\ wdt' = IF wdt \in {WdtOff, WDT_TIME} THEN wdt ELSE wdt + 1
    /\ rx' = IF rx \in 1 .. PKT_MIN THEN rx + 1 ELSE rx
    /\ calm' = IF state = "idle" /\ calm < CalmCap THEN calm + 1 ELSE calm
    /\ tested' = IF test_state # "off" /\ tested < TestedCap
                 THEN tested + 1 ELSE tested
    /\ UNCHANGED <<state, pc, evt, test_state, test_seconds, extio, asleep>>

\* a sync byte
PacketStarts ==
    /\ rx = NoPacket
    /\ rx' = 1
    /\ asleep' = FALSE
    /\ UNCHANGED <<shuntVars, testVars, state, pc, evt, state_tmr, wdt, lag, calm,
                   tested>>

\* another byte, which wakes the processor; the last one completes the packet,
\* any one may end it because it was not a packet
PacketByte ==
    /\ rx \in 1 .. PKT_MIN + 1
    /\ rx' \in {rx, NoPacket} \cup (IF rx = PKT_MIN + 1 THEN {Ready} ELSE {})
    /\ asleep' = FALSE
    /\ UNCHANGED <<shuntVars, testVars, state, pc, evt, state_tmr, wdt, lag, calm,
                   tested>>

-----------------------------------------------------------------------------
(* Poll: the event generator of main_loop().                               *)

Event(e) == pc' = "run" /\ evt' = e

\* the state timer expired, and is removed from the list
Timeout ==
    /\ state_tmr = 0
    /\ state_tmr' = NoTimer
    /\ Event("timeout")
    /\ UNCHANGED <<shuntVars, testVars, rx, calm, tested>>

\* a command for this node, or DFU for another, is executed and passed on with
\* the packet
Command ==
    /\ state_tmr # 0 /\ rx = Ready
    /\ calm' = 0
    /\ \/ /\ \E e \in Commands \ {"TESTMODE"} : Event(e)
          /\ UNCHANGED <<shuntVars, testVars, tested>>
       \/ /\ Event("other")              \* STATUS; SETPARM, FACTORY
          /\ GetStatus \/ SetParms
          /\ UNCHANGED <<testVars, tested>>
       \/ \E func \in TestFuncs, val0 \in 0 .. Full :
             /\ Event("TESTMODE")
             /\ IF func = "badkey"
                THEN UNCHANGED <<shuntVars, testVars, tested>>
                ELSE TestOn(func, val0) /\ tested' = 0
    /\ UNCHANGED <<state_tmr, rx>>

\* no event: there is no packet, or it was for another node
Nothing ==
    /\ state_tmr # 0
    /\ rx' \in IF rx = Ready THEN {NoPacket} ELSE {rx}
    /\ Event("none")
    /\ UNCHANGED <<shuntVars, testVars, state_tmr, calm, tested>>

Poll ==
    /\ ~asleep /\ pc = "poll"
    /\ Timeout \/ Command \/ Nothing
    /\ UNCHANGED <<state, asleep, wdt, lag>>

\* DFU for this node: a software reset puts everything back, except the
\* configuration
Reboot ==
    /\ ~asleep /\ pc = "poll" /\ state_tmr # 0 /\ rx = Ready
    /\ shunt_status' = "OFF" /\ pwm' = 0
    /\ timer' = FALSE /\ override' = FALSE
    /\ shunt_timeout' = 0 /\ loop_timeout' = 0
    /\ vrange' = 0 /\ trange' = 0
    /\ hot' = FALSE /\ quiet' = 0
    /\ state' = "initial" /\ pc' = "poll" /\ evt' = "none"
    /\ state_tmr' = NoTimer
    /\ test_state' = "off" /\ test_seconds' = 0 /\ test_timeout' = 0
    /\ extio' = FALSE
    /\ wdt' = 0 /\ lag' = 0 /\ rx' = NoPacket
    /\ calm' = 0 /\ tested' = 0
    /\ UNCHANGED <<parms, asleep>>
-----------------------------------------------------------------------------
(* The state handlers, with kissm_run() around them.                       *)

\* as Handler, but the packet is not freed (a mutant)
HandlerLeaks(s) ==
    /\ ~asleep /\ pc = "run" /\ state = s
    /\ pc' = "poll" /\ lag' = 0 /\ evt' = "none"
    /\ UNCHANGED rx

\* kissm_run() with the event of this pass, in the given state; then the packet
\* of a command is freed and the next pass begins
Handler(s) ==
    /\ ~asleep /\ pc = "run" /\ state = s
    /\ pc' = "poll" /\ lag' = 0 /\ evt' = "none"
    /\ rx' = IF evt \in Commands THEN NoPacket ELSE rx

\* no other state asked for
Stay == UNCHANGED <<state, state_tmr, asleep, calm, tested>>

\* as EnterIdle, but without a timeout of its own (a mutant)
EnterIdleNoTimer ==
    /\ state' = "idle"
    /\ calm' = 0
    /\ UNCHANGED <<state_tmr, asleep, tested>>

\* the entry handlers
EnterIdle ==
    /\ state' = "idle"
    /\ state_tmr' = IDLE_TIME
    /\ calm' = 0
    /\ UNCHANGED <<asleep, tested>>

EnterDfu ==
    /\ state' = "dfu"
    /\ state_tmr' = DFU_TIME
    /\ UNCHANGED <<shuntVars, asleep, calm, tested>>

EnterShunt ==
    /\ state' = "shunt"
    /\ Start(0)
    /\ state_tmr' = IDLE_TIME       \* from the idle state's EVT_CMD
    /\ UNCHANGED <<asleep, calm, tested>>

EnterTestmode ==
    /\ state' = "testmode"
    /\ tested' = 0
    /\ state_tmr' = IDLE_TIME
    /\ UNCHANGED <<shuntVars, asleep, calm>>

\* the watchdog and the outputs go off, and the processor stops
EnterSleep ==
    /\ state' = "sleep"
    /\ wdt' = WdtOff
    /\ extio' = FALSE
    /\ asleep' = TRUE
    /\ UNCHANGED <<shuntVars, test_state, test_seconds, test_timeout, state_tmr,
                   calm, tested>>

\* as HandleInitial, but powerup has no timeout (a mutant)
HandleInitialNoTimer ==
    /\ Handler("initial")
    /\ state' = "powerup"
    /\ UNCHANGED <<shuntVars, testVars, state_tmr, asleep, wdt, calm, tested>>

\* kissm_initial hands over to powerup
HandleInitial ==
    /\ Handler("initial")
    /\ state' = "powerup"
    /\ state_tmr' = IDLE_TIME
    /\ UNCHANGED <<shuntVars, testVars, asleep, wdt, calm, tested>>

\* powerup and dfu leave by their timeout only, and pet the watchdog on every
\* event, the exit included
HandlePowerup ==
    /\ Handler("powerup")
    /\ wdt' = 0
    /\ IF evt = "timeout" THEN EnterIdle ELSE Stay
    /\ UNCHANGED <<shuntVars, testVars>>

\* as HandleDfu, but pets the watchdog on its way out only (a mutant)
HandleDfuNoPet ==
    /\ Handler("dfu")
    /\ wdt' = IF evt = "timeout" THEN 0 ELSE wdt
    /\ IF evt = "timeout" THEN EnterIdle ELSE Stay
    /\ UNCHANGED <<shuntVars, testVars>>

HandleDfu ==
    /\ Handler("dfu")
    /\ wdt' = 0
    /\ IF evt = "timeout" THEN EnterIdle ELSE Stay
    /\ UNCHANGED <<shuntVars, testVars>>

IdleCommand ==
    /\ evt \in Commands
    /\ \/ evt = "DFU" /\ EnterDfu
       \/ evt = "SHUNTON" /\ EnterShunt
       \/ evt = "TESTMODE" /\ EnterTestmode
       \/ /\ evt \in {"SHUNTOFF", "other"}
          /\ state_tmr' = IDLE_TIME
          /\ UNCHANGED <<shuntVars, state, asleep, calm, tested>>
    /\ UNCHANGED <<testVars, wdt>>

\* as IdleWatch, but does not look at the bus (a mutant)
IdleWatchDeaf ==
    /\ evt = "none"
    /\ wdt' = 0
    /\ UNCHANGED <<shuntVars, testVars, state, state_tmr, asleep, calm, tested>>

\* nothing happened; pkt_is_active() or ser_is_active() keep the node awake
IdleWatch ==
    /\ evt = "none"
    /\ wdt' = 0
    /\ \E sending \in BOOLEAN :
          state_tmr' = IF rx # NoPacket \/ sending THEN IDLE_TIME ELSE state_tmr
    /\ UNCHANGED <<shuntVars, testVars, state, asleep, calm, tested>>

HandleIdle ==
    /\ Handler("idle")
    /\ \/ evt = "timeout" /\ EnterSleep
       \/ IdleCommand
       \/ IdleWatch

\* as HandleShunt, but SHUNTOFF leaves the state only (a mutant)
HandleShuntLeavesOn ==
    /\ Handler("shunt")
    /\ \/ /\ evt \in Commands
          /\ IF evt = "SHUNTOFF" THEN EnterIdle ELSE Stay
          /\ UNCHANGED <<shuntVars, wdt>>
       \/ /\ evt \notin Commands
          /\ wdt' = 0
          /\ AnyRun
          /\ IF shunt_status' = "OFF" THEN EnterIdle ELSE Stay
    /\ UNCHANGED testVars

\* only SHUNTOFF is looked at; without a command, shunt_run()
HandleShunt ==
    /\ Handler("shunt")
    /\ \/ /\ evt \in Commands
          /\ IF evt = "SHUNTOFF" THEN Stop /\ EnterIdle
                                 ELSE UNCHANGED shuntVars /\ Stay
          /\ UNCHANGED wdt
       \/ /\ evt \notin Commands
          /\ wdt' = 0
          /\ AnyRun
          /\ IF shunt_status' = "OFF" THEN EnterIdle ELSE Stay
    /\ UNCHANGED testVars

\* testmode_run() on every event
HandleTestmode ==
    /\ Handler("testmode")
    /\ wdt' = 0
    /\ \E temp \in Temps : TestRun(temp)
    /\ IF test_state' = "off" THEN EnterIdle ELSE Stay

\* awake again; the exit handler enables the watchdog
HandleSleep ==
    /\ Handler("sleep")
    /\ wdt' = 0
    /\ EnterIdle
    /\ UNCHANGED <<shuntVars, testVars>>

Main == \/ Poll \/ Reboot
        \/ HandleInitial \/ HandlePowerup \/ HandleIdle \/ HandleDfu
        \/ HandleShunt \/ HandleTestmode \/ HandleSleep

AppNext == AppTick \/ PacketStarts \/ PacketByte \/ Main

\* The main loop never stops while the processor is awake, and time goes on.
\* No byte ever has to arrive.
AppSpec == AppInit /\ [][AppNext]_vars /\ WF_vars(Main) /\ WF_vars(AppTick)

-----------------------------------------------------------------------------
(* Properties.                                                             *)

\* The watchdog never resets a node whose main loop runs, although it is petted
\* by some handlers on some events only: no sequence of timeouts, commands and
\* changes of state goes past all of them for too long.  It is off only while the
\* node sleeps or has just woken up.
WatchdogFed == wdt < WDT_TIME /\ (wdt = WdtOff => state = "sleep")

\* No packet is lost to the sleep: between the last look at the bus and
\* sleep_mode() (main.c:221-224, 207-211, 384), which is not atomic, no packet
\* completes that would then wait for bytes that nobody sends.
NoPacketAsleep == asleep => rx # Ready

\* The node goes to sleep only after a full quiet period since the last command
\* it took and since it came (back) to idle, whatever timer was left running by
\* the state it came from (main.c:161-211).
SleepsOnlyWhenQuiet == [][~asleep /\ asleep' => calm >= IDLE_TIME]_vars

\* The load is on only for a reason: the node shunts, or a test function that
\* was asked for has not been turned off.  With a shunt that reports to be off,
\* it is only the blink test that lights the load's LED: with several ways in
\* and out, by command, by test function and by timeouts, hardware and status
\* stay together.
LoadExplained ==
    LoadOn => /\ state = "shunt" \/ test_state # "off"
              /\ shunt_status = "OFF" => state = "testmode"

\* What loads the cell unattended comes to an end.  Shunting does when nobody
\* asks for its status, in the main loop as it is, in which commands take passes
\* away from shunt_run() (main.c:289-315).  A test function does in the testmode
\* state at the latest when its time is over, or half a turn of the clock later
\* if it had been turned on in another state and left alone so long that its
\* timer lay ahead again (testmode.c:116-137).
LoadsEnd ==
    /\ state = "shunt" => UnattendedEnds
    /\ state = "testmode" => tested <= TEST_SECONDS * SECOND + Half + 2 * MaxLoop

\* A node that starts up, or waits for another's boot loader, gets out of it,
\* however many commands arrive in the meantime: those do not starve the timer,
\* and no path into these states forgets to set it.
TimedStatesEnd == \A s \in {"powerup", "dfu"} : state = s ~> state # s

\* Every packet that completes is taken, in whatever state, asleep or not.
PacketsTaken == rx = Ready ~> rx # Ready

\* design.md:359: sleep "disables and powers down peripherals and places the
\* hardware in a safe configuration".
SafeAsleep == asleep => ~LoadOn

=============================================================================
