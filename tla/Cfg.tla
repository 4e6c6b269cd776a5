-------------------------------- MODULE Cfg --------------------------------
(***************************************************************************)
(* The configuration, cfg.c: the block of parameters in RAM                *)
(* (g_cfg_parms) and its copy in EEPROM.  eeprom_update_block() writes the *)
(* copy one byte at a time, in an order that is its own affair, and power  *)
(* may fail between any two bytes; a byte itself is written or not.        *)
(*                                                                         *)
(* A block is its bytes by offset: the length, the type, the parameters    *)
(* and the CRC.  Interrupts do not touch it, so what the code does to RAM  *)
(* between two EEPROM writes is one step.                                  *)
(*                                                                         *)
(* History variable: `old', what the EEPROM held when the store that is    *)
(* going on began (and what it holds, when none is).                       *)
(***************************************************************************)
EXTENDS Integers, Sequences

CONSTANTS
    Byte,               \* values of a byte
    SIZE,               \* sizeof(config_t)
    CFG_TYPE_2,         \* the one type of block that is accepted
    parmtable,          \* where a parameter is: <<[index, count], ...>>
    Default,            \* the default bytes of the parameters
    CrcUpdate(_, _),    \* _crc8_ccitt_update()
    Complement(_),      \* ~ on a byte
    Found               \* what the EEPROM may hold when it is first read

Offsets   == 0 .. SIZE - 1
Covered   == 0 .. SIZE - 2      \* by the CRC
ParmBytes == 2 .. SIZE - 2
LEN  == 0
TYPE == 1
CRC  == SIZE - 1

Block == [Offsets -> Byte]
Value == [ParmBytes -> Byte]

MAX_PARMID == Len(parmtable)

\* the offsets of a parameter
BytesOf(id) == parmtable[id].index .. parmtable[id].index + parmtable[id].count - 1

\* cfg_compute_crc() of a block with the right length
CrcOf(bytes) ==
    LET crc[n \in 0 .. SIZE - 1] ==
            IF n = 0 THEN 0 ELSE CrcUpdate(crc[n - 1], bytes[n - 1])
    IN  crc[SIZE - 1]

Data(b)  == [i \in Covered |-> b[i]]
Parms(b) == [i \in ParmBytes |-> b[i]]

\* a block with the header that cfg_commit() gives it
Header(b) == [b EXCEPT ![LEN] = SIZE, ![TYPE] = CFG_TYPE_2]

\* The parameters lie side by side between header and CRC, one or two bytes
\* each.
ASSUME TableAssumption ==
    /\ SIZE \in Byte /\ SIZE \in Nat /\ SIZE >= 3
    /\ CFG_TYPE_2 \in Byte /\ 0 \in Byte
    /\ Default \in Value
    /\ Found \subseteq Block
    /\ parmtable \in Seq([index : ParmBytes, count : {1, 2}])
    /\ \A id \in 1 .. MAX_PARMID : BytesOf(id) \subseteq ParmBytes
    /\ \A i \in 1 .. MAX_PARMID : \A j \in 1 .. MAX_PARMID :
            i # j => BytesOf(i) \cap BytesOf(j) = {}

\* Two blocks that differ in one parameter byte have different CRCs, as those
\* of a CRC of 8 bits do, and no byte is its own complement.
ASSUME CrcAssumption ==
    /\ \A d \in [Covered -> Byte] : CrcOf(d) \in Byte
    /\ \A v \in Value : \A i \in ParmBytes : \A x \in Byte \ {v[i]} :
           LET d == [j \in Covered |-> IF j = LEN  THEN SIZE ELSE
                                       IF j = TYPE THEN CFG_TYPE_2 ELSE v[j]]
           IN  CrcOf([d EXCEPT ![i] = x]) # CrcOf(d)
    /\ \A x \in Byte : Complement(x) \in Byte \ {x}

VARIABLES
    g_cfg_parms,    \* the block in RAM
    eeprom,         \* the block in EEPROM
    stage,          \* "boot", "ready", or in eeprom_update_block(): "write"
    reset,          \* cfg_commit()'s argument
    old             \* history

cfgVars == <<g_cfg_parms, eeprom, stage, reset, old>>

-----------------------------------------------------------------------------
(* cfg_load().                                                             *)

\* What the CRC loop may yield.  It trusts the length byte before that has been
\* checked: beyond the end of the block it reads whatever is there, and it does
\* not run at all for a length of 0.
CrcsRead(b) ==
    IF b[LEN] = SIZE THEN {CrcOf(Data(b))} ELSE Byte

\* as Accepted, but takes blocks whatever their CRC (a mutant)
AcceptedUnchecked(b, crc) ==
    /\ b[TYPE] = CFG_TYPE_2 /\ b[LEN] = SIZE

Accepted(b, crc) ==
    /\ b[TYPE] = CFG_TYPE_2 /\ b[LEN] = SIZE
    /\ crc = b[CRC]

WithParms(b, v) == [i \in Offsets |-> IF i \in ParmBytes THEN v[i] ELSE b[i]]

\* RAM after reading b; the header and CRC of a bad block stay
Loads(b) ==
    \E crc \in CrcsRead(b) :
        g_cfg_parms' = IF Accepted(b, crc) THEN b ELSE WithParms(b, Default)

\* main_loop() calls it once, before interrupts are enabled
CfgLoad ==
    /\ stage = "boot"
    /\ Loads(eeprom)
    /\ stage' = "ready"
    /\ UNCHANGED <<eeprom, reset, old>>

-----------------------------------------------------------------------------
(* cfg_commit(), and its callers cfg_set(), cfg_store() and cfg_reset().   *)

\* as Sealed, but with the CRC that the block had (a mutant)
SealedOnce(b, r) == Header(b)

\* header and CRC are brought up to date; for a reset the CRC is made wrong
Sealed(b, r) ==
    LET crc == CrcOf(Data(Header(b)))
    IN  [Header(b) EXCEPT ![CRC] = IF r THEN Complement(crc) ELSE crc]

Commit(b, r) ==
    /\ stage = "ready"
    /\ g_cfg_parms' = Sealed(b, r)
    /\ stage' = "write"
    /\ reset' = r
    /\ old' = eeprom
    /\ UNCHANGED eeprom

\* as SetAccepts, but for payloads that are too long or too short (a mutant)
SetAcceptsAnyLength(len, p) == p[1] \in 1 .. MAX_PARMID

\* does cfg_set() take a payload of len bytes?  The first is the parameter.
SetAccepts(len, p) ==
    /\ p[1] \in 1 .. MAX_PARMID
    /\ parmtable[p[1]].count = len - 1

\* the block with the parameter replaced
AfterSet(b, p) ==
    [i \in Offsets |-> IF i \in BytesOf(p[1])
                       THEN p[2 + i - parmtable[p[1]].index] ELSE b[i]]

CfgSet(p) == Commit(AfterSet(g_cfg_parms, p), FALSE)
CfgStore  == Commit(g_cfg_parms, FALSE)
CfgReset  == Commit(g_cfg_parms, TRUE)

\* eeprom_update_block() writes the bytes that differ, one by one
WriteByte ==
    /\ stage = "write"
    /\ \E i \in Offsets :
         /\ eeprom[i] # g_cfg_parms[i]
         /\ eeprom' = [eeprom EXCEPT ![i] = g_cfg_parms[i]]
    /\ UNCHANGED <<g_cfg_parms, stage, reset, old>>

\* and returns; after a reset cfg_commit() loads what was written
WriteDone ==
    /\ stage = "write" /\ eeprom = g_cfg_parms
    /\ IF reset THEN Loads(eeprom) ELSE UNCHANGED g_cfg_parms
    /\ stage' = "ready"
    /\ old' = eeprom
    /\ UNCHANGED <<eeprom, reset>>

-----------------------------------------------------------------------------

\* Power fails, or the watchdog or DFU resets the node: the C startup code
\* clears RAM, and the EEPROM stays as it is.
PowerFail ==
    /\ g_cfg_parms' = [i \in Offsets |-> 0]
    /\ stage' = "boot"
    /\ reset' = FALSE
    /\ old' = eeprom
    /\ UNCHANGED eeprom

CfgInit ==
    /\ g_cfg_parms = [i \in Offsets |-> 0]
    /\ eeprom \in Found
    /\ stage = "boot"
    /\ reset = FALSE
    /\ old = eeprom

\* any use of the module
CfgNext ==
    \/ CfgLoad \/ CfgStore \/ CfgReset
    \/ \E id \in 1 .. MAX_PARMID : \E x \in Byte : \E y \in Byte :
            CfgSet(<<id, x, y>>)
    \/ WriteByte \/ WriteDone \/ PowerFail

CfgSpec == CfgInit /\ [][CfgNext]_cfgVars

-----------------------------------------------------------------------------
(* Properties.                                                             *)

\* Both copies are blocks.
CfgTypeOK ==
    /\ g_cfg_parms \in Block
    /\ eeprom \in Block /\ old \in Block
    /\ stage \in {"boot", "ready", "write"}
    /\ reset \in BOOLEAN

\* would cfg_load() accept b?
IsValid(b) == Accepted(b, CrcOf(Data(b)))

\* the parameters that a reboot would find in b
Saved(b) == IF IsValid(b) THEN Parms(b) ELSE Default

\* Whatever was set, reset, rejected, interrupted or found: once a command is
\* done, a reboot changes nothing.  The parameters in use are those that
\* cfg_load() would find (cfg.c:113-184).
RebootChangesNothing == stage = "ready" => Parms(g_cfg_parms) = Saved(eeprom)

\* A store over stored values is never found half done: at whatever byte and in
\* whatever order it is interrupted, what cfg_load() would accept is the whole
\* old block or the whole new one.  The CRC is one of the bytes being written
\* (cfg.c:178-179); that one parameter is at most two bytes is what makes it
\* enough.
NeverHalf ==
    stage = "write" /\ IsValid(old) /\ IsValid(eeprom)
        => eeprom \in {old, g_cfg_parms}

Promise == INSTANCE NvParms WITH
    parms   <- IF stage = "boot" THEN Saved(eeprom) ELSE
               IF stage = "write" /\ reset THEN Default ELSE Parms(g_cfg_parms),
    saved   <- Saved(eeprom),
    storing <- stage = "write",
    sound   <- IsValid(old)

\* The configuration is what NvParms promises.
ImplementsNvParms == Promise!NvSpec
=============================================================================
