--------------------------- MODULE CommandsProofs ---------------------------
(***************************************************************************)
(* Proofs about the configuration and the commands that change it.  The    *)
(* first part is about single steps of cfg.c, the second about the         *)
(* commands that take them.                                                *)
(***************************************************************************)
EXTENDS Commands, TLAPS

(***************************************************************************)
(* The configuration.                                                      *)
(***************************************************************************)
\* b has the header that cfg_load() asks for
HeaderOK(b) == b[LEN] = SIZE /\ b[TYPE] = CFG_TYPE_2

\* Each byte in EEPROM is still the old one or already the new one.
Mix == \A i \in Offsets : eeprom[i] \in {old[i], g_cfg_parms[i]}

\* What is being stored is a sealed block.
BeingSealed ==
    /\ HeaderOK(g_cfg_parms)
    /\ g_cfg_parms[CRC] = IF reset THEN Complement(CrcOf(Data(g_cfg_parms)))
                          ELSE CrcOf(Data(g_cfg_parms))

\* Only bytes of one parameter, that is k and its neighbour, differ from b.
DiffersAt(b, k) == \A i \in ParmBytes : g_cfg_parms[i] # b[i] => ~reset /\ i \in {k, k + 1}

\* If it replaces stored values, it differs from them by one parameter.
OneParameter == IsValid(old) => \E k \in Int : DiffersAt(old, k)

CfgInv ==
    /\ CfgTypeOK
    /\ stage # "write" => old = eeprom
    /\ RebootChangesNothing
    /\ stage = "write" => Mix /\ BeingSealed /\ OneParameter

-----------------------------------------------------------------------------
(* The layout of a block.                                                  *)

LEMMA Layout ==
    /\ Offsets = Covered \cup {CRC} /\ CRC \notin Covered
    /\ Covered = ParmBytes \cup {LEN, TYPE} /\ LEN \notin ParmBytes /\ TYPE \notin ParmBytes
    /\ LEN \in Offsets /\ TYPE \in Offsets /\ CRC \in Offsets
    /\ ParmBytes \subseteq Offsets /\ ParmBytes \subseteq Int /\ LEN # TYPE
    /\ CRC \notin ParmBytes /\ CRC # LEN /\ CRC # TYPE
  BY TableAssumption DEF Offsets, Covered, ParmBytes, LEN, TYPE, CRC

LEMMA Entry ==
    ASSUME NEW id \in 1 .. MAX_PARMID
    PROVE  /\ parmtable[id] \in [index : ParmBytes, count : {1, 2}]
           /\ parmtable[id].index \in ParmBytes /\ parmtable[id].index \in Int
           /\ parmtable[id].count \in {1, 2}
           /\ BytesOf(id) \subseteq ParmBytes
<1> DEFINE E == [index : ParmBytes, count : {1, 2}]
<1>1. parmtable \in Seq(E)
  BY TableAssumption
<1> HIDE DEF E
<1>2. parmtable[id] \in E
  BY <1>1 DEF MAX_PARMID
<1> QED
  BY <1>2, Layout, TableAssumption DEF E

LEMMA DataType == ASSUME NEW b \in Block PROVE Data(b) \in [Covered -> Byte]
  BY Layout DEF Data, Block

LEMMA ParmsType == ASSUME NEW b \in Block PROVE Parms(b) \in Value
  BY Layout DEF Parms, Block, Value

LEMMA CrcType ==
    ASSUME NEW b \in Block
    PROVE  CrcOf(Data(b)) \in Byte /\ Complement(CrcOf(Data(b))) \in Byte
                                   /\ Complement(CrcOf(Data(b))) # CrcOf(Data(b))
<1>1. CrcOf(Data(b)) \in Byte
  BY DataType, CrcAssumption
<1> QED
  BY <1>1, CrcAssumption

\* What a CRC is for: two blocks that differ in one parameter byte differ in
\* their CRC.
LEMMA OneByte ==
    ASSUME NEW b \in Block, NEW c \in Block, HeaderOK(b), HeaderOK(c),
           NEW i \in ParmBytes, b[i] # c[i],
           \A j \in ParmBytes \ {i} : b[j] = c[j]
    PROVE  CrcOf(Data(b)) # CrcOf(Data(c))
<1> DEFINE v == Parms(b)
           d == [j \in Covered |-> IF j = LEN  THEN SIZE ELSE
                                   IF j = TYPE THEN CFG_TYPE_2 ELSE v[j]]
<1>1. v \in Value /\ v[i] = b[i] /\ \A j \in ParmBytes : v[j] = b[j]
  BY ParmsType DEF Parms
<1>2. Data(b) = d
  BY <1>1, Layout DEF Data, HeaderOK
<1>3. Data(c) = [d EXCEPT ![i] = c[i]]
  BY <1>1, Layout DEF Data, HeaderOK
<1>4. c[i] \in Byte \ {v[i]}
  BY <1>1, Layout DEF Block
<1>5. CrcOf([d EXCEPT ![i] = c[i]]) # CrcOf(d)
  BY <1>1, <1>4, CrcAssumption
<1> QED
  BY <1>2, <1>3, <1>5

\* Blocks that agree on header and parameters have the same CRC.
LEMMA SameData ==
    ASSUME NEW b, NEW c, HeaderOK(b), HeaderOK(c), \A j \in ParmBytes : b[j] = c[j]
    PROVE  Data(b) = Data(c)
  BY Layout DEF Data, HeaderOK

LEMMA SavedType == ASSUME NEW b \in Block PROVE Saved(b) \in Value
  BY ParmsType, TableAssumption DEF Saved

LEMMA DefaultParms == ASSUME NEW b PROVE Parms(WithParms(b, Default)) = Default
<1>1. \A i \in ParmBytes : WithParms(b, Default)[i] = Default[i]
  BY Layout DEF WithParms
<1> QED
  BY <1>1, TableAssumption DEF Parms, Value

\* Whatever the CRC loop reads, cfg_load() takes a block if and only if it is
\* valid, and the parameters in use are those that are saved.
LEMMA LoadsSaved ==
    ASSUME CfgTypeOK, NEW b \in Block, Loads(b)
    PROVE  g_cfg_parms' \in Block /\ Parms(g_cfg_parms') = Saved(b)
<1>1. PICK crc \in CrcsRead(b) :
          g_cfg_parms' = IF Accepted(b, crc) THEN b ELSE WithParms(b, Default)
  BY DEF Loads
<1>2. Accepted(b, crc) <=> IsValid(b)
  BY <1>1 DEF CrcsRead, Accepted, IsValid
<1>3. WithParms(b, Default) \in Block
  BY TableAssumption, Layout DEF WithParms, Block, Value
<1> QED
  BY <1>1, <1>2, <1>3, DefaultParms DEF Saved

-----------------------------------------------------------------------------
(* The steps.                                                              *)

LEMMA SealedBlock ==
    ASSUME NEW b \in Block, NEW r \in BOOLEAN
    PROVE  /\ Sealed(b, r) \in Block
           /\ HeaderOK(Sealed(b, r))
           /\ \A i \in ParmBytes : Sealed(b, r)[i] = b[i]
           /\ Sealed(b, r)[CRC] = IF r THEN Complement(CrcOf(Data(Sealed(b, r))))
                                  ELSE CrcOf(Data(Sealed(b, r)))
<1> DEFINE h == Header(b)
           s == Sealed(b, r)
           crc == CrcOf(Data(h))
<1>1. h \in Block /\ HeaderOK(h) /\ \A i \in ParmBytes : h[i] = b[i]
  BY TableAssumption, Layout DEF Header, Block, HeaderOK
<1>2. crc \in Byte /\ Complement(crc) \in Byte
  BY <1>1, CrcType
<1>3. s = [h EXCEPT ![CRC] = IF r THEN Complement(crc) ELSE crc]
  BY DEF Sealed
<1> HIDE DEF h, crc, s
<1>4. s \in Block /\ \A i \in Covered : s[i] = h[i]
  BY <1>1, <1>2, <1>3, Layout DEF Block
<1>5. s[CRC] = IF r THEN Complement(crc) ELSE crc
  BY <1>1, <1>3, Layout DEF Block
<1>6. Data(s) = Data(h)
  BY <1>4 DEF Data
<1>7. HeaderOK(s) /\ \A i \in ParmBytes : s[i] = b[i]
  BY <1>1, <1>4, Layout DEF HeaderOK
<1> QED
  BY <1>4, <1>5, <1>6, <1>7 DEF s, crc

\* a commit of a block that differs from the one in use by one parameter
LEMMA CommitStep ==
    ASSUME CfgInv, NEW b \in Block, NEW r \in BOOLEAN, NEW k \in Int, Commit(b, r),
           \A i \in ParmBytes : b[i] # g_cfg_parms[i] => ~r /\ i \in {k, k + 1}
    PROVE  CfgInv'
<1> USE DEF CfgInv
<1>1. /\ stage = "ready" /\ stage' = "write" /\ reset' = r
      /\ g_cfg_parms' = Sealed(b, r) /\ old' = eeprom /\ eeprom' = eeprom
  BY DEF Commit
<1>2. CfgTypeOK'
  BY <1>1, SealedBlock DEF CfgTypeOK
<1>3. Mix'
  BY <1>1 DEF Mix
<1>4. BeingSealed'
  BY <1>1, SealedBlock DEF BeingSealed, HeaderOK
<1>5. OneParameter'
  <2> SUFFICES ASSUME IsValid(eeprom) PROVE DiffersAt(eeprom, k)'
    BY <1>1 DEF OneParameter, DiffersAt, IsValid, Accepted
  <2>1. \A i \in ParmBytes : g_cfg_parms[i] = eeprom[i]
    <3>1. Parms(g_cfg_parms) = Parms(eeprom)
      BY <1>1 DEF RebootChangesNothing, Saved
    <3> QED
      BY <3>1 DEF Parms
  <2>2. \A i \in ParmBytes : g_cfg_parms'[i] = b[i]
    BY <1>1, SealedBlock
  <2> QED
    BY <1>1, <2>1, <2>2 DEF DiffersAt
<1> QED
  BY <1>1, <1>2, <1>3, <1>4, <1>5 DEF RebootChangesNothing

\* a block after cfg_set() has replaced a parameter
LEMMA AfterSetBlock ==
    ASSUME NEW b \in Block, NEW p, p[1] \in 1 .. MAX_PARMID,
           \A j \in 2 .. parmtable[p[1]].count + 1 : p[j] \in Byte
    PROVE  /\ AfterSet(b, p) \in Block
           /\ \A i \in Offsets : AfterSet(b, p)[i] # b[i]
                => i \in {parmtable[p[1]].index, parmtable[p[1]].index + 1}
<1> DEFINE e == parmtable[p[1]]
<1>1. e.index \in Int /\ e.count \in {1, 2}
  BY Entry
<1>2. \A i \in Offsets : i \in BytesOf(p[1]) =>
          i \in {e.index, e.index + 1} /\ p[2 + i - e.index] \in Byte
  BY <1>1 DEF BytesOf, Offsets
<1> QED
  BY <1>2 DEF AfterSet, Block

\* cfg_set() with a payload that it accepts
LEMMA SetStep ==
    ASSUME CfgInv, NEW p, p[1] \in 1 .. MAX_PARMID, CfgSet(p),
           \A j \in 2 .. parmtable[p[1]].count + 1 : p[j] \in Byte
    PROVE  CfgInv'
<1> DEFINE b == AfterSet(g_cfg_parms, p)
           k == parmtable[p[1]].index
<1>1. g_cfg_parms \in Block
  BY DEF CfgInv, CfgTypeOK
<1>2. b \in Block /\ \A i \in Offsets : b[i] # g_cfg_parms[i] => i \in {k, k + 1}
  BY <1>1, AfterSetBlock
<1>3. k \in Int
  BY Entry
<1>4. Commit(b, FALSE)
  BY DEF CfgSet
<1> HIDE DEF b, k
<1> QED
  BY <1>2, <1>3, <1>4, Layout, CommitStep

LEMMA StoreStep ==
    ASSUME CfgInv, CfgStore \/ CfgReset
    PROVE  CfgInv'
<1>1. g_cfg_parms \in Block
  BY DEF CfgInv, CfgTypeOK
<1>2. PICK r \in BOOLEAN : Commit(g_cfg_parms, r)
  BY DEF CfgStore, CfgReset
<1>3. \A i \in ParmBytes : g_cfg_parms[i] # g_cfg_parms[i] => ~r /\ i \in {0, 0 + 1}
  OBVIOUS
<1>4. 0 \in Int
  OBVIOUS
<1> QED
  BY <1>1, <1>2, <1>3, <1>4, CommitStep

LEMMA LoadStep ==
    ASSUME CfgInv, CfgLoad
    PROVE  CfgInv'
<1>1. /\ stage = "boot" /\ stage' = "ready" /\ Loads(eeprom) /\ old = eeprom
      /\ UNCHANGED <<eeprom, reset, old>>
  BY DEF CfgInv, CfgLoad
<1>2. CfgTypeOK /\ eeprom \in Block
  BY DEF CfgInv, CfgTypeOK
<1>3. g_cfg_parms' \in Block /\ Parms(g_cfg_parms') = Saved(eeprom)
  BY <1>1, <1>2, LoadsSaved
<1>4. RebootChangesNothing'
  BY <1>1, <1>3 DEF RebootChangesNothing, Parms
<1> QED
  BY <1>1, <1>2, <1>3, <1>4 DEF CfgInv, CfgTypeOK

LEMMA WriteByteStep ==
    ASSUME CfgInv, WriteByte
    PROVE  CfgInv'
<1>1. PICK i \in Offsets : /\ eeprom[i] # g_cfg_parms[i]
                           /\ eeprom' = [eeprom EXCEPT ![i] = g_cfg_parms[i]]
  BY DEF WriteByte
<1>2. stage = "write" /\ UNCHANGED <<g_cfg_parms, stage, reset, old>>
  BY DEF WriteByte
<1>3. CfgTypeOK'
  BY <1>1, <1>2 DEF CfgInv, CfgTypeOK, Block
<1>4. Mix'
  BY <1>1, <1>2 DEF CfgInv, CfgTypeOK, Block, Mix
<1>5. BeingSealed' /\ OneParameter'
  BY <1>2 DEF CfgInv, BeingSealed, HeaderOK, OneParameter, IsValid, Accepted, DiffersAt
<1> QED
  BY <1>2, <1>3, <1>4, <1>5 DEF CfgInv, RebootChangesNothing

\* What is saved once a store is complete.
LEMMA StoredAll ==
    ASSUME CfgInv, stage = "write", eeprom = g_cfg_parms
    PROVE  Saved(eeprom) = IF reset THEN Default ELSE Parms(g_cfg_parms)
<1>1. g_cfg_parms \in Block /\ BeingSealed /\ reset \in BOOLEAN
  BY DEF CfgInv, CfgTypeOK
<1>2. IsValid(g_cfg_parms) <=> ~reset
  BY <1>1, CrcType DEF BeingSealed, HeaderOK, IsValid, Accepted
<1> QED
  BY <1>1, <1>2 DEF Saved

LEMMA WriteDoneStep ==
    ASSUME CfgInv, WriteDone
    PROVE  CfgInv'
<1>1. /\ stage = "write" /\ stage' = "ready" /\ eeprom = g_cfg_parms
      /\ old' = eeprom /\ UNCHANGED <<eeprom, reset>>
  BY DEF WriteDone
<1>2. CfgTypeOK /\ eeprom \in Block
  BY DEF CfgInv, CfgTypeOK
<1>3. g_cfg_parms' \in Block /\ Parms(g_cfg_parms') = Saved(eeprom)
  <2>1. CASE reset
    BY <1>2, <2>1, LoadsSaved DEF WriteDone
  <2>2. CASE ~reset
    BY <1>1, <1>2, <2>2, StoredAll DEF WriteDone
  <2> QED
    BY <2>1, <2>2
<1>4. RebootChangesNothing'
  BY <1>1, <1>3 DEF RebootChangesNothing, Parms
<1> QED
  BY <1>1, <1>2, <1>3, <1>4 DEF CfgInv, CfgTypeOK

LEMMA BlankBlock == [i \in Offsets |-> 0] \in Block
  BY TableAssumption DEF Block

LEMMA PowerFailStep ==
    ASSUME CfgInv, PowerFail
    PROVE  CfgInv'
<1>1. /\ g_cfg_parms' = [i \in Offsets |-> 0] /\ stage' = "boot" /\ reset' = FALSE
      /\ old' = eeprom /\ eeprom' = eeprom
  BY DEF PowerFail
<1> QED
  BY <1>1, BlankBlock DEF CfgInv, CfgTypeOK, RebootChangesNothing

LEMMA CfgInitInv == CfgInit => CfgInv
  BY BlankBlock, TableAssumption DEF CfgInit, CfgInv, CfgTypeOK, RebootChangesNothing

LEMMA CfgStutter == ASSUME CfgInv, UNCHANGED cfgVars PROVE CfgInv'
<1>1. UNCHANGED <<g_cfg_parms, eeprom, stage, reset, old>>
  BY DEF cfgVars
<1> QED
  BY <1>1 DEF CfgInv, CfgTypeOK, RebootChangesNothing, Saved, Parms, IsValid, Accepted,
              Data, Mix, BeingSealed, HeaderOK, OneParameter, DiffersAt

-----------------------------------------------------------------------------
(* What the invariant says.                                                *)

LEMMA InvNeverHalf == CfgInv => NeverHalf
<1> SUFFICES ASSUME CfgInv, stage = "write", IsValid(old), IsValid(eeprom)
             PROVE  eeprom \in {old, g_cfg_parms}
  BY DEF NeverHalf
<1>1. old \in Block /\ eeprom \in Block /\ g_cfg_parms \in Block
  BY DEF CfgInv, CfgTypeOK
<1>2. Mix /\ BeingSealed
  BY DEF CfgInv
<1>3. PICK k \in Int : DiffersAt(old, k)
  BY DEF CfgInv, OneParameter
<1>4. HeaderOK(old) /\ HeaderOK(eeprom) /\ HeaderOK(g_cfg_parms)
  BY <1>2 DEF IsValid, Accepted, HeaderOK, BeingSealed
<1>5. old[CRC] = CrcOf(Data(old)) /\ eeprom[CRC] = CrcOf(Data(eeprom))
  BY DEF IsValid, Accepted
<1>6. eeprom[CRC] \in {old[CRC], g_cfg_parms[CRC]}
  BY <1>2, Layout DEF Mix
<1>7. CASE \A i \in ParmBytes : eeprom[i] = old[i]
  <2>1. eeprom[CRC] = old[CRC]
    BY <1>4, <1>5, <1>7, SameData
  <2>2. \A i \in Offsets : eeprom[i] = old[i]
    BY <1>4, <1>7, <2>1, Layout DEF HeaderOK
  <2> QED
    BY <1>1, <2>2 DEF Block
<1>8. CASE ~(\A i \in ParmBytes : eeprom[i] = old[i])
  <2>1. PICK i \in ParmBytes : eeprom[i] # old[i]
    BY <1>8
  <2>2. eeprom[i] = g_cfg_parms[i] /\ ~reset /\ i \in {k, k + 1}
    BY <1>2, <1>3, <2>1, Layout DEF Mix, DiffersAt
  <2>3. g_cfg_parms[CRC] = CrcOf(Data(g_cfg_parms))
    BY <1>2, <2>2 DEF BeingSealed
  <2>4. CASE \A j \in ParmBytes : eeprom[j] = g_cfg_parms[j]
    <3>1. eeprom[CRC] = g_cfg_parms[CRC]
      BY <1>4, <1>5, <2>3, <2>4, SameData
    <3>2. \A j \in Offsets : eeprom[j] = g_cfg_parms[j]
      BY <1>4, <2>4, <3>1, Layout DEF HeaderOK
    <3> QED
      BY <1>1, <3>2 DEF Block
  <2>5. CASE ~(\A j \in ParmBytes : eeprom[j] = g_cfg_parms[j])
    <3>1. PICK j \in ParmBytes : eeprom[j] # g_cfg_parms[j]
      BY <2>5
    <3>2. eeprom[j] = old[j] /\ j \in {k, k + 1} /\ i # j
      BY <1>2, <1>3, <2>2, <3>1, Layout DEF Mix, DiffersAt
    <3>3. \A n \in ParmBytes \ {i, j} : old[n] = g_cfg_parms[n]
      BY <1>3, <2>2, <3>2, Layout DEF DiffersAt
    <3>4. \A n \in ParmBytes \ {i, j} : eeprom[n] = old[n] /\ eeprom[n] = g_cfg_parms[n]
      BY <1>2, <3>3, Layout DEF Mix
    <3>5. CrcOf(Data(eeprom)) # CrcOf(Data(old))
      BY <1>1, <1>4, <2>1, <3>2, <3>4, OneByte
    <3>6. CrcOf(Data(eeprom)) # CrcOf(Data(g_cfg_parms))
      BY <1>1, <1>4, <2>2, <3>1, <3>4, OneByte
    <3> QED
      BY <1>5, <1>6, <2>3, <3>5, <3>6
  <2> QED
    BY <2>4, <2>5
<1> QED
  BY <1>7, <1>8

-----------------------------------------------------------------------------
(* The steps as those of NvParms.                                          *)

InUse == IF stage = "boot" THEN Saved(eeprom) ELSE
         IF stage = "write" /\ reset THEN Default ELSE Parms(g_cfg_parms)

LEMMA CommitRefines ==
    ASSUME CfgInv, CfgInv', NEW b, NEW r \in BOOLEAN, Commit(b, r)
    PROVE  Promise!Change
<1>1. stage = "ready" /\ stage' = "write" /\ reset' = r /\ eeprom' = eeprom /\ old' = eeprom
  BY DEF Commit
<1>2. g_cfg_parms' \in Block
  BY DEF CfgInv, CfgTypeOK
<1>3. InUse' \in Value
  BY <1>1, <1>2, ParmsType, TableAssumption DEF InUse
<1>4. Saved(eeprom)' = Saved(eeprom) /\ (Saved(eeprom) # Default => IsValid(old)')
  BY <1>1 DEF Saved, IsValid, Accepted, Data, Parms
<1>5. IsValid(old)' \in BOOLEAN
  BY DEF IsValid, Accepted
<1> QED
  BY <1>1, <1>3, <1>4, <1>5 DEF Promise!Change, InUse

LEMMA WriteByteRefines ==
    ASSUME CfgInv, CfgInv', WriteByte
    PROVE  Promise!Persist
<1>1. /\ stage = "write" /\ stage' = "write" /\ g_cfg_parms' = g_cfg_parms
      /\ reset' = reset /\ old' = old
  BY DEF WriteByte
<1>2. InUse' = InUse /\ IsValid(old)' = IsValid(old)
  BY <1>1 DEF InUse, Parms, IsValid, Accepted, Data
<1>3. Saved(eeprom)' \in Value
  <2>1. eeprom' \in Block
    BY DEF CfgInv, CfgTypeOK
  <2> QED
    BY <2>1, SavedType
<1>4. ASSUME IsValid(old) PROVE Saved(eeprom)' \in {Saved(eeprom), InUse, Default}
  <2>1. CASE ~IsValid(eeprom)'
    BY <2>1 DEF Saved, IsValid, Accepted, Data, Parms
  <2>2. CASE IsValid(eeprom)'
    <3>1. eeprom' \in {old, g_cfg_parms}
      <4>1. NeverHalf'
        BY InvNeverHalf, PTL
      <4> QED
        BY <1>1, <1>4, <2>2, <4>1 DEF NeverHalf, IsValid, Accepted, Data
    <3>2. PICK i \in Offsets : /\ eeprom[i] # g_cfg_parms[i]
                               /\ eeprom' = [eeprom EXCEPT ![i] = g_cfg_parms[i]]
      BY DEF WriteByte
    <3>3. eeprom \in Block /\ eeprom[i] = old[i]
      BY <1>1, <3>2 DEF CfgInv, CfgTypeOK, Mix
    <3>4. eeprom' = g_cfg_parms
      BY <3>1, <3>2, <3>3 DEF Block
    <3>5. g_cfg_parms' \in Block /\ BeingSealed'
      BY <1>1 DEF CfgInv, CfgTypeOK
    <3>6. ~reset
      BY <1>1, <2>2, <3>4, <3>5, CrcType DEF BeingSealed, IsValid, Accepted, Data
    <3>7. Saved(eeprom)' = Parms(g_cfg_parms)
      BY <1>1, <2>2, <3>4 DEF Saved, IsValid, Accepted, Data, Parms
    <3> QED
      BY <1>1, <3>6, <3>7 DEF InUse
  <2> QED
    BY <2>1, <2>2
<1> QED
  BY <1>1, <1>2, <1>3, <1>4 DEF Promise!Persist, InUse

LEMMA WriteDoneRefines ==
    ASSUME CfgInv, CfgInv', WriteDone
    PROVE  Promise!Complete
<1>1. /\ stage = "write" /\ stage' = "ready" /\ eeprom = g_cfg_parms /\ eeprom' = eeprom
  BY DEF WriteDone
<1>2. Saved(eeprom) = InUse
  BY <1>1, StoredAll DEF InUse
<1>3. InUse' = Saved(eeprom) /\ Saved(eeprom)' = Saved(eeprom)
  BY <1>1 DEF CfgInv, RebootChangesNothing, InUse, Saved, Parms, IsValid, Accepted, Data
<1>4. IsValid(old)' \in BOOLEAN
  BY DEF IsValid, Accepted
<1> QED
  BY <1>1, <1>2, <1>3, <1>4 DEF Promise!Complete, InUse

LEMMA LoadRefines ==
    ASSUME CfgInv, CfgInv', CfgLoad
    PROVE  UNCHANGED Promise!nvVars
<1>1. /\ stage = "boot" /\ stage' = "ready" /\ eeprom' = eeprom /\ old' = old
  BY DEF CfgLoad
<1>2. InUse' = InUse /\ Saved(eeprom)' = Saved(eeprom) /\ IsValid(old)' = IsValid(old)
  BY <1>1 DEF CfgInv, RebootChangesNothing, InUse, Saved, Parms, IsValid, Accepted, Data
<1> QED
  BY <1>1, <1>2 DEF Promise!nvVars, InUse

LEMMA PowerFailRefines ==
    ASSUME PowerFail
    PROVE  Promise!Reboot
<1>1. stage' = "boot" /\ eeprom' = eeprom
  BY DEF PowerFail
<1>2. InUse' = Saved(eeprom) /\ Saved(eeprom)' = Saved(eeprom) /\ IsValid(old)' \in BOOLEAN
  BY <1>1 DEF InUse, Saved, Parms, IsValid, Accepted, Data
<1> QED
  BY <1>1, <1>2 DEF Promise!Reboot, InUse

LEMMA CfgInitRefines == CfgInit => Promise!NvInit
<1> SUFFICES ASSUME CfgInit PROVE Promise!NvInit
  OBVIOUS
<1>1. stage = "boot" /\ eeprom \in Block
  BY TableAssumption DEF CfgInit
<1>2. Saved(eeprom) \in Value /\ IsValid(old) \in BOOLEAN
  BY <1>1, SavedType DEF IsValid, Accepted
<1> QED
  BY <1>1, <1>2 DEF Promise!NvInit

LEMMA CfgStutterRefines ==
    ASSUME UNCHANGED cfgVars
    PROVE  UNCHANGED Promise!nvVars
<1>1. /\ g_cfg_parms' = g_cfg_parms /\ eeprom' = eeprom /\ stage' = stage
      /\ reset' = reset /\ old' = old
  BY DEF cfgVars
<1> QED
  BY <1>1 DEF Promise!nvVars, Saved, Parms, IsValid, Accepted, Data

-----------------------------------------------------------------------------
(***************************************************************************)
(* The commands.                                                           *)
(***************************************************************************)
PacketOK ==
    /\ payload \in Payload
    /\ pkt.cmd \in Codes \cup {"none"} /\ pkt.addr \in Addrs
    /\ pkt.len \in 0 .. PAYLOAD_LEN
    /\ step \in {"wait", "execute", "again", "reply"}
    /\ sent.payload \in Seq(Byte)

\* cfg.c is at work only while a command waits for it, and a command has no reply
\* before it is done.
Coupled ==
    /\ step = "wait" => stage # "write"
    /\ step = "execute" => stage = "ready"
    /\ step # "wait" => stage # "boot" /\ sent = NoReply
    /\ stage = "boot" => sent = NoReply
    /\ step = "again" => pkt.cmd = "ADDR"
    /\ step = "reply" => pkt.cmd \in {"ADDR", "SETPARM", "FACTORY"}

IInv == CfgInv /\ PacketOK /\ Coupled /\ GetThenSet

-----------------------------------------------------------------------------
(* The configuration.                                                      *)

\* ADDR's SETPARM payload is one that cfg_set() takes.
LEMMA AddrSets ==
    ASSUME CfgInv, PacketOK, Addr
    PROVE  CfgInv'
<1> DEFINE p == <<ADDR_ID, pkt.addr>>
<1>1. p[1] \in 1 .. MAX_PARMID
  BY CommandsAssumption DEF ADDR_ID, MAX_PARMID
<1>2. parmtable[p[1]].count = 1
  BY CommandsAssumption
<1>3. p[2] \in Byte
  BY CommandsAssumption DEF PacketOK
<1>4. \A j \in 2 .. parmtable[p[1]].count + 1 : p[j] \in Byte
  BY <1>2, <1>3
<1>5. CfgSet(p)
  BY DEF Addr
<1> HIDE DEF p
<1> QED
  BY <1>1, <1>4, <1>5, SetStep

\* All bytes that SETPARM stores are in the packet.
LEMMA SetParmSets ==
    ASSUME CfgInv, PacketOK, SetParm
    PROVE  CfgInv'
<1>1. CASE SetAccepts(pkt.len, payload)
  <2>1. payload[1] \in 1 .. MAX_PARMID /\ CfgSet(payload)
    BY <1>1 DEF SetParm, SetAccepts
  <2>2. parmtable[payload[1]].count + 1 = pkt.len
    BY <1>1, <2>1, Entry, CommandsAssumption DEF SetAccepts, PacketOK
  <2>3. \A j \in 2 .. pkt.len : payload[j] \in Byte
    BY CommandsAssumption DEF PacketOK, Payload
  <2> QED
    BY <2>1, <2>2, <2>3, SetStep
<1>2. CASE ~SetAccepts(pkt.len, payload)
  BY <1>2, CfgStutter DEF SetParm
<1> QED
  BY <1>1, <1>2

LEMMA CfgPart == IInv /\ [Next]_allVars => CfgInv'
<1> SUFFICES ASSUME IInv, [Next]_allVars PROVE CfgInv'
  OBVIOUS
<1>1. CfgInv /\ PacketOK
  BY DEF IInv
<1>2. CASE UNCHANGED cfgVars
  BY <1>1, <1>2, CfgStutter
<1>3. CASE Addr
  BY <1>1, <1>3, AddrSets
<1>4. CASE SetParm
  BY <1>1, <1>4, SetParmSets
<1>5. CASE AddrStore \/ Factory
  BY <1>1, <1>5, StoreStep DEF AddrStore, Factory
<1>6. CASE Configure
  BY <1>1, <1>6, LoadStep, WriteByteStep, WriteDoneStep DEF Configure
<1>7. CASE Restart
  BY <1>1, <1>7, PowerFailStep DEF Restart
<1>8. Ping \/ GetParm \/ Reply \/ Ignore \/ BadPacket \/ GoodPacket => UNCHANGED cfgVars
  BY DEF Ping, GetParm, Reply, Ignore, BadPacket, GoodPacket
<1> QED
  BY <1>2, <1>3, <1>4, <1>5, <1>6, <1>7, <1>8 DEF Next, Execute, allVars

-----------------------------------------------------------------------------
(* Packets and replies.                                                    *)

LEMMA NodeidByte == CfgTypeOK => NODEID \in Byte
<1>1. ADDR_ID \in 1 .. MAX_PARMID
  BY CommandsAssumption DEF ADDR_ID, MAX_PARMID
<1> QED
  BY <1>1, Entry, Layout DEF CfgTypeOK, Block, NODEID

LEMMA PayloadSeq == PacketOK => payload \in Seq(Byte) /\ payload[1] \in Byte
  BY CommandsAssumption DEF PacketOK, Payload

LEMMA UidReply == PacketOK => SubSeq(payload, 1, Len(UID)) \in Seq(Byte)
<1> SUFFICES ASSUME PacketOK PROVE SubSeq(payload, 1, Len(UID)) \in Seq(Byte)
  OBVIOUS
<1>1. \A i \in 1 .. Len(UID) : payload[i] \in Byte
  BY CommandsAssumption DEF PacketOK, Payload
<1>2. SubSeq(payload, 1, Len(UID)) = [i \in 1 .. Len(UID) |-> payload[i]]
  BY CommandsAssumption
<1> QED
  BY <1>1, <1>2, CommandsAssumption

\* What GETPARM answers, byte by byte.
LEMMA GetBytes ==
    ASSUME CfgTypeOK, NEW id \in Byte
    PROVE  /\ CfgGet(id) \in Seq(Byte)
           /\ id \notin 1 .. MAX_PARMID => Len(CfgGet(id)) = 1
           /\ id \in 1 .. MAX_PARMID =>
                /\ Len(CfgGet(id)) = parmtable[id].count + 1
                /\ CfgGet(id)[1] = id
                /\ \A i \in BytesOf(id) :
                      CfgGet(id)[2 + i - parmtable[id].index] = g_cfg_parms[i]
<1> DEFINE q == CfgGet(id)
           e == parmtable[id]
<1>1. CASE id \notin 1 .. MAX_PARMID
  BY <1>1 DEF CfgGet
<1>2. CASE id \in 1 .. MAX_PARMID
  <2>1. e.index \in Int /\ e.count \in {1, 2} /\ BytesOf(id) \subseteq Offsets
    BY <1>2, Entry, Layout
  <2>2. q = [i \in 1 .. e.count + 1 |-> IF i = 1 THEN id ELSE g_cfg_parms[e.index + i - 2]]
    BY <1>2 DEF CfgGet
  <2> HIDE DEF q, e
  <2>3. \A i \in 2 .. e.count + 1 : e.index + i - 2 \in BytesOf(id)
    BY <2>1 DEF BytesOf, e
  <2>4. \A i \in 2 .. e.count + 1 : g_cfg_parms[e.index + i - 2] \in Byte
    BY <2>1, <2>3 DEF CfgTypeOK, Block
  <2>5. q \in Seq(Byte) /\ Len(q) = e.count + 1 /\ q[1] = id
    BY <2>1, <2>2, <2>4
  <2>6. ASSUME NEW i \in BytesOf(id) PROVE q[2 + i - e.index] = g_cfg_parms[i]
    <3>1. i \in e.index .. e.index + e.count - 1
      BY DEF BytesOf, e
    <3>2. 2 + i - e.index \in 2 .. e.count + 1 /\ e.index + (2 + i - e.index) - 2 = i
      BY <2>1, <3>1
    <3> QED
      BY <2>1, <2>2, <3>2
  <2> QED
    BY <1>2, <2>5, <2>6 DEF q, e
<1> QED
  BY <1>1, <1>2

\* Set to what it is, a parameter does not change the block.
LEMMA GotThenSet ==
    ASSUME CfgTypeOK, NEW id \in 1 .. MAX_PARMID, id \in Byte
    PROVE  /\ SetAccepts(Len(CfgGet(id)), CfgGet(id))
           /\ AfterSet(g_cfg_parms, CfgGet(id)) = g_cfg_parms
<1> DEFINE q == CfgGet(id)
<1>1. /\ q[1] = id /\ Len(q) = parmtable[id].count + 1
      /\ \A i \in BytesOf(id) : q[2 + i - parmtable[id].index] = g_cfg_parms[i]
  BY GetBytes
<1> HIDE DEF q
<1>2. SetAccepts(Len(q), q)
  BY <1>1, Entry DEF SetAccepts
<1>3. g_cfg_parms \in [Offsets -> Byte]
  BY DEF CfgTypeOK, Block
<1>4. AfterSet(g_cfg_parms, q) = g_cfg_parms
  BY <1>1, <1>3 DEF AfterSet
<1> QED
  BY <1>2, <1>4 DEF q

-----------------------------------------------------------------------------
(* The rest of the invariant, action by action.                            *)

Kept == PacketOK' /\ Coupled' /\ GetThenSet'

\* an action that leaves the configuration alone, and replies or does not
LEMMA SameCfg ==
    ASSUME IInv, PacketOK', Coupled', UNCHANGED cfgVars,
           \/ sent' = sent
           \/ sent'.cmd # "GETPARM"
    PROVE  Kept
<1>1. g_cfg_parms' = g_cfg_parms
  BY DEF cfgVars
<1>2. GetThenSet'
  BY <1>1 DEF IInv, GetThenSet, SetAccepts, AfterSet, BytesOf
<1> QED
  BY <1>2 DEF Kept

\* an action in which no reply to GETPARM stands
LEMMA NothingGot ==
    ASSUME PacketOK', Coupled', sent' = NoReply
    PROVE  Kept
  BY DEF Kept, GetThenSet, NoReply

LEMMA NoReplySeq == NoReply.payload \in Seq(Byte)
  BY DEF NoReply

LEMMA BadPacketKeeps == IInv /\ BadPacket => Kept
<1> SUFFICES ASSUME IInv, BadPacket PROVE Kept
  OBVIOUS
<1>1. /\ payload' \in Payload /\ sent' = sent /\ pkt' = pkt /\ step' = step
      /\ stage' = stage /\ UNCHANGED cfgVars
  BY DEF BadPacket, cfgVars
<1>2. PacketOK' /\ Coupled'
  BY <1>1 DEF IInv, PacketOK, Coupled
<1> QED
  BY <1>1, <1>2, SameCfg

LEMMA GoodPacketKeeps == IInv /\ GoodPacket => Kept
<1> SUFFICES ASSUME IInv, GoodPacket PROVE Kept
  OBVIOUS
<1>1. PICK c \in Codes, a \in Addrs, len \in 0 .. PAYLOAD_LEN :
         /\ pkt' = [cmd |-> c, addr |-> a, len |-> len]
         /\ Overwrites(len)
  BY CommandsAssumption DEF GoodPacket, Lengths
<1>2. step' = "execute" /\ sent' = NoReply /\ stage = "ready" /\ stage' = "ready"
  BY DEF GoodPacket, cfgVars
<1>3. len \in 0 .. PAYLOAD_LEN
  BY <1>1
<1>4. payload' \in Payload
  <2>1. PICK fresh \in [1 .. len -> PayloadBytes] :
          payload' = [i \in 1 .. PAYLOAD_LEN |-> IF i <= len THEN fresh[i] ELSE payload[i]]
    BY <1>1 DEF Overwrites
  <2> QED
    BY <1>3, <2>1, CommandsAssumption DEF IInv, PacketOK, Payload
<1>5. PacketOK'
  BY <1>1, <1>2, <1>3, <1>4, NoReplySeq DEF PacketOK
<1>6. Coupled'
  BY <1>2 DEF Coupled
<1> QED
  BY <1>2, <1>5, <1>6, NothingGot

\* a packet is done with
LEMMA SendKeeps ==
    ASSUME IInv, NEW addr, NEW reply \in Seq(Byte), Send(addr, reply),
           payload' = payload, UNCHANGED cfgVars, stage = "ready"
    PROVE  PacketOK' /\ Coupled'
<1>1. /\ sent' = [cmd |-> pkt.cmd, addr |-> addr, payload |-> reply]
      /\ pkt' = NoPacket /\ step' = "wait" /\ stage' = "ready"
  BY DEF Send, cfgVars
<1>2. PacketOK'
  BY <1>1, CommandsAssumption DEF IInv, PacketOK, NoPacket
<1> QED
  BY <1>1, <1>2 DEF Coupled

LEMMA PingKeeps == IInv /\ Ping => Kept
<1> SUFFICES ASSUME IInv, Ping PROVE Kept
  OBVIOUS
<1>1. /\ pkt.cmd \in {"PING", "UID"} /\ stage = "ready" /\ Send(pkt.addr, <<>>)
      /\ payload' = payload /\ UNCHANGED cfgVars
  BY DEF Ping, Executes, IInv, Coupled
<1>2. << >> \in Seq(Byte)
  OBVIOUS
<1>3. PacketOK' /\ Coupled'
  BY <1>1, <1>2, SendKeeps
<1>4. sent'.cmd # "GETPARM"
  BY <1>1 DEF Send
<1> QED
  BY <1>1, <1>3, <1>4, SameCfg

LEMMA GetParmKeeps == IInv /\ GetParm => Kept
<1> SUFFICES ASSUME IInv, GetParm PROVE Kept
  OBVIOUS
<1> DEFINE id == payload[1]
<1>1. /\ stage = "ready" /\ Send(NODEID, CfgGet(id))
      /\ payload' = payload /\ UNCHANGED cfgVars
  BY DEF GetParm, Executes, IInv, Coupled
<1>2. CfgTypeOK /\ id \in Byte
  BY PayloadSeq DEF IInv, CfgInv
<1> HIDE DEF id
<1>3. CfgGet(id) \in Seq(Byte)
  BY <1>2, GetBytes
<1>4. PacketOK' /\ Coupled'
  BY <1>1, <1>3, SendKeeps
<1>5. g_cfg_parms' = g_cfg_parms /\ sent'.payload = CfgGet(id)
  BY <1>1 DEF cfgVars, Send
<1>6. GetThenSet'
  <2>1. CASE id \in 1 .. MAX_PARMID
    <3>1. /\ SetAccepts(Len(CfgGet(id)), CfgGet(id))
          /\ AfterSet(g_cfg_parms, CfgGet(id)) = g_cfg_parms
      BY <1>2, <2>1, GotThenSet
    <3> QED
      BY <1>5, <3>1 DEF GetThenSet
  <2>2. CASE id \notin 1 .. MAX_PARMID
    <3>1. Len(CfgGet(id)) = 1
      BY <1>2, <2>2, GetBytes
    <3>2. ~ (Len(sent'.payload) > 1)
      BY <1>5, <3>1
    <3> QED
      BY <3>2 DEF GetThenSet
  <2> QED
    BY <2>1, <2>2
<1> QED
  BY <1>4, <1>6 DEF Kept

LEMMA ReplyKeeps == IInv /\ Reply => Kept
<1> SUFFICES ASSUME IInv, Reply PROVE Kept
  OBVIOUS
<1>1. /\ pkt.cmd \in {"ADDR", "SETPARM", "FACTORY"} /\ stage = "ready"
      /\ payload' = payload /\ UNCHANGED cfgVars
  BY DEF Reply, IInv, Coupled
<1>2. PICK addr : \E reply \in Seq(Byte) : Send(addr, reply)
  <2>1. SubSeq(payload, 1, Len(UID)) \in Seq(Byte) /\ <<payload[1]>> \in Seq(Byte)
        /\ << >> \in Seq(Byte)
    BY UidReply, PayloadSeq DEF IInv
  <2> QED
    BY <1>1, <2>1 DEF Reply
<1>3. PICK reply \in Seq(Byte) : Send(addr, reply)
  BY <1>2
<1>4. PacketOK' /\ Coupled'
  BY <1>1, <1>3, SendKeeps
<1>5. sent'.cmd # "GETPARM"
  BY <1>1, <1>3 DEF Send
<1> QED
  BY <1>1, <1>4, <1>5, SameCfg

LEMMA IgnoreKeeps == IInv /\ Ignore => Kept
<1> SUFFICES ASSUME IInv, Ignore PROVE Kept
  OBVIOUS
<1>1. /\ step = "execute" /\ step' = "wait" /\ pkt' = NoPacket /\ payload' = payload
      /\ sent' = sent /\ UNCHANGED cfgVars /\ stage' = stage
  BY DEF Ignore, cfgVars
<1>2. PacketOK' /\ Coupled'
  BY <1>1, CommandsAssumption DEF IInv, PacketOK, Coupled, NoPacket
<1> QED
  BY <1>1, <1>2, SameCfg

\* a command that stores something
LEMMA StoringKeeps == IInv /\ (Addr \/ AddrStore \/ Factory \/ SetParm) => Kept
<1> SUFFICES ASSUME IInv, Addr \/ AddrStore \/ Factory \/ SetParm PROVE Kept
  OBVIOUS
<1>1. /\ payload' = payload /\ pkt' = pkt /\ sent' = sent /\ step # "wait"
      /\ sent = NoReply
  BY DEF Addr, AddrStore, Factory, SetParm, Executes, IInv, Coupled
<1>2. /\ stage' \in {"write", "ready"}
      /\ \/ step' = "again" /\ pkt.cmd = "ADDR"
         \/ step' = "reply" /\ pkt.cmd \in {"ADDR", "SETPARM", "FACTORY"}
  BY DEF Addr, AddrStore, Factory, SetParm, Executes, NamesUs, CfgSet, CfgStore, CfgReset,
         Commit, cfgVars, IInv, Coupled
<1>3. PacketOK' /\ Coupled'
  BY <1>1, <1>2 DEF IInv, PacketOK, Coupled
<1> QED
  BY <1>1, <1>3, NothingGot

LEMMA ConfigureKeeps == IInv /\ Configure => Kept
<1> SUFFICES ASSUME IInv, Configure PROVE Kept
  OBVIOUS
<1>1. payload' = payload /\ pkt' = pkt /\ step' = step /\ sent' = sent
  BY DEF Configure, cmdVars
<1>2. \/ stage = "boot" /\ stage' = "ready"
      \/ stage = "write" /\ stage' \in {"write", "ready"}
  BY DEF Configure, CfgLoad, WriteByte, WriteDone
<1>3. sent = NoReply
  BY <1>2 DEF IInv, Coupled
<1>4. PacketOK' /\ Coupled'
  BY <1>1, <1>2 DEF IInv, PacketOK, Coupled
<1> QED
  BY <1>1, <1>3, <1>4, NothingGot

LEMMA RestartKeeps == IInv /\ Restart => Kept
<1> SUFFICES ASSUME IInv, Restart PROVE Kept
  OBVIOUS
<1>1. /\ payload' = [i \in 1 .. PAYLOAD_LEN |-> 0] /\ pkt' = NoPacket
      /\ step' = "wait" /\ sent' = NoReply /\ stage' = "boot"
  BY DEF Restart, PowerFail
<1>2. PacketOK'
  BY <1>1, CommandsAssumption, NoReplySeq DEF PacketOK, Payload, NoPacket
<1>3. Coupled'
  BY <1>1 DEF Coupled
<1> QED
  BY <1>1, <1>2, <1>3, NothingGot

LEMMA InitIInv == Init => IInv
<1> SUFFICES ASSUME Init PROVE IInv
  OBVIOUS
<1>1. CfgInv
  BY CfgInitInv DEF Init
<1>2. stage = "boot"
  BY DEF Init, CfgInit
<1>3. PacketOK /\ Coupled
  BY <1>2, CommandsAssumption, NoReplySeq DEF Init, PacketOK, Coupled, Payload, NoPacket
<1>4. GetThenSet
  BY DEF Init, GetThenSet, NoReply
<1> QED
  BY <1>1, <1>3, <1>4 DEF IInv

LEMMA NextIInv == IInv /\ [Next]_allVars => IInv'
<1> SUFFICES ASSUME IInv, [Next]_allVars PROVE IInv'
  OBVIOUS
<1>1. Kept
  <2>1. CASE UNCHANGED allVars
    <3>1. PacketOK' /\ Coupled' /\ UNCHANGED cfgVars /\ sent' = sent
      BY <2>1 DEF allVars, cmdVars, cfgVars, IInv, PacketOK, Coupled
    <3> QED
      BY <3>1, SameCfg
  <2>2. CASE Next
    BY <2>2, BadPacketKeeps, GoodPacketKeeps, PingKeeps, GetParmKeeps, ReplyKeeps,
       IgnoreKeeps, StoringKeeps, ConfigureKeeps, RestartKeeps DEF Next, Execute
  <2> QED
    BY <2>1, <2>2
<1>2. CfgInv'
  BY CfgPart
<1> QED
  BY <1>1, <1>2 DEF IInv, Kept

-----------------------------------------------------------------------------
(* Theorems.                                                               *)

THEOREM Invariance == Spec => []IInv
<1> QED
  BY InitIInv, NextIInv, PTL DEF Spec

\* Type correctness.
THEOREM TypeCorrect == Spec => []TypeOK
<1>1. IInv => TypeOK
  BY DEF IInv, CfgInv, PacketOK, TypeOK
<1> QED
  BY <1>1, Invariance, PTL

\* When no command is at work, the parameters in use are those that a reboot
\* would find.
THEOREM RebootIsHarmless == Spec => []RebootChangesNothing
<1>1. IInv => RebootChangesNothing
  BY DEF IInv, CfgInv
<1> QED
  BY <1>1, Invariance, PTL

\* A store over stored values that is interrupted leaves the old block or the new
\* one, or nothing that cfg_load() accepts.
THEOREM NoTornStore == Spec => []NeverHalf
<1>1. IInv => NeverHalf
  BY InvNeverHalf DEF IInv
<1> QED
  BY <1>1, Invariance, PTL

\* What GETPARM tells can be written back.
THEOREM GetSetAgree == Spec => []GetThenSet
<1>1. IInv => GetThenSet
  BY DEF IInv
<1> QED
  BY <1>1, Invariance, PTL

\* SETPARM stores bytes of its packet only.
THEOREM OnlyWhatWasSent == Spec => SetsOnlyWhatWasSent
<1> DEFINE A == pkt.cmd = "SETPARM" /\ stage = "ready" /\ stage' = "write" =>
                  \A i \in ParmBytes :
                     \/ g_cfg_parms'[i] = g_cfg_parms[i]
                     \/ /\ i \in BytesOf(payload[1])
                        /\ \E j \in 2 .. pkt.len : g_cfg_parms'[i] = payload[j]
<1>1. IInv /\ [Next]_allVars => [A]_allVars
  <2> SUFFICES ASSUME IInv, Next, pkt.cmd = "SETPARM", stage = "ready", stage' = "write",
                      NEW i \in ParmBytes, g_cfg_parms'[i] # g_cfg_parms[i]
               PROVE  /\ i \in BytesOf(payload[1])
                      /\ \E j \in 2 .. pkt.len : g_cfg_parms'[i] = payload[j]
    OBVIOUS
  <2>1. SetParm /\ SetAccepts(pkt.len, payload) /\ CfgSet(payload)
    BY DEF IInv, Coupled, Next, Execute, BadPacket, GoodPacket, Ping, Addr, AddrStore, SetParm,
           GetParm, Factory, Reply, Ignore, Configure, Restart, PowerFail, CfgLoad, WriteByte,
           WriteDone, cfgVars, Executes, NamesUs
  <2> DEFINE b == AfterSet(g_cfg_parms, payload)
             e == parmtable[payload[1]]
  <2>2. payload[1] \in 1 .. MAX_PARMID /\ e.count = pkt.len - 1
    BY <2>1 DEF SetAccepts
  <2>3. e.index \in Int /\ e.count \in {1, 2}
    BY <2>2, Entry
  <2>4. pkt.len \in Int
    BY DEF IInv, PacketOK
  <2>5. b \in Block
    <3>1. \A j \in 2 .. pkt.len : payload[j] \in Byte
      BY CommandsAssumption DEF IInv, PacketOK, Payload
    <3>2. e.count + 1 = pkt.len
      BY <2>2, <2>3, <2>4
    <3> QED
      BY <2>2, <3>1, <3>2, AfterSetBlock DEF IInv, CfgInv, CfgTypeOK
  <2>6. g_cfg_parms'[i] = b[i]
    BY <2>1, <2>5, SealedBlock DEF CfgSet, Commit
  <2>7. b[i] = IF i \in BytesOf(payload[1]) THEN payload[2 + i - e.index] ELSE g_cfg_parms[i]
    BY Layout DEF AfterSet
  <2>8. i \in BytesOf(payload[1]) /\ g_cfg_parms'[i] = payload[2 + i - e.index]
    BY <2>6, <2>7
  <2>9. 2 + i - e.index \in 2 .. pkt.len
    BY <2>2, <2>3, <2>4, <2>8 DEF BytesOf
  <2> QED
    BY <2>8, <2>9
<1> QED
  BY <1>1, Invariance, PTL DEF Spec, SetsOnlyWhatWasSent

\* What has been acknowledged has been stored.
THEOREM AckAfterStore == Spec => AcknowledgedIsStored
<1> DEFINE A == sent' # sent /\ sent'.cmd \in {"ADDR", "SETPARM", "FACTORY"} =>
                  /\ Saved(eeprom) = Parms(g_cfg_parms)
                  /\ sent'.cmd = "ADDR" =>
                         sent'.addr = Saved(eeprom)[parmtable[ADDR_ID].index]
<1>1. IInv /\ [Next]_allVars => [A]_allVars
  <2> SUFFICES ASSUME IInv, Next, sent' # sent, sent'.cmd \in {"ADDR", "SETPARM", "FACTORY"}
               PROVE  /\ Saved(eeprom) = Parms(g_cfg_parms)
                      /\ sent'.cmd = "ADDR" =>
                             sent'.addr = Saved(eeprom)[parmtable[ADDR_ID].index]
    OBVIOUS
  <2>1. Reply
    <3>1. BadPacket \/ Addr \/ AddrStore \/ SetParm \/ Factory \/ Ignore \/ Configure
             => sent' = sent
      BY DEF BadPacket, Addr, AddrStore, SetParm, Factory, Ignore, Configure, cmdVars
    <3>2. GoodPacket \/ Restart => sent'.cmd = "none"
      BY DEF GoodPacket, Restart, NoReply
    <3>3. Ping \/ GetParm => sent'.cmd \in {"PING", "UID", "GETPARM"}
      BY DEF Ping, GetParm, Executes, Send
    <3> QED
      BY <3>1, <3>2, <3>3 DEF Next, Execute
  <2>2. stage = "ready" /\ Saved(eeprom) = Parms(g_cfg_parms)
    BY <2>1 DEF Reply, IInv, CfgInv, RebootChangesNothing
  <2>3. ASSUME sent'.cmd = "ADDR" PROVE sent'.addr = NODEID
    <3>1. pkt.cmd \in {"ADDR", "SETPARM", "FACTORY"}
      BY <2>1 DEF Reply, IInv, Coupled
    <3>2. pkt.cmd = "ADDR"
      BY <2>1, <2>3, <3>1 DEF Reply, Send
    <3> QED
      BY <2>1, <3>2 DEF Reply, Send
  <2>4. NODEID = Parms(g_cfg_parms)[parmtable[ADDR_ID].index]
    <3>1. ADDR_ID \in 1 .. MAX_PARMID
      BY CommandsAssumption DEF ADDR_ID, MAX_PARMID
    <3> QED
      BY <3>1, Entry DEF NODEID, Parms
  <2> QED
    BY <2>2, <2>3, <2>4
<1> QED
  BY <1>1, Invariance, PTL DEF Spec, AcknowledgedIsStored

\* The configuration under these commands is what NvParms promises.
THEOREM Refinement == Spec => ImplementsNvParms
<1>1. Init => Promise!NvInit
  BY CfgInitRefines DEF Init
<1>2. IInv /\ IInv' /\ [Next]_allVars => [Promise!NvNext]_(Promise!nvVars)
  <2> SUFFICES ASSUME IInv, IInv', [Next]_allVars PROVE [Promise!NvNext]_(Promise!nvVars)
    OBVIOUS
  <2>1. CfgInv /\ CfgInv'
    BY DEF IInv
  <2>2. CASE UNCHANGED cfgVars
    BY <2>2, CfgStutterRefines
  <2>3. CASE \E b : \E r \in BOOLEAN : Commit(b, r)
    BY <2>1, <2>3, CommitRefines DEF Promise!NvNext
  <2>4. CASE Configure
    BY <2>1, <2>4, LoadRefines, WriteByteRefines, WriteDoneRefines
       DEF Configure, Promise!NvNext
  <2>5. CASE Restart
    BY <2>5, PowerFailRefines DEF Restart, Promise!NvNext
  <2>6. Addr \/ AddrStore \/ SetParm \/ Factory =>
           UNCHANGED cfgVars \/ \E b : \E r \in BOOLEAN : Commit(b, r)
    BY DEF Addr, AddrStore, SetParm, Factory, CfgSet, CfgStore, CfgReset
  <2>7. Ping \/ GetParm \/ Reply \/ Ignore \/ BadPacket \/ GoodPacket => UNCHANGED cfgVars
    BY DEF Ping, GetParm, Reply, Ignore, BadPacket, GoodPacket
  <2> QED
    BY <2>2, <2>3, <2>4, <2>5, <2>6, <2>7 DEF Next, Execute, allVars
<1> QED
  BY <1>1, <1>2, Invariance, PTL DEF Spec, ImplementsNvParms, Promise!NvSpec
=============================================================================
