------------------------------ MODULE Settings ------------------------------
(***************************************************************************)
(* What the firmware keeps across power cycles: grbl/settings.c on top of  *)
(* grbl/eeprom.c.  Every record is written byte by byte with a checksum    *)
(* behind it; the power may go at any byte.  At power-up settings_init     *)
(* reads the settings or restores all defaults, gc_init the work offset    *)
(* and system_execute_startup the startup line.                            *)
(*                                                                         *)
(* Of the settings there is a number of two bytes (the maximum rate stands *)
(* for the floats), one of one byte, the flags for homing and soft limits, *)
(* and the byte the structure ends with; of the coordinate records G54, of *)
(* the lines $N0 ($N1 and the build info are stored the same way).  The    *)
(* machine is not in alarm, which would keep the startup line from running.*)
(***************************************************************************)
EXTENDS Integers, Sequences, SequencesExt

CONSTANTS Rates,     \* the pairs of bytes $110 may be set to
          Pulses,    \* the bytes $0 may be set to
          Lasts,     \* the last byte of $27, homing_pulloff
          Offsets,   \* the pairs of bytes G10 may store
          StoreLines \* the pairs of bytes $N0= may store

SETTINGS_VERSION == 10
HomingBit == 16                                \* bits of settings.flags
SoftLimitBit == 32
DefaultSettings == << 1, 1, 10, 0, 1 >>  \* rate, rate, pulse, flags, last
NoOffset == << 0, 0 >>
Unpowered == << >>                            \* RAM without power

ASSUME SettingsAssumption ==
  /\ \A p \in Rates \cup Offsets \cup StoreLines :
       p \in (0 .. 255) \X (0 .. 255)
  /\ Pulses \subseteq 3 .. 255 /\ Lasts \subseteq 0 .. 255

VARIABLES
  eeprom,    \* [version, global, coord, line]: records with their checksums
  pending,   \* bytes the main program has yet to write: <<record, i, byte>>
  stage,     \* "off", "init", "startup", "idle": how far the program is
  settings,  \* the copies in RAM: settings_t,
  offset,    \* gc_state.coord_system
  known      \* history: what the settings were before and after a command

settingsVars == <<eeprom, pending, stage, settings, offset, known>>

-----------------------------------------------------------------------------
(* (checksum << 1) || (checksum >> 7) is a truth value in C. *)
Rotated(c) == IF c = 0 THEN 0 ELSE 1

Checksum(bytes) == FoldLeft(LAMBDA c, x : (Rotated(c) + x) % 256, 0, bytes)

(* memcpy_from_eeprom_with_checksum *)
Cells(r) == Front(r)
Valid(r) == Checksum(Cells(r)) = Last(r)

(* memcpy_to_eeprom_with_checksum *)
Writes(rec, bytes) ==
  [i \in 1 .. Len(bytes) + 1 |->
     <<rec, i, IF i <= Len(bytes) THEN bytes[i] ELSE Checksum(bytes)>>]

WriteGlobalMutant(s) == Writes("global", s)
WriteGlobal(s) ==
  << <<"version", 1, SETTINGS_VERSION>> >> \o Writes("global", s)
WriteOffset(o) == Writes("coord", o)
WriteLine(l) == Writes("line", l)

(* The line is emptied, and what is meant to be its checksum set to 0. *)
EmptyLine == << <<"line", 1, 0>>, <<"line", 2, 0>> >>

-----------------------------------------------------------------------------
(* A new chip: every byte is erased. *)
Erased == [version |-> << 255 >>,
           global |-> [i \in 1 .. 6 |-> 255],
           coord |-> [i \in 1 .. 3 |-> 255],
           line |-> [i \in 1 .. 3 |-> 255]]

SettingsInit ==
  /\ eeprom = Erased /\ pending = << >> /\ stage = "off"
  /\ settings = Unpowered /\ offset = Unpowered
  /\ known = {DefaultSettings}

(* settings_init; settings_restore(SETTINGS_RESTORE_ALL) if it cannot read. *)
Readable == /\ eeprom.version = << SETTINGS_VERSION >>
            /\ Valid(eeprom.global)

RestoreAll ==
  WriteGlobal(DefaultSettings) \o WriteOffset(NoOffset) \o EmptyLine

PowerOn ==
  /\ stage = "off"
  /\ stage' = "init"
  /\ IF Readable
     THEN settings' = Cells(eeprom.global) /\ UNCHANGED pending
     ELSE settings' = DefaultSettings /\ pending' = RestoreAll
  /\ UNCHANGED <<eeprom, offset, known>>

Idle(place) == stage = place /\ pending = << >>

(* gc_init: settings_read_coord_data replaces an unreadable record by zero. *)
ReadOffset ==
  /\ Idle("init")
  /\ stage' = "startup"
  /\ IF Valid(eeprom.coord)
     THEN offset' = Cells(eeprom.coord) /\ UNCHANGED pending
     ELSE offset' = NoOffset /\ pending' = WriteOffset(NoOffset)
  /\ UNCHANGED <<eeprom, settings, known>>

(* system_execute_startup: settings_read_startup_line empties the line it has
   read and stores it again, if the checksum is wrong. *)
Emptied(l) == [l EXCEPT ![1] = 0]

ReadLine ==
  /\ Idle("startup")
  /\ stage' = "idle"
  /\ pending' = IF Valid(eeprom.line) THEN << >>
                ELSE WriteLine(Emptied(Cells(eeprom.line)))
  /\ UNCHANGED <<eeprom, settings, offset, known>>

(* A soft reset runs the initialisation again, but for settings_init. *)
ResetSettings ==
  /\ Idle("idle")
  /\ stage' = "init"
  /\ UNCHANGED <<eeprom, pending, settings, offset, known>>

-----------------------------------------------------------------------------
(* eeprom_put_char.  A byte that needs bits set is erased before it is
   written; one that only needs bits cleared is not. *)
Put(b) == [eeprom EXCEPT ![b[1]][b[2]] = b[3]]
Has(b, bit) == (b \div bit) % 2 = 1
Erases(old, new) ==
  \E bit \in {1, 2, 4, 8, 16, 32, 64, 128} : Has(new, bit) /\ ~Has(old, bit)

WriteByte ==
  /\ stage # "off" /\ pending # << >>
  /\ eeprom' = Put(Head(pending))
  /\ pending' = Tail(pending)
  /\ known' = IF pending' = << >> THEN {settings} ELSE known
  /\ UNCHANGED <<stage, settings, offset>>

(* The power goes, perhaps while a byte is erased or written. *)
PowerLoss ==
  /\ stage # "off"
  /\ \/ UNCHANGED eeprom
     \/ /\ pending # << >>
        /\ LET b == Head(pending)
           IN /\ Erases(eeprom[b[1]][b[2]], b[3])
              /\ eeprom' = Put([b EXCEPT ![3] = 255])
  /\ stage' = "off" /\ pending' = << >> /\ settings' = Unpowered
  /\ offset' = Unpowered
  /\ UNCHANGED known

-----------------------------------------------------------------------------
(* system_execute_line, settings_store_global_setting: the copy in RAM is
   changed and written as a whole. *)
Store(s) ==
  /\ Idle("idle")
  /\ settings' = s
  /\ pending' = WriteGlobal(s)
  /\ known' = {settings, s}
  /\ UNCHANGED <<eeprom, stage, offset>>

StoreRate == \E r \in Rates : Store([settings EXCEPT ![1] = r[1], ![2] = r[2]])
StorePulse == \E p \in Pulses : Store([settings EXCEPT ![3] = p])
StoreLast == \E b \in Lasts : Store([settings EXCEPT ![5] = b])

(* Soft limits need homing, which takes them along when it is turned off. *)
With(flags, bit) == IF Has(flags, bit) THEN flags ELSE flags + bit
Without(flags, bit) == IF Has(flags, bit) THEN flags - bit ELSE flags
HomingOff(flags) == Without(Without(flags, HomingBit), SoftLimitBit)

Enabled(bit) == Has(settings[4], bit)

StoreFlags ==
  /\ stage = "idle"
  /\ \/ /\ Enabled(HomingBit)
        /\ Store([settings EXCEPT ![4] = With(@, SoftLimitBit)])
     \/ Store([settings EXCEPT ![4] = Without(@, SoftLimitBit)])
     \/ Store([settings EXCEPT ![4] = With(@, HomingBit)])
     \/ Store([settings EXCEPT ![4] = HomingOff(@)])

(* G10 L2 P1, and $N0= with a line the parser has accepted. *)
StoreOffset ==
  /\ Idle("idle")
  /\ \E o \in Offsets : offset' = o /\ pending' = WriteOffset(o)
  /\ UNCHANGED <<eeprom, stage, settings, known>>

StoreLine ==
  /\ Idle("idle")
  /\ \E l \in StoreLines : pending' = WriteLine(l)
  /\ UNCHANGED <<eeprom, stage, settings, offset, known>>

(* $RST=$, $RST=# and $RST=*, each followed by a reset. *)
Restore ==
  /\ Idle("idle")
  /\ stage' = "init"
  /\ \/ /\ pending' \in {WriteGlobal(DefaultSettings), RestoreAll}
        /\ settings' = DefaultSettings
        /\ known' = {settings, DefaultSettings}
     \/ /\ pending' = WriteOffset(NoOffset)
        /\ UNCHANGED <<settings, known>>
  /\ UNCHANGED <<eeprom, offset>>

SettingsNext ==
  \/ PowerOn \/ ReadOffset \/ ReadLine \/ ResetSettings \/ WriteByte
  \/ PowerLoss \/ StoreRate \/ StorePulse \/ StoreLast \/ StoreFlags
  \/ StoreOffset \/ StoreLine \/ Restore

SettingsSpec == SettingsInit /\ [][SettingsNext]_settingsVars

-----------------------------------------------------------------------------
(* Whenever the firmware waits for a command, the records are complete and say
   what is in force: an acknowledged setting or offset is there after the next
   power-up, whatever commands, resets and power losses came before, and
   however the machine came up after them. *)
StoredIsInForce ==
  Idle("idle") =>
    /\ Readable /\ Cells(eeprom.global) = settings
    /\ Valid(eeprom.coord) /\ Cells(eeprom.coord) = offset
    /\ Valid(eeprom.line)

(* Soft limits, which compare with positions only homing can establish, are
   never on without it, not after a torn write either. *)
SoftLimitsNeedHoming ==
  stage # "off" /\ Enabled(SoftLimitBit) => Enabled(HomingBit)

(* What settings.md says of the settings: "if you power down, these will be
   loaded back up the next time you power up".  They come up as they were
   before or after the command that was interrupted, or as the defaults. *)
ComesUpAsStored == stage # "off" => settings \in known \cup {DefaultSettings}
=============================================================================
