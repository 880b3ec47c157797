------------------------------ MODULE Console ------------------------------
(***************************************************************************)
(* The commands that start with `$`: system_execute_line of grbl/system.c, *)
(* the listing `$$` prints (grbl/report.c, grbl/print.c), and how a line   *)
(* of it is read and stored again (read_float of grbl/nuts_bolts.c,        *)
(* settings_store_global_setting).  A front end keeps such a listing, and  *)
(* may send it back, line by line, whatever happened in between.           *)
(*                                                                         *)
(* The text of a number is <<n, d>>, n with a decimal point before the     *)
(* last d digits; a value in RAM is a whole number of 10^-Places.  That a  *)
(* float has 24 bits is left out, as is a value the `long` in printFloat   *)
(* cannot hold.  The EEPROM is the matter of module Settings.              *)
(***************************************************************************)
EXTENDS Integers, Sequences, FiniteSets

CONSTANT Typed       \* the lines $x=v typed by hand: <<text, text>>

Places == 4
MAX_INT_DIGITS == 8
N_DECIMAL_SETTINGVALUE == 3
N_DECIMAL_RPMVALUE == 0

ByteSettings == {0, 1, 2, 3, 10, 23, 26}
FlagSettings == {4, 5, 6, 13, 20, 21, 22, 32}
FloatSettings == {11, 12, 24, 25, 27}
RpmSettings == {30, 31}
StepsPerMm == 100 .. 102
MaxRate == 110 .. 112
Acceleration == 120 .. 122
MaxTravel == 130 .. 132
AxisSettings == StepsPerMm \cup MaxRate \cup Acceleration \cup MaxTravel
Numbers == ByteSettings \cup FlagSettings \cup FloatSettings
             \cup RpmSettings \cup AxisSettings

Texts == Nat \X (0 .. Places)

ASSUME ConsoleAssumption == Typed \subseteq Texts \X Texts

VARIABLES
  sysState,  \* sys.state, of which only a reset leaves "SLEEP"
  values,    \* settings, by number
  copy,      \* the listing the front end keeps, << >> before it has one
  sent       \* how many of its lines went back, one after the other

consoleVars == <<sysState, values, copy, sent>>

-----------------------------------------------------------------------------
TenTo(k) ==
  <<1, 10, 100, 1000, 10000, 100000, 1000000, 10000000, 100000000,
    1000000000>>[k + 1]

(* printFloat and print_uint8_base10. *)
PrintFloat(v, d) ==
  LET unit == TenTo(Places - d) IN << (v + unit \div 2) \div unit, d >>

(* read_float: the first eight digits count, the others only shift them. *)
DigitCount(t) ==
  CHOOSE k \in t[2] + 1 .. 10 :
    (k = 10 \/ t[1] < TenTo(k)) /\ (k = t[2] + 1 \/ t[1] >= TenTo(k - 1))

Excess(t) ==
  IF DigitCount(t) > MAX_INT_DIGITS THEN DigitCount(t) - MAX_INT_DIGITS ELSE 0

ReadFloat(t) ==
  LET cut == TenTo(Excess(t))
  IN (t[1] \div cut) * cut * TenTo(Places - t[2])

One == TenTo(Places)
IntValue(v) == (v \div One) % 256      \* uint8_t int_value = trunc(value)

-----------------------------------------------------------------------------
(* settings_restore(SETTINGS_RESTORE_DEFAULTS) with DEFAULTS_GENERIC. *)
Default ==
  [n \in Numbers |->
     CASE n \in StepsPerMm -> 250 * One
       [] n \in MaxRate -> 500 * One
       [] n \in Acceleration -> 10 * 3600 * One
       [] n \in MaxTravel -> -200 * One
       [] n = 0 -> 10
       [] n = 1 -> 25
       [] n = 10 -> 1
       [] n = 11 -> 100
       [] n = 12 -> 20
       [] n = 24 -> 25 * One
       [] n = 25 -> 500 * One
       [] n = 26 -> 250
       [] n = 27 -> One
       [] n = 30 -> 1000 * One
       [] OTHER -> 0]

(* report_grbl_settings: what `$$` prints, in the order of the numbers. *)
Listed(n, v) ==
  CASE n \in ByteSettings \cup FlagSettings -> <<v, 0>>
    [] n \in RpmSettings -> PrintFloat(v, N_DECIMAL_RPMVALUE)
    [] n \in Acceleration -> PrintFloat(v \div 3600, N_DECIMAL_SETTINGVALUE)
    [] n \in MaxTravel -> PrintFloat(-v, N_DECIMAL_SETTINGVALUE)
    [] OTHER -> PrintFloat(v, N_DECIMAL_SETTINGVALUE)

Listing == [n \in Numbers |-> Listed(n, values[n])]
Length == Cardinality(Numbers)
Order ==
  [i \in 1 .. Length |->
     CHOOSE n \in Numbers : Cardinality({m \in Numbers : m < n}) = i - 1]

(* settings_store_global_setting: what is refused, what is put in its place,
   and that soft limits go with homing. *)
Refused(n, v) ==
  \/ n \notin Numbers
  \/ n = 0 /\ IntValue(v) < 3
  \/ n = 20 /\ IntValue(v) # 0 /\ values[22] = 0

Converted(n, v) ==
  CASE n \in ByteSettings -> IntValue(v)
    [] n \in FlagSettings -> IF IntValue(v) # 0 THEN 1 ELSE 0
    [] n \in Acceleration -> v * 3600
    [] n \in MaxTravel -> -v
    [] OTHER -> v

StoredMutant(n, v) == [values EXCEPT ![n] = Converted(n, v)]
Stored(n, v) ==
  [m \in Numbers |-> IF m = n THEN Converted(n, v)
                     ELSE IF m = 20 /\ n = 22 /\ IntValue(v) = 0 THEN 0
                     ELSE values[m]]

-----------------------------------------------------------------------------
ConsoleInit ==
  /\ sysState = "IDLE" /\ values = Default /\ copy = << >> /\ sent = 0

(* The default case: settings, like everything in the EEPROM, and homing are
   for IDLE and ALARM. *)
Resting == sysState \in {"IDLE", "ALARM"}

(* $x=v: both numbers are read, the first one is cut to a whole number. *)
StoreText(x, t) ==
  LET n == ReadFloat(x) \div One
  IN values' = IF ReadFloat(x) > 255 * One \/ Refused(n, ReadFloat(t))
               THEN values ELSE Stored(n, ReadFloat(t))

TypeSetting ==
  /\ Resting
  /\ \E x \in Typed : StoreText(x[1], x[2])
  /\ sent' = 0
  /\ UNCHANGED <<sysState, copy>>

(* $RST=$ and $RST=*; the reset that follows leaves an alarm on. *)
RestoreDefaults ==
  /\ Resting
  /\ values' = Default /\ sent' = 0
  /\ UNCHANGED <<sysState, copy>>

(* $$: not during a cycle, where printing takes too long. *)
ViewSettings ==
  /\ sysState \notin {"CYCLE", "HOLD", "SLEEP"}
  /\ copy' = Listing /\ sent' = 0
  /\ UNCHANGED <<sysState, values>>

(* The front end sends the listing back, twice over, and goes on after an
   error; it waits for the machine to rest. *)
SendBack ==
  /\ Resting /\ copy # << >> /\ sent < 2 * Length
  /\ LET n == Order[(sent % Length) + 1]
     IN StoreText(<<n, 0>>, copy[n])
  /\ sent' = sent + 1
  /\ UNCHANGED <<sysState, copy>>

(* What the other commands and the motions make of sys.state: $X, $H, $C,
   $SLP, $J=, a line of G-code, the end of what it started, and a reset, which
   locks up if the position got lost or the machine slept. *)
Becomes(from, to) == sysState = from /\ sysState' = to

AlarmOff == Becomes("ALARM", "IDLE")
Home == /\ Resting /\ values[22] = 1
        /\ sysState' \in {"IDLE", "ALARM"}
CheckOn == Becomes("IDLE", "CHECK_MODE")
CheckOff == Becomes("CHECK_MODE", "IDLE")
GoToSleep == Resting /\ sysState' = "SLEEP"
Jog == sysState \in {"IDLE", "JOG"} /\ sysState' = "JOG"
Move == Becomes("IDLE", "CYCLE") \/ Becomes("CYCLE", "HOLD")
        \/ Becomes("HOLD", "CYCLE") \/ Becomes("HOLD", "IDLE")
Stops == sysState \in {"CYCLE", "JOG"} /\ sysState' = "IDLE"
Aborted == /\ sysState \in {"CYCLE", "JOG", "HOLD", "SLEEP"}
           /\ sysState' = "ALARM"

ModeChanges ==
  /\ \/ AlarmOff \/ Home \/ CheckOn \/ CheckOff \/ GoToSleep
     \/ Jog \/ Move \/ Stops \/ Aborted
  /\ UNCHANGED <<values, copy, sent>>

ConsoleNext == \/ TypeSetting \/ RestoreDefaults \/ ViewSettings \/ SendBack
               \/ ModeChanges

ConsoleSpec == ConsoleInit /\ [][ConsoleNext]_consoleVars

-----------------------------------------------------------------------------
(* A listing kept by the front end brings the settings back, whatever was typed
   or restored since, unless a number of it has more digits than read_float
   takes.  One pass is not enough for $20: soft limits are refused while homing
   is off, and the listing turns it on only two lines later, with $22. *)
Short(t) == Excess(t) = 0

BackupRestores ==
  /\ sent = Length =>
       \A n \in Numbers \ {20} : Short(copy[n]) => Listing[n] = copy[n]
  /\ sent = 2 * Length =>
       \A n \in Numbers : Short(copy[n]) => Listing[n] = copy[n]
=============================================================================
