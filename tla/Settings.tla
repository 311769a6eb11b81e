------------------------------ MODULE Settings ------------------------------
(***************************************************************************)
(* Settings, startup lines and build info in EEPROM (settings.c, eeprom.c, *)
(* and the $ commands of system.c that write them). A record is written    *)
(* byte by byte, its checksum last; power may fail between two bytes, and  *)
(* what is read at the next start is what the checksum lets through.       *)
(*                                                                         *)
(* The layout is that of settings.h with short records. Coordinate data    *)
(* are records of the same kind: Gcode has them, as values or Corrupt.     *)
(***************************************************************************)
EXTENDS Integers, Sequences

CONSTANTS
  LINE_BUFFER_SIZE,   \* bytes of a stored line
  StartupNumbers,     \* the n of $N<n>=
  Texts,              \* contents of the line buffer
  MaxCommands,        \* bound: commands in a behaviour
  MaxPowerLosses      \* bound

Byte == 0..255
Text == [1..LINE_BUFFER_SIZE -> Byte]

ASSUME SettingsAssumption ==
  /\ LINE_BUFFER_SIZE \in Nat \ {0, 1} /\ MaxCommands \in Nat /\ MaxPowerLosses \in Nat
  /\ StartupNumbers \subseteq Byte /\ Texts \subseteq Text

VARIABLES
  eeprom,     \* address -> byte
  settings,   \* the struct in RAM: its flags byte and two other bytes
  pending,    \* bytes the current command has still to write
  pc,         \* "boot" from power on to settings_init, then "idle"
  stored,     \* history: the text each record should hold
  torn,       \* history: records that lost power while they were written
  meant,      \* history: settings before and after the last command
  commands, losses

vars == <<eeprom, settings, pending, pc, stored, torn, meant, commands, losses>>

-----------------------------------------------------------------------------
(* Addresses.                                                              *)

N_STARTUP_LINE == 2
SettingsSize == 3
SETTINGS_VERSION == 10
EEPROM_ADDR_GLOBAL == 1
EEPROM_ADDR_STARTUP_BLOCK == EEPROM_ADDR_GLOBAL + SettingsSize + 1
EEPROM_ADDR_BUILD_INFO == EEPROM_ADDR_STARTUP_BLOCK + N_STARTUP_LINE * (LINE_BUFFER_SIZE + 1) + 1
EepromSize == EEPROM_ADDR_BUILD_INFO + LINE_BUFFER_SIZE + 1
Cells == 0..EepromSize - 1

StartupAddrShort(n) == EEPROM_ADDR_STARTUP_BLOCK + n * LINE_BUFFER_SIZE  \* mutant: no room for the checksum
StartupAddr(n) == EEPROM_ADDR_STARTUP_BLOCK + n * (LINE_BUFFER_SIZE + 1)

BuildInfo == -1
Lines == (0..N_STARTUP_LINE - 1) \cup {BuildInfo}
Records == Lines \cup StartupNumbers
LineAddr(r) == IF r = BuildInfo THEN EEPROM_ADDR_BUILD_INFO ELSE StartupAddr(r)

Bit(b) == IF b THEN 1 ELSE 0

(* The checksum as the code computes it: || where a rotation needs |.      *)
ChecksumUnbounded(bytes) ==          \* mutant: wider than a byte
  LET sum[n \in 0..Len(bytes)] == IF n = 0 THEN 0 ELSE Bit(sum[n - 1] # 0) + bytes[n]
  IN  sum[Len(bytes)]
Checksum(bytes) ==
  LET sum[n \in 0..Len(bytes)] ==
        IF n = 0 THEN 0 ELSE (Bit(sum[n - 1] # 0) + bytes[n]) % 256
  IN  sum[Len(bytes)]

(* The address register has as many bits as the memory needs.              *)
Writes(r, addr, bytes) ==
  [i \in 1..Len(bytes) |-> [record |-> r, addr |-> (addr + i - 1) % EepromSize, byte |-> bytes[i]]]

memcpy_to_eeprom_with_checksum(r, addr, bytes) ==
  Writes(r, addr, Append(bytes, Checksum(bytes)))

Bytes(addr, size) == [i \in 1..size |-> eeprom[(addr + i - 1) % EepromSize]]
Matches(addr, size) == Checksum(Bytes(addr, size)) = eeprom[(addr + size) % EepromSize]

-----------------------------------------------------------------------------
(* Global settings. The flags byte holds homing enable (1) and soft limit  *)
(* enable (2).                                                             *)

Defaults == <<1, 1, 0>>
Global == -2
Homing(s) == s[1] % 2 = 1
SoftLimits(s) == (s[1] \div 2) % 2 = 1
Flags(s, homing, soft) == [s EXCEPT ![1] = 4 * (@ \div 4) + 2 * soft + homing]

GlobalWithoutVersion(s) ==           \* mutant: the version byte is not written
  memcpy_to_eeprom_with_checksum(Global, EEPROM_ADDR_GLOBAL, s)
write_global_settings(s) ==
  Writes(Global, 0, <<SETTINGS_VERSION>>)
    \o memcpy_to_eeprom_with_checksum(Global, EEPROM_ADDR_GLOBAL, s)

Readable == eeprom[0] = SETTINGS_VERSION /\ Matches(EEPROM_ADDR_GLOBAL, SettingsSize)

(* $20, $22 and the rest; the same struct if the command is refused.       *)
RefusedSetting(p, v) == p = 20 /\ v # 0 /\ ~Homing(settings)
StoredSetting(p, v) ==
  CASE RefusedSetting(p, v) -> settings
    [] p = 20 /\ ~RefusedSetting(p, v) -> Flags(settings, Bit(Homing(settings)), v)
    [] p = 22 -> Flags(settings, v, IF v = 0 THEN 0 ELSE Bit(SoftLimits(settings)))
    [] OTHER  -> [settings EXCEPT ![p] = v]

-----------------------------------------------------------------------------
(* Commands, executed when the main program has nothing left to write.     *)

Ready == pc = "idle" /\ pending = << >>
Command == Ready /\ commands < MaxCommands /\ commands' = commands + 1
           /\ UNCHANGED <<eeprom, pc, losses>>

settings_store_global_setting(p, v) ==
  /\ Command /\ UNCHANGED <<stored, torn>>
  /\ settings' = StoredSetting(p, v) /\ meant' = {settings, settings'}
  /\ pending' = IF RefusedSetting(p, v) THEN << >> ELSE write_global_settings(StoredSetting(p, v))

StoreText(r, text) ==
  /\ pending' = memcpy_to_eeprom_with_checksum(r, LineAddr(r), text)
  /\ stored' = [stored EXCEPT ![r] = text]
  /\ torn' = torn \ {r}

settings_store_startup_line(n, text) ==
  Command /\ StoreText(n, text) /\ UNCHANGED settings /\ meant' = {settings}

settings_store_build_info(text) ==
  Command /\ StoreText(BuildInfo, text) /\ UNCHANGED settings /\ meant' = {settings}

(* Two zeros at the start of the line; the second one is meant to be the   *)
(* checksum, which is at its end.                                          *)
EraseLine(r) == Writes(r, LineAddr(r), <<0, 0>>)
EraseLines == EraseLine(0) \o EraseLine(1) \o EraseLine(BuildInfo)

Empty == [i \in 1..LINE_BUFFER_SIZE |-> 0]

RestoreAll ==
  /\ settings' = Defaults
  /\ pending' = write_global_settings(Defaults) \o EraseLines
  /\ stored' = [r \in Records |-> IF r \in Lines THEN Empty ELSE stored[r]]
  /\ torn' = torn \ Lines

RestoreCommand ==                    \* $RST=* and $RST=$, then mc_reset
  /\ Command /\ meant' = {settings, Defaults}
  /\ \/ RestoreAll
     \/ /\ settings' = Defaults /\ pending' = write_global_settings(Defaults)
        /\ UNCHANGED <<stored, torn>>

(* A line that does not match its checksum is reported and replaced by an  *)
(* empty one, the rest of the buffer as it was read.                       *)
settings_read_line(r) ==
  /\ Ready /\ ~Matches(LineAddr(r), LINE_BUFFER_SIZE)
  /\ LET text == [Bytes(LineAddr(r), LINE_BUFFER_SIZE) EXCEPT ![1] = 0]
     IN  /\ pending' = memcpy_to_eeprom_with_checksum(r, LineAddr(r), text)
         /\ stored' = IF r \in torn THEN [stored EXCEPT ![r] = text] ELSE stored
         /\ torn' = torn \ {r}
  /\ UNCHANGED <<eeprom, settings, pc, meant, commands, losses>>

(* A cell is erased to 255, its zero bits programmed, or both; only what   *)
(* the new value needs is done.                                            *)
Weights == {1, 2, 4, 8, 16, 32, 64, 128}
IsSet(byte, w) == (byte \div w) % 2 = 1
MustErase(old, new) == \E w \in Weights : IsSet(new, w) /\ ~IsSet(old, w)
BothSet(old, new) ==
  LET bit(w) == IF IsSet(old, w) /\ IsSet(new, w) THEN w ELSE 0
  IN  bit(1) + bit(2) + bit(4) + bit(8) + bit(16) + bit(32) + bit(64) + bit(128)
Programmed(old, new) ==
  CASE MustErase(old, new) /\ new # 255 -> new
    [] MustErase(old, new) /\ new = 255 -> 255
    [] OTHER -> BothSet(old, new)

eeprom_put_char ==
  /\ pending # << >>
  /\ LET w == Head(pending)
     IN  eeprom' = [eeprom EXCEPT ![w.addr] = Programmed(@, w.byte)]
  /\ pending' = Tail(pending)
  /\ UNCHANGED <<settings, pc, stored, torn, meant, commands, losses>>

(* Power fails between two writes, or in one, between erasing the cell and *)
(* programming it.                                                         *)
PowerLoss ==
  /\ losses < MaxPowerLosses /\ losses' = losses + 1
  /\ torn' = torn \cup {pending[i].record : i \in DOMAIN pending}
  /\ UNCHANGED meant
  /\ pending' = << >> /\ pc' = "boot"
  /\ settings' = <<0, 0, 0>>
  /\ \/ UNCHANGED eeprom
     \/ /\ pending # << >> /\ MustErase(eeprom[Head(pending).addr], Head(pending).byte)
        /\ eeprom' = [eeprom EXCEPT ![Head(pending).addr] = 255]
  /\ UNCHANGED <<stored, commands>>

settings_init ==
  /\ pc = "boot" /\ pc' = "idle"
  /\ IF Readable
     THEN /\ settings' = Bytes(EEPROM_ADDR_GLOBAL, SettingsSize)
          /\ UNCHANGED <<pending, stored, torn>>
     ELSE RestoreAll
  /\ UNCHANGED <<eeprom, meant, commands, losses>>

(* A chip that was never written, or one in use.                           *)
InUse ==
  [a \in Cells |->
     CASE a = 0 -> SETTINGS_VERSION
       [] a \in 1..SettingsSize -> Defaults[a]
       [] a = EEPROM_ADDR_GLOBAL + SettingsSize -> Checksum(Defaults)
       [] OTHER -> 0]                \* empty lines

Init ==
  /\ eeprom \in {[a \in Cells |-> 255], InUse}
  /\ settings = <<0, 0, 0>> /\ pending = << >> /\ pc = "boot"
  /\ stored = [r \in Records |-> Empty] /\ torn = {} /\ meant = {Defaults}
  /\ commands = 0 /\ losses = 0

Next ==
  \/ \E v \in 0..1, p \in {20, 22, 2, 3} : settings_store_global_setting(p, v)
  \/ \E n \in StartupNumbers, t \in Texts : settings_store_startup_line(n, t)
  \/ \E t \in Texts : settings_store_build_info(t)
  \/ RestoreCommand
  \/ \E r \in Lines : settings_read_line(r)
  \/ eeprom_put_char \/ PowerLoss \/ settings_init

Spec == Init /\ [][Next]_vars

-----------------------------------------------------------------------------
(* Types: every cell of the memory holds a byte, and every write puts a    *)
(* byte into a cell.                                                       *)
WriteType == [record : Records \cup {Global}, addr : Cells, byte : Byte]
TypeOK ==
  /\ eeprom \in [Cells -> Byte]
  /\ settings \in [1..SettingsSize -> Byte]
  /\ pc \in {"boot", "idle"} /\ (pending # << >> => pc = "idle")
  /\ pending \in Seq(WriteType)
  /\ stored \in [Records -> Text]
  /\ torn \subseteq Records \cup {Global}

(* With nothing left to write, a start would find the settings in force,   *)
(* whatever was stored, refused, restored or lost with the power before.   *)
SettingsMatchEeprom ==
  Ready => Readable /\ Bytes(EEPROM_ADDR_GLOBAL, SettingsSize) = settings

(* A line reads as it was last stored or erased, unless power failed while *)
(* that very line was written: no other write, restore or loss touches it. *)
ReadText(r) ==
  LET text == Bytes(LineAddr(r), LINE_BUFFER_SIZE)
  IN  IF ~Matches(LineAddr(r), LINE_BUFFER_SIZE) \/ text[1] = 0 THEN Empty ELSE text
LinesAsStored ==
  Ready => \A r \in Lines \ torn :
             ReadText(r) = IF stored[r][1] = 0 THEN Empty ELSE stored[r]

(* "Read settings-record and check checksum" (settings.c:181): settings    *)
(* half written when power failed are not taken for a record.              *)
SettingsWhole == Ready => settings \in meant \cup {Defaults}
=============================================================================
