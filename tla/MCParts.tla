-------------------------------- MODULE MCParts --------------------------------
(***************************************************************************)
(* The parts of the two boards that share no state with another, in one    *)
(* run: the SD card's driver (SdCard), the files on it (CardFiles) and the *)
(* configuration in one of them (ConfigFile); the real-time clock          *)
(* (RtcClock) and the time from the network (Sntp); the profile that       *)
(* SmartConfig makes; and the registers, EEPROM and radio settings of a    *)
(* panStamp (SwapNode).  Each runs on its own: Init chooses which, and the *)
(* variables of the others stay as they are.                               *)
(***************************************************************************)
EXTENDS Integers, Sequences, FiniteSets

CONSTANTS NONE,
          Names, ClusterCount, BlockSize, DirEntries, Modes,
          MaxWrite, MaxCalls, MaxFaults, MaxTransfers,               \* of CardFiles
          Keys, Lines, BufferLen, MaxLines,                          \* of ConfigFile
          ByteSize, Depth, Expiration, Setups, FirstAddrs,
          Messages, MaxMessages,                                     \* of SwapNode
          Dates, SetHours, Zones, MaxSettings, MaxHours,             \* of RtcClock
          Seconds, Second, Lap, Ages, Bases, Delays, Timeout,
          SampleDays, SampleClocks, MaxUpdates, MaxTries,            \* of Sntp
          Blocks, Values, Wrap, ReadTimeout, WriteTimeout, EraseTimeout,
          InitTimeout, MaxSdCalls, MaxSdFaults,                      \* of SdCard
          Lengths, FirstBytes, SecurityTypes, AesKey                 \* of SmartConfig

\* SwapNode: a byte tells the addresses 0, 0xFF and that of the detector apart.  A packet's
\* fields are bytes, and a command's value is one of its register.
ASSUME ByteAssumption == ByteSize \in Nat \ (0 .. 2)
ASSUME TableAssumption == Depth \in Nat /\ Expiration \in Nat
ASSUME SetupAssumption ==
  /\ Setups \subseteq [play : BOOLEAN, crypt : BOOLEAN, hops : Nat, check : BOOLEAN,
                       crystal : BOOLEAN, second : BOOLEAN]
  /\ FirstAddrs \subseteq 0 .. ByteSize - 1
ASSUME MessagesAssumption ==
  /\ Messages \subseteq [fn : {"STA", "QRY", "CMD"}, dest : 0 .. ByteSize - 1,
                         reg : 0 .. ByteSize - 1, id : STRING, nonce : 0 .. ByteSize - 1,
                         hop : Nat, enc : BOOLEAN, fits : BOOLEAN, value : Nat]
  /\ \A m \in Messages :
       /\ m.id \in {"DEVADDRESS", "FREQCHANNEL"} => m.value < ByteSize
       /\ m.id \in {"SYSSTATE", "NETWORKID"} => m.value < 4
       /\ m.id = "TXINTERVAL" => m.value < ByteSize * ByteSize
ASSUME HeardAssumption == MaxMessages \in Nat

\* ConfigFile: no key is looked for twice, and none is the name of a section, a
\* comment, an empty line or a place of the program.
ASSUME KeysAssumption ==
  /\ Keys \in Seq(STRING) /\ Keys # <<>>
  /\ \A i, j \in DOMAIN Keys : Keys[i] = Keys[j] => i = j
  /\ \A i \in DOMAIN Keys :
       Keys[i] \notin {"WIFI", "other", "comment", "", "validate", "loaded", "failed"}
ASSUME LinesAssumption == /\ Lines \subseteq STRING \X Nat
                          /\ BufferLen \in Nat /\ MaxLines \in Nat

\* SdCard: blocks are numbered, erasing waits longest, and no wait is as long as
\* the time between two wraps.
ASSUME BlocksAssumption ==
  /\ Blocks \subseteq Nat /\ \A a, b \in Blocks : a .. b \subseteq Blocks
  /\ BlockSize \in Nat \ {0}
ASSUME TimeoutsAssumption ==
  /\ Wrap \in Nat /\ EraseTimeout \in Nat /\ EraseTimeout < Wrap - 1
  /\ ReadTimeout \in 0 .. EraseTimeout /\ WriteTimeout \in 1 .. EraseTimeout
  /\ InitTimeout \in 0 .. EraseTimeout

VARIABLES level,
  card, cache, start, files, content, last, trusted, torn, calls, faults,
  file, nl, open, stage, getValueState, readLinePosition, adrift, value, reads, misread,
  setup, pc, job, board, loops, table, told, doubt, taken, twice, moved, log, again, heard,
  reg, feb, meztime, call, read, shown, slipped, result, settings, hours,
  reference, timeIsSet, up, base, at, pool, sent, late, exchange, date, updates, tries,
  sd, wide, inited, multi, lastCall, hung, sdCalls, sdFaults,
  step, keyFile, profileFile, key, profileArray, given, profile, outcome

-------------------------------------------------------------------------------
\* ConfigFile: two of the three keys, and of every kind of line one that fits
\* the buffer; of comments also one that does not.
MCKeys  == <<"ssid", "sec">>
MCLines == {<<"WIFI", 3>>, <<"other", 3>>, <<"ssid", 3>>, <<"sec", 3>>,
            <<"comment", 3>>, <<"comment", 4>>}

\* SwapNode: a plain node, one with anti-playback, the detector, and repeaters
\* without and with encryption.
Plain  == [play |-> FALSE, crypt |-> FALSE, hops |-> 0, check |-> TRUE, crystal |-> FALSE,
           second |-> FALSE]
MCSetups ==
  {Plain, [Plain EXCEPT !.play = TRUE], [Plain EXCEPT !.second = TRUE],
   [Plain EXCEPT !.hops = 2, !.check = FALSE],
   [Plain EXCEPT !.crypt = TRUE, !.hops = 2, !.check = FALSE, !.crystal = TRUE]}

\* Commands for every register that has a setter and for one that has none, and
\* of the packets that a node does not obey one of each kind.
Packet == [fn |-> "CMD", dest |-> 2, reg |-> 2, id |-> "PRODUCTCODE", nonce |-> 0, hop |-> 0,
           enc |-> FALSE, fits |-> TRUE, value |-> 0]
Query  == [Packet EXCEPT !.fn = "QRY"]
Status == [Packet EXCEPT !.fn = "STA", !.dest = 0, !.reg = 1]
Set(id, v) == [Packet EXCEPT !.id = id, !.value = v]
To(m, a)   == [m EXCEPT !.dest = a, !.reg = a]
MCMessages ==
  {Set("SYSSTATE", 0), Set("SYSSTATE", 3), Set("FREQCHANNEL", 0),
   Set("FREQCHANNEL", 1), Set("NETWORKID", 3), Set("NETWORKID", 2),
   Set("DEVADDRESS", 1), Set("DEVADDRESS", 0), To(Set("DEVADDRESS", 2), 1), Set("TXINTERVAL", 6),
   Set("TXINTERVAL", 9), Packet, [Packet EXCEPT !.nonce = 1], To(Packet, 1),
   [Set("DEVADDRESS", 1) EXCEPT !.enc = TRUE], [Packet EXCEPT !.id = "none"],
   [Packet EXCEPT !.fits = FALSE], [Packet EXCEPT !.reg = 1],
   Query, To(Query, 0), [Query EXCEPT !.id = "TXINTERVAL"],
   Status, [Status EXCEPT !.enc = TRUE], [Status EXCEPT !.hop = 2]}

\* RtcClock: ends of February and of years, leap and not, and the days on which
\* the clocks change.  Zones: whole, half and quarter hours.
MCDates == {<<2012, 2, 28>>, <<2012, 12, 31>>, <<2013, 3, 31>>, <<2013, 4, 2>>,
            <<2010, 10, 31>>}
MCZones == {0, 1, -930, 545, 14}

\* Sntp: about the first and last days of years, and about the ends of February,
\* before and after the counter has overflowed, and some others.
FirstDay(y) == 365 * (y - 1900) + ((y - 1901) \div 4)
Around(d)   == {d, d + 58, d + 59, d + 60, d + 364, d + 365}
MCSampleDays == UNION {Around(FirstDay(y)) : y \in {1969, 1970, 1999, 2000, 2001, 2013}}
           \cup UNION {Around(FirstDay(y) - 49710) : y \in {2037, 2040, 2099, 2100, 2103}}
           \cup {0, 500, 1000, 5000, 10000, 23398}

\* SmartConfig: some key.
MCAesKey == [i \in 0 .. 15 |-> (37 * i + 11) % 256]

Card   == INSTANCE CardFiles
Config == INSTANCE ConfigFile
Node   == INSTANCE SwapNode
Clock  == INSTANCE RtcClock
Time   == INSTANCE Sntp
Driver == INSTANCE SdCard
Smart  == INSTANCE SmartConfig

\* RtcClock: what is set is a date and an hour; zones are those that unixtime() lists.
ASSUME DatesAssumption == \A d \in Dates : Clock!IsDate(d) /\ d[1] > 2000
ASSUME HoursAssumption == SetHours \subseteq 0 .. 23
ASSUME ZonesAssumption == Zones \subseteq Clock!ZoneNumbers

\* Sntp: half a second is a whole number of units, a packet that was answered was not
\* away longer than recvfrom waits, and the device does not run for half an era.
ASSUME WordsAssumption ==
  /\ Second \in Nat \ {0} /\ Second % 2 = 0
  /\ Seconds \in Nat \ {0} /\ Seconds % 2 = 0
  /\ Lap \in Nat \ {0}
ASSUME DelaysAssumption ==
  /\ Bases \subseteq Int /\ Delays \subseteq Nat /\ Ages \subseteq Nat
  /\ Timeout \in Nat /\ \A there, back \in Delays : there + back <= Timeout
  /\ MaxTries \in Nat /\ MaxUpdates \in Nat
  /\ \A age \in Ages : age + (MaxTries + MaxUpdates) * Timeout + 5 * Second < Time!Era \div 2
ASSUME SamplesAssumption ==
  /\ SampleDays \subseteq Nat /\ \A n \in SampleDays : n <= 49710
  /\ SampleClocks \subseteq Nat /\ \A n \in SampleClocks : n < Time!SECS_DAY

\* SmartConfig: a password has at most 32 bytes.  The block of which FIPS 197,
\* appendix C.1, gives the cipher comes out so.
ASSUME PasswordsAssumption ==
  /\ AesKey \in Smart!State
  /\ Lengths \subseteq 0 .. 32 /\ FirstBytes \subseteq Smart!Byte
ASSUME StandardAssumption ==
  LET plain  == [i \in 0 .. 15 |-> 17 * i]
      cipher == <<105, 196, 224, 216, 106, 123, 4, 48, 216, 205, 183, 128, 112, 180, 197, 90>>
  IN  Smart!aes_encrypt(plain, [i \in 0 .. 15 |-> i]) = [i \in 0 .. 15 |-> cipher[i + 1]]

-------------------------------------------------------------------------------
cardVars   == <<card, cache, start, files, content, last, trusted, torn, calls, faults>>
configVars == <<file, nl, open, stage, getValueState, readLinePosition, adrift, value, reads,
                misread>>
nodeVars   == <<setup, pc, job, board, loops, table, told, doubt, taken, twice, moved, log,
                again, heard>>
clockVars  == <<reg, feb, meztime, call, read, shown, slipped, result, settings, hours>>
timeVars   == <<reference, timeIsSet, up, base, at, pool, sent, late, exchange, date, updates,
                tries>>
driverVars == <<sd, wide, inited, multi, lastCall, hung, sdCalls, sdFaults>>
smartVars  == <<step, keyFile, profileFile, key, profileArray, given, profile, outcome>>

\* The variables of the part that runs; those of all the others stay.
Parts == {"card", "config", "node", "clock", "time", "driver", "smart"}
Rest(part) ==
  /\ level = part /\ UNCHANGED level
  /\ part # "card"   => UNCHANGED cardVars
  /\ part # "config" => UNCHANGED configVars
  /\ part # "node"   => UNCHANGED nodeVars
  /\ part # "clock"  => UNCHANGED clockVars
  /\ part # "time"   => UNCHANGED timeVars
  /\ part # "driver" => UNCHANGED driverVars
  /\ part # "smart"  => UNCHANGED smartVars

\* Parts that do not run have one initial state.
Init == /\ level \in Parts
        /\ level # "config" => file = <<<<"WIFI", 3>>>> /\ nl = 1 /\ open = FALSE
        /\ Config!Init
        /\ level # "node" => setup = Plain /\ board = Node!init(Node!NewEeprom(2))
        /\ Node!Init
        /\ level # "card" => content = [n \in Names |-> Card!Absent]
        /\ Card!Init
        /\ Clock!Init
        /\ level # "time" => base = 0
        /\ Time!Init
        /\ level # "driver" => sd = Driver!NewCard("SD1") /\ wide = FALSE
        /\ Driver!Init
        /\ Smart!Init

Next == \/ Rest("card")   /\ Card!Next
        \/ Rest("config") /\ Config!Next
        \/ Rest("node")   /\ Node!Next
        \/ Rest("clock")  /\ Clock!Next
        \/ Rest("time")   /\ Time!Next
        \/ Rest("driver") /\ Driver!Next
        \/ Rest("smart")  /\ Smart!Next

Spec == Init /\ [][Next]_<<level, cardVars, configVars, nodeVars, clockVars, timeVars, driverVars,
                           smartVars>>

-------------------------------------------------------------------------------
\* The types of the parts.
PartsTypeOK == /\ Card!TypeOK /\ Config!TypeOK /\ Node!TypeOK /\ Clock!TypeOK /\ Time!TypeOK
               /\ Driver!TypeOK /\ Smart!TypeOK

\* A read returns what the writes before it left at its position, also with
\* another file being written in between (SdFile.cpp read, write).
ReadsBackWritten == Card!ReadsBackWritten

\* An entry on the card has clusters for all its bytes, whenever the power goes,
\* unless a call that frees clusters was cut short; and once everything is
\* written no cluster is in use without an entry (SdFile.cpp, SdVolume.cpp).
VolumeIsSound == Card!EntriesBacked /\ Card!NothingLeaks

\* A call on an open file goes wrong only for the card, for want of clusters, or
\* because a whole block was written over the dirty cached one (SdFile.cpp write).
LossHasReason == Card!LossHasReason

\* The sketch takes over what is in the configuration and nothing else, but for a
\* value in whose search the card failed, and looks for it in bounded time but for
\* one kind of file (Receiver.ino, IniFile.cpp:245-287).
LoadsWhatIsThere == Config!LoadsWhatIsThere /\ Config!SearchEnds

\* What a node confirms of the registers it stores survives any restart, unless
\* power is lost before it is in EEPROM (register.cpp:71-89).
ConfirmedIsKept == Node!ConfirmedIsKept

\* The chip follows the driver's copies, but for an address set by a command and
\* the address of a new board (cc1101.cpp:205-226, commonregs.h:173-182).
ChipFollowsCopies == Node!ChipFollowsCopies

\* With anti-playback no command is carried out twice, and a packet in clear is
\* repeated once (Panstamp.cpp:138-148, repeater.cpp:56-104).
NothingTwice == Node!CommandsTakenOnce /\ Node!RepeatedOnce

\* The real-time clock shows the time that was set and what passed since, but when
\* midnight comes within a setting, and tells it and summer time right, with the
\* exceptions that RtcClock names (rtc_clock.cpp).  A synchronisation over the
\* network sets the other clock right to within four and a half seconds, or half an era wrong
\* when its two differences have different signs, and half a lap behind that when
\* millis() started again meanwhile; and a moment of it is turned into
\* its date (sntp.cpp).
ClocksTell == /\ Clock!KeepsTime /\ Clock!UnixTimeTells /\ Clock!SummerTells
              /\ Time!SyncTells /\ Time!DateTells

\* A call of the card's driver that returns true has done what it stands for, but
\* on a card left deselected, and none hangs but at the wrap of the time (Sd2Card.cpp).
DriverTells == Driver!TrueMeansDone /\ Driver!HangsAtWrap

\* The profile that SmartConfig stores is what the telephone sent (wlan.cpp:1148-1253),
\* encrypted and decrypted by AES (security.cpp).
ProfileIsWhatWasSent == Smart!ProfileIsWhatWasSent
===============================================================================
