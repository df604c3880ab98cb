# Verification of the smoke detector network

The repository holds two Arduino sketches and the libraries they use. A
*detector* board (`SmokeDetector/SmokeDetector.ino`) listens to the head unit of
a smoke detector on a serial line and reports alarms and measured values by
radio. A *receiver* board (`Receiver/Receiver.ino`) gets the packets from a
panStamp modem on a serial line and posts them to a web server. In between are
the panStamp library (`libraries/Panstamp`: the CC1101 radio, the SWAP protocol)
and the CC3000 WiFi library (`libraries/WiFi`).

This directory holds TLA+ modules of the parts below, TLC configurations that
check them on small instances, and TLAPS proofs for all instances.

    tlc -workers 2 -config SwapRadio.cfg RadioNode
    tlapm RadioNodeProofs.tla

## 1. Inventory

| part | state | operations | meets | what makes it correct |
|---|---|---|---|---|
| CC1101 chip and driver (`cc1101.cpp`) | MARCSTATE, FIFOs, GDO0; `rfState`; copies of channel, address, sync word | `sendData`, `receiveData`, `init`, power-down, `wakeUp`, setters | main loop and interrupt routine call it | the two contexts never use the chip at once; results are true; the chip listens at rest, with the settings the copies say; calls return |
| `isrGDO0event` (`Panstamp.cpp`) | static `ccPacket`, interrupt mask and flag | read a packet, check it, obey, reply, repeat | driver, SWAP registers, repeater | each packet handled once, in order; always returns |
| panStamp core (`Panstamp.cpp`) | `systemState`, nonce, security | `init`, `reset`, `goToSleep`, `enableRfRx` | driver | `RXON` means listening; asleep means radio off |
| SWAP packets, registers (`swpacket`, `register`, `commonregs.h`) | register values, EEPROM | command, query, status; a setter per register | interrupt routine, driver, reset | a confirmed value survives; a command is not replayed |
| Repeater | table of transactions | `packetHandler`, `saveTransaction` | interrupt routine | a packet is repeated once, within its hops |
| detector sketch | `alarmActive`, `receivedInfo`, the data message | `loop`, `ParseReceivedInfo`, `GetData` | head unit (UART), driver | alarms and ends take turns; values come from the answers asked for; the flag agrees with the head |
| receiver sketch | `ReceivedData`, the HTTP exchange | `setup`, `loop`, `Http...` | modem (UART), CC3000, SD, clock | posts are whole packets, in order, none lost silently; the loop comes back |
| PanstampHelper | none beyond a call | AT commands with a timeout | modem | after the dialogue the modem is tuned and prints packets |
| CC3000 transport (`ccspi`) | `sSpiInformation`, one receive buffer | write, read, pause, resume | SPI interrupt, event handler | no lost edge, no packet over another |
| CC3000 host driver (`hci`, `evnt_handler`, `socket`, `wlan`, `netapp`, `nvmem`) | awaited opcode, free buffers, socket states | some fifty calls, each a command and an answer; unsolicited events | transport, chip, sketch | every call gets its own answer; buffers are neither lost nor invented |
| Adafruit class, client, server | `cc3000Bitset`, `closed_sockets`, `_socket` and buffer of each client, `_listenSocket` | join and leave, connect, read, close, accept | driver, its events in the interrupt | sockets have an owner; a flag speaks of its own connection; methods return |
| CC3000 network time, SmartConfig and AES (`sntp`, `wlan`, `security`) | the reference timestamp; key and profile array | synchronise, date; decrypt and add a profile | sockets, NVMEM | the clock is set right; the profile is what was sent |
| IniFile | position in the file, state of `getValue` | `findSection`, `findKey`, `getValue` | file, receiver sketch | finds what is there, terminates |
| SD and FAT library | the cached block and its dirty flag; FAT, directory, clusters; position and size of an open file | open, read, write, seek, sync, truncate, remove | card driver, IniFile | reads return what was written; entries have their clusters after a power loss; failures have a reason |
| SD card driver (`Sd2Card`) | partial read, multiple write, chip select | init, block read and write, erase | card, volume | true means done; waits end |
| Real-time clock | date and time registers, zone, `meztime` | set, get, `unixtime`, `summertime` | sketch | shows what was set and what passed |
| Watchdog, sleep timer, calibration, SPI | none, or a write-once register | register accesses | sketch, driver | - |

Hard behaviour: the interrupt between any two strobes of the driver; a chip that
changes state by itself; an edge that arrives while the interrupt is masked;
frames and answers on one serial line; timeouts that cut a frame; buffers that
overrun while a delay or a post blocks the loop; late answers; failures whose
result nobody looks at; variables that the SPI interrupt and the main program both
change; descriptors and packet numbers that are used again; power losses between two
writes; two registers read one after the other. `PROJECT.json` lists them under `hazards`, each at its
line.

## 2. Modules

### LossyChannel
The abstract specification of a receiver of packets: what comes through was
offered, in order, at most once. `RadioNode` is checked to implement it.

### RadioNode
One board: the chip, the driver, and its two callers. Every strobe, register
access and assignment to shared state is one action, named after the code step
(`DeclareTx`, `EnterRx`, `WaitRx`, ... of `sendData`; `ReadLevel`, `ReadPacket`,
`RxToIdle`, ... of `receiveData`). `pc["main"]` and `pc["isr"]` say where each
context is. `Runs` is the interrupt logic of the processor: the interrupt
routine is not interrupted, and an enabled pending interrupt goes first. The
chip (`RxEnd`, `TxEnd`, `Calibrated`, ...) and the air move in between. The chip
is external: the actions follow from how `cc1101.h` configures it (MCSM1 = 0x20,
MCSM0 = 0x18, IOCFG0 = 0x06).

With `SketchDriver = IsrDriver` this is a SWAP mote; with two objects it is the
detector, whose sketch declares a `CC1101` of its own.

Timing assumptions, each a named guard: `PacketOutlastsPoll`,
`PacketOutlastsAssignment`, `PreambleOutlastsCheck` and `PollSeesHigh`. All say
that something on the air takes milliseconds and the code step it is compared
with takes microseconds. Packets are numbers; what a packet says (address, CRC,
whether it is answered) is a nondeterministic choice in `RxFiltered`, `Discard`
and `Dispatch`.

### Detector
The sketch between the head unit's line and the radio. A frame is two tokens, its
text and ETX, so a timeout can strike between them and the UART can drop one of
them. `Top` ... `SendState` are the first half of `loop()`, `CycleTest` ...
`SendReport` the second, with `GetData` as `Ask`, `ReadAnswer` and
`AnswerTimeout`. Time is a choice: a timeout may strike at any moment of its wait.
A message is handed to the radio by `SendState` and `SendReport`, which stand for a
`sendData` that returned; `Park` is one that does not, since the chip of this very board
may rest in IDLE in front of its first loop (run `DetectorHang`, section 4). `fields`
records for each value of the data message the frame its bytes came from, `sent` the messages handed to the radio. A frame code is a model value; the
acknowledgements the sketch sends are left out, since the head does not wait for
them.

### Receiver
`setup()` as a chain of stages that succeed or fail, the HTTP exchange for the
time, the AT dialogue, then `loop()`. The modem prints packets in data mode and
obeys commands in command mode; it may be late with every answer and may miss a
command. The line is one of characters: each is received, dropped by a full buffer
or read by itself, and the helper's timeout may fall between any two of them, so
that a line may be cut anywhere. A character is the packet or answer it belongs to,
what it says and its place there; the lengths of the two kinds of line and the texts of
the answers are constants, and `loop()` posts what has one of the two lengths, as in
the code. The HTTP exchange is `Resolved` / `Unresolved` / `DnsDelay`,
`Request` / `NoConnection`, `Available` / `Received` / `ReadTimeout` /
`ServerClosed`. Each helper call is the same loop with another text to look for,
so `Ask`, `ReadAnswer` and `AnswerTimeout` stand for all of them.

### HciCalls, RemoteCall, Cc3000
`HciCalls` lists the functions of the CC3000 driver that are one command to the
chip and one awaited event: for each its opcode's event, whether data follows, and
which of them may overrun the transmit buffer. `RemoteCall` is the abstract
specification of what the driver promises: a call is carried out once and comes
back with its own answer, or is refused without having reached the chip. `Cc3000` is
the driver between the two. The main program goes through flow control
(`NoErrors`, `ReadCredit`, `SpendCredit`), `SpiAskToWrite`, `SpiCheckPin`,
`SpiWriteAnyway`, `SpiWritten`, then `SimpleLinkWaitEvent` and `hci_event_handler`
(`HandleEvent`, `HandleData`, `HandleJunk`), and `Onward` decides what comes next in
the caller. `Isr` is `SPI_IRQ` with what it handles at once, and `cc3k_int_poll`
samples the pin from the main program. `usNumberOfFreeBuffers--` is two actions,
since the interrupt writes the same variable. The chip answers what it is asked,
frees buffers, reports events and asks for patches, in a queue of `QueueCap`.
`CallsAreCarriedOut` is the refinement of `RemoteCall`. Calls are told apart by a tag
that alternates, which is enough since they do not overlap.

### CcClients, CcStation
What a sketch calls. `CcClients` has the sketch's client and those of the server, each
a socket and what is left in its buffer; a method is a chain of driver calls, each
of them one request and one answer. Answers and close events come to the host in
the order the chip sent them, the events in the interrupt routine whatever the main
program does, so that `closed_sockets` may change between any two steps. Descriptors
are used again as soon as they are closed. `recv` may fail with 0 or -1 at any time,
also for ever, and `read()` and `peek()` then ask again. `CcStation` has the methods of the class
as scripts, sequences of steps such as `Must(fn)` (a driver call whose failure makes
the method return false), `Wait(bit)` (poll a bit until a timeout) and
`Clear(bit)`, run against a link that comes and goes. The two share nothing but
the driver, so `MCNetwork` runs one or the other.

### SwapNode
One panStamp with its registers, its EEPROM and its repeater, a packet at a time.
`Received` is the constructor of a packet from the air, `isrGDO0event` dispatches
to `Command`, `Query` and `Evaluate`, `packetHandler` is the repeater's. A command
runs as a `job`: the steps that change the value, send the status, write one byte
of the EEPROM, reset. Power may go, or the watchdog strike, between any two of
them. `board` has the chip's registers and the driver's copies of them, separately.
The constants make a byte two bits wide, so that the nonce and the interval wrap.

### CardFiles, ConfigFile, SdCard
`CardFiles` is the SD and FAT library above the card: one directory, the FAT, the
mirror of it, clusters of one block, and the single block of cache that all of
them share. A call of the sketch is one action, its block transfers an operator
that any of them may fail, alone or with all that follow (the power is lost: what
is on the card stays, the rest is gone). `ConfigFile` is `IniFile` over the lines of a
file, with `getValue` in the steps its state machine makes, and what `setup()` takes
over. Its `readLine` may fail as the card does: a seek away from the beginning of the file
(`errorSeekError`), or the read, whose -1 `readLine()` takes for a size, so that
it finds no line end or one that an earlier call left in the buffer. In the second case
the line is whatever stood there and the position moves on by as much; from then on the
search is `adrift` and any line may come. (`buffer[bytesRead]` is not written then:
`File::available()` counts from where the read has failed and is not 0.) `SdCard` is the driver below: commands that the card hears or not, partial
reads, multiple writes, erasing, and the 16-bit waits. What `init()` finds out of a card is
its type, which a CMD8 that is not answered makes SD1 (the 0xFF on the bus has the bit of
an illegal command). From the SD specification comes that an SDHC card does
not get ready for a host that does not say it knows such cards.

### RtcClock, Sntp
The two clocks. `RtcClock` has the registers of the chip going on while a method
reads or sets them one after the other; the arithmetic of days, UNIX time and summer
time is compared with a calendar defined independently. `Sntp` has the exchange with
a server, which may answer late or not at all, and timestamps whose words have `Seconds`
and `Second` values (2^32 each in the code), so that small ones wrap. `up` is the time since
the start and `millis()` shows it modulo `Lap`, 49.7 days in the code, which may pass while
a packet is away; `Ages` says how long the device has run already.

### Aes, SmartConfig
`Aes` is the cipher of `security.cpp` by its tables, rounds and key schedule, for the
key `AesKey`; the test vector of FIPS 197 (C.1) is an assumption that TLC evaluates.
`SmartConfig` reads the two NVMEM files, decrypts and adds the profile, step by
step, for passwords of chosen lengths.

### MC modules
`MCDetector`, `MCReceiver` and `MCCc3000` give constants for TLC. `MCCc3000` also
states what the numbers of every call in `HciCalls` have to satisfy, as assumptions that
TLC evaluates: no answer is longer than the variable it is stored in, none that is
awaited counts as unsolicited, and a packet declares what was written, but for a
`select` without a timeout and `netapp_timeout_values` (16 bytes of 20). `MCNetwork` and
`MCParts` put specifications side by side that share no state: `level` says which
one runs, and the variables of the others stay as they are, so a run explores each
of them as it would alone.

## 3. Runs

| run | instance | what it shows |
|---|---|---|
| `SwapRadio` | one driver object, 2 attempts in both contexts, 2 FIFO slots, 3 packets on the air, 2 messages, 1 sleep | mutual exclusion on the radio, truth of results, at most one transmission per message, refinement of `LossyChannel`, never deaf after a send, and that both contexts get out of the driver unless `sendData` parks |
| `DetectorRadio` | two driver objects, FIFO of one packet | `sendData` comes out of the RX overflow that nobody else clears, or parks (the exclusion with two objects is a theorem) |
| `DetectorSafe` | 3 frames of the head, one data cycle, 2 values, UART of 3 tokens | alarms alternate; the flag follows the head unless a frame was lost |
| `DetectorCycles` | 2 data cycles, 1 frame | each frame used once and in order; an undisturbed cycle is right; the loop comes back unless it parks in `sendData` |
| `ReceiverLine` | 4 commands, 2 packets, lines of 4 and 5 characters, buffer of 5, answers of 2 and 3, 1 character of response | whole posts in order but for the end of a cut line, nothing lost silently, tuned unless a command was missed, the loop comes back unless the name server or the socket keeps it |
| `CcDriver` | 1 socket, 2 buffers of the chip, 2 events beside answers and credits, queue of 2 | each call carried out once and answered with its own answer (refinement of `RemoteCall`); buffers conserved but for the lost update that the property names; the interrupt masked only while a packet waits to be handled; calls return unless one of the named waits keeps them |
| `Network` | 2 sockets, 2 clients of the server beside the sketch's; 2 attempts to join, 3 pieces of news under way | sockets have an owner, `closed_sockets` speaks of the present connection, the bits follow the link, methods return unless the peer is silent or `recv` keeps failing |
| `Parts` | below | files, configuration, registers, clocks, card driver and SmartConfig, each alone |
| `DetectorHang` | violation of `SendReturns` | `sendData` waits for RX with the chip in IDLE |
| `SwapDeaf` | violation of `RxOnMeansListening` | deaf after the first packet that follows `init` |
| `SwapPowerDown` | violation of `AsleepIsPoweredDown` | an interrupt between SIDLE and SPWD |
| `ReceiverDns` | violation of `LookupEnds` | an unresolved name is looked up for ever |

Bounds. Three packets on the air are one to be read, one that arrives while the
interrupt is masked and one more that overflows or is cut; two messages let a
transmission of the main loop and a reply of the interrupt routine follow each
other in either order. Three frames of the head are an alarm, its repetition as
another alarm and its end, and with a UART of three tokens the second frame
already overflows. One frame is enough to shift the answers of two cycles. Of
the lines of four and five characters the longer one has as much as the shorter when its
first character is cut off, as 22 of 40 are in the code, and a buffer of five lets
the second packet overrun while the first is read or posted. A line end in a response to a
query is skipped within its first two characters (`MinValue`; four in the code).

Two buffers are one in use and one free, or none: the counter meets both ends. Two
events with a queue of two let one stand before an answer and one behind it. Two
sockets let one descriptor be closed and given out again while the other is in use;
two clients of the server, one fewer than the code has, are full with two peers.
`connect()` is called on the sketch's client only. Two attempts to join are one that
fails and its repetition.

`Parts`: two files and three clusters of two bytes in five calls, so that files
interleave, share the cache and run out of clusters, with one fault in a run (from
which on everything fails, or that one transfer only). Four lines, two of the
three keys, one kind of line end per file. Packets: three, enough for a command, what
repeats it and a restart between; two-bit bytes, a table of two transactions that
expire after two units. The clock: three settings and two hours around midnight on five
dates (ends of February and of years, the days the clocks change). Network time:
eight-bit timestamps in quarters of a second, a `millis()` that wraps after 47 of them, a device
three units before its first wrap (after which it is as one that has just started), two updates and two that
fail. The card's driver: three
blocks of two bytes, five calls with one fault, a time of eight values for the 16 bits and
an erase that waits longest (`SD_ERASE_TIMEOUT`).
SmartConfig: one key, ten lengths around one and two blocks of the cipher, two first
bytes (31 among them), five types of security.

`CHECK_DEADLOCK FALSE` stands where the bounds end every behaviour (`RadioNode`,
`Parts`), where an idle board or a sketch that stops calling is a state without a step
(`Receiver`, `Network`), and where the driver itself may stop for good, which is what
`CallReturns` is about (`CcDriver`).

Fairness. The processor runs what it can run (weak fairness of the sketch and of
the interrupt routine), the chip finishes what it has begun, the UART delivers,
and time passes. Nothing is assumed of other stations, of the head unit, the
modem, the name server or the HTTP server. Of the main loop of `RadioNode` only
`sendData` is fair: the sketch need not send or sleep. In `CcDriver` the program and
the interrupt run, and the chip pulls its line, frees its buffers and answers, except a
receive call, which waits for the peer; reports and patch requests are not fair. That
the chip answers only once the program waits (`HostIsWaiting`) is timing: an answer
takes milliseconds. In `Network` the chip and the interrupt are fair, peers and
the access point are not, and a `recv` from a peer that is silent need not end. The chip
may answer every `recv` with 0 or -1, which no fairness excludes: `MethodReturns` names the
loop of `read()` and `peek()` (`ReadsNothing`) instead. The chip's answer in `CcStation` is strongly fair, since a
link that comes and goes for ever would otherwise disable it again and again. `Parts`
checks safety only.

Every property of a passing run has a mutant: a definition of the module, changed
the way a mistake in that code would, with which the run finds the property
violated. They stand before the definition they replace.

## 4. Findings

* `DetectorHang`: the loop at `cc1101.cpp:473-477` has no strobe in it. When a
  packet ends between `setRxState` and the status read, or after the flush of an
  overflow, the chip is in IDLE for good. The detector is exposed to it with
  every message, since nobody reads its FIFO.
* `SwapDeaf`: `PANSTAMP::init` does not set `rfState`.
* `SwapPowerDown`: `setPowerDownState` runs with the interrupt enabled.
  (`wakeUp` leaves the chip in IDLE although `goToSleep` sets `RXON`, so
  `NeverDeaf` is stated for boards that have not slept.)
* `ReceiverDns`: the name lookup treats a negative result as an answer.

Also read and not a run: `cc1101.cpp:486` ("CCA enabled") - the configured CCA
mode only refuses to transmit while a packet is being received (`cc1101.h:244-245`).

What the other properties name as an exception, or the models show on their way:

Radio and registers. `swapAddress` is a macro for `cc1101.devAddress`, so the setter of
the address changes the copy first and `CC1101::setDevAddress` then skips the chip: the
node is deaf at its new address until it restarts (`moved` in `ChipFollowsCopies`).
With an erased EEPROM the chip's address stays 0. A command may set the address 0, which
the node confirms and stores, and which is 0xFF after the next restart, since
`CC1101::setDefaultRegs` takes 0 for an address that was never set (`cc1101.cpp:221`). `setFreqChannel` stores a channel
and restarts, and nothing loads channel or synchronization word again. The nonce does
not survive a restart. The repeater's test of what it has repeated fails for
encrypted packets, and it sees packets for others only without the address check; its
`delay()` runs inside the interrupt routine, where the timer that ends it is masked
(`repeater.cpp:97`).
The payload of an encrypted packet is copied before `smartEncrypt` (`swpacket.cpp:107`), so it
goes out in clear. An interval
of 0x8000 or more is negative and `goToSleep` does not sleep (`Panstamp.cpp:276`).
`SWAP_TX_DELAY * 1000` overflows 16 bits (`swpacket.cpp:154`). Two bytes of the interval
may be torn by a loss of power.

Receiver. The helper leaves `setup()` with whatever it has not read, so that of a data line
that is coming in then the last 18 characters may be taken for a state line, and posted
(`Remnant` in `PostsWholeInOrder`).

CC3000. `read()` and `peek()` ask `recv` again after 0 and -1 for ever
(`Adafruit_CC3000.cpp:1620`, `1667`). Five races or misuses keep a call from returning (`trouble` in `Cc3000`): the
answer to a send that reports an error is taken for an unsolicited event and
swallowed; a packet is read as junk; the patch request is read from the buffer after
the interrupt was enabled, when another event may be in it; a call after `stop()` writes
through a null pointer; and a packet longer than the transmit buffer is never written.
`usNumberOfFreeBuffers--` loses an update of the interrupt routine
(`socket.cpp:165`). `connect()` and `begin()` drop open sockets (`dropped` in
`SocketsAreOwned`). A finished `startSmartConfig` with AES fails exactly when the
profile was stored, because `wlan_smart_config_process` returns the profile's index
(`Adafruit_CC3000.cpp:881`). A password of 32 bytes that begins with 31 loses its
first byte (`wlan.cpp:1186`). `connectUDP` and `accept` do not clear
`closed_sockets`.

Network time. Fractions are signed, so carry and borrow are wrong for mixed halves: up
to four and a half seconds. A correction whose two differences have different signs sets the
clock half an era wrong (`sntp.cpp:107`). `millis()` starts again after 49.7 days: the
clock is that far behind from then until it is synchronised again, and 24.8 days behind after a
synchronisation whose packet was away at that moment (`sntp.cpp:143`). `UpdateNTPTime` asks for ever while no
server answers (`sntp.cpp:561`).

Clock. `unixtime` counts 29 February twice after a leap year's (`rtc_clock.cpp:465`);
midnight between the two reads or the two settings puts it a day off; `summertime` is
wrong on the first days of April and on 1 November; `timing()` changes between
winter and summer time on every call. `unixtime()` without an argument has no return
statement (`rtc_clock.cpp:439-442`); the model has the one with a zone.

Files. A whole block written over the dirty cached one leaves the cache dirty without a
block, and every later flush fails (`SdFile.cpp:1182`). A repeated write after a
failure at a cluster's end adds another cluster. Power lost while clusters are freed
leaves an entry that points at free ones (`torn`). A seek backwards starts from the first
cluster and keeps the old position when a read of the FAT fails on the way
(`SdFile.cpp:944`): `truncate` then cuts the chain at that cluster, and a write goes on
in it (`torn` as well). `truncate(0)` keeps the clusters of an empty file. `IniFile.cpp:334` searches for ever behind a last line that is a comment
without a line end. A failed read of the configuration is taken for a line that an earlier
call left in the buffer (`IniFile.cpp:257`), so that a value may be another's (`misread` in
`LoadsWhatIsThere`). An unanswered CMD8 has the card taken for one of version 1
(`Sd2Card.cpp:348`), which `init()` then calls ready if it is no SDHC card. `cardCommand` ignores that the card is busy; a read refused in the
middle of a partial one lets the next return what the idle bus says; the 16-bit
waits (`Sd2Card.cpp:591`) do not end where `int` has 32 bits and the wait begins just before
the wrap.

## 5. Proofs

Every invariant and action property of the passing runs is a theorem, for every value of
the constants that the assumptions allow, except four of `Parts`: `PartsTypeOK` and what is said of the files on the
card (below). Each is an
invariant by an inductive one (`...Inv`, a conjunction of named parts), which was
model-checked before it was proved: the parts say what the property relies on
without saying it, and they are the explanation of why the code works.

### Assumptions

They are ASSUMEs of the modules, so TLC evaluates them in every run. The bounds are
natural numbers, some of them not zero. Besides:

* `WordsAssumption` (`Detector`): the frames, the commands and the acknowledgement can be
  told apart (twelve digits, four, one character).
* `SizeAssumption` (`Detector`): the UART's buffer holds two tokens. With one, TLC finds
  an undisturbed cycle whose acknowledgement pushes the answer out; the code's buffer
  has 64 characters, an acknowledgement and an answer at most fourteen.
* `DialogueAssumption` (`Receiver`): the AT dialogue of `setup()` begins with
  `switchToCommandMode`, sets the synchronization word, and has one
  `switchToDataMode`, at its end (`Receiver.ino:114-128`).
* `TextAssumption` (`Receiver`): a state line is shorter than a data line, and every answer
  of the modem is shorter than both and has no line end in it.
* `CallsAssumption` (`Cc3000`): the opcodes and events of the calls are not those of
  what the chip says unasked nor those of `wlan_start`; a call that awaits received data
  fetches it. `HciCalls` satisfies it, which TLC evaluates. `NoneAssumption`: `None` is
  neither the number of a call nor a command.
* `SocketsAssumption`, `ServedAssumption` (`MCNetwork`): descriptors are finitely many
  numbers, so that -1 is none of them.
* `ByteAssumption`, `TableAssumption`, `SetupAssumption`, `MessagesAssumption`,
  `HeardAssumption` (`MCParts`): a byte has at least three values (0, 0xFF and an address
  between them), the fields of a packet are bytes, and what a command sets is a value of
  its register.
* `KeysAssumption`, `LinesAssumption` (`MCParts`): the sketch looks for each key once, and no
  key is the name of a section or an empty line.
* `BlocksAssumption`, `TimeoutsAssumption` (`MCParts`): the blocks of a card are numbered
  without gaps; erasing waits longest (`Sd2Card.h:93-99`), and no wait is as long as the
  time between two wraps of the 16 bits.
* `DatesAssumption`, `HoursAssumption`, `ZonesAssumption` (`MCParts`): what is set is a date
  after 2000 (the chip keeps two digits of a year) and an hour; the zones are those that
  `unixtime` lists.
* `WordsAssumption`, `DelaysAssumption`, `SamplesAssumption` (`MCParts`): half a second and half
  an era are whole numbers of units; a packet that was answered was not away longer than
  `recvfrom` waits; the device runs for less than half an era (68 years, some five hundred wraps of
  `millis()`, of which a packet may meet any number); the dates asked for
  are of the 49710 days that a word of seconds holds.
* `PasswordsAssumption` (`MCParts`): a key is sixteen bytes and a password at most 32.
  `StandardAssumption` is the vector of FIPS 197, which no proof uses.

### The radio: RadioNodeProofs

* `TypeCorrect` (`TypeOK`) and `RadioIsExclusive` (`ExclusiveRadio`). Exclusion is not
  inductive: nothing in it says that the interrupt routine stops at `CheckState` when the
  main loop is inside `sendData`. `RadioInv` adds that a main loop inside `sendData`
  has declared TX (`MainDeclaredTx`), that with a second driver object the object of the
  interrupt routine stays IDLE and the routine never gets past `CheckState`
  (`SecondDriverIdle`), and that the FIFO is not empty between the test of RXBYTES and
  the read (`HasPacket`, for the types).
* `NeverSentTwice` (`AtMostOnceOnAir`) and `CallerKnows` (`ResultIsTruth`). `SendInv`
  follows one message: it is in the chip's FIFO from the burst write until it is out or
  flushed, on the air from the end of the transmission on, and a repetition begins only
  after a flush that found it unsent. Exclusion is what the argument rests on:
  with both contexts inside `sendData` one would flush the other's message.
* `ListensAtRest` (`NeverDeaf`). `HearInv` says that a board whose `rfState` is RX listens,
  has an edge waiting, or is in the interrupt routine with the strobes still to come, and
  that those strobes begin in IDLE (`WillListen`, `ThroughIdle`).
* `BoardIsLossyChannel` (`DeliversAsChannel`), the refinement of `LossyChannel`.
  `ChannelInv` says that packets are in the order of the air on their way through the
  board: handed over, in `ccPacket`, in the FIFO, being received; `ccPacket` is static, so
  this counts only from the read to the end of the same call (`Fresh`). Then each step maps
  to `Offer`, `Deliver` or a stutter.

### The detector: DetectorProofs

* `TypeCorrect` (`TypeOK`) and `AlarmsTakeTurns` (`AlarmsAlternate`). `AlarmInv` adds that
  while an alarm may be reported every alarm sent has an end after it, and that an
  alarm under way has set `alarmActive`.
* `FramesKeepOrder` (`FramesInOrder`). `OrderInv` follows the numbers of the frames
  through wire, line, `receivedInfo` and `fields`: they increase in each, and what is
  further on is older.
* `CleanCyclesAreRight` (`CleanCycle`). `CleanInv` says for each step of a cycle that
  neither a frame nor a timeout met what stands on the line: nothing, or the
  acknowledgement and the answer of the command that was asked last.
* `FlagIsTrue` (`FlagFollowsHead`). `FlagInv` says, unless a frame was lost, that the line
  is well formed (a frame stands between two ends) and that the head's alarm is what
  the sketch will believe when it has read what stands on the line.

### The receiver: ReceiverProofs

One inductive invariant, `StationInv`, carries the four theorems. Its parts hold under
the conditions the properties name: `ModemInv` unless a command was missed, the parts on
the stream and on lost packets unless the buffer overran.

* `TypeCorrect` (`TypeOK`), which is not inductive by itself: it says nothing of a response
  that is about to be read and full (`TypeInv`).
* `ModemIsTuned` (`TunedUnlessMissed`): `ModemInv` says which commands the modem has taken
  and that it is in command mode exactly after the first and before the last.
* `PostsAreWhole` (`PostsWholeInOrder`): `LineInv`. What the loop has read of a line, what
  waits in the buffer and what is on the wire is one stream, of texts as the modem prints
  them, character after character up to a line end, of which only the first may lack its
  beginning (`Printed`). Such a stream reaches the loop only when it takes over from the
  helper, in a packet printed before (`FrontInv`); so what is in hand is a whole packet or
  what is left of such a one (`HeldInv`), which is why only the first post may be a remnant
  (`PostInv`). An answer is too short to be taken for a line (`TextAssumption`). And what is posted, in hand
  and coming is in the order of printing (`OrderInv`).
* `NoPacketIsLost` (`NothingLostSilently`): `LossInv` says that each packet printed since the
  loop began is posted, in hand or still coming.

### The CC3000 driver: Cc3000Proofs

* `TypeCorrect` (`CcTypeOK`). The types need to know of the packet in the buffer whether
  its fields fit (`Sound`), what stands between calls, and that a credit read is at
  least one (`CreditRead`).
* `NeverDeafForGood` (`DeafOnlyWithPacket`), inductive as it stands. The argument is in
  `RoutineKeeps`, used for the interrupt and for the poll that calls the same routine:
  whatever it reads, it either masks the interrupt with the packet in the buffer or deals
  with it and enables the interrupt again; and the main program enables it when it takes
  the packet out.
* `CallsAreKept` (`CallsAreCarriedOut`), the refinement of `RemoteCall`. `DriverInv` says how
  far the call under way has come (`StageInv`), that its answer, its data and a patch
  request come at most once (`OnceInv`), that a patch is written only for the request
  the chip waits on (`PatchInv`), and that whatever carries a call's number is the answer or
  the data of the present one (`AnswerInv`). The last one is what makes an answer found by
  its opcode alone the right one.
* `BuffersAreConserved` (`CreditsConserved`). Buffers are counted in five places, the
  credits on their way back by the cardinality of the pairs of a packet and a credit in it.
  `CreditInv` needs `WireInv` (a write that reached its end reached the chip: with the line
  low and the chip selected the packet has been taken), `CallInv` (only sends use
  buffers), `SizeInv` (none is used before `wlan_start` has read how many there are) and that
  the credits under way are finitely many (`CountInv`).

### The Adafruit library: NetworkProofs

* `BitsTellTheLink` (`BitsFollowLink`). `LinkInv`: unless the bits are stale and no loss of the
  link is on its way to clear them (`Trusted`), link and address are what the bits will say
  once the news has come in.
* `SocketsHaveOwners` (`SocketsAreOwned`) and `FlagsAreOwn` (`ClosesOnlyItsOwn`).
  `ClientsInv` says at which places the main program can be with which call (`StageInv`),
  that at most one answer is under way and says the truth (`OneAnswer`, `Truth`), that what a client,
  the server or a method holds is open and belongs to one of them only (`Holding`,
  `Owned`), that a socket being connected is not up yet (`Virgin`), and that a close event
  under way is that of the present connection or comes before the answer to its
  `closesocket` (`Current`).
* `TypesCorrect` (`NetTypeOK`) needs that the scripts' jumps stay in their script and that
  the chip has one answer under way (`ScriptInv`).

### The panStamp's registers, the configuration and the card's driver: PartsProofs

The parts of `MCParts` share no variable, so each has an inductive invariant of its own,
which the steps of the others leave alone.

* `NodeTypesCorrect` (`TypeOK` of `SwapNode`), `CommandsAndRepeatsOnce` (`NothingTwice`),
  `ConfirmedSurvivesRestarts` (`ConfirmedIsKept`) and `ChipIsTuned` (`ChipFollowsCopies`)
  rest on `NodeInv`. A command is taken once because the nonces of the commands taken in
  this round are behind the node's, or equal to it while the last one is still being
  carried out (`Ahead`), and a packet is repeated once because the transactions that
  were repeated last stand in the table in that order (`Remembered`). `Kept` says of each
  stored register that EEPROM, value and what the network was told agree unless the
  command under way is changing it, and what has been written so far when it is; without
  power only EEPROM and what was told are left to compare. `Place` says which steps can
  be left of which command.
* `ConfigurationIsRight` (`LoadsWhatIsThere`) rests on `ConfigInv`. Whatever `readLine()` has
  come past it has read as a whole (`LinesRead`). `Searches` says of the present search
  where it is: before the first section of the name, or behind it and before the first line
  that is the key or a section; and that it has read each line once, or stands at the one
  place it does not get away from (`Stuck`). Behind a failed read it says nothing of the place
  any more (`adrift`). `Found` says that the values of the keys before
  the present one are right, except those for which the card failed (`misread`), and `Reason` what
  explains a failure: the card, or what is or is not in the file.
* `DriverDoesWhatItSays` (`DriverTells`) rests on `DriverInv`: the driver knows what
  addresses its card takes once `init()` returned true (`Fits`; of which version it is it may
  not know), so that an address it sends is found again (`Addressed`); a block that is read in parts is on its way exactly as far as the
  driver's offset, as long as the card is selected (`InBlock`); and no block is being read
  while others are being written. There is a lemma for each step that the calls are made
  of (`Commands`, `Waits`, `Token`, `NotBusy`, `GivesUp`), each saying in one named relation what
  the step leaves alone, and one for each call. `Expiry` is the arithmetic of the waits: with
  an int of 16 bits each of them ends, and with a wider one all but those that begin
  within the timeout before the wrap.

### The clocks: ClockProofs

`ClocksTellRight` (`ClocksTell`) rests on two invariants.

* `ClockInv` says which date the registers show and which part of it a method has
  read or written so far: `CallIdle`, `CallDate`, `CallWrite`, `CallChange`, `CallAsks` and
  `CallSummer`, one for each place of a call. The chip goes on at each of them, so a part
  also says what midnight makes of the rest of the call: `slipped` is set by a midnight between
  two reads or two settings and stays until the date is set again, and the last date read is
  the one before the one shown. Under it lies the arithmetic: `unixtime()` adds up the days of
  the months, the leap years and the zone, and the proof compares each with the calendar,
  month by month and by cases of the year modulo four.
* `TimeInv` says of the exchange that `sent` is the device's time stamp of the moment it
  asked, off by what the signed fractions carry wrongly (`SentNow`); that a late reply
  is of an earlier one (`LateReply`); and that the device has not run for more than the tries and
  updates so far allow (`UpIsBounded`), without which the differences could be of another era.
  Sums and differences of time stamps are taken as units modulo an era, each off by a
  number of carries that is bounded lemma by lemma; added up and halved they give the four
  and a half seconds of `SyncTells`. The clock is read at two moments, off from the true time by
  as many laps of `millis()` as have passed (`ReadAt`); of the laps that pass in
  between (`LapsBetween`) half goes into the correction, which is the time that `off` is measured
  from. Without a lap in between that is the true time. `DateTells` is the calendar again, for the leap years from 1900.

### SmartConfig and the cipher: ProfileProofs

`ProfileIsRight` (`ProfileIsWhatWasSent`) needs that `aes_decrypt` undoes `aes_encrypt`
(`Deciphered`), for any key. The argument goes from the bytes up. A byte is its bits, and the
addition of the cipher is that of the bits without carries; doubling in the field is linear.
`MixColumns` four times is the identity, which makes the inverse that the code computes
(a multiplication, then `MixColumns`) the inverse. The two tables undo each other, byte by byte. So
each step of a round is undone by its counterpart, and the rounds by the rounds backwards. The
rounds and the key schedule are recursive functions: that they exist is proved by
the least number at which one fails to (`Least`, `Inductive`, `Chain`), which takes the place
of induction, since the library's induction theorems have an operator as a parameter. Above the cipher,
`ProfileInv` says what each step of the call has in hand, and `FilledIs` and `Revealed` that a
password of any length is found again behind its length byte.

### What stays with TLC

Liveness (`GetsOut`, `CallReturns` and the like): fairness and ENABLED are out of the
provers' reach. Of `Parts`: `ReadsBackWritten`, `VolumeIsSound` and `LossHasReason`. They
need an invariant on the chains of clusters, in the FAT on the card and in the one that the
cache makes of it, which every operator of the library has to keep with a transfer failing
anywhere in it. Even the types depend on it: a link 0 in a chain would make the
FAT data of the file. So `PartsTypeOK` as a whole is not proved either; its parts for
`SwapNode`, `ConfigFile`, `RtcClock`, `Sntp` and `SmartConfig` are proved within their
invariants (`NodeInv`, `ConfigInv` without `adrift`, `ClockTypes`, `TimeTypes`, `ProfileInv`), and what `DriverInv` says
of the driver. Of the findings nothing is proved: TLC's counterexamples show them.

The model was changed for the proofs in form only: bounds as quantifiers or
cardinalities where a fold stood (`Credits`, `Settled`, `SocketsAreOwned`),
recursive functions for recursive operators and folds (`CardFiles`, `RtcClock`, `Sntp`), tables (`Aes`), IF or explicit guards for CASE with OTHER, the
steps of `init()` as operators of their own (`SdCard`), and the assumptions above. Five things
were wrong. Erasing waited as long as a write, where the code waits longer
(`Sd2Card.cpp:251`). `ConfirmedIsKept` is stated with its exception now (section 4): the
proof failed at a case that the run had no packet for, and the run has one since. A date that a
midnight had left wrong counted as right again once an hour was set. And the bound of
`SyncTells` was four seconds, where carries and borrows together reach four and a half.
And `Seek` had the start, a block and the end for positions only, which hid what a
seek backwards leaves behind (section 4): looking for the inductive invariant of
`CardFiles` found it, and TLC finds it in five calls now that all positions are given.

## 6. Not modelled, and the plan

| step | module | what | run | proofs |
|---|---|---|---|---|
| done | RadioNode, LossyChannel | driver, interrupt, chip | 2 + 3 | all safety, refinement of LossyChannel |
| done | Detector | sketch of the detector | 2 | all safety |
| done | Receiver | sketch of the receiver | 1 + 1 | all safety |
| done | HciCalls, RemoteCall, Cc3000 | CC3000 driver | 1 | all safety, refinement of RemoteCall |
| done | CcClients, CcStation | Adafruit library | 1 | all safety |
| done | SwapNode, ConfigFile | registers, EEPROM, repeater; configuration | 1 | all safety |
| done | SdCard | the card's driver | the same | what a call has done |
| done | RtcClock, Sntp, Aes, SmartConfig | clocks, profile | the same | all safety |
| done | CardFiles | files | the same | - |
| next | CardFiles | what keeps an entry's clusters, as an inductive invariant | - | safety |

A composition of Detector and RadioNode needs no new state: a message in `sent`
is a message of `StartSend`, and its loss shows as a false result nobody reads.

Left out on purpose:

* formatting and logging, LEDs, the texts of HTTP requests and responses, the values
  computed from a line;
* the watchdog (a register that can be written once), `AVRRTC`, calibration and `SPI`:
  register accesses without logic of their own;
* of the radio: the carrier frequency, the battery voltage, the text of the product
  code, the length of a sleep;
* of the CC3000: the fields of commands and answers, ping reports, patch files;
* of the SD library: subdirectories, listings, dates of files, the CSD register, volumes
  with clusters of more than one block;
* of `IniFile`: conversions of values, mixed line ends, and the byte that `readLine`
  writes past a full buffer, which TLA+ has no memory to show;
* the alarms of the real-time clock, and the offset from UTC of the network time.
