------------------------------- MODULE SwapNode -------------------------------
(***************************************************************************)
(* A panStamp node as the network sees it: the SWAP packets it hears, its  *)
(* registers and their callbacks (commonregs.h, register.cpp), what of     *)
(* them is in EEPROM, what of them is in the radio chip (cc1101.cpp), and  *)
(* the repeater.                                                           *)
(*                                                                         *)
(* A packet is evaluated inside the interrupt routine, one at a time, in   *)
(* steps between which power may be lost.  How a packet gets into and out  *)
(* of the chip is in RadioNode; here one that is sent is on the air, and   *)
(* only the repeater looks at whether it was.                              *)
(***************************************************************************)
EXTENDS Integers, Sequences, FiniteSets

CONSTANTS
  ByteSize,     \* values of a byte: 256 on the board
  Depth,        \* REPEATER_TABLE_DEPTH
  Expiration,   \* REPEATER_EXPIRATION_TIME, in ticks
  Setups,       \* what a sketch makes of the library: see setup
  FirstAddrs,   \* what EEPROM holds for the address when the node is new
  Messages,     \* packets on the air
  MaxMessages   \* bound: packets that are heard

VARIABLES
  setup,    \* play, crypt: security & 0x01, 0x02; hops: maxHopCount, 0 without a
            \* repeater; check: the chip compares addresses; crystal: rtcCrystal;
            \* second: the sketch has a CC1101 object of its own
  pc,       \* idle, a step of setData, asleep, halted (waits for the watchdog) or off
  job,      \* the command in progress
  board,    \* RAM: devAddress, channel, syncWord, txInterval, nonce, systemState;
            \* the registers of the chip; EEPROM
  loops,    \* of goToSleep
  table,    \* the repeater's transactions
  told,     \* history: the value the network was told last, of the stored registers
  doubt,    \* history: those whose last command was cut short
  taken,    \* history: nonces of the commands taken since boot or since nonce was 0
  twice,    \* history: a nonce was taken twice
  moved,    \* history: the address was set since boot
  log,      \* history: the packets that were repeated, newest first
  again,    \* history: one was repeated that is in log
  heard     \* packets heard so far

repeats == <<table, log, again>>
history == <<told, doubt, taken, twice, moved>>
vars    == <<setup, pc, job, board, loops, heard, repeats, history>>

Bytes  == 0 .. ByteSize - 1
Erased == ByteSize - 1              \* 0xFF
BCAST  == 0                         \* SWAP_BCAST_ADDR
Nothing == -1
Garbled == -2

\* Registers with an EEPROM address, and what values of the others stand for.
Stored    == {"DEVADDRESS", "TXINTERVAL"}
RESTART == 0    \* SYSTATE_RESTART and so on
RXON    == 1
RXOFF   == 2
SYNC    == 3
NoSync  == 0    \* 0x0000, what RAM holds at first
ChipSync    == 1    \* 0xD391, what the chip has after its reset
DefaultSync == 2    \* 0xB547
SketchSync  == 3    \* 0x6432, the detector's
None      == [fn |-> "STA", dest |-> 0, reg |-> 0, id |-> "none", nonce |-> 0,
              hop |-> 0, enc |-> FALSE, fits |-> TRUE, value |-> 0]

-------------------------------------------------------------------------------
\* CC1101: each setter skips the chip when the copy in RAM is equal.

setSyncWord(b, word, save) ==
  IF b.sync = word THEN b
  ELSE [b EXCEPT !.sync = word, !.chip.sync = word,
                 !.eeprom.sync = IF save THEN word ELSE @]

setDevAddress(b, a) ==
  IF b.addr = a THEN b ELSE [b EXCEPT !.addr = a, !.chip.addr = a]

setChannel(b, c, save) ==
  IF b.channel = c THEN b
  ELSE [b EXCEPT !.channel = c, !.chip.channel = c,
                 !.eeprom.channel = IF save THEN c ELSE @]

\* The chip after its reset strobe, then setDefaultRegs().
ChipReset == [addr |-> 0, channel |-> 0, sync |-> ChipSync]

\* Mutant: the address goes through the setter as well.
setDefaultRegsBySetter(b0) ==
  LET b1 == [b0 EXCEPT !.chip = ChipReset]
      b2 == setSyncWord(b1, IF b1.sync = NoSync THEN DefaultSync ELSE b1.sync, FALSE)
      b3 == IF b2.addr \in {0, Erased} THEN setDevAddress(b2, Erased)
            ELSE setDevAddress(b2, b2.addr)
  IN  setChannel(b3, IF b3.channel = Erased THEN 0 ELSE b3.channel, FALSE)

setDefaultRegs(b0) ==
  LET b1 == [b0 EXCEPT !.chip = ChipReset]
      b2 == setSyncWord(b1, IF b1.sync = NoSync THEN DefaultSync ELSE b1.sync, FALSE)
      b3 == IF b2.addr \in {0, Erased} THEN setDevAddress(b2, Erased)
            ELSE [b2 EXCEPT !.chip.addr = b2.addr]
  IN  setChannel(b3, IF b3.channel = Erased THEN 0 ELSE b3.channel, FALSE)

\* RAM when the program starts.
Cleared(eeprom) == [addr |-> 0, channel |-> 0, sync |-> NoSync, interval |-> 0,
                    nonce |-> 0, state |-> RESTART, chip |-> ChipReset,
                    eeprom |-> eeprom]

\* PANSTAMP::init(): REGISTER::init() of every register, then the chip.
init(eeprom) ==
  [setDefaultRegs([Cleared(eeprom) EXCEPT !.addr = eeprom.addr, !.interval = eeprom.interval])
     EXCEPT !.nonce = 0, !.state = RXON]

\* The detector's setup() configures the chip once more, through an object with
\* copies of its own.
sketchInit(b) ==
  LET own == setDefaultRegs(Cleared(b.eeprom))
  IN  [b EXCEPT !.chip = setDevAddress(setSyncWord(setChannel(own, 0, FALSE),
                                                   SketchSync, FALSE), 2).chip]

Booted(eeprom) == IF setup.second THEN sketchInit(init(eeprom)) ELSE init(eeprom)

\* What the zeros of a new REPEATER look like.
NewTable == [i \in 1..Depth |-> [fn |-> "STA", reg |-> 0, nonce |-> 0, age |-> 0]]

NewEeprom(a) == [addr |-> a, channel |-> Erased, sync |-> NoSync,
                 interval |-> ByteSize * ByteSize - 1]

Init == /\ setup \in Setups
        /\ pc = "idle" /\ job = None /\ loops = 0 /\ heard = 0
        /\ \E a \in FirstAddrs : board = Booted(NewEeprom(a))
        /\ table = NewTable /\ log = <<>> /\ again = FALSE
        /\ told = [r \in Stored |-> Nothing] /\ doubt = {}
        /\ taken = {} /\ twice = FALSE /\ moved = FALSE

-------------------------------------------------------------------------------
\* REGISTER::sendSwapStatus(): the constructor of SWSTATUS counts the nonce up.
\* send() copies the value before smartEncrypt() works on it, so that a status
\* that says it is encrypted carries a value in clear.

\* Mutant: the nonce is not counted.
sendSwapStatusUncounted(id, value) ==
  /\ board' = board
  /\ taken' = taken
  /\ told' = IF id \in Stored
             THEN [told EXCEPT ![id] = IF setup.crypt THEN Garbled ELSE value] ELSE told

\* Mutant: the nonce is not a byte.
sendSwapStatusWide(id, value) ==
  /\ board' = [board EXCEPT !.nonce = @ + 1]
  /\ taken' = taken
  /\ told' = IF id \in Stored
             THEN [told EXCEPT ![id] = IF setup.crypt THEN Garbled ELSE value] ELSE told

sendSwapStatus(id, value) ==
  /\ board' = [board EXCEPT !.nonce = (@ + 1) % ByteSize]
  /\ taken' = IF board'.nonce = 0 THEN {} ELSE taken
  /\ told' = IF id \in Stored
             THEN [told EXCEPT ![id] = IF setup.crypt THEN Garbled ELSE value] ELSE told

\* The value of a register; of those without EEPROM it does not matter here.
Value(id) == CASE id = "DEVADDRESS" -> board.addr
               [] id = "TXINTERVAL" -> board.interval
               [] id \notin Stored  -> 0

-------------------------------------------------------------------------------
\* The repeater.

\* Its table does not look at the register: two queries to one node look alike.
Suppressed(m) ==
  \E i \in 1..Depth : /\ table[i].reg = m.reg /\ table[i].fn = m.fn
                      /\ table[i].nonce = m.nonce /\ table[i].age < Expiration

Repeats(m) == /\ setup.hops > 0
              /\ m.dest # board.addr
              /\ m.hop < setup.hops
              /\ ~Suppressed(m)

\* packetHandler() works on the packet that is evaluated afterwards: to encrypt it
\* for the air changes it in place, and what is saved and evaluated is the cipher.
Sent(m) == IF m.enc THEN [m EXCEPT !.fn = "cipher", !.hop = @ + 1] ELSE [m EXCEPT !.hop = @ + 1]

Transaction(m) == [fn |-> m.fn, reg |-> m.reg, nonce |-> m.nonce, age |-> 0]

saveTransaction(m) ==
  table' = [i \in 1..Depth |-> IF i = 1 THEN Transaction(m) ELSE table[i - 1]]

IsLogged(m) == \E i \in DOMAIN log : /\ log[i] = [Transaction(m) EXCEPT !.age = log[i].age]
                                     /\ log[i].age < Expiration

\* Three attempts may all find the channel busy: then nothing is saved.
packetHandler(m) ==
  \/ ~Repeats(m) /\ UNCHANGED repeats
  \/ Repeats(m) /\ UNCHANGED repeats
  \/ /\ Repeats(m)
     /\ saveTransaction(Sent(m))
     /\ log' = SubSeq(<<Transaction(Sent(m))>> \o log, 1, IF Len(log) < Depth THEN Len(log) + 1 ELSE Depth)
     /\ again' = (again \/ IsLogged(m))

-------------------------------------------------------------------------------
\* isrGDO0event(), from the packet the chip has let through.

Audible(m) == setup.check => m.dest \in {board.chip.addr, BCAST}
Allowed(m) == setup.crypt => m.enc
ForUs(m)   == m.dest = board.addr /\ m.reg = m.dest /\ m.id # "none"
NonceFits(m) == setup.play => m.nonce = board.nonce

Command(m) == Allowed(m) /\ m.fn = "CMD" /\ ForUs(m)
Query(m)   == /\ Allowed(m) /\ m.fn = "QRY" /\ m.reg = m.dest /\ m.id # "none"
              /\ \/ m.dest = BCAST /\ m.id = "PRODUCTCODE"
                 \/ m.dest # BCAST /\ m.dest = board.addr

Evaluate(m) ==
  \/ /\ Command(m) /\ ~NonceFits(m)
     /\ sendSwapStatus("SECUNONCE", 0)
     /\ UNCHANGED <<pc, job, twice>>
  \/ /\ Command(m) /\ NonceFits(m) /\ ~m.fits
     /\ sendSwapStatus(m.id, Value(m.id))
     /\ UNCHANGED <<pc, job, twice>>
  \/ /\ Command(m) /\ NonceFits(m) /\ m.fits
     /\ pc' = "setValue" /\ job' = m
     /\ taken' = taken \cup {m.nonce}
     /\ twice' = (twice \/ (setup.play /\ m.nonce \in taken))
     /\ UNCHANGED <<board, told>>
  \/ /\ Query(m)
     /\ sendSwapStatus(m.id, Value(m.id))
     /\ UNCHANGED <<pc, job, twice>>
  \/ /\ ~Command(m) /\ ~Query(m)     \* a status is for the sketch's callback
     /\ UNCHANGED <<pc, job, board, told, taken, twice>>

\* SWPACKET(CCPACKET) decrypts what says it is encrypted, with any password.
Received(m) == IF m.enc /\ ~setup.crypt THEN [m EXCEPT !.fn = "garbled"] ELSE m

isrGDO0event(packet) ==
  LET m == Received(packet)
  IN  /\ pc = "idle" /\ heard < MaxMessages /\ Audible(m)
      /\ heard' = heard + 1
      /\ packetHandler(m)
      /\ Evaluate(IF Repeats(m) THEN Sent(m) ELSE m)
      /\ UNCHANGED <<setup, loops, doubt, moved>>

-------------------------------------------------------------------------------
\* REGISTER::setData(): the callback of the register, a status, EEPROM.

Callback(id) == pc = "setValue" /\ job.id = id
Goto(step)   == pc' = step /\ UNCHANGED <<setup, job, loops, heard, doubt, twice, repeats>>

\* The callbacks confirm the new value before they set it; setSysState() and
\* setFreqChannel() end in reset(), which never returns.
setSysState ==
  /\ Callback("SYSSTATE")
  /\ UNCHANGED <<told, taken, moved>>
  /\ \/ job.value = RESTART /\ Goto("reset") /\ UNCHANGED board
     \/ job.value # RESTART /\ Goto("status") /\ board' = [board EXCEPT !.state = job.value]

setFreqChannel ==
  /\ UNCHANGED moved
  /\ \/ /\ Callback("FREQCHANNEL") /\ job.value = board.channel
        /\ Goto("status") /\ UNCHANGED <<board, told, taken>>
     \/ /\ Callback("FREQCHANNEL") /\ job.value # board.channel
        /\ Goto("newChannel") /\ sendSwapStatus("FREQCHANNEL", job.value)
     \/ /\ pc = "newChannel" /\ Goto("reset")
        /\ board' = setChannel(board, job.value, TRUE)
        /\ UNCHANGED <<told, taken>>

\* swapAddress is cc1101.devAddress itself: after the callback has set it, the
\* driver finds nothing to do and the chip keeps the address it had.
setDevAddressCallback ==
  \/ /\ Callback("DEVADDRESS")
     /\ Goto("newAddress") /\ sendSwapStatus("DEVADDRESS", job.value)
     /\ UNCHANGED moved
  \/ /\ pc = "newAddress" /\ Goto("status")
     /\ board' = setDevAddress([board EXCEPT !.addr = job.value], job.value)
     /\ moved' = TRUE
     /\ UNCHANGED <<told, taken>>

setNetworkId ==
  /\ UNCHANGED moved
  /\ \/ /\ Callback("NETWORKID") /\ job.value = board.sync
        /\ Goto("status") /\ UNCHANGED <<board, told, taken>>
     \/ /\ Callback("NETWORKID") /\ job.value # board.sync
        /\ Goto("newNetwork") /\ sendSwapStatus("NETWORKID", job.value)
     \/ /\ pc = "newNetwork" /\ Goto("status")
        /\ board' = setSyncWord(board, job.value, TRUE)
        /\ UNCHANGED <<told, taken>>

setTxInterval ==
  /\ Callback("TXINTERVAL") /\ Goto("status")
  /\ board' = [board EXCEPT !.interval = job.value]
  /\ UNCHANGED <<told, taken, moved>>

\* The other registers have no setter: a command reads them.
noSetter ==
  /\ pc = "setValue"
  /\ job.id \notin {"SYSSTATE", "FREQCHANNEL", "DEVADDRESS", "NETWORKID", "TXINTERVAL"}
  /\ Goto("status") /\ UNCHANGED <<board, told, taken, moved>>

\* Mutant: the value is not kept.
setDataUnsaved ==
  /\ pc = "status" /\ Goto("idle")
  /\ sendSwapStatus(job.id, Value(job.id)) /\ UNCHANGED moved

\* The status that setData() sends in any case, and what is left to do.
setData ==
  /\ pc = "status" /\ Goto(IF job.id \in Stored THEN "save" ELSE "idle")
  /\ sendSwapStatus(job.id, Value(job.id)) /\ UNCHANGED moved

\* EEPROM is written byte by byte, low byte first.
Low(n)  == n % ByteSize
High(n) == n - Low(n)

saveByte ==
  /\ \/ /\ pc = "save" /\ job.id = "DEVADDRESS" /\ pc' = "idle"
        /\ board' = [board EXCEPT !.eeprom.addr = board.addr]
        /\ doubt' = doubt \ {"DEVADDRESS"}
     \/ /\ pc = "save" /\ job.id = "TXINTERVAL" /\ pc' = "saveHigh"
        /\ board' = [board EXCEPT !.eeprom.interval = High(@) + Low(board.interval)]
        /\ UNCHANGED doubt
     \/ /\ pc = "saveHigh" /\ pc' = "idle"
        /\ board' = [board EXCEPT !.eeprom.interval = High(board.interval) + Low(@)]
        /\ doubt' = doubt \ {"TXINTERVAL"}
  /\ UNCHANGED <<setup, job, loops, heard, repeats, told, taken, twice, moved>>

\* PANSTAMP::reset(): one more status, then the endless loop for the watchdog.
reset ==
  /\ pc = "reset" /\ Goto("halted")
  /\ sendSwapStatus("SYSSTATE", RESTART)
  /\ UNCHANGED moved

-------------------------------------------------------------------------------
\* Sleep.  An interval is a signed int of two bytes.
Signed(n) == IF 2 * n >= ByteSize * ByteSize THEN n - ByteSize * ByteSize ELSE n

\* How often goToSleep() and sleepWell() sleep, and for how many seconds.
SleepPlan(n, crystal) ==
  CASE n % 8 = 0                 -> [loops |-> n \div 8, period |-> 8]
    [] n % 8 # 0 /\ n % 4 = 0    -> IF crystal THEN [loops |-> n \div 2, period |-> 2]
                                    ELSE [loops |-> n \div 4, period |-> 4]
    [] n % 4 # 0 /\ n % 2 = 0    -> [loops |-> n \div 2, period |-> 2]
    [] n % 2 # 0                 -> [loops |-> n, period |-> 1]

goToSleep ==
  /\ pc = "idle" /\ board.interval # 0
  /\ pc' = "asleep" /\ loops' = SleepPlan(Signed(board.interval), setup.crystal).loops
  /\ board' = [board EXCEPT !.state = RXOFF]
  /\ UNCHANGED <<setup, job, heard, repeats, history>>

\* One period, or the end: an interval below zero has no period at all.
sleeping ==
  /\ pc = "asleep"
  /\ \/ loops > 0 /\ loops' = loops - 1 /\ UNCHANGED <<pc, board>>
     \/ /\ loops <= 0 /\ loops' = 0 /\ pc' = "idle"
        /\ board' = [board EXCEPT !.state = RXON]
  /\ UNCHANGED <<setup, job, heard, repeats, history>>

-------------------------------------------------------------------------------
\* Power, the watchdog and time.

\* RAM is gone; the registers whose command was under way are in doubt.
Off == /\ pc' = "off" /\ job' = None /\ loops' = 0
       /\ board' = Cleared(board.eeprom)
       /\ table' = NewTable /\ log' = <<>> /\ again' = again
       /\ UNCHANGED <<setup, heard, told, taken, twice, moved>>

PowerLost == /\ pc # "off" /\ Off
             /\ doubt' = IF pc \in {"idle", "asleep", "off"} THEN doubt
                         ELSE doubt \cup ({job.id} \cap Stored)

Watchdog  == pc = "halted" /\ Off /\ UNCHANGED doubt

Boot == /\ pc = "off" /\ pc' = "idle"
        /\ board' = Booted(board.eeprom)
        /\ taken' = {} /\ moved' = FALSE
        /\ UNCHANGED <<setup, job, loops, heard, repeats, told, doubt, twice>>

Older(s) == [i \in DOMAIN s |-> [s[i] EXCEPT !.age = IF @ < Expiration THEN @ + 1 ELSE @]]

\* millis() stands still while the interrupt routine runs.
Tick == /\ pc = "idle" /\ setup.hops > 0
        /\ table' = Older(table) /\ log' = Older(log)
        /\ UNCHANGED <<setup, pc, job, board, loops, heard, again, history>>

Registers == \/ setSysState \/ setFreqChannel \/ setDevAddressCallback \/ setNetworkId
             \/ setTxInterval \/ noSetter \/ setData \/ saveByte \/ reset

Next == \/ \E m \in Messages : isrGDO0event(m)
        \/ Registers \/ goToSleep \/ sleeping
        \/ PowerLost \/ Watchdog \/ Boot \/ Tick

Spec == Init /\ [][Next]_vars

-------------------------------------------------------------------------------
Steps == {"idle", "setValue", "newChannel", "newAddress", "newNetwork", "status", "save",
          "saveHigh", "reset", "halted", "asleep", "off"}
Entries == [fn : {"STA", "QRY", "CMD", "garbled", "cipher"}, reg : Bytes, nonce : Bytes,
            age : 0..Expiration]
Intervals == 0 .. ByteSize * ByteSize - 1

\* The types of the variables.
TypeOK ==
  /\ setup \in Setups /\ pc \in Steps /\ job \in Messages \cup {None}
  /\ board \in [addr : Bytes, channel : Bytes, sync : NoSync..SketchSync, interval : Intervals,
                nonce : Bytes, state : RESTART..SYNC,
                chip : [addr : Bytes, channel : Bytes, sync : NoSync..SketchSync],
                eeprom : [addr : Bytes, channel : Bytes, sync : NoSync..SketchSync,
                          interval : Intervals]]
  /\ loops \in Int /\ heard \in Nat
  /\ table \in [1..Depth -> Entries] /\ again \in BOOLEAN
  /\ DOMAIN log = 1..Len(log) /\ Len(log) <= Depth /\ \A i \in DOMAIN log : log[i] \in Entries
  /\ told \in [Stored -> Bytes \cup Intervals \cup {Nothing, Garbled}]
  /\ doubt \subseteq Stored /\ taken \subseteq Bytes
  /\ twice \in BOOLEAN /\ moved \in BOOLEAN

\* What anti-playback is for: until the board restarts or its nonce has come
\* round, no command is carried out that carries the nonce of an earlier one
\* (Panstamp.cpp:138-148, swstatus.cpp:43).  Security and nonce are not kept, so
\* that a restart ends the promise.
CommandsTakenOnce == ~twice

\* What a node has told the network of its address and its interval is what it
\* works with, and what it will work with after any restart, once the command is
\* done; only power lost between the confirmation and the last byte of EEPROM
\* (register.cpp:78-88) leaves the register in doubt, and the address 0, which a
\* command may set, becomes 0xFF with the next restart (cc1101.cpp:221).
Restored(r) == IF r # "DEVADDRESS" THEN board.eeprom.interval
               ELSE IF board.eeprom.addr = BCAST THEN Erased ELSE board.eeprom.addr
ConfirmedIsKept ==
  pc \in {"idle", "asleep"} =>
    \A r \in Stored : \/ told[r] \in {Nothing, Garbled} \/ r \in doubt
                      \/ r = "DEVADDRESS" /\ told[r] = BCAST
                      \/ told[r] = Value(r) /\ Value(r) = Restored(r)

\* The chip is on the channel and in the network that the driver's copies name,
\* and filters on the node's address, after any restart and command
\* (cc1101.cpp:205-226, 300-365); except that an address set by a command
\* reaches the chip at the next restart, and 0xFF never does.
ChipFollowsCopies ==
  pc # "off" /\ ~setup.second =>
    /\ board.chip.channel = board.channel /\ board.chip.sync = board.sync
    /\ board.chip.addr = board.addr \/ moved \/ board.addr = Erased

\* A packet in clear that the repeater has sent is not sent again within the
\* expiration time unless as many others as the table holds came in between
\* (repeater.cpp:70-101).
RepeatedOnce == ~again
===============================================================================
