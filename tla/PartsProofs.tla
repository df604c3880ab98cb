------------------------------ MODULE PartsProofs ------------------------------
(***************************************************************************)
(* Proofs about the parts of MCParts: the panStamp with its registers, its *)
(* EEPROM and its repeater (SwapNode), for bytes of any size, any packets  *)
(* and any setup; the configuration (ConfigFile), for any file and keys;   *)
(* and the driver of the card (SdCard), for any card, blocks and times.    *)
(***************************************************************************)
EXTENDS MCParts, SequenceTheorems, TLAPS

-----------------------------------------------------------------------------
(* The panStamp: the inductive invariant.                                  *)

Bytes   == 0 .. ByteSize - 1
Words   == Node!NoSync .. Node!SketchSync
Chips   == [addr : Bytes, channel : Bytes, sync : Words]
Eeproms == [addr : Bytes, channel : Bytes, sync : Words, interval : Node!Intervals]
Boards  == [addr : Bytes, channel : Bytes, sync : Words, interval : Node!Intervals,
            nonce : Bytes, state : Node!RESTART .. Node!SYNC, chip : Chips, eeprom : Eeproms]

Transactions == [fn : {"STA", "QRY", "CMD", "garbled", "cipher"}, reg : Bytes, nonce : Bytes,
                 age : 0 .. Expiration]
Told == Node!Intervals \cup {Node!Nothing, Node!Garbled}

NodeTypes ==
  /\ setup \in Setups /\ pc \in Node!Steps /\ job \in Messages \cup {Node!None}
  /\ board \in Boards /\ loops \in Int /\ heard \in Nat
  /\ table \in [1 .. Depth -> Transactions] /\ log \in Seq(Transactions) /\ again \in BOOLEAN
  /\ told \in [Node!Stored -> Told] /\ doubt \subseteq Node!Stored /\ taken \subseteq Bytes
  /\ twice \in BOOLEAN /\ moved \in BOOLEAN

\* No command is being carried out.
AtRest == pc \in {"idle", "asleep", "off"}

\* Which command leads to which step.
Place ==
  /\ pc = "newChannel" => job.id = "FREQCHANNEL"
  /\ pc = "newAddress" => job.id = "DEVADDRESS"
  /\ pc = "newNetwork" => job.id = "NETWORKID"
  /\ pc = "save" => job.id \in Node!Stored
  /\ pc = "saveHigh" => job.id = "TXINTERVAL"
  /\ pc \in {"reset", "halted"} => job.id \in {"SYSSTATE", "FREQCHANNEL"}
  /\ ~AtRest => job \in Messages

\* The nonce is ahead of those that were taken: each command sends a status
\* before the next one is looked at.
Ahead ==
  setup.play /\ pc # "off" =>
    \A n \in taken : /\ n <= board.nonce
                     /\ n = board.nonce => pc \in {"setValue", "status", "reset"}

\* What was repeated last is still in the table.
Remembered == Len(log) <= Depth /\ \A i \in DOMAIN log : log[i] = table[i]

\* The command to r is under way.
Changing(r) == ~AtRest /\ job.id = r

\* The network knows of r nothing else than v.
Knows(r, v) == \/ told[r] \in {Node!Nothing, Node!Garbled} \/ r \in doubt
               \/ r = "DEVADDRESS" /\ told[r] = Node!BCAST
               \/ told[r] = v

\* The board works with what it will work with after a restart.
Settled(r) == \/ Node!Value(r) = Node!Restored(r)
              \/ r = "DEVADDRESS" /\ Node!Value(r) = Node!BCAST

\* A register that no command changes is in EEPROM and as the network knows it;
\* one that is being saved, byte by byte, is as the network knows it.
Kept ==
  /\ \A r \in Node!Stored :
       IF pc = "off" THEN Knows(r, Node!Restored(r))
       ELSE ~Changing(r) => Settled(r) /\ Knows(r, Node!Value(r))
  /\ pc \in {"save", "saveHigh"} => told[job.id] \in {Node!Garbled, Node!Value(job.id)}
  /\ pc = "saveHigh" => Node!Low(board.eeprom.interval) = Node!Low(board.interval)

NodeInv == /\ NodeTypes /\ Place /\ Ahead /\ Remembered /\ Kept
           /\ NothingTwice /\ ChipFollowsCopies
-----------------------------------------------------------------------------
(* Bytes.                                                                  *)

\* The size of a byte and of two.
LEMMA Sizes == /\ ByteSize \in Nat /\ 2 < ByteSize
               /\ ByteSize * ByteSize \in Nat
               /\ ByteSize <= ByteSize * ByteSize
  <1>1. ByteSize \in Nat /\ 2 < ByteSize
  BY ByteAssumption
  <1>2. ByteSize * ByteSize \in Nat
  BY <1>1
  <1>3. ByteSize <= ByteSize * ByteSize
  BY <1>1, <1>2
  <1> QED  BY <1>1, <1>2, <1>3

\* The nonce counts up or comes round.
LEMMA NextNonce ==
  ASSUME NEW n \in Bytes
  PROVE  /\ (n + 1) % ByteSize \in Bytes
         /\ (n + 1) % ByteSize \in {0, n + 1}
  BY Sizes DEF Bytes

\* Division with remainder,
LEMMA Division ==
  ASSUME NEW n \in Nat
  PROVE  /\ n % ByteSize \in Bytes /\ n \div ByteSize \in Nat
         /\ n = (ByteSize * (n \div ByteSize)) + (n % ByteSize)
  BY Sizes DEF Bytes

\* the step from one multiple to a larger one,
LEMMA Multiple ==
  ASSUME NEW d \in Nat, d >= 1
  PROVE  ByteSize * d \in Nat /\ ByteSize * d >= ByteSize
  <1> PICK e \in Nat : d = e + 1
    <2>1. d - 1 \in Nat /\ d = (d - 1) + 1
      OBVIOUS
    <2> QED  BY <2>1
  <1>1. ByteSize * e \in Nat
    BY Sizes
  <1>2. ByteSize * (e + 1) = (ByteSize * e) + ByteSize
    BY Sizes
  <1> QED  BY <1>1, <1>2, Sizes

\* and the remainder of what is put together from a multiple and a byte.
LEMMA Remainder ==
  ASSUME NEW n \in Nat, NEW q \in Nat, NEW r \in Bytes, n = (ByteSize * q) + r
  PROVE  n % ByteSize = r
  <1>1. n % ByteSize \in Bytes /\ n \div ByteSize \in Nat /\ n = (ByteSize * (n \div ByteSize)) + (n % ByteSize)
    BY Division
  <1> DEFINE p == n \div ByteSize
             s == n % ByteSize
  <1>2. ByteSize * (p - q) = r - s
    BY <1>1, Sizes DEF Bytes
  <1>3. CASE p = q
    BY <1>2, <1>1, <1>3, Sizes DEF Bytes
  <1>4. CASE p - q >= 1
    <2>1. p - q \in Nat /\ ByteSize * (p - q) >= ByteSize
      BY <1>1, <1>4, Multiple
    <2> QED BY <2>1, <1>2, <1>1, Sizes DEF Bytes
  <1>5. CASE q - p >= 1
    <2>1. q - p \in Nat /\ ByteSize * (q - p) >= ByteSize
      BY <1>1, <1>5, Multiple
    <2>2. ByteSize * (q - p) = s - r
      BY <1>2, <1>1, Sizes DEF Bytes
    <2> QED BY <2>1, <2>2, <1>1, Sizes DEF Bytes
  <1> QED BY <1>1, <1>3, <1>4, <1>5

-----------------------------------------------------------------------------
(* The board: what the setters of the driver and a start make of it.       *)

\* The setters work on the radio's settings only.
OnlyRadio(c, b) ==
  /\ c \in Boards /\ c.interval = b.interval /\ c.nonce = b.nonce /\ c.state = b.state
  /\ c.eeprom.addr = b.eeprom.addr /\ c.eeprom.interval = b.eeprom.interval

\* An address that is not the present one reaches the chip.
AddressSet(c, b, v) ==
  /\ OnlyRadio(c, b) /\ c.eeprom = b.eeprom
  /\ c.addr = v /\ c.channel = b.channel /\ c.sync = b.sync
  /\ c.chip.channel = b.chip.channel /\ c.chip.sync = b.chip.sync
  /\ c.chip.addr = IF b.addr = v THEN b.chip.addr ELSE v

\* A channel and a synchronization word leave the chip with them if it had the copy.
ChannelSet(c, b, v, save) ==
  /\ OnlyRadio(c, b) /\ (~save => c.eeprom = b.eeprom)
  /\ c.addr = b.addr /\ c.channel = v /\ c.sync = b.sync
  /\ c.chip.addr = b.chip.addr /\ c.chip.sync = b.chip.sync
  /\ b.chip.channel = b.channel => c.chip.channel = v

WordSet(c, b, v, save) ==
  /\ OnlyRadio(c, b) /\ (~save => c.eeprom = b.eeprom)
  /\ c.addr = b.addr /\ c.channel = b.channel /\ c.sync = v
  /\ c.chip.addr = b.chip.addr /\ c.chip.channel = b.chip.channel
  /\ b.chip.sync = b.sync \/ b.sync # v => c.chip.sync = v

\* That is what setDevAddress() does,
LEMMA SettingAddress ==
  ASSUME NEW b \in Boards, NEW v \in Bytes
  PROVE  AddressSet(Node!setDevAddress(b, v), b, v)
  BY DEF AddressSet, OnlyRadio, Node!setDevAddress, Boards, Chips

\* setChannel()
LEMMA SettingChannel ==
  ASSUME NEW b \in Boards, NEW v \in Bytes, NEW save \in BOOLEAN
  PROVE  ChannelSet(Node!setChannel(b, v, save), b, v, save)
  BY DEF ChannelSet, OnlyRadio, Node!setChannel, Boards, Chips, Eeproms

\* and setSyncWord().
LEMMA SettingWord ==
  ASSUME NEW b \in Boards, NEW v \in Words, NEW save \in BOOLEAN
  PROVE  WordSet(Node!setSyncWord(b, v, save), b, v, save)
  BY DEF WordSet, OnlyRadio, Node!setSyncWord, Boards, Chips, Eeproms

\* The values that name something.
LEMMA Names0 ==
  /\ 0 \in Bytes /\ 2 \in Bytes /\ Node!Erased \in Bytes /\ 0 # Node!Erased /\ Node!BCAST = 0
  /\ {Node!NoSync, Node!ChipSync, Node!DefaultSync, Node!SketchSync} \subseteq Words
  /\ Node!DefaultSync # Node!NoSync
  /\ 0 \in Node!Intervals /\ ByteSize * ByteSize - 1 \in Node!Intervals
  /\ Bytes \subseteq Node!Intervals /\ Node!Intervals \subseteq Nat
  <1>1. 0 \in Bytes /\ 2 \in Bytes /\ Node!Erased \in Bytes /\ 0 # Node!Erased /\ Node!BCAST = 0
    BY Sizes DEF Bytes, Node!Erased, Node!BCAST
  <1>2. /\ {Node!NoSync, Node!ChipSync, Node!DefaultSync, Node!SketchSync} \subseteq Words
        /\ Node!DefaultSync # Node!NoSync
    BY DEF Words, Node!NoSync, Node!ChipSync, Node!DefaultSync, Node!SketchSync
  <1>3. 0 \in Node!Intervals /\ ByteSize * ByteSize - 1 \in Node!Intervals
    BY Sizes DEF Node!Intervals
  <1>4. Bytes \subseteq Node!Intervals /\ Node!Intervals \subseteq Nat
    BY Sizes DEF Node!Intervals, Bytes
  <1> QED  BY <1>1, <1>2, <1>3, <1>4

\* RAM at the start.
Blank(b, e) ==
  /\ b \in Boards /\ b.addr = 0 /\ b.channel = 0 /\ b.sync = Node!NoSync
  /\ b.interval = 0 /\ b.nonce = 0 /\ b.eeprom = e

LEMMA ClearedBoard ==
  ASSUME NEW e \in Eeproms
  PROVE  Blank(Node!Cleared(e), e)
  BY Names0 DEF Blank, Node!Cleared, Node!ChipReset, Node!RESTART, Node!SYNC, Boards, Chips

\* Where a board works after setDefaultRegs().
Default(a) == IF a \in {0, Node!Erased} THEN Node!Erased ELSE a

\* The chip after setDefaultRegs() is as the copies say, but for the address 0xFF.
Follows(c) == /\ c.chip.channel = c.channel /\ c.chip.sync = c.sync
              /\ c.chip.addr = c.addr \/ c.addr = Node!Erased

Ready(c, b) ==
  /\ c \in Boards /\ c.addr = Default(b.addr) /\ Follows(c)
  /\ c.interval = b.interval /\ c.nonce = b.nonce /\ c.eeprom = b.eeprom

LEMMA DefaultRegs ==
  ASSUME NEW b \in Boards, b.sync = Node!NoSync, b.channel = 0
  PROVE  Ready(Node!setDefaultRegs(b), b)
  <1>1. PICK b1 : b1 = [b EXCEPT !.chip = Node!ChipReset]
    OBVIOUS
  <1>2. /\ b1 \in Boards /\ b1.addr = b.addr /\ b1.channel = 0 /\ b1.sync = Node!NoSync
        /\ b1.interval = b.interval /\ b1.nonce = b.nonce /\ b1.eeprom = b.eeprom
        /\ b1.chip.channel = 0
    BY <1>1, Names0 DEF Node!ChipReset, Boards, Chips
  <1>3. PICK b2 : b2 = Node!setSyncWord(b1, Node!DefaultSync, FALSE)
    OBVIOUS
  <1>4. WordSet(b2, b1, Node!DefaultSync, FALSE)
    BY <1>2, <1>3, Names0, SettingWord
  <1>5. /\ b2 \in Boards /\ b2.addr = b.addr /\ b2.channel = 0 /\ b2.sync = Node!DefaultSync
        /\ b2.interval = b.interval /\ b2.nonce = b.nonce /\ b2.eeprom = b.eeprom
        /\ b2.chip.channel = 0 /\ b2.chip.sync = Node!DefaultSync
    BY <1>2, <1>4, Names0 DEF WordSet, OnlyRadio
  <1>6. PICK b3 : b3 = IF b2.addr \in {0, Node!Erased} THEN Node!setDevAddress(b2, Node!Erased)
                       ELSE [b2 EXCEPT !.chip.addr = b2.addr]
    OBVIOUS
  <1>7. /\ b3 \in Boards /\ b3.addr = Default(b.addr) /\ b3.channel = 0
        /\ b3.sync = Node!DefaultSync
        /\ b3.interval = b.interval /\ b3.nonce = b.nonce /\ b3.eeprom = b.eeprom
        /\ b3.chip.channel = 0 /\ b3.chip.sync = Node!DefaultSync
        /\ b3.chip.addr = b3.addr \/ b3.addr = Node!Erased
    <2>1. CASE b2.addr \in {0, Node!Erased}
      <3>1. AddressSet(b3, b2, Node!Erased)
        BY <1>5, <1>6, <2>1, Names0, SettingAddress
      <3> QED  BY <1>5, <2>1, <3>1 DEF AddressSet, OnlyRadio, Default
    <2>2. CASE b2.addr \notin {0, Node!Erased}
      BY <1>5, <1>6, <2>2, Names0 DEF Default, Boards, Chips
    <2> QED  BY <2>1, <2>2
  <1>8. Node!setDefaultRegs(b) = Node!setChannel(b3, 0, FALSE)
    <2>1. Node!setDefaultRegs(b)
            = Node!setChannel(b3, IF b3.channel = Node!Erased THEN 0 ELSE b3.channel, FALSE)
      BY <1>1, <1>2, <1>3, <1>6 DEF Node!setDefaultRegs
    <2> QED  BY <2>1, <1>7
  <1>9. ChannelSet(Node!setDefaultRegs(b), b3, 0, FALSE)
    BY <1>7, <1>8, Names0, SettingChannel
  <1> QED  BY <1>7, <1>9 DEF ChannelSet, OnlyRadio, Ready, Follows

\* A start of the board loads what is in EEPROM, and the chip follows.
Started(c, e) ==
  /\ c \in Boards /\ c.addr = Default(e.addr) /\ c.interval = e.interval
  /\ c.nonce = 0 /\ c.eeprom = e /\ (~setup.second => Follows(c))

LEMMA InitBoard ==
  ASSUME NEW e \in Eeproms
  PROVE  /\ Node!init(e) \in Boards /\ Node!init(e).addr = Default(e.addr)
         /\ Node!init(e).interval = e.interval /\ Node!init(e).nonce = 0
         /\ Node!init(e).eeprom = e /\ Follows(Node!init(e))
  <1>1. PICK l : l = [Node!Cleared(e) EXCEPT !.addr = e.addr, !.interval = e.interval]
    OBVIOUS
  <1>2. Blank(Node!Cleared(e), e)
    BY ClearedBoard
  <1>3. /\ l \in Boards /\ l.addr = e.addr /\ l.interval = e.interval /\ l.nonce = 0
        /\ l.eeprom = e /\ l.sync = Node!NoSync /\ l.channel = 0
    BY <1>1, <1>2 DEF Blank, Boards, Eeproms
  <1>4. PICK r : r = Node!setDefaultRegs(l)
    OBVIOUS
  <1>5. Ready(r, l)
    BY <1>3, <1>4, DefaultRegs
  <1>6. PICK i : i = [r EXCEPT !.nonce = 0, !.state = Node!RXON]
    OBVIOUS
  <1>7. r \in Boards
    BY <1>5 DEF Ready
  <1>8. i \in Boards /\ i.nonce = 0
    <2>1. 0 \in Bytes
      BY Names0
    <2>2. Node!RXON \in Node!RESTART .. Node!SYNC
      BY DEF Node!RXON, Node!RESTART, Node!SYNC
    <2> QED  BY <1>6, <1>7, <2>1, <2>2 DEF Boards
  <1>9. /\ i.addr = r.addr /\ i.channel = r.channel /\ i.sync = r.sync
        /\ i.interval = r.interval /\ i.chip = r.chip /\ i.eeprom = r.eeprom
    BY <1>6, <1>7 DEF Boards
  <1>10. Node!init(e) = i
    BY <1>1, <1>4, <1>6 DEF Node!init
  <1>11. /\ i.addr = Default(e.addr) /\ i.interval = e.interval /\ i.eeprom = e /\ Follows(i)
    BY <1>3, <1>5, <1>9 DEF Ready, Follows
  <1> QED  BY <1>8, <1>10, <1>11

LEMMA BootedBoard ==
  ASSUME NEW e \in Eeproms
  PROVE  Started(Node!Booted(e), e)
  <1>1. PICK i : i = Node!init(e)
    OBVIOUS
  <1>2. /\ i \in Boards /\ i.addr = Default(e.addr) /\ i.interval = e.interval /\ i.nonce = 0
        /\ i.eeprom = e /\ Follows(i)
    BY <1>1, InitBoard
  <1>3. CASE ~setup.second
    BY <1>1, <1>2, <1>3 DEF Node!Booted, Started
  <1>4. CASE setup.second
    <2>1. PICK own : own = Node!setDefaultRegs(Node!Cleared(e))
      OBVIOUS
    <2>2. own \in Boards
      <3>1. Blank(Node!Cleared(e), e)
        BY ClearedBoard
      <3>2. Ready(own, Node!Cleared(e))
        BY <2>1, <3>1, DefaultRegs DEF Blank
      <3> QED  BY <3>2 DEF Ready
    <2>3. PICK o2 : o2 = Node!setChannel(own, 0, FALSE)
      OBVIOUS
    <2>4. ChannelSet(o2, own, 0, FALSE)
      BY <2>2, <2>3, Names0, SettingChannel
    <2>5. PICK o3 : o3 = Node!setSyncWord(o2, Node!SketchSync, FALSE)
      OBVIOUS
    <2>6. o2 \in Boards
      BY <2>4 DEF ChannelSet, OnlyRadio
    <2>7. WordSet(o3, o2, Node!SketchSync, FALSE)
      BY <2>5, <2>6, Names0, SettingWord
    <2>8. PICK o4 : o4 = Node!setDevAddress(o3, 2)
      OBVIOUS
    <2>9. o3 \in Boards
      BY <2>7 DEF WordSet, OnlyRadio
    <2>10. AddressSet(o4, o3, 2)
      BY <2>8, <2>9, Names0, SettingAddress
    <2>11. o4.chip \in Chips
      BY <2>10 DEF AddressSet, OnlyRadio, Boards
    <2>12. Node!Booted(e) = [i EXCEPT !.chip = o4.chip]
      BY <1>1, <1>2, <1>4, <2>1, <2>3, <2>5, <2>8 DEF Node!Booted, Node!sketchInit
    <2> QED  BY <1>2, <1>4, <2>11, <2>12 DEF Boards, Started
  <1> QED  BY <1>3, <1>4

\* What is assumed of setups and packets.
LEMMA SetupFacts ==
  ASSUME NEW s \in Setups
  PROVE  /\ s.play \in BOOLEAN /\ s.crypt \in BOOLEAN /\ s.hops \in Nat /\ s.check \in BOOLEAN
         /\ s.crystal \in BOOLEAN /\ s.second \in BOOLEAN
  BY SetupAssumption

LEMMA MessageFacts ==
  ASSUME NEW m \in Messages
  PROVE  /\ m.fn \in {"STA", "QRY", "CMD"} /\ m.dest \in Bytes /\ m.reg \in Bytes
         /\ m.nonce \in Bytes /\ m.hop \in Nat /\ m.enc \in BOOLEAN /\ m.value \in Nat
         /\ m.id \in {"DEVADDRESS", "FREQCHANNEL"} => m.value \in Bytes
         /\ m.id = "SYSSTATE" => m.value \in Node!RESTART .. Node!SYNC
         /\ m.id = "NETWORKID" => m.value \in Words
         /\ m.id = "TXINTERVAL" => m.value \in Node!Intervals
  <1>1. /\ m \in [fn : {"STA", "QRY", "CMD"}, dest : Bytes, reg : Bytes, id : STRING,
                  nonce : Bytes, hop : Nat, enc : BOOLEAN, fits : BOOLEAN, value : Nat]
        /\ m.id \in {"DEVADDRESS", "FREQCHANNEL"} => m.value < ByteSize
        /\ m.id \in {"SYSSTATE", "NETWORKID"} => m.value < 4
        /\ m.id = "TXINTERVAL" => m.value < ByteSize * ByteSize
    BY MessagesAssumption DEF Bytes
  <1>2. m.value \in Nat
    BY <1>1
  <1>3. m.value < ByteSize => m.value \in Bytes
    BY <1>2, Sizes DEF Bytes
  <1>4. m.value < 4 => m.value \in Node!RESTART .. Node!SYNC /\ m.value \in Words
    BY <1>2 DEF Words, Node!RESTART, Node!SYNC, Node!NoSync, Node!SketchSync
  <1>5. m.value < ByteSize * ByteSize => m.value \in Node!Intervals
    BY <1>2, Sizes DEF Node!Intervals
  <1> QED  BY <1>1, <1>3, <1>4, <1>5

\* The types are those of SwapNode.
LEMMA TypesOfNode ==
  ASSUME NodeTypes, Len(log) <= Depth
  PROVE  Node!TypeOK
  <1>1. board \in Boards
    BY DEF NodeTypes
  <1>2. /\ setup \in Setups /\ pc \in Node!Steps /\ job \in Messages \cup {Node!None}
        /\ loops \in Int /\ heard \in Nat /\ again \in BOOLEAN
        /\ doubt \subseteq Node!Stored /\ taken \subseteq Node!Bytes
        /\ twice \in BOOLEAN /\ moved \in BOOLEAN
    BY DEF NodeTypes, Bytes, Node!Bytes
  <1>3. table \in [1 .. Depth -> Node!Entries]
    BY DEF NodeTypes, Transactions, Node!Entries, Bytes, Node!Bytes
  <1>4. DOMAIN log = 1 .. Len(log) /\ \A i \in DOMAIN log : log[i] \in Node!Entries
    <2>1. log \in Seq(Transactions) /\ Transactions = Node!Entries
      BY DEF NodeTypes, Transactions, Node!Entries, Bytes, Node!Bytes
    <2> QED  BY <2>1
  <1>5. told \in [Node!Stored -> Node!Bytes \cup Node!Intervals \cup {Node!Nothing, Node!Garbled}]
    BY DEF NodeTypes, Told
  <1>6. board \in [addr : Node!Bytes, channel : Node!Bytes, sync : Node!NoSync .. Node!SketchSync,
                  interval : Node!Intervals, nonce : Node!Bytes, state : Node!RESTART .. Node!SYNC,
                  chip : [addr : Node!Bytes, channel : Node!Bytes,
                          sync : Node!NoSync .. Node!SketchSync],
                  eeprom : [addr : Node!Bytes, channel : Node!Bytes,
                            sync : Node!NoSync .. Node!SketchSync, interval : Node!Intervals]]
    BY <1>1 DEF Boards, Chips, Eeproms, Bytes, Words, Node!Bytes
  <1> QED  BY <1>2, <1>3, <1>4, <1>5, <1>6 DEF Node!TypeOK

\* The nonces that were taken are behind the board's, or it is one of them.
Passed  == \A n \in taken : n < board.nonce
Reached == \A n \in taken : n <= board.nonce

\* The network is told v, or something garbled, of id.
Announced(id, v) ==
  \A r \in Node!Stored : IF r = id THEN told'[r] \in {Node!Garbled, v} ELSE told'[r] = told[r]

\* A status is sent: the nonce leaves the commands that were taken behind.
LEMMA StatusSent ==
  ASSUME NodeTypes, NEW id, NEW v \in Node!Intervals, Node!sendSwapStatus(id, v)
  PROVE  /\ board' \in Boards /\ taken' \subseteq Bytes /\ told' \in [Node!Stored -> Told]
         /\ board'.addr = board.addr /\ board'.channel = board.channel
         /\ board'.sync = board.sync /\ board'.interval = board.interval
         /\ board'.chip = board.chip /\ board'.eeprom = board.eeprom
         /\ Reached => Passed'
         /\ Announced(id, v)
  <1>1. /\ board \in Boards /\ taken \subseteq Bytes /\ told \in [Node!Stored -> Told]
    BY DEF NodeTypes
  <1>2. /\ board' = [board EXCEPT !.nonce = (@ + 1) % ByteSize]
        /\ taken' = IF board'.nonce = 0 THEN {} ELSE taken
        /\ told' = IF id \in Node!Stored
                   THEN [told EXCEPT ![id] = IF setup.crypt THEN Node!Garbled ELSE v] ELSE told
    BY DEF Node!sendSwapStatus
  <1>3. board.nonce \in Bytes
    BY <1>1 DEF Boards
  <1>4. PICK n \in Bytes : n = (board.nonce + 1) % ByteSize /\ n \in {0, board.nonce + 1}
    BY <1>3, NextNonce
  <1>5. /\ board' \in Boards /\ board'.nonce = n
        /\ board'.addr = board.addr /\ board'.channel = board.channel
        /\ board'.sync = board.sync /\ board'.interval = board.interval
        /\ board'.chip = board.chip /\ board'.eeprom = board.eeprom
    BY <1>1, <1>2, <1>4 DEF Boards
  <1>6. taken' \subseteq Bytes
    BY <1>1, <1>2
  <1>7. Reached => Passed'
    BY <1>1, <1>2, <1>3, <1>4, <1>5 DEF Bytes, Passed, Reached
  <1>8. told' \in [Node!Stored -> Told]
    BY <1>1, <1>2 DEF Told
  <1>9. Announced(id, v)
    BY <1>1, <1>2 DEF Announced
  <1> QED  BY <1>5, <1>6, <1>7, <1>8, <1>9

\* The value of a register is one.
LEMMA ValueType ==
  ASSUME NodeTypes, NEW id
  PROVE  Node!Value(id) \in Node!Intervals
  BY Names0 DEF NodeTypes, Boards, Node!Value, Node!Stored

\* While a command is carried out the other registers stay as they are.
LEMMA Meanwhile ==
  ASSUME Kept, ~AtRest, ~AtRest', job' = job, doubt' = doubt, pc' \notin {"save", "saveHigh"},
         \A r \in Node!Stored :
           r # job.id => /\ Node!Value(r)' = Node!Value(r)
                         /\ Node!Restored(r)' = Node!Restored(r)
                         /\ told'[r] = told[r]
  PROVE  Kept'
  BY DEF Kept, AtRest, Changing, Settled, Knows

\* A packet as the routine works on it, decrypted or encrypted.
Packets == [fn : {"STA", "QRY", "CMD", "garbled", "cipher"}, dest : Bytes, reg : Bytes,
            id : STRING, nonce : Bytes, hop : Nat, enc : BOOLEAN, fits : BOOLEAN, value : Nat]

LEMMA PacketsOf ==
  /\ Messages \subseteq Packets
  /\ \A m \in Messages : Node!Received(m) \in Packets
  /\ \A m \in Packets : Node!Sent(m) \in Packets
  <1>1. Messages \subseteq Packets
    BY MessagesAssumption DEF Packets, Bytes
  <1>2. \A m \in Messages : Node!Received(m) \in Packets
    BY <1>1 DEF Packets, Node!Received
  <1>3. \A m \in Packets : Node!Sent(m) \in Packets
    <2> SUFFICES ASSUME NEW m \in Packets PROVE Node!Sent(m) \in Packets
      OBVIOUS
    <2>1. m.hop + 1 \in Nat
      BY DEF Packets
    <2>2. CASE m.enc
      BY <2>1, <2>2 DEF Packets, Node!Sent
    <2>3. CASE ~m.enc
      BY <2>1, <2>3 DEF Packets, Node!Sent
    <2> QED  BY <2>2, <2>3
  <1> QED  BY <1>1, <1>2, <1>3

\* The repeater: what it repeats goes first into its table, as into the history,
\* and is not there.
LEMMA PacketHandled ==
  ASSUME NodeTypes, Remembered, ~again, NEW m \in Packets, Node!packetHandler(m)
  PROVE  /\ table' \in [1 .. Depth -> Transactions] /\ log' \in Seq(Transactions)
         /\ again' = FALSE /\ Remembered'
  <1>1. /\ table \in [1 .. Depth -> Transactions] /\ log \in Seq(Transactions)
        /\ Len(log) <= Depth /\ \A i \in DOMAIN log : log[i] = table[i]
    BY DEF NodeTypes, Remembered
  <1>2. CASE UNCHANGED <<table, log, again>>
    BY <1>1, <1>2 DEF NodeTypes, Remembered
  <1>3. CASE /\ Node!Repeats(m)
             /\ Node!saveTransaction(Node!Sent(m))
             /\ log' = SubSeq(<<Node!Transaction(Node!Sent(m))>> \o log, 1,
                              IF Len(log) < Depth THEN Len(log) + 1 ELSE Depth)
             /\ again' = (again \/ Node!IsLogged(m))
    <2>1. PICK t : t = Node!Transaction(Node!Sent(m))
      OBVIOUS
    <2>2. t \in Transactions
      BY <2>1, PacketsOf, TableAssumption DEF Packets, Node!Transaction, Transactions
    <2>3. Depth \in Nat
      BY TableAssumption
    <2>4. table' = [i \in 1 .. Depth |-> IF i = 1 THEN t ELSE table[i - 1]]
      BY <1>3, <2>1 DEF Node!saveTransaction
    <2>5. table' \in [1 .. Depth -> Transactions]
      BY <1>1, <2>2, <2>3, <2>4
    <2>6. PICK s : s = <<t>> \o log
      OBVIOUS
    <2>7. /\ s \in Seq(Transactions) /\ Len(s) = Len(log) + 1
          /\ \A i \in 1 .. Len(s) : s[i] = IF i = 1 THEN t ELSE log[i - 1]
      <3>1. <<t>> \in Seq(Transactions) /\ Len(<<t>>) = 1 /\ <<t>>[1] = t
        BY <2>2
      <3> QED  BY <1>1, <2>6, <3>1, ConcatProperties
    <2>8. PICK n : n = IF Len(log) < Depth THEN Len(log) + 1 ELSE Depth
      OBVIOUS
    <2>9. Len(log) \in Nat /\ DOMAIN log = 1 .. Len(log)
      BY <1>1
    <2>10. n \in 0 .. Len(s) /\ n <= Depth
      BY <1>1, <2>3, <2>7, <2>8, <2>9
    <2>11. log' = SubSeq(s, 1, n)
      BY <1>3, <2>1, <2>6, <2>8
    <2>12. /\ log' \in Seq(Transactions) /\ Len(log') = n
           /\ \A i \in 1 .. n : log'[i] = s[i]
      BY <2>7, <2>10, <2>11, SubSeqProperties
    <2>13. \A i \in 1 .. n : log'[i] = table'[i]
      <3> SUFFICES ASSUME NEW i \in 1 .. n PROVE log'[i] = table'[i]
        OBVIOUS
      <3>1. i \in 1 .. Depth /\ i \in 1 .. Len(s) /\ log'[i] = s[i]
        BY <2>3, <2>7, <2>9, <2>10, <2>12
      <3>2. CASE i = 1
        BY <2>4, <2>7, <3>1, <3>2
      <3>3. CASE i # 1
        <4>1. i - 1 \in DOMAIN log
          BY <2>7, <2>9, <3>1, <3>3
        <4> QED  BY <1>1, <2>4, <2>7, <3>1, <3>3, <4>1
      <3> QED  BY <3>2, <3>3
    <2>14. Remembered'
      <3>1. DOMAIN log' = 1 .. n
        BY <2>12
      <3> QED  BY <2>10, <2>12, <2>13, <3>1 DEF Remembered
    <2>15. ~Node!IsLogged(m)
      <3>1. SUFFICES ASSUME NEW i \in DOMAIN log,
                            log[i] = [Node!Transaction(m) EXCEPT !.age = log[i].age],
                            log[i].age < Expiration
                     PROVE  FALSE
        BY DEF Node!IsLogged
      <3>2. i \in 1 .. Depth /\ log[i] = table[i]
        BY <1>1, <2>3, <2>9
      <3>3. table[i].reg = m.reg /\ table[i].fn = m.fn /\ table[i].nonce = m.nonce
        BY <3>1, <3>2 DEF Node!Transaction
      <3> QED  BY <1>3, <3>1, <3>2, <3>3 DEF Node!Repeats, Node!Suppressed
    <2> QED  BY <1>3, <2>5, <2>12, <2>14, <2>15
  <1> QED  BY <1>2, <1>3 DEF Node!packetHandler, Node!repeats

\* Between commands the registers stay, and the network is told of no other.
LEMMA Resting ==
  ASSUME Kept, AtRest, pc # "off", pc' \in {"idle", "asleep"}, doubt' = doubt,
         \A r \in Node!Stored :
           /\ Node!Value(r)' = Node!Value(r) /\ Node!Restored(r)' = Node!Restored(r)
           /\ told'[r] \in {told[r], Node!Garbled, Node!Value(r)}
  PROVE  Kept'
  BY DEF Kept, AtRest, Changing, Settled, Knows

\* What does not touch the board's values leaves the registers alone.
LEMMA SameValues ==
  ASSUME board'.addr = board.addr, board'.interval = board.interval,
         board'.eeprom.addr = board.eeprom.addr, board'.eeprom.interval = board.eeprom.interval
  PROVE  \A r \in Node!Stored : /\ Node!Value(r)' = Node!Value(r)
                                /\ Node!Restored(r)' = Node!Restored(r)
  BY DEF Node!Stored, Node!Value, Node!Restored

\* The command's part of the state.
CommandTypes == /\ pc \in Node!Steps /\ job \in Messages \cup {Node!None} /\ board \in Boards
                /\ told \in [Node!Stored -> Told] /\ taken \subseteq Bytes /\ twice \in BOOLEAN
CommandInv == CommandTypes /\ Place /\ Ahead /\ Kept /\ ~twice /\ ChipFollowsCopies

\* A status that is sent at rest.
LEMMA StatusAtRest ==
  ASSUME NodeInv, pc = "idle", NEW id, NEW v \in Node!Intervals, Node!sendSwapStatus(id, v),
         id \in Node!Stored => v = Node!Value(id),
         UNCHANGED <<setup, pc, job, twice, doubt, moved>>
  PROVE  CommandInv'
  <1>1. NodeTypes /\ Place /\ Ahead /\ Kept /\ ~twice /\ ChipFollowsCopies
    BY DEF NodeInv, NothingTwice, Node!CommandsTakenOnce
  <1>2. /\ board' \in Boards /\ taken' \subseteq Bytes /\ told' \in [Node!Stored -> Told]
        /\ board'.addr = board.addr /\ board'.channel = board.channel
        /\ board'.sync = board.sync /\ board'.interval = board.interval
        /\ board'.chip = board.chip /\ board'.eeprom = board.eeprom
        /\ Reached => Passed' /\ Announced(id, v)
    BY <1>1, StatusSent
  <1>3. CommandTypes'
    BY <1>1, <1>2 DEF CommandTypes, NodeTypes
  <1>4. Place'
    BY <1>1 DEF Place, AtRest
  <1>5. Ahead'
    BY <1>1, <1>2 DEF Ahead, Reached, Passed, NodeTypes, Boards, Bytes
  <1>6. Kept'
    <2>1. \A r \in Node!Stored : told'[r] \in {told[r], Node!Garbled, Node!Value(r)}
      <3> SUFFICES ASSUME NEW r \in Node!Stored
                   PROVE  told'[r] \in {told[r], Node!Garbled, Node!Value(r)}
        OBVIOUS
      <3>1. IF r = id THEN told'[r] \in {Node!Garbled, v} ELSE told'[r] = told[r]
        <4>1. Announced(id, v)
          BY <1>1, StatusSent
        <4> QED  BY <4>1 DEF Announced
      <3>2. r = id => v = Node!Value(r)
        OBVIOUS
      <3> QED  BY <3>1, <3>2
    <2> QED  BY <1>1, <1>2, <2>1, Resting, SameValues DEF AtRest
  <1>7. ChipFollowsCopies'
    BY <1>1, <1>2 DEF ChipFollowsCopies, Node!ChipFollowsCopies
  <1> QED  BY <1>1, <1>3, <1>4, <1>5, <1>6, <1>7 DEF CommandInv

\* A packet is evaluated.
LEMMA Evaluated ==
  ASSUME NodeInv, pc = "idle", NEW m \in Packets, Node!Command(m) => m \in Messages,
         Node!Evaluate(m), UNCHANGED <<setup, doubt, moved>>
  PROVE  CommandInv'
  <1>1. NodeTypes /\ Place /\ Ahead /\ Kept /\ ~twice /\ ChipFollowsCopies
    BY DEF NodeInv, NothingTwice, Node!CommandsTakenOnce
  <1>2. ASSUME Node!sendSwapStatus("SECUNONCE", 0), UNCHANGED <<pc, job, twice>>
        PROVE  CommandInv'
    BY <1>2, Names0, StatusAtRest DEF Node!Stored
  <1>3. ASSUME Node!sendSwapStatus(m.id, Node!Value(m.id)), UNCHANGED <<pc, job, twice>>
        PROVE  CommandInv'
    BY <1>1, <1>3, StatusAtRest, ValueType
  <1>4. ASSUME UNCHANGED <<pc, job, board, told, taken, twice>>
        PROVE  CommandInv'
    <2>1. CommandTypes'
      BY <1>1, <1>4 DEF CommandTypes, NodeTypes
    <2>2. Place' /\ Ahead' /\ ~twice'
      BY <1>1, <1>4 DEF Place, Ahead, AtRest
    <2>3. Kept'
      <3>1. \A r \in Node!Stored : told'[r] \in {told[r], Node!Garbled, Node!Value(r)}
        BY <1>4
      <3> QED  BY <1>1, <1>4, <3>1, Resting, SameValues DEF AtRest
    <2>4. ChipFollowsCopies'
      BY <1>1, <1>4 DEF ChipFollowsCopies, Node!ChipFollowsCopies
    <2> QED  BY <2>1, <2>2, <2>3, <2>4 DEF CommandInv
  <1>5. ASSUME m \in Messages, Node!NonceFits(m), pc' = "setValue", job' = m,
               taken' = taken \cup {m.nonce},
               twice' = (twice \/ (setup.play /\ m.nonce \in taken)),
               UNCHANGED <<board, told>>
        PROVE  CommandInv'
    <2>1. m.nonce \in Bytes /\ (setup.play => m.nonce = board.nonce)
      BY <1>5, MessageFacts DEF Node!NonceFits
    <2>2. ~twice'
      BY <1>1, <1>5, <2>1 DEF Ahead
    <2>3. CommandTypes'
      BY <1>1, <1>5, <2>1, <2>2 DEF CommandTypes, NodeTypes, Node!Steps
    <2>4. Place'
      BY <1>5 DEF Place, AtRest
    <2>5. Ahead'
      BY <1>1, <1>5, <2>1 DEF Ahead, NodeTypes, Boards, Bytes
    <2>6. Kept'
      <3>1. \A r \in Node!Stored : Settled(r) /\ Knows(r, Node!Value(r))
        BY <1>1 DEF Kept, Changing, AtRest
      <3>2. \A r \in Node!Stored : (Settled(r) /\ Knows(r, Node!Value(r)))'
        BY <1>5, <3>1 DEF Settled, Knows, Node!Value, Node!Restored
      <3> QED  BY <1>5, <3>2 DEF Kept
    <2>7. ChipFollowsCopies'
      BY <1>1, <1>5 DEF ChipFollowsCopies, Node!ChipFollowsCopies
    <2> QED  BY <2>2, <2>3, <2>4, <2>5, <2>6, <2>7 DEF CommandInv
  <1> QED  BY <1>2, <1>3, <1>4, <1>5 DEF Node!Evaluate

\* The rest of it, and the invariant from both.
RestInv ==
  /\ setup \in Setups /\ loops \in Int /\ heard \in Nat /\ doubt \subseteq Node!Stored
  /\ moved \in BOOLEAN /\ table \in [1 .. Depth -> Transactions] /\ log \in Seq(Transactions)
  /\ again = FALSE /\ Remembered

LEMMA NodeParts ==
  ASSUME CommandInv, RestInv
  PROVE  NodeInv
  <1>1. NodeTypes
    BY DEF NodeTypes, CommandInv, CommandTypes, RestInv
  <1>2. NothingTwice
    BY DEF NothingTwice, Node!CommandsTakenOnce, Node!RepeatedOnce, CommandInv, RestInv
  <1> QED  BY <1>1, <1>2 DEF NodeInv, CommandInv, RestInv

\* isrGDO0event() keeps the invariant.
LEMMA Hears ==
  ASSUME NodeInv, NEW packet \in Messages, Node!isrGDO0event(packet)
  PROVE  NodeInv'
  <1>1. NodeTypes /\ Remembered /\ ~again
    BY DEF NodeInv, NothingTwice, Node!RepeatedOnce
  <1>2. PICK m : m = Node!Received(packet)
    OBVIOUS
  <1>3. PICK p : p = IF Node!Repeats(m) THEN Node!Sent(m) ELSE m
    OBVIOUS
  <1>4. /\ pc = "idle" /\ heard < MaxMessages /\ heard' = heard + 1
        /\ Node!packetHandler(m) /\ UNCHANGED <<setup, loops, doubt, moved>>
    BY <1>2 DEF Node!isrGDO0event
  <1>5. Node!Evaluate(p)
    BY <1>2, <1>3 DEF Node!isrGDO0event
  <1>6. m \in Packets /\ p \in Packets
    BY <1>2, <1>3, PacketsOf
  <1>7. Node!Command(p) => p \in Messages
    <2>1. CASE Node!Repeats(m)
      <3>1. m.dest # board.addr /\ p = Node!Sent(m)
        BY <1>3, <2>1 DEF Node!Repeats
      <3>2. p.dest = m.dest
        BY <1>6, <3>1 DEF Node!Sent, Packets
      <3> QED  BY <3>1, <3>2 DEF Node!Command, Node!ForUs
    <2>2. CASE ~Node!Repeats(m)
      <3>1. p = m
        BY <1>3, <2>2
      <3>2. CASE packet.enc /\ ~setup.crypt
        <4>1. m.fn = "garbled"
          BY <1>2, <3>2, PacketsOf DEF Node!Received, Packets
        <4> QED  BY <3>1, <4>1 DEF Node!Command
      <3>3. CASE ~(packet.enc /\ ~setup.crypt)
        BY <1>2, <3>1, <3>3 DEF Node!Received
      <3> QED  BY <3>2, <3>3
    <2> QED  BY <2>1, <2>2
  <1>8. CommandInv'
    BY <1>4, <1>5, <1>6, <1>7, Evaluated
  <1>9. /\ table' \in [1 .. Depth -> Transactions] /\ log' \in Seq(Transactions)
        /\ again' = FALSE /\ Remembered'
    BY <1>1, <1>4, <1>6, PacketHandled
  <1>10. RestInv'
    BY <1>1, <1>4, <1>9 DEF NodeTypes, RestInv
  <1> QED  BY <1>8, <1>10, NodeParts, PTL

\* What no command changes.
Frame == UNCHANGED <<setup, loops, heard, table, log, again>>

LEMMA FrameKept ==
  ASSUME NodeInv, Frame, doubt' \subseteq Node!Stored, moved' \in BOOLEAN
  PROVE  RestInv'
  BY DEF NodeInv, NodeTypes, Frame, Remembered, NothingTwice, Node!RepeatedOnce, RestInv

\* A status leaves the nonces of the commands behind, and a step without one
\* happens only before the command's status or long after it.
LEMMA AheadByStatus ==
  ASSUME NodeInv, pc # "off", setup' = setup, board' \in Boards, taken' \subseteq Bytes,
         Reached => Passed'
  PROVE  Ahead'
  <1>1. setup.play => Reached
    BY DEF NodeInv, NodeTypes, Boards, Bytes, Ahead, Reached
  <1>2. Passed' => Ahead'
    <2>1. board'.nonce \in Nat /\ \A n \in taken' : n \in Nat
      BY DEF Boards, Bytes
    <2> QED  BY <2>1 DEF Passed, Ahead
  <1>3. ~setup.play => Ahead'
    BY DEF Ahead
  <1> QED  BY <1>1, <1>2, <1>3

LEMMA AheadSilent ==
  ASSUME NodeInv, pc # "off", setup' = setup, board'.nonce = board.nonce, taken' = taken,
         pc \in {"setValue", "status", "reset"} => pc' \in {"setValue", "status", "reset"}
  PROVE  Ahead'
  BY DEF NodeInv, Ahead

\* The command goes on: what its steps have in common.
LEMMA GoesOn ==
  ASSUME NodeInv, Frame, ~AtRest, ~AtRest', pc' \in Node!Steps \ {"save", "saveHigh"},
         UNCHANGED <<job, doubt, twice>>, moved' \in BOOLEAN, board' \in Boards,
         told' \in [Node!Stored -> Told], taken' \subseteq Bytes,
         Place', Ahead', ChipFollowsCopies',
         \A r \in Node!Stored :
           r # job.id => /\ Node!Value(r)' = Node!Value(r)
                         /\ Node!Restored(r)' = Node!Restored(r)
                         /\ told'[r] = told[r]
  PROVE  NodeInv'
  <1>1. NodeTypes /\ Kept /\ ~twice
    BY DEF NodeInv, NothingTwice, Node!CommandsTakenOnce
  <1>2. Kept'
    BY <1>1, Meanwhile
  <1>3. CommandTypes'
    BY <1>1 DEF CommandTypes, NodeTypes
  <1>4. CommandInv'
    BY <1>1, <1>2, <1>3 DEF CommandInv
  <1>5. RestInv'
    BY <1>1, FrameKept DEF NodeTypes
  <1> QED  BY <1>4, <1>5, NodeParts, PTL

\* A status of the command.
LEMMA StatusGoesOn ==
  ASSUME NodeInv, Frame, ~AtRest, ~AtRest', pc' \in Node!Steps \ {"save", "saveHigh"},
         UNCHANGED <<job, doubt, twice, moved>>, Place', NEW id, NEW v \in Node!Intervals,
         Node!sendSwapStatus(id, v), id \in Node!Stored => id = job.id
  PROVE  NodeInv'
  <1>1. NodeTypes /\ ChipFollowsCopies
    BY DEF NodeInv
  <1>2. /\ board' \in Boards /\ taken' \subseteq Bytes /\ told' \in [Node!Stored -> Told]
        /\ board'.addr = board.addr /\ board'.channel = board.channel
        /\ board'.sync = board.sync /\ board'.interval = board.interval
        /\ board'.chip = board.chip /\ board'.eeprom = board.eeprom
    BY <1>1, StatusSent
  <1>3. Reached => Passed'
    BY <1>1, StatusSent
  <1>4. Announced(id, v)
    BY <1>1, StatusSent
  <1>5. Ahead'
    BY <1>2, <1>3, AheadByStatus DEF AtRest, Frame
  <1>6. ChipFollowsCopies'
    BY <1>1, <1>2 DEF ChipFollowsCopies, Node!ChipFollowsCopies, Frame, AtRest
  <1>7. \A r \in Node!Stored : r # job.id => told'[r] = told[r]
    BY <1>4 DEF Announced
  <1>8. \A r \in Node!Stored : /\ Node!Value(r)' = Node!Value(r)
                               /\ Node!Restored(r)' = Node!Restored(r)
    BY <1>2, SameValues
  <1>9. moved' \in BOOLEAN
    BY <1>1 DEF NodeTypes
  <1> QED  BY <1>2, <1>5, <1>6, <1>7, <1>8, <1>9, GoesOn

\* The job of a command.
LEMMA JobFacts ==
  ASSUME NodeInv, ~AtRest
  PROVE  /\ job \in Messages
         /\ job.id \in {"DEVADDRESS", "FREQCHANNEL"} => job.value \in Bytes
         /\ job.id = "SYSSTATE" => job.value \in Node!RESTART .. Node!SYNC
         /\ job.id = "NETWORKID" => job.value \in Words
         /\ job.id = "TXINTERVAL" => job.value \in Node!Intervals
  <1>1. job \in Messages
    BY DEF NodeInv, Place
  <1> QED  BY <1>1, MessageFacts

\* A step to status that changes neither board nor network.
LEMMA Passes ==
  ASSUME NodeInv, Frame, pc = "setValue", pc' = "status",
         UNCHANGED <<job, doubt, twice, moved, board, told, taken>>
  PROVE  NodeInv'
  <1>1. NodeTypes /\ ChipFollowsCopies /\ Place
    BY DEF NodeInv
  <1>2. Place'
    BY <1>1 DEF Place, AtRest
  <1>3. Ahead'
    BY AheadSilent DEF Frame
  <1>4. ChipFollowsCopies'
    BY <1>1 DEF ChipFollowsCopies, Node!ChipFollowsCopies, Frame
  <1>5. \A r \in Node!Stored : /\ Node!Value(r)' = Node!Value(r)
                               /\ Node!Restored(r)' = Node!Restored(r)
    BY SameValues
  <1>6. /\ board' \in Boards /\ taken' \subseteq Bytes /\ told' \in [Node!Stored -> Told]
        /\ moved' \in BOOLEAN
    BY <1>1 DEF NodeTypes
  <1>7. ~AtRest /\ ~AtRest' /\ pc' \in Node!Steps \ {"save", "saveHigh"}
    BY DEF AtRest, Node!Steps
  <1> QED  BY <1>2, <1>3, <1>4, <1>5, <1>6, <1>7, GoesOn

\* What Goto() leaves as it is.
LEMMA GotoFrame ==
  ASSUME NEW s, Node!Goto(s)
  PROVE  pc' = s /\ Frame /\ UNCHANGED <<job, doubt, twice>>
  BY DEF Node!Goto, Frame, Node!repeats

LEMMA StateSet ==
  ASSUME NodeInv, Node!setSysState
  PROVE  NodeInv'
  <1>1. /\ pc = "setValue" /\ job.id = "SYSSTATE" /\ UNCHANGED <<told, taken, moved>>
    BY DEF Node!setSysState, Node!Callback
  <1>2. NodeTypes /\ ChipFollowsCopies
    BY DEF NodeInv
  <1>3. /\ pc' \in {"reset", "status"} /\ Frame /\ UNCHANGED <<job, doubt, twice>>
        /\ \/ board' = board
           \/ board' = [board EXCEPT !.state = job.value]
    BY GotoFrame DEF Node!setSysState
  <1>4. job.value \in Node!RESTART .. Node!SYNC
    BY <1>1, JobFacts DEF AtRest
  <1>5. /\ board' \in Boards /\ board'.addr = board.addr /\ board'.channel = board.channel
        /\ board'.sync = board.sync /\ board'.interval = board.interval
        /\ board'.chip = board.chip /\ board'.eeprom = board.eeprom
        /\ board'.nonce = board.nonce
    BY <1>2, <1>3, <1>4 DEF NodeTypes, Boards
  <1>6. Place'
    BY <1>1, <1>3, JobFacts DEF Place, AtRest
  <1>7. Ahead'
    BY <1>1, <1>3, <1>5, AheadSilent DEF Frame
  <1>8. ChipFollowsCopies'
    BY <1>1, <1>2, <1>3, <1>5 DEF ChipFollowsCopies, Node!ChipFollowsCopies, Frame
  <1>9. \A r \in Node!Stored : /\ Node!Value(r)' = Node!Value(r)
                               /\ Node!Restored(r)' = Node!Restored(r)
    BY <1>5, SameValues
  <1>10. /\ taken' \subseteq Bytes /\ told' \in [Node!Stored -> Told] /\ moved' \in BOOLEAN
    BY <1>1, <1>2 DEF NodeTypes
  <1>11. ~AtRest /\ ~AtRest' /\ pc' \in Node!Steps \ {"save", "saveHigh"}
    BY <1>1, <1>3 DEF AtRest, Node!Steps
  <1> QED  BY <1>1, <1>3, <1>5, <1>6, <1>7, <1>8, <1>9, <1>10, <1>11, GoesOn

\* The radio's setters do not touch what is stored of the registers.
LEMMA RadioSet ==
  ASSUME NodeInv, pc \in {"newChannel", "newNetwork"}, pc' \in {"reset", "status"}, Frame,
         UNCHANGED <<job, doubt, twice, moved, told, taken>>, Place', OnlyRadio(board', board),
         board'.addr = board.addr, ChipFollowsCopies'
  PROVE  NodeInv'
  <1>1. NodeTypes
    BY DEF NodeInv
  <1>2. /\ board' \in Boards /\ board'.nonce = board.nonce
        /\ \A r \in Node!Stored : /\ Node!Value(r)' = Node!Value(r)
                                  /\ Node!Restored(r)' = Node!Restored(r)
    BY SameValues DEF OnlyRadio
  <1>3. Ahead'
    BY <1>2, AheadSilent DEF Frame
  <1>4. /\ taken' \subseteq Bytes /\ told' \in [Node!Stored -> Told] /\ moved' \in BOOLEAN
    BY <1>1 DEF NodeTypes
  <1>5. ~AtRest /\ ~AtRest' /\ pc' \in Node!Steps \ {"save", "saveHigh"}
    BY DEF AtRest, Node!Steps
  <1> QED  BY <1>2, <1>3, <1>4, <1>5, GoesOn

LEMMA FreqChannelSet ==
  ASSUME NodeInv, Node!setFreqChannel
  PROVE  NodeInv'
  <1>1. NodeTypes /\ ChipFollowsCopies /\ Place
    BY DEF NodeInv
  <1>2. CASE Node!Callback("FREQCHANNEL") /\ Node!Goto("status")
             /\ UNCHANGED <<board, told, taken, moved>>
    BY <1>2, GotoFrame, Passes DEF Node!Callback
  <1>3. CASE /\ Node!Callback("FREQCHANNEL") /\ Node!Goto("newChannel")
             /\ Node!sendSwapStatus("FREQCHANNEL", job.value) /\ UNCHANGED moved
    <2>1. /\ pc = "setValue" /\ job.id = "FREQCHANNEL" /\ pc' = "newChannel" /\ Frame
          /\ UNCHANGED <<job, doubt, twice, moved>>
      BY <1>3, GotoFrame DEF Node!Callback
    <2>2. job.value \in Node!Intervals
      BY <2>1, JobFacts, Names0 DEF AtRest
    <2>3. Place'
      BY <2>1, JobFacts DEF Place, AtRest
    <2>4. ~AtRest /\ ~AtRest' /\ pc' \in Node!Steps \ {"save", "saveHigh"}
      BY <2>1 DEF AtRest, Node!Steps
    <2>5. "FREQCHANNEL" \notin Node!Stored
      BY DEF Node!Stored
    <2> QED  BY <1>3, <2>1, <2>2, <2>3, <2>4, <2>5, StatusGoesOn
  <1>4. CASE /\ pc = "newChannel" /\ Node!Goto("reset") /\ UNCHANGED moved
             /\ board' = Node!setChannel(board, job.value, TRUE) /\ UNCHANGED <<told, taken>>
    <2>1. /\ pc' = "reset" /\ Frame /\ UNCHANGED <<job, doubt, twice>>
      BY <1>4, GotoFrame
    <2>2. job.id = "FREQCHANNEL" /\ job.value \in Bytes
      BY <1>1, <1>4, JobFacts DEF Place, AtRest
    <2>3. board \in Boards
      BY <1>1 DEF NodeTypes
    <2>4. ChannelSet(board', board, job.value, TRUE)
      BY <1>4, <2>2, <2>3, SettingChannel
    <2>5. Place'
      BY <1>4, <2>1, <2>2, JobFacts DEF Place, AtRest
    <2>6. ChipFollowsCopies'
      BY <1>1, <1>4, <2>1, <2>4
         DEF ChipFollowsCopies, Node!ChipFollowsCopies, ChannelSet, OnlyRadio, Frame
    <2>7. OnlyRadio(board', board) /\ board'.addr = board.addr
      BY <2>4 DEF ChannelSet
    <2> QED  BY <1>4, <2>1, <2>5, <2>6, <2>7, RadioSet
  <1> QED  BY <1>2, <1>3, <1>4 DEF Node!setFreqChannel

LEMMA NetworkIdSet ==
  ASSUME NodeInv, Node!setNetworkId
  PROVE  NodeInv'
  <1>1. NodeTypes /\ ChipFollowsCopies /\ Place
    BY DEF NodeInv
  <1>2. CASE Node!Callback("NETWORKID") /\ Node!Goto("status")
             /\ UNCHANGED <<board, told, taken, moved>>
    BY <1>2, GotoFrame, Passes DEF Node!Callback
  <1>3. CASE /\ Node!Callback("NETWORKID") /\ Node!Goto("newNetwork")
             /\ Node!sendSwapStatus("NETWORKID", job.value) /\ UNCHANGED moved
    <2>1. /\ pc = "setValue" /\ job.id = "NETWORKID" /\ pc' = "newNetwork" /\ Frame
          /\ UNCHANGED <<job, doubt, twice, moved>>
      BY <1>3, GotoFrame DEF Node!Callback
    <2>2. job.value \in Node!Intervals
      <3>1. job.value \in 0 .. 3
        BY <2>1, JobFacts DEF AtRest, Words, Node!NoSync, Node!SketchSync
      <3>2. ByteSize * ByteSize >= 9
        <4>1. ByteSize - 3 \in Nat /\ 3 * (ByteSize - 3) >= 0
          BY Sizes
        <4>2. (ByteSize * ByteSize) - (3 * ByteSize) = ByteSize * (ByteSize - 3)
          BY Sizes
        <4>3. ByteSize * (ByteSize - 3) >= 0
          BY <4>1, Sizes
        <4> QED  BY <4>1, <4>2, <4>3, Sizes
      <3> QED  BY <3>1, <3>2, Sizes DEF Node!Intervals
    <2>3. Place'
      BY <2>1, JobFacts DEF Place, AtRest
    <2>4. ~AtRest /\ ~AtRest' /\ pc' \in Node!Steps \ {"save", "saveHigh"}
      BY <2>1 DEF AtRest, Node!Steps
    <2>5. "NETWORKID" \notin Node!Stored
      BY DEF Node!Stored
    <2> QED  BY <1>3, <2>1, <2>2, <2>3, <2>4, <2>5, StatusGoesOn
  <1>4. CASE /\ pc = "newNetwork" /\ Node!Goto("status") /\ UNCHANGED moved
             /\ board' = Node!setSyncWord(board, job.value, TRUE) /\ UNCHANGED <<told, taken>>
    <2>1. /\ pc' = "status" /\ Frame /\ UNCHANGED <<job, doubt, twice>>
      BY <1>4, GotoFrame
    <2>2. job.id = "NETWORKID" /\ job.value \in Words
      BY <1>1, <1>4, JobFacts DEF Place, AtRest
    <2>3. board \in Boards
      BY <1>1 DEF NodeTypes
    <2>4. WordSet(board', board, job.value, TRUE)
      BY <1>4, <2>2, <2>3, SettingWord
    <2>5. Place'
      BY <1>4, <2>1, <2>2, JobFacts DEF Place, AtRest
    <2>6. ChipFollowsCopies'
      BY <1>1, <1>4, <2>1, <2>4
         DEF ChipFollowsCopies, Node!ChipFollowsCopies, WordSet, OnlyRadio, Frame
    <2>7. OnlyRadio(board', board) /\ board'.addr = board.addr
      BY <2>4 DEF WordSet
    <2> QED  BY <1>4, <2>1, <2>5, <2>6, <2>7, RadioSet
  <1> QED  BY <1>2, <1>3, <1>4 DEF Node!setNetworkId

LEMMA AddressCommand ==
  ASSUME NodeInv, Node!setDevAddressCallback
  PROVE  NodeInv'
  <1>1. NodeTypes /\ ChipFollowsCopies /\ Place
    BY DEF NodeInv
  <1>2. CASE /\ Node!Callback("DEVADDRESS") /\ Node!Goto("newAddress")
             /\ Node!sendSwapStatus("DEVADDRESS", job.value) /\ UNCHANGED moved
    <2>1. /\ pc = "setValue" /\ job.id = "DEVADDRESS" /\ pc' = "newAddress" /\ Frame
          /\ UNCHANGED <<job, doubt, twice, moved>>
      BY <1>2, GotoFrame DEF Node!Callback
    <2>2. job.value \in Node!Intervals
      BY <2>1, JobFacts, Names0 DEF AtRest
    <2>3. Place'
      BY <2>1, JobFacts DEF Place, AtRest
    <2>4. ~AtRest /\ ~AtRest' /\ pc' \in Node!Steps \ {"save", "saveHigh"}
      BY <2>1 DEF AtRest, Node!Steps
    <2> QED  BY <1>2, <2>1, <2>2, <2>3, <2>4, StatusGoesOn
  <1>3. CASE /\ pc = "newAddress" /\ Node!Goto("status") /\ moved' = TRUE
             /\ board' = Node!setDevAddress([board EXCEPT !.addr = job.value], job.value)
             /\ UNCHANGED <<told, taken>>
    <2>1. /\ pc' = "status" /\ Frame /\ UNCHANGED <<job, doubt, twice>>
      BY <1>3, GotoFrame
    <2>2. job.id = "DEVADDRESS" /\ job.value \in Bytes
      BY <1>1, <1>3, JobFacts DEF Place, AtRest
    <2>3. board \in Boards
      BY <1>1 DEF NodeTypes
    <2>4. board' = [board EXCEPT !.addr = job.value]
      BY <1>3, <2>3 DEF Node!setDevAddress, Boards
    <2>5. /\ board' \in Boards /\ board'.channel = board.channel /\ board'.sync = board.sync
          /\ board'.interval = board.interval /\ board'.chip = board.chip
          /\ board'.eeprom = board.eeprom /\ board'.nonce = board.nonce
      BY <2>2, <2>3, <2>4 DEF Boards
    <2>6. Place'
      BY <1>3, <2>1, <2>2, JobFacts DEF Place, AtRest
    <2>7. Ahead'
      BY <1>3, <2>1, <2>5, AheadSilent DEF Frame
    <2>8. ChipFollowsCopies'
      BY <1>1, <1>3, <2>1, <2>5 DEF ChipFollowsCopies, Node!ChipFollowsCopies, Frame
    <2>9. \A r \in Node!Stored : r # job.id => /\ Node!Value(r)' = Node!Value(r)
                                               /\ Node!Restored(r)' = Node!Restored(r)
      BY <2>2, <2>5 DEF Node!Stored, Node!Value, Node!Restored
    <2>10. /\ taken' \subseteq Bytes /\ told' \in [Node!Stored -> Told] /\ moved' \in BOOLEAN
      BY <1>1, <1>3 DEF NodeTypes
    <2>11. ~AtRest /\ ~AtRest' /\ pc' \in Node!Steps \ {"save", "saveHigh"}
      BY <1>3, <2>1 DEF AtRest, Node!Steps
    <2> QED  BY <1>3, <2>1, <2>5, <2>6, <2>7, <2>8, <2>9, <2>10, <2>11, GoesOn
  <1> QED  BY <1>2, <1>3 DEF Node!setDevAddressCallback

LEMMA IntervalSet ==
  ASSUME NodeInv, Node!setTxInterval
  PROVE  NodeInv'
  <1>1. NodeTypes /\ ChipFollowsCopies
    BY DEF NodeInv
  <1>2. /\ pc = "setValue" /\ job.id = "TXINTERVAL" /\ pc' = "status" /\ Frame
        /\ UNCHANGED <<job, doubt, twice, told, taken, moved>>
        /\ board' = [board EXCEPT !.interval = job.value]
    BY GotoFrame DEF Node!setTxInterval, Node!Callback
  <1>3. job.value \in Node!Intervals /\ board \in Boards
    BY <1>1, <1>2, JobFacts DEF AtRest, NodeTypes
  <1>4. /\ board' \in Boards /\ board'.channel = board.channel /\ board'.sync = board.sync
        /\ board'.addr = board.addr /\ board'.chip = board.chip
        /\ board'.eeprom = board.eeprom /\ board'.nonce = board.nonce
    BY <1>2, <1>3 DEF Boards
  <1>5. Place'
    BY <1>2, JobFacts DEF Place, AtRest
  <1>6. Ahead'
    BY <1>2, <1>4, AheadSilent DEF Frame
  <1>7. ChipFollowsCopies'
    BY <1>1, <1>2, <1>4 DEF ChipFollowsCopies, Node!ChipFollowsCopies, Frame
  <1>8. \A r \in Node!Stored : r # job.id => /\ Node!Value(r)' = Node!Value(r)
                                             /\ Node!Restored(r)' = Node!Restored(r)
    BY <1>2, <1>4 DEF Node!Stored, Node!Value, Node!Restored
  <1>9. /\ taken' \subseteq Bytes /\ told' \in [Node!Stored -> Told] /\ moved' \in BOOLEAN
    BY <1>1, <1>2 DEF NodeTypes
  <1>10. ~AtRest /\ ~AtRest' /\ pc' \in Node!Steps \ {"save", "saveHigh"}
    BY <1>2 DEF AtRest, Node!Steps
  <1> QED  BY <1>2, <1>4, <1>5, <1>6, <1>7, <1>8, <1>9, <1>10, GoesOn

LEMMA NothingSet ==
  ASSUME NodeInv, Node!noSetter
  PROVE  NodeInv'
  BY GotoFrame, Passes DEF Node!noSetter

LEMMA BoardReset ==
  ASSUME NodeInv, Node!reset
  PROVE  NodeInv'
  <1>1. /\ pc = "reset" /\ pc' = "halted" /\ Frame /\ UNCHANGED <<job, doubt, twice, moved>>
        /\ Node!sendSwapStatus("SYSSTATE", Node!RESTART)
    BY GotoFrame DEF Node!reset
  <1>2. Node!RESTART \in Node!Intervals
    BY Names0 DEF Node!RESTART
  <1>3. Place'
    BY <1>1 DEF NodeInv, Place, AtRest
  <1>4. ~AtRest /\ ~AtRest' /\ pc' \in Node!Steps \ {"save", "saveHigh"}
    BY <1>1 DEF AtRest, Node!Steps
  <1>5. "SYSSTATE" \notin Node!Stored
    BY DEF Node!Stored
  <1> QED  BY <1>1, <1>2, <1>3, <1>4, <1>5, StatusGoesOn

\* setData() ends with the status; what is stored is on its way to EEPROM.
LEMMA DataSet ==
  ASSUME NodeInv, Node!setData
  PROVE  NodeInv'
  <1>1. NodeTypes /\ ChipFollowsCopies /\ Place /\ Kept /\ ~twice
    BY DEF NodeInv, NothingTwice, Node!CommandsTakenOnce
  <1>2. /\ pc = "status" /\ pc' = (IF job.id \in Node!Stored THEN "save" ELSE "idle") /\ Frame
        /\ UNCHANGED <<job, doubt, twice, moved>>
        /\ Node!sendSwapStatus(job.id, Node!Value(job.id))
    BY GotoFrame DEF Node!setData
  <1>3. Node!Value(job.id) \in Node!Intervals
    BY <1>1, ValueType
  <1>4. /\ board' \in Boards /\ taken' \subseteq Bytes /\ told' \in [Node!Stored -> Told]
        /\ board'.addr = board.addr /\ board'.channel = board.channel
        /\ board'.sync = board.sync /\ board'.interval = board.interval
        /\ board'.chip = board.chip /\ board'.eeprom = board.eeprom
    BY <1>1, <1>2, <1>3, StatusSent
  <1>5. Reached => Passed'
    BY <1>1, <1>2, <1>3, StatusSent
  <1>6. Announced(job.id, Node!Value(job.id))
    BY <1>1, <1>2, <1>3, StatusSent
  <1>7. CommandTypes'
    BY <1>1, <1>2, <1>4 DEF CommandTypes, NodeTypes, Node!Steps
  <1>8. Place'
    BY <1>1, <1>2 DEF Place, AtRest
  <1>9. Ahead'
    BY <1>2, <1>4, <1>5, AheadByStatus DEF Frame
  <1>10. ChipFollowsCopies'
    BY <1>1, <1>2, <1>4 DEF ChipFollowsCopies, Node!ChipFollowsCopies, Frame
  <1>11. \A r \in Node!Stored : /\ Node!Value(r)' = Node!Value(r)
                                /\ Node!Restored(r)' = Node!Restored(r)
    BY <1>4, SameValues
  <1>12. Kept'
    <2>1. \A r \in Node!Stored : r # job.id => told'[r] = told[r]
      BY <1>6 DEF Announced
    <2>2. \A r \in Node!Stored : r # job.id => (Settled(r) /\ Knows(r, Node!Value(r)))
      BY <1>1, <1>2 DEF Kept, Changing
    <2>3. \A r \in Node!Stored : r # job.id => (Settled(r) /\ Knows(r, Node!Value(r)))'
      BY <1>2, <1>11, <2>1, <2>2 DEF Settled, Knows
    <2>4. \A r \in Node!Stored : ~Changing(r)' => r # job.id
      BY <1>2 DEF Changing, AtRest
    <2>5. job.id \in Node!Stored => told'[job.id] \in {Node!Garbled, Node!Value(job.id)}
      BY <1>6 DEF Announced
    <2>6. job.id \in Node!Stored => Node!Value(job.id)' = Node!Value(job.id)
      BY <1>4, <1>2 DEF Node!Stored, Node!Value
    <2>7. pc' = "save" => told'[job'.id] \in {Node!Garbled, Node!Value(job.id)'}
      BY <1>2, <2>5, <2>6
    <2>8. pc' # "off" /\ pc' # "saveHigh"
      BY <1>2
    <2> QED  BY <2>3, <2>4, <2>7, <2>8 DEF Kept
  <1>13. CommandInv'
    BY <1>1, <1>2, <1>7, <1>8, <1>9, <1>10, <1>12 DEF CommandInv
  <1>14. RestInv'
    BY <1>1, <1>2, FrameKept DEF NodeTypes
  <1> QED  BY <1>13, <1>14, NodeParts, PTL

\* Two bytes of an interval, of which one may be of the old value still.
LEMMA TwoBytes ==
  ASSUME NEW e \in Node!Intervals, NEW n \in Node!Intervals
  PROVE  /\ Node!High(e) + Node!Low(n) \in Node!Intervals
         /\ Node!Low(Node!High(e) + Node!Low(n)) = Node!Low(n)
         /\ Node!Low(e) = Node!Low(n) => Node!High(n) + Node!Low(e) = n
  <1>1. e \in Nat /\ n \in Nat
    BY Names0
  <1>2. /\ e % ByteSize \in Bytes /\ e \div ByteSize \in Nat
        /\ e = (ByteSize * (e \div ByteSize)) + (e % ByteSize)
    BY <1>1, Division
  <1>3. n % ByteSize \in Bytes /\ n % ByteSize \in Nat
    BY <1>1, Division DEF Bytes
  <1>4. PICK q \in Nat : q = e \div ByteSize
    BY <1>2
  <1>5. PICK x \in Bytes : x = e % ByteSize
    BY <1>2
  <1>6. PICK y \in Bytes : y = n % ByteSize
    BY <1>3
  <1>7. ByteSize * q \in Nat /\ x \in Nat /\ y \in Nat /\ y < ByteSize
    BY Sizes DEF Bytes
  <1>8. e = (ByteSize * q) + x
    BY <1>2, <1>4, <1>5
  <1>9. Node!High(e) = ByteSize * q /\ Node!Low(n) = y /\ Node!Low(e) = x
    BY <1>1, <1>5, <1>6, <1>7, <1>8 DEF Node!High, Node!Low
  <1>10. (ByteSize * q) + y \in Nat
    BY <1>7
  <1>11. ((ByteSize * q) + y) % ByteSize = y
    BY <1>10, Remainder
  <1>12. q <= ByteSize - 1
    <2>1. SUFFICES ASSUME q >= ByteSize PROVE FALSE
      BY Sizes
    <2>2. PICK d \in Nat : q = ByteSize + d
      <3>1. q - ByteSize \in Nat /\ q = ByteSize + (q - ByteSize)
        BY <2>1, Sizes
      <3> QED  BY <3>1
    <2>3. ByteSize * q = (ByteSize * ByteSize) + (ByteSize * d) /\ ByteSize * d \in Nat
      BY <2>2, Sizes
    <2>4. e < ByteSize * ByteSize
      BY <1>1, Sizes DEF Node!Intervals
    <2> QED  BY <1>7, <1>8, <2>3, <2>4, Sizes
  <1>13. (ByteSize * q) + y \in Node!Intervals
    <2>1. PICK d \in Nat : q + d = ByteSize - 1
      <3>1. ByteSize - 1 - q \in Nat /\ q + (ByteSize - 1 - q) = ByteSize - 1
        BY <1>12, Sizes
      <3> QED  BY <3>1
    <2>2. ByteSize * (q + d + 1) = (ByteSize * q) + (ByteSize * d) + ByteSize
      BY Sizes
    <2>3. ByteSize * d \in Nat /\ q + d + 1 = ByteSize
      BY <2>1, Sizes
    <2> QED  BY <1>7, <1>10, <2>2, <2>3, Sizes DEF Node!Intervals
  <1>14. Node!Low(e) = Node!Low(n) => Node!High(n) + Node!Low(e) = n
    BY <1>1, <1>3 DEF Node!High, Node!Low
  <1> QED  BY <1>9, <1>11, <1>13, <1>14 DEF Node!Low

\* Between the bytes and after them.
LEMMA ByteSaved ==
  ASSUME NodeInv, Node!saveByte
  PROVE  NodeInv'
  <1>1. NodeTypes /\ ChipFollowsCopies /\ Place /\ Kept /\ ~twice
    BY DEF NodeInv, NothingTwice, Node!CommandsTakenOnce
  <1>2. Frame /\ UNCHANGED <<job, told, taken, twice, moved>>
    BY DEF Node!saveByte, Node!repeats, Frame
  <1>3. board \in Boards /\ board.interval \in Node!Intervals
        /\ board.eeprom.interval \in Node!Intervals /\ board.addr \in Bytes
    BY <1>1 DEF NodeTypes, Boards, Eeproms
  <1>4. ASSUME pc \in {"save", "saveHigh"}, pc' \in {"idle", "saveHigh"}, board' \in Boards,
               board'.addr = board.addr, board'.interval = board.interval,
               board'.nonce = board.nonce, board'.chip = board.chip,
               board'.channel = board.channel, board'.sync = board.sync,
               Place', Kept', doubt' \subseteq Node!Stored
        PROVE  NodeInv'
    <2>1. CommandTypes'
      BY <1>1, <1>2, <1>4 DEF CommandTypes, NodeTypes, Node!Steps
    <2>2. Ahead'
      BY <1>2, <1>4, AheadSilent DEF Frame
    <2>3. ChipFollowsCopies'
      BY <1>1, <1>2, <1>4 DEF ChipFollowsCopies, Node!ChipFollowsCopies, Frame
    <2>4. CommandInv'
      BY <1>1, <1>2, <1>4, <2>1, <2>2, <2>3 DEF CommandInv
    <2>5. RestInv'
      BY <1>1, <1>2, <1>4, FrameKept DEF NodeTypes
    <2> QED  BY <2>4, <2>5, NodeParts, PTL
  <1>5. ASSUME pc \in {"save", "saveHigh"}, NEW r \in Node!Stored, r # job.id
        PROVE  Settled(r) /\ Knows(r, Node!Value(r))
    BY <1>1, <1>5 DEF Kept, Changing
  <1>6. pc \in {"save", "saveHigh"} => told[job.id] \in {Node!Garbled, Node!Value(job.id)}
    BY <1>1 DEF Kept
  <1>7. CASE /\ pc = "save" /\ job.id = "DEVADDRESS" /\ pc' = "idle"
             /\ board' = [board EXCEPT !.eeprom.addr = board.addr]
             /\ doubt' = doubt \ {"DEVADDRESS"}
    <2>1. /\ board' \in Boards /\ board'.addr = board.addr /\ board'.interval = board.interval
          /\ board'.nonce = board.nonce /\ board'.chip = board.chip
          /\ board'.channel = board.channel /\ board'.sync = board.sync
          /\ board'.eeprom.addr = board.addr /\ board'.eeprom.interval = board.eeprom.interval
      BY <1>3, <1>7 DEF Boards, Eeproms
    <2>2. Place'
      BY <1>7 DEF Place, AtRest
    <2>3. (Settled("DEVADDRESS") /\ Knows("DEVADDRESS", Node!Value("DEVADDRESS")))'
      <3>1. told'["DEVADDRESS"] \in {Node!Garbled, board.addr}
        BY <1>2, <1>6, <1>7 DEF Node!Value, Node!Stored
      <3>2. Node!Value("DEVADDRESS")' = board.addr
        BY <2>1 DEF Node!Value, Node!Stored
      <3>3. Node!Restored("DEVADDRESS")'
              = IF board.addr = Node!BCAST THEN Node!Erased ELSE board.addr
        BY <2>1 DEF Node!Restored
      <3>4. Settled("DEVADDRESS")'
        BY <3>2, <3>3 DEF Settled
      <3>5. Knows("DEVADDRESS", Node!Value("DEVADDRESS"))'
        BY <3>1, <3>2 DEF Knows
      <3> QED  BY <3>4, <3>5
    <2>4. (Settled("TXINTERVAL") /\ Knows("TXINTERVAL", Node!Value("TXINTERVAL")))'
      BY <1>2, <1>5, <1>7, <2>1 DEF Settled, Knows, Node!Value, Node!Restored, Node!Stored
    <2>5. Kept'
      BY <1>7, <2>3, <2>4 DEF Kept, Node!Stored
    <2> QED  BY <1>1, <1>4, <1>7, <2>1, <2>2, <2>5 DEF NodeTypes
  <1>8. CASE /\ pc = "save" /\ job.id = "TXINTERVAL" /\ pc' = "saveHigh"
             /\ board' = [board EXCEPT
                            !.eeprom.interval = Node!High(@) + Node!Low(board.interval)]
             /\ UNCHANGED doubt
    <2>1. PICK n \in Node!Intervals :
            /\ n = Node!High(board.eeprom.interval) + Node!Low(board.interval)
            /\ Node!Low(n) = Node!Low(board.interval)
      BY <1>3, TwoBytes
    <2>2. board' = [board EXCEPT !.eeprom.interval = n]
      BY <1>8, <2>1
    <2>3. /\ board' \in Boards /\ board'.addr = board.addr /\ board'.interval = board.interval
          /\ board'.nonce = board.nonce /\ board'.chip = board.chip
          /\ board'.channel = board.channel /\ board'.sync = board.sync
          /\ board'.eeprom.addr = board.eeprom.addr /\ board'.eeprom.interval = n
      BY <1>3, <2>1, <2>2 DEF Boards, Eeproms
    <2>4. Place'
      BY <1>1, <1>2, <1>8 DEF Place, AtRest
    <2>5. (Settled("DEVADDRESS") /\ Knows("DEVADDRESS", Node!Value("DEVADDRESS")))'
      BY <1>2, <1>5, <1>8, <2>3 DEF Settled, Knows, Node!Value, Node!Restored, Node!Stored
    <2>6. (Node!Low(board.eeprom.interval) = Node!Low(board.interval))'
      BY <2>1, <2>3 DEF Node!Low
    <2>7. (told[job.id] \in {Node!Garbled, Node!Value(job.id)})'
      BY <1>2, <1>6, <1>8, <2>3 DEF Node!Value
    <2>8. Kept'
      BY <1>2, <1>8, <2>5, <2>6, <2>7 DEF Kept, Node!Stored, Changing, AtRest
    <2> QED  BY <1>1, <1>4, <1>8, <2>3, <2>4, <2>8 DEF NodeTypes
  <1>9. CASE /\ pc = "saveHigh" /\ pc' = "idle"
             /\ board' = [board EXCEPT
                            !.eeprom.interval = Node!High(board.interval) + Node!Low(@)]
             /\ doubt' = doubt \ {"TXINTERVAL"}
    <2>1. job.id = "TXINTERVAL"
      BY <1>1, <1>9 DEF Place
    <2>2. Node!High(board.interval) + Node!Low(board.eeprom.interval) = board.interval
      BY <1>1, <1>3, <1>9, TwoBytes DEF Kept
    <2>3. board' = [board EXCEPT !.eeprom.interval = board.interval]
      BY <1>9, <2>2
    <2>4. /\ board' \in Boards /\ board'.addr = board.addr /\ board'.interval = board.interval
          /\ board'.nonce = board.nonce /\ board'.chip = board.chip
          /\ board'.channel = board.channel /\ board'.sync = board.sync
          /\ board'.eeprom.addr = board.eeprom.addr
          /\ board'.eeprom.interval = board.interval
      BY <1>3, <2>3 DEF Boards, Eeproms
    <2>5. Place'
      BY <1>9 DEF Place, AtRest
    <2>6. (Settled("TXINTERVAL") /\ Knows("TXINTERVAL", Node!Value("TXINTERVAL")))'
      <3>1. told'["TXINTERVAL"] \in {Node!Garbled, board.interval}
        BY <1>2, <1>6, <1>9, <2>1 DEF Node!Value, Node!Stored
      <3>2. Node!Value("TXINTERVAL")' = board.interval
        BY <2>4 DEF Node!Value, Node!Stored
      <3>3. Node!Restored("TXINTERVAL")' = board.interval
        BY <2>4 DEF Node!Restored
      <3>4. Settled("TXINTERVAL")'
        BY <3>2, <3>3 DEF Settled
      <3>5. Knows("TXINTERVAL", Node!Value("TXINTERVAL"))'
        BY <3>1, <3>2 DEF Knows
      <3> QED  BY <3>4, <3>5
    <2>7. (Settled("DEVADDRESS") /\ Knows("DEVADDRESS", Node!Value("DEVADDRESS")))'
      BY <1>2, <1>5, <1>9, <2>1, <2>4
         DEF Settled, Knows, Node!Value, Node!Restored, Node!Stored
    <2>8. Kept'
      BY <1>9, <2>6, <2>7 DEF Kept, Node!Stored
    <2> QED  BY <1>1, <1>4, <1>9, <2>4, <2>5, <2>8 DEF NodeTypes
  <1> QED  BY <1>7, <1>8, <1>9 DEF Node!saveByte

\* How often it sleeps is a number.
LEMMA SleepLoops ==
  ASSUME NEW n \in Node!Intervals, NEW crystal \in BOOLEAN
  PROVE  Node!SleepPlan(Node!Signed(n), crystal).loops \in Int
  <1>1. Node!Signed(n) \in Int
    BY Sizes, Names0 DEF Node!Signed
  <1>2. PICK k \in Int : k = Node!Signed(n)
    BY <1>1
  <1>3. Node!SleepPlan(k, crystal).loops \in {k \div 8, k \div 4, k \div 2, k}
    <2>1. CASE k % 8 = 0
      BY <2>1 DEF Node!SleepPlan
    <2>2. CASE k % 8 # 0 /\ k % 4 = 0
      BY <2>2 DEF Node!SleepPlan
    <2>3. CASE k % 8 # 0 /\ k % 4 # 0 /\ k % 2 = 0
      BY <2>3 DEF Node!SleepPlan
    <2>4. CASE k % 8 # 0 /\ k % 4 # 0 /\ k % 2 # 0
      BY <2>4 DEF Node!SleepPlan
    <2> QED  BY <2>1, <2>2, <2>3, <2>4
  <1> QED  BY <1>2, <1>3

\* Sleep changes nothing but the state of the system.
LEMMA Sleeps ==
  ASSUME NodeInv, Node!goToSleep \/ Node!sleeping
  PROVE  NodeInv'
  <1>1. NodeTypes /\ ChipFollowsCopies /\ Kept /\ ~twice
    BY DEF NodeInv, NothingTwice, Node!CommandsTakenOnce
  <1>2. /\ pc \in {"idle", "asleep"} /\ pc' \in {"idle", "asleep"}
        /\ UNCHANGED <<setup, job, heard, table, log, again, told, doubt, taken, twice, moved>>
    BY DEF Node!goToSleep, Node!sleeping, Node!repeats, Node!history
  <1>3. board \in Boards /\ loops \in Int /\ board.interval \in Node!Intervals
    BY <1>1 DEF NodeTypes, Boards
  <1>4. PICK s \in Node!RESTART .. Node!SYNC : board' = [board EXCEPT !.state = s]
    <2>1. /\ Node!RXON \in Node!RESTART .. Node!SYNC /\ Node!RXOFF \in Node!RESTART .. Node!SYNC
      BY DEF Node!RXON, Node!RXOFF, Node!RESTART, Node!SYNC
    <2>2. board' = board => board' = [board EXCEPT !.state = board.state]
      BY <1>3 DEF Boards
    <2>3. board.state \in Node!RESTART .. Node!SYNC
      BY <1>3 DEF Boards
    <2> QED  BY <2>1, <2>2, <2>3 DEF Node!goToSleep, Node!sleeping
  <1>5. /\ board' \in Boards /\ board'.addr = board.addr /\ board'.interval = board.interval
        /\ board'.nonce = board.nonce /\ board'.chip = board.chip
        /\ board'.channel = board.channel /\ board'.sync = board.sync
        /\ board'.eeprom = board.eeprom
    BY <1>3, <1>4 DEF Boards
  <1>6. loops' \in Int
    <2>1. CASE Node!goToSleep
      <3>1. setup.crystal \in BOOLEAN
        BY <1>1, SetupFacts DEF NodeTypes
      <3> QED  BY <1>3, <2>1, <3>1, SleepLoops DEF Node!goToSleep
    <2>2. CASE Node!sleeping
      BY <1>3, <2>2 DEF Node!sleeping
    <2> QED  BY <2>1, <2>2
  <1>7. CommandTypes'
    BY <1>1, <1>2, <1>5 DEF CommandTypes, NodeTypes, Node!Steps
  <1>8. Place'
    BY <1>2 DEF Place, AtRest
  <1>9. Ahead'
    BY <1>2, <1>5, AheadSilent
  <1>10. Kept'
    <2>1. \A r \in Node!Stored : told'[r] \in {told[r], Node!Garbled, Node!Value(r)}
      BY <1>2
    <2> QED  BY <1>1, <1>2, <1>5, <2>1, Resting, SameValues DEF AtRest
  <1>11. ChipFollowsCopies'
    BY <1>1, <1>2, <1>5 DEF ChipFollowsCopies, Node!ChipFollowsCopies
  <1>12. CommandInv'
    BY <1>1, <1>2, <1>7, <1>8, <1>9, <1>10, <1>11 DEF CommandInv
  <1>13. RestInv'
    BY <1>1, <1>2, <1>6
       DEF NodeInv, NodeTypes, RestInv, Remembered, NothingTwice, Node!RepeatedOnce
  <1> QED  BY <1>12, <1>13, NodeParts, PTL

\* The table of a new repeater.
LEMMA TableAtFirst ==
  /\ Node!NewTable \in [1 .. Depth -> Transactions]
  /\ <<>> \in Seq(Transactions) /\ Len(<<>>) = 0 /\ Len(<<>>) <= Depth
  <1>1. [fn |-> "STA", reg |-> 0, nonce |-> 0, age |-> 0] \in Transactions
    BY Names0, TableAssumption DEF Transactions
  <1>2. Node!NewTable \in [1 .. Depth -> Transactions]
    BY <1>1 DEF Node!NewTable
  <1>3. <<>> \in Seq(Transactions) /\ Len(<<>>) = 0 /\ Len(<<>>) <= Depth
    BY TableAssumption
  <1> QED  BY <1>2, <1>3

\* Without power there is what is in EEPROM.
LEMMA PowerOff ==
  ASSUME NodeInv, Node!Off, doubt' \subseteq Node!Stored,
         \A r \in Node!Stored : (Knows(r, Node!Restored(r)))'
  PROVE  NodeInv'
  <1>1. NodeTypes /\ ~twice /\ ~again
    BY DEF NodeInv, NothingTwice, Node!CommandsTakenOnce, Node!RepeatedOnce
  <1>2. /\ pc' = "off" /\ job' = Node!None /\ loops' = 0 /\ board' = Node!Cleared(board.eeprom)
        /\ table' = Node!NewTable /\ log' = <<>> /\ again' = again
        /\ UNCHANGED <<setup, heard, told, taken, twice, moved>>
    BY DEF Node!Off
  <1>3. board.eeprom \in Eeproms
    BY <1>1 DEF NodeTypes, Boards
  <1>4. board' \in Boards
    BY <1>2, <1>3, ClearedBoard DEF Blank
  <1>5. CommandTypes'
    BY <1>1, <1>2, <1>4 DEF CommandTypes, NodeTypes, Node!Steps
  <1>6. Place' /\ Ahead' /\ ChipFollowsCopies'
    BY <1>2 DEF Place, Ahead, AtRest, ChipFollowsCopies, Node!ChipFollowsCopies
  <1>7. Kept'
    BY <1>2 DEF Kept
  <1>8. CommandInv'
    BY <1>1, <1>2, <1>5, <1>6, <1>7 DEF CommandInv
  <1>9. RestInv'
    <2>1. table' \in [1 .. Depth -> Transactions] /\ log' \in Seq(Transactions)
      BY <1>2, TableAtFirst
    <2>2. Remembered'
      BY <1>2, TableAssumption DEF Remembered
    <2> QED  BY <1>1, <1>2, <2>1, <2>2 DEF NodeTypes, RestInv
  <1> QED  BY <1>8, <1>9, NodeParts, PTL

LEMMA LosesPower ==
  ASSUME NodeInv, Node!PowerLost
  PROVE  NodeInv'
  <1>1. NodeTypes /\ Kept
    BY DEF NodeInv
  <1>2. /\ pc # "off" /\ Node!Off
        /\ doubt' = IF AtRest THEN doubt ELSE doubt \cup ({job.id} \cap Node!Stored)
    BY DEF Node!PowerLost, AtRest
  <1>3. board'.eeprom = board.eeprom /\ told' = told
    BY <1>1, <1>2, ClearedBoard DEF Node!Off, NodeTypes, Boards, Blank
  <1>4. ASSUME NEW r \in Node!Stored
        PROVE  (Knows(r, Node!Restored(r)))'
    <2>1. Node!Restored(r)' = Node!Restored(r)
      BY <1>3 DEF Node!Restored
    <2>2. CASE Changing(r)
      BY <1>2, <2>2 DEF Changing, Knows
    <2>3. CASE ~Changing(r)
      <3>1. Settled(r) /\ Knows(r, Node!Value(r))
        BY <1>1, <1>2, <2>3 DEF Kept
      <3>2. r \in doubt => r \in doubt'
        BY <1>2
      <3> QED  BY <1>3, <2>1, <3>1, <3>2 DEF Settled, Knows
    <2> QED  BY <2>2, <2>3
  <1>5. doubt' \subseteq Node!Stored
    BY <1>1, <1>2 DEF NodeTypes
  <1> QED  BY <1>2, <1>4, <1>5, PowerOff

LEMMA Barks ==
  ASSUME NodeInv, Node!Watchdog
  PROVE  NodeInv'
  <1>1. NodeTypes /\ Kept /\ Place
    BY DEF NodeInv
  <1>2. pc = "halted" /\ Node!Off /\ doubt' = doubt
    BY DEF Node!Watchdog
  <1>3. board'.eeprom = board.eeprom /\ told' = told
    BY <1>1, <1>2, ClearedBoard DEF Node!Off, NodeTypes, Boards, Blank
  <1>4. ASSUME NEW r \in Node!Stored
        PROVE  (Knows(r, Node!Restored(r)))'
    <2>1. Node!Restored(r)' = Node!Restored(r)
      BY <1>3 DEF Node!Restored
    <2>2. ~Changing(r)
      BY <1>1, <1>2 DEF Changing, Place, Node!Stored
    <2>3. Settled(r) /\ Knows(r, Node!Value(r))
      BY <1>1, <1>2, <2>2 DEF Kept
    <2> QED  BY <1>2, <1>3, <2>1, <2>3 DEF Settled, Knows
  <1>5. doubt' \subseteq Node!Stored
    BY <1>1, <1>2 DEF NodeTypes
  <1> QED  BY <1>2, <1>4, <1>5, PowerOff

\* A start takes over what is in EEPROM.
LEMMA Boots ==
  ASSUME NodeInv, Node!Boot
  PROVE  NodeInv'
  <1>1. NodeTypes /\ Kept /\ ~twice
    BY DEF NodeInv, NothingTwice, Node!CommandsTakenOnce
  <1>2. /\ pc = "off" /\ pc' = "idle" /\ board' = Node!Booted(board.eeprom)
        /\ taken' = {} /\ moved' = FALSE /\ UNCHANGED <<job, told, doubt, twice>> /\ Frame
    BY DEF Node!Boot, Node!repeats, Frame
  <1>3. board.eeprom \in Eeproms
    BY <1>1 DEF NodeTypes, Boards
  <1>4. Started(board', board.eeprom)
    BY <1>2, <1>3, BootedBoard
  <1>5. CommandTypes'
    BY <1>1, <1>2, <1>4 DEF CommandTypes, NodeTypes, Node!Steps, Started
  <1>6. Place' /\ Ahead'
    BY <1>2 DEF Place, Ahead, AtRest
  <1>7. ChipFollowsCopies'
    BY <1>2, <1>4 DEF ChipFollowsCopies, Node!ChipFollowsCopies, Started, Follows, Frame
  <1>8. \A r \in Node!Stored : /\ Node!Restored(r)' = Node!Restored(r)
                               /\ Node!Value(r)' = Node!Restored(r)
    BY <1>4 DEF Started, Default, Node!Restored, Node!Value, Node!Stored, Node!BCAST
  <1>9. Kept'
    BY <1>1, <1>2, <1>8 DEF Kept, Settled, Knows
  <1>10. CommandInv'
    BY <1>1, <1>2, <1>5, <1>6, <1>7, <1>9 DEF CommandInv
  <1>11. RestInv'
    BY <1>1, <1>2, FrameKept DEF NodeTypes
  <1> QED  BY <1>10, <1>11, NodeParts, PTL

\* The table and the history grow older together.
LEMMA Ticks ==
  ASSUME NodeInv, Node!Tick
  PROVE  NodeInv'
  <1>1. NodeTypes /\ ChipFollowsCopies /\ Kept /\ ~twice /\ ~again /\ Remembered
    BY DEF NodeInv, NothingTwice, Node!CommandsTakenOnce, Node!RepeatedOnce
  <1>2. /\ pc = "idle" /\ table' = Node!Older(table) /\ log' = Node!Older(log)
        /\ UNCHANGED <<setup, pc, job, board, loops, heard, again, told, doubt, taken, twice, moved>>
    BY DEF Node!Tick, Node!history
  <1>3. table \in [1 .. Depth -> Transactions] /\ log \in Seq(Transactions)
    BY <1>1 DEF NodeTypes
  <1>4. ASSUME NEW t \in Transactions
        PROVE  [t EXCEPT !.age = IF @ < Expiration THEN @ + 1 ELSE @] \in Transactions
    <2>1. t.age \in 0 .. Expiration /\ Expiration \in Nat
      BY TableAssumption DEF Transactions
    <2>2. (IF t.age < Expiration THEN t.age + 1 ELSE t.age) \in 0 .. Expiration
      BY <2>1
    <2> QED  BY <2>2 DEF Transactions
  <1>5. table' \in [1 .. Depth -> Transactions]
    BY <1>2, <1>3, <1>4 DEF Node!Older
  <1>6. DOMAIN log = 1 .. Len(log) /\ Len(log) \in Nat
        /\ \A i \in DOMAIN log : log[i] \in Transactions
    BY <1>3
  <1>7. DOMAIN log' = 1 .. Len(log) /\ \A i \in DOMAIN log : log'[i] \in Transactions
    BY <1>2, <1>4, <1>6 DEF Node!Older
  <1>8. log' \in [1 .. Len(log) -> Transactions]
    BY <1>2, <1>6, <1>7 DEF Node!Older
  <1>9. log' \in Seq(Transactions) /\ Len(log') = Len(log)
    <2>1. log' \in Seq(Transactions)
      BY <1>6, <1>8, SeqDef
    <2> QED  BY <1>6, <1>7, <2>1, LenProperties
  <1>10. Remembered'
    <2>1. \A i \in DOMAIN log : i \in DOMAIN table /\ log[i] = table[i]
      BY <1>1, <1>3, <1>6, TableAssumption DEF Remembered
    <2>2. \A i \in DOMAIN log : log'[i] = table'[i]
      BY <1>2, <2>1 DEF Node!Older
    <2> QED  BY <1>1, <1>6, <1>7, <1>9, <2>2 DEF Remembered
  <1>11. CommandTypes'
    BY <1>1, <1>2 DEF CommandTypes, NodeTypes
  <1>12. Place' /\ Ahead'
    BY <1>2 DEF NodeInv, Place, Ahead, AtRest
  <1>13. ChipFollowsCopies'
    BY <1>1, <1>2 DEF ChipFollowsCopies, Node!ChipFollowsCopies
  <1>14. Kept'
    <2>1. \A r \in Node!Stored : told'[r] \in {told[r], Node!Garbled, Node!Value(r)}
      BY <1>2
    <2> QED  BY <1>1, <1>2, <2>1, Resting, SameValues DEF AtRest
  <1>15. CommandInv'
    BY <1>1, <1>2, <1>11, <1>12, <1>13, <1>14 DEF CommandInv
  <1>16. RestInv'
    BY <1>1, <1>2, <1>5, <1>9, <1>10 DEF NodeTypes, RestInv
  <1> QED  BY <1>15, <1>16, NodeParts, PTL

\* A part of the system that is not the node leaves it alone.
LEMMA NodeStays ==
  ASSUME NodeInv, UNCHANGED nodeVars
  PROVE  NodeInv'
  <1>1. UNCHANGED <<setup, pc, job, board, loops, table, told, doubt, taken, twice, moved, log,
                    again, heard>>
    BY DEF nodeVars
  <1>2. NodeTypes' /\ Place' /\ Ahead' /\ Remembered'
    BY <1>1 DEF NodeInv, NodeTypes, Place, Ahead, Remembered, AtRest
  <1>3. Kept'
    <2>1. Kept
      BY DEF NodeInv
    <2>2. \A r \in Node!Stored : /\ Settled(r)' = Settled(r)
                                 /\ (Knows(r, Node!Value(r)))' = Knows(r, Node!Value(r))
                                 /\ (Knows(r, Node!Restored(r)))' = Knows(r, Node!Restored(r))
                                 /\ Changing(r)' = Changing(r)
      BY <1>1 DEF Settled, Knows, Changing, AtRest, Node!Value, Node!Restored
    <2>3. (told[job.id] \in {Node!Garbled, Node!Value(job.id)})'
            = (told[job.id] \in {Node!Garbled, Node!Value(job.id)})
      BY <1>1 DEF Node!Value
    <2> QED  BY <1>1, <2>1, <2>2, <2>3 DEF Kept
  <1>4. NothingTwice' /\ ChipFollowsCopies'
    BY <1>1 DEF NodeInv, NothingTwice, ChipFollowsCopies, Node!CommandsTakenOnce,
                Node!RepeatedOnce, Node!ChipFollowsCopies
  <1> QED  BY <1>2, <1>3, <1>4 DEF NodeInv

\* A new board.
LEMMA NodeInit ==
  ASSUME Node!Init
  PROVE  NodeInv
  <1>1. /\ setup \in Setups /\ pc = "idle" /\ job = Node!None /\ loops = 0 /\ heard = 0
        /\ table = Node!NewTable /\ log = <<>> /\ again = FALSE
        /\ told = [r \in Node!Stored |-> Node!Nothing] /\ doubt = {}
        /\ taken = {} /\ twice = FALSE /\ moved = FALSE
    BY DEF Node!Init
  <1>2. PICK a \in FirstAddrs : board = Node!Booted(Node!NewEeprom(a))
    BY DEF Node!Init
  <1>3. PICK e : e = Node!NewEeprom(a)
    OBVIOUS
  <1>4. e \in Eeproms
    <2>1. a \in Bytes
      BY SetupAssumption DEF Bytes
    <2>2. ByteSize * ByteSize - 1 \in Node!Intervals /\ Node!Erased \in Bytes
      BY Names0
    <2>3. Node!NoSync \in Words
      BY Names0
    <2> QED  BY <1>3, <2>1, <2>2, <2>3 DEF Eeproms, Node!NewEeprom
  <1>5. Started(board, e)
    BY <1>2, <1>3, <1>4, BootedBoard
  <1>6. CommandTypes
    BY <1>1, <1>5 DEF CommandTypes, Started, Node!Steps, Told
  <1>7. Place /\ Ahead
    BY <1>1 DEF Place, Ahead, AtRest
  <1>8. ChipFollowsCopies
    BY <1>5 DEF ChipFollowsCopies, Node!ChipFollowsCopies, Started, Follows
  <1>9. \A r \in Node!Stored : Node!Value(r) = Node!Restored(r)
    BY <1>5 DEF Started, Default, Node!Restored, Node!Value, Node!Stored, Node!BCAST
  <1>10. Kept
    BY <1>1, <1>9 DEF Kept, Settled, Knows
  <1>11. RestInv
    <2>1. table \in [1 .. Depth -> Transactions] /\ log \in Seq(Transactions)
      BY <1>1, TableAtFirst
    <2>2. Remembered
      BY <1>1, TableAssumption DEF Remembered
    <2>3. setup \in Setups /\ loops \in Int /\ heard \in Nat /\ doubt \subseteq Node!Stored
      BY <1>1
    <2>4. moved \in BOOLEAN /\ again = FALSE
      BY <1>1
    <2> QED  BY <2>1, <2>2, <2>3, <2>4 DEF RestInv
  <1>12. CommandInv
    BY <1>1, <1>6, <1>7, <1>8, <1>10 DEF CommandInv
  <1> QED  BY <1>11, <1>12, NodeParts

\* Every step of the node keeps the invariant,
LEMMA NodeNext ==
  ASSUME NodeInv, Node!Next
  PROVE  NodeInv'
  <1>1. CASE \E m \in Messages : Node!isrGDO0event(m)
    BY <1>1, Hears
  <1>2. CASE Node!Registers
    BY <1>2, StateSet, FreqChannelSet, AddressCommand, NetworkIdSet, IntervalSet, NothingSet,
       DataSet, ByteSaved, BoardReset DEF Node!Registers
  <1>3. CASE Node!goToSleep \/ Node!sleeping
    BY <1>3, Sleeps
  <1>4. CASE Node!PowerLost
    BY <1>4, LosesPower
  <1>5. CASE Node!Watchdog
    BY <1>5, Barks
  <1>6. CASE Node!Boot
    BY <1>6, Boots
  <1>7. CASE Node!Tick
    BY <1>7, Ticks
  <1> QED  BY <1>1, <1>2, <1>3, <1>4, <1>5, <1>6, <1>7 DEF Node!Next

\* and so does every step of the system.
LEMMA NodeHolds == Spec => []NodeInv
  <1>1. Init => NodeInv
    BY NodeInit DEF Init
  <1>2. NodeInv /\ [Next]_<<level, cardVars, configVars, nodeVars, clockVars, timeVars,
                            driverVars, smartVars>> => NodeInv'
    <2> SUFFICES ASSUME NodeInv,
                        [Next]_<<level, cardVars, configVars, nodeVars, clockVars, timeVars,
                                 driverVars, smartVars>>
                 PROVE  NodeInv'
      OBVIOUS
    <2>1. CASE UNCHANGED nodeVars
      BY <2>1, NodeStays
    <2>2. CASE Rest("node") /\ Node!Next
      BY <2>2, NodeNext
    <2>3. UNCHANGED nodeVars \/ (Rest("node") /\ Node!Next)
      BY DEF Next, Rest
    <2> QED  BY <2>1, <2>2, <2>3
  <1> QED  BY <1>1, <1>2, PTL DEF Spec

\* The variables of the node have their types (SwapNode's TypeOK).
THEOREM NodeTypesCorrect == Spec => []Node!TypeOK
  <1>1. NodeInv => Node!TypeOK
    BY TypesOfNode DEF NodeInv, Remembered
  <1> QED  BY <1>1, NodeHolds, PTL

\* For bytes of any size, any packets and any table: with anti-playback no command
\* is carried out twice between two starts or rounds of the nonce, and no packet in
\* clear is repeated that is in the repeater's table (Panstamp.cpp:138-148,
\* swstatus.cpp:43, repeater.cpp:56-104).
THEOREM CommandsAndRepeatsOnce == Spec => []NothingTwice
  <1>1. NodeInv => NothingTwice
    BY DEF NodeInv
  <1> QED  BY <1>1, NodeHolds, PTL

\* What a node at rest has told the network of its address and its interval is what
\* it works with and what it will load at the next start, whenever power was lost
\* before, unless it was lost within the last command to that register; only the
\* address 0 is not kept (register.cpp:71-89, cc1101.cpp:221).
THEOREM ConfirmedSurvivesRestarts == Spec => []ConfirmedIsKept
  <1>1. NodeInv => ConfirmedIsKept
    <2> SUFFICES ASSUME NodeInv, pc \in {"idle", "asleep"}, NEW r \in Node!Stored
                 PROVE  \/ told[r] \in {Node!Nothing, Node!Garbled} \/ r \in doubt
                        \/ r = "DEVADDRESS" /\ told[r] = Node!BCAST
                        \/ told[r] = Node!Value(r) /\ Node!Value(r) = Node!Restored(r)
      BY DEF ConfirmedIsKept, Node!ConfirmedIsKept
    <2>1. Settled(r) /\ Knows(r, Node!Value(r))
      BY DEF NodeInv, Kept, Changing, AtRest
    <2> QED  BY <2>1 DEF Settled, Knows
  <1> QED  BY <1>1, NodeHolds, PTL

\* The chip is on the channel and in the network of the driver's copies at every
\* step of every command and after every start, and filters on the node's address
\* but for one set by a command and 0xFF (cc1101.cpp:205-226, 300-365).
THEOREM ChipIsTuned == Spec => []ChipFollowsCopies
  <1>1. NodeInv => ChipFollowsCopies
    BY DEF NodeInv
  <1> QED  BY <1>1, NodeHolds, PTL

-----------------------------------------------------------------------------
(* The configuration: the inductive invariant.                             *)

ConfigTypes ==
  /\ file \in Seq(Lines) /\ Len(file) \in 1 .. MaxLines /\ nl \in {1, 2} /\ open \in BOOLEAN
  /\ stage \in Config!KeySet \cup {"validate", "loaded", "failed"}
  /\ getValueState \in {"funcUnset", "funcFindSection", "funcFindKey"}
  /\ readLinePosition \in 1 .. Len(file) + 1
  /\ value \in [Config!KeySet -> Nat] /\ reads \in Nat
  /\ misread \subseteq Config!KeySet \cup {"validate"}

\* s is where the first section of the name begins.
FirstSection(s) == /\ Config!What(s) = "WIFI"
                   /\ \A r \in 1 .. s - 1 : Config!What(r) # "WIFI"

\* readLine() has come past lines that it reads as a whole only.
LinesRead == \A i \in 1 .. readLinePosition - 1 : Config!Short(i)

\* The one place where a search does not get on.
Stuck == /\ readLinePosition = Len(file)
         /\ Config!What(Len(file)) = "comment" /\ ~Config!Short(Len(file))

\* The file in which it is.
Endless == /\ Config!What(Len(file)) = "comment" /\ ~Config!Short(Len(file))
           /\ \A i \in 1 .. Len(file) : Config!What(i) # "WIFI"

Searches ==
  /\ getValueState = "funcUnset" => IF stage = "validate" THEN reads <= readLinePosition - 1
                                    ELSE readLinePosition = 1 /\ reads = 0 /\ ~adrift
  /\ getValueState # "funcUnset" => stage \in Config!KeySet
  /\ getValueState = "funcFindSection" =>
       /\ \A i \in 1 .. readLinePosition - 1 : Config!What(i) # "WIFI"
       /\ reads <= readLinePosition - 1 \/ Stuck
  /\ getValueState = "funcFindKey" =>
       /\ reads <= readLinePosition \/ (adrift /\ Endless)
       /\ adrift \/ \E s \in 1 .. readLinePosition :
            /\ s \in 1 .. Len(file) /\ FirstSection(s)
            /\ s = readLinePosition => s = Len(file)
            /\ \A r \in s + 1 .. readLinePosition - 1 :
                 Config!What(r) \notin Config!Sections \cup {stage}

\* The keys before the one that is looked for have been found, unless the card failed.
Found ==
  \A i \in DOMAIN Keys :
    (stage = "loaded" \/ \E j \in DOMAIN Keys : i < j /\ stage = Keys[j])
       => value[Keys[i]] \in Config!LineOf(Keys[i]) \/ Keys[i] \in misread

\* A failure has a reason.
Lacking == \/ \E i \in DOMAIN file : ~Config!Fits(i)
           \/ \E k \in Config!KeySet : Config!LineOf(k) = {}
Reason == misread # {} \/ Lacking

ConfigInv == /\ ConfigTypes /\ LinesRead /\ Searches /\ Found /\ (stage = "failed" => Reason)

\* The keys: names of their own, each looked for once.
LEMMA KeyFacts ==
  /\ Len(Keys) \in Nat /\ Len(Keys) >= 1 /\ DOMAIN Keys = 1 .. Len(Keys)
  /\ \A i \in 1 .. Len(Keys) : Keys[i] \in Config!KeySet
  /\ \A k \in Config!KeySet : \E i \in 1 .. Len(Keys) : k = Keys[i]
  /\ \A i, j \in 1 .. Len(Keys) : Keys[i] = Keys[j] => i = j
  /\ \A k \in Config!KeySet :
       k \notin {"WIFI", "other", "comment", "", "validate", "loaded", "failed"}
  <1>1. Keys \in Seq(STRING) /\ Keys # <<>>
    BY KeysAssumption
  <1>2. Len(Keys) \in Nat /\ DOMAIN Keys = 1 .. Len(Keys)
    BY <1>1
  <1>3. Len(Keys) >= 1
    <2>1. Len(Keys) # 0
      BY <1>1, EmptySeq
    <2> QED  BY <1>2, <2>1
  <1>4. \A i, j \in 1 .. Len(Keys) : Keys[i] = Keys[j] => i = j
    BY <1>2, KeysAssumption
  <1>5. \A i \in 1 .. Len(Keys) :
          Keys[i] \notin {"WIFI", "other", "comment", "", "validate", "loaded", "failed"}
    BY <1>2, KeysAssumption
  <1> QED  BY <1>2, <1>3, <1>4, <1>5 DEF Config!KeySet

\* The four answers of readLine() when the card does not fail.
Answer(line, p) ==
  \/ /\ p = Len(file) + 1
     /\ line.err = "errorEndOfFile" /\ line.text = "" /\ line.next = p
  \/ /\ p \in 1 .. Len(file) /\ Config!Short(p)
     /\ line.err = "errorNoError" /\ line.text = Config!What(p) /\ line.next = p + 1
  \/ /\ p = Len(file) /\ p \in 1 .. Len(file) /\ ~Config!Short(p)
     /\ line.err = "errorEndOfFile" /\ line.text = Config!What(p) /\ line.next = p
  \/ /\ p \in 1 .. Len(file) /\ ~Config!Fits(p)
     /\ line.err = "errorBufferTooSmall"

LEMMA Answers ==
  ASSUME ConfigTypes, NEW p \in 1 .. Len(file) + 1
  PROVE  Answer(Config!Line(p), p) /\ Config!Line(p).well = TRUE
  <1>1. Len(file) \in Nat
    BY DEF ConfigTypes
  <1>2. PICK line : line = Config!Line(p)
    OBVIOUS
  <1> SUFFICES Answer(line, p) /\ line.well = TRUE
    BY <1>2
  <1>3. CASE p > Len(file)
    <2>1. ~(p <= Len(file)) /\ p = Len(file) + 1
      BY <1>1, <1>3
    <2>2. line = [err |-> "errorEndOfFile", text |-> "", next |-> p, well |-> TRUE]
      BY <1>3, <1>2, <2>1 DEF Config!Line
    <2>3. line.err = "errorEndOfFile" /\ line.text = "" /\ line.next = p /\ line.well = TRUE
      BY <2>2
    <2> QED  BY <2>1, <2>3 DEF Answer
  <1>4. CASE p <= Len(file) /\ Config!Short(p)
    <2>1. ~(p > Len(file)) /\ p \in 1 .. Len(file)
      BY <1>1, <1>4
    <2>2. line = [err |-> "errorNoError", text |-> Config!What(p), next |-> p + 1, well |-> TRUE]
      BY <1>4, <1>2, <2>1 DEF Config!Line
    <2>3. line.err = "errorNoError" /\ line.text = Config!What(p) /\ line.next = p + 1 /\ line.well = TRUE
      BY <2>2
    <2> QED  BY <1>4, <2>1, <2>3 DEF Answer
  <1>5. CASE p <= Len(file) /\ ~Config!Short(p) /\ Config!AtEnd(p)
    <2>1. ~(p > Len(file)) /\ p = Len(file) /\ p \in 1 .. Len(file)
      BY <1>1, <1>5 DEF Config!AtEnd
    <2>2. line = [err |-> "errorEndOfFile", text |-> Config!What(p), next |-> p, well |-> TRUE]
      BY <1>5, <1>2, <2>1 DEF Config!Line
    <2>3. line.err = "errorEndOfFile" /\ line.text = Config!What(p) /\ line.next = p /\ line.well = TRUE
      BY <2>2
    <2> QED  BY <1>5, <2>1, <2>3 DEF Answer
  <1>6. CASE p <= Len(file) /\ ~Config!Short(p) /\ ~Config!AtEnd(p)
    <2>1. ~(p > Len(file)) /\ p \in 1 .. Len(file) /\ ~Config!Fits(p)
      BY <1>1, <1>6 DEF Config!Fits
    <2>2. line = [err |-> "errorBufferTooSmall", text |-> "", next |-> p, well |-> TRUE]
      BY <1>6, <1>2, <2>1 DEF Config!Line
    <2>3. line.err = "errorBufferTooSmall" /\ line.text = "" /\ line.next = p /\ line.well = TRUE
      BY <2>2
    <2> QED  BY <1>6, <2>1, <2>3 DEF Answer
  <1>7. p > Len(file) \/ p <= Len(file)
    BY <1>1
  <1> QED  BY <1>3, <1>4, <1>5, <1>6, <1>7, Zenon

\* A call reads a line, or the card fails.
LEMMA WellOrBadly ==
  ASSUME NEW p, NEW line \in Config!readLine(p)
  PROVE  \/ line = Config!Line(p) /\ ~adrift
         \/ line.well = FALSE /\ line.next = p /\ line.err \in Config!Failed \cup Config!Taken
  <1>1. CASE line = Config!Line(p) /\ ~adrift
    BY <1>1
  <1>2. CASE \E errs \in SUBSET (Config!Failed \cup Config!Taken) : \E texts :
               line \in Config!Bad(errs, texts, p)
    BY <1>2 DEF Config!Bad
  <1>3. /\ Config!Failed \subseteq Config!Failed \cup Config!Taken
        /\ Config!Taken \subseteq Config!Failed \cup Config!Taken
        /\ {"errorSeekError"} \subseteq Config!Failed \cup Config!Taken
        /\ {"errorBufferTooSmall"} \subseteq Config!Failed \cup Config!Taken
        /\ {"errorNoError"} \subseteq Config!Failed \cup Config!Taken
    BY DEF Config!Failed, Config!Taken
  <1>4. CASE adrift
    BY <1>2, <1>3, <1>4 DEF Config!readLine
  <1>5. CASE ~adrift
    BY <1>1, <1>2, <1>3, <1>5 DEF Config!readLine
  <1> QED  BY <1>4, <1>5

\* A file does not change.
FileStays == UNCHANGED <<file, nl, open>>

LEMMA SameFile ==
  ASSUME ConfigInv, FileStays
  PROVE  /\ file' \in Seq(Lines) /\ Len(file') \in 1 .. MaxLines
         /\ nl' \in {1, 2} /\ open' \in BOOLEAN
         /\ Len(file') = Len(file) /\ Lacking' = Lacking
         /\ \A i : /\ Config!Short(i)' <=> Config!Short(i)
                   /\ Config!What(i)' = Config!What(i)
                   /\ Config!LineOf(i)' = Config!LineOf(i)
  BY DEF ConfigInv, ConfigTypes, FileStays, Lacking, Config!Fits, Config!Short, Config!AtEnd,
         Config!Ended, Config!Size, Config!What, Config!LineOf

\* A new stage begins at the first line.
LEMMA Begins ==
  ASSUME ConfigInv, FileStays, NEW s \in Config!KeySet \cup {"loaded", "failed"},
         Config!Begin(s), value' \in [Config!KeySet -> Nat], Found',
         misread' \subseteq Config!KeySet \cup {"validate"}, s = "failed" => Reason'
  PROVE  ConfigInv'
  <1>1. /\ stage' = s /\ getValueState' = "funcUnset" /\ readLinePosition' = 1 /\ reads' = 0
        /\ adrift' = FALSE
    BY DEF Config!Begin
  <1>2. Len(file) \in Nat
    BY DEF ConfigInv, ConfigTypes
  <1>3. ConfigTypes'
    BY <1>1, <1>2, SameFile DEF ConfigTypes
  <1>4. s # "validate"
    BY KeyFacts
  <1>5. Searches'
    BY <1>1, <1>4 DEF Searches
  <1>6. LinesRead'
    BY <1>1 DEF LinesRead
  <1>7. (stage = "failed" => Reason)'
    BY <1>1
  <1> QED  BY <1>3, <1>5, <1>6, <1>7 DEF ConfigInv

LEMMA Fails ==
  ASSUME ConfigInv, FileStays, Config!Begin("failed"), value' = value, Reason',
         misread' \subseteq Config!KeySet \cup {"validate"}
  PROVE  ConfigInv'
  <1>1. Found'
    BY KeyFacts DEF Found, Config!Begin
  <1>2. value' \in [Config!KeySet -> Nat]
    BY DEF ConfigInv, ConfigTypes
  <1> QED  BY <1>1, <1>2, Begins

\* A reason in the file stays one.
LEMMA FailsWell ==
  ASSUME ConfigInv, FileStays, Config!Begin("failed"), value' = value, Lacking,
         misread' = misread
  PROVE  ConfigInv'
  <1>1. Reason'
    BY SameFile DEF Reason
  <1>2. misread' \subseteq Config!KeySet \cup {"validate"}
    BY DEF ConfigInv, ConfigTypes
  <1> QED  BY <1>1, <1>2, Fails

\* A failure of the card.
FailedHere == /\ misread' = misread \cup {stage} /\ stage \in Config!KeySet \cup {"validate"}
              /\ FileStays

LEMMA FailsBadly ==
  ASSUME ConfigInv, FailedHere, Config!Begin("failed"), value' = value
  PROVE  ConfigInv'
  <1>1. Reason' /\ misread' \subseteq Config!KeySet \cup {"validate"} /\ FileStays
    BY DEF Reason, FailedHere, ConfigInv, ConfigTypes
  <1> QED  BY <1>1, Fails

\* A call goes on where it was when a read of it fails.
LEMMA GoesOnBadly ==
  ASSUME ConfigInv, FailedHere, NEW line, line.well = FALSE, line.next = readLinePosition,
         Config!Reading(line), stage' = stage, value' = value,
         \/ getValueState' = getValueState /\ (getValueState # "funcUnset" \/ stage = "validate")
         \/ getValueState = "funcFindSection" /\ getValueState' = "funcFindKey"
  PROVE  ConfigInv'
  <1>1. ConfigTypes /\ LinesRead /\ Searches /\ Found
    BY DEF ConfigInv
  <1>2. /\ readLinePosition' = readLinePosition /\ adrift' = TRUE /\ reads' = reads
        /\ FileStays /\ misread' = misread \cup {stage}
        /\ stage \in Config!KeySet \cup {"validate"}
    BY DEF Config!Reading, FailedHere
  <1>3. misread' \subseteq Config!KeySet \cup {"validate"}
    BY <1>1, <1>2 DEF ConfigTypes
  <1>4. getValueState' \in {"funcUnset", "funcFindSection", "funcFindKey"}
    BY <1>1 DEF ConfigTypes
  <1>5. ConfigTypes'
    BY <1>1, <1>2, <1>3, <1>4, SameFile DEF ConfigTypes
  <1>6. LinesRead'
    BY <1>1, <1>2, SameFile DEF LinesRead
  <1>7. Stuck' <=> Stuck
    BY <1>2, SameFile DEF Stuck
  <1>8. Endless' <=> Endless
    BY <1>2, SameFile DEF Endless
  <1>9. Len(file) \in Nat /\ reads \in Nat /\ readLinePosition \in 1 .. Len(file) + 1
    BY <1>1 DEF ConfigTypes
  <1>10. getValueState = "funcFindSection" => reads <= readLinePosition \/ Endless
    <2>1. ASSUME Stuck, getValueState = "funcFindSection" PROVE Endless
      <3>1. \A i \in 1 .. readLinePosition - 1 : Config!What(i) # "WIFI"
        BY <1>1, <2>1 DEF Searches
      <3>2. \A i \in 1 .. Len(file) : i \in 1 .. readLinePosition - 1 \/ i = Len(file)
        BY <1>9, <2>1 DEF Stuck
      <3> QED  BY <2>1, <3>1, <3>2 DEF Stuck, Endless
    <2>2. reads <= readLinePosition - 1 => reads <= readLinePosition
      BY <1>9
    <2> QED  BY <1>1, <2>1, <2>2 DEF Searches
  <1>11. Searches'
    BY <1>1, <1>2, <1>7, <1>8, <1>10, SameFile, KeyFacts DEF Searches
  <1>12. Found'
    BY <1>1, <1>2, SameFile DEF Found
  <1>13. stage' # "failed"
    BY <1>2, KeyFacts
  <1> QED  BY <1>5, <1>6, <1>11, <1>12, <1>13 DEF ConfigInv

LEMMA ConfigInit ==
  ASSUME Config!Init
  PROVE  ConfigInv
  <1>1. PICK n \in 1 .. MaxLines : file \in [1 .. n -> Lines]
    BY DEF Config!Init, Config!Files
  <1>2. /\ nl \in {1, 2} /\ open \in BOOLEAN /\ stage = "validate"
        /\ getValueState = "funcUnset" /\ readLinePosition = 1
        /\ value = [k \in Config!KeySet |-> 0] /\ reads = 0
        /\ adrift = FALSE /\ misread = {}
    BY DEF Config!Init
  <1>3. n \in Nat /\ file \in Seq(Lines) /\ Len(file) = n
    <2>1. n \in Nat
      BY LinesAssumption
    <2>2. file \in Seq(Lines)
      BY <1>1, <2>1, SeqDef
    <2> QED  BY <1>1, <2>1, <2>2, LenProperties
  <1>4. ConfigTypes
    BY <1>1, <1>2, <1>3 DEF ConfigTypes
  <1>5. LinesRead /\ Searches
    BY <1>2 DEF LinesRead, Searches
  <1>6. Found
    BY <1>2, KeyFacts DEF Found
  <1> QED  BY <1>2, <1>4, <1>5, <1>6 DEF ConfigInv

\* The search for the first key.
LEMMA ValidateEnds ==
  ASSUME ConfigInv, Config!Begin(Keys[1]), FileStays, value' = value,
         misread' \subseteq Config!KeySet \cup {"validate"}
  PROVE  ConfigInv'
  <1>2. 1 \in 1 .. Len(Keys) /\ Keys[1] \in Config!KeySet
    <2>1. Len(Keys) \in Nat /\ Len(Keys) >= 1
      BY KeyFacts
    <2>2. 1 \in 1 .. Len(Keys)
      BY <2>1
    <2> QED  BY <2>2, KeyFacts
  <1>3. Found'
    <2>1. stage' = Keys[1]
      BY DEF Config!Begin
    <2>2. \A i, j \in 1 .. Len(Keys) : i < j => Keys[j] # Keys[1]
      <3>1. \A i, j \in 1 .. Len(Keys) : i < j => j # 1
        OBVIOUS
      <3> QED  BY <1>2, <3>1, KeyFacts
    <2> QED  BY <1>2, <2>1, <2>2, KeyFacts DEF Found
  <1>4. value' \in [Config!KeySet -> Nat] /\ Keys[1] # "failed"
    BY <1>2, KeyFacts DEF ConfigInv, ConfigTypes
  <1> QED  BY <1>2, <1>3, <1>4, Begins

\* validate() reads line by line.
LEMMA ValidatesWell ==
  ASSUME ConfigInv, stage = "validate", value' = value, ~adrift, misread' = misread,
         NEW line, line = Config!Line(readLinePosition), Config!Validated(line)
  PROVE  ConfigInv'
  <1>1. ConfigTypes /\ LinesRead /\ Searches /\ Found
    BY DEF ConfigInv
  <1>2. stage = "validate" /\ value' = value /\ getValueState = "funcUnset"
    BY <1>1, KeyFacts DEF Searches, ConfigTypes
  <1>3. PICK p : p = readLinePosition
    OBVIOUS
  <1>4. line = Config!Line(p)
    BY <1>3
  <1>5. p \in 1 .. Len(file) + 1 /\ Len(file) \in Nat /\ reads \in Nat /\ reads <= p - 1
    BY <1>1, <1>2, <1>3 DEF ConfigTypes, Searches
  <1>6. Answer(line, p) /\ line.well = TRUE
    BY <1>1, <1>4, <1>5, Answers
  <1>7. CASE line.err = "errorNoError"
    <2>1. /\ p \in 1 .. Len(file) /\ Config!Short(p) /\ line.next = p + 1
      BY <1>7, <1>6 DEF Answer
    <2>2. Config!Reading(line) /\ UNCHANGED <<stage, getValueState>>
      BY <1>3, <1>4, <1>7 DEF Config!Validated, Config!Failed
    <2>3. /\ FileStays /\ readLinePosition' = p + 1 /\ reads' \in Nat /\ reads' <= p
      BY <1>5, <2>1, <2>2 DEF Config!Reading, FileStays
    <2>4. ConfigTypes'
      BY <1>1, <1>2, <1>5, <2>1, <2>2, <2>3, SameFile DEF ConfigTypes
    <2>5. LinesRead'
      BY <1>1, <1>3, <1>5, <2>1, <2>3, SameFile DEF LinesRead
    <2>6. Searches'
      BY <1>2, <1>5, <2>2, <2>3 DEF Searches
    <2>7. Found'
      BY <1>2, <2>2, KeyFacts DEF Found
    <2>8. stage' # "failed"
      BY <1>2, <2>2
    <2> QED  BY <2>4, <2>5, <2>6, <2>7, <2>8 DEF ConfigInv
  <1>8. CASE line.err = "errorEndOfFile"
    <2>1. Config!Begin(Keys[1]) /\ FileStays
      BY <1>3, <1>4, <1>8 DEF Config!Validated, Config!Failed, FileStays
    <2>2. misread' \subseteq Config!KeySet \cup {"validate"}
      BY <1>1 DEF ConfigTypes
    <2> QED  BY <1>2, <2>1, <2>2, ValidateEnds
  <1>9. CASE line.err = "errorBufferTooSmall"
    <2>1. p \in 1 .. Len(file) /\ ~Config!Fits(p)
      BY <1>9, <1>6 DEF Answer
    <2>2. Config!Begin("failed") /\ FileStays
      BY <1>3, <1>4, <1>9 DEF Config!Validated, Config!Failed, FileStays
    <2>3. DOMAIN file = 1 .. Len(file)
      BY <1>1 DEF ConfigTypes
    <2>4. Lacking
      BY <2>1, <2>3 DEF Lacking
    <2> QED  BY <1>2, <2>2, <2>4, FailsWell
  <1>10. line.err \in {"errorNoError", "errorEndOfFile", "errorBufferTooSmall"}
    BY <1>6 DEF Answer
  <1> QED  BY <1>7, <1>8, <1>9, <1>10

LEMMA Validates ==
  ASSUME ConfigInv, Config!Validate
  PROVE  ConfigInv'
  <1>1. PICK line \in Config!readLine(readLinePosition) :
          Config!Validated(line) /\ Config!Note(line)
    BY DEF Config!Validate
  <1>2. stage = "validate" /\ value' = value
    BY DEF Config!Validate
  <1>3. CASE line = Config!Line(readLinePosition) /\ ~adrift
    <2>1. ConfigTypes /\ readLinePosition \in 1 .. Len(file) + 1
      BY DEF ConfigInv, ConfigTypes
    <2>2. misread' = misread
      BY <1>1, <1>3, <2>1, Answers DEF Config!Note
    <2> QED  BY <1>1, <1>2, <1>3, <2>2, ValidatesWell
  <1>4. CASE /\ line.well = FALSE /\ line.next = readLinePosition
             /\ line.err \in Config!Failed \cup Config!Taken
    <2>1. misread' = misread \cup {stage}
      BY <1>1, <1>4 DEF Config!Note
    <2>2. misread' \subseteq Config!KeySet \cup {"validate"}
      BY <1>2, <2>1 DEF ConfigInv, ConfigTypes
    <2>3. CASE line.err = "errorNoError"
      <3>1. Config!Reading(line) /\ UNCHANGED <<stage, getValueState>>
        BY <1>1, <2>3 DEF Config!Validated, Config!Failed
      <3>2. FailedHere
        BY <1>2, <2>1, <3>1 DEF FailedHere, FileStays, Config!Reading
      <3> QED  BY <1>2, <1>4, <3>1, <3>2, GoesOnBadly
    <2>4. CASE line.err = "errorEndOfFile"
      <3>1. Config!Begin(Keys[1]) /\ FileStays
        BY <1>1, <2>4 DEF Config!Validated, Config!Failed, FileStays
      <3> QED  BY <1>2, <2>2, <3>1, ValidateEnds
    <2>5. CASE line.err \in Config!Failed
      <3>1. Config!Begin("failed") /\ FileStays
        BY <1>1, <2>5 DEF Config!Validated, Config!Failed, FileStays
      <3>2. FailedHere
        BY <1>2, <2>1, <3>1 DEF FailedHere
      <3> QED  BY <1>2, <3>1, <3>2, FailsBadly
    <2> QED  BY <1>4, <2>3, <2>4, <2>5 DEF Config!Taken
  <1> QED  BY <1>1, <1>3, <1>4, WellOrBadly

\* getValue() sets its state to the beginning.
LEMMA Unsets ==
  ASSUME ConfigInv, Config!Unset
  PROVE  ConfigInv'
  <1>1. ConfigTypes /\ LinesRead /\ Searches /\ Found
    BY DEF ConfigInv
  <1>2. /\ stage \in Config!KeySet /\ getValueState = "funcUnset"
        /\ getValueState' = "funcFindSection" /\ readLinePosition' = 1
        /\ FileStays /\ UNCHANGED <<stage, adrift, value, reads, misread>>
    BY DEF Config!Unset, Config!Looking, FileStays
  <1>3. reads = 0 /\ stage # "failed"
    BY <1>1, <1>2, KeyFacts DEF Searches
  <1>4. Len(file) \in Nat
    BY <1>1 DEF ConfigTypes
  <1>5. ConfigTypes'
    BY <1>1, <1>2, <1>4, SameFile DEF ConfigTypes
  <1>6. LinesRead'
    BY <1>2 DEF LinesRead
  <1>7. Searches'
    BY <1>2, <1>3 DEF Searches
  <1>8. Found'
    BY <1>1, <1>2, SameFile DEF Found
  <1> QED  BY <1>2, <1>3, <1>5, <1>6, <1>7, <1>8 DEF ConfigInv

\* Without the section there is no key.
LEMMA NoSection ==
  ASSUME ConfigTypes, \A i \in 1 .. Len(file) : Config!What(i) # "WIFI", NEW k
  PROVE  Config!LineOf(k) = {}
  <1>1. DOMAIN file = 1 .. Len(file) /\ Len(file) \in Nat
    BY DEF ConfigTypes
  <1>2. \A j \in DOMAIN file : \A s \in 1 .. j - 1 : s \in 1 .. Len(file)
    BY <1>1
  <1> QED  BY <1>1, <1>2 DEF Config!LineOf

\* findSection() goes on, finds the section or fails.
LEMMA FindsSectionWell ==
  ASSUME ConfigInv, Config!Looking("funcFindSection"), value' = value, ~adrift,
         misread' = misread, NEW line, line = Config!Line(readLinePosition),
         Config!SectionSought(line)
  PROVE  ConfigInv'
  <1>1. ConfigTypes /\ LinesRead /\ Searches /\ Found
    BY DEF ConfigInv
  <1>2. stage \in Config!KeySet /\ getValueState = "funcFindSection" /\ value' = value
    BY DEF Config!Looking
  <1>3. PICK p : p = readLinePosition
    OBVIOUS
  <1>4. line = Config!Line(p)
    BY <1>3
  <1>5. /\ p \in 1 .. Len(file) + 1 /\ Len(file) \in Nat /\ reads \in Nat
        /\ reads <= p - 1 \/ Stuck
        /\ \A i \in 1 .. p - 1 : Config!What(i) # "WIFI"
    BY <1>1, <1>2, <1>3 DEF ConfigTypes, Searches
  <1>6. Answer(line, p) /\ line.well = TRUE
    BY <1>1, <1>4, <1>5, Answers
  <1>7. DOMAIN file = 1 .. Len(file) /\ stage # "failed" /\ stage # "validate" /\ stage # "loaded"
    <2>1. DOMAIN file = 1 .. Len(file)
      BY <1>1 DEF ConfigTypes
    <2> QED  BY <1>2, <2>1, KeyFacts
  <1>8. CASE Config!findSection(line) = "error"
    <2>1. Config!Begin("failed") /\ FileStays
      BY <1>3, <1>4, <1>8 DEF Config!SectionSought, FileStays
    <2>2. \/ line.err = "errorBufferTooSmall"
          \/ line.err = "errorEndOfFile" /\ line.text # "WIFI"
      BY <1>6, <1>8 DEF Config!findSection, Config!Failed, Answer
    <2>3. CASE line.err = "errorBufferTooSmall"
      <3>1. p \in 1 .. Len(file) /\ ~Config!Fits(p)
        BY <1>6, <2>3 DEF Answer
      <3> QED  BY <1>2, <1>7, <2>1, <3>1, FailsWell DEF Lacking
    <2>4. CASE line.err = "errorEndOfFile" /\ line.text # "WIFI"
      <3>1. p = Len(file) + 1 \/ (p = Len(file) /\ Config!What(p) # "WIFI")
        BY <1>6, <2>4 DEF Answer
      <3>2. \A i \in 1 .. Len(file) : i \in 1 .. p - 1 \/ (i = p /\ p = Len(file))
        BY <1>5, <3>1
      <3>3. \A i \in 1 .. Len(file) : Config!What(i) # "WIFI"
        BY <1>5, <3>1, <3>2
      <3>4. Config!LineOf(stage) = {}
        BY <1>1, <3>3, NoSection
      <3> QED  BY <1>2, <2>1, <3>4, FailsWell DEF Lacking
    <2> QED  BY <2>2, <2>3, <2>4
  <1>9. CASE Config!findSection(line) = "found"
    <2>1. /\ Config!Reading(line) /\ getValueState' = "funcFindKey" /\ stage' = stage
      BY <1>3, <1>4, <1>9 DEF Config!SectionSought
    <2>2. line.err # "errorBufferTooSmall" /\ line.text = "WIFI"
      BY <1>9 DEF Config!findSection, Config!Failed
    <2>3. /\ p \in 1 .. Len(file) /\ Config!What(p) = "WIFI"
          /\ \/ Config!Short(p) /\ line.next = p + 1
             \/ p = Len(file) /\ line.next = p
      BY <1>6, <2>2 DEF Answer
    <2>4. FileStays /\ readLinePosition' = line.next /\ reads' \in {reads, reads + 1}
      BY <2>1 DEF Config!Reading, FileStays
    <2>5. reads <= p - 1
      BY <1>3, <1>5, <2>3 DEF Stuck
    <2>6. /\ readLinePosition' \in 1 .. Len(file) + 1 /\ reads' \in Nat
          /\ reads' <= readLinePosition' /\ p \in 1 .. readLinePosition'
          /\ p = readLinePosition' => p = Len(file)
          /\ p + 1 .. readLinePosition' - 1 = {}
      BY <1>5, <2>3, <2>4, <2>5
    <2>7. ConfigTypes'
      BY <1>1, <1>2, <2>1, <2>4, <2>6, SameFile DEF ConfigTypes
    <2>8. LinesRead'
      <3>1. \A i \in 1 .. readLinePosition' - 1 : Config!Short(i)
        BY <1>1, <1>3, <1>5, <2>3, <2>4 DEF LinesRead
      <3> QED  BY <2>4, <3>1, SameFile DEF LinesRead
    <2>9. Searches'
      <3>1. FirstSection(p)
        BY <1>5, <2>3 DEF FirstSection
      <3>2. FirstSection(p)'
        BY <2>4, <3>1, SameFile DEF FirstSection
      <3>3. \E s \in 1 .. readLinePosition' :
              /\ s \in 1 .. Len(file') /\ FirstSection(s)'
              /\ s = readLinePosition' => s = Len(file')
              /\ \A r \in s + 1 .. readLinePosition' - 1 :
                   Config!What(r)' \notin Config!Sections \cup {stage'}
        BY <2>3, <2>4, <2>6, <3>2, SameFile
      <3> QED  BY <1>2, <2>1, <2>6, <3>3 DEF Searches
    <2>10. Found'
      BY <1>1, <1>2, <2>1, <2>4, SameFile DEF Found
    <2> QED  BY <1>7, <2>1, <2>7, <2>8, <2>9, <2>10 DEF ConfigInv
  <1>10. CASE Config!findSection(line) = "on"
    <2>1. /\ Config!Reading(line) /\ UNCHANGED <<stage, getValueState>>
      BY <1>3, <1>4, <1>10 DEF Config!SectionSought
    <2>2. /\ line.err # "errorBufferTooSmall" /\ line.text # "WIFI"
          /\ line.text = "comment" \/ line.err # "errorEndOfFile"
      BY <1>10 DEF Config!findSection, Config!Failed
    <2>3. /\ p \in 1 .. Len(file) /\ Config!What(p) # "WIFI"
          /\ \/ Config!Short(p) /\ line.next = p + 1
             \/ p = Len(file) /\ line.next = p /\ Config!What(p) = "comment" /\ ~Config!Short(p)
      BY <1>6, <2>2 DEF Answer
    <2>4. FileStays /\ readLinePosition' = line.next /\ reads' \in {reads, reads + 1}
      BY <2>1 DEF Config!Reading, FileStays
    <2>5. readLinePosition' \in 1 .. Len(file) + 1 /\ reads' \in Nat
      BY <1>5, <2>3, <2>4
    <2>6. ConfigTypes'
      BY <1>1, <1>2, <2>1, <2>4, <2>5, SameFile DEF ConfigTypes
    <2>7. LinesRead'
      <3>1. \A i \in 1 .. readLinePosition' - 1 : Config!Short(i)
        BY <1>1, <1>3, <1>5, <2>3, <2>4 DEF LinesRead
      <3> QED  BY <2>4, <3>1, SameFile DEF LinesRead
    <2>8. Searches'
      <3>1. \A i \in 1 .. readLinePosition' - 1 : Config!What(i) # "WIFI"
        BY <1>5, <2>3, <2>4
      <3>2. reads' <= readLinePosition' - 1 \/ Stuck'
        <4>1. CASE Config!Short(p) /\ line.next = p + 1
          <5>1. ~Stuck
            BY <1>3, <4>1 DEF Stuck
          <5> QED  BY <1>5, <2>4, <4>1, <5>1
        <4>2. CASE /\ p = Len(file) /\ line.next = p /\ Config!What(p) = "comment"
                   /\ ~Config!Short(p)
          <5>1. Stuck
            BY <1>3, <4>2 DEF Stuck
          <5>2. readLinePosition' = readLinePosition
            BY <1>3, <2>4, <4>2
          <5> QED  BY <2>4, <5>1, <5>2, SameFile DEF Stuck
        <4> QED  BY <2>3, <4>1, <4>2
      <3>3. \A i : Config!What(i)' = Config!What(i)
        BY <2>4, SameFile
      <3> QED  BY <1>2, <2>1, <3>1, <3>2, <3>3 DEF Searches
    <2>9. Found'
      BY <1>1, <1>2, <2>1, <2>4, SameFile DEF Found
    <2> QED  BY <1>7, <2>1, <2>6, <2>7, <2>8, <2>9 DEF ConfigInv
  <1>11. Config!findSection(line) \in {"error", "found", "on"}
    BY DEF Config!findSection, Config!Failed
  <1> QED  BY <1>8, <1>9, <1>10, <1>11

LEMMA FindsSection ==
  ASSUME ConfigInv, Config!FindSection
  PROVE  ConfigInv'
  <1>1. PICK line \in Config!readLine(readLinePosition) :
          Config!SectionSought(line) /\ Config!Note(line)
    BY DEF Config!FindSection
  <1>2. Config!Looking("funcFindSection") /\ value' = value
    BY DEF Config!FindSection
  <1>3. CASE line = Config!Line(readLinePosition) /\ ~adrift
    <2>1. ConfigTypes /\ readLinePosition \in 1 .. Len(file) + 1
      BY DEF ConfigInv, ConfigTypes
    <2>2. misread' = misread
      BY <1>1, <1>3, <2>1, Answers DEF Config!Note
    <2> QED  BY <1>1, <1>2, <1>3, <2>2, FindsSectionWell
  <1>4. CASE line.well = FALSE /\ line.next = readLinePosition
    <2>1. misread' = misread \cup {stage} /\ stage \in Config!KeySet
      BY <1>1, <1>2, <1>4 DEF Config!Note, Config!Looking
    <2>2. CASE Config!findSection(line) = "error"
      <3>1. Config!Begin("failed") /\ FileStays
        BY <1>1, <2>2 DEF Config!SectionSought, FileStays
      <3>2. FailedHere
        BY <2>1, <3>1 DEF FailedHere
      <3> QED  BY <1>2, <3>1, <3>2, FailsBadly
    <2>3. CASE Config!findSection(line) \in {"found", "on"}
      <3>1. /\ Config!Reading(line) /\ stage' = stage
            /\ getValueState' \in {getValueState, "funcFindKey"}
        BY <1>1, <2>3 DEF Config!SectionSought
      <3>2. FailedHere
        BY <2>1, <3>1 DEF FailedHere, FileStays, Config!Reading
      <3> QED  BY <1>2, <1>4, <3>1, <3>2, GoesOnBadly DEF Config!Looking
    <2>4. Config!findSection(line) \in {"error", "found", "on"}
      BY DEF Config!findSection
    <2> QED  BY <2>2, <2>3, <2>4
  <1> QED  BY <1>1, <1>3, <1>4, WellOrBadly

\* The key after the n-th.
LEMMA KeyAfter ==
  ASSUME NEW n \in 1 .. Len(Keys), stage = Keys[n]
  PROVE  Config!NextStage = IF n = Len(Keys) THEN "loaded" ELSE Keys[n + 1]
  <1>1. /\ Len(Keys) \in Nat /\ Len(Keys) >= 1 /\ DOMAIN Keys = 1 .. Len(Keys)
        /\ \A i, j \in 1 .. Len(Keys) : Keys[i] = Keys[j] => i = j
    BY KeyFacts
  <1>2. Len(Keys) \in 1 .. Len(Keys)
    BY <1>1
  <1>3. stage = Keys[Len(Keys)] <=> n = Len(Keys)
    BY <1>1, <1>2
  <1>4. (CHOOSE i \in DOMAIN Keys : Keys[i] = stage) = n
    BY <1>1
  <1>5. 1 + n = n + 1
    BY <1>1
  <1>6. CASE n = Len(Keys)
    BY <1>3, <1>6 DEF Config!NextStage
  <1>7. CASE n # Len(Keys)
    <2>1. Config!NextStage = Keys[1 + CHOOSE i \in DOMAIN Keys : Keys[i] = stage]
      BY <1>3, <1>7 DEF Config!NextStage
    <2>2. Config!NextStage = Keys[1 + n]
      BY <1>4, <2>1
    <2> QED  BY <1>5, <1>7, <2>2
  <1> QED  BY <1>6, <1>7

\* The value of a key is taken over, and the next key is looked for.
LEMMA KeyTaken ==
  ASSUME ConfigInv, Config!Begin(Config!NextStage), FileStays, stage \in Config!KeySet,
         NEW v \in Nat, value' = [value EXCEPT ![stage] = v],
         v \in Config!LineOf(stage) \/ stage \in misread',
         misread \subseteq misread', misread' \subseteq Config!KeySet \cup {"validate"}
  PROVE  ConfigInv'
  <1>1. ConfigTypes /\ Found
    BY DEF ConfigInv
  <1>2. PICK n \in 1 .. Len(Keys) : stage = Keys[n]
    BY KeyFacts
  <1>3. Config!NextStage = IF n = Len(Keys) THEN "loaded" ELSE Keys[n + 1]
    BY <1>2, KeyAfter
  <1>4. /\ Len(Keys) \in Nat /\ DOMAIN Keys = 1 .. Len(Keys)
        /\ \A i, j \in 1 .. Len(Keys) : Keys[i] = Keys[j] => i = j
    BY KeyFacts
  <1>5. n # Len(Keys) => n + 1 \in 1 .. Len(Keys)
    <2>1. Len(Keys) \in Nat
      BY <1>4
    <2> QED  BY <2>1
  <1>6. Config!NextStage \in Config!KeySet \cup {"loaded"}
    BY <1>3, <1>5, KeyFacts
  <1>7. value' \in [Config!KeySet -> Nat]
    <2>1. value \in [Config!KeySet -> Nat]
      BY <1>1 DEF ConfigTypes
    <2> QED  BY <2>1
  <1>8. Found'
    <2>1. \A i \in 1 .. Len(Keys) : i < n =>
            value[Keys[i]] \in Config!LineOf(Keys[i]) \/ Keys[i] \in misread
      BY <1>1, <1>2, <1>4 DEF Found
    <2>2. \A i \in 1 .. Len(Keys) : i <= n =>
            value'[Keys[i]] \in Config!LineOf(Keys[i]) \/ Keys[i] \in misread'
      <3> SUFFICES ASSUME NEW i \in 1 .. Len(Keys), i <= n
                   PROVE  value'[Keys[i]] \in Config!LineOf(Keys[i]) \/ Keys[i] \in misread'
        OBVIOUS
      <3>1. value \in [Config!KeySet -> Nat] /\ Keys[i] \in Config!KeySet
        BY <1>1, KeyFacts DEF ConfigTypes
      <3>2. CASE i = n
        BY <1>2, <3>1, <3>2
      <3>3. CASE i # n
        <4>1. i < n /\ Keys[i] # stage
          BY <1>2, <1>4, <3>3
        <4> QED  BY <2>1, <3>1, <4>1
      <3> QED  BY <3>2, <3>3
    <2>3. \A i \in 1 .. Len(Keys) :
            (Config!NextStage = "loaded"
               \/ \E j \in 1 .. Len(Keys) : i < j /\ Config!NextStage = Keys[j]) => i <= n
      <3>1. CASE n = Len(Keys)
        BY <1>4, <3>1
      <3>2. CASE n # Len(Keys)
        <4>1. Config!NextStage = Keys[n + 1] /\ n + 1 \in 1 .. Len(Keys)
          BY <1>3, <1>5, <3>2
        <4>2. Keys[n + 1] # "loaded"
          BY <4>1, KeyFacts
        <4>3. \A j \in 1 .. Len(Keys) : Keys[n + 1] = Keys[j] => j = n + 1
          BY <1>4, <4>1
        <4>4. \A i \in 1 .. Len(Keys) : i < n + 1 => i <= n
          BY <1>4
        <4> QED  BY <4>1, <4>2, <4>3, <4>4
      <3> QED  BY <3>1, <3>2
    <2>4. stage' = Config!NextStage
      BY DEF Config!Begin
    <2>5. \A k : Config!LineOf(k)' = Config!LineOf(k)
      BY SameFile
    <2> QED  BY <1>4, <2>2, <2>3, <2>4, <2>5 DEF Found
  <1>9. Config!NextStage # "failed"
    BY <1>6, KeyFacts
  <1> QED  BY <1>6, <1>7, <1>8, <1>9, Begins

\* findKey() goes on, finds the key or fails.
LEMMA FindsKeyWell ==
  ASSUME ConfigInv, Config!Looking("funcFindKey"), ~adrift, misread' = misread,
         NEW line, line = Config!Line(readLinePosition), Config!KeySought(line)
  PROVE  ConfigInv'
  <1>1. ConfigTypes /\ LinesRead /\ Searches /\ Found
    BY DEF ConfigInv
  <1>2. stage \in Config!KeySet /\ getValueState = "funcFindKey"
    BY DEF Config!Looking
  <1>3. PICK p : p = readLinePosition
    OBVIOUS
  <1>4. line = Config!Line(p)
    BY <1>3
  <1>5. PICK s \in 1 .. p :
          /\ s \in 1 .. Len(file) /\ FirstSection(s)
          /\ s = p => s = Len(file)
          /\ \A r \in s + 1 .. p - 1 : Config!What(r) \notin Config!Sections \cup {stage}
    BY <1>1, <1>2, <1>3 DEF Searches
  <1>6. /\ p \in 1 .. Len(file) + 1 /\ Len(file) \in Nat /\ reads \in Nat /\ reads <= p
        /\ DOMAIN file = 1 .. Len(file)
    BY <1>1, <1>2, <1>3 DEF ConfigTypes, Searches
  <1>7. Answer(line, p) /\ line.well = TRUE
    BY <1>1, <1>4, <1>6, Answers
  <1>8. /\ stage \notin {"WIFI", "other", "", "failed", "validate", "loaded"}
    BY <1>2, KeyFacts
  <1>9. ASSUME NEW j \in Config!LineOf(stage)
        PROVE  /\ j \in 1 .. Len(file) /\ Config!What(j) = stage /\ s < j
               /\ \A r \in s + 1 .. j - 1 : Config!What(r) \notin Config!Sections \cup {stage}
    <2>1. PICK f \in 1 .. j - 1 :
            /\ Config!What(f) = "WIFI" /\ \A r \in 1 .. f - 1 : Config!What(r) # "WIFI"
            /\ \A r \in f + 1 .. j - 1 : Config!What(r) \notin Config!Sections \cup {stage}
      BY <1>9 DEF Config!LineOf
    <2>2. j \in 1 .. Len(file) /\ Config!What(j) = stage
      BY <1>6, <1>9 DEF Config!LineOf
    <2>3. f = s
      <3>1. ~(f < s)
        <4>1. f < s => f \in 1 .. s - 1
          BY <1>6, <2>2
        <4> QED  BY <1>5, <2>1, <4>1 DEF FirstSection
      <3>2. ~(s < f)
        <4>1. s < f => s \in 1 .. f - 1
          BY <1>6, <2>2
        <4> QED  BY <1>5, <2>1, <4>1 DEF FirstSection
      <3> QED  BY <1>6, <2>2, <3>1, <3>2
    <2> QED  BY <1>6, <2>1, <2>2, <2>3
  <1>10. CASE Config!findKey(line) = "error"
    <2>1. Config!Begin("failed") /\ FileStays /\ value' = value
      BY <1>3, <1>4, <1>10 DEF Config!KeySought, FileStays
    <2>2. \/ line.err = "errorBufferTooSmall"
          \/ line.err # "errorBufferTooSmall" /\ line.text \in Config!Sections
          \/ line.err = "errorEndOfFile" /\ line.text # stage
      BY <1>7, <1>10 DEF Config!findKey, Config!Failed, Answer
    <2>3. CASE line.err = "errorBufferTooSmall"
      <3>1. p \in 1 .. Len(file) /\ ~Config!Fits(p)
        BY <1>7, <2>3 DEF Answer
      <3> QED  BY <1>6, <2>1, <3>1, FailsWell DEF Lacking
    <2>4. ASSUME Config!LineOf(stage) = {}
          PROVE  ConfigInv'
      BY <1>2, <2>1, <2>4, FailsWell DEF Lacking
    <2>5. CASE line.err # "errorBufferTooSmall" /\ line.text \in Config!Sections
      <3>1. p \in 1 .. Len(file) /\ Config!What(p) \in Config!Sections
        BY <1>7, <2>5 DEF Answer, Config!Sections
      <3>2. ASSUME NEW j \in Config!LineOf(stage) PROVE FALSE
        <4>1. /\ j \in 1 .. Len(file) /\ Config!What(j) = stage /\ s < j
              /\ \A r \in s + 1 .. j - 1 : Config!What(r) \notin Config!Sections \cup {stage}
          BY <1>9, <3>2
        <4>2. CASE j < p
          <5>1. j \in s + 1 .. p - 1
            BY <1>6, <4>1, <4>2
          <5> QED  BY <1>5, <4>1, <5>1
        <4>3. CASE j = p
          BY <1>8, <3>1, <4>1, <4>3 DEF Config!Sections
        <4>4. CASE p < j
          <5>1. s # p
            <6>1. s = p => p = Len(file)
              BY <1>5
            <6>2. j \in 1 .. Len(file) /\ Len(file) \in Nat /\ p \in Nat /\ p < j
              BY <1>6, <4>1, <4>4
            <6> QED  BY <6>1, <6>2
          <5>2. p \in s + 1 .. j - 1
            BY <1>6, <4>1, <4>4, <5>1
          <5> QED  BY <3>1, <4>1, <5>2
        <4> QED  BY <1>6, <4>1, <4>2, <4>3, <4>4
      <3> QED  BY <2>4, <3>2
    <2>6. CASE line.err = "errorEndOfFile" /\ line.text # stage
      <3>1. p = Len(file) + 1 \/ (p = Len(file) /\ Config!What(p) # stage)
        BY <1>7, <2>6 DEF Answer
      <3>2. ASSUME NEW j \in Config!LineOf(stage) PROVE FALSE
        <4>1. j \in 1 .. Len(file) /\ Config!What(j) = stage /\ s < j
          BY <1>9, <3>2
        <4>2. j # p
          <5>1. j = p => Config!What(p) = stage
            BY <4>1
          <5>2. Len(file) \in Nat /\ (p = Len(file) + 1 \/ Config!What(p) # stage)
            BY <1>6, <3>1
          <5>3. j \in 1 .. Len(file)
            BY <4>1
          <5> QED  BY <5>1, <5>2, <5>3
        <4>3. j \in s + 1 .. p - 1
          <5>1. Len(file) \in Nat /\ (p = Len(file) + 1 \/ p = Len(file))
            BY <1>6, <3>1
          <5>2. j \in 1 .. Len(file) /\ s < j /\ s \in 1 .. Len(file)
            BY <1>5, <4>1
          <5> QED  BY <4>2, <5>1, <5>2
        <4> QED  BY <1>5, <4>1, <4>3
      <3> QED  BY <2>4, <3>2
    <2> QED  BY <2>2, <2>3, <2>5, <2>6
  <1>11. CASE Config!findKey(line) = "found"
    <2>1. /\ Config!Begin(Config!NextStage) /\ FileStays
          /\ value' = [value EXCEPT ![stage] = readLinePosition]
      BY <1>3, <1>4, <1>7, <1>11 DEF Config!KeySought, FileStays
    <2>2. line.err # "errorBufferTooSmall" /\ line.text = stage
      BY <1>11 DEF Config!findKey, Config!Failed
    <2>3. p \in 1 .. Len(file) /\ Config!What(p) = stage
      BY <1>7, <1>8, <2>2 DEF Answer
    <2>4. p \in Config!LineOf(stage)
      <3>1. s # p
        BY <1>5, <1>8, <2>3 DEF FirstSection
      <3>2. s \in 1 .. p - 1
        BY <1>6, <3>1
      <3> QED  BY <1>5, <1>6, <2>3, <3>2 DEF Config!LineOf, FirstSection
    <2>5. readLinePosition \in Nat
      <3>1. p \in 1 .. Len(file)
        BY <2>3
      <3> QED  BY <1>3, <3>1
    <2>6. /\ misread \subseteq misread'
          /\ misread' \subseteq Config!KeySet \cup {"validate"}
      BY <1>1 DEF ConfigTypes
    <2> QED  BY <1>2, <1>3, <2>1, <2>4, <2>5, <2>6, KeyTaken
  <1>12. CASE Config!findKey(line) = "on"
    <2>1. /\ Config!Reading(line) /\ UNCHANGED <<stage, getValueState, value>>
      BY <1>3, <1>4, <1>12 DEF Config!KeySought
    <2>2. /\ line.err \notin {"errorBufferTooSmall", "errorEndOfFile"}
          /\ line.text \notin Config!Sections \cup {stage}
      BY <1>12 DEF Config!findKey, Config!Failed
    <2>3. /\ p \in 1 .. Len(file) /\ Config!What(p) \notin Config!Sections \cup {stage}
          /\ Config!Short(p) /\ line.next = p + 1
      BY <1>7, <2>2 DEF Answer
    <2>4. FileStays /\ readLinePosition' = p + 1 /\ reads' \in {reads, reads + 1}
      BY <2>1, <2>3 DEF Config!Reading, FileStays
    <2>5. /\ readLinePosition' \in 1 .. Len(file) + 1 /\ reads' \in Nat
          /\ reads' <= readLinePosition' /\ s \in 1 .. readLinePosition'
          /\ s # readLinePosition'
      BY <1>6, <2>3, <2>4
    <2>6. ConfigTypes'
      BY <1>1, <1>2, <2>1, <2>4, <2>5, SameFile DEF ConfigTypes
    <2>7. LinesRead'
      <3>1. \A i \in 1 .. readLinePosition' - 1 : Config!Short(i)
        BY <1>1, <1>3, <1>6, <2>3, <2>4 DEF LinesRead
      <3> QED  BY <2>4, <3>1, SameFile DEF LinesRead
    <2>8. Searches'
      <3>1. \A r \in s + 1 .. readLinePosition' - 1 :
              Config!What(r) \notin Config!Sections \cup {stage}
        <4>1. \A r \in s + 1 .. readLinePosition' - 1 : r \in s + 1 .. p - 1 \/ r = p
          BY <1>6, <2>4
        <4> QED  BY <1>5, <2>3, <4>1
      <3>2. FirstSection(s)'
        BY <1>5, <2>4, SameFile DEF FirstSection
      <3>3. \E f \in 1 .. readLinePosition' :
              /\ f \in 1 .. Len(file') /\ FirstSection(f)'
              /\ f = readLinePosition' => f = Len(file')
              /\ \A r \in f + 1 .. readLinePosition' - 1 :
                   Config!What(r)' \notin Config!Sections \cup {stage'}
        BY <1>5, <2>1, <2>4, <2>5, <3>1, <3>2, SameFile
      <3> QED  BY <1>2, <2>1, <2>5, <3>3 DEF Searches
    <2>9. Found'
      BY <1>1, <1>2, <2>1, <2>4, SameFile DEF Found
    <2> QED  BY <1>8, <2>1, <2>6, <2>7, <2>8, <2>9 DEF ConfigInv
  <1>13. Config!findKey(line) \in {"error", "found", "on"}
    BY DEF Config!findKey
  <1> QED  BY <1>10, <1>11, <1>12, <1>13

LEMMA FindsKey ==
  ASSUME ConfigInv, Config!FindKey
  PROVE  ConfigInv'
  <1>1. PICK line \in Config!readLine(readLinePosition) :
          Config!KeySought(line) /\ Config!Note(line)
    BY DEF Config!FindKey
  <1>2. Config!Looking("funcFindKey")
    BY DEF Config!FindKey
  <1>3. CASE line = Config!Line(readLinePosition) /\ ~adrift
    <2>1. ConfigTypes /\ readLinePosition \in 1 .. Len(file) + 1
      BY DEF ConfigInv, ConfigTypes
    <2>2. misread' = misread
      BY <1>1, <1>3, <2>1, Answers DEF Config!Note
    <2> QED  BY <1>1, <1>2, <1>3, <2>2, FindsKeyWell
  <1>4. CASE line.well = FALSE /\ line.next = readLinePosition
    <2>1. misread' = misread \cup {stage} /\ stage \in Config!KeySet
      BY <1>1, <1>2, <1>4 DEF Config!Note, Config!Looking
    <2>2. CASE Config!findKey(line) = "error"
      <3>1. Config!Begin("failed") /\ FileStays /\ value' = value
        BY <1>1, <2>2 DEF Config!KeySought, FileStays
      <3>2. FailedHere
        BY <2>1, <3>1 DEF FailedHere
      <3> QED  BY <3>1, <3>2, FailsBadly
    <2>3. CASE Config!findKey(line) = "found"
      <3>1. /\ Config!Begin(Config!NextStage) /\ FileStays
            /\ value' = [value EXCEPT ![stage] = 0]
        BY <1>1, <1>4, <2>3 DEF Config!KeySought, FileStays
      <3>2. /\ misread \subseteq misread' /\ stage \in misread'
            /\ misread' \subseteq Config!KeySet \cup {"validate"}
        BY <2>1 DEF ConfigInv, ConfigTypes
      <3> QED  BY <2>1, <3>1, <3>2, KeyTaken
    <2>4. CASE Config!findKey(line) = "on"
      <3>1. Config!Reading(line) /\ UNCHANGED <<stage, getValueState, value>>
        BY <1>1, <2>4 DEF Config!KeySought
      <3>2. FailedHere
        BY <2>1, <3>1 DEF FailedHere, FileStays, Config!Reading
      <3> QED  BY <1>2, <1>4, <3>1, <3>2, GoesOnBadly DEF Config!Looking
    <2>5. Config!findKey(line) \in {"error", "found", "on"}
      BY DEF Config!findKey
    <2> QED  BY <2>2, <2>3, <2>4, <2>5
  <1> QED  BY <1>1, <1>3, <1>4, WellOrBadly

\* What leaves the variables alone leaves the invariant alone.
LEMMA ConfigStays ==
  ASSUME ConfigInv, UNCHANGED configVars
  PROVE  ConfigInv'
  <1>1. /\ FileStays
        /\ UNCHANGED <<stage, getValueState, readLinePosition, adrift, value, reads, misread>>
    BY DEF configVars, FileStays
  <1>2. ConfigTypes'
    BY <1>1, SameFile DEF ConfigInv, ConfigTypes
  <1>3. LinesRead'
    BY <1>1, SameFile DEF ConfigInv, LinesRead
  <1>4. Searches'
    <2>1. Stuck' <=> Stuck
      BY <1>1, SameFile DEF Stuck
    <2>2. \A s : FirstSection(s)' <=> FirstSection(s)
      BY <1>1, SameFile DEF FirstSection
    <2>3. Endless' <=> Endless
      BY <1>1, SameFile DEF Endless
    <2> QED  BY <1>1, <2>1, <2>2, <2>3, SameFile DEF ConfigInv, Searches
  <1>5. Found'
    BY <1>1, SameFile DEF ConfigInv, Found
  <1>6. (stage = "failed" => Reason)'
    BY <1>1, SameFile DEF ConfigInv, Reason
  <1> QED  BY <1>2, <1>3, <1>4, <1>5, <1>6 DEF ConfigInv

LEMMA ConfigNext ==
  ASSUME ConfigInv, Config!Next
  PROVE  ConfigInv'
  <1>1. CASE Config!Finished
    <2>1. UNCHANGED configVars
      BY <1>1 DEF Config!Finished, Config!vars, configVars
    <2> QED  BY <2>1, ConfigStays
  <1> QED  BY <1>1, Validates, Unsets, FindsSection, FindsKey DEF Config!Next

LEMMA ConfigHolds == Spec => []ConfigInv
  <1>1. Init => ConfigInv
    BY ConfigInit DEF Init
  <1>2. ConfigInv /\ [Next]_<<level, cardVars, configVars, nodeVars, clockVars, timeVars,
                              driverVars, smartVars>> => ConfigInv'
    <2> SUFFICES ASSUME ConfigInv,
                        [Next]_<<level, cardVars, configVars, nodeVars, clockVars, timeVars,
                                 driverVars, smartVars>>
                 PROVE  ConfigInv'
      OBVIOUS
    <2>1. CASE UNCHANGED configVars
      BY <2>1, ConfigStays
    <2>2. CASE Rest("config") /\ Config!Next
      BY <2>2, ConfigNext
    <2>3. UNCHANGED configVars \/ (Rest("config") /\ Config!Next)
      BY DEF Next, Rest
    <2> QED  BY <2>1, <2>2, <2>3
  <1> QED  BY <1>1, <1>2, PTL DEF Spec

\* For files of any lines, keys of any names, a buffer of any length and a card that
\* fails any seek or read: a value that the receiving station loads is the one that a
\* reader of the file would take, unless the card failed while it was looked for; a
\* failure has its reason in the file or is the card's; and a search whose position is
\* known reads on without end at one place only (SDCardLoadConfiguration,
\* IniFile.cpp:25-322).
THEOREM ConfigurationIsRight == Spec => []LoadsWhatIsThere
  <1> SUFFICES ASSUME ConfigInv
               PROVE  LoadsWhatIsThere
    BY ConfigHolds, PTL
  <1>1. ConfigTypes /\ LinesRead /\ Searches /\ Found /\ (stage = "failed" => Reason)
    BY DEF ConfigInv
  <1>2. DOMAIN value = Config!KeySet
    BY <1>1 DEF ConfigTypes
  <1>3. stage = "loaded" => \A k \in DOMAIN value : value[k] \in Config!LineOf(k) \/ k \in misread
    <2>1. \A k \in Config!KeySet : \E i \in DOMAIN Keys : k = Keys[i]
      BY DEF Config!KeySet
    <2> QED  BY <1>1, <1>2, <2>1 DEF Found
  <1>4. Config!LoadsWhatIsThere
    BY <1>1, <1>2, <1>3 DEF Reason, Lacking, Config!LoadsWhatIsThere
  <1>5. ASSUME reads > 2 * MaxLines
        PROVE  /\ Config!What(Len(file)) = "comment" /\ ~Config!Short(Len(file))
               /\ \A i \in DOMAIN file : Config!What(i) # "WIFI"
    <2>1. /\ Len(file) \in Nat /\ MaxLines \in Nat /\ reads \in Nat
          /\ 1 <= Len(file) /\ Len(file) <= MaxLines
          /\ readLinePosition \in Nat /\ readLinePosition <= Len(file) + 1
          /\ DOMAIN file = 1 .. Len(file)
      <3>1. MaxLines \in Nat
        BY LinesAssumption
      <3> QED  BY <1>1, <3>1 DEF ConfigTypes
    <2>2. ~(reads <= readLinePosition) /\ ~(reads <= readLinePosition - 1) /\ reads # 0
      BY <1>5, <2>1
    <2>3. CASE Endless
      BY <2>1, <2>3 DEF Endless
    <2>4. CASE ~Endless
      <3>1. getValueState = "funcFindSection"
        BY <1>1, <2>2, <2>4 DEF ConfigTypes, Searches
      <3>2. Stuck /\ \A i \in 1 .. readLinePosition - 1 : Config!What(i) # "WIFI"
        BY <1>1, <2>2, <3>1 DEF Searches
      <3>3. \A i \in DOMAIN file : i \in 1 .. readLinePosition - 1 \/ i = Len(file)
        BY <2>1, <3>2 DEF Stuck
      <3> QED  BY <3>2, <3>3 DEF Stuck
    <2> QED  BY <2>3, <2>4
  <1>6. Config!SearchEnds
    BY <1>5 DEF Config!SearchEnds
  <1> QED  BY <1>4, <1>6 DEF LoadsWhatIsThere

-----------------------------------------------------------------------------
(* The card's driver.                                                      *)

\* The driver and the card, also within a call.
IsCard(s) ==
  /\ DOMAIN s = {"sel", "in", "blk", "off", "partial", "type", "ok", "hung", "heard", "got",
                 "kind", "mode", "at", "pos", "data"}
  /\ s.sel \in BOOLEAN /\ s.in \in BOOLEAN /\ s.off \in 0 .. BlockSize
  /\ s.kind \in {"SD1", "SD2", "SDHC"} /\ s.mode \in {"off", "ready", "sending", "multi"}
  /\ s.ok \in BOOLEAN /\ s.hung \in BOOLEAN /\ s.pos \in 0 .. BlockSize + 1
  /\ DOMAIN s.data = Blocks

\* What a step within a call leaves alone.
Kin(s, t) == IsCard(t) /\ t.kind = s.kind /\ t.type = s.type

\* Bytes of a block that is on its way change the card alone.
Moved(s, n, r) ==
  /\ Kin(s, r)
  /\ r.sel = s.sel /\ r.in = s.in /\ r.blk = s.blk /\ r.off = s.off /\ r.partial = s.partial
  /\ r.ok = s.ok /\ r.hung = s.hung /\ r.got = s.got /\ r.at = s.at /\ r.data = s.data
  /\ s.sel /\ s.mode = "sending" /\ s.pos + n < BlockSize + 2 =>
       r.mode = "sending" /\ r.pos = s.pos + n

LEMMA Receives ==
  ASSUME NEW s, IsCard(s), NEW n \in Nat
  PROVE  Moved(s, n, Driver!Receive(s, n))
  BY BlocksAssumption DEF IsCard, Kin, Moved, Driver!Receive

\* readEnd() leaves no block half read.
Ended(s, r) == /\ Kin(s, r) /\ r.in = FALSE
               /\ r.ok = s.ok /\ r.hung = s.hung /\ r.data = s.data /\ r.partial = s.partial
               /\ r.blk = s.blk /\ r.got = s.got
               /\ ~s.in => r = s

LEMMA ReadEnds ==
  ASSUME NEW s, IsCard(s)
  PROVE  Ended(s, Driver!readEnd(s))
  <1>1. PICK n : n = BlockSize + 2 - s.off
    OBVIOUS
  <1>2. n \in Nat
    BY <1>1, BlocksAssumption DEF IsCard
  <1>3. PICK t : t = Driver!Receive(s, n)
    OBVIOUS
  <1>4. /\ IsCard(t) /\ t.kind = s.kind /\ t.type = s.type
        /\ t.ok = s.ok /\ t.hung = s.hung /\ t.data = s.data /\ t.partial = s.partial
        /\ t.blk = s.blk /\ t.got = s.got
    <2>1. Moved(s, n, t)
      BY <1>2, <1>3, Receives
    <2> QED  BY <2>1 DEF Moved, Kin
  <1>5. Driver!readEnd(s) = IF s.in THEN [[t EXCEPT !.sel = FALSE] EXCEPT !.in = FALSE] ELSE s
    BY <1>1, <1>3 DEF Driver!readEnd, Driver!chipSelectHigh
  <1> QED  BY <1>4, <1>5 DEF IsCard, Kin, Ended

\* A command that is heard finds a card that sends nothing.
Spoken(s, c) == /\ Kin(s, c) /\ c.in = FALSE /\ c.sel = TRUE /\ c.heard \in BOOLEAN
                /\ c.ok = s.ok /\ c.hung = s.hung /\ c.data = s.data /\ c.partial = s.partial
                /\ c.blk = s.blk /\ c.got = s.got
                /\ c.heard => c.mode \in {"off", "ready"} /\ c.pos = 0

LEMMA Commands ==
  ASSUME NEW s, IsCard(s), NEW luck
  PROVE  Spoken(s, Driver!cardCommand(s, luck))
  <1>1. PICK r : r = Driver!readEnd(s)
    OBVIOUS
  <1>2. /\ IsCard(r) /\ r.kind = s.kind /\ r.type = s.type /\ r.in = FALSE
        /\ r.ok = s.ok /\ r.hung = s.hung /\ r.data = s.data /\ r.partial = s.partial
        /\ r.blk = s.blk /\ r.got = s.got
    <2>1. Ended(s, r)
      BY <1>1, ReadEnds
    <2> QED  BY <2>1 DEF Ended, Kin
  <1>3. Driver!cardCommand(s, luck) =
          LET t == [r EXCEPT !.sel = TRUE]
          IN  IF luck = "deaf" \/ t.mode = "multi" THEN [t EXCEPT !.heard = FALSE]
              ELSE [t EXCEPT !.heard = TRUE,
                             !.mode = IF @ = "off" THEN "off" ELSE "ready", !.pos = 0]
    BY <1>1 DEF Driver!cardCommand, Driver!chipSelectLow
  <1>4. CASE luck = "deaf" \/ r.mode = "multi"
    BY <1>2, <1>3, <1>4, BlocksAssumption DEF IsCard, Kin, Spoken
  <1>5. CASE ~(luck = "deaf" \/ r.mode = "multi")
    BY <1>2, <1>3, <1>5, BlocksAssumption DEF IsCard, Kin, Spoken
  <1> QED  BY <1>4, <1>5

\* A call of the sketch's that has got as far as t.
Underway(s, t) == Kin(s, t) /\ t.in = FALSE /\ t.data = s.data /\ t.hung = s.hung

Answered(s, c) == Underway(s, c) /\ (c.ok => c.sel = TRUE /\ c.mode = "ready")

LEMMA Commandeds ==
  ASSUME NEW s, IsCard(s), NEW luck
  PROVE  Answered(s, Driver!Commanded(s, luck))
  <1>1. PICK t : t = Driver!cardCommand(s, luck)
    OBVIOUS
  <1>2. /\ IsCard(t) /\ t.kind = s.kind /\ t.type = s.type /\ t.in = FALSE /\ t.sel = TRUE
        /\ t.ok = s.ok /\ t.hung = s.hung /\ t.data = s.data
    <2>1. Spoken(s, t)
      BY <1>1, Commands
    <2> QED  BY <2>1 DEF Spoken, Kin
  <1>3. Driver!Commanded(s, luck) = IF t.heard /\ t.mode = "ready" THEN t
                                    ELSE [[t EXCEPT !.sel = FALSE] EXCEPT !.ok = FALSE]
    BY <1>1 DEF Driver!Commanded, Driver!Fail, Driver!chipSelectHigh
  <1> QED  BY <1>2, <1>3 DEF IsCard, Kin, Underway, Answered

\* A wait that does not end began just before the wrap.
AtWrap(t0) == wide /\ t0 + EraseTimeout >= Wrap - 1

LEMMA Expiry ==
  ASSUME NEW t0 \in 0 .. Wrap - 1, NEW timeout \in 0 .. EraseTimeout,
         ~Driver!Expires(t0, timeout)
  PROVE  AtWrap(t0)
  <1>1. /\ Wrap \in Nat /\ EraseTimeout \in Nat /\ EraseTimeout < Wrap - 1
    BY TimeoutsAssumption
  <1>2. Wrap - 1 \in 0 .. Wrap - 1
    BY <1>1
  <1>3. CASE wide
    <2>1. ~(Wrap - 1 - t0 > timeout)
      BY <1>2, <1>3 DEF Driver!Expires
    <2> QED  BY <1>1, <1>3, <2>1 DEF AtWrap
  <1>4. CASE ~wide
    <2>1. \A t \in 0 .. Wrap - 1 : ~((t - t0) % Wrap > timeout)
      BY <1>4 DEF Driver!Expires
    <2>2. CASE t0 = 0
      <3>1. (Wrap - 1 - t0) % Wrap = Wrap - 1
        BY <1>1, <2>2
      <3> QED  BY <1>1, <1>2, <2>1, <3>1
    <2>3. CASE t0 # 0
      <3>1. (t0 - 1 - t0) % Wrap = Wrap - 1 /\ t0 - 1 \in 0 .. Wrap - 1
        <4>1. t0 - 1 - t0 = -1 /\ t0 - 1 \in 0 .. Wrap - 1
          BY <1>1, <2>3
        <4>2. (-1) % Wrap = Wrap - 1
          BY <1>1
        <4> QED  BY <4>1, <4>2
      <3>2. ~((t0 - 1 - t0) % Wrap > timeout)
        BY <2>1, <3>1
      <3>3. timeout \in Nat /\ timeout < Wrap - 1
        BY <1>1
      <3> QED  BY <1>1, <3>1, <3>2, <3>3
    <2> QED  BY <2>2, <2>3
  <1> QED  BY <1>3, <1>4

Waited(s, w, t0) == /\ Kin(s, w) /\ w.ok = FALSE /\ (w.hung => AtWrap(t0))
                    /\ w.in = s.in /\ w.sel = s.sel /\ w.data = s.data /\ w.mode = s.mode
                    /\ w.at = s.at /\ w.blk = s.blk /\ w.pos = s.pos /\ w.off = s.off

LEMMA Waits ==
  ASSUME NEW s, IsCard(s), NEW t0 \in 0 .. Wrap - 1, NEW timeout \in 0 .. EraseTimeout
  PROVE  Waited(s, Driver!Wait(s, t0, timeout), t0)
  <1>1. PICK h \in BOOLEAN : h <=> ~Driver!Expires(t0, timeout)
    OBVIOUS
  <1>2. h => AtWrap(t0)
    BY <1>1, Expiry
  <1>3. Driver!Wait(s, t0, timeout) = [s EXCEPT !.ok = FALSE, !.hung = h]
    BY <1>1 DEF Driver!Wait
  <1> QED  BY <1>2, <1>3 DEF IsCard, Kin, Waited

\* The block that is being read in parts is on its way as the driver believes.
InBlock(s) ==
  s.in => /\ s.blk \in Blocks
          /\ s.sel => s.mode = "sending" /\ s.at = s.blk /\ s.pos = s.off

\* A call that found the card as s has got to t, and no block is being read.
Going(s, t, t0) == Kin(s, t) /\ t.in = FALSE /\ (t.hung => AtWrap(t0))

LEMMA Addressed ==
  ASSUME NEW s, IsCard(s), Driver!Fits(s), NEW b \in Blocks
  PROVE  Driver!Located(s, Driver!Address(s, b)) = b
  <1>1. b \in Nat /\ BlockSize \in Nat \ {0}
    BY BlocksAssumption
  <1>2. (b * BlockSize) \div BlockSize = b
    BY <1>1
  <1> QED  BY <1>2 DEF Driver!Located, Driver!Address, Driver!Fits

LEMMA NotBusy ==
  ASSUME NEW s, IsCard(s), NEW t0 \in 0 .. Wrap - 1, NEW timeout \in 1 .. EraseTimeout,
         NEW luck, NEW u, u = Driver!waitNotBusy(s, luck, t0, timeout)
  PROVE  Waited(s, u, t0) \/ u = s
  <1>1. timeout - 1 \in 0 .. EraseTimeout
    BY TimeoutsAssumption
  <1>2. Waited(s, Driver!Wait(s, t0, timeout - 1), t0)
    BY <1>1, Waits
  <1> QED  BY <1>2 DEF Driver!waitNotBusy

\* Every way out lets go of the card.
Released(s, t) == /\ Kin(s, t) /\ t.sel = FALSE /\ t.mode = s.mode /\ t.in = s.in
                  /\ t.hung = s.hung /\ t.data = s.data /\ t.blk = s.blk

LEMMA GivesUp ==
  ASSUME NEW s, IsCard(s)
  PROVE  Released(s, Driver!Fail(s)) /\ Driver!Fail(s).ok = FALSE
  BY DEF Driver!Fail, Driver!chipSelectHigh, IsCard, Kin, Released

LEMMA Releases ==
  ASSUME NEW s, IsCard(s)
  PROVE  Released(s, Driver!chipSelectHigh(s)) /\ Driver!chipSelectHigh(s).ok = s.ok
  BY DEF Driver!chipSelectHigh, IsCard, Kin, Released

\* What lets go of the card keeps what a call has got to.
LEMMA LetsGo ==
  ASSUME NEW s, NEW c, NEW d, NEW t0, Going(s, c, t0), Released(c, d)
  PROVE  Going(s, d, t0)
  <1>1. Kin(s, d) /\ d.in = FALSE
    BY DEF Going, Kin, Released
  <1>2. d.hung => AtWrap(t0)
    BY DEF Going, Released
  <1> QED  BY <1>1, <1>2 DEF Going

LEMMA Writes ==
  ASSUME NEW s, IsCard(s), InBlock(s), s.ok, ~s.hung, Driver!Fits(s),
         NEW b \in Blocks, NEW v, NEW luck, NEW t0 \in 0 .. Wrap - 1,
         NEW t, t = Driver!writeBlock(s, b, v, luck, t0)
  PROVE  /\ Kin(s, t) /\ InBlock(t) /\ (t.hung => AtWrap(t0))
         /\ t.ok => t.data[b] = v
  <1>1. PICK c : c = Driver!Commanded(s, luck)
    OBVIOUS
  <1>2. PICK d : d = Driver!writeData(c, Driver!Located(c, Driver!Address(c, b)), v, luck)
    OBVIOUS
  <1>3. PICK u : u = Driver!waitNotBusy(d, luck, t0, WriteTimeout)
    OBVIOUS
  <1>4. PICK f : f = IF u.ok THEN u ELSE Driver!chipSelectHigh(u)
    OBVIOUS
  <1>5. PICK e : e = IF luck = "error" THEN Driver!Fail(f)
                     ELSE Driver!chipSelectHigh(Driver!Commanded(f, "fine"))
    OBVIOUS
  <1>6. t = IF b = 0 THEN Driver!Fail(s) ELSE IF ~c.ok THEN c ELSE IF ~d.ok THEN d
            ELSE IF ~f.ok THEN f ELSE e
    BY <1>1, <1>2, <1>3, <1>4, <1>5 DEF Driver!writeBlock, Driver!Then
  <1>7. CASE b = 0
    <2>1. Released(s, t) /\ t.ok = FALSE
      BY <1>6, <1>7, GivesUp
    <2> QED  BY <2>1 DEF Released, InBlock
  <1>8. CASE b # 0 /\ ~c.ok
    <2>1. Answered(s, c)
      BY <1>1, Commandeds
    <2> QED  BY <1>6, <1>8, <2>1 DEF Answered, Underway, InBlock
  <1>9. ASSUME b # 0, c.ok
        PROVE  Going(s, t, t0) /\ (t.ok => t.data[b] = v)
    <2>1. Answered(s, c)
      BY <1>1, Commandeds
    <2>2. IsCard(c) /\ Driver!Fits(c) /\ Going(s, c, t0) /\ ~c.hung
      BY <2>1 DEF Answered, Underway, Going, Kin, Driver!Fits
    <2>3. Driver!Located(c, Driver!Address(c, b)) = b
      BY <2>2, Addressed
    <2>4. d = IF ~c.sel \/ luck = "refused" THEN Driver!Fail(c) ELSE [c EXCEPT !.data[b] = v]
      BY <1>2, <2>3 DEF Driver!writeData
    <2>5. Going(s, d, t0) /\ (d.ok => d.data[b] = v)
      <3>1. CASE ~c.sel \/ luck = "refused"
        <4>1. Released(c, d) /\ d.ok = FALSE
          BY <2>2, <2>4, <3>1, GivesUp
        <4>2. Going(s, d, t0)
          BY <2>2, <4>1, LetsGo
        <4> QED  BY <4>1, <4>2
      <3>2. CASE ~(~c.sel \/ luck = "refused")
        BY <2>2, <2>4, <3>2 DEF Going, Kin, IsCard
      <3> QED  BY <3>1, <3>2
    <2>6. Waited(d, u, t0) \/ u = d
      <3>1. IsCard(d) /\ WriteTimeout \in 1 .. EraseTimeout
        BY <2>5, TimeoutsAssumption DEF Going, Kin
      <3> QED  BY <1>3, <3>1, NotBusy
    <2>7. Going(s, u, t0) /\ u.data = d.data
      BY <2>5, <2>6 DEF Going, Kin, Waited
    <2>8. Going(s, f, t0) /\ f.data = d.data
      <3>1. IsCard(u)
        BY <2>7 DEF Going, Kin
      <3>2. CASE u.ok
        BY <1>4, <2>7, <3>2
      <3>3. CASE ~u.ok
        <4>1. Released(u, f)
          BY <1>4, <3>1, <3>3, Releases
        <4>2. Going(s, f, t0)
          BY <2>7, <4>1, LetsGo
        <4> QED  BY <2>7, <4>1, <4>2 DEF Released
      <3> QED  BY <3>2, <3>3
    <2>9. Going(s, e, t0) /\ e.data = f.data
      <3>1. IsCard(f)
        BY <2>8 DEF Going, Kin
      <3>2. CASE luck = "error"
        <4>1. Released(f, e)
          BY <1>5, <3>1, <3>2, GivesUp
        <4>2. Going(s, e, t0)
          BY <2>8, <4>1, LetsGo
        <4> QED  BY <4>1, <4>2 DEF Released
      <3>3. CASE luck # "error"
        <4>1. PICK g : g = Driver!Commanded(f, "fine")
          OBVIOUS
        <4>2. Answered(f, g)
          BY <3>1, <4>1, Commandeds
        <4>3. Going(s, g, t0) /\ g.data = f.data /\ IsCard(g)
          BY <2>8, <4>2 DEF Going, Kin, Answered, Underway
        <4>4. Released(g, e)
          BY <1>5, <3>3, <4>1, <4>3, Releases
        <4>5. Going(s, e, t0)
          BY <4>3, <4>4, LetsGo
        <4> QED  BY <4>3, <4>4, <4>5 DEF Released
      <3> QED  BY <3>2, <3>3
    <2> QED  BY <1>6, <1>9, <2>5, <2>8, <2>9
  <1>10. Going(s, t, t0) => Kin(s, t) /\ InBlock(t) /\ (t.hung => AtWrap(t0))
    BY DEF Going, InBlock
  <1> QED  BY <1>7, <1>8, <1>9, <1>10

\* What a wait, a command or the token of a block adds to a call.
LEMMA WaitGoes ==
  ASSUME NEW s, NEW c, NEW d, NEW t0, Going(s, c, t0), Waited(c, d, t0) \/ d = c
  PROVE  Going(s, d, t0)
  <1>1. CASE d = c
    BY <1>1
  <1>2. CASE Waited(c, d, t0)
    <2>1. Kin(s, d) /\ d.in = FALSE
      BY <1>2 DEF Going, Kin, Waited
    <2>2. d.hung => AtWrap(t0)
      BY <1>2 DEF Waited
    <2> QED  BY <2>1, <2>2 DEF Going
  <1> QED  BY <1>1, <1>2

LEMMA CommandGoes ==
  ASSUME NEW s, NEW c, NEW d, NEW t0, Going(s, c, t0), Answered(c, d)
  PROVE  Going(s, d, t0)
  <1>1. Kin(s, d) /\ d.in = FALSE
    BY DEF Going, Kin, Answered, Underway
  <1>2. d.hung => AtWrap(t0)
    BY DEF Going, Answered, Underway
  <1> QED  BY <1>1, <1>2 DEF Going

LEMMA Token ==
  ASSUME NEW s, IsCard(s), NEW t0 \in 0 .. Wrap - 1, NEW luck, NEW k,
         k = Driver!waitStartBlock(s, luck, t0)
  PROVE  \/ k = s
         \/ k.ok = FALSE /\ \E w : (Waited(s, w, t0) \/ w = s) /\ Released(w, k)
  <1>1. CASE luck = "silent"
    <2>1. PICK w : w = Driver!Wait(s, t0, ReadTimeout)
      OBVIOUS
    <2>2. Waited(s, w, t0)
      <3>1. ReadTimeout \in 0 .. EraseTimeout
        BY TimeoutsAssumption
      <3> QED  BY <2>1, <3>1, Waits
    <2>3. IsCard(w) /\ w.ok = FALSE
      BY <2>2 DEF Waited, Kin
    <2>4. Released(w, k) /\ k.ok = FALSE
      BY <1>1, <2>1, <2>3, Releases DEF Driver!waitStartBlock
    <2> QED  BY <2>2, <2>4
  <1>2. CASE luck = "error"
    BY <1>2, GivesUp DEF Driver!waitStartBlock
  <1>3. CASE luck \notin {"silent", "error"}
    BY <1>3 DEF Driver!waitStartBlock
  <1> QED  BY <1>1, <1>2, <1>3

LEMMA TokenGoes ==
  ASSUME NEW s, NEW c, NEW t0 \in 0 .. Wrap - 1, NEW luck, NEW k, Going(s, c, t0),
         k = Driver!waitStartBlock(c, luck, t0)
  PROVE  Going(s, k, t0)
  <1>1. IsCard(c)
    BY DEF Going, Kin
  <1>2. k = c \/ \E w : (Waited(c, w, t0) \/ w = c) /\ Released(w, k)
    BY <1>1, Token
  <1> QED  BY <1>2, WaitGoes, LetsGo

LEMMA Erases ==
  ASSUME NEW s, IsCard(s), s.ok, ~s.hung,
         NEW first, NEW end, NEW luck, NEW t0 \in 0 .. Wrap - 1,
         NEW t, t = Driver!erase(s, first, end, luck, t0)
  PROVE  /\ Going(s, t, t0)
         /\ t.ok => \A b \in Blocks : b \in first .. end => t.data[b] = 0
  <1>1. PICK c : c = Driver!Commanded(s, luck)
    OBVIOUS
  <1>2. PICK k : k = Driver!waitStartBlock(c, luck, t0)
    OBVIOUS
  <1>3. PICK r : r = IF ~c.ok THEN c ELSE IF ~k.ok THEN k ELSE Driver!chipSelectHigh(k)
    OBVIOUS
  <1>4. PICK m : m = IF luck = "unsuited" THEN Driver!Fail(r) ELSE r
    OBVIOUS
  <1>5. PICK o : o = Driver!Commanded(m, "fine")
    OBVIOUS
  <1>6. PICK x : x = IF luck = "refused" THEN Driver!Fail(m)
                     ELSE [o EXCEPT !.data = [b \in Blocks |-> IF b \in first .. end THEN 0
                                                               ELSE @[b]]]
    OBVIOUS
  <1>7. PICK u : u = Driver!waitNotBusy(x, luck, t0, EraseTimeout)
    OBVIOUS
  <1>8. PICK y : y = Driver!chipSelectHigh(u)
    OBVIOUS
  <1>9. Driver!readRegister(s, luck, t0) = r
    BY <1>1, <1>2, <1>3 DEF Driver!readRegister, Driver!Then
  <1>10. t = IF ~r.ok THEN r ELSE IF ~m.ok THEN m ELSE IF ~x.ok THEN x ELSE y
    BY <1>4, <1>5, <1>6, <1>7, <1>8, <1>9 DEF Driver!erase, Driver!Then, Driver!ERASED
  <1>11. Going(s, c, t0) /\ IsCard(c)
    <2>1. Answered(s, c)
      BY <1>1, Commandeds
    <2>2. Kin(s, c) /\ c.in = FALSE /\ IsCard(c)
      BY <2>1 DEF Answered, Underway, Kin
    <2>3. ~c.hung
      BY <2>1 DEF Answered, Underway
    <2> QED  BY <2>2, <2>3 DEF Going
  <1>12. Going(s, k, t0) /\ IsCard(k)
    <2>1. Going(s, k, t0)
      BY <1>2, <1>11, TokenGoes
    <2> QED  BY <2>1 DEF Going, Kin
  <1>13. Going(s, r, t0) /\ IsCard(r)
    <2>1. Released(k, Driver!chipSelectHigh(k))
      BY <1>12, Releases
    <2>2. Going(s, r, t0)
      BY <1>3, <1>11, <1>12, <2>1, LetsGo
    <2> QED  BY <2>2 DEF Going, Kin
  <1>14. Going(s, m, t0) /\ IsCard(m)
    <2>1. Released(r, Driver!Fail(r))
      BY <1>13, GivesUp
    <2>2. Going(s, m, t0)
      BY <1>4, <1>13, <2>1, LetsGo
    <2> QED  BY <2>2 DEF Going, Kin
  <1>15. Going(s, o, t0) /\ IsCard(o)
    <2>1. Answered(m, o)
      BY <1>5, <1>14, Commandeds
    <2>2. Going(s, o, t0)
      BY <1>14, <2>1, CommandGoes
    <2> QED  BY <2>2 DEF Going, Kin
  <1>16. Going(s, x, t0) /\ IsCard(x)
         /\ (x.ok => \A b \in Blocks : b \in first .. end => x.data[b] = 0)
    <2>1. CASE luck = "refused"
      <3>1. Released(m, x) /\ x.ok = FALSE
        BY <1>6, <1>14, <2>1, GivesUp
      <3>2. Going(s, x, t0)
        BY <1>14, <3>1, LetsGo
      <3> QED  BY <3>1, <3>2 DEF Released, Kin
    <2>2. CASE luck # "refused"
      <3>1. x = [o EXCEPT !.data = [b \in Blocks |-> IF b \in first .. end THEN 0 ELSE @[b]]]
        BY <1>6, <2>2
      <3>2. IsCard(x) /\ x.kind = o.kind /\ x.type = o.type /\ x.in = o.in /\ x.hung = o.hung
        BY <1>15, <3>1 DEF IsCard
      <3>3. \A b \in Blocks : b \in first .. end => x.data[b] = 0
        BY <1>15, <3>1 DEF IsCard
      <3>4. Kin(s, x) /\ x.in = FALSE
        BY <1>15, <3>2 DEF Going, Kin
      <3>5. x.hung => AtWrap(t0)
        BY <1>15, <3>2 DEF Going
      <3>6. Going(s, x, t0)
        BY <3>4, <3>5 DEF Going
      <3> QED  BY <3>2, <3>3, <3>6
    <2> QED  BY <2>1, <2>2
  <1>17. Going(s, u, t0) /\ IsCard(u) /\ u.data = x.data
    <2>1. EraseTimeout \in 1 .. EraseTimeout
      BY TimeoutsAssumption
    <2>2. Waited(x, u, t0) \/ u = x
      BY <1>7, <1>16, <2>1, NotBusy
    <2>3. Going(s, u, t0)
      BY <1>16, <2>2, WaitGoes
    <2>4. u.data = x.data
      BY <2>2 DEF Waited
    <2> QED  BY <2>3, <2>4 DEF Going, Kin
  <1>18. Going(s, y, t0) /\ y.data = u.data
    <2>1. Released(u, y)
      BY <1>8, <1>17, Releases
    <2>2. Going(s, y, t0)
      BY <1>17, <2>1, LetsGo
    <2> QED  BY <2>1, <2>2 DEF Released
  <1> QED  BY <1>10, <1>13, <1>14, <1>16, <1>17, <1>18

\* A block is on its way as the driver believes, and nothing else has happened.
Opens(s, o, b) == /\ Kin(s, o) /\ o.in = TRUE /\ o.sel = TRUE /\ o.mode = "sending"
                  /\ o.at = b /\ o.blk = b /\ o.pos = o.off
                  /\ o.data = s.data /\ ~o.hung /\ o.ok

LEMMA OpensBlock ==
  ASSUME NEW s, IsCard(s), s.ok, ~s.hung, Driver!Fits(s),
         NEW b \in Blocks, NEW luck, NEW t0 \in 0 .. Wrap - 1,
         NEW o, o = Driver!Opened(s, b, luck, t0)
  PROVE  \/ Opens(s, o, b) /\ o.off = 0
         \/ Going(s, o, t0) /\ ~o.ok
  <1>1. PICK q : q = [s EXCEPT !.blk = b]
    OBVIOUS
  <1>2. PICK t : t = Driver!cardCommand(q, luck)
    OBVIOUS
  <1>3. PICK w : w = [t EXCEPT !.ok = TRUE, !.mode = "sending", !.at = b]
    OBVIOUS
  <1>4. PICK u : u = Driver!waitStartBlock(w, luck, t0)
    OBVIOUS
  <1>5. /\ IsCard(q) /\ q.blk = b /\ q.kind = s.kind /\ q.type = s.type /\ q.data = s.data
        /\ q.ok = s.ok /\ q.hung = s.hung
    BY <1>1 DEF IsCard
  <1>6. Spoken(q, t)
    BY <1>2, <1>5, Commands
  <1>7. /\ IsCard(t) /\ t.blk = b /\ t.kind = s.kind /\ t.type = s.type /\ t.data = s.data
        /\ t.hung = s.hung /\ t.in = FALSE /\ t.sel = TRUE
        /\ t.heard => t.pos = 0
    BY <1>5, <1>6 DEF Spoken, Kin
  <1>8. Driver!Located(s, Driver!Address(s, b)) = b
    BY Addressed
  <1>9. o = IF ~t.heard \/ t.mode = "off" \/ b \notin Blocks THEN Driver!Fail(t)
            ELSE IF ~u.ok THEN [u EXCEPT !.mode = "ready"]
            ELSE [u EXCEPT !.off = 0, !.in = TRUE]
    BY <1>1, <1>2, <1>3, <1>4, <1>8 DEF Driver!Opened
  <1>10. Going(s, t, t0)
    <2>1. Kin(s, t) /\ t.in = FALSE /\ ~t.hung
      BY <1>7 DEF Kin
    <2> QED  BY <2>1 DEF Going
  <1>11. CASE ~t.heard \/ t.mode = "off"
    <2>1. Released(t, o) /\ o.ok = FALSE
      BY <1>7, <1>9, <1>11, GivesUp
    <2>2. Going(s, o, t0)
      BY <1>10, <2>1, LetsGo
    <2> QED  BY <2>1, <2>2
  <1>12. CASE t.heard /\ t.mode # "off"
    <2>1. /\ IsCard(w) /\ w.blk = b /\ w.kind = s.kind /\ w.type = s.type /\ w.data = s.data
          /\ w.hung = s.hung /\ w.in = FALSE /\ w.sel = TRUE /\ w.pos = 0 /\ w.ok = TRUE
          /\ w.mode = "sending" /\ w.at = b
      BY <1>3, <1>7, <1>12 DEF IsCard
    <2>2. Going(s, w, t0)
      <3>1. Kin(s, w) /\ w.in = FALSE /\ ~w.hung
        BY <2>1 DEF Kin
      <3> QED  BY <3>1 DEF Going
    <2>3. Going(s, u, t0)
      BY <1>4, <2>2, TokenGoes
    <2>4. CASE ~u.ok
      <3>1. o = [u EXCEPT !.mode = "ready"]
        BY <1>9, <1>12, <2>4
      <3>2. /\ IsCard(o) /\ o.kind = u.kind /\ o.type = u.type /\ o.in = u.in
            /\ o.hung = u.hung /\ o.ok = u.ok
        BY <2>3, <3>1 DEF Going, Kin, IsCard
      <3>3. Kin(s, o) /\ o.in = FALSE
        BY <2>3, <3>2 DEF Going, Kin
      <3>4. o.hung => AtWrap(t0)
        BY <2>3, <3>2 DEF Going
      <3>5. Going(s, o, t0)
        BY <3>3, <3>4 DEF Going
      <3> QED  BY <2>4, <3>2, <3>5
    <2>5. CASE u.ok
      <3>1. u = w
        BY <1>4, <2>1, <2>5, Token
      <3>2. o = [w EXCEPT !.off = 0, !.in = TRUE]
        BY <1>9, <1>12, <2>5, <3>1
      <3>3. IsCard(o) /\ o.off = 0 /\ o.in = TRUE
        BY <2>1, <3>2, BlocksAssumption DEF IsCard
      <3>4. /\ o.sel = TRUE /\ o.mode = "sending" /\ o.at = b /\ o.blk = b /\ o.pos = 0
            /\ o.data = s.data /\ ~o.hung /\ o.ok /\ o.kind = s.kind /\ o.type = s.type
        BY <2>1, <3>2 DEF IsCard
      <3> QED  BY <3>3, <3>4 DEF Opens, Kin
    <2> QED  BY <2>4, <2>5
  <1> QED  BY <1>7, <1>11, <1>12

\* What a read leaves of a block that is on its way.
Transmitted(s, b, offset, count, t) ==
  /\ Kin(s, t) /\ InBlock(t) /\ ~t.hung
  /\ s.sel => t.got = [i \in 1 .. count |-> <<s.data[b], offset + i>>]

LEMMA Transfers ==
  ASSUME NEW s, NEW b \in Blocks, IsCard(s), s.in = TRUE, InBlock(s), ~s.hung,
         NEW offset \in 0 .. BlockSize - 1, NEW count \in 1 .. BlockSize,
         count + offset <= BlockSize, s.blk = b, offset >= s.off,
         NEW t, t = Driver!Transferred(s, offset, count)
  PROVE  Transmitted(s, b, offset, count, t)
  <1>1. PICK k : k = IF offset > s.off THEN Driver!Receive(s, offset - s.off) ELSE s
    OBVIOUS
  <1>2. PICK g : g = Driver!Bytes(k, count)
    OBVIOUS
  <1>3. PICK r : r = Driver!Receive(k, count)
    OBVIOUS
  <1>4. PICK w : w = [r EXCEPT !.off = offset + count, !.got = g]
    OBVIOUS
  <1>5. t = IF ~w.partial \/ w.off >= BlockSize THEN Driver!readEnd(w) ELSE w
    BY <1>1, <1>2, <1>3, <1>4 DEF Driver!Transferred
  <1>6. /\ BlockSize \in Nat /\ BlockSize # 0 /\ offset \in Nat /\ count \in Nat /\ count >= 1
        /\ s.off \in Nat /\ offset - s.off \in Nat
    BY BlocksAssumption DEF IsCard
  <1>7. /\ IsCard(k) /\ k.kind = s.kind /\ k.type = s.type
        /\ k.in = TRUE /\ k.blk = b /\ ~k.hung /\ k.data = s.data /\ k.at = s.at /\ k.sel = s.sel
    <2>1. k = s \/ Moved(s, offset - s.off, k)
      BY <1>1, <1>6, Receives
    <2>2. CASE k = s
      BY <2>2
    <2>3. CASE Moved(s, offset - s.off, k)
      BY <2>3 DEF Moved, Kin
    <2> QED  BY <2>1, <2>2, <2>3
  <1>8. s.sel => k.mode = "sending" /\ k.pos = offset /\ k.at = b
    <2> SUFFICES ASSUME s.sel PROVE k.mode = "sending" /\ k.pos = offset /\ k.at = b
      OBVIOUS
    <2>1. s.mode = "sending" /\ s.at = b /\ s.pos = s.off
      BY DEF InBlock
    <2>2. CASE offset > s.off
      <3>1. s.pos + (offset - s.off) = offset /\ offset < BlockSize + 2
        BY <1>6, <2>1
      <3>2. Moved(s, offset - s.off, k)
        BY <1>1, <1>6, <2>2, Receives
      <3> QED  BY <1>6, <1>7, <2>1, <3>1, <3>2 DEF Moved
    <2>3. CASE ~(offset > s.off)
      <3>1. s.off = offset
        BY <1>6, <2>3
      <3> QED  BY <1>1, <2>1, <2>3, <3>1
    <2> QED  BY <2>2, <2>3
  <1>9. s.sel => g = [i \in 1 .. count |-> <<s.data[b], offset + i>>]
    <2> SUFFICES ASSUME s.sel PROVE g = [i \in 1 .. count |-> <<s.data[b], offset + i>>]
      OBVIOUS
    <2>1. \A i \in 1 .. count : offset + i <= BlockSize
      BY <1>6
    <2> QED  BY <1>2, <1>7, <1>8, <2>1 DEF Driver!Bytes
  <1>10. /\ IsCard(r) /\ r.kind = s.kind /\ r.type = s.type
         /\ r.in = TRUE /\ r.blk = b /\ ~r.hung /\ r.data = s.data /\ r.at = s.at /\ r.sel = s.sel
    <2>1. Moved(k, count, r)
      BY <1>3, <1>6, <1>7, Receives
    <2> QED  BY <1>7, <2>1 DEF Moved, Kin
  <1>11. s.sel => r.mode = "sending" /\ r.pos = offset + count /\ r.at = b
    <2> SUFFICES ASSUME s.sel PROVE r.mode = "sending" /\ r.pos = offset + count /\ r.at = b
      OBVIOUS
    <2>1. k.pos + count < BlockSize + 2
      BY <1>6, <1>8
    <2>2. Moved(k, count, r)
      BY <1>3, <1>6, <1>7, Receives
    <2> QED  BY <1>7, <1>8, <1>10, <2>1, <2>2 DEF Moved
  <1>12. /\ IsCard(w) /\ w.kind = s.kind /\ w.type = s.type /\ w.got = g /\ w.off = offset + count
         /\ w.in = TRUE /\ w.blk = b /\ ~w.hung /\ w.data = s.data /\ w.sel = s.sel
         /\ w.mode = r.mode /\ w.pos = r.pos /\ w.at = r.at
    <2>1. offset + count \in 0 .. BlockSize
      BY <1>6
    <2> QED  BY <1>4, <1>10, <2>1 DEF IsCard
  <1>13. Kin(s, w) /\ InBlock(w) /\ ~w.hung
    BY <1>11, <1>12 DEF Kin, InBlock
  <1>14. CASE ~w.partial \/ w.off >= BlockSize
    <2>1. Ended(w, t)
      BY <1>5, <1>12, <1>14, ReadEnds
    <2>2. /\ IsCard(t) /\ t.kind = s.kind /\ t.type = s.type /\ t.in = FALSE /\ t.got = g
          /\ t.hung = w.hung
      BY <1>12, <2>1 DEF Ended, Kin
    <2> QED  BY <1>9, <1>12, <2>2 DEF Kin, InBlock, Transmitted
  <1>15. CASE ~(~w.partial \/ w.off >= BlockSize)
    BY <1>5, <1>9, <1>12, <1>13, <1>15 DEF Transmitted
  <1> QED  BY <1>14, <1>15

LEMMA Reads ==
  ASSUME NEW s, IsCard(s), InBlock(s), s.ok, ~s.hung, Driver!Fits(s),
         NEW b \in Blocks, NEW offset \in 0 .. BlockSize - 1, NEW count \in 1 .. BlockSize,
         NEW luck, NEW t0 \in 0 .. Wrap - 1,
         NEW t, t = Driver!readData(s, b, offset, count, luck, t0)
  PROVE  /\ Kin(s, t) /\ InBlock(t) /\ (t.hung => AtWrap(t0))
         /\ t.ok => \/ t.got = [i \in 1 .. count |-> <<s.data[b], offset + i>>]
                    \/ s.in /\ ~s.sel
  <1>1. PICK o : o = Driver!Opened(s, b, luck, t0)
    OBVIOUS
  <1>2. PICK c : c = IF Driver!Continues(s, b, offset) THEN s ELSE o
    OBVIOUS
  <1>3. t = IF count + offset > BlockSize THEN Driver!Fail(s)
            ELSE IF ~c.ok THEN c ELSE Driver!Transferred(c, offset, count)
    <2>1. count # 0
      OBVIOUS
    <2> QED  BY <1>1, <1>2, <2>1 DEF Driver!readData
  <1>4. CASE count + offset > BlockSize
    <2>1. Released(s, t) /\ t.ok = FALSE
      BY <1>3, <1>4, GivesUp
    <2> QED  BY <2>1 DEF Released, InBlock
  <1>5. ASSUME ~(count + offset > BlockSize), Driver!Continues(s, b, offset)
        PROVE  Transmitted(s, b, offset, count, t) /\ s.in
    <2>1. s.in = TRUE /\ s.blk = b /\ offset >= s.off
      BY <1>5 DEF Driver!Continues, IsCard
    <2>2. t = Driver!Transferred(s, offset, count) /\ count + offset <= BlockSize
      BY <1>2, <1>3, <1>5, BlocksAssumption
    <2> QED  BY <2>1, <2>2, Transfers
  <1>6. ASSUME ~(count + offset > BlockSize), ~Driver!Continues(s, b, offset)
        PROVE  /\ Kin(s, t) /\ InBlock(t) /\ (t.hung => AtWrap(t0))
               /\ t.ok => t.got = [i \in 1 .. count |-> <<s.data[b], offset + i>>]
    <2>1. CASE Going(s, o, t0) /\ ~o.ok
      <3>1. t = o
        BY <1>2, <1>3, <1>6, <2>1
      <3> QED  BY <2>1, <3>1 DEF Going, InBlock
    <2>2. CASE Opens(s, o, b) /\ o.off = 0
      <3>1. t = Driver!Transferred(o, offset, count) /\ count + offset <= BlockSize
        BY <1>2, <1>3, <1>6, <2>2, BlocksAssumption DEF Opens
      <3>2. /\ IsCard(o) /\ o.in = TRUE /\ InBlock(o) /\ ~o.hung /\ o.blk = b /\ o.sel
            /\ offset >= o.off /\ o.data = s.data /\ o.kind = s.kind /\ o.type = s.type
        BY <2>2 DEF Opens, Kin, InBlock
      <3>3. Transmitted(o, b, offset, count, t)
        BY <3>1, <3>2, Transfers
      <3>4. InBlock(t) /\ ~t.hung
            /\ t.got = [i \in 1 .. count |-> <<s.data[b], offset + i>>]
        BY <3>2, <3>3 DEF Transmitted
      <3>5. Kin(s, t)
        BY <3>2, <3>3 DEF Kin, Transmitted
      <3> QED  BY <3>4, <3>5
    <2> QED  BY <1>1, <2>1, <2>2, OpensBlock
  <1>7. CASE ~(count + offset > BlockSize) /\ Driver!Continues(s, b, offset)
    <2>1. Transmitted(s, b, offset, count, t) /\ s.in
      BY <1>5, <1>7
    <2>2. s.sel \in BOOLEAN
      BY DEF IsCard
    <2> QED  BY <2>1, <2>2 DEF Transmitted
  <1>8. CASE ~(count + offset > BlockSize) /\ ~Driver!Continues(s, b, offset)
    BY <1>6, <1>8
  <1> QED  BY <1>4, <1>7, <1>8

LEMMA Starts ==
  ASSUME NEW s, IsCard(s), InBlock(s), s.ok, ~s.hung, NEW b \in Blocks, NEW luck,
         NEW t, t = Driver!writeStart(s, b, luck)
  PROVE  /\ Kin(s, t) /\ InBlock(t) /\ ~t.hung
         /\ t.ok => t.in = FALSE /\ t.mode = "multi"
  <1>1. PICK c : c = Driver!Commanded(s, luck)
    OBVIOUS
  <1>2. PICK a : a = Driver!Located(c, Driver!Address(c, b))
    OBVIOUS
  <1>3. t = IF b = 0 THEN Driver!Fail(s) ELSE IF ~c.ok THEN c
            ELSE IF luck = "refused" THEN Driver!Fail(c)
            ELSE [c EXCEPT !.mode = "multi", !.at = a]
    BY <1>1, <1>2 DEF Driver!writeStart, Driver!Then
  <1>4. Answered(s, c)
    BY <1>1, Commandeds
  <1>5. IsCard(c) /\ Kin(s, c) /\ c.in = FALSE /\ ~c.hung
    BY <1>4 DEF Answered, Underway, Kin
  <1>6. CASE b = 0
    <2>1. Released(s, t) /\ t.ok = FALSE
      BY <1>3, <1>6, GivesUp
    <2> QED  BY <2>1 DEF Released, InBlock
  <1>7. CASE b # 0 /\ ~c.ok
    BY <1>3, <1>5, <1>7 DEF InBlock
  <1>8. CASE b # 0 /\ c.ok /\ luck = "refused"
    <2>1. Released(c, t) /\ t.ok = FALSE
      BY <1>3, <1>5, <1>8, GivesUp
    <2>2. Kin(s, t) /\ t.in = FALSE /\ ~t.hung
      BY <1>5, <2>1 DEF Released, Kin
    <2> QED  BY <2>1, <2>2 DEF InBlock
  <1>9. CASE b # 0 /\ c.ok /\ luck # "refused"
    <2>1. t = [c EXCEPT !.mode = "multi", !.at = a]
      BY <1>3, <1>9
    <2>2. /\ IsCard(t) /\ t.kind = c.kind /\ t.type = c.type /\ t.in = FALSE /\ ~t.hung
          /\ t.mode = "multi"
      BY <1>5, <2>1 DEF IsCard
    <2>3. Kin(s, t)
      BY <1>5, <2>2 DEF Kin
    <2> QED  BY <2>2, <2>3 DEF InBlock
  <1> QED  BY <1>6, <1>7, <1>8, <1>9

Wrote(s, t, t0, v) == Going(s, t, t0) /\ (t.ok => t.data[s.at] = v)

LEMMA Continued ==
  ASSUME NEW s, IsCard(s), s.in = FALSE, s.ok, ~s.hung, s.at \in Blocks, NEW v, NEW luck,
         NEW t0 \in 0 .. Wrap - 1, NEW t, t = Driver!writeNext(s, v, luck, t0)
  PROVE  Wrote(s, t, t0, v)
  <1>1. PICK w : w = Driver!waitNotBusy(s, luck, t0, WriteTimeout)
    OBVIOUS
  <1>2. PICK u : u = Driver!writeData(w, s.at, v, luck)
    OBVIOUS
  <1>3. t = IF ~w.ok THEN Driver!chipSelectHigh(w)
            ELSE IF u.ok THEN [u EXCEPT !.at = @ + 1] ELSE u
    BY <1>1, <1>2 DEF Driver!writeNext
  <1>4. Waited(s, w, t0) \/ w = s
    <2>1. WriteTimeout \in 1 .. EraseTimeout
      BY TimeoutsAssumption
    <2> QED  BY <1>1, <2>1, NotBusy
  <1>5. Going(s, s, t0)
    BY DEF Going, Kin
  <1>6. Going(s, w, t0) /\ IsCard(w)
    <2>1. Going(s, w, t0)
      BY <1>4, <1>5, WaitGoes
    <2> QED  BY <2>1 DEF Going, Kin
  <1>7. CASE ~w.ok
    <2>1. Released(w, t) /\ t.ok = w.ok
      BY <1>3, <1>6, <1>7, Releases
    <2> QED  BY <1>6, <1>7, <2>1, LetsGo DEF Wrote
  <1>8. CASE w.ok /\ (~w.sel \/ luck = "refused")
    <2>1. u = Driver!Fail(w)
      BY <1>2, <1>8 DEF Driver!writeData
    <2>2. Released(w, u) /\ u.ok = FALSE
      BY <1>6, <2>1, GivesUp
    <2>3. t = u
      BY <1>3, <1>8, <2>2
    <2> QED  BY <1>6, <2>2, <2>3, LetsGo DEF Wrote
  <1>9. CASE w.ok /\ ~(~w.sel \/ luck = "refused")
    <2>1. u = [w EXCEPT !.data[s.at] = v]
      BY <1>2, <1>9 DEF Driver!writeData
    <2>2. /\ IsCard(u) /\ u.kind = w.kind /\ u.type = w.type /\ u.in = w.in /\ u.hung = w.hung
          /\ u.ok = w.ok /\ u.data[s.at] = v
      BY <1>6, <2>1 DEF IsCard
    <2>3. t = [u EXCEPT !.at = @ + 1]
      BY <1>3, <1>9, <2>2
    <2>4. /\ IsCard(t) /\ t.kind = u.kind /\ t.type = u.type /\ t.in = u.in /\ t.hung = u.hung
          /\ t.data = u.data
      BY <2>2, <2>3 DEF IsCard
    <2>5. Kin(s, t) /\ t.in = FALSE
      BY <1>6, <2>2, <2>4 DEF Going, Kin
    <2>6. t.hung => AtWrap(t0)
      BY <1>6, <2>2, <2>4 DEF Going
    <2>7. Going(s, t, t0)
      BY <2>5, <2>6 DEF Going
    <2> QED  BY <2>2, <2>4, <2>7 DEF Wrote
  <1> QED  BY <1>7, <1>8, <1>9

LEMMA Stops ==
  ASSUME NEW s, IsCard(s), s.in = FALSE, s.ok, ~s.hung, NEW luck,
         NEW t0 \in 0 .. Wrap - 1, NEW t, t = Driver!writeStop(s, luck, t0)
  PROVE  Going(s, t, t0) /\ (t.ok => t.mode # "multi" \/ (s.mode = "multi" /\ ~s.sel))
  <1>1. PICK w : w = Driver!waitNotBusy(s, luck, t0, WriteTimeout)
    OBVIOUS
  <1>2. PICK x : x = [w EXCEPT !.mode = IF w.sel THEN "ready" ELSE @]
    OBVIOUS
  <1>3. t = IF ~w.ok THEN Driver!chipSelectHigh(w) ELSE Driver!chipSelectHigh(x)
    BY <1>1, <1>2 DEF Driver!writeStop
  <1>4. Waited(s, w, t0) \/ w = s
    <2>1. WriteTimeout \in 1 .. EraseTimeout
      BY TimeoutsAssumption
    <2> QED  BY <1>1, <2>1, NotBusy
  <1>5. Going(s, s, t0)
    BY DEF Going, Kin
  <1>6. Going(s, w, t0) /\ IsCard(w)
    <2>1. Going(s, w, t0)
      BY <1>4, <1>5, WaitGoes
    <2> QED  BY <2>1 DEF Going, Kin
  <1>7. CASE ~w.ok
    <2>1. Released(w, t) /\ t.ok = w.ok
      BY <1>3, <1>6, <1>7, Releases
    <2> QED  BY <1>6, <1>7, <2>1, LetsGo
  <1>8. CASE w.ok
    <2>1. w = s
      BY <1>4, <1>8 DEF Waited
    <2>2. /\ IsCard(x) /\ x.kind = s.kind /\ x.type = s.type /\ x.in = FALSE /\ ~x.hung
          /\ x.mode # "multi" \/ (s.mode = "multi" /\ ~s.sel)
      BY <1>2, <2>1 DEF IsCard
    <2>3. Released(x, t)
      BY <1>3, <1>8, <2>2, Releases
    <2>4. Going(s, x, t0)
      BY <2>2 DEF Going, Kin
    <2>5. Going(s, t, t0)
      BY <2>3, <2>4, LetsGo
    <2> QED  BY <2>2, <2>3, <2>5 DEF Released
  <1> QED  BY <1>7, <1>8

\* init() has got as far as t; the card is awake, and its kind is known well enough.
Awake(t) ==
  /\ t.mode = "ready"
  /\ (t.type = "SD1" /\ t.kind # "SDHC") \/ (t.type = "SD2" /\ t.kind # "SD1")
Begun(t, t0) == IsCard(t) /\ t.in = FALSE /\ (t.hung => AtWrap(t0))

LEMMA Initialised ==
  ASSUME NEW s, IsCard(s), s.ok, ~s.hung, NEW luck,
         NEW t0 \in 0 .. Wrap - 1, NEW t, t = Driver!init(s, luck, t0)
  PROVE  Begun(t, t0) /\ (t.ok => t.mode = "ready" /\ Driver!Fits(t))
  <1>1. PICK f : f = [s EXCEPT !.in = FALSE, !.partial = FALSE, !.type = NONE, !.sel = FALSE]
    OBVIOUS
  <1>2. PICK u : u = Driver!cardCommand(f, luck)
    OBVIOUS
  <1>3. PICK w : w = Driver!Wait(u, t0, InitTimeout)
    OBVIOUS
  <1>4. PICK i : i = Driver!Idled(f, luck, t0)
    OBVIOUS
  <1>5. PICK v : v = Driver!Versioned(i, luck)
    OBVIOUS
  <1>6. PICK x : x = Driver!Wait(v, t0, InitTimeout)
    OBVIOUS
  <1>7. PICK r : r = Driver!Readied(v, luck, t0)
    OBVIOUS
  <1>8. PICK c : c = Driver!Measured(r, luck)
    OBVIOUS
  <1>9. t = IF ~i.ok THEN i ELSE IF ~v.ok THEN v ELSE IF ~r.ok THEN r ELSE IF ~c.ok THEN c
            ELSE Driver!chipSelectHigh(c)
    <2>1. f.ok = TRUE
      BY <1>1 DEF IsCard
    <2> QED  BY <1>1, <1>4, <1>5, <1>7, <1>8, <2>1 DEF Driver!init, Driver!Then
  <1>10. IsCard(f) /\ f.in = FALSE /\ ~f.hung
    BY <1>1 DEF IsCard
  <1>11. IsCard(u) /\ u.in = FALSE /\ ~u.hung
    <2>1. Spoken(f, u)
      BY <1>2, <1>10, Commands
    <2> QED  BY <1>10, <2>1 DEF Spoken, Kin
  <1>12. InitTimeout \in 0 .. EraseTimeout
    BY TimeoutsAssumption
  <1>13. Begun(i, t0)
    <2>1. CASE u.heard
      BY <1>2, <1>4, <1>11, <2>1 DEF Begun, IsCard, Driver!Idled
    <2>2. CASE ~u.heard
      <3>1. Waited(u, w, t0)
        BY <1>3, <1>11, <1>12, Waits
      <3>2. IsCard(w) /\ w.in = FALSE /\ (w.hung => AtWrap(t0))
        BY <1>11, <3>1 DEF Waited, Kin
      <3>3. Released(w, i)
        BY <1>2, <1>3, <1>4, <2>2, <3>2, Releases DEF Driver!Idled
      <3> QED  BY <3>2, <3>3 DEF Released, Kin, Begun
    <2> QED  BY <2>1, <2>2
  <1>14. /\ Begun(v, t0)
         /\ v.ok => v.type \in {"SD1", "SD2"} /\ (v.type = "SD2" => v.kind # "SD1")
    <2>1. CASE i.kind = "SD1" \/ luck = "unanswered"
      BY <1>5, <1>13, <2>1 DEF Begun, IsCard, Driver!Versioned
    <2>2. CASE i.kind # "SD1" /\ luck = "error" /\ luck # "unanswered"
      <3>1. Released(i, v) /\ v.ok = FALSE
        BY <1>5, <1>13, <2>2, GivesUp DEF Begun, Driver!Versioned
      <3> QED  BY <1>13, <3>1 DEF Released, Kin, Begun
    <2>3. CASE i.kind # "SD1" /\ luck # "error" /\ luck # "unanswered"
      BY <1>5, <1>13, <2>3 DEF Begun, IsCard, Driver!Versioned
    <2> QED  BY <2>1, <2>2, <2>3
  <1>15. ASSUME v.ok
         PROVE  /\ Begun(r, t0)
                /\ r.ok => Awake(r)
    <2>1. CASE luck = "silent" \/ (v.kind = "SDHC" /\ v.type = "SD1")
      <3>1. Waited(v, x, t0)
        BY <1>6, <1>12, <1>14, Waits DEF Begun
      <3>2. IsCard(x) /\ x.in = FALSE /\ (x.hung => AtWrap(t0)) /\ x.ok = FALSE
        BY <1>14, <3>1 DEF Waited, Kin, Begun
      <3>3. Released(x, r) /\ r.ok = x.ok
        BY <1>6, <1>7, <2>1, <3>2, Releases DEF Driver!Readied
      <3> QED  BY <3>2, <3>3 DEF Released, Kin, Begun
    <2>2. CASE ~(luck = "silent" \/ (v.kind = "SDHC" /\ v.type = "SD1"))
      BY <1>7, <1>14, <1>15, <2>2 DEF Begun, IsCard, Awake, Driver!Readied
    <2> QED  BY <2>1, <2>2
  <1>16. ASSUME v.ok, r.ok
         PROVE  Begun(c, t0) /\ (c.ok => c.mode = "ready" /\ Driver!Fits(c))
    <2>1. /\ r.mode = "ready"
          /\ (r.type = "SD1" /\ r.kind # "SDHC") \/ (r.type = "SD2" /\ r.kind # "SD1")
      BY <1>15, <1>16 DEF Awake
    <2>2. Begun(r, t0) /\ r.kind \in {"SD1", "SD2", "SDHC"}
      BY <1>15, <1>16 DEF Begun, IsCard
    <2>3. CASE r.type # "SD2"
      <3>1. c = r
        BY <1>8, <2>3 DEF Driver!Measured
      <3> QED  BY <2>1, <2>2, <2>3, <3>1 DEF Driver!Fits
    <2>4. CASE r.type = "SD2" /\ luck = "refused"
      <3>1. Released(r, c) /\ c.ok = FALSE
        BY <1>8, <2>2, <2>4, GivesUp DEF Begun, Driver!Measured
      <3> QED  BY <2>2, <3>1 DEF Released, Kin, Begun
    <2>5. CASE r.type = "SD2" /\ luck # "refused"
      <3>1. c = [r EXCEPT !.type = IF r.kind = "SDHC" THEN "SDHC" ELSE r.type]
        BY <1>8, <2>5 DEF Driver!Measured
      <3> QED  BY <2>1, <2>2, <2>5, <3>1 DEF Begun, IsCard, Driver!Fits
    <2> QED  BY <2>3, <2>4, <2>5
  <1>17. ASSUME v.ok, r.ok, c.ok, t = Driver!chipSelectHigh(c)
         PROVE  Begun(t, t0) /\ (t.ok => t.mode = "ready" /\ Driver!Fits(t))
    <2>1. Begun(c, t0) /\ c.mode = "ready" /\ Driver!Fits(c)
      BY <1>16, <1>17
    <2>2. Released(c, t)
      BY <1>17, <2>1, Releases DEF Begun
    <2> QED  BY <2>1, <2>2 DEF Released, Kin, Begun, Driver!Fits
  <1>18. i.ok \in BOOLEAN
    BY <1>13 DEF Begun, IsCard
  <1> QED  BY <1>9, <1>13, <1>14, <1>15, <1>16, <1>17

\* What the driver keeps between the calls of the sketch.
DriverInv ==
  /\ IsCard(sd) /\ InBlock(sd) /\ sd.ok = TRUE /\ sd.hung = FALSE
  /\ inited => Driver!Fits(sd)
  /\ multi => sd.in = FALSE
  /\ DriverTells

\* A call that leaves s.
Left(s) ==
  /\ IsCard(sd') /\ InBlock(sd') /\ sd'.ok = TRUE /\ sd'.hung = FALSE
  /\ sd'.type = s.type /\ sd'.kind = s.kind /\ sd'.in = s.in
  /\ Driver!TrueMeansDone' /\ Driver!HangsAtWrap'

LEMMA CallLeaves ==
  ASSUME NEW s, NEW luck, NEW t0, NEW done \in BOOLEAN, Driver!Call(s, luck, t0, done),
         IsCard(sd), IsCard(s), InBlock(s), s.hung => AtWrap(t0),
         s.ok => done \/ (sd.in /\ ~sd.sel) \/ (sd.mode = "multi" /\ ~sd.sel)
  PROVE  Left(s)
  <1>1. sd' = [s EXCEPT !.ok = TRUE, !.hung = FALSE, !.heard = TRUE, !.got = <<>>]
    BY DEF Driver!Call
  <1>2. /\ IsCard(sd') /\ sd'.ok = TRUE /\ sd'.hung = FALSE
        /\ sd'.type = s.type /\ sd'.kind = s.kind /\ sd'.in = s.in
        /\ sd'.blk = s.blk /\ sd'.sel = s.sel /\ sd'.mode = s.mode /\ sd'.at = s.at
        /\ sd'.pos = s.pos /\ sd'.off = s.off
    BY <1>1 DEF IsCard
  <1>3. InBlock(sd')
    BY <1>2 DEF InBlock
  <1>4. PICK x \in BOOLEAN : x <=> sd.in /\ ~sd.sel
    OBVIOUS
  <1>5. PICK y \in BOOLEAN : y <=> sd.mode = "multi" /\ ~sd.sel
    OBVIOUS
  <1>6. lastCall' = [true |-> s.ok, done |-> done, start |-> IF s.hung THEN t0 ELSE NONE,
                     inBlock |-> x, series |-> y]
    BY <1>4, <1>5 DEF Driver!Call
  <1>7. /\ lastCall'.true = s.ok /\ lastCall'.done = done /\ lastCall'.inBlock = x
        /\ lastCall'.series = y
    BY <1>6
  <1>8. Driver!TrueMeansDone'
    BY <1>4, <1>5, <1>7 DEF Driver!TrueMeansDone, IsCard
  <1>9. hung' = s.hung /\ wide' = wide
    BY DEF Driver!Call
  <1>10. s.hung => lastCall'.start = t0
    BY <1>6
  <1>11. Driver!HangsAtWrap'
    BY <1>9, <1>10 DEF AtWrap, Driver!HangsAtWrap
  <1> QED  BY <1>2, <1>3, <1>8, <1>11 DEF Left

LEMMA DriverInit ==
  ASSUME Driver!Init
  PROVE  DriverInv
  <1>1. PICK kind \in {"SD1", "SD2", "SDHC"} : sd = Driver!NewCard(kind)
    BY DEF Driver!Init
  <1>2. IsCard(sd) /\ sd.in = FALSE /\ sd.ok = TRUE /\ sd.hung = FALSE
    BY <1>1, BlocksAssumption DEF Driver!NewCard, IsCard
  <1>3. inited = FALSE /\ multi = FALSE /\ lastCall = NONE /\ hung = FALSE
    BY DEF Driver!Init
  <1> QED  BY <1>2, <1>3
           DEF DriverInv, InBlock, DriverTells, Driver!TrueMeansDone, Driver!HangsAtWrap

\* What the calls that find a card at rest have in common.
LEMMA RestKeeps ==
  ASSUME NEW s, Left(s), Driver!Rest, DriverInv, Driver!Ready, Kin(sd, s)
  PROVE  DriverInv'
  <1>1. inited' = inited /\ multi' = multi /\ ~multi /\ Driver!Fits(sd)
    BY DEF Driver!Rest, Driver!Ready, DriverInv
  <1>2. s.type = sd.type /\ s.kind = sd.kind
    BY DEF Kin
  <1> QED  BY <1>1, <1>2 DEF Left, DriverInv, DriverTells, Driver!Fits

LEMMA DriverInitialises ==
  ASSUME DriverInv, NEW luck, NEW t0 \in 0 .. Wrap - 1, Driver!Initialise(luck, t0)
  PROVE  DriverInv'
  <1>1. PICK s : s = Driver!init(sd, luck, t0)
    OBVIOUS
  <1>2. PICK d \in BOOLEAN : d <=> s.mode = "ready" /\ Driver!Fits(s)
    OBVIOUS
  <1>3. Driver!Call(s, luck, t0, d) /\ inited' = s.ok /\ multi' = multi /\ ~multi
    BY <1>1, <1>2 DEF Driver!Initialise
  <1>4. Begun(s, t0) /\ (s.ok => s.mode = "ready" /\ Driver!Fits(s))
    BY <1>1, Initialised DEF DriverInv
  <1>5. Left(s)
    BY <1>2, <1>3, <1>4, CallLeaves DEF Begun, InBlock, DriverInv
  <1> QED  BY <1>3, <1>4, <1>5 DEF Left, DriverInv, DriverTells, Driver!Fits

LEMMA DriverReads ==
  ASSUME DriverInv, NEW b \in Blocks, NEW offset \in 0 .. BlockSize - 1,
         NEW count \in 1 .. BlockSize, NEW luck, NEW t0 \in 0 .. Wrap - 1,
         Driver!Read(b, offset, count, luck, t0)
  PROVE  DriverInv'
  <1>1. PICK s : s = Driver!readData(sd, b, offset, count, luck, t0)
    OBVIOUS
  <1>2. PICK d \in BOOLEAN : d <=> s.got = [i \in 1 .. count |-> <<sd.data[b], offset + i>>]
    OBVIOUS
  <1>3. Driver!Call(s, luck, t0, d) /\ Driver!Ready /\ Driver!Rest
    BY <1>1, <1>2 DEF Driver!Read
  <1>4. /\ IsCard(sd) /\ InBlock(sd) /\ sd.ok /\ ~sd.hung /\ Driver!Fits(sd)
    BY <1>3 DEF DriverInv, Driver!Ready
  <1>5. /\ Kin(sd, s) /\ InBlock(s) /\ (s.hung => AtWrap(t0))
        /\ s.ok => d \/ (sd.in /\ ~sd.sel)
    BY <1>1, <1>2, <1>4, Reads
  <1>6. Left(s)
    BY <1>3, <1>4, <1>5, CallLeaves DEF Kin
  <1> QED  BY <1>3, <1>5, <1>6, RestKeeps

LEMMA DriverWrites ==
  ASSUME DriverInv, NEW b \in Blocks, NEW v, NEW luck, NEW t0 \in 0 .. Wrap - 1,
         Driver!Write(b, v, luck, t0)
  PROVE  DriverInv'
  <1>1. PICK s : s = Driver!writeBlock(sd, b, v, luck, t0)
    OBVIOUS
  <1>2. PICK d \in BOOLEAN : d <=> s.data[b] = v
    OBVIOUS
  <1>3. Driver!Call(s, luck, t0, d) /\ Driver!Ready /\ Driver!Rest
    BY <1>1, <1>2 DEF Driver!Write
  <1>4. /\ IsCard(sd) /\ InBlock(sd) /\ sd.ok /\ ~sd.hung /\ Driver!Fits(sd)
    BY <1>3 DEF DriverInv, Driver!Ready
  <1>5. Kin(sd, s) /\ InBlock(s) /\ (s.hung => AtWrap(t0)) /\ (s.ok => d)
    BY <1>1, <1>2, <1>4, Writes
  <1>6. Left(s)
    BY <1>3, <1>4, <1>5, CallLeaves DEF Kin
  <1> QED  BY <1>3, <1>5, <1>6, RestKeeps

LEMMA DriverErases ==
  ASSUME DriverInv, NEW first \in Blocks, NEW end \in Blocks, NEW luck,
         NEW t0 \in 0 .. Wrap - 1, Driver!Erase(first, end, luck, t0)
  PROVE  DriverInv'
  <1>1. PICK s : s = Driver!erase(sd, first, end, luck, t0)
    OBVIOUS
  <1>2. PICK d \in BOOLEAN : d <=> \A b \in first .. end : s.data[b] = 0
    OBVIOUS
  <1>3. Driver!Call(s, luck, t0, d) /\ Driver!Ready /\ Driver!Rest
    BY <1>1, <1>2 DEF Driver!Erase, Driver!ERASED
  <1>4. /\ IsCard(sd) /\ sd.ok /\ ~sd.hung
    BY <1>3 DEF DriverInv
  <1>5. /\ Going(sd, s, t0)
        /\ s.ok => \A b \in Blocks : b \in first .. end => s.data[b] = 0
    BY <1>1, <1>4, Erases
  <1>6. s.ok => d
    BY <1>2, <1>5, BlocksAssumption
  <1>7. Left(s)
    BY <1>3, <1>4, <1>5, <1>6, CallLeaves DEF Going, Kin, InBlock
  <1> QED  BY <1>3, <1>5, <1>7, RestKeeps DEF Going

LEMMA DriverReadsParts ==
  ASSUME DriverInv, NEW part \in BOOLEAN, Driver!PartialBlockRead(part)
  PROVE  DriverInv'
  <1>1. PICK e : e = Driver!readEnd(sd)
    OBVIOUS
  <1>2. PICK s : s = [e EXCEPT !.partial = part]
    OBVIOUS
  <1>3. Driver!Call(s, "fine", 0, TRUE) /\ Driver!Ready /\ Driver!Rest
    BY <1>1, <1>2 DEF Driver!PartialBlockRead
  <1>4. IsCard(sd) /\ sd.hung = FALSE
    BY DEF DriverInv
  <1>5. Ended(sd, e)
    BY <1>1, <1>4, ReadEnds
  <1>6. /\ IsCard(s) /\ s.kind = sd.kind /\ s.type = sd.type /\ s.in = FALSE
        /\ s.hung = FALSE
    BY <1>2, <1>4, <1>5 DEF Ended, Kin, IsCard
  <1>7. Left(s)
    BY <1>3, <1>4, <1>6, CallLeaves DEF InBlock
  <1> QED  BY <1>3, <1>6, <1>7, RestKeeps DEF Kin

LEMMA DriverStarts ==
  ASSUME DriverInv, NEW b \in Blocks, NEW luck, Driver!Start(b, luck)
  PROVE  DriverInv'
  <1>1. PICK s : s = Driver!writeStart(sd, b, luck)
    OBVIOUS
  <1>2. PICK d \in BOOLEAN : d <=> s.mode = "multi"
    OBVIOUS
  <1>3. Driver!Call(s, luck, 0, d) /\ Driver!Ready /\ multi' = s.ok /\ inited' = inited
    BY <1>1, <1>2 DEF Driver!Start
  <1>4. /\ IsCard(sd) /\ InBlock(sd) /\ sd.ok /\ ~sd.hung /\ (inited => Driver!Fits(sd))
    BY DEF DriverInv
  <1>5. /\ Kin(sd, s) /\ InBlock(s) /\ ~s.hung
        /\ s.ok => s.in = FALSE /\ s.mode = "multi"
    BY <1>1, <1>4, Starts
  <1>6. Left(s)
    BY <1>2, <1>3, <1>4, <1>5, CallLeaves DEF Kin
  <1> QED  BY <1>3, <1>4, <1>5, <1>6 DEF Kin, Left, DriverInv, DriverTells, Driver!Fits

LEMMA DriverContinues ==
  ASSUME DriverInv, NEW v, NEW luck, NEW t0 \in 0 .. Wrap - 1, Driver!WriteOn(v, luck, t0)
  PROVE  DriverInv'
  <1>1. PICK s : s = Driver!writeNext(sd, v, luck, t0)
    OBVIOUS
  <1>2. PICK d \in BOOLEAN : d <=> s.data[sd.at] = v
    OBVIOUS
  <1>3. /\ Driver!Call(s, luck, t0, d) /\ multi /\ sd.at \in Blocks
        /\ multi' = multi /\ inited' = inited
    BY <1>1, <1>2 DEF Driver!WriteOn, Driver!Rest
  <1>4. /\ IsCard(sd) /\ sd.in = FALSE /\ sd.ok /\ ~sd.hung /\ (inited => Driver!Fits(sd))
    BY <1>3 DEF DriverInv
  <1>5. Going(sd, s, t0) /\ (s.ok => d)
    <2>1. sd.at \in Blocks
      BY <1>3
    <2>2. Wrote(sd, s, t0, v)
      BY <1>1, <1>4, <2>1, Continued
    <2> QED  BY <1>2, <2>2 DEF Wrote
  <1>6. Left(s)
    BY <1>3, <1>4, <1>5, CallLeaves DEF Going, Kin, InBlock
  <1> QED  BY <1>3, <1>4, <1>5, <1>6 DEF Going, Kin, Left, DriverInv, DriverTells,
                                         Driver!Fits

LEMMA DriverStops ==
  ASSUME DriverInv, NEW luck, NEW t0 \in 0 .. Wrap - 1, Driver!Stop(luck, t0)
  PROVE  DriverInv'
  <1>1. PICK s : s = Driver!writeStop(sd, luck, t0)
    OBVIOUS
  <1>2. PICK d \in BOOLEAN : d <=> s.mode # "multi"
    OBVIOUS
  <1>3. Driver!Call(s, luck, t0, d) /\ multi /\ multi' = FALSE /\ inited' = inited
    BY <1>1, <1>2 DEF Driver!Stop
  <1>4. /\ IsCard(sd) /\ sd.in = FALSE /\ sd.ok /\ ~sd.hung /\ (inited => Driver!Fits(sd))
    BY <1>3 DEF DriverInv
  <1>5. Going(sd, s, t0) /\ (s.ok => d \/ (sd.mode = "multi" /\ ~sd.sel))
    BY <1>1, <1>2, <1>4, Stops
  <1>6. Left(s)
    BY <1>3, <1>4, <1>5, CallLeaves DEF Going, Kin, InBlock
  <1> QED  BY <1>3, <1>4, <1>5, <1>6 DEF Going, Kin, Left, DriverInv, DriverTells,
                                         Driver!Fits

LEMMA DriverNext ==
  ASSUME DriverInv, Driver!Next
  PROVE  DriverInv'
  <1>1. \A t0 \in Driver!Times : t0 \in 0 .. Wrap - 1
    <2>1. Wrap \in Nat /\ Wrap > 2
      BY TimeoutsAssumption
    <2> QED  BY <2>1 DEF Driver!Times
  <1> QED  BY <1>1, DriverInitialises, DriverReads, DriverWrites, DriverErases, DriverReadsParts,
              DriverStarts, DriverContinues, DriverStops DEF Driver!Next

LEMMA DriverStays ==
  ASSUME DriverInv, UNCHANGED driverVars
  PROVE  DriverInv'
  <1>1. UNCHANGED <<sd, wide, inited, multi, lastCall, hung>>
    BY DEF driverVars
  <1>2. DriverTells'
    BY <1>1 DEF DriverInv, DriverTells, Driver!TrueMeansDone, Driver!HangsAtWrap
  <1> QED  BY <1>1, <1>2 DEF DriverInv

LEMMA DriverHolds == Spec => []DriverInv
  <1>1. Init => DriverInv
    BY DriverInit DEF Init
  <1>2. DriverInv /\ [Next]_<<level, cardVars, configVars, nodeVars, clockVars, timeVars,
                              driverVars, smartVars>> => DriverInv'
    <2> SUFFICES ASSUME DriverInv,
                        [Next]_<<level, cardVars, configVars, nodeVars, clockVars, timeVars,
                                 driverVars, smartVars>>
                 PROVE  DriverInv'
      OBVIOUS
    <2>1. CASE UNCHANGED driverVars
      BY <2>1, DriverStays
    <2>2. CASE Rest("driver") /\ Driver!Next
      BY <2>2, DriverNext
    <2>3. UNCHANGED driverVars \/ (Rest("driver") /\ Driver!Next)
      BY DEF Next, Rest
    <2> QED  BY <2>1, <2>2, <2>3
  <1> QED  BY <1>1, <1>2, PTL DEF Spec

\* For cards of any size, blocks of any length and any values: a call of the card's
\* driver that returns true has done what it stands for - the bytes are those of the
\* block asked for, the block holds what was written, those erased are blank, the
\* driver addresses the blocks as its card does, also when it has taken a card of
\* version 2 for one of version 1 - unless it found the card deselected in the
\* middle of a block or of a series; and a call hangs only when its wait begins
\* within the longest timeout before the 16-bit time wraps, on a machine whose int
\* is wider than that (Sd2Card.cpp).
THEOREM DriverDoesWhatItSays == Spec => []DriverTells
  <1>1. DriverInv => DriverTells
    BY DEF DriverInv
  <1> QED  BY <1>1, DriverHolds, PTL
===============================================================================
