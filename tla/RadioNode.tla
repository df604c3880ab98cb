------------------------------ MODULE RadioNode ------------------------------
(***************************************************************************)
(* One panStamp board: the CC1101 radio chip, the driver object(s) that    *)
(* talk to it over SPI (libraries/Panstamp/cc1101.cpp) and the two         *)
(* execution contexts that use the driver: the main loop, and the          *)
(* interrupt routine isrGDO0event (libraries/Panstamp/Panstamp.cpp) that   *)
(* the falling edge of the chip's GDO0 line starts.                        *)
(*                                                                         *)
(* One action is one strobe, register access or assignment of the code.    *)
(* The chip runs by itself between any two of them.  The chip is external: *)
(* it is modelled from the way the driver configures and uses it (MCSM1 =  *)
(* 0x20: after a received or sent packet the chip falls back to IDLE, and  *)
(* a transmission asked for in RX is refused while a packet is being       *)
(* received; MCSM0 = 0x18: leaving IDLE for RX or TX starts with a         *)
(* calibration; IOCFG0 = 0x06: GDO0 is high from the sync word to the end  *)
(* of the packet).                                                         *)
(***************************************************************************)
EXTENDS Naturals, Sequences, FiniteSets

CONSTANTS
  SketchDriver, \* the CC1101 object the main loop sends through
  IsrDriver,    \* the CC1101 object isrGDO0event looks at: panstamp.cc1101
  MainTries,    \* attempts per message of the main loop: 1 through sendData,
                \* SWAP_NB_TX_TRIES through SWPACKET::send
  IsrTries,     \* attempts per message of the interrupt routine
  FifoSlots,    \* packets the RX FIFO of the chip holds (64 bytes)
  MaxAir,       \* bound: packets other stations put on the air
  MaxSend,      \* bound: messages this board sends
  MaxSleep      \* bound: calls of goToSleep

ASSUME TriesAssumption  == MainTries \in Nat \ {0} /\ IsrTries \in Nat \ {0}
ASSUME BoundAssumption  == /\ FifoSlots \in Nat \ {0}
                           /\ MaxAir \in Nat /\ MaxSend \in Nat
                           /\ MaxSleep \in Nat

VARIABLES
  \* the chip
  marc,         \* main radio control state (MARCSTATE)
  rxFifo,       \* packets, whole or cut off, waiting in the RX FIFO
  txFifo,       \* the message in the TX FIFO
  rxing,        \* the packet being received, or NoRx
  syncSent,     \* the sync word of our own packet is out
  air,          \* packet another station is sending now, 0 if none
  seen,         \* packets other stations have started so far
  \* the microcontroller
  irqFlag,      \* INTF0: a falling edge of GDO0 waits to be served
  irqOn,        \* INT0 enabled (attachInterrupt / detachInterrupt)
  pc,           \* next code step of each context
  rfState,      \* CC1101::rfState of each driver object
  systemState,  \* PANSTAMP::systemState
  pkt,          \* ccPacket, the static buffer of the interrupt routine
  cur,          \* message each context is sending
  tries,        \* attempts left for it
  res,          \* result of the last sendData of each context
  nreq,         \* messages asked for so far
  slept,        \* calls of goToSleep so far
  \* history, read by properties only
  onAir,        \* messages whose transmission completed, in order
  finished,     \* <<message, result>> of each completed send
  delivered     \* packets handed to the SWAP layer, in order

chip    == <<marc, rxFifo, txFifo, rxing, syncSent>>
medium  == <<air, seen>>
cpu     == <<irqFlag, irqOn>>
job     == <<cur, tries, res, nreq>>
history == <<onAir, finished, delivered>>
vars    == <<chip, medium, cpu, pc, rfState, systemState, pkt, job, slept,
             history>>

Contexts == {"main", "isr"}
Drivers  == {SketchDriver, IsrDriver}

\* The driver object a context calls.
Driver(c) == IF c = "main" THEN SketchDriver ELSE IsrDriver

\* Steps of CC1101::sendData, in code order.
SendSteps == {"enterRx", "waitRx", "flushOverflow", "loadFifo", "strobeTx",
              "checkTx", "waitHigh", "waitLow", "checkEmpty", "toIdle",
              "flushTx", "backToRx", "declareRx"}
\* Steps around it, in SWPACKET::send.
CallSteps == {"declareTx", "sendReturned"}
\* Steps of CC1101::receiveData, called by the interrupt routine only.
ReceiveSteps == {"readLevel", "readPacket", "rxToIdle", "rxFlush", "rxBack"}
BootSteps  == {"boot", "bootRx", "bootIrq", "bootState", "sketchInit"}
SleepSteps == {"sleepIdle", "sleepOff", "asleep", "wakeUp", "wakeState"}
MainSteps  == BootSteps \cup SleepSteps \cup SendSteps \cup CallSteps
                \cup {"loop"}
IsrSteps   == ReceiveSteps \cup SendSteps \cup CallSteps
                \cup {"off", "entered", "dispatch", "leave"}

NoRx  == 0
NoPkt == 0

\* GDO0: high from the sync word to the end of a packet, in either direction.
GDO0 == rxing # NoRx \/ syncSent

-----------------------------------------------------------------------------
(* Command strobes: what the chip does with each of them.                  *)

\* SRX: from IDLE the chip calibrates and then receives; in the other states
\* the code strobes it in it has no effect.  In RXOVF only SFRX leads out.
SRX == /\ marc' = IF marc = "IDLE" THEN "CALRX" ELSE marc
       /\ UNCHANGED <<rxFifo, txFifo, rxing, syncSent, irqFlag>>

\* SIDLE: stop.  A reception in progress is cut off: its bytes stay in the
\* FIFO, and GDO0 falls.
SIDLE == /\ marc' = "IDLE"
         /\ rxFifo' = IF rxing # NoRx /\ Len(rxFifo) < FifoSlots
                      THEN Append(rxFifo, rxing) ELSE rxFifo
         /\ rxing' = NoRx
         /\ syncSent' = FALSE
         /\ irqFlag' = (irqFlag \/ GDO0)
         /\ UNCHANGED txFifo

\* SFRX: legal in IDLE and in RXOVF, which it leaves for IDLE.
SFRX == /\ rxFifo' = IF marc \in {"IDLE", "RXOVF"} THEN <<>> ELSE rxFifo
        /\ marc' = IF marc = "RXOVF" THEN "IDLE" ELSE marc
        /\ UNCHANGED <<txFifo, rxing, syncSent, irqFlag>>

SFTX == /\ txFifo' = IF marc = "IDLE" THEN <<>> ELSE txFifo
        /\ UNCHANGED <<marc, rxFifo, rxing, syncSent, irqFlag>>

\* STX: in RX only when no packet is being received (clear channel
\* assessment); in IDLE without assessment, after a calibration.
STX == /\ marc' = IF marc = "IDLE" THEN "CALTX"
                  ELSE IF marc = "RX" /\ rxing = NoRx THEN "TX" ELSE marc
       /\ UNCHANGED <<rxFifo, txFifo, rxing, syncSent, irqFlag>>

\* SPWD: power down, from IDLE only.  The FIFOs do not survive it.
SPWD == /\ marc' = IF marc = "IDLE" THEN "SLEEP" ELSE marc
        /\ rxFifo' = IF marc = "IDLE" THEN <<>> ELSE rxFifo
        /\ txFifo' = IF marc = "IDLE" THEN <<>> ELSE txFifo
        /\ UNCHANGED <<rxing, syncSent, irqFlag>>

-----------------------------------------------------------------------------
(* Who runs.  The interrupt routine is never interrupted, and the main     *)
(* loop does not get past a pending, enabled interrupt.                    *)

Runs(c) == IF c = "main" THEN pc["isr"] = "off" /\ ~(irqFlag /\ irqOn)
                         ELSE pc["isr"] # "off"

At(c, step) == Runs(c) /\ pc[c] = step
Goto(c, step) == pc' = [pc EXCEPT ![c] = step]

-----------------------------------------------------------------------------
(* CC1101::sendData, and the retries of SWPACKET::send around it.          *)

\* rfState = RFSTATE_TX: from here on the interrupt routine keeps out.
DeclareTx(c) ==
  /\ At(c, "declareTx")
  /\ rfState' = [rfState EXCEPT ![Driver(c)] = "TX"]
  /\ Goto(c, "enterRx")
  /\ UNCHANGED <<chip, medium, cpu, systemState, pkt, job, slept, history>>

EnterRx(c) ==
  /\ At(c, "enterRx")
  /\ SRX
  /\ Goto(c, "waitRx")
  /\ UNCHANGED <<medium, irqOn, rfState, systemState, pkt, job, slept,
                 history>>

\* Mutant: without the RX_OVERFLOW branch ("Check for RX_OVERFLOW in sendData"
\* of the release notes).
WaitRxNoOverflow(c) ==
  /\ At(c, "waitRx")
  /\ Goto(c, IF marc = "RX" THEN "loadFifo" ELSE "waitRx")
  /\ UNCHANGED <<chip, medium, cpu, rfState, systemState, pkt, job, slept,
                 history>>

\* One turn of the loop that reads MARCSTATE until it says RX.
WaitRx(c) ==
  /\ At(c, "waitRx")
  /\ Goto(c, IF marc = "RX" THEN "loadFifo"
             ELSE IF marc = "RXOVF" THEN "flushOverflow" ELSE "waitRx")
  /\ UNCHANGED <<chip, medium, cpu, rfState, systemState, pkt, job, slept,
                 history>>

FlushOverflow(c) ==
  /\ At(c, "flushOverflow")
  /\ SFRX
  /\ Goto(c, "waitRx")
  /\ UNCHANGED <<medium, irqOn, rfState, systemState, pkt, job, slept,
                 history>>

LoadFifo(c) ==
  /\ At(c, "loadFifo")
  /\ txFifo' = Append(txFifo, cur[c])
  /\ Goto(c, "strobeTx")
  /\ UNCHANGED <<marc, rxFifo, rxing, syncSent, medium, cpu, rfState,
                 systemState, pkt, job, slept, history>>

StrobeTx(c) ==
  /\ At(c, "strobeTx")
  /\ STX
  /\ Goto(c, "checkTx")
  /\ UNCHANGED <<medium, irqOn, rfState, systemState, pkt, job, slept,
                 history>>

\* Mutant: a refused strobe is reported as a success.
CheckTxOptimist(c) ==
  /\ At(c, "checkTx")
  /\ res' = [res EXCEPT ![c] = marc # "TX"]
  /\ Goto(c, IF marc = "TX" THEN "waitHigh" ELSE "toIdle")
  /\ UNCHANGED <<chip, medium, cpu, rfState, systemState, pkt, cur, tries,
                 nreq, slept, history>>

\* Mutant: MARCSTATE is not looked at.
CheckTxNever(c) ==
  /\ At(c, "checkTx")
  /\ res' = [res EXCEPT ![c] = FALSE]
  /\ Goto(c, "waitHigh")
  /\ UNCHANGED <<chip, medium, cpu, rfState, systemState, pkt, cur, tries,
                 nreq, slept, history>>

\* MARCSTATE says whether the chip took the strobe.
CheckTx(c) ==
  /\ At(c, "checkTx")
  /\ res' = [res EXCEPT ![c] = FALSE]
  /\ Goto(c, IF marc = "TX" THEN "waitHigh" ELSE "toIdle")
  /\ UNCHANGED <<chip, medium, cpu, rfState, systemState, pkt, cur, tries,
                 nreq, slept, history>>

WaitHigh(c) ==
  /\ At(c, "waitHigh")
  /\ GDO0
  /\ Goto(c, "waitLow")
  /\ UNCHANGED <<chip, medium, cpu, rfState, systemState, pkt, job, slept,
                 history>>

WaitLow(c) ==
  /\ At(c, "waitLow")
  /\ ~GDO0
  /\ Goto(c, "checkEmpty")
  /\ UNCHANGED <<chip, medium, cpu, rfState, systemState, pkt, job, slept,
                 history>>

\* Mutant: the result of the transmission is never set.
CheckEmptyForgets(c) ==
  /\ At(c, "checkEmpty")
  /\ Goto(c, "toIdle")
  /\ UNCHANGED <<chip, medium, cpu, rfState, systemState, pkt, job, slept,
                 history>>

CheckEmpty(c) ==
  /\ At(c, "checkEmpty")
  /\ res' = [res EXCEPT ![c] = (txFifo = <<>>)]
  /\ Goto(c, "toIdle")
  /\ UNCHANGED <<chip, medium, cpu, rfState, systemState, pkt, cur, tries,
                 nreq, slept, history>>

ToIdle(c) ==
  /\ At(c, "toIdle")
  /\ SIDLE
  /\ Goto(c, "flushTx")
  /\ UNCHANGED <<medium, irqOn, rfState, systemState, pkt, job, slept,
                 history>>

FlushTx(c) ==
  /\ At(c, "flushTx")
  /\ SFTX
  /\ Goto(c, "backToRx")
  /\ UNCHANGED <<medium, irqOn, rfState, systemState, pkt, job, slept,
                 history>>

BackToRx(c) ==
  /\ At(c, "backToRx")
  /\ SRX
  /\ Goto(c, "declareRx")
  /\ UNCHANGED <<medium, irqOn, rfState, systemState, pkt, job, slept,
                 history>>

DeclareRx(c) ==
  /\ At(c, "declareRx")
  /\ rfState' = [rfState EXCEPT ![Driver(c)] = "RX"]
  /\ Goto(c, "sendReturned")
  /\ UNCHANGED <<chip, medium, cpu, systemState, pkt, job, slept, history>>

\* Mutant: the attempts are counted down past zero.
SendReturnedRunsOver(c) ==
  /\ At(c, "sendReturned")
  /\ IF ~res[c] /\ tries[c] >= 0
     THEN /\ tries' = [tries EXCEPT ![c] = @ - 1]
          /\ Goto(c, "declareTx")
          /\ UNCHANGED finished
     ELSE /\ finished' = finished \cup {<<cur[c], res[c]>>}
          /\ Goto(c, IF c = "main" THEN "loop" ELSE "leave")
          /\ UNCHANGED tries
  /\ UNCHANGED <<chip, medium, cpu, rfState, systemState, pkt, cur, res,
                 nreq, slept, onAir, delivered>>

\* while(!(res = sendData(packet)) && i>1): try again or give the result back.
SendReturned(c) ==
  /\ At(c, "sendReturned")
  /\ IF ~res[c] /\ tries[c] > 1
     THEN /\ tries' = [tries EXCEPT ![c] = @ - 1]
          /\ Goto(c, "declareTx")
          /\ UNCHANGED finished
     ELSE /\ finished' = finished \cup {<<cur[c], res[c]>>}
          /\ Goto(c, IF c = "main" THEN "loop" ELSE "leave")
          /\ UNCHANGED tries
  /\ UNCHANGED <<chip, medium, cpu, rfState, systemState, pkt, cur, res,
                 nreq, slept, onAir, delivered>>

SendData(c) ==
  \/ DeclareTx(c) \/ EnterRx(c) \/ WaitRx(c) \/ FlushOverflow(c)
  \/ LoadFifo(c) \/ StrobeTx(c) \/ CheckTx(c) \/ WaitHigh(c) \/ WaitLow(c)
  \/ CheckEmpty(c) \/ ToIdle(c) \/ FlushTx(c) \/ BackToRx(c) \/ DeclareRx(c)
  \/ SendReturned(c)

\* The caller hands a new message to sendData.
StartSend(c, n) ==
  /\ nreq < MaxSend
  /\ nreq' = nreq + 1
  /\ cur' = [cur EXCEPT ![c] = nreq + 1]
  /\ tries' = [tries EXCEPT ![c] = n]
  /\ Goto(c, "declareTx")

-----------------------------------------------------------------------------
(* isrGDO0event, with CC1101::receiveData inlined.                         *)

\* The hardware clears the flag; disableIRQ_GDO0 is the first instruction.
EnterIsr ==
  /\ pc["isr"] = "off" /\ irqFlag /\ irqOn
  /\ irqFlag' = FALSE
  /\ irqOn' = FALSE
  /\ Goto("isr", "entered")
  /\ UNCHANGED <<chip, medium, rfState, systemState, pkt, job, slept, history>>

\* Mutant: rfState is not looked at.
CheckStateNever ==
  /\ At("isr", "entered")
  /\ Goto("isr", "readLevel")
  /\ UNCHANGED <<chip, medium, cpu, rfState, systemState, pkt, job, slept,
                 history>>

\* Nothing is read from the radio unless its driver is declared in RX.
CheckState ==
  /\ At("isr", "entered")
  /\ Goto("isr", IF rfState[IsrDriver] = "RX" THEN "readLevel" ELSE "leave")
  /\ UNCHANGED <<chip, medium, cpu, rfState, systemState, pkt, job, slept,
                 history>>

\* Mutant: receiveData forgets to set the length of the static packet to zero.
ReadLevelStale ==
  /\ At("isr", "readLevel")
  /\ Goto("isr", IF rxFifo # <<>> /\ marc # "RXOVF"
                 THEN "readPacket" ELSE "rxToIdle")
  /\ UNCHANGED <<chip, medium, cpu, rfState, systemState, pkt, job, slept,
                 history>>

\* Mutant: receiveData returns early when there is nothing to read.
ReadLevelEarlyReturn ==
  /\ At("isr", "readLevel")
  /\ IF rxFifo # <<>> /\ marc # "RXOVF"
     THEN Goto("isr", "readPacket") /\ UNCHANGED pkt
     ELSE Goto("isr", "dispatch") /\ pkt' = NoPkt
  /\ UNCHANGED <<chip, medium, cpu, rfState, systemState, job, slept, history>>

\* RXBYTES: nothing to read when the FIFO is empty or has overflown.
ReadLevel ==
  /\ At("isr", "readLevel")
  /\ IF rxFifo # <<>> /\ marc # "RXOVF"
     THEN Goto("isr", "readPacket") /\ UNCHANGED pkt
     ELSE Goto("isr", "rxToIdle") /\ pkt' = NoPkt
  /\ UNCHANGED <<chip, medium, cpu, rfState, systemState, job, slept, history>>

\* Length, data, RSSI, LQI and the CRC bit of the oldest bytes in the FIFO.
ReadPacket ==
  /\ At("isr", "readPacket")
  /\ pkt' = Head(rxFifo)
  /\ rxFifo' = Tail(rxFifo)
  /\ Goto("isr", "rxToIdle")
  /\ UNCHANGED <<marc, txFifo, rxing, syncSent, medium, cpu, rfState,
                 systemState, job, slept, history>>

RxToIdle ==
  /\ At("isr", "rxToIdle")
  /\ SIDLE
  /\ Goto("isr", "rxFlush")
  /\ UNCHANGED <<medium, irqOn, rfState, systemState, pkt, job, slept,
                 history>>

RxFlush ==
  /\ At("isr", "rxFlush")
  /\ SFRX
  /\ Goto("isr", "rxBack")
  /\ UNCHANGED <<medium, irqOn, rfState, systemState, pkt, job, slept,
                 history>>

RxBack ==
  /\ At("isr", "rxBack")
  /\ SRX
  /\ Goto("isr", "dispatch")
  /\ UNCHANGED <<medium, irqOn, rfState, systemState, pkt, job, slept,
                 history>>

\* No packet, or the CRC bit is clear: leave.
Discard ==
  /\ At("isr", "dispatch")
  /\ Goto("isr", "leave")
  /\ UNCHANGED <<chip, medium, cpu, rfState, systemState, pkt, job, slept,
                 history>>

\* crc_ok: the SWAP layer gets the packet; a query or a command is answered
\* with a status message, sent from inside the interrupt routine.
Dispatch(answer) ==
  /\ At("isr", "dispatch")
  /\ pkt # NoPkt
  /\ delivered' = Append(delivered, pkt)
  /\ IF answer THEN StartSend("isr", IsrTries)
               ELSE Goto("isr", "leave") /\ UNCHANGED <<cur, tries, nreq>>
  /\ UNCHANGED <<chip, medium, cpu, rfState, systemState, pkt, res, slept,
                 onAir, finished>>

\* enableIRQ_GDO0 and return.  A flag raised meanwhile is still there.
LeaveIsr ==
  /\ At("isr", "leave")
  /\ irqOn' = TRUE
  /\ Goto("isr", "off")
  /\ UNCHANGED <<chip, medium, irqFlag, rfState, systemState, pkt, job, slept,
                 history>>

Isr == \/ EnterIsr \/ CheckState \/ ReadLevel \/ ReadPacket \/ RxToIdle
       \/ RxFlush \/ RxBack \/ Discard \/ LeaveIsr
       \/ \E answer \in BOOLEAN : Dispatch(answer)
       \/ SendData("isr")

-----------------------------------------------------------------------------
(* PANSTAMP::init, and the second driver object of the detector's sketch.  *)

\* cc1101.init: the chip is reset and configured.
ResetChip ==
  /\ marc' = "IDLE" /\ rxFifo' = <<>> /\ txFifo' = <<>>
  /\ rxing' = NoRx /\ syncSent' = FALSE
  /\ irqFlag' = (irqFlag \/ GDO0)

Boot ==
  /\ At("main", "boot")
  /\ ResetChip
  /\ Goto("main", "bootRx")
  /\ UNCHANGED <<medium, irqOn, rfState, systemState, pkt, job, slept,
                 history>>

BootRx ==
  /\ At("main", "bootRx")
  /\ SRX
  /\ Goto("main", "bootIrq")
  /\ UNCHANGED <<medium, irqOn, rfState, systemState, pkt, job, slept,
                 history>>

BootIrq ==
  /\ At("main", "bootIrq")
  /\ irqOn' = TRUE
  /\ Goto("main", "bootState")
  /\ UNCHANGED <<chip, medium, irqFlag, rfState, systemState, pkt, job, slept,
                 history>>

BootState ==
  /\ At("main", "bootState")
  /\ systemState' = "RXON"
  /\ Goto("main", IF SketchDriver = IsrDriver THEN "loop" ELSE "sketchInit")
  /\ UNCHANGED <<chip, medium, cpu, rfState, pkt, job, slept, history>>

\* The sketch resets the same chip again, through its own driver object.
SketchInit ==
  /\ At("main", "sketchInit")
  /\ ResetChip
  /\ Goto("main", "loop")
  /\ UNCHANGED <<medium, irqOn, rfState, systemState, pkt, job, slept,
                 history>>

-----------------------------------------------------------------------------
(* The main loop: sending, enableRfRx and goToSleep.                       *)

MainSend ==
  /\ At("main", "loop")
  /\ StartSend("main", MainTries)
  /\ UNCHANGED <<chip, medium, cpu, rfState, systemState, pkt, res, slept,
                 history>>

\* PANSTAMP::enableRfRx(ena).  The detector's sketch never calls it.
EnableRfRx(ena) ==
  /\ At("main", "loop")
  /\ SketchDriver = IsrDriver
  /\ irqOn' = ena
  /\ UNCHANGED <<chip, medium, irqFlag, pc, rfState, systemState, pkt, job,
                 slept, history>>

\* PANSTAMP::goToSleep, sleepWell.
GoToSleep ==
  /\ At("main", "loop")
  /\ slept < MaxSleep
  /\ slept' = slept + 1
  /\ systemState' = "RXOFF"
  /\ Goto("main", "sleepIdle")
  /\ UNCHANGED <<chip, medium, cpu, rfState, pkt, job, history>>

SleepIdle ==
  /\ At("main", "sleepIdle")
  /\ SIDLE
  /\ Goto("main", "sleepOff")
  /\ UNCHANGED <<medium, irqOn, rfState, systemState, pkt, job, slept,
                 history>>

SleepOff ==
  /\ At("main", "sleepOff")
  /\ SPWD
  /\ Goto("main", "asleep")
  /\ UNCHANGED <<medium, irqOn, rfState, systemState, pkt, job, slept,
                 history>>

\* The last interval of the sleeping loop has passed, or wakeUp ended it.
SleepOver ==
  /\ At("main", "asleep")
  /\ Goto("main", "wakeUp")
  /\ UNCHANGED <<chip, medium, cpu, rfState, systemState, pkt, job, slept,
                 history>>

\* cc1101.wakeUp: selecting the chip brings it from power down to IDLE.
WakeUp ==
  /\ At("main", "wakeUp")
  /\ marc' = IF marc = "SLEEP" THEN "IDLE" ELSE marc
  /\ Goto("main", "wakeState")
  /\ UNCHANGED <<rxFifo, txFifo, rxing, syncSent, medium, cpu, rfState,
                 systemState, pkt, job, slept, history>>

WakeState ==
  /\ At("main", "wakeState")
  /\ systemState' = "RXON"
  /\ Goto("main", "loop")
  /\ UNCHANGED <<chip, medium, cpu, rfState, pkt, job, slept, history>>

Main == \/ Boot \/ BootRx \/ BootIrq \/ BootState \/ SketchInit
        \/ MainSend
        \/ \E ena \in BOOLEAN : EnableRfRx(ena)
        \/ GoToSleep \/ SleepIdle \/ SleepOff \/ SleepOver \/ WakeUp
        \/ WakeState
        \/ SendData("main")

-----------------------------------------------------------------------------
(* The chip and the other stations.                                        *)

ChipQuiet == <<txFifo, irqOn, pc, rfState, systemState, pkt, job, slept>>

\* Timing: a packet lasts longer than a turn of the loop that polls MARCSTATE,
\* so one that starts when the chip is in RX already starts after the poll.
PacketOutlastsPoll == \A c \in Contexts : ~(pc[c] = "waitRx" /\ marc = "RX")

\* Another station starts a packet; a chip that is in RX locks onto it.
AirStart ==
  /\ air = 0 /\ seen < MaxAir
  /\ PacketOutlastsPoll
  /\ seen' = seen + 1
  /\ air' = seen + 1
  /\ rxing' = IF marc = "RX" THEN seen + 1 ELSE NoRx
  /\ UNCHANGED <<ChipQuiet, marc, rxFifo, syncSent, irqFlag, history>>

\* It ends unheard.
AirEnd ==
  /\ air # 0 /\ rxing = NoRx
  /\ air' = 0
  /\ UNCHANGED <<ChipQuiet, marc, rxFifo, rxing, syncSent, irqFlag, seen,
                 history>>

\* Timing: a packet lasts longer than the one assignment that follows the
\* SRX strobe at the end of sendData, so it cannot begin and end between them.
PacketOutlastsAssignment == \A c \in Contexts : pc[c] # "declareRx"

\* The packet is complete: it is in the FIFO, or the FIFO has overflown.
RxEnd ==
  /\ rxing # NoRx
  /\ PacketOutlastsAssignment
  /\ IF Len(rxFifo) < FifoSlots
     THEN /\ rxFifo' = Append(rxFifo, rxing)
          /\ marc' = "IDLE"
     ELSE /\ marc' = "RXOVF"
          /\ UNCHANGED rxFifo
  /\ rxing' = NoRx
  /\ air' = 0
  /\ irqFlag' = TRUE
  /\ UNCHANGED <<ChipQuiet, syncSent, seen, history>>

\* The address filter drops the packet: GDO0 falls, the chip stays in RX.
RxFiltered ==
  /\ rxing # NoRx
  /\ PacketOutlastsAssignment
  /\ rxing' = NoRx
  /\ irqFlag' = TRUE
  /\ UNCHANGED <<ChipQuiet, marc, rxFifo, syncSent, air, seen, history>>

\* The calibration before reception ends.  The one before transmission lasts
\* 0.7 ms and is always cut off: sendData reads MARCSTATE some microseconds
\* after its STX, takes CALTX for a refusal and strobes SIDLE.
Calibrated ==
  /\ marc = "CALRX"
  /\ marc' = "RX"
  /\ UNCHANGED <<ChipQuiet, rxFifo, rxing, syncSent, irqFlag, air, seen,
                 history>>

\* Timing: the preamble (milliseconds) outlasts the status read after STX.
PreambleOutlastsCheck == \A c \in Contexts : pc[c] # "checkTx"

TxSync ==
  /\ marc = "TX" /\ ~syncSent
  /\ PreambleOutlastsCheck
  /\ syncSent' = TRUE
  /\ UNCHANGED <<ChipQuiet, marc, rxFifo, rxing, irqFlag, air, seen, history>>

\* Timing: GDO0 stays high (milliseconds) for longer than a turn of the loop
\* that polls it, even with an interrupt that finds rfState TX and leaves.
PollSeesHigh == \A c \in Contexts : pc[c] # "waitHigh"

TxEnd ==
  /\ marc = "TX" /\ syncSent
  /\ PollSeesHigh
  /\ marc' = "IDLE"
  /\ syncSent' = FALSE
  /\ txFifo' = <<>>
  /\ onAir' = onAir \o txFifo
  /\ irqFlag' = TRUE
  /\ UNCHANGED <<rxFifo, rxing, irqOn, pc, rfState, systemState, pkt, job,
                 slept, air, seen, finished, delivered>>

Chip == RxEnd \/ RxFiltered \/ Calibrated \/ TxSync \/ TxEnd

-----------------------------------------------------------------------------
\* Power on.  The C++ objects are static: rfState is 0, RFSTATE_IDLE.
Init ==
  /\ marc = "IDLE" /\ rxFifo = <<>> /\ txFifo = <<>>
  /\ rxing = NoRx /\ syncSent = FALSE
  /\ air = 0 /\ seen = 0
  /\ irqFlag = FALSE /\ irqOn = FALSE
  /\ pc = [c \in Contexts |-> IF c = "main" THEN "boot" ELSE "off"]
  /\ rfState = [d \in Drivers |-> "IDLE"]
  /\ systemState = "RESTART"
  /\ pkt = NoPkt
  /\ cur = [c \in Contexts |-> 0]
  /\ tries = [c \in Contexts |-> 0]
  /\ res = [c \in Contexts |-> FALSE]
  /\ nreq = 0 /\ slept = 0
  /\ onAir = <<>> /\ finished = {} /\ delivered = <<>>

Next == Main \/ Isr \/ Chip \/ AirStart \/ AirEnd

Spec == Init /\ [][Next]_vars

\* The processor and the chip keep running; other stations owe us nothing.
Fairness == /\ WF_vars(SendData("main"))
            /\ WF_vars(Isr)
            /\ WF_vars(Chip)

FairSpec == Spec /\ Fairness

-----------------------------------------------------------------------------
(* Properties.                                                             *)

ChipTypeOK ==
  /\ marc \in {"IDLE", "CALRX", "RX", "CALTX", "TX", "RXOVF", "SLEEP"}
  /\ rxFifo \in Seq(Nat) /\ txFifo \in Seq(Nat)
  /\ rxing \in Nat
  /\ syncSent \in BOOLEAN
  /\ air \in Nat /\ seen \in Nat

ControlTypeOK ==
  /\ irqFlag \in BOOLEAN /\ irqOn \in BOOLEAN
  /\ pc \in [Contexts -> MainSteps \cup IsrSteps]
  /\ pc["main"] \in MainSteps /\ pc["isr"] \in IsrSteps
  /\ rfState \in [Drivers -> {"IDLE", "RX", "TX"}]
  /\ systemState \in {"RESTART", "RXON", "RXOFF"}

JobTypeOK ==
  /\ pkt \in Nat
  /\ cur \in [Contexts -> Nat] /\ tries \in [Contexts -> Nat]
  /\ res \in [Contexts -> BOOLEAN]
  /\ nreq \in Nat /\ slept \in Nat

HistoryTypeOK ==
  /\ onAir \in Seq(Nat)
  /\ finished \in SUBSET (Nat \X BOOLEAN)
  /\ delivered \in Seq(Nat)

\* Type invariant of the chip, the microcontroller and the histories.
TypeOK == ChipTypeOK /\ ControlTypeOK /\ JobTypeOK /\ HistoryTypeOK

\* Mutual exclusion on the radio: while the main loop is inside sendData, the
\* interrupt routine neither reads the FIFO nor strobes the chip.  This is
\* what rfState is for ("This will avoid receiving packets whilst
\* transmitting"), and it must hold with two driver objects as well as with
\* one.
ExclusiveRadio ==
  pc["main"] \in SendSteps
    => pc["isr"] \notin ReceiveSteps \cup SendSteps \cup CallSteps
                          \cup {"dispatch"}

\* A message goes on the air at most once, whatever the retries of
\* SWPACKET::send do.
AtMostOnceOnAir == \A i, j \in DOMAIN onAir : onAir[i] = onAir[j] => i = j

\* The result of a send tells the caller the truth: true exactly when the
\* message went out.
ResultIsTruth ==
  \A f \in finished : f[2] <=> \E i \in DOMAIN onAir : onAir[i] = f[1]

\* The board is a lossy channel between the air and the SWAP layer: packets
\* come through in the order they were on the air and never twice, although
\* receiveData empties the FIFO after reading one packet, although the static
\* ccPacket outlives every call of the interrupt routine, and although edges
\* arrive for packets that are not there.
Channel == INSTANCE LossyChannel WITH offered <- seen, got <- delivered

DeliversAsChannel == Channel!Spec

\* Both contexts at rest and no edge waiting to be served.
AtRest == pc["main"] = "loop" /\ pc["isr"] = "off" /\ ~irqFlag

\* Once a send has declared RX, a board at rest is really listening: the chip
\* is in RX, although it falls back to IDLE after every packet it receives,
\* drops or sends, and although edges arrive while the interrupt is masked.
\* (A board that has slept is not: wakeUp leaves the chip in IDLE.)
NeverDeaf ==
  AtRest /\ rfState[IsrDriver] = "RX" /\ slept = 0
    => marc \in {"CALRX", "RX"}

\* sendData gives control back to either caller, unless its first loop waits
\* for RX with the chip in IDLE, from where nothing brings it to RX.
Parked(c) == pc[c] = "waitRx" /\ marc = "IDLE"

SendReturnsUnlessParked ==
  \A c \in Contexts :
    pc[c] \in SendSteps ~> (pc[c] = "sendReturned" \/ Parked(c))

\* The interrupt routine gives the processor back, whatever it answers and
\* however often it retries, unless it parks.
IsrReturnsUnlessParked ==
  pc["isr"] # "off" ~> (pc["isr"] = "off" \/ Parked("isr"))

\* Both contexts get out of the driver unless they park.
BothReturnUnlessParked == SendReturnsUnlessParked /\ IsrReturnsUnlessParked

-----------------------------------------------------------------------------
(* What the comments of the code say, and the code does not do.            *)

\* cc1101.cpp:456-458: sendData returns true or false.
SendReturns ==
  \A c \in Contexts : pc[c] \in SendSteps ~> pc[c] = "sendReturned"

\* Panstamp.cpp:228-236: init enters RX and sets the system state RXON, so a
\* board at rest listens.
RxOnMeansListening ==
  AtRest /\ systemState = "RXON" => marc \in {"CALRX", "RX"}

\* cc1101.cpp:437-440: setPowerDownState leaves the chip powered down.
AsleepIsPoweredDown == pc["main"] = "asleep" => marc = "SLEEP"
=============================================================================
