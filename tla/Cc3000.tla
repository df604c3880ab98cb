-------------------------------- MODULE Cc3000 --------------------------------
(***************************************************************************)
(* The CC3000 host driver (libraries/WiFi: ccspi.cpp, utility/hci.cpp,     *)
(* evnt_handler.cpp, and the parts of socket.cpp and wlan.cpp that keep    *)
(* state): one call at a time goes out over SPI from the main program,     *)
(* while an interrupt routine shares the SPI, the receive buffer and the   *)
(* counters with it.                                                       *)
(*                                                                         *)
(* Concurrency, as on the AVR: the interrupt routine is not interrupted;   *)
(* an edge of the IRQ line is latched and taken before the main program's  *)
(* next step once the interrupt is enabled.  Only the sample of a pin can  *)
(* be taken in the cycle in which the edge arrives.  The chip is external. *)
(***************************************************************************)
EXTENDS HciCalls, Sequences, FiniteSets, SequencesExt

CONSTANTS
  Sds,          \* socket descriptors
  HostCalls,    \* the calls the sketch makes
  ChipBuffers,  \* data packets the chip can hold
  MaxEvents,    \* bound: unsolicited events other than credits
  QueueCap,     \* bound: packets the chip keeps for the host
  None

\* What the functions hand to the three framings (hci.cpp): a call has an opcode
\* and waits for an event of its own, never for data, for what the chip says
\* unasked or for the answers to the two calls of wlan_start; and one that waits
\* for received data goes on to fetch the bytes.
ASSUME CallsAssumption ==
  \A c \in HostCalls :
    /\ c \in [type : {"CMND", "DATA"}, op : Nat, event : Nat, room : Nat,
              declared : Nat, written : Nat, data : BOOLEAN]
    /\ \A n \in {c.op, c.event} :
         n \notin {0, PATCHES_REQ, FREE_BUFF, SimpleLink_Init_Start.op, read_buffer_size.op}
    /\ c.event \in RECV_EVENTS => c.data

ASSUME BoundsAssumption == ChipBuffers \in Nat /\ MaxEvents \in Nat /\ QueueCap \in Nat

VARIABLES
  \* the main program
  pc,          \* where it is in the driver
  cmd,         \* the call in progress: function, socket, number
  count,       \* numbers the calls, alternately 0 and 1
  credit,      \* usNumberOfFreeBuffers as read for the decrement
  \* shared with the interrupt routine
  spi,         \* sSpiInformation.ulSpiState
  enabled,     \* ccspi_int_enabled and the interrupt mask
  rx,          \* spi_buffer: the packet read last
  received,    \* usEventOrDataReceived
  awaited,     \* usRxEventOpcode
  dataPending, \* usRxDataPending
  free,        \* usNumberOfFreeBuffers
  outstanding, \* NumberOfSentPackets - NumberOfReleasedPackets
  txError,     \* slTransmitDataError
  inactive,    \* socket_active_status: the bits that are set
  patching,    \* SpiWrite carries a patch answer, not the call's packet
  \* the chip and its lines
  on,          \* power, WLAN_EN
  low,         \* the IRQ line
  edge,        \* the latched falling edge
  cs,          \* chip select is asserted
  outbox,      \* packets the chip has for the host
  serving,     \* the command it works on
  used,        \* its data buffers that are occupied
  wantsPatch,  \* it has asked for a patch and waits
  budget,      \* MaxEvents still to come
  \* history, read by properties only
  taken,       \* how often the chip has taken the call's packet
  answered,    \* the number of the call whose answer the caller got
  lost,        \* credits lost to the unprotected decrement
  trouble      \* the races that have happened

main  == <<pc, cmd, count, credit, patching>>
host  == <<awaited, dataPending, inactive, outstanding, free, txError>>
link  == <<spi, enabled, rx, received>>
wire  == <<on, low, edge, cs>>
chip  == <<outbox, serving, used, wantsPatch, budget>>
past  == <<taken, answered, lost, trouble>>
vars  == <<main, host, link, wire, chip, past>>

START == SimpleLink_Init_Start.op
DATA  == 0                        \* HCI_TYPE_DATA, not an event
JUNK  == -1                       \* neither: what an unasked-for read returns
Nothing == [op |-> JUNK, sd |-> 0, status |-> 0, tag |-> None]
Packet(op, sd, status, tag) == [op |-> op, sd |-> sd, status |-> status, tag |-> tag]

IsSend(call) == call.event \in SEND_EVENTS
IsrDue       == edge /\ enabled
CallTags     == 0..1
Troubles     == {"overrun", "swallowed", "junk", "patchLost", "stopped"}

-------------------------------------------------------------------------------
(* The chip takes what the host writes only while it is selected and has   *)
(* answered the selection on the IRQ line; the line then goes up.          *)
Write ==
  /\ cs' = FALSE
  /\ IF cs /\ low
     THEN /\ low' = FALSE
          /\ IF patching
             THEN wantsPatch' = FALSE /\ UNCHANGED <<serving, used, taken>>
             ELSE /\ serving' = cmd
                  /\ used' = used + IF IsSend(cmd.call) THEN 1 ELSE 0
                  /\ taken' = taken + 1
                  /\ UNCHANGED wantsPatch
     ELSE UNCHANGED <<low, serving, used, wantsPatch, taken>>

(* SpiPauseSpi and SpiResumeSpi: the interrupt is off while a packet waits  *)
(* in the buffer.                                                           *)
SpiPauseSpi  == received' = TRUE /\ enabled' = FALSE
ResumeNever  == received' = FALSE /\ enabled' = FALSE            \* mutant
SpiResumeSpi == received' = FALSE /\ enabled' = TRUE

\* hci_event_unsol_flowcontrol_handler: the buffers that an event releases.
ReleasedEvents(p) == IF p.op = FREE_BUFF THEN 1 ELSE 0            \* mutant
Released(p)       == IF p.op = FREE_BUFF THEN p.status ELSE 0

(* SpiTriggerRxProcessing, SpiReceiveHandler, hci_unsolicited_event_handler *)
(* and hci_unsol_event_handler for a packet just read: dealt with, or left  *)
(* in the buffer.                                                           *)
Handle(p) ==
  IF p.op # DATA /\ p.op # JUNK /\ Unsolicited(p.op, p.status, awaited)
  THEN /\ SpiResumeSpi
       /\ free' = free + Released(p)
       /\ outstanding' = outstanding - Released(p)
       /\ txError'  = (txError \/ p.op \in SEND_EVENTS)
       /\ inactive' = inactive \cup IF p.op \in SEND_EVENTS THEN {p.sd} ELSE {}
       /\ trouble'  = trouble \cup IF p.tag = None THEN {} ELSE {"swallowed"}
  ELSE /\ SpiPauseSpi
       /\ UNCHANGED <<free, outstanding, txError, inactive>>
       /\ trouble' = trouble \cup IF p.op = JUNK THEN {"junk"} ELSE {}

(* SPI_IRQ: by the SPI state, the first edge after power-up, a packet to   *)
(* read, or the chip's consent to be written to.                           *)
SPI_IRQ ==
  CASE spi = "POWERUP" ->
         /\ spi' = "INITIALIZED"
         /\ UNCHANGED <<enabled, rx, received, host, low, cs, chip, past>>
    [] spi = "IDLE" ->
         /\ rx' = IF low /\ outbox # <<>> THEN Head(outbox) ELSE Nothing
         /\ outbox' = IF low /\ outbox # <<>> THEN Tail(outbox) ELSE outbox
         /\ low' = FALSE /\ cs' = FALSE
         /\ Handle(rx')
         /\ UNCHANGED <<spi, awaited, dataPending, serving, used, wantsPatch, budget,
                        taken, answered, lost>>
    [] spi = "WRITE_IRQ" ->
         /\ Write
         /\ spi' = "IDLE"
         /\ UNCHANGED <<enabled, rx, received, host, outbox, budget, answered, lost, trouble>>
    [] spi = "INITIALIZED" -> UNCHANGED <<link, host, low, cs, chip, past>>

Isr == IsrDue /\ edge' = FALSE /\ SPI_IRQ /\ UNCHANGED <<main, on>>

-------------------------------------------------------------------------------
(* The main program.  A pin can be sampled in the cycle of the edge; any    *)
(* other step comes after the interrupt routine that is due.                *)
At(label) == pc = label /\ ~IsrDue
Goto(label) == pc' = label /\ UNCHANGED <<cmd, count, credit, patching>>

Ask(call, sd, label) ==
  /\ cmd' = [call |-> call, sd |-> sd, tag |-> count]
  /\ count' = 1 - count
  /\ pc' = label
  /\ taken' = 0 /\ answered' = None
  /\ UNCHANGED <<credit, patching, lost>>

(* A call of the sketch.  wlan_stop has set the packet buffer's pointer to  *)
(* 0: after it a call writes its arguments to address 0 and up.             *)
Issue ==
  /\ At("ready")
  /\ \E c \in HostCalls, sd \in Sds :
        Ask(c, sd, IF ~on THEN "corrupted" ELSE IF IsSend(c) THEN "credit" ELSE "write")
  /\ trouble' = trouble \cup IF on THEN {} ELSE {"stopped"}
  /\ UNCHANGED <<host, link, wire, chip>>

Back == /\ pc' = "ready" /\ cmd' = None
        /\ taken' = 0 /\ answered' = None
        /\ UNCHANGED <<count, credit, patching, lost, trouble>>

(* HostFlowControlConsumeBuff: the error of an earlier packet, an inactive *)
(* socket or 30 s without a free buffer refuse the packet.                 *)
RefusedForError    == At("credit") /\ txError /\ txError' = FALSE /\ Back
                      /\ UNCHANGED <<awaited, dataPending, inactive, outstanding, free>>
RefusedForInactive == At("credit") /\ ~txError /\ cmd.sd \in inactive /\ Back /\ UNCHANGED host
RefusedForTime     == At("buffer") /\ free = 0 /\ Back /\ UNCHANGED host
NoErrors           == At("credit") /\ ~txError /\ cmd.sd \notin inactive
                      /\ Goto("buffer") /\ UNCHANGED <<host, past>>
NoBuffer           == At("buffer") /\ free = 0 /\ Goto("credit") /\ UNCHANGED <<host, past>>

\* Mutant: taken without looking.
ReadCreditUnchecked == At("buffer") /\ credit' = free /\ pc' = "spend"
                       /\ UNCHANGED <<cmd, count, patching, host, past>>

\* usNumberOfFreeBuffers-- on a 16-bit counter: read, then write back.
ReadCredit == At("buffer") /\ free > 0 /\ credit' = free /\ pc' = "spend"
              /\ UNCHANGED <<cmd, count, patching, host, past>>

SpendCredit ==
  /\ At("spend")
  /\ free' = credit - 1 /\ outstanding' = outstanding + 1 /\ credit' = 0
  /\ lost' = lost + (free - credit)
  /\ pc' = "write"
  /\ UNCHANGED <<cmd, count, patching, awaited, dataPending, inactive, txError,
                 taken, answered, trouble>>

FlowControl ==
  /\ \/ RefusedForError \/ RefusedForInactive \/ RefusedForTime
     \/ NoErrors \/ NoBuffer \/ ReadCredit \/ SpendCredit
  /\ UNCHANGED <<link, wire, chip>>

(* SpiWrite.  A packet over the magic number is never written.             *)
WriteOverrun ==
  /\ At("write") /\ ~patching /\ OverrunsBuffer(cmd.call)
  /\ Goto("stuck")
  /\ trouble' = trouble \cup {"overrun"}
  /\ UNCHANGED <<host, link, wire, chip, taken, answered, lost>>

MayWrite(label) == At(label) /\ (patching \/ ~OverrunsBuffer(cmd.call))

\* The first packet after power-up is written without asking: the line is low.
SpiFirstWrite ==
  /\ MayWrite("write") /\ spi = "INITIALIZED"
  /\ spi' = "IDLE"
  /\ serving' = cmd /\ taken' = taken + 1
  /\ low' = FALSE
  /\ Goto("sent")
  /\ UNCHANGED <<enabled, rx, received, host, on, edge, cs, outbox, used, wantsPatch, budget,
                 answered, lost, trouble>>

\* With the interrupt disabled for it; enabled again, whatever it was.
SpiAskToWrite ==
  /\ MayWrite("write") /\ spi = "IDLE"
  /\ spi' = "WRITE_IRQ" /\ cs' = TRUE /\ enabled' = TRUE
  /\ Goto("check")
  /\ UNCHANGED <<rx, received, host, on, low, edge, chip, past>>

\* The check for a missed edge: it may see the line of an edge that is due.
SpiCheckPin ==
  /\ pc = "check"
  /\ Goto(IF low THEN "second" ELSE "sent")
  /\ UNCHANGED <<host, link, wire, chip, past>>

SpiWriteAnyway ==
  /\ At("second")
  /\ Write
  /\ spi' = "IDLE"
  /\ Goto("sent")
  /\ UNCHANGED <<enabled, rx, received, host, on, edge, outbox, budget, answered, lost, trouble>>

SpiWritten ==
  /\ At("sent") /\ spi = "IDLE"
  /\ pc' = IF patching THEN "loop" ELSE "arm"
  /\ patching' = FALSE
  /\ UNCHANGED <<cmd, count, credit, host, link, wire, chip, past>>

SpiWrite == WriteOverrun \/ SpiFirstWrite \/ SpiAskToWrite \/ SpiCheckPin
            \/ SpiWriteAnyway \/ SpiWritten

(* SimpleLinkWaitEvent, SimpleLinkWaitData and the loop of                 *)
(* hci_event_handler.                                                      *)
SimpleLinkWaitEvent ==
  /\ At("arm")
  /\ awaited' = cmd.call.event
  /\ Goto("loop")
  /\ UNCHANGED <<dataPending, inactive, outstanding, free, txError, link, wire, chip, past>>

SimpleLinkWaitData ==
  /\ At("armData")
  /\ dataPending' = TRUE
  /\ Goto("loop")
  /\ UNCHANGED <<awaited, inactive, outstanding, free, txError, link, wire, chip, past>>

\* cc3k_int_poll samples the line, and calls the routine a moment later.
PollSeesLow ==
  /\ pc = "loop" /\ low /\ ~received
  /\ Goto("poll")
  /\ UNCHANGED <<host, link, wire, chip, past>>

cc3k_int_poll ==
  /\ At("poll")
  /\ Goto("loop")
  /\ IF enabled THEN SPI_IRQ /\ UNCHANGED <<on, edge>>
                ELSE UNCHANGED <<host, link, wire, chip, past>>

\* Mutants: the data packet of an answer is not awaited; it is awaited also
\* when the answer announces none.
OnwardAtOnce(stillAwaited, stillPending, p) ==
  IF stillAwaited # 0 \/ stillPending THEN "loop" ELSE "done"
OnwardForData(stillAwaited, stillPending, p) ==
  IF stillAwaited # 0 \/ stillPending THEN "loop"
  ELSE IF cmd.call.data /\ p.op # DATA THEN "armData" ELSE "done"

\* Where the handler goes when an event or data has been dealt with.
Onward(stillAwaited, stillPending, p) ==
  IF stillAwaited # 0 \/ stillPending THEN "loop"
  ELSE IF cmd.call.data /\ p.op # DATA /\ (p.status > 0 \/ p.op = NVMEM_READ)
       THEN "armData" ELSE "done"

\* A received event: its fields are stored, and the wait for it is over.
HandleEvent ==
  /\ At("loop") /\ received /\ rx.op \notin {DATA, JUNK}
  /\ SpiResumeSpi
  /\ awaited' = IF rx.op = awaited THEN 0 ELSE awaited
  /\ answered' = IF rx.op = awaited THEN rx.tag ELSE answered
  /\ free' = IF rx.op = read_buffer_size.op THEN rx.status ELSE free
  /\ pc' = IF rx.op = PATCHES_REQ THEN "patch" ELSE Onward(awaited', dataPending, rx)
  /\ UNCHANGED <<cmd, count, credit, patching, dataPending, inactive, outstanding, txError,
                 spi, rx, wire, chip, taken, lost, trouble>>

HandleData ==
  /\ At("loop") /\ received /\ rx.op = DATA
  /\ SpiResumeSpi
  /\ dataPending' = FALSE
  /\ answered' = rx.tag
  /\ Goto(Onward(awaited, FALSE, rx))
  /\ UNCHANGED <<awaited, inactive, outstanding, free, txError, spi, rx, wire, chip,
                 taken, lost, trouble>>

\* Anything else is taken for data: a length of junk is copied to the caller.
HandleJunk ==
  /\ At("loop") /\ received /\ rx.op = JUNK
  /\ Goto("corrupted")
  /\ UNCHANGED <<host, link, wire, chip, past>>

\* The request is read from the buffer after the interrupt was enabled: by
\* then the buffer may hold another event, whose parameter decides.
HandlePatchRequest ==
  /\ At("patch")
  /\ \/ pc' = "write" /\ patching' = TRUE /\ UNCHANGED trouble
     \/ /\ rx.op # PATCHES_REQ
        /\ pc' = "loop" /\ UNCHANGED patching
        /\ trouble' = trouble \cup {"patchLost"}
  /\ UNCHANGED <<cmd, count, credit, host, link, wire, chip, taken, answered, lost>>

hci_event_handler == HandleEvent \/ HandleData \/ HandleJunk \/ HandlePatchRequest

\* What socket(), closesocket() and wlan_start() do with the answer.
Finish ==
  /\ At("done")
  /\ pc' = IF cmd.call.op = START THEN "size" ELSE "ready"
  /\ cmd' = None
  /\ inactive' = (inactive \ IF cmd.call.op = socket.op THEN {cmd.sd} ELSE {})
                   \cup IF cmd.call.op = closesocket.op THEN {cmd.sd} ELSE {}
  /\ taken' = 0 /\ answered' = None
  /\ UNCHANGED <<count, credit, patching, awaited, dataPending, outstanding, free, txError,
                 link, wire, chip, lost, trouble>>

-------------------------------------------------------------------------------
(* wlan_start and wlan_stop.                                               *)
wlan_start ==
  /\ At("off")
  /\ awaited' = 0 /\ dataPending' = FALSE /\ free' = 0 /\ outstanding' = 0 /\ txError' = FALSE
  /\ received' = FALSE /\ rx' = Nothing /\ spi' = "POWERUP" /\ enabled' = TRUE
  /\ on' = TRUE
  /\ Goto("boot")
  /\ UNCHANGED <<inactive, low, edge, cs, chip, past>>

LineIsLow ==
  /\ pc = "boot" /\ low
  /\ Ask(SimpleLink_Init_Start, 0, "write")
  /\ UNCHANGED <<host, link, wire, chip, trouble>>

ReadBufferSize ==
  /\ At("size")
  /\ Ask(read_buffer_size, 0, "write")
  /\ UNCHANGED <<host, link, wire, chip, trouble>>

\* reboot() starts the chip again; stop() leaves the calls to come to fail.
wlan_stop ==
  /\ At("ready") /\ on
  /\ on' = FALSE /\ low' = FALSE /\ cs' = FALSE
  /\ outbox' = <<>> /\ serving' = None /\ used' = 0 /\ wantsPatch' = FALSE
  /\ enabled' = FALSE
  /\ lost' = 0
  /\ \E label \in {"off", "ready"} : Goto(label)
  /\ UNCHANGED <<host, spi, rx, received, edge, budget, taken, answered, trouble>>

Main == Issue \/ FlowControl \/ SpiWrite \/ SimpleLinkWaitEvent \/ SimpleLinkWaitData
        \/ PollSeesLow \/ cc3k_int_poll \/ hci_event_handler \/ Finish
        \/ wlan_start \/ LineIsLow \/ ReadBufferSize \/ wlan_stop

-------------------------------------------------------------------------------
(* The chip (external).  It pulls the line when it has booted, has a packet *)
(* for the host, or is selected by it.                                      *)
ChipPullsLine ==
  /\ on /\ ~low
  /\ outbox # <<>> \/ cs \/ pc = "boot"
  /\ low' = TRUE /\ edge' = TRUE
  /\ UNCHANGED <<main, host, link, on, cs, chip, past>>

Queue(packets) == /\ Len(outbox) + Len(packets) <= QueueCap
                  /\ outbox' = outbox \o packets

\* It takes longer to answer than the main program to arm its wait.
HostIsWaiting == pc \notin {"check", "second", "sent", "arm"}

ChipAnswers ==
  /\ on /\ serving # None /\ ~wantsPatch /\ HostIsWaiting
  /\ LET call == serving.call
         reply(status) == Packet(call.event, serving.sd, status, serving.tag)
         bytes == Packet(DATA, serving.sd, 1, serving.tag)
     IN  \/ call = read_buffer_size /\ Queue(<<reply(ChipBuffers)>>)
         \/ call = nvmem_read /\ Queue(<<reply(0), bytes>>)
         \/ IsSend(call) /\ \E s \in {0, -57} : Queue(<<reply(s)>>)
         \/ call.event \in RECV_EVENTS
            /\ (Queue(<<reply(1), bytes>>) \/ \E s \in {0, -57} : Queue(<<reply(s)>>))
         \/ /\ call \notin {read_buffer_size, nvmem_read} /\ ~IsSend(call)
            /\ call.event \notin RECV_EVENTS
            /\ Queue(<<reply(0)>>)
  /\ serving' = None
  /\ UNCHANGED <<main, host, link, wire, used, wantsPatch, budget, past>>

ChipAsksForPatch ==
  /\ on /\ serving # None /\ serving.call.op = START /\ ~wantsPatch /\ budget > 0
  /\ HostIsWaiting
  /\ Queue(<<Packet(PATCHES_REQ, 0, 0, None)>>)
  /\ wantsPatch' = TRUE /\ budget' = budget - 1
  /\ UNCHANGED <<main, host, link, wire, serving, used, past>>

ChipFreesBuffer ==
  /\ on /\ used > 0
  /\ \E n \in 1..used : Queue(<<Packet(FREE_BUFF, 0, n, None)>>) /\ used' = used - n
  /\ UNCHANGED <<main, host, link, wire, serving, wantsPatch, budget, past>>

\* An event of the network, or the news that data could not be sent.
ChipReports ==
  /\ on /\ budget > 0
  /\ \/ Queue(<<Packet(CLOSE_WAIT, 0, 0, None)>>)
     \/ \E sd \in Sds \ inactive : Queue(<<Packet(\h1003, sd, -57, None)>>)
  /\ pc \notin {"off", "boot"}
  /\ budget' = budget - 1
  /\ UNCHANGED <<main, host, link, wire, serving, used, wantsPatch, past>>

Chip == ChipPullsLine \/ ChipAnswers \/ ChipAsksForPatch \/ ChipFreesBuffer \/ ChipReports

-------------------------------------------------------------------------------
Init ==
  /\ pc = "off" /\ cmd = None /\ count = 0 /\ credit = 0 /\ patching = FALSE
  /\ spi = "POWERUP" /\ enabled = FALSE /\ rx = Nothing /\ received = FALSE
  /\ awaited = 0 /\ dataPending = FALSE /\ free = 0 /\ outstanding = 0
  /\ txError = FALSE /\ inactive = Sds
  /\ on = FALSE /\ low = FALSE /\ edge = FALSE /\ cs = FALSE
  /\ outbox = <<>> /\ serving = None /\ used = 0 /\ wantsPatch = FALSE /\ budget = MaxEvents
  /\ taken = 0 /\ answered = None /\ lost = 0 /\ trouble = {}

Next == Main \/ Isr \/ Chip

Spec == Init /\ [][Next]_vars

(* The program and the interrupt run whenever they can; the chip pulls its *)
(* line, frees its buffers and answers, except that a receive call waits   *)
(* for the peer.                                                           *)
ChipMustAnswer == ChipAnswers /\ serving.call.event \notin RECV_EVENTS

Fairness == /\ WF_vars(Main) /\ WF_vars(Isr)
            /\ WF_vars(ChipPullsLine) /\ WF_vars(ChipFreesBuffer)
            /\ WF_vars(ChipMustAnswer)

FairSpec == Spec /\ Fairness

-------------------------------------------------------------------------------
Commands == [call : HostCalls, sd : Sds, tag : CallTags]
              \cup [call : {SimpleLink_Init_Start, read_buffer_size}, sd : {0}, tag : CallTags]

\* None is nobody's number and no command.
ASSUME NoneAssumption == None \notin CallTags /\ None \notin Commands

Ops == {c.event : c \in HostCalls}
         \cup {START, read_buffer_size.op, DATA, JUNK, FREE_BUFF, CLOSE_WAIT, PATCHES_REQ, \h1003}
Packets == [op : Ops, sd : Sds \cup {0}, status : {-57} \cup Nat,
            tag : CallTags \cup {None}]

Values ==
  /\ pc \in {"off", "boot", "size", "ready", "credit", "buffer", "spend", "write", "check",
             "second", "sent", "arm", "armData", "loop", "poll", "patch", "done",
             "stuck", "corrupted"}
  /\ cmd \in Commands \cup {None} /\ serving \in Commands \cup {None}
  /\ count \in CallTags /\ credit \in Nat /\ free \in Nat /\ lost \in Nat
  /\ outstanding \in Int /\ used \in Nat /\ budget \in Nat /\ taken \in Nat
  /\ spi \in {"POWERUP", "INITIALIZED", "IDLE", "WRITE_IRQ"}
  /\ rx \in Packets /\ awaited \in Ops /\ inactive \subseteq Sds
  /\ outbox \in Seq(Packets)
  /\ answered \in CallTags \cup {None} /\ trouble \subseteq Troubles

Flags ==
  /\ enabled \in BOOLEAN /\ received \in BOOLEAN /\ dataPending \in BOOLEAN
  /\ txError \in BOOLEAN /\ patching \in BOOLEAN /\ on \in BOOLEAN /\ low \in BOOLEAN
  /\ edge \in BOOLEAN /\ cs \in BOOLEAN /\ wantsPatch \in BOOLEAN

CcTypeOK == Values /\ Flags

\* Every call is carried out once and returns its own answer, although the
\* packet may be written twice and events come in between (SpiWrite's check
\* after enabling the interrupt, hci_event_handler's wait).
Promise == INSTANCE RemoteCall WITH
  Tags <- CallTags, Nobody <- None,
  asked <- IF cmd = None THEN None ELSE cmd.tag, served <- taken, answer <- answered
CallsAreCarriedOut == Promise!Spec

\* usNumberOfFreeBuffers, the buffers the chip occupies, the credits on their
\* way back and the packet on its way out are all the buffers there are, but
\* for the credits lost to the unprotected decrement.
Known    == on /\ pc \notin {"off", "boot", "size", "corrupted"}
              /\ (cmd # None => cmd.call \notin {SimpleLink_Init_Start, read_buffer_size})
CreditsIn(row) == UNION {{i} \X (1..row[i].status) :
                           i \in {j \in 1..Len(row) : row[j].op = FREE_BUFF}}
Credits  == Cardinality(CreditsIn(outbox))
Underway == IF cmd # None /\ IsSend(cmd.call) /\ taken = 0
                 /\ pc \in {"write", "check", "second", "sent", "stuck"} THEN 1 ELSE 0
CreditsConserved == Known => free + used + Credits + Underway + lost = ChipBuffers

\* The interrupt is left disabled only while a packet waits to be handled:
\* then the next call's wait enables it.  Otherwise the driver would be deaf.
DeafOnlyWithPacket == on /\ ~enabled => received

\* No call lasts for ever, unless its peer is silent (a receive call waits
\* without a limit) or one of the named races has happened.
PeerSilent  == serving # None /\ serving.call.event \in RECV_EVENTS
CallReturns == []<>(cmd = None \/ trouble # {} \/ PeerSilent)
===============================================================================
