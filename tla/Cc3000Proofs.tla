----------------------------- MODULE Cc3000Proofs -----------------------------
(***************************************************************************)
(* Proofs about Cc3000 for any calls, sockets and buffers.                 *)
(***************************************************************************)
EXTENDS Cc3000, SequenceTheorems, FiniteSetTheorems, FunctionTheorems, TLAPS

-----------------------------------------------------------------------------
(* The inductive invariants.                                               *)

\* What the chip puts in a packet: an event that no call asked for is one of
\* these; only what concerns a socket reports its failure.
Sound(p) ==
  /\ p \in Packets
  /\ p.tag = None => \/ p.op \in {FREE_BUFF, CLOSE_WAIT, PATCHES_REQ}
                     \/ p.op = \h1003 /\ p.status = -57
  /\ p.tag # None => p.op \notin {JUNK, PATCHES_REQ}
  /\ p.status = -57 => p.op \in SEND_EVENTS \cup RECV_EVENTS
  /\ p.op \in SEND_EVENTS => p.sd \in Sds

\* A credit that has been read is there, and none can have been lost before.
CreditRead == pc = "spend" => 0 < credit /\ credit <= free

\* Between two calls there is none, and only there.
NoCall    == {"off", "boot", "size", "ready"}
BetweenCalls == cmd = None <=> pc \in NoCall

TypeInv == /\ CcTypeOK
           /\ rx = Nothing \/ Sound(rx)
           /\ \A p \in ToSet(outbox) : Sound(p)
           /\ BetweenCalls
           /\ CreditRead

\* What comes at most once for a call: its answer, its data, the patch request.
Once(p)     == p.tag # None \/ p.op = PATCHES_REQ
Alike(p, q) == Once(p) /\ Once(q) /\ p.op = q.op
NoTwice(s)  == \A i, j \in 1..Len(s) : Alike(s[i], s[j]) => i = j

\* The packets that the main program will meet yet.
Coming == ToSet(outbox) \cup IF received THEN {rx} ELSE {}

OnceInv ==
  /\ NoTwice(outbox)
  /\ received => \A q \in ToSet(outbox) : ~Alike(rx, q)
  /\ received /\ rx.tag = None => rx.op \in {JUNK, PATCHES_REQ}

\* A patch is written only for the request that the chip waits on.
PatchInv ==
  /\ wantsPatch => serving # None
  /\ pc = "patch" => wantsPatch
  /\ patching /\ (pc = "write" \/ cs) => wantsPatch
  /\ patching => pc \in {"write", "check", "second", "sent"}
  /\ \A p \in Coming : p.op = PATCHES_REQ => wantsPatch /\ pc # "patch" /\ ~patching

\* How far the call in progress has come.
StageInv ==
  /\ taken \in {0, 1}
  /\ cmd = None => taken = 0
  /\ answered # None => cmd # None /\ answered = cmd.tag /\ taken = 1
  /\ serving # None => serving = cmd /\ taken = 1 /\ answered = None
  /\ pc \in {"credit", "buffer", "spend", "write", "stuck"} /\ ~patching => taken = 0
  /\ cs => /\ pc \in {"check", "second", "sent"} /\ spi = "WRITE_IRQ"
           /\ ~patching => taken = 0
  /\ spi \in {"POWERUP", "INITIALIZED"} =>
       ~patching /\ pc \in {"off", "boot", "write", "stuck"}
  /\ pc \in {"armData", "done"} => answered # None
  /\ awaited # PATCHES_REQ
  /\ serving # None /\ (patching \/ pc \notin {"check", "second", "sent", "arm"})
       => awaited = serving.call.event

\* An answer or its data on their way belong to the call in progress, which
\* does not end before it has met both.
AnswerInv ==
  /\ \A p \in Coming : p.tag # None =>
       /\ cmd # None /\ p.tag = cmd.tag /\ taken = 1 /\ serving = None
       /\ pc \in {"loop", "poll", "armData", "corrupted"}
       /\ p.op \in {cmd.call.event, DATA}
       /\ p.op # DATA => awaited = p.op
  /\ \A p, q \in Coming : p.tag # None /\ q.tag # None /\ p.op = DATA /\ q.op # DATA
       => cmd.call.data /\ (q.status > 0 \/ q.op = NVMEM_READ)

DriverInv == TypeInv /\ OnceInv /\ PatchInv /\ StageInv /\ AnswerInv

-----------------------------------------------------------------------------
(* What the calls and their events are, and packets in a row.              *)

\* The numbers of the events (evnt_handler.cpp, hci.h).
LEMMA Opcodes ==
  /\ FREE_BUFF = 16640 /\ CLOSE_WAIT = 34816 /\ PATCHES_REQ = 4096 /\ NVMEM_READ = 513
  /\ DATA = 0 /\ JUNK = -1
  /\ SEND_EVENTS = {4099, 4110, 4111} /\ RECV_EVENTS = {4100, 4109}
  /\ \h1003 = 4099
BY DEF FREE_BUFF, CLOSE_WAIT, PATCHES_REQ, NVMEM_READ, DATA, JUNK, SEND_EVENTS, RECV_EVENTS

\* Those of the calls that the driver makes itself or takes apart by number.
LEMMA OwnCalls ==
  /\ START = 16384
  /\ socket.op = 4097 /\ closesocket.op = 4107
  /\ SimpleLink_Init_Start.op = 16384 /\ read_buffer_size.op = 16395
  /\ SimpleLink_Init_Start.event = 16384 /\ read_buffer_size.event = 16395
  /\ SimpleLink_Init_Start.data = FALSE /\ read_buffer_size.data = FALSE
  /\ nvmem_read.event = 513 /\ nvmem_read.data = TRUE
BY DEF START, SimpleLink_Init_Start, read_buffer_size, nvmem_read, socket, closesocket,
       hci_command_send, WithData

\* The events that come unasked are dealt with whoever waits for what
\* (evnt_handler.cpp hci_unsol_event_handler), all but the patch request.
LEMMA UnaskedAreHandled ==
  ASSUME NEW p, Sound(p), p.tag = None, p.op # PATCHES_REQ, NEW a
  PROVE  Unsolicited(p.op, p.status, a) /\ p.op # DATA /\ p.op # JUNK
<1>1. HasBit(34816, 32768)
  BY DEF HasBit
<1>2. Unsolicited(CLOSE_WAIT, p.status, a)
  BY <1>1 DEF Unsolicited, CLOSE_WAIT, WlanEvents
<1>3. CASE p.op = CLOSE_WAIT
  BY <1>2, <1>3, Opcodes
<1>4. CASE p.op = FREE_BUFF
  BY <1>4, Opcodes DEF Unsolicited
<1>5. CASE p.op = \h1003 /\ p.status = -57
  BY <1>5, Opcodes DEF Unsolicited
<1> QED
  BY <1>3, <1>4, <1>5 DEF Sound

\* What is in a row.
LEMMA InRow ==
  ASSUME NEW s
  PROVE  /\ \A i \in DOMAIN s : s[i] \in ToSet(s)
         /\ \A p \in ToSet(s) : \E i \in DOMAIN s : p = s[i]
BY DEF ToSet

\* The first of a row is taken out of it.
LEMMA TakingFirst ==
  ASSUME NEW P, NEW s \in Seq(P), s # <<>>
  PROVE  /\ Head(s) \in ToSet(s)
         /\ Tail(s) \in Seq(P)
         /\ ToSet(Tail(s)) \subseteq ToSet(s)
         /\ NoTwice(s) => /\ NoTwice(Tail(s))
                          /\ \A q \in ToSet(Tail(s)) : ~Alike(Head(s), q)
<1>1. /\ Len(s) \in Nat /\ Len(s) > 0 /\ DOMAIN s = 1..Len(s) /\ Head(s) = s[1]
      /\ Tail(s) \in Seq(P) /\ Len(Tail(s)) = Len(s) - 1
      /\ DOMAIN Tail(s) = 1..Len(s) - 1
      /\ \A i \in 1..Len(s) - 1 : Tail(s)[i] = s[i + 1]
  BY HeadTailProperties, LenProperties, EmptySeq
<1>2. \A i \in 1..Len(s) - 1 : i + 1 \in 1..Len(s) /\ i + 1 # 1
  BY <1>1
<1>3. ToSet(Tail(s)) \subseteq ToSet(s) /\ Head(s) \in ToSet(s)
  BY <1>1, <1>2 DEF ToSet
<1>4. ASSUME NoTwice(s)
      PROVE  NoTwice(Tail(s)) /\ \A q \in ToSet(Tail(s)) : ~Alike(Head(s), q)
  <2>1. NoTwice(Tail(s))
    BY <1>1, <1>2, <1>4 DEF NoTwice
  <2>2. \A q \in ToSet(Tail(s)) : \E i \in 1..Len(s) - 1 : q = s[i + 1]
    BY <1>1 DEF ToSet
  <2>3. 1 \in 1..Len(s)
    BY <1>1
  <2> QED
    BY <1>1, <1>2, <1>4, <2>1, <2>2, <2>3 DEF NoTwice
<1> QED
  BY <1>1, <1>3, <1>4

\* A row is put behind another that has nothing like it.
LEMMA QueueingUp ==
  ASSUME NEW P, NEW s \in Seq(P), NEW t \in Seq(P), NoTwice(s), NoTwice(t),
         \A p \in ToSet(s), q \in ToSet(t) : ~Alike(p, q) /\ ~Alike(q, p)
  PROVE  /\ s \o t \in Seq(P)
         /\ ToSet(s \o t) = ToSet(s) \cup ToSet(t)
         /\ NoTwice(s \o t)
<1> DEFINE m == Len(s)
           n == Len(t)
           w == s \o t
<1>1. /\ m \in Nat /\ n \in Nat /\ DOMAIN s = 1..m /\ DOMAIN t = 1..n
      /\ w \in Seq(P) /\ Len(w) = m + n /\ DOMAIN w = 1..m + n
      /\ \A i \in 1..m + n : w[i] = IF i <= m THEN s[i] ELSE t[i - m]
  BY ConcatProperties, LenProperties
<1> HIDE DEF m, n, w
<1>2. \A i \in 1..m : i \in 1..m + n /\ w[i] = s[i] /\ s[i] \in ToSet(s)
  BY <1>1, InRow
<1>3. \A i \in 1..n : i + m \in 1..m + n /\ w[i + m] = t[i] /\ t[i] \in ToSet(t)
  <2>1. \A i \in 1..n : i + m \in 1..m + n /\ ~(i + m <= m) /\ (i + m) - m = i
    BY <1>1
  <2> QED
    BY <1>1, <2>1, InRow
<1>4. \A i \in 1..m + n : i \in 1..m \/ \E k \in 1..n : i = k + m
  <2> TAKE i \in 1..m + n
  <2>1. CASE i > m
    <3>1. i - m \in 1..n /\ i = (i - m) + m
      BY <1>1, <2>1
    <3> QED BY <3>1
  <2> QED
    BY <1>1, <2>1
<1>5. ToSet(w) = ToSet(s) \cup ToSet(t)
  <2>1. \A i \in 1..m + n : w[i] \in ToSet(s) \cup ToSet(t)
    BY <1>2, <1>3, <1>4
  <2>2. \A i \in 1..m : s[i] \in ToSet(w)
    BY <1>1, <1>2, InRow
  <2>3. \A i \in 1..n : t[i] \in ToSet(w)
    BY <1>1, <1>3, InRow
  <2>4. /\ \A p \in ToSet(w) : \E i \in 1..m + n : p = w[i]
        /\ \A p \in ToSet(s) : \E i \in 1..m : p = s[i]
        /\ \A p \in ToSet(t) : \E i \in 1..n : p = t[i]
    BY <1>1, InRow
  <2> QED
    BY <2>1, <2>2, <2>3, <2>4
<1>6. NoTwice(w)
  <2> SUFFICES ASSUME NEW i \in 1..m + n, NEW j \in 1..m + n, Alike(w[i], w[j])
               PROVE  i = j
    BY <1>1 DEF NoTwice
  <2>1. CASE i \in 1..m /\ j \in 1..m
    BY <1>2, <2>1 DEF NoTwice, m
  <2>2. CASE i \in 1..m /\ j \notin 1..m
    BY <1>2, <1>3, <1>4, <2>2
  <2>3. CASE i \notin 1..m /\ j \in 1..m
    BY <1>2, <1>3, <1>4, <2>3
  <2>4. CASE i \notin 1..m /\ j \notin 1..m
    <3>1. PICK k \in 1..n : i = k + m
      BY <1>4, <2>4
    <3>2. PICK l \in 1..n : j = l + m
      BY <1>4, <2>4
    <3>3. k = l
      BY <1>3, <3>1, <3>2 DEF NoTwice, n
    <3> QED
      BY <3>1, <3>2, <3>3
  <2> QED
    BY <2>1, <2>2, <2>3, <2>4
<1> QED
  BY <1>1, <1>5, <1>6 DEF w

\* Rows of one and of two.
LEMMA ShortRows ==
  ASSUME NEW P, NEW p \in P, NEW q \in P
  PROVE  /\ <<p>> \in Seq(P) /\ ToSet(<<p>>) = {p} /\ NoTwice(<<p>>)
         /\ <<p, q>> \in Seq(P) /\ ToSet(<<p, q>>) = {p, q}
         /\ ~Alike(p, q) /\ ~Alike(q, p) => NoTwice(<<p, q>>)
<1>1. <<p>> \in Seq(P) /\ ToSet(<<p>>) = {p} /\ NoTwice(<<p>>)
  BY DEF ToSet, NoTwice
<1>2. <<p, q>> \in Seq(P) /\ Len(<<p, q>>) = 2 /\ DOMAIN <<p, q>> = {1, 2} /\ 1..2 = {1, 2}
  OBVIOUS
<1>3. ToSet(<<p, q>>) = {p, q}
  BY <1>2 DEF ToSet
<1>4. ~Alike(p, q) /\ ~Alike(q, p) => NoTwice(<<p, q>>)
  BY <1>2 DEF NoTwice
<1> QED
  BY <1>1, <1>2, <1>3, <1>4

-----------------------------------------------------------------------------
(* The types.                                                              *)

\* A packet is dealt with or left in the buffer.
LEMMA HandleTypes ==
  ASSUME TypeInv, NEW p, p = Nothing \/ Sound(p), Handle(p)
  PROVE  /\ free' \in Nat /\ free <= free' /\ outstanding' \in Int /\ inactive' \subseteq Sds
         /\ received' \in BOOLEAN /\ enabled' \in BOOLEAN /\ txError' \in BOOLEAN
         /\ trouble' \subseteq Troubles
<1> USE DEF TypeInv, CcTypeOK, Values
<1>1. CASE p.op # DATA /\ p.op # JUNK /\ Unsolicited(p.op, p.status, awaited)
  <2>1. Sound(p)
    BY <1>1 DEF Nothing
  <2>2. Released(p) \in Nat
    BY <2>1, Opcodes DEF Released, Sound, Packets
  <2>3. inactive' \subseteq Sds
    BY <1>1, <2>1 DEF Handle, Sound
  <2>4. txError' \in BOOLEAN
    BY <1>1 DEF Handle, Flags
  <2>5. trouble' \subseteq Troubles
    BY <1>1 DEF Handle, Troubles
  <2>6. received' \in BOOLEAN /\ enabled' \in BOOLEAN
    BY <1>1 DEF Handle, SpiResumeSpi
  <2>7. free' = free + Released(p) /\ outstanding' = outstanding - Released(p)
    BY <1>1 DEF Handle
  <2>8. free' \in Nat /\ free <= free' /\ outstanding' \in Int
    BY <2>2, <2>7
  <2> QED
    BY <2>3, <2>4, <2>5, <2>6, <2>8
<1>2. CASE ~(p.op # DATA /\ p.op # JUNK /\ Unsolicited(p.op, p.status, awaited))
  <2>1. free' = free /\ outstanding' = outstanding /\ inactive' = inactive
    BY <1>2 DEF Handle
  <2>2. txError' \in BOOLEAN
    BY <1>2 DEF Handle, Flags
  <2>3. trouble' \subseteq Troubles
    BY <1>2 DEF Handle, Troubles
  <2>4. received' \in BOOLEAN /\ enabled' \in BOOLEAN
    BY <1>2 DEF Handle, SpiPauseSpi
  <2> QED
    BY <2>1, <2>2, <2>3, <2>4
<1> QED
  BY <1>1, <1>2

\* A packet goes out, or the chip was not there to take it.
LEMMA WriteTypes ==
  ASSUME TypeInv, Write
  PROVE  /\ cs' \in BOOLEAN /\ low' \in BOOLEAN /\ wantsPatch' \in BOOLEAN
         /\ serving' \in Commands \cup {None} /\ used' \in Nat /\ taken' \in Nat
<1> USE DEF TypeInv, CcTypeOK, Write
<1>1. serving' \in Commands \cup {None} /\ used' \in Nat /\ taken' \in Nat
  BY DEF Values
<1>2. cs' \in BOOLEAN /\ low' \in BOOLEAN
  BY DEF Flags
<1>3. wantsPatch' \in BOOLEAN
  BY DEF Flags
<1> QED
  BY <1>1, <1>2, <1>3

\* The routine, called by the interrupt or by the poll, which then goes on.
LEMMA RoutineTypes ==
  ASSUME TypeInv, SPI_IRQ, UNCHANGED <<cmd, count, credit, patching, on>>,
         pc' = pc \/ (pc = "poll" /\ pc' = "loop"), edge' \in BOOLEAN
  PROVE  TypeInv'
<1>1. /\ UNCHANGED <<cmd, count, credit, patching, on>>
      /\ pc' = pc \/ (pc = "poll" /\ pc' = "loop")
  OBVIOUS
<1> USE DEF TypeInv
<1>2. BetweenCalls'
  BY <1>1 DEF BetweenCalls, NoCall
<1>3. CASE spi = "POWERUP" \/ spi = "INITIALIZED"
  <2>1. /\ spi' \in {"POWERUP", "INITIALIZED"}
        /\ UNCHANGED <<enabled, rx, received, host, low, cs, chip, past>>
    BY <1>3 DEF SPI_IRQ, link
  <2>2. CcTypeOK'
    BY <1>1, <2>1 DEF CcTypeOK, Values, Flags, host, chip, past
  <2>3. CreditRead' /\ (rx = Nothing \/ Sound(rx))' /\ (\A p \in ToSet(outbox) : Sound(p))'
    BY <1>1, <2>1 DEF CreditRead, host, chip
  <2> QED
    BY <1>2, <2>2, <2>3
<1>4. CASE spi = "IDLE"
  <2>1. /\ rx' = IF low /\ outbox # <<>> THEN Head(outbox) ELSE Nothing
        /\ outbox' = IF low /\ outbox # <<>> THEN Tail(outbox) ELSE outbox
        /\ low' = FALSE /\ cs' = FALSE
        /\ Handle(rx')
        /\ UNCHANGED <<spi, awaited, dataPending, serving, used, wantsPatch, budget,
                       taken, answered, lost>>
    BY <1>4 DEF SPI_IRQ
  <2>2. outbox \in Seq(Packets)
    BY DEF CcTypeOK, Values
  <2>3. outbox' \in Seq(Packets) /\ ToSet(outbox') \subseteq ToSet(outbox)
    BY <2>1, <2>2, TakingFirst
  <2>4. rx' = Nothing \/ Sound(rx')
    BY <2>1, <2>2, TakingFirst
  <2>5. /\ free' \in Nat /\ free <= free' /\ outstanding' \in Int /\ inactive' \subseteq Sds
        /\ received' \in BOOLEAN /\ enabled' \in BOOLEAN /\ txError' \in BOOLEAN
        /\ trouble' \subseteq Troubles
    BY <2>1, <2>4, HandleTypes
  <2>6. rx' \in Packets
    BY <2>4 DEF Sound, Nothing, Packets, Ops, CallTags
  <2>7. Values'
    BY <1>1, <2>1, <2>3, <2>5, <2>6 DEF CcTypeOK, Values
  <2>8. Flags'
    BY <1>1, <2>1, <2>5 DEF CcTypeOK, Flags
  <2>9. CreditRead'
    BY <1>1, <2>5 DEF CreditRead, CcTypeOK, Values
  <2> QED
    BY <1>2, <2>3, <2>4, <2>7, <2>8, <2>9 DEF CcTypeOK
<1>5. CASE spi = "WRITE_IRQ"
  <2>1. /\ Write /\ spi' = "IDLE"
        /\ UNCHANGED <<enabled, rx, received, host, outbox, budget, answered, lost, trouble>>
    BY <1>5 DEF SPI_IRQ
  <2>2. CcTypeOK'
    BY <1>1, <2>1, WriteTypes DEF CcTypeOK, Values, Flags, host
  <2>3. CreditRead' /\ (rx = Nothing \/ Sound(rx))' /\ (\A p \in ToSet(outbox) : Sound(p))'
    BY <1>1, <2>1 DEF CreditRead, host
  <2> QED
    BY <1>2, <2>2, <2>3
<1> QED
  BY <1>3, <1>4, <1>5 DEF CcTypeOK, Values

\* The packets stay as sound as they were while nobody moves them.
LEMMA SoundStays ==
  ASSUME TypeInv, UNCHANGED <<rx, outbox>>
  PROVE  (rx = Nothing \/ Sound(rx))' /\ (\A p \in ToSet(outbox) : Sound(p))'
BY DEF TypeInv

\* A call is made: the sketch's, or one of wlan_start's own.
LEMMA AskTypes ==
  ASSUME TypeInv, NEW c, NEW sd, NEW label, Ask(c, sd, label),
         \/ c \in HostCalls /\ sd \in Sds
         \/ c \in {SimpleLink_Init_Start, read_buffer_size} /\ sd = 0,
         label \in {"corrupted", "credit", "write"},
         UNCHANGED <<host, link, wire, chip>>, trouble' \subseteq Troubles
  PROVE  TypeInv'
<1> USE DEF TypeInv
<1>1. cmd' \in Commands /\ count' \in CallTags
  BY DEF Ask, Commands, CallTags, CcTypeOK, Values
<1>2. BetweenCalls'
  BY <1>1, NoneAssumption DEF Ask, BetweenCalls, NoCall
<1>3. CreditRead'
  BY DEF Ask, CreditRead
<1>4. Values'
  BY <1>1 DEF Ask, CcTypeOK, Values, host, link, wire, chip
<1>5. Flags'
  BY DEF Ask, CcTypeOK, Flags, host, link, wire, chip
<1> QED
  BY <1>2, <1>3, <1>4, <1>5, SoundStays DEF CcTypeOK, link, chip

\* The calls: made, and done.
LEMMA CallTypes ==
  ASSUME TypeInv, Issue \/ LineIsLow \/ ReadBufferSize \/ Finish
  PROVE  TypeInv'
<1>1. CASE Issue
  <2>1. PICK c \in HostCalls, sd \in Sds :
          Ask(c, sd, IF ~on THEN "corrupted" ELSE IF IsSend(c) THEN "credit" ELSE "write")
    BY <1>1 DEF Issue
  <2>2. trouble' \subseteq Troubles /\ UNCHANGED <<host, link, wire, chip>>
    BY <1>1 DEF Issue, TypeInv, CcTypeOK, Values, Troubles
  <2> QED
    BY <2>1, <2>2, AskTypes
<1>2. CASE LineIsLow \/ ReadBufferSize
  <2>1. trouble' \subseteq Troubles /\ UNCHANGED <<host, link, wire, chip>>
    BY <1>2 DEF LineIsLow, ReadBufferSize, TypeInv, CcTypeOK, Values
  <2> QED
    BY <1>2, <2>1, AskTypes DEF LineIsLow, ReadBufferSize
<1>3. CASE Finish
  <2> USE <1>3 DEF TypeInv
  <2>1. cmd \in Commands
    BY DEF Finish, At, BetweenCalls, NoCall, CcTypeOK, Values
  <2>2. cmd.call.op = closesocket.op => cmd.sd \in Sds
    BY <2>1, OwnCalls DEF Commands
  <2>3. inactive' \subseteq Sds
    BY <2>2 DEF Finish, CcTypeOK, Values
  <2>4. BetweenCalls' /\ CreditRead'
    BY DEF Finish, At, BetweenCalls, NoCall, CreditRead
  <2>5. Values'
    BY <2>3 DEF Finish, At, CcTypeOK, Values, link, wire, chip
  <2>6. Flags'
    BY DEF Finish, CcTypeOK, Flags, link, wire, chip
  <2> QED
    BY <2>4, <2>5, <2>6, SoundStays DEF CcTypeOK, Finish, link, chip
<1> QED
  BY <1>1, <1>2, <1>3

\* HostFlowControlConsumeBuff.
LEMMA FlowTypes ==
  ASSUME TypeInv, FlowControl
  PROVE  TypeInv'
<1> USE DEF TypeInv
<1> USE DEF RefusedForError, RefusedForInactive, RefusedForTime, NoErrors, NoBuffer,
            ReadCredit, SpendCredit, Back, Goto, At, host
<1>1. BetweenCalls'
  BY DEF FlowControl, BetweenCalls, NoCall
<1>2. CreditRead'
  BY DEF FlowControl, CreditRead, CcTypeOK, Values
<1>3. Values'
  <2>1. free' \in Nat /\ credit' \in Nat /\ lost' \in Nat /\ outstanding' \in Int
    BY DEF FlowControl, CreditRead, CcTypeOK, Values, past
  <2>2. cmd' \in Commands \cup {None} /\ count' \in CallTags /\ answered' \in CallTags \cup {None}
    BY DEF FlowControl, CcTypeOK, Values, past
  <2>3. taken' \in Nat /\ trouble' \subseteq Troubles /\ inactive' \subseteq Sds /\ awaited' \in Ops
    BY DEF FlowControl, CcTypeOK, Values, past
  <2>4. pc' \in {"ready", "buffer", "credit", "spend", "write"}
    BY DEF FlowControl
  <2> QED
    BY <2>1, <2>2, <2>3, <2>4 DEF FlowControl, CcTypeOK, Values, link, wire, chip
<1>4. Flags'
  BY ZenonT(40) DEF FlowControl, CcTypeOK, Flags, link, wire, chip
<1> QED
  BY <1>1, <1>2, <1>3, <1>4, SoundStays DEF FlowControl, CcTypeOK, link, chip

\* SpiWrite.
LEMMA SpiWriteTypes ==
  ASSUME TypeInv, SpiWrite
  PROVE  TypeInv'
<1> USE DEF TypeInv
<1>1. CASE WriteOverrun
  <2>1. Values' /\ Flags'
    BY <1>1 DEF WriteOverrun, Goto, At, CcTypeOK, Values, Flags, Troubles, host, link, wire, chip
  <2> QED
    BY <1>1, <2>1, SoundStays
       DEF WriteOverrun, Goto, At, CcTypeOK, BetweenCalls, NoCall, CreditRead, link, chip
<1>2. CASE SpiFirstWrite
  <2> USE <1>2 DEF SpiFirstWrite, MayWrite, Goto, At
  <2>1. Values'
    BY DEF CcTypeOK, Values, host
  <2>2. Flags'
    BY DEF CcTypeOK, Flags, host
  <2> QED
    BY <2>1, <2>2, SoundStays DEF CcTypeOK, BetweenCalls, NoCall, CreditRead
<1>3. CASE SpiAskToWrite \/ SpiCheckPin \/ SpiWritten
  <2> USE <1>3 DEF SpiAskToWrite, SpiCheckPin, SpiWritten, MayWrite, Goto, At
  <2>1. Values'
    BY DEF CcTypeOK, Values, host, link, wire, chip, past
  <2>2. Flags'
    BY ZenonT(40) DEF CcTypeOK, Flags, host, link, wire, chip, past
  <2>3. BetweenCalls' /\ CreditRead'
    BY DEF BetweenCalls, NoCall, CreditRead, host
  <2> QED
    BY <2>1, <2>2, <2>3, SoundStays DEF CcTypeOK, link, chip
<1>4. CASE SpiWriteAnyway
  <2> USE <1>4, WriteTypes DEF SpiWriteAnyway, Goto, At
  <2>1. Values'
    BY DEF CcTypeOK, Values, host
  <2>2. Flags'
    BY DEF CcTypeOK, Flags, host
  <2> QED
    BY <2>1, <2>2, SoundStays DEF CcTypeOK, BetweenCalls, NoCall, CreditRead
<1> QED
  BY <1>1, <1>2, <1>3, <1>4 DEF SpiWrite

\* The wait for the answer, and the packets that the main program handles.
LEMMA WaitTypes ==
  ASSUME TypeInv,
         \/ SimpleLinkWaitEvent \/ SimpleLinkWaitData \/ PollSeesLow
         \/ hci_event_handler
  PROVE  TypeInv'
<1> USE DEF TypeInv
<1>1. CASE SimpleLinkWaitEvent
  <2> USE <1>1 DEF SimpleLinkWaitEvent, Goto, At
  <2>1. cmd \in Commands
    BY DEF BetweenCalls, NoCall, CcTypeOK, Values
  <2>2. awaited' \in Ops
    BY <2>1 DEF Commands, Ops, SimpleLink_Init_Start, read_buffer_size, hci_command_send, START
  <2>3. Values'
    BY <2>2 DEF CcTypeOK, Values, link, wire, chip, past
  <2>4. Flags'
    BY DEF CcTypeOK, Flags, link, wire, chip
  <2> QED
    BY <2>3, <2>4, SoundStays DEF CcTypeOK, BetweenCalls, NoCall, CreditRead, link, chip
<1>2. CASE SimpleLinkWaitData \/ PollSeesLow
  <2> USE <1>2 DEF SimpleLinkWaitData, PollSeesLow, Goto, At
  <2>1. Values'
    BY DEF CcTypeOK, Values, host, link, wire, chip, past
  <2>2. Flags'
    BY DEF CcTypeOK, Flags, host, link, wire, chip
  <2>3. BetweenCalls' /\ CreditRead'
    BY DEF BetweenCalls, NoCall, CreditRead, host
  <2> QED
    BY <2>1, <2>2, <2>3, SoundStays DEF CcTypeOK, link, chip
<1>3. CASE HandleEvent \/ HandleData
  <2>1. Sound(rx)
    <3>1. Nothing.op = JUNK
      BY DEF Nothing
    <3>2. rx.op \notin {DATA, JUNK} \/ rx.op = DATA
      BY <1>3 DEF HandleEvent, HandleData
    <3>3. DATA # JUNK
      BY Opcodes
    <3> QED
      BY <3>1, <3>2, <3>3
  <2> USE <1>3 DEF HandleEvent, HandleData, SpiResumeSpi, Goto, At
  <2>2. rx.tag \in CallTags \cup {None}
    BY <2>1 DEF Sound, Packets
  <2>3. rx.op = read_buffer_size.op => rx.status \in Nat
    BY <2>1, OwnCalls, Opcodes DEF Sound, Packets
  <2>4. pc' \in {"patch", "loop", "armData", "done"}
    BY DEF Onward
  <2>5. awaited' \in Ops
    <3>1. 0 \in Ops /\ awaited \in Ops
      BY Opcodes DEF CcTypeOK, Values, Ops
    <3> QED
      BY <3>1
  <2>6. Values'
    BY <2>2, <2>3, <2>4, <2>5 DEF CcTypeOK, Values, wire, chip
  <2>7. Flags'
    BY DEF CcTypeOK, Flags, wire, chip
  <2>8. BetweenCalls' /\ CreditRead'
    BY <2>4 DEF BetweenCalls, NoCall, CreditRead
  <2> QED
    BY <2>6, <2>7, <2>8, SoundStays DEF CcTypeOK, chip
<1>4. CASE HandleJunk \/ HandlePatchRequest
  <2> USE <1>4 DEF HandleJunk, HandlePatchRequest, Goto, At
  <2>1. Values'
    BY DEF CcTypeOK, Values, Troubles, host, link, wire, chip, past
  <2>2. Flags'
    BY ZenonT(40) DEF CcTypeOK, Flags, host, link, wire, chip
  <2>3. BetweenCalls' /\ CreditRead'
    BY DEF BetweenCalls, NoCall, CreditRead
  <2> QED
    BY <2>1, <2>2, <2>3, SoundStays DEF CcTypeOK, link, chip
<1> QED
  BY <1>1, <1>2, <1>3, <1>4 DEF hci_event_handler

\* cc3k_int_poll calls the routine or does nothing.
LEMMA PollTypes ==
  ASSUME TypeInv, cc3k_int_poll
  PROVE  TypeInv'
<1>1. CASE enabled
  <2>1. edge' \in BOOLEAN /\ UNCHANGED <<cmd, count, credit, patching, on>> /\ SPI_IRQ
        /\ pc = "poll" /\ pc' = "loop"
    BY <1>1 DEF cc3k_int_poll, Goto, At, TypeInv, CcTypeOK, Flags
  <2> QED
    BY <2>1, RoutineTypes
<1>2. CASE ~enabled
  <2> USE <1>2 DEF cc3k_int_poll, Goto, At, TypeInv
  <2>1. Values'
    BY DEF CcTypeOK, Values, host, link, wire, chip, past
  <2>2. Flags'
    BY DEF CcTypeOK, Flags, host, link, wire, chip
  <2>3. BetweenCalls' /\ CreditRead'
    BY DEF BetweenCalls, NoCall, CreditRead
  <2> QED
    BY <2>1, <2>2, <2>3, SoundStays DEF CcTypeOK, link, chip
<1> QED
  BY <1>1, <1>2

\* The chip is switched on and off.
LEMMA PowerTypes ==
  ASSUME TypeInv, wlan_start \/ wlan_stop
  PROVE  TypeInv'
<1> USE DEF TypeInv, Goto, At
<1>1. CASE wlan_start
  <2> USE <1>1 DEF wlan_start
  <2>1. Nothing \in Packets /\ 0 \in Ops
    BY DEF Nothing, Packets, Ops, CallTags, DATA
  <2>2. Values'
    BY <2>1 DEF CcTypeOK, Values, chip, past
  <2>3. Flags'
    BY DEF CcTypeOK, Flags, chip, past
  <2>4. BetweenCalls' /\ CreditRead'
    BY DEF BetweenCalls, NoCall, CreditRead
  <2>5. (\A p \in ToSet(outbox) : Sound(p))'
    BY DEF chip
  <2> QED
    BY <2>2, <2>3, <2>4, <2>5 DEF CcTypeOK
<1>2. CASE wlan_stop
  <2> USE <1>2 DEF wlan_stop
  <2>1. <<>> \in Seq(Packets) /\ ToSet(<<>>) = {}
    BY DEF ToSet
  <2>2. Values'
    BY <2>1 DEF CcTypeOK, Values, host
  <2>3. Flags'
    BY DEF CcTypeOK, Flags, host
  <2>4. BetweenCalls' /\ CreditRead'
    BY DEF BetweenCalls, NoCall, CreditRead
  <2> QED
    BY <2>1, <2>2, <2>3, <2>4 DEF CcTypeOK
<1> QED
  BY <1>1, <1>2

\* What the chip puts behind the packets that it has for the host.
LEMMA QueuedSound ==
  ASSUME TypeInv, NEW s \in Seq(Packets), Queue(s), \A p \in ToSet(s) : Sound(p)
  PROVE  outbox' \in Seq(Packets) /\ \A p \in ToSet(outbox') : Sound(p)
<1>1. outbox \in Seq(Packets) /\ outbox' = outbox \o s
  BY DEF Queue, TypeInv, CcTypeOK, Values
<1>2. /\ outbox' \in Seq(Packets) /\ DOMAIN outbox' = 1..Len(outbox) + Len(s)
      /\ DOMAIN outbox = 1..Len(outbox) /\ DOMAIN s = 1..Len(s)
      /\ Len(outbox) \in Nat /\ Len(s) \in Nat
      /\ \A i \in 1..Len(outbox) + Len(s) :
           outbox'[i] = IF i <= Len(outbox) THEN outbox[i] ELSE s[i - Len(outbox)]
  BY <1>1, ConcatProperties, LenProperties
<1>3. ASSUME NEW i \in 1..Len(outbox) + Len(s)
      PROVE  outbox'[i] \in ToSet(outbox) \cup ToSet(s)
  <2>1. CASE i <= Len(outbox)
    BY <1>2, <2>1, InRow
  <2>2. CASE i > Len(outbox)
    <3>1. i - Len(outbox) \in 1..Len(s)
      BY <1>2, <2>2
    <3> QED
      BY <1>2, <2>2, <3>1, InRow
  <2> QED
    BY <1>2, <2>1, <2>2
<1> QED
  BY <1>2, <1>3, InRow DEF TypeInv

\* What the chip sends for a call: an answer, perhaps with data behind it.
Answers(c) == {Packet(c.call.event, c.sd, s, c.tag) : s \in Nat}
Failures(c) == {Packet(c.call.event, c.sd, -57, c.tag)}
Bytes(c)   == Packet(DATA, c.sd, 1, c.tag)

\* Each of them is sound.
LEMMA AnswersAreSound ==
  ASSUME NEW c \in Commands
  PROVE  /\ \A p \in Answers(c) : Sound(p)
         /\ c.call.event \in SEND_EVENTS \cup RECV_EVENTS => \A p \in Failures(c) : Sound(p)
         /\ Sound(Bytes(c))
<1>1. /\ c.sd \in Sds \cup {0} /\ c.tag \in CallTags /\ c.tag # None
      /\ \/ c.call \in HostCalls /\ c.sd \in Sds
         \/ c.call \in {SimpleLink_Init_Start, read_buffer_size}
  BY NoneAssumption DEF Commands
<1>2. /\ c.call.event \in Ops \cap Nat
      /\ c.call.event \notin {DATA, JUNK, PATCHES_REQ}
      /\ c.call.event \in SEND_EVENTS => c.sd \in Sds
  <2>1. CASE c.call \in HostCalls /\ c.sd \in Sds
    BY <1>1, <2>1, CallsAssumption, Opcodes DEF Ops
  <2>2. CASE c.call \in {SimpleLink_Init_Start, read_buffer_size}
    <3>1. c.call.event \in {16384, 16395} /\ c.call.event \in {START, read_buffer_size.op}
      BY <2>2, OwnCalls
    <3> QED
      BY <3>1, Opcodes DEF Ops
  <2> QED
    BY <1>1, <2>1, <2>2
<1>3. DATA \in Ops
  BY DEF Ops
<1> USE DEF Sound, Packets, Packet
<1>4. \A p \in Answers(c) : Sound(p)
  BY <1>1, <1>2 DEF Answers
<1>5. c.call.event \in SEND_EVENTS \cup RECV_EVENTS => \A p \in Failures(c) : Sound(p)
  BY <1>1, <1>2 DEF Failures
<1>6. Sound(Bytes(c))
  BY <1>1, <1>2, <1>3, Opcodes DEF Bytes
<1> QED
  BY <1>4, <1>5, <1>6

\* What the chip does for a call: the packets it has for the answer.
LEMMA AnswerIsQueued ==
  ASSUME TypeInv, ChipAnswers
  PROVE  \E p \in Answers(serving) \cup Failures(serving) :
           /\ p \in Failures(serving) =>
                serving.call.event \in SEND_EVENTS \cup RECV_EVENTS
           /\ \/ Queue(<<p>>)
              \/ /\ Queue(<<p, Bytes(serving)>>)
                 /\ serving.call.data /\ (p.status > 0 \/ p.op = NVMEM_READ)
<1> DEFINE c == serving
           call == serving.call
           reply(status) == Packet(call.event, c.sd, status, c.tag)
<1>1. /\ serving \in Commands
      /\ ChipBuffers \in Nat
  BY BoundsAssumption DEF TypeInv, CcTypeOK, Values, ChipAnswers
<1>2. \A s \in Nat : reply(s) \in Answers(c) /\ reply(s).status = s /\ reply(s).op = call.event
  BY DEF Answers, Packet
<1>3. reply(-57) \in Failures(c)
  BY DEF Failures
<1>4. \A s \in Nat : reply(s) \notin Failures(c)
  BY DEF Failures, Packet
<1>5. \/ Queue(<<reply(ChipBuffers)>>)
      \/ call = nvmem_read /\ Queue(<<reply(0), Bytes(c)>>)
      \/ IsSend(call) /\ \E s \in {0, -57} : Queue(<<reply(s)>>)
      \/ /\ call.event \in RECV_EVENTS
         /\ Queue(<<reply(1), Bytes(c)>>) \/ \E s \in {0, -57} : Queue(<<reply(s)>>)
      \/ Queue(<<reply(0)>>)
  BY DEF ChipAnswers, Bytes
<1>6. CASE Queue(<<reply(ChipBuffers)>>) \/ Queue(<<reply(0)>>)
  BY <1>1, <1>2, <1>4, <1>6
<1>7. CASE call = nvmem_read /\ Queue(<<reply(0), Bytes(c)>>)
  <2>1. call.data /\ reply(0).op = NVMEM_READ
    BY <1>2, <1>7, OwnCalls, Opcodes
  <2> QED
    BY <1>2, <1>4, <1>7, <2>1
<1>8. CASE IsSend(call) /\ \E s \in {0, -57} : Queue(<<reply(s)>>)
  BY <1>2, <1>3, <1>4, <1>8 DEF IsSend
<1>9. CASE /\ call.event \in RECV_EVENTS
           /\ Queue(<<reply(1), Bytes(c)>>) \/ \E s \in {0, -57} : Queue(<<reply(s)>>)
  <2>1. call.data
    BY <1>1, <1>9, CallsAssumption, OwnCalls, Opcodes DEF Commands
  <2>2. CASE Queue(<<reply(1), Bytes(c)>>)
    <3>1. reply(1) \in Answers(c) /\ reply(1) \notin Failures(c) /\ reply(1).status > 0
      BY <1>2, <1>4
    <3> QED
      BY <2>1, <2>2, <3>1
  <2>3. CASE \E s \in {0, -57} : Queue(<<reply(s)>>)
    BY <1>2, <1>3, <1>4, <1>9, <2>3
  <2> QED
    BY <1>9, <2>2, <2>3
<1> QED
  BY <1>5, <1>6, <1>7, <1>8, <1>9

\* The chip.
LEMMA ChipTypes ==
  ASSUME TypeInv, Chip
  PROVE  TypeInv'
<1> USE DEF TypeInv
<1>1. CASE ChipPullsLine
  <2> USE <1>1 DEF ChipPullsLine
  <2>1. Values'
    BY DEF CcTypeOK, Values, main, host, link, chip, past
  <2>2. Flags'
    BY DEF CcTypeOK, Flags, main, host, link, chip
  <2>3. BetweenCalls' /\ CreditRead'
    BY DEF BetweenCalls, NoCall, CreditRead, main, host
  <2> QED
    BY <2>1, <2>2, <2>3, SoundStays DEF CcTypeOK, link, chip
<1>2. ASSUME NEW s \in Seq(Packets), Queue(s), \A p \in ToSet(s) : Sound(p),
             UNCHANGED <<main, host, link, wire, past>>, serving' \in {serving, None},
             used' \in Nat, budget' \in Nat, wantsPatch' \in BOOLEAN
      PROVE  TypeInv'
  <2>1. outbox' \in Seq(Packets) /\ \A p \in ToSet(outbox') : Sound(p)
    BY <1>2, QueuedSound
  <2>2. Values'
    BY <1>2, <2>1 DEF CcTypeOK, Values, main, host, link, past
  <2>3. Flags'
    BY <1>2 DEF CcTypeOK, Flags, main, host, link, wire
  <2>4. BetweenCalls' /\ CreditRead'
    BY <1>2 DEF BetweenCalls, NoCall, CreditRead, main, host
  <2> QED
    BY <1>2, <2>1, <2>2, <2>3, <2>4 DEF CcTypeOK, link
<1>3. CASE ChipAnswers
  <2>1. serving \in Commands
    BY <1>3 DEF ChipAnswers, CcTypeOK, Values
  <2>2. PICK p \in Answers(serving) \cup Failures(serving) :
          /\ p \in Failures(serving) =>
               serving.call.event \in SEND_EVENTS \cup RECV_EVENTS
          /\ Queue(<<p>>) \/ Queue(<<p, Bytes(serving)>>)
    BY <1>3, AnswerIsQueued
  <2>3. Sound(p) /\ Sound(Bytes(serving))
    BY <2>1, <2>2, AnswersAreSound
  <2>4. PICK s \in {<<p>>, <<p, Bytes(serving)>>} : Queue(s)
    BY <2>2
  <2>5. p \in Packets /\ Bytes(serving) \in Packets
    BY <2>3 DEF Sound
  <2>6. s \in Seq(Packets) /\ \A q \in ToSet(s) : Sound(q)
    <3>1. /\ <<p>> \in Seq(Packets) /\ ToSet(<<p>>) = {p}
          /\ <<p, Bytes(serving)>> \in Seq(Packets)
          /\ ToSet(<<p, Bytes(serving)>>) = {p, Bytes(serving)}
      BY <2>5, ShortRows
    <3> QED
      BY <2>3, <2>4, <3>1
  <2>7. /\ UNCHANGED <<main, host, link, wire, past>> /\ serving' \in {serving, None}
        /\ used' \in Nat /\ budget' \in Nat /\ wantsPatch' \in BOOLEAN
    BY <1>3 DEF ChipAnswers, CcTypeOK, Values, Flags
  <2> QED
    BY <1>2, <2>4, <2>6, <2>7
<1>4. ASSUME NEW p, Sound(p), Queue(<<p>>),
             UNCHANGED <<main, host, link, wire, past>>, serving' \in {serving, None},
             used' \in Nat, budget' \in Nat, wantsPatch' \in BOOLEAN
      PROVE  TypeInv'
  <2>1. p \in Packets
    BY <1>4 DEF Sound
  <2>2. <<p>> \in Seq(Packets) /\ \A q \in ToSet(<<p>>) : Sound(q)
    BY <1>4, <2>1, ShortRows
  <2> QED
    BY <1>2, <1>4, <2>2
<1>5. Sound(Packet(PATCHES_REQ, 0, 0, None)) /\ Sound(Packet(CLOSE_WAIT, 0, 0, None))
  BY Opcodes DEF Sound, Packet, Packets, Ops
<1>6. CASE ChipAsksForPatch
  <2>1. /\ Queue(<<Packet(PATCHES_REQ, 0, 0, None)>>)
        /\ UNCHANGED <<main, host, link, wire, past, serving, used>>
        /\ budget' \in Nat /\ used' \in Nat /\ wantsPatch' \in BOOLEAN
    BY <1>6 DEF ChipAsksForPatch, CcTypeOK, Values
  <2> QED
    BY <1>4, <1>5, <2>1
<1>7. CASE ChipFreesBuffer
  <2>1. PICK n \in 1..used : Queue(<<Packet(FREE_BUFF, 0, n, None)>>) /\ used' = used - n
    BY <1>7 DEF ChipFreesBuffer
  <2>2. Sound(Packet(FREE_BUFF, 0, n, None))
    BY Opcodes DEF Sound, Packet, Packets, Ops
  <2>3. /\ UNCHANGED <<main, host, link, wire, past, serving, budget, wantsPatch>>
        /\ budget' \in Nat /\ used' \in Nat /\ wantsPatch' \in BOOLEAN
    BY <1>7, <2>1 DEF ChipFreesBuffer, CcTypeOK, Values, Flags
  <2> QED
    BY <1>4, <2>1, <2>2, <2>3
<1>8. CASE ChipReports
  <2>1. \A sd \in Sds : Sound(Packet(\h1003, sd, -57, None))
    BY Opcodes DEF Sound, Packet, Packets, Ops
  <2>2. PICK p : Sound(p) /\ Queue(<<p>>)
    BY <1>5, <1>8, <2>1 DEF ChipReports
  <2>3. /\ UNCHANGED <<main, host, link, wire, past, serving, used, wantsPatch>>
        /\ budget' \in Nat /\ used' \in Nat /\ wantsPatch' \in BOOLEAN
    BY <1>8 DEF ChipReports, CcTypeOK, Values, Flags
  <2> QED
    BY <1>4, <2>2, <2>3
<1> QED
  BY <1>1, <1>3, <1>6, <1>7, <1>8 DEF Chip

\* Every step keeps the types.
LEMMA TypesKept == TypeInv /\ [Next]_vars => TypeInv'
<1> SUFFICES ASSUME TypeInv, [Next]_vars
             PROVE  TypeInv'
  OBVIOUS
<1>1. CASE Isr
  <2>1. /\ SPI_IRQ /\ UNCHANGED <<cmd, count, credit, patching, on>>
        /\ pc' = pc /\ edge' \in BOOLEAN
    BY <1>1 DEF Isr, main
  <2> QED
    BY <2>1, RoutineTypes
<1>2. CASE UNCHANGED vars
  <2> USE <1>2 DEF vars, main, host, link, wire, chip, past, TypeInv
  <2>1. Values'
    BY DEF CcTypeOK, Values
  <2>2. Flags'
    BY DEF CcTypeOK, Flags
  <2>3. BetweenCalls' /\ CreditRead'
    BY DEF BetweenCalls, NoCall, CreditRead
  <2> QED
    BY <2>1, <2>2, <2>3, SoundStays DEF CcTypeOK
<1>3. CASE Chip
  BY <1>3, ChipTypes
<1>4. CASE Main
  BY <1>4, CallTypes, FlowTypes, SpiWriteTypes, WaitTypes, PollTypes, PowerTypes DEF Main
<1> QED
  BY <1>1, <1>2, <1>3, <1>4 DEF Next

\* The program starts with every variable of its type.
LEMMA TypesAtStart == Init => TypeInv
<1> SUFFICES ASSUME Init
             PROVE  TypeInv
  OBVIOUS
<1>1. Nothing \in Packets /\ 0 \in Ops
  BY DEF Nothing, Packets, Ops, CallTags, DATA
<1>2. <<>> \in Seq(Packets) /\ ToSet(<<>>) = {}
  BY DEF ToSet
<1>3. CcTypeOK
  <2>1. Flags
    BY DEF Init, Flags
  <2>2. outbox \in Seq(Packets) /\ rx \in Packets /\ awaited \in Ops
    BY <1>1, <1>2 DEF Init
  <2>3. budget \in Nat /\ inactive \subseteq Sds /\ count \in CallTags
    BY BoundsAssumption DEF Init, CallTags
  <2> QED
    BY <2>1, <2>2, <2>3 DEF Init, CcTypeOK, Values
<1> QED
  BY <1>2, <1>3 DEF Init, TypeInv, BetweenCalls, NoCall, CreditRead

\* Every variable of the driver, of the line and of the chip keeps its type,
\* for any calls, sockets and buffers (ccspi.cpp, hci.cpp, evnt_handler.cpp,
\* socket.cpp): no credit is spent that is not there, and no packet's socket or
\* status is read that its event does not carry.
THEOREM TypeCorrect == Spec => []CcTypeOK
<1>1. TypeInv => CcTypeOK
  BY DEF TypeInv
<1> QED
  BY <1>1, TypesAtStart, TypesKept, PTL DEF Spec

-----------------------------------------------------------------------------
(* The interrupt.                                                          *)

\* The interrupt routine, whichever state the SPI is in, masks itself only
\* with a packet in the buffer (ccspi.cpp SPI_IRQ, SpiPauseSpi).
LEMMA RoutineKeeps ==
  ASSUME TypeInv, DeafOnlyWithPacket, SPI_IRQ, UNCHANGED on
  PROVE  DeafOnlyWithPacket'
<1>1. CASE UNCHANGED <<enabled, received>>
  BY <1>1 DEF DeafOnlyWithPacket
<1>2. CASE Handle(rx')
  <2>1. enabled' = TRUE \/ received' = TRUE
    BY <1>2 DEF Handle, SpiResumeSpi, SpiPauseSpi
  <2> QED
    BY <2>1 DEF DeafOnlyWithPacket
<1> QED
  BY <1>1, <1>2 DEF SPI_IRQ, link, TypeInv, CcTypeOK, Values

\* No step of the main program leaves the driver deaf: it enables the interrupt
\* again with whatever it takes out of the buffer.
LEMMA MainKeeps ==
  ASSUME TypeInv, DeafOnlyWithPacket, Main
  PROVE  DeafOnlyWithPacket'
<1> USE DEF DeafOnlyWithPacket
<1>1. CASE Issue
  BY <1>1 DEF Issue, link, wire
<1>2. CASE FlowControl
  BY <1>2 DEF FlowControl, link, wire
<1>3. CASE SpiWrite
  BY <1>3 DEF SpiWrite, WriteOverrun, SpiFirstWrite, SpiAskToWrite, SpiCheckPin,
              SpiWriteAnyway, SpiWritten, link, wire
<1>4. CASE SimpleLinkWaitEvent \/ SimpleLinkWaitData \/ PollSeesLow
  BY <1>4 DEF SimpleLinkWaitEvent, SimpleLinkWaitData, PollSeesLow, link, wire
<1>5. CASE cc3k_int_poll
  <2>1. CASE enabled
    BY <1>5, <2>1, RoutineKeeps DEF cc3k_int_poll
  <2>2. CASE ~enabled
    BY <1>5, <2>2 DEF cc3k_int_poll, link, wire
  <2> QED
    BY <2>1, <2>2
<1>6. CASE hci_event_handler
  <2>1. CASE HandleEvent \/ HandleData
    BY <2>1 DEF HandleEvent, HandleData, SpiResumeSpi
  <2>2. CASE HandleJunk \/ HandlePatchRequest
    BY <2>2 DEF HandleJunk, HandlePatchRequest, link, wire
  <2> QED
    BY <1>6, <2>1, <2>2 DEF hci_event_handler
<1>7. CASE Finish
  BY <1>7 DEF Finish, link, wire
<1>8. CASE wlan_start \/ wlan_stop
  BY <1>8 DEF wlan_start, wlan_stop
<1>9. CASE LineIsLow \/ ReadBufferSize
  BY <1>9 DEF LineIsLow, ReadBufferSize, link, wire
<1> QED
  BY <1>1, <1>2, <1>3, <1>4, <1>5, <1>6, <1>7, <1>8, <1>9 DEF Main

\* The chip neither masks the interrupt nor empties the buffer.
LEMMA ChipKeeps ==
  ASSUME DeafOnlyWithPacket, Chip
  PROVE  DeafOnlyWithPacket'
<1>1. CASE ChipPullsLine
  BY <1>1 DEF ChipPullsLine, link, DeafOnlyWithPacket
<1>2. CASE ChipAnswers
  BY <1>2 DEF ChipAnswers, link, wire, DeafOnlyWithPacket
<1>3. CASE ChipAsksForPatch
  BY <1>3 DEF ChipAsksForPatch, link, wire, DeafOnlyWithPacket
<1>4. CASE ChipFreesBuffer
  BY <1>4 DEF ChipFreesBuffer, link, wire, DeafOnlyWithPacket
<1>5. CASE ChipReports
  BY <1>5 DEF ChipReports, link, wire, DeafOnlyWithPacket
<1> QED
  BY <1>1, <1>2, <1>3, <1>4, <1>5 DEF Chip

\* The driver is deaf only while a packet waits to be handled, whatever calls
\* are made and in whatever order the chip answers, frees and reports
\* (ccspi.cpp SpiPauseSpi and SpiResumeSpi, evnt_handler.cpp hci_event_handler).
THEOREM NeverDeafForGood == Spec => []DeafOnlyWithPacket
<1>1. Init => DeafOnlyWithPacket
  BY DEF Init, DeafOnlyWithPacket
<1>2. TypeInv /\ DeafOnlyWithPacket /\ [Next]_vars => DeafOnlyWithPacket'
  <2> SUFFICES ASSUME TypeInv, DeafOnlyWithPacket, [Next]_vars
               PROVE  DeafOnlyWithPacket'
    OBVIOUS
  <2>1. CASE Main
    BY <2>1, MainKeeps
  <2>2. CASE Isr
    BY <2>2, RoutineKeeps DEF Isr
  <2>3. CASE Chip
    BY <2>3, ChipKeeps
  <2>4. CASE UNCHANGED vars
    BY <2>4 DEF vars, link, wire, DeafOnlyWithPacket
  <2> QED
    BY <2>1, <2>2, <2>3, <2>4 DEF Next
<1> QED
  BY <1>1, <1>2, TypesAtStart, TypesKept, PTL DEF Spec

-----------------------------------------------------------------------------
(* A call and its answer.                                                  *)

\* Nothing of a call is on its way but while the program waits for it.
LEMMA NothingComing ==
  ASSUME AnswerInv, pc \notin {"loop", "poll", "armData", "corrupted"},
         Coming' \subseteq Coming \cup {Nothing}
  PROVE  AnswerInv'
<1>1. \A p \in Coming : p.tag = None
  BY DEF AnswerInv
<1>2. \A p \in Coming' : p.tag = None
  BY <1>1 DEF Nothing
<1> QED
  BY <1>2 DEF AnswerInv

\* While nobody moves a packet, each is there once.
LEMMA OnceStays ==
  ASSUME OnceInv, UNCHANGED <<outbox, rx, received>>
  PROVE  OnceInv' /\ Coming' = Coming
<1>1. received' = received /\ rx' = rx /\ outbox' = outbox
  OBVIOUS
<1>2. Coming' = Coming
  BY <1>1 DEF Coming
<1> QED
  BY <1>1, <1>2 DEF OnceInv

\* The calls: made, and done.
LEMMA CallKeeps ==
  ASSUME TypeInv, OnceInv, PatchInv, StageInv, AnswerInv,
         Issue \/ LineIsLow \/ ReadBufferSize \/ Finish
  PROVE  OnceInv' /\ PatchInv' /\ StageInv' /\ AnswerInv'
<1>1. UNCHANGED <<outbox, rx, received>>
  BY DEF Issue, LineIsLow, ReadBufferSize, Finish, link, chip
<1>2. OnceInv' /\ Coming' = Coming
  BY <1>1, OnceStays
<1>3. pc \in {"ready", "boot", "size", "done"}
  BY DEF Issue, LineIsLow, ReadBufferSize, Finish, At
<1>4. AnswerInv'
  BY <1>2, <1>3, NothingComing
<1>5. serving = None /\ patching = FALSE /\ cs = FALSE
  BY <1>3 DEF StageInv, PatchInv, TypeInv, BetweenCalls, NoCall, CcTypeOK, Flags
<1>6. /\ serving' = None /\ patching' = FALSE /\ cs' = FALSE
      /\ wantsPatch' = wantsPatch /\ awaited' = awaited /\ spi' = spi
  BY <1>5 DEF Issue, LineIsLow, ReadBufferSize, Finish, Ask, host, link, wire, chip
<1>7. pc' \in {"corrupted", "credit", "write", "size", "ready"}
  BY DEF Issue, LineIsLow, ReadBufferSize, Finish, Ask
<1>8. PatchInv'
  BY <1>2, <1>3, <1>5, <1>6, <1>7 DEF PatchInv
<1>9. taken' = 0 /\ answered' = None
  BY DEF Issue, LineIsLow, ReadBufferSize, Finish, Ask
<1>10. spi \in {"POWERUP", "INITIALIZED"} => pc' = "write"
  BY <1>3 DEF StageInv, Issue, LineIsLow, ReadBufferSize, Finish, Ask, At
<1>11. StageInv'
  BY <1>6, <1>7, <1>9, <1>10 DEF StageInv
<1> QED
  BY <1>2, <1>4, <1>8, <1>11

\* HostFlowControlConsumeBuff refuses a call before the chip has had it.
LEMMA FlowKeeps ==
  ASSUME TypeInv, OnceInv, PatchInv, StageInv, AnswerInv, FlowControl
  PROVE  OnceInv' /\ PatchInv' /\ StageInv' /\ AnswerInv'
<1> USE DEF FlowControl, RefusedForError, RefusedForInactive, RefusedForTime, NoErrors,
            NoBuffer, ReadCredit, SpendCredit, Back, Goto, At
<1>1. UNCHANGED <<outbox, rx, received, serving, patching, wantsPatch, cs, awaited, spi>>
  BY DEF link, wire, chip, host
<1>2. OnceInv' /\ Coming' = Coming
  BY <1>1, OnceStays
<1>3. pc \in {"credit", "buffer", "spend"} /\ pc' \in {"ready", "credit", "buffer", "spend", "write"}
  OBVIOUS
<1>4. AnswerInv'
  BY <1>2, <1>3, NothingComing
<1>5. patching = FALSE /\ taken = 0 /\ serving = None /\ cs = FALSE /\ answered = None
  BY <1>3 DEF StageInv, PatchInv, TypeInv, CcTypeOK, Flags
<1>6. patching' = FALSE /\ serving' = None /\ cs' = FALSE /\ wantsPatch' = wantsPatch
  BY <1>1, <1>5
<1>7. PatchInv'
  BY <1>2, <1>3, <1>5, <1>6 DEF PatchInv
<1>8. taken' = 0 /\ answered' = None
  BY <1>5 DEF past
<1>9. spi' \notin {"POWERUP", "INITIALIZED"} /\ awaited' # PATCHES_REQ
  BY <1>1, <1>3 DEF StageInv
<1>10. StageInv'
  BY <1>3, <1>6, <1>8, <1>9 DEF StageInv
<1> QED
  BY <1>2, <1>4, <1>7, <1>10

\* What Write may do to the chip, and that it counts the call once.
LEMMA WriteOnce ==
  ASSUME TypeInv, PatchInv, StageInv, Write, UNCHANGED patching,
         pc \in {"check", "second", "sent"} \/ ~cs
  PROVE  \/ UNCHANGED <<serving, wantsPatch, taken>>
         \/ cs /\ patching /\ serving # None /\ wantsPatch' = FALSE /\ UNCHANGED <<serving, taken>>
         \/ /\ cs /\ ~patching /\ serving' = cmd /\ cmd # None /\ taken = 0 /\ taken' = 1
            /\ UNCHANGED wantsPatch
<1>1. cs /\ ~patching => cmd # None /\ taken = 0
  BY DEF StageInv, TypeInv, BetweenCalls, NoCall
<1>2. cs /\ patching => serving # None
  BY DEF PatchInv
<1> QED
  BY <1>1, <1>2 DEF Write

\* A write leaves the call at most one step further.
LEMMA WriteKeeps ==
  ASSUME TypeInv, OnceInv, PatchInv, StageInv, AnswerInv, Write, spi' = "IDLE",
         UNCHANGED <<outbox, rx, received, cmd, patching, awaited, answered>>,
         pc' = pc \/ (pc = "second" /\ pc' = "sent"),
         pc \in {"check", "second", "sent"} \/ ~cs
  PROVE  OnceInv' /\ PatchInv' /\ StageInv' /\ AnswerInv'
<1>1. OnceInv' /\ Coming' = Coming
  BY OnceStays
<1>2. cs' = FALSE
  BY DEF Write
<1>3. CASE UNCHANGED <<serving, wantsPatch, taken>>
  <2>1. PatchInv'
    BY <1>1, <1>2, <1>3 DEF PatchInv
  <2>2. StageInv'
    BY <1>2, <1>3 DEF StageInv
  <2>3. AnswerInv'
    BY <1>1, <1>3 DEF AnswerInv
  <2> QED
    BY <1>1, <2>1, <2>2, <2>3
<1>4. CASE cs /\ patching /\ serving # None /\ wantsPatch' = FALSE /\ UNCHANGED <<serving, taken>>
  <2>1. pc \in {"check", "second", "sent"}
    BY <1>4
  <2>2. PatchInv'
    BY <1>1, <1>2, <1>4, <2>1 DEF PatchInv
  <2>3. StageInv'
    BY <1>2, <1>4, <2>1 DEF StageInv
  <2>4. AnswerInv'
    BY <1>1, <2>1, NothingComing
  <2> QED
    BY <1>1, <2>2, <2>3, <2>4
<1>5. CASE /\ cs /\ ~patching /\ serving' = cmd /\ cmd # None /\ taken = 0 /\ taken' = 1
           /\ UNCHANGED wantsPatch
  <2>1. pc \in {"check", "second", "sent"} /\ pc' \in {"check", "second", "sent"}
    BY <1>5
  <2>2. PatchInv'
    BY <1>1, <1>2, <1>5, <2>1 DEF PatchInv
  <2>3. answered = None /\ answered' = None
    BY <1>5 DEF StageInv
  <2>4. StageInv'
    BY <1>2, <1>5, <2>1, <2>3 DEF StageInv
  <2>5. AnswerInv'
    BY <1>1, <2>1, NothingComing
  <2> QED
    BY <1>1, <2>2, <2>4, <2>5
<1> QED
  BY <1>3, <1>4, <1>5, WriteOnce

\* SpiWrite: the first packet, the question whether one may be sent, the check
\* of the line, and the end of it.
LEMMA SpiWriteKeeps ==
  ASSUME TypeInv, OnceInv, PatchInv, StageInv, AnswerInv, SpiWrite
  PROVE  OnceInv' /\ PatchInv' /\ StageInv' /\ AnswerInv'
<1>1. UNCHANGED <<outbox, rx, received>>
  BY DEF SpiWrite, WriteOverrun, SpiFirstWrite, SpiAskToWrite, SpiCheckPin, SpiWriteAnyway,
         SpiWritten, link, chip
<1>2. OnceInv' /\ Coming' = Coming
  BY <1>1, OnceStays
<1>3. pc \in {"write", "check", "second", "sent"}
  BY DEF SpiWrite, WriteOverrun, SpiFirstWrite, SpiAskToWrite, SpiCheckPin, SpiWriteAnyway,
         SpiWritten, MayWrite, At
<1>4. AnswerInv'
  BY <1>2, <1>3, NothingComing
<1>5. CASE WriteOverrun
  <2>1. /\ pc = "write" /\ ~patching /\ pc' = "stuck"
        /\ UNCHANGED <<cmd, patching, serving, taken, answered, awaited, spi, cs, wantsPatch>>
    BY <1>5 DEF WriteOverrun, Goto, At, host, link, wire, chip
  <2>2. PatchInv'
    BY <1>2, <2>1 DEF PatchInv
  <2>3. StageInv'
    BY <2>1 DEF StageInv
  <2> QED
    BY <1>2, <1>4, <2>2, <2>3
<1>6. CASE SpiFirstWrite
  <2>1. /\ pc = "write" /\ pc' = "sent" /\ spi = "INITIALIZED" /\ spi' = "IDLE"
        /\ serving' = cmd /\ taken' = taken + 1
        /\ UNCHANGED <<cmd, patching, answered, awaited, cs, wantsPatch>>
    BY <1>6 DEF SpiFirstWrite, MayWrite, Goto, At, host
  <2>2. ~patching /\ taken = 0 /\ ~cs /\ cmd # None /\ answered = None
    BY <2>1 DEF StageInv, TypeInv, BetweenCalls, NoCall
  <2>3. PatchInv'
    BY <1>2, <2>1, <2>2 DEF PatchInv
  <2>4. taken' = 1
    BY <2>1, <2>2
  <2>5. StageInv'
    BY <2>1, <2>2, <2>4 DEF StageInv
  <2> QED
    BY <1>2, <1>4, <2>3, <2>5
<1>7. CASE SpiAskToWrite
  <2>1. /\ pc = "write" /\ pc' = "check" /\ spi' = "WRITE_IRQ" /\ cs' = TRUE
        /\ UNCHANGED <<cmd, patching, serving, taken, answered, awaited, wantsPatch>>
    BY <1>7 DEF SpiAskToWrite, MayWrite, Goto, At, host, chip, past
  <2>2. PatchInv'
    BY <1>2, <2>1 DEF PatchInv
  <2>3. StageInv'
    BY <2>1 DEF StageInv
  <2> QED
    BY <1>2, <1>4, <2>2, <2>3
<1>8. CASE SpiCheckPin
  <2>1. /\ pc = "check" /\ pc' \in {"second", "sent"}
        /\ UNCHANGED <<cmd, patching, serving, taken, answered, awaited, spi, cs, wantsPatch>>
    BY <1>8 DEF SpiCheckPin, Goto, host, link, wire, chip, past
  <2>2. PatchInv'
    BY <1>2, <2>1 DEF PatchInv
  <2>3. StageInv'
    BY <2>1 DEF StageInv
  <2> QED
    BY <1>2, <1>4, <2>2, <2>3
<1>9. CASE SpiWriteAnyway
  <2>1. /\ pc = "second" /\ pc' = "sent" /\ Write /\ spi' = "IDLE"
        /\ UNCHANGED <<outbox, rx, received, cmd, patching, awaited, answered>>
    BY <1>9 DEF SpiWriteAnyway, Goto, At, host
  <2> QED
    BY <2>1, WriteKeeps
<1>10. CASE SpiWritten
  <2>1. /\ pc = "sent" /\ spi = "IDLE" /\ pc' = (IF patching THEN "loop" ELSE "arm")
        /\ patching' = FALSE
        /\ UNCHANGED <<cmd, serving, taken, answered, awaited, spi, cs, wantsPatch>>
    BY <1>10 DEF SpiWritten, At, host, link, wire, chip, past
  <2>2. PatchInv'
    BY <1>2, <2>1 DEF PatchInv
  <2>3. cs' = FALSE
    BY <2>1 DEF StageInv, TypeInv, CcTypeOK, Flags
  <2>4. StageInv'
    BY <2>1, <2>3 DEF StageInv
  <2> QED
    BY <1>2, <1>4, <2>2, <2>4
<1> QED
  BY <1>5, <1>6, <1>7, <1>8, <1>9, <1>10 DEF SpiWrite

\* The wait is armed, the line is looked at, and what is no packet or a request
\* of a patch is taken from the buffer.
LEMMA WaitKeeps ==
  ASSUME TypeInv, OnceInv, PatchInv, StageInv, AnswerInv,
         \/ SimpleLinkWaitEvent \/ SimpleLinkWaitData \/ PollSeesLow
         \/ HandleJunk \/ HandlePatchRequest
  PROVE  OnceInv' /\ PatchInv' /\ StageInv' /\ AnswerInv'
<1>1. UNCHANGED <<outbox, rx, received, cmd, serving, taken, answered, spi, cs, wantsPatch>>
  BY DEF SimpleLinkWaitEvent, SimpleLinkWaitData, PollSeesLow, HandleJunk, HandlePatchRequest,
         Goto, link, wire, chip, past
<1>2. OnceInv' /\ Coming' = Coming
  BY <1>1, OnceStays
<1>3. CASE SimpleLinkWaitEvent
  <2>1. /\ pc = "arm" /\ pc' = "loop" /\ awaited' = cmd.call.event /\ UNCHANGED patching
    BY <1>3 DEF SimpleLinkWaitEvent, Goto, At
  <2>2. AnswerInv'
    BY <1>2, <2>1, NothingComing
  <2>3. PatchInv'
    BY <1>1, <1>2, <2>1 DEF PatchInv
  <2>4. cmd \in Commands
    BY <2>1 DEF TypeInv, BetweenCalls, NoCall, CcTypeOK, Values
  <2>5. cmd.call.event # PATCHES_REQ
    BY <2>4, CallsAssumption, OwnCalls, Opcodes DEF Commands
  <2>6. StageInv'
    BY <1>1, <2>1, <2>5 DEF StageInv
  <2> QED
    BY <1>2, <2>2, <2>3, <2>6
<1>4. CASE SimpleLinkWaitData \/ PollSeesLow
  <2>1. /\ \/ pc = "armData" /\ pc' = "loop"
           \/ pc = "loop" /\ pc' = "poll"
        /\ UNCHANGED <<patching, awaited>>
    BY <1>4 DEF SimpleLinkWaitData, PollSeesLow, Goto, At, host
  <2>2. AnswerInv'
    BY <1>1, <1>2, <2>1 DEF AnswerInv
  <2>3. PatchInv'
    BY <1>1, <1>2, <2>1 DEF PatchInv
  <2>4. StageInv'
    BY <1>1, <2>1 DEF StageInv
  <2> QED
    BY <1>2, <2>2, <2>3, <2>4
<1>5. CASE HandleJunk
  <2>1. pc = "loop" /\ pc' = "corrupted" /\ UNCHANGED <<patching, awaited>>
    BY <1>5 DEF HandleJunk, Goto, At, host
  <2>2. AnswerInv'
    BY <1>1, <1>2, <2>1 DEF AnswerInv
  <2>3. PatchInv'
    BY <1>1, <1>2, <2>1 DEF PatchInv
  <2>4. StageInv'
    BY <1>1, <2>1 DEF StageInv
  <2> QED
    BY <1>2, <2>2, <2>3, <2>4
<1>6. CASE HandlePatchRequest
  <2>1. /\ pc = "patch" /\ awaited' = awaited
        /\ \/ pc' = "write" /\ patching' = TRUE
           \/ pc' = "loop" /\ patching' = patching
    BY <1>6 DEF HandlePatchRequest, At, host
  <2>2. AnswerInv'
    BY <1>2, <2>1, NothingComing
  <2>3. patching = FALSE /\ ~cs /\ wantsPatch /\ spi \notin {"POWERUP", "INITIALIZED"}
    BY <2>1 DEF PatchInv, StageInv, TypeInv, CcTypeOK, Flags
  <2>4. PatchInv'
    BY <1>1, <1>2, <2>1, <2>3 DEF PatchInv
  <2>5. StageInv'
    BY <1>1, <2>1, <2>3 DEF StageInv
  <2> QED
    BY <1>2, <2>2, <2>4, <2>5
<1> QED
  BY <1>3, <1>4, <1>5, <1>6

\* What the main program may take out of the buffer: the answer it waits for,
\* its data, or a request of a patch.
LEMMA WhatIsHandled ==
  ASSUME TypeInv, OnceInv, PatchInv, StageInv, AnswerInv, HandleEvent \/ HandleData
  PROVE  /\ rx \in Coming /\ Sound(rx)
         /\ \/ HandleData /\ rx.op = DATA /\ rx.tag # None
            \/ HandleEvent /\ rx.op # DATA /\ rx.tag # None /\ rx.op = awaited
            \/ HandleEvent /\ rx.op = PATCHES_REQ /\ rx.tag = None /\ rx.op # awaited
<1>1. received /\ rx.op # JUNK
  <2>1. DATA # JUNK
    BY Opcodes
  <2> QED
    BY <2>1 DEF HandleEvent, HandleData
<1>2. Sound(rx)
  BY <1>1 DEF TypeInv, Nothing
<1>3. rx \in Coming
  BY <1>1 DEF Coming
<1>4. rx.tag = None => rx.op = PATCHES_REQ
  BY <1>1 DEF OnceInv
<1>5. CASE HandleData
  <2>1. DATA # PATCHES_REQ
    BY Opcodes
  <2> QED
    BY <1>2, <1>3, <1>4, <1>5, <2>1 DEF HandleData
<1>6. CASE HandleEvent
  <2>1. rx.op # DATA
    BY <1>6 DEF HandleEvent
  <2>2. rx.tag # None => rx.op = awaited
    BY <1>3, <2>1 DEF AnswerInv
  <2>3. rx.tag = None => rx.op # awaited
    BY <1>4 DEF StageInv
  <2> QED
    BY <1>2, <1>3, <1>4, <1>6, <2>1, <2>2, <2>3
<1> QED
  BY <1>5, <1>6

\* What is still to come when the packet in the buffer has been handled.
LEMMA HandledIsGone ==
  ASSUME OnceInv, received, received' = FALSE, UNCHANGED outbox
  PROVE  /\ OnceInv'
         /\ Coming' \subseteq Coming
         /\ \A p \in Coming' : ~Alike(rx, p)
<1>1. Coming' = ToSet(outbox) /\ Coming' \subseteq Coming
  BY DEF Coming
<1>2. OnceInv'
  BY DEF OnceInv
<1> QED
  BY <1>1, <1>2 DEF OnceInv

\* The packets the program handles bring the call one step further.
LEMMA HandlerKeeps ==
  ASSUME TypeInv, OnceInv, PatchInv, StageInv, AnswerInv, HandleEvent \/ HandleData
  PROVE  OnceInv' /\ PatchInv' /\ StageInv' /\ AnswerInv'
<1>1. /\ received /\ received' = FALSE
      /\ UNCHANGED <<outbox, cmd, serving, taken, spi, cs, wantsPatch, patching>>
      /\ pc = "loop"
  BY DEF HandleEvent, HandleData, Goto, At, SpiResumeSpi, wire, chip
<1>2. OnceInv' /\ Coming' \subseteq Coming /\ \A p \in Coming' : ~Alike(rx, p)
  BY <1>1, HandledIsGone
<1>3. rx \in Coming /\ Sound(rx)
  BY WhatIsHandled
<1>4. patching = FALSE /\ cs = FALSE /\ spi \notin {"POWERUP", "INITIALIZED"}
  BY <1>1 DEF PatchInv, StageInv, TypeInv, CcTypeOK, Flags
<1>5. cmd \in Commands /\ cmd.call.event \notin {0, PATCHES_REQ}
  <2>1. cmd \in Commands
    BY <1>1 DEF TypeInv, BetweenCalls, NoCall, CcTypeOK, Values
  <2> QED
    BY <2>1, CallsAssumption, OwnCalls, Opcodes DEF Commands
<1>6. CASE HandleEvent /\ rx.op = PATCHES_REQ /\ rx.tag = None /\ rx.op # awaited
  <2>1. pc' = "patch" /\ awaited' = awaited /\ answered' = answered
    BY <1>6 DEF HandleEvent
  <2>2. wantsPatch /\ serving # None
    BY <1>3, <1>6 DEF PatchInv
  <2>3. \A p \in Coming' : p.op # PATCHES_REQ
    BY <1>2, <1>6 DEF Alike, Once
  <2>4. PatchInv'
    BY <1>1, <1>2, <1>4, <2>1, <2>2, <2>3 DEF PatchInv
  <2>5. StageInv'
    BY <1>1, <1>4, <2>1 DEF StageInv
  <2>6. \A p \in Coming' : p.tag = None
    BY <1>2, <2>2 DEF AnswerInv
  <2>7. AnswerInv'
    BY <2>6 DEF AnswerInv
  <2> QED
    BY <1>2, <2>4, <2>5, <2>7
<1>7. ASSUME rx.tag # None
      PROVE  /\ rx.tag = cmd.tag /\ taken = 1 /\ serving = None /\ wantsPatch = FALSE
             /\ rx.op \in {cmd.call.event, DATA}
             /\ \A p \in Coming' : p.op # PATCHES_REQ
             /\ \A p \in Coming' : p.tag # None => p.op # rx.op /\ p.op \in {cmd.call.event, DATA}
  <2>1. /\ rx.tag = cmd.tag /\ taken = 1 /\ serving = None
        /\ rx.op \in {cmd.call.event, DATA}
    BY <1>3, <1>7 DEF AnswerInv
  <2>2. wantsPatch = FALSE
    BY <2>1 DEF PatchInv, TypeInv, CcTypeOK, Flags
  <2>3. \A p \in Coming' : p.op # PATCHES_REQ
    BY <1>2, <2>2 DEF PatchInv
  <2>4. \A p \in Coming' : p.tag # None => p.op # rx.op
    BY <1>2, <1>7 DEF Alike, Once
  <2>5. \A p \in Coming' : p.tag # None => p.op \in {cmd.call.event, DATA}
    BY <1>2 DEF AnswerInv
  <2> QED
    BY <2>1, <2>2, <2>3, <2>4, <2>5
<1>8. CASE HandleData /\ rx.op = DATA /\ rx.tag # None
  <2>1. /\ awaited' = awaited /\ answered' = rx.tag
        /\ pc' = IF awaited # 0 THEN "loop" ELSE "done"
    BY <1>8 DEF HandleData, Onward, Goto
  <2>2. PatchInv'
    BY <1>1, <1>4, <1>7, <1>8, <2>1 DEF PatchInv
  <2>3. answered' = cmd.tag /\ answered' # None
    BY <1>7, <1>8, <2>1
  <2>4. StageInv'
    BY <1>1, <1>4, <1>5, <1>7, <1>8, <2>1, <2>3, NoneAssumption DEF StageInv
  <2>5. AnswerInv'
    <3>1. \A p \in Coming' : p.tag # None => p.op # DATA
      BY <1>7, <1>8
    <3>2. \A p \in Coming' : p.tag # None => awaited # 0
      BY <1>2, <1>5, <1>7, <3>1 DEF AnswerInv
    <3> QED
      BY <1>1, <1>2, <2>1, <3>1, <3>2 DEF AnswerInv
  <2> QED
    BY <1>2, <2>2, <2>4, <2>5
<1>9. CASE HandleEvent /\ rx.op # DATA /\ rx.tag # None /\ rx.op = awaited
  <2>1. rx.op = cmd.call.event /\ rx.op # PATCHES_REQ
    BY <1>5, <1>7, <1>9
  <2>2. /\ awaited' = 0 /\ answered' = rx.tag
        /\ pc' = IF dataPending THEN "loop"
                 ELSE IF cmd.call.data /\ (rx.status > 0 \/ rx.op = NVMEM_READ)
                      THEN "armData" ELSE "done"
    BY <1>9, <2>1 DEF HandleEvent, Onward
  <2>3. PatchInv'
    BY <1>1, <1>4, <1>7, <1>9, <2>2 DEF PatchInv
  <2>4. answered' = cmd.tag /\ answered' # None
    BY <1>7, <1>9, <2>2
  <2>5. StageInv'
    <3>1. awaited' # PATCHES_REQ
      BY <2>2, Opcodes
    <3>2. pc' \in {"loop", "armData", "done"}
      BY <2>2
    <3> QED
      BY <1>1, <1>4, <1>5, <1>7, <1>9, <2>4, <3>1, <3>2, NoneAssumption DEF StageInv
  <2>6. \A p \in Coming' : p.tag # None => p.op = DATA
    BY <1>7, <1>9, <2>1
  <2>7. \A p \in Coming' : p.tag # None =>
           cmd.call.data /\ (rx.status > 0 \/ rx.op = NVMEM_READ)
    BY <1>2, <1>3, <1>9, <2>6 DEF AnswerInv
  <2>8. AnswerInv'
    BY <1>1, <1>2, <2>2, <2>6, <2>7 DEF AnswerInv
  <2> QED
    BY <1>2, <2>3, <2>5, <2>8
<1> QED
  BY <1>6, <1>8, <1>9, WhatIsHandled

\* The routine: it is started, it reads a packet, or it writes one.
LEMMA RoutineKeepsCall ==
  ASSUME TypeInv, OnceInv, PatchInv, StageInv, AnswerInv, SPI_IRQ,
         UNCHANGED <<cmd, patching>>, pc' = pc \/ (pc = "poll" /\ pc' = "loop")
  PROVE  OnceInv' /\ PatchInv' /\ StageInv' /\ AnswerInv'
<1>1. CASE spi = "POWERUP" \/ spi = "INITIALIZED"
  <2>1. /\ UNCHANGED <<outbox, rx, received, serving, taken, answered, awaited, cs, wantsPatch>>
        /\ spi' \in {"POWERUP", "INITIALIZED"}
    BY <1>1 DEF SPI_IRQ, link, host, chip, past
  <2>2. OnceInv' /\ Coming' = Coming
    BY <2>1, OnceStays
  <2>3. pc \in {"off", "boot", "write", "stuck"} /\ pc' = pc
    BY <1>1 DEF StageInv
  <2>4. AnswerInv'
    BY <2>2, <2>3, NothingComing
  <2>5. PatchInv'
    BY <2>1, <2>2, <2>3 DEF PatchInv
  <2>6. StageInv'
    BY <1>1, <2>1, <2>3 DEF StageInv
  <2> QED
    BY <2>2, <2>4, <2>5, <2>6
<1>2. CASE spi = "WRITE_IRQ"
  <2>1. /\ Write /\ spi' = "IDLE"
        /\ UNCHANGED <<outbox, rx, received, awaited, answered>>
    BY <1>2 DEF SPI_IRQ, host
  <2>2. CASE pc \in {"check", "second", "sent"} \/ ~cs
    <3>1. CASE pc' = pc
      BY <2>1, <2>2, <3>1, WriteKeeps
    <3>2. CASE pc = "poll" /\ pc' = "loop"
      <4>1. ~cs
        BY <3>2 DEF StageInv
      <4>2. cs' = FALSE /\ UNCHANGED <<serving, wantsPatch, taken>>
        BY <2>1, <4>1 DEF Write
      <4>3. OnceInv' /\ Coming' = Coming
        BY <2>1, OnceStays
      <4>4. PatchInv'
        BY <3>2, <4>2, <4>3 DEF PatchInv
      <4>5. StageInv'
        BY <2>1, <3>2, <4>2 DEF StageInv
      <4>6. AnswerInv'
        BY <2>1, <3>2, <4>2, <4>3 DEF AnswerInv
      <4> QED
        BY <4>3, <4>4, <4>5, <4>6
    <3> QED
      BY <3>1, <3>2
  <2> QED
    BY <2>2 DEF StageInv
<1>3. CASE spi = "IDLE"
  <2>1. /\ rx' = IF low /\ outbox # <<>> THEN Head(outbox) ELSE Nothing
        /\ outbox' = IF low /\ outbox # <<>> THEN Tail(outbox) ELSE outbox
        /\ cs' = FALSE
        /\ Handle(rx')
        /\ UNCHANGED <<spi, awaited, serving, wantsPatch, taken, answered>>
    BY <1>3 DEF SPI_IRQ
  <2>2. outbox \in Seq(Packets)
    BY DEF TypeInv, CcTypeOK, Values
  <2>3. /\ ToSet(outbox') \subseteq ToSet(outbox) /\ NoTwice(outbox')
        /\ rx' = Nothing \/ (rx' \in ToSet(outbox) /\ Sound(rx'))
        /\ rx' = Nothing \/ \A q \in ToSet(outbox') : ~Alike(rx', q)
    BY <2>1, <2>2, TakingFirst DEF OnceInv, TypeInv
  <2>4. \A q \in ToSet(outbox') : ~Alike(Nothing, q)
    BY Opcodes DEF Alike, Once, Nothing
  <2>5. received' /\ rx'.tag = None => rx'.op \in {JUNK, PATCHES_REQ}
    <3>1. CASE rx' = Nothing
      BY <3>1 DEF Nothing
    <3>2. CASE Sound(rx')
      <4>1. ASSUME rx'.tag = None, rx'.op # PATCHES_REQ
            PROVE  received' = FALSE
        <5>1. Unsolicited(rx'.op, rx'.status, awaited) /\ rx'.op # DATA /\ rx'.op # JUNK
          BY <3>2, <4>1, UnaskedAreHandled
        <5> QED
          BY <2>1, <5>1 DEF Handle, SpiResumeSpi
      <4> QED
        BY <4>1
    <3> QED
      BY <2>3, <3>1, <3>2
  <2>6. OnceInv'
    BY <2>3, <2>4, <2>5 DEF OnceInv
  <2>7. Coming' \subseteq Coming \cup {Nothing}
    BY <2>3 DEF Coming
  <2>8. Nothing.tag = None /\ Nothing.op # PATCHES_REQ
    BY Opcodes DEF Nothing
  <2>9. PatchInv'
    BY <2>1, <2>7, <2>8 DEF PatchInv
  <2>10. StageInv'
    BY <1>3, <2>1 DEF StageInv
  <2>11. AnswerInv'
    <3>1. \A p \in Coming' : p.tag # None => p \in Coming
      BY <2>7, <2>8
    <3>2. \A p \in Coming' : p.tag # None =>
            /\ cmd' # None /\ p.tag = cmd'.tag /\ taken' = 1 /\ serving' = None
            /\ pc' \in {"loop", "poll", "armData", "corrupted"}
            /\ p.op \in {cmd'.call.event, DATA}
            /\ p.op # DATA => awaited' = p.op
      BY <2>1, <3>1 DEF AnswerInv
    <3>3. \A p, q \in Coming' : p.tag # None /\ q.tag # None /\ p.op = DATA /\ q.op # DATA
            => cmd'.call.data /\ (q.status > 0 \/ q.op = NVMEM_READ)
      BY <3>1 DEF AnswerInv
    <3> QED
      BY <3>2, <3>3 DEF AnswerInv
  <2> QED
    BY <2>6, <2>9, <2>10, <2>11
<1> QED
  BY <1>1, <1>2, <1>3 DEF TypeInv, CcTypeOK, Values

\* cc3k_int_poll calls the routine or does nothing.
LEMMA PollKeepsCall ==
  ASSUME TypeInv, OnceInv, PatchInv, StageInv, AnswerInv, cc3k_int_poll
  PROVE  OnceInv' /\ PatchInv' /\ StageInv' /\ AnswerInv'
<1>1. pc = "poll" /\ pc' = "loop" /\ UNCHANGED <<cmd, patching>>
  BY DEF cc3k_int_poll, Goto, At
<1>2. CASE enabled
  BY <1>1, <1>2, RoutineKeepsCall DEF cc3k_int_poll
<1>3. CASE ~enabled
  <2>1. UNCHANGED <<outbox, rx, received, serving, taken, answered, awaited, spi, cs, wantsPatch>>
    BY <1>3 DEF cc3k_int_poll, host, link, wire, chip, past
  <2>2. OnceInv' /\ Coming' = Coming
    BY <2>1, OnceStays
  <2>3. PatchInv'
    BY <1>1, <2>1, <2>2 DEF PatchInv
  <2>4. StageInv'
    BY <1>1, <2>1 DEF StageInv
  <2>5. AnswerInv'
    BY <1>1, <2>1, <2>2 DEF AnswerInv
  <2> QED
    BY <2>2, <2>3, <2>4, <2>5
<1> QED
  BY <1>2, <1>3

\* The chip is switched on and off between two calls.
LEMMA PowerKeeps ==
  ASSUME TypeInv, OnceInv, PatchInv, StageInv, AnswerInv, wlan_start \/ wlan_stop
  PROVE  OnceInv' /\ PatchInv' /\ StageInv' /\ AnswerInv'
<1>1. pc \in {"off", "ready"} /\ pc' \in {"boot", "off", "ready"} /\ UNCHANGED <<cmd, patching>>
  BY DEF wlan_start, wlan_stop, Goto, At
<1>2. serving = None /\ serving' = None /\ patching = FALSE /\ cs' = FALSE /\ taken' = 0
      /\ answered' = None /\ awaited' # PATCHES_REQ
  <2>1. cmd = None
    BY <1>1 DEF TypeInv, BetweenCalls, NoCall
  <2>2. serving = None /\ patching = FALSE /\ cs = FALSE /\ taken = 0 /\ answered = None
    BY <1>1, <2>1 DEF StageInv, PatchInv, TypeInv, CcTypeOK, Flags
  <2>3. serving' = None /\ cs' = FALSE /\ taken' = 0 /\ answered' = None
    BY <2>2 DEF wlan_start, wlan_stop, chip, past
  <2>4. awaited' = 0 \/ awaited' = awaited
    BY DEF wlan_start, wlan_stop, host
  <2> QED
    BY <2>2, <2>3, <2>4, Opcodes DEF StageInv
<1>3. wantsPatch = FALSE /\ wantsPatch' = FALSE
  <2>1. wantsPatch = FALSE
    BY <1>2 DEF PatchInv, TypeInv, CcTypeOK, Flags
  <2> QED
    BY <2>1 DEF wlan_start, wlan_stop, chip
<1>4. Coming' \subseteq Coming /\ OnceInv'
  <2>1. CASE wlan_start
    <3>1. received' = FALSE /\ outbox' = outbox
      BY <2>1 DEF wlan_start, chip
    <3> QED
      BY <3>1 DEF Coming, OnceInv
  <2>2. CASE wlan_stop
    <3>1. received' = received /\ outbox' = <<>> /\ rx' = rx
      BY <2>2 DEF wlan_stop
    <3>2. ToSet(<<>>) = {} /\ NoTwice(<<>>)
      BY DEF ToSet, NoTwice
    <3> QED
      BY <3>1, <3>2 DEF Coming, OnceInv
  <2> QED
    BY <2>1, <2>2
<1>5. AnswerInv'
  BY <1>1, <1>4, NothingComing
<1>6. PatchInv'
  BY <1>1, <1>2, <1>3, <1>4 DEF PatchInv
<1>7. spi' \in {"POWERUP", "INITIALIZED"} => pc' \in {"off", "boot"}
  BY DEF wlan_start, wlan_stop, Goto, At, StageInv
<1>8. StageInv'
  BY <1>1, <1>2, <1>7 DEF StageInv
<1> QED
  BY <1>4, <1>5, <1>6, <1>8

\* A packet that no call asked for is put behind the others.
LEMMA UnaskedKeeps ==
  ASSUME TypeInv, OnceInv, PatchInv, StageInv, AnswerInv,
         NEW p, Sound(p), Queue(<<p>>), p.tag = None,
         UNCHANGED <<pc, cmd, patching, rx, received, awaited, spi, cs, serving, taken, answered>>,
         \/ p.op # PATCHES_REQ /\ wantsPatch' = wantsPatch
         \/ /\ p.op = PATCHES_REQ /\ ~wantsPatch /\ wantsPatch' = TRUE
            /\ serving # None /\ HostIsWaiting
  PROVE  OnceInv' /\ PatchInv' /\ StageInv' /\ AnswerInv'
<1>1. p \in Packets /\ outbox \in Seq(Packets) /\ outbox' = outbox \o <<p>>
  BY DEF Sound, TypeInv, CcTypeOK, Values, Queue
<1>2. \A q \in Coming : ~Alike(p, q) /\ ~Alike(q, p)
  BY DEF Alike, Once, PatchInv
<1>3. ToSet(outbox') = ToSet(outbox) \cup {p} /\ NoTwice(outbox')
  <2>1. <<p>> \in Seq(Packets) /\ ToSet(<<p>>) = {p} /\ NoTwice(<<p>>)
    BY <1>1, ShortRows
  <2>2. \A x \in ToSet(outbox), y \in ToSet(<<p>>) : ~Alike(x, y) /\ ~Alike(y, x)
    BY <1>2, <2>1 DEF Coming
  <2> QED
    <3>1. NoTwice(outbox)
      BY DEF OnceInv
    <3>2. /\ ToSet(outbox \o <<p>>) = ToSet(outbox) \cup ToSet(<<p>>)
          /\ NoTwice(outbox \o <<p>>)
      BY <1>1, <2>1, <2>2, <3>1, QueueingUp
    <3> QED
      BY <1>1, <2>1, <3>2
<1>4. Coming' = Coming \cup {p}
  BY <1>3 DEF Coming
<1>5. OnceInv'
  <2>1. received => ~Alike(rx, p)
    BY <1>2 DEF Coming
  <2> QED
    BY <1>3, <2>1 DEF OnceInv
<1>6. AnswerInv'
  <2>1. \A q \in Coming' : q.tag # None => q \in Coming
    BY <1>4
  <2> QED
    BY <2>1 DEF AnswerInv
<1>7. StageInv'
  BY DEF StageInv
<1>8. CASE p.op # PATCHES_REQ /\ wantsPatch' = wantsPatch
  <2>1. PatchInv'
    BY <1>4, <1>8 DEF PatchInv
  <2> QED
    BY <1>5, <1>6, <1>7, <2>1
<1>9. CASE /\ p.op = PATCHES_REQ /\ ~wantsPatch /\ wantsPatch' = TRUE
           /\ serving # None /\ HostIsWaiting
  <2>1. pc # "patch" /\ ~patching
    BY <1>9 DEF PatchInv, HostIsWaiting
  <2>2. PatchInv'
    BY <1>4, <1>9, <2>1 DEF PatchInv
  <2> QED
    BY <1>5, <1>6, <1>7, <2>2
<1> QED
  BY <1>8, <1>9

\* What the chip knows when it answers: the program waits, and nothing of the
\* call is on its way yet.
LEMMA AnswerIsAwaited ==
  ASSUME TypeInv, PatchInv, StageInv, AnswerInv, ChipAnswers
  PROVE  /\ serving = cmd /\ cmd # None /\ taken = 1 /\ answered = None
         /\ pc \in {"loop", "poll", "corrupted"} /\ awaited = cmd.call.event
         /\ \A p \in Coming : ~Once(p)
<1>1. /\ serving # None /\ ~wantsPatch /\ pc \notin {"check", "second", "sent", "arm"}
  BY DEF ChipAnswers, HostIsWaiting
<1>2. serving = cmd /\ cmd # None /\ taken = 1 /\ answered = None
  BY <1>1 DEF StageInv
<1>3. ~patching /\ pc # "patch"
  BY <1>1 DEF PatchInv
<1>4. pc \notin {"credit", "buffer", "spend", "write", "stuck", "armData", "done"} \cup NoCall
  BY <1>2, <1>3 DEF StageInv, TypeInv, BetweenCalls
<1>5. pc \in {"loop", "poll", "corrupted"}
  BY <1>1, <1>3, <1>4 DEF TypeInv, CcTypeOK, Values, NoCall
<1>6. awaited = cmd.call.event
  BY <1>1, <1>2 DEF StageInv
<1>7. \A p \in Coming : ~Once(p)
  BY <1>1 DEF Once, AnswerInv, PatchInv
<1> QED
  BY <1>2, <1>5, <1>6, <1>7

\* The chip answers.
LEMMA AnswerKeeps ==
  ASSUME TypeInv, OnceInv, PatchInv, StageInv, AnswerInv, ChipAnswers
  PROVE  OnceInv' /\ PatchInv' /\ StageInv' /\ AnswerInv'
<1>1. /\ serving = cmd /\ cmd # None /\ taken = 1 /\ answered = None
      /\ pc \in {"loop", "poll", "corrupted"} /\ awaited = cmd.call.event
      /\ \A q \in Coming : ~Once(q)
  BY AnswerIsAwaited
<1>2. /\ UNCHANGED <<pc, cmd, patching, rx, received, awaited, spi, cs, wantsPatch, taken, answered>>
      /\ serving' = None /\ ~wantsPatch
  BY DEF ChipAnswers, main, host, link, wire, past
<1>3. cmd \in Commands /\ cmd.tag # None /\ cmd.call.event \notin {DATA, PATCHES_REQ}
  <2>1. cmd \in Commands
    BY <1>1 DEF TypeInv, CcTypeOK, Values
  <2> QED
    BY <2>1, CallsAssumption, NoneAssumption, OwnCalls, Opcodes DEF Commands
<1>4. PICK p \in Answers(cmd) \cup Failures(cmd) :
        /\ p \in Failures(cmd) => cmd.call.event \in SEND_EVENTS \cup RECV_EVENTS
        /\ \/ Queue(<<p>>)
           \/ /\ Queue(<<p, Bytes(cmd)>>)
              /\ cmd.call.data /\ (p.status > 0 \/ p.op = NVMEM_READ)
  BY <1>1, AnswerIsQueued
<1>5. Sound(p) /\ Sound(Bytes(cmd))
  BY <1>3, <1>4, AnswersAreSound
<1>6. p \in Packets /\ Bytes(cmd) \in Packets
  BY <1>5 DEF Sound
<1>7. /\ p.op = cmd.call.event /\ p.tag = cmd.tag
      /\ Bytes(cmd).op = DATA /\ Bytes(cmd).tag = cmd.tag
  BY <1>4 DEF Answers, Failures, Bytes, Packet
<1>8. PICK s \in Seq(Packets) :
        /\ Queue(s) /\ NoTwice(s)
        /\ \/ ToSet(s) = {p}
           \/ /\ ToSet(s) = {p, Bytes(cmd)}
              /\ cmd.call.data /\ (p.status > 0 \/ p.op = NVMEM_READ)
  <2>1. ~Alike(p, Bytes(cmd)) /\ ~Alike(Bytes(cmd), p)
    BY <1>3, <1>7 DEF Alike
  <2>2. /\ <<p>> \in Seq(Packets) /\ ToSet(<<p>>) = {p} /\ NoTwice(<<p>>)
        /\ <<p, Bytes(cmd)>> \in Seq(Packets) /\ NoTwice(<<p, Bytes(cmd)>>)
        /\ ToSet(<<p, Bytes(cmd)>>) = {p, Bytes(cmd)}
    BY <1>6, <2>1, ShortRows
  <2> QED
    BY <1>4, <2>2
<1>9. ToSet(outbox') = ToSet(outbox) \cup ToSet(s) /\ NoTwice(outbox')
  <2>1. \A x \in ToSet(outbox), y \in ToSet(s) : ~Alike(x, y) /\ ~Alike(y, x)
    BY <1>1 DEF Alike, Coming
  <2>2. outbox \in Seq(Packets) /\ outbox' = outbox \o s
    BY <1>8 DEF Queue, TypeInv, CcTypeOK, Values
  <2> QED
    BY <1>8, <2>1, <2>2, QueueingUp DEF OnceInv
<1>10. Coming' = Coming \cup ToSet(s) /\ OnceInv'
  <2>1. received => ~Once(rx)
    BY <1>1 DEF Coming
  <2>2. Coming' = Coming \cup ToSet(s)
    BY <1>2, <1>9 DEF Coming
  <2>3. OnceInv'
    BY <1>2, <1>9, <2>1 DEF OnceInv, Alike
  <2> QED
    BY <2>2, <2>3
<1>11. \A q \in Coming' : Once(q) => q \in ToSet(s)
  BY <1>1, <1>10
<1>12. \A q \in ToSet(s) : q.op # PATCHES_REQ
  BY <1>3, <1>7, <1>8, Opcodes
<1>13. PatchInv'
  BY <1>2, <1>10, <1>11, <1>12 DEF PatchInv, Once
<1>14. StageInv'
  BY <1>1, <1>2 DEF StageInv
<1>15. AnswerInv'
  <2>1. \A q \in Coming' : q.tag # None => q \in ToSet(s)
    BY <1>11 DEF Once
  <2>2. \A q \in ToSet(s) : q = p \/ q = Bytes(cmd)
    BY <1>8
  <2>3. \A q \in Coming' : q.tag # None =>
          /\ q.tag = cmd.tag /\ q.op \in {cmd.call.event, DATA}
          /\ q.op # DATA => awaited = q.op
    BY <1>1, <1>7, <2>1, <2>2
  <2>4. \A x, y \in Coming' : x.tag # None /\ y.tag # None /\ x.op = DATA /\ y.op # DATA
          => cmd.call.data /\ (y.status > 0 \/ y.op = NVMEM_READ)
    BY <1>3, <1>7, <1>8, <2>1, <2>2
  <2> QED
    BY <1>1, <1>2, <2>3, <2>4 DEF AnswerInv
<1> QED
  BY <1>10, <1>13, <1>14, <1>15

\* The chip.
LEMMA ChipKeepsCall ==
  ASSUME TypeInv, OnceInv, PatchInv, StageInv, AnswerInv, Chip
  PROVE  OnceInv' /\ PatchInv' /\ StageInv' /\ AnswerInv'
<1>1. CASE ChipPullsLine
  <2>1. UNCHANGED <<pc, cmd, patching, outbox, rx, received, awaited, spi, cs, serving,
                    wantsPatch, taken, answered>>
    BY <1>1 DEF ChipPullsLine, main, host, link, chip, past
  <2>2. OnceInv' /\ Coming' = Coming
    BY <2>1, OnceStays
  <2>3. PatchInv' /\ StageInv' /\ AnswerInv'
    BY <2>1, <2>2 DEF PatchInv, StageInv, AnswerInv
  <2> QED
    BY <2>2, <2>3
<1>2. CASE ChipAnswers
  BY <1>2, AnswerKeeps
<1>3. Sound(Packet(PATCHES_REQ, 0, 0, None)) /\ Sound(Packet(CLOSE_WAIT, 0, 0, None))
  BY Opcodes DEF Sound, Packet, Packets, Ops
<1>4. CASE ChipAsksForPatch
  <2>1. /\ Queue(<<Packet(PATCHES_REQ, 0, 0, None)>>)
        /\ ~wantsPatch /\ wantsPatch' = TRUE /\ serving # None /\ HostIsWaiting
        /\ UNCHANGED <<pc, cmd, patching, rx, received, awaited, spi, cs, serving, taken, answered>>
    BY <1>4 DEF ChipAsksForPatch, main, host, link, wire, past
  <2>2. Packet(PATCHES_REQ, 0, 0, None).op = PATCHES_REQ
        /\ Packet(PATCHES_REQ, 0, 0, None).tag = None
    BY DEF Packet
  <2> QED
    BY <1>3, <2>1, <2>2, UnaskedKeeps
<1>5. CASE ChipFreesBuffer \/ ChipReports
  <2>1. UNCHANGED <<pc, cmd, patching, rx, received, awaited, spi, cs, serving, taken, answered,
                    wantsPatch>>
    BY <1>5 DEF ChipFreesBuffer, ChipReports, main, host, link, wire, past
  <2>2. used \in Nat
    BY DEF TypeInv, CcTypeOK, Values
  <2>3. \A n \in 1..used : LET p == Packet(FREE_BUFF, 0, n, None)
                           IN  Sound(p) /\ p.tag = None /\ p.op # PATCHES_REQ
    BY <2>2, Opcodes DEF Sound, Packet, Packets, Ops
  <2>4. \A sd \in Sds : LET p == Packet(\h1003, sd, -57, None)
                        IN  Sound(p) /\ p.tag = None /\ p.op # PATCHES_REQ
    BY Opcodes DEF Sound, Packet, Packets, Ops
  <2>5. Packet(CLOSE_WAIT, 0, 0, None).tag = None
        /\ Packet(CLOSE_WAIT, 0, 0, None).op # PATCHES_REQ
    BY Opcodes DEF Packet
  <2>6. PICK p : Sound(p) /\ p.tag = None /\ p.op # PATCHES_REQ /\ Queue(<<p>>)
    <3>1. CASE ChipFreesBuffer
      <4>1. PICK n \in 1..used : Queue(<<Packet(FREE_BUFF, 0, n, None)>>)
        BY <3>1 DEF ChipFreesBuffer
      <4> QED
        BY <2>3, <4>1
    <3>2. CASE ChipReports
      <4>1. \/ Queue(<<Packet(CLOSE_WAIT, 0, 0, None)>>)
            \/ \E sd \in Sds : Queue(<<Packet(\h1003, sd, -57, None)>>)
        BY <3>2 DEF ChipReports
      <4> QED
        BY <1>3, <2>4, <2>5, <4>1
    <3> QED
      BY <1>5, <3>1, <3>2
  <2> QED
    BY <2>1, <2>6, UnaskedKeeps
<1> QED
  BY <1>1, <1>2, <1>4, <1>5 DEF Chip

\* Every step keeps the invariant.
LEMMA DriverStep == DriverInv /\ [Next]_vars => DriverInv'
<1> SUFFICES ASSUME DriverInv, [Next]_vars
             PROVE  DriverInv'
  OBVIOUS
<1> USE DEF DriverInv
<1>1. TypeInv'
  BY TypesKept
<1>2. CASE Main
  BY <1>1, <1>2, CallKeeps, FlowKeeps, SpiWriteKeeps, WaitKeeps, HandlerKeeps, PollKeepsCall,
     PowerKeeps DEF Main, hci_event_handler
<1>3. CASE Isr
  <2>1. SPI_IRQ /\ UNCHANGED <<cmd, patching>> /\ pc' = pc
    BY <1>3 DEF Isr, main
  <2> QED
    BY <1>1, <2>1, RoutineKeepsCall
<1>4. CASE Chip
  BY <1>1, <1>4, ChipKeepsCall
<1>5. CASE UNCHANGED vars
  <2>1. UNCHANGED <<pc, cmd, patching, outbox, rx, received, awaited, spi, cs, serving,
                    wantsPatch, taken, answered>>
    BY <1>5 DEF vars, main, host, link, wire, chip, past
  <2>2. OnceInv' /\ Coming' = Coming
    BY <2>1, OnceStays
  <2>3. PatchInv' /\ StageInv' /\ AnswerInv'
    BY <2>1, <2>2 DEF PatchInv, StageInv, AnswerInv
  <2> QED
    BY <1>1, <2>2, <2>3
<1> QED
  BY <1>2, <1>3, <1>4, <1>5 DEF Next

\* It holds at the start.
LEMMA DriverStart == Init => DriverInv
<1> SUFFICES ASSUME Init
             PROVE  DriverInv
  OBVIOUS
<1>1. ToSet(<<>>) = {} /\ NoTwice(<<>>)
  BY DEF ToSet, NoTwice
<1>2. Coming = {} /\ OnceInv
  BY <1>1 DEF Init, Coming, OnceInv
<1>3. PatchInv /\ AnswerInv
  BY <1>2 DEF Init, PatchInv, AnswerInv
<1>4. StageInv
  BY Opcodes DEF Init, StageInv
<1> QED
  BY <1>2, <1>3, <1>4, TypesAtStart DEF DriverInv

-----------------------------------------------------------------------------
(* The driver implements RemoteCall.                                       *)

\* A call that starts.
LEMMA AskIsAsk ==
  ASSUME DriverInv, Issue \/ LineIsLow \/ ReadBufferSize
  PROVE  Promise!Ask
<1>1. cmd = None
  BY DEF Issue, LineIsLow, ReadBufferSize, At, DriverInv, TypeInv, BetweenCalls, NoCall
<1>2. /\ taken' = 0 /\ answered' = None /\ cmd'.tag = count
      /\ pc' \in {"corrupted", "credit", "write"}
  BY DEF Issue, LineIsLow, ReadBufferSize, Ask
<1>3. count \in CallTags
  BY DEF DriverInv, TypeInv, CcTypeOK, Values
<1>4. cmd' # None
  <2>1. TypeInv'
    BY CallTypes DEF DriverInv
  <2> QED
    BY <1>2, <2>1 DEF TypeInv, BetweenCalls, NoCall
<1> QED
  BY <1>1, <1>2, <1>3, <1>4 DEF Promise!Ask

\* What leaves the call, its count and its answer alone is a stutter.
LEMMA QuietIsStutter ==
  ASSUME UNCHANGED <<cmd, taken, answered>>
  PROVE  UNCHANGED Promise!callVars
BY DEF Promise!callVars

\* A packet that goes out is the call carried out, or the answer to a request
\* of the chip's.
LEMMA WriteIsServe ==
  ASSUME DriverInv, Write, UNCHANGED <<cmd, patching, answered>>,
         pc \in {"check", "second", "sent"} \/ ~cs
  PROVE  Promise!Serve \/ UNCHANGED Promise!callVars
<1>1. \/ UNCHANGED taken
      \/ cmd # None /\ taken = 0 /\ taken' = 1
  BY WriteOnce DEF DriverInv
<1>2. CASE UNCHANGED taken
  BY <1>2, QuietIsStutter
<1>3. CASE cmd # None /\ taken = 0 /\ taken' = 1
  <2>1. cmd \in Commands
    BY <1>3 DEF DriverInv, TypeInv, CcTypeOK, Values
  <2>2. cmd.tag # None
    BY <2>1, NoneAssumption DEF Commands
  <2> QED
    BY <1>3, <2>2 DEF Promise!Serve
<1> QED
  BY <1>1, <1>2, <1>3

\* A packet that the program handles is the call's answer, or nothing new.
LEMMA HandlerIsAnswer ==
  ASSUME DriverInv, HandleEvent \/ HandleData
  PROVE  Promise!Answer \/ UNCHANGED Promise!callVars
<1>1. UNCHANGED <<cmd, taken>> /\ answered' \in {answered, rx.tag}
  BY DEF HandleEvent, HandleData, Goto
<1>2. rx \in Coming /\ (rx.tag # None \/ (HandleEvent /\ rx.op # awaited))
  BY WhatIsHandled DEF DriverInv
<1>3. CASE answered' = answered
  BY <1>1, <1>3, QuietIsStutter
<1>4. CASE answered' # answered
  <2>1. answered' = rx.tag
    BY <1>1, <1>4
  <2>2. rx.tag # None
    BY <1>2, <1>4 DEF HandleEvent
  <2>3. cmd # None /\ rx.tag = cmd.tag /\ taken = 1
    BY <1>2, <2>2 DEF DriverInv, AnswerInv
  <2>4. answered = None
    BY <1>4, <2>1, <2>3 DEF DriverInv, StageInv
  <2> QED
    BY <1>1, <2>1, <2>3, <2>4 DEF Promise!Answer
<1> QED
  BY <1>3, <1>4

\* A call that comes back has its own answer, or has never reached the chip.
LEMMA BackIsReturn ==
  ASSUME DriverInv, Finish \/ FlowControl
  PROVE  Promise!Return \/ UNCHANGED Promise!callVars
<1>1. CASE UNCHANGED <<cmd, taken, answered>>
  BY <1>1, QuietIsStutter
<1>2. ASSUME cmd \in Commands, cmd' = None, taken' = 0, answered' = None,
             taken = 0 \/ answered = cmd.tag
      PROVE  Promise!Return
  <2>1. cmd # None /\ cmd.tag # None
    BY <1>2, NoneAssumption DEF Commands
  <2> QED
    BY <1>2, <2>1 DEF Promise!Return
<1>3. pc \in {"credit", "buffer", "spend", "done"}
  BY DEF Finish, FlowControl, RefusedForError, RefusedForInactive, RefusedForTime, NoErrors,
         NoBuffer, ReadCredit, SpendCredit, At
<1>4. cmd \in Commands
  BY <1>3 DEF DriverInv, TypeInv, BetweenCalls, NoCall, CcTypeOK, Values
<1>5. CASE Finish
  <2>1. answered = cmd.tag
    BY <1>5 DEF Finish, At, DriverInv, StageInv
  <2> QED
    BY <1>2, <1>4, <1>5, <2>1 DEF Finish
<1>6. CASE FlowControl
  <2>1. pc # "done"
    BY <1>6 DEF FlowControl, RefusedForError, RefusedForInactive, RefusedForTime, NoErrors,
                NoBuffer, ReadCredit, SpendCredit, At
  <2>2. taken = 0
    BY <1>3, <2>1 DEF DriverInv, StageInv, PatchInv
  <2>3. \/ UNCHANGED <<cmd, taken, answered>>
        \/ cmd' = None /\ taken' = 0 /\ answered' = None
    BY <1>6 DEF FlowControl, RefusedForError, RefusedForInactive, RefusedForTime, NoErrors,
                NoBuffer, ReadCredit, SpendCredit, Back, Goto, past
  <2> QED
    BY <1>1, <1>2, <1>4, <2>2, <2>3
<1> QED
  BY <1>5, <1>6

\* The interrupt routine, by itself or polled.
LEMMA RoutineIsServe ==
  ASSUME DriverInv, SPI_IRQ, UNCHANGED <<cmd, patching>>
  PROVE  Promise!Serve \/ UNCHANGED Promise!callVars
<1>1. CASE spi = "WRITE_IRQ"
  <2>1. Write /\ UNCHANGED answered
    BY <1>1 DEF SPI_IRQ
  <2>2. pc \in {"check", "second", "sent"} \/ ~cs
    BY DEF DriverInv, StageInv
  <2> QED
    BY <2>1, <2>2, WriteIsServe
<1>2. CASE spi # "WRITE_IRQ"
  <2>1. spi \in {"POWERUP", "INITIALIZED", "IDLE"}
    BY <1>2 DEF DriverInv, TypeInv, CcTypeOK, Values
  <2>2. UNCHANGED <<taken, answered>>
    BY <2>1 DEF SPI_IRQ, past
  <2> QED
    BY <2>2, QuietIsStutter
<1> QED
  BY <1>1, <1>2

\* SpiWrite carries the call out in one of three places, once.
LEMMA SpiWriteIsServe ==
  ASSUME DriverInv, SpiWrite
  PROVE  Promise!Serve \/ UNCHANGED Promise!callVars
<1>1. CASE SpiWriteAnyway
  <2>1. Write /\ UNCHANGED <<cmd, patching, answered>> /\ pc = "second"
    BY <1>1 DEF SpiWriteAnyway, Goto, At
  <2> QED
    BY <2>1, WriteIsServe
<1>2. CASE SpiFirstWrite
  <2>1. /\ pc = "write" /\ spi = "INITIALIZED" /\ taken' = taken + 1
        /\ UNCHANGED <<cmd, answered>>
    BY <1>2 DEF SpiFirstWrite, MayWrite, Goto, At
  <2>2. taken = 0 /\ cmd \in Commands
    BY <2>1 DEF DriverInv, StageInv, TypeInv, BetweenCalls, NoCall, CcTypeOK, Values
  <2>3. cmd # None /\ cmd.tag # None
    BY <2>2, NoneAssumption DEF Commands
  <2> QED
    BY <2>1, <2>2, <2>3 DEF Promise!Serve
<1>3. CASE WriteOverrun \/ SpiAskToWrite \/ SpiCheckPin \/ SpiWritten
  <2>1. UNCHANGED <<cmd, taken, answered>>
    BY <1>3 DEF WriteOverrun, SpiAskToWrite, SpiCheckPin, SpiWritten, Goto, past
  <2> QED
    BY <2>1, QuietIsStutter
<1> QED
  BY <1>1, <1>2, <1>3 DEF SpiWrite

\* The remaining steps of the driver, and the chip's, are none of RemoteCall's.
LEMMA OthersAreQuiet ==
  ASSUME \/ SimpleLinkWaitEvent \/ SimpleLinkWaitData \/ PollSeesLow
         \/ HandleJunk \/ HandlePatchRequest \/ wlan_start \/ wlan_stop \/ Chip
         \/ UNCHANGED vars
  PROVE  UNCHANGED Promise!callVars
<1>1. CASE Chip
  <2>1. UNCHANGED <<cmd, taken, answered>>
    BY <1>1 DEF Chip, ChipPullsLine, ChipAnswers, ChipAsksForPatch, ChipFreesBuffer,
                ChipReports, main, past
  <2> QED
    BY <2>1, QuietIsStutter
<1>2. CASE ~Chip
  <2>1. UNCHANGED <<cmd, taken, answered>>
    BY <1>2 DEF SimpleLinkWaitEvent, SimpleLinkWaitData, PollSeesLow, HandleJunk,
                HandlePatchRequest, wlan_start, wlan_stop, vars, Goto, main, past
  <2> QED
    BY <2>1, QuietIsStutter
<1> QED
  BY <1>1, <1>2

\* A step of the driver, of the interrupt or of the chip is a step of
\* RemoteCall, or none of it is seen there.
LEMMA StepIsStep ==
  DriverInv /\ [Next]_vars => [Promise!Next]_(Promise!callVars)
<1> SUFFICES ASSUME DriverInv, [Next]_vars
             PROVE  Promise!Next \/ UNCHANGED Promise!callVars
  OBVIOUS
<1>1. CASE Issue \/ LineIsLow \/ ReadBufferSize
  BY <1>1, AskIsAsk DEF Promise!Next
<1>2. CASE FlowControl \/ Finish
  BY <1>2, BackIsReturn DEF Promise!Next
<1>3. CASE SpiWrite
  BY <1>3, SpiWriteIsServe DEF Promise!Next
<1>4. CASE cc3k_int_poll
  <2>1. CASE enabled
    BY <1>4, <2>1, RoutineIsServe DEF cc3k_int_poll, Goto, Promise!Next
  <2>2. CASE ~enabled
    BY <1>4, <2>2, QuietIsStutter DEF cc3k_int_poll, Goto, past
  <2> QED
    BY <2>1, <2>2
<1>5. CASE HandleEvent \/ HandleData
  BY <1>5, HandlerIsAnswer DEF Promise!Next
<1>6. CASE Isr
  BY <1>6, RoutineIsServe DEF Isr, main, Promise!Next
<1>7. CASE \/ SimpleLinkWaitEvent \/ SimpleLinkWaitData \/ PollSeesLow
           \/ HandleJunk \/ HandlePatchRequest \/ wlan_start \/ wlan_stop \/ Chip
           \/ UNCHANGED vars
  BY <1>7, OthersAreQuiet
<1> QED
  BY <1>1, <1>2, <1>3, <1>4, <1>5, <1>6, <1>7 DEF Next, Main, hci_event_handler

\* The host driver implements RemoteCall: however the interrupt cuts into
\* SpiWrite, which may write a packet at two places, and into the handler's
\* loop, and whatever events, credits and patch requests come in between, the
\* chip carries a call out at most once, the caller gets no answer but its own
\* and gets it before the call comes back, and a call that is refused has not
\* reached the chip (ccspi.cpp SpiWrite and SPI_IRQ, evnt_handler.cpp
\* hci_event_handler, socket.cpp HostFlowControlConsumeBuff).
THEOREM CallsAreKept == Spec => CallsAreCarriedOut
<1>1. Init => Promise!Init
  BY DEF Init, Promise!Init
<1>2. DriverInv /\ [Next]_vars => [Promise!Next]_(Promise!callVars)
  BY StepIsStep
<1> QED
  BY <1>1, <1>2, DriverStart, DriverStep, PTL DEF Spec, CallsAreCarriedOut, Promise!Spec

-----------------------------------------------------------------------------
(* The credits.                                                            *)

\* A credit is one of the buffers that an event of the row releases.
LEMMA CreditsOf ==
  ASSUME NEW row
  PROVE  /\ \A c \in CreditsIn(row) :
              \E i \in 1..Len(row) : \E k \in 1..row[i].status :
                 row[i].op = FREE_BUFF /\ c = <<i, k>>
         /\ \A i \in 1..Len(row) : \A k \in 1..row[i].status :
              row[i].op = FREE_BUFF => <<i, k>> \in CreditsIn(row)
BY DEF CreditsIn

\* Events that release no buffer, put behind the others, add no credits.
LEMMA CreditsBefore ==
  ASSUME NEW s \in Seq(Packets), NEW t \in Seq(Packets), \A p \in ToSet(t) : p.op # FREE_BUFF
  PROVE  CreditsIn(s \o t) = CreditsIn(s)
<1> DEFINE w == s \o t
           m == Len(s)
           n == Len(t)
<1>1. /\ m \in Nat /\ n \in Nat /\ Len(w) = m + n
      /\ \A i \in 1..m + n : w[i] = IF i <= m THEN s[i] ELSE t[i - m]
      /\ DOMAIN t = 1..n
  BY ConcatProperties, LenProperties
<1>2. \A i \in 1..n : t[i] \in ToSet(t)
  BY <1>1, InRow
<1> HIDE DEF w, m, n
<1>3. \A i \in 1..m : i \in 1..m + n /\ w[i] = s[i]
  BY <1>1
<1>4. \A i \in 1..m + n : i \in 1..m \/ w[i].op # FREE_BUFF
  <2> TAKE i \in 1..m + n
  <2>1. CASE i > m
    <3>1. i - m \in 1..n /\ ~(i <= m)
      BY <1>1, <2>1
    <3> QED
      BY <1>1, <1>2, <3>1
  <2> QED
    BY <1>1, <2>1
<1>5. ASSUME NEW c \in CreditsIn(w)
      PROVE  c \in CreditsIn(s)
  <2>1. PICK i \in 1..m + n : \E k \in 1..w[i].status : w[i].op = FREE_BUFF /\ c = <<i, k>>
    BY <1>1, CreditsOf
  <2>2. i \in 1..m /\ w[i] = s[i]
    BY <1>3, <1>4, <2>1
  <2> QED
    BY <2>1, <2>2, CreditsOf DEF m
<1>6. ASSUME NEW c \in CreditsIn(s)
      PROVE  c \in CreditsIn(w)
  <2>1. PICK i \in 1..m : \E k \in 1..s[i].status : s[i].op = FREE_BUFF /\ c = <<i, k>>
    BY CreditsOf DEF m
  <2> QED
    BY SMTT(30), <1>1, <1>3, <2>1, CreditsOf
<1> QED
  BY <1>5, <1>6 DEF w

\* As many pairs as there are numbers.
LEMMA PairsOf ==
  ASSUME NEW i, NEW n \in Nat
  PROVE  IsFiniteSet({i} \X (1..n)) /\ Cardinality({i} \X (1..n)) = n
<1> DEFINE f == [k \in 1..n |-> <<i, k>>]
<1>1. f \in Bijection(1..n, {i} \X (1..n))
  BY DEF Bijection, Injection, Surjection, IsInjective
<1>2. IsFiniteSet(1..n) /\ Cardinality(1..n) = n
  <2>1. IsFiniteSet(1..n) /\ Cardinality(1..n) = IF 1 > n THEN 0 ELSE n - 1 + 1
    BY FS_Interval
  <2> QED
    BY <2>1
<1> HIDE DEF f
<1>3. ExistsBijection(1..n, {i} \X (1..n))
  BY <1>1 DEF ExistsBijection
<1> QED
  BY <1>2, <1>3, FS_Bijection

\* An event that releases n buffers, put behind the others, adds n credits.
LEMMA CreditsAdded ==
  ASSUME NEW s \in Seq(Packets), NEW p \in Packets, p.op = FREE_BUFF, p.status \in Nat,
         IsFiniteSet(CreditsIn(s))
  PROVE  /\ IsFiniteSet(CreditsIn(s \o <<p>>))
         /\ Cardinality(CreditsIn(s \o <<p>>)) = Cardinality(CreditsIn(s)) + p.status
<1> DEFINE w == s \o <<p>>
           m == Len(s)
           N == {m + 1} \X (1..p.status)
<1>1. /\ m \in Nat /\ Len(w) = m + 1
      /\ \A i \in 1..m : w[i] = s[i]
      /\ w[m + 1] = p
  <2>1. /\ <<p>> \in Seq(Packets) /\ Len(<<p>>) = 1 /\ <<p>>[1] = p
    OBVIOUS
  <2>2. /\ m \in Nat /\ Len(w) = m + 1
        /\ \A i \in 1..m + 1 : w[i] = IF i <= m THEN s[i] ELSE <<p>>[i - m]
    BY <2>1, ConcatProperties, LenProperties
  <2> HIDE DEF w, m
  <2>3. (m + 1) - m = 1 /\ ~(m + 1 <= m) /\ m + 1 \in 1..m + 1 /\ \A i \in 1..m : i \in 1..m + 1
    BY <2>2
  <2> QED
    BY <2>1, <2>2, <2>3
<1> HIDE DEF w, m
<1>2. \A i \in 1..m + 1 : i \in 1..m \/ i = m + 1
  BY <1>1
<1>3. \A i \in 1..m : i \in 1..m + 1 /\ i # m + 1
  BY <1>1
<1>4. m + 1 \in 1..m + 1
  BY <1>1
<1>5. \A c \in CreditsIn(w) : c \in CreditsIn(s) \cup N
  <2> TAKE c \in CreditsIn(w)
  <2>1. PICK i \in 1..m + 1 : \E k \in 1..w[i].status : w[i].op = FREE_BUFF /\ c = <<i, k>>
    BY <1>1, CreditsOf
  <2>2. CASE i = m + 1
    BY <1>1, <2>1, <2>2
  <2>3. CASE i \in 1..m
    BY <1>1, <2>1, <2>3, CreditsOf DEF m
  <2> QED
    BY <1>2, <2>2, <2>3
<1>6. \A c \in CreditsIn(s) : c \in CreditsIn(w) /\ c \notin N
  <2> TAKE c \in CreditsIn(s)
  <2>1. PICK i \in 1..m : \E k \in 1..s[i].status : s[i].op = FREE_BUFF /\ c = <<i, k>>
    BY CreditsOf DEF m
  <2>2. c \in CreditsIn(w)
    BY <1>1, <1>3, <2>1, CreditsOf
  <2>3. c \notin N
    BY <1>3, <2>1
  <2> QED
    BY <2>2, <2>3
<1>7. \A c \in N : c \in CreditsIn(w)
  BY <1>1, <1>4, CreditsOf
<1>8. CreditsIn(w) = CreditsIn(s) \cup N /\ CreditsIn(s) \cap N = {}
  BY <1>5, <1>6, <1>7
<1>9. IsFiniteSet(N) /\ Cardinality(N) = p.status
  BY PairsOf
<1> HIDE DEF N
<1>10. /\ IsFiniteSet(CreditsIn(w))
       /\ Cardinality(CreditsIn(w)) = Cardinality(CreditsIn(s)) + p.status - Cardinality({})
  BY <1>8, <1>9, FS_Union
<1>11. Cardinality(CreditsIn(s)) \in Nat /\ Cardinality({}) = 0
  BY FS_CardinalityType, FS_EmptySet
<1>12. Cardinality(CreditsIn(w)) = Cardinality(CreditsIn(s)) + p.status
  BY <1>10, <1>11
<1> QED
  BY <1>10, <1>12 DEF w

\* The first event, taken out of the row, takes its credits with it.
LEMMA CreditsTaken ==
  ASSUME NEW s \in Seq(Packets), s # <<>>, IsFiniteSet(CreditsIn(s)),
         Head(s).op = FREE_BUFF => Head(s).status \in Nat
  PROVE  /\ IsFiniteSet(CreditsIn(Tail(s)))
         /\ Cardinality(CreditsIn(s)) = Cardinality(CreditsIn(Tail(s))) + Released(Head(s))
<1> DEFINE t == Tail(s)
           m == Len(t)
           p == Head(s)
           N == {1} \X (1..Released(p))
           f == [c \in CreditsIn(t) |-> <<c[1] + 1, c[2]>>]
           R == {f[c] : c \in CreditsIn(t)}
<1>1. m \in Nat /\ Len(s) = m + 1 /\ s[1] = p /\ \A i \in 1..m : t[i] = s[i + 1]
  BY HeadTailProperties, LenProperties, EmptySeq
<1>2. Released(p) \in Nat
  BY DEF Released
<1> HIDE DEF t, m, p
<1>3. /\ \A i \in 1..m : i + 1 \in 1..m + 1 /\ i + 1 # 1
      /\ \A i \in 1..m + 1 : i = 1 \/ (i - 1 \in 1..m /\ (i - 1) + 1 = i)
      /\ 1 \in 1..m + 1
  BY <1>1
<1>4. \A i \in 1..m : \A k \in 1..t[i].status :
        t[i].op = FREE_BUFF => <<i, k>> \in CreditsIn(t) /\ f[<<i, k>>] = <<i + 1, k>>
  <2> TAKE i \in 1..m
  <2> TAKE k \in 1..t[i].status
  <2> HAVE t[i].op = FREE_BUFF
  <2>1. <<i, k>> \in CreditsIn(t)
    BY CreditsOf DEF m
  <2> QED
    BY <2>1
<1>5. \A c \in CreditsIn(t) : \E i \in 1..m : \E k \in 1..t[i].status :
        t[i].op = FREE_BUFF /\ c = <<i, k>> /\ f[c] = <<i + 1, k>>
  BY <1>4, CreditsOf DEF m
<1> HIDE DEF f
<1>6. \A c \in CreditsIn(s) : c \in R \cup N
  <2> TAKE c \in CreditsIn(s)
  <2>1. PICK i \in 1..m + 1 : \E k \in 1..s[i].status : s[i].op = FREE_BUFF /\ c = <<i, k>>
    BY <1>1, CreditsOf
  <2>2. CASE i = 1
    BY <1>1, <2>1, <2>2 DEF Released
  <2>3. CASE i - 1 \in 1..m /\ (i - 1) + 1 = i
    <3>1. PICK k \in 1..s[i].status : s[i].op = FREE_BUFF /\ c = <<i, k>>
      BY <2>1
    <3>2. t[i - 1] = s[i]
      BY <1>1, <2>3
    <3>3. <<i - 1, k>> \in CreditsIn(t) /\ f[<<i - 1, k>>] = <<i, k>>
      BY <1>4, <2>3, <3>1, <3>2
    <3> QED
      BY <3>1, <3>3
  <2> QED
    BY <1>3, <2>2, <2>3
<1>7. \A c \in R : c \in CreditsIn(s) /\ c \notin N
  <2> TAKE c \in R
  <2>1. PICK d \in CreditsIn(t) : c = f[d]
    OBVIOUS
  <2>2. PICK i \in 1..m : \E k \in 1..t[i].status : t[i].op = FREE_BUFF /\ f[d] = <<i + 1, k>>
    BY <1>5
  <2>3. t[i] = s[i + 1] /\ i + 1 \in 1..Len(s) /\ i + 1 # 1
    BY <1>1, <1>3
  <2>4. c \in CreditsIn(s)
    BY <2>1, <2>2, <2>3, CreditsOf
  <2> QED
    BY <2>1, <2>2, <2>3, <2>4
<1>8. \A c \in N : c \in CreditsIn(s)
  <2> TAKE c \in N
  <2>1. PICK k \in 1..Released(p) : c = <<1, k>>
    OBVIOUS
  <2>2. p.op = FREE_BUFF /\ k \in 1..p.status
    BY <2>1 DEF Released
  <2> QED
    BY <1>1, <1>3, <2>1, <2>2, CreditsOf
<1>9. CreditsIn(s) = R \cup N /\ R \cap N = {}
  BY <1>6, <1>7, <1>8
<1>10. IsFiniteSet(R)
  BY <1>9, FS_Subset
<1>11. f \in Bijection(CreditsIn(t), R)
  <2>1. f \in [CreditsIn(t) -> R]
    BY DEF f
  <2>2. ASSUME NEW c \in CreditsIn(t), NEW d \in CreditsIn(t), f[c] = f[d]
        PROVE  c = d
    <3>1. PICK i \in 1..m : \E k \in 1..t[i].status : c = <<i, k>> /\ f[c] = <<i + 1, k>>
      BY <1>5
    <3>2. PICK j \in 1..m : \E l \in 1..t[j].status : d = <<j, l>> /\ f[d] = <<j + 1, l>>
      BY <1>5
    <3>3. PICK k \in 1..t[i].status : c = <<i, k>> /\ f[c] = <<i + 1, k>>
      BY <3>1
    <3>4. PICK l \in 1..t[j].status : d = <<j, l>> /\ f[d] = <<j + 1, l>>
      BY <3>2
    <3>5. i + 1 = j + 1 /\ k = l
      BY <2>2, <3>3, <3>4
    <3>6. i = j
      BY <1>1, <3>5
    <3> QED
      BY <3>3, <3>4, <3>5, <3>6
  <2>3. \A r \in R : \E c \in CreditsIn(t) : f[c] = r
    OBVIOUS
  <2> QED
    BY <2>1, <2>2, <2>3 DEF Bijection, Injection, Surjection, IsInjective
<1>12. IsFiniteSet(CreditsIn(t)) /\ Cardinality(CreditsIn(t)) = Cardinality(R)
  <2>1. Bijection(R, CreditsIn(t)) # {}
    BY <1>11, Fun_BijInverse
  <2> QED
    BY <1>10, <2>1, FS_Bijection DEF ExistsBijection
<1>13. IsFiniteSet(N) /\ Cardinality(N) = Released(p)
  BY <1>2, PairsOf
<1> HIDE DEF N, R
<1>14. Cardinality(CreditsIn(s)) = Cardinality(R) + Released(p) - Cardinality({})
  BY <1>9, <1>10, <1>13, FS_Union
<1>15. Cardinality(R) \in Nat /\ Cardinality({}) = 0
  BY <1>10, FS_CardinalityType, FS_EmptySet
<1>16. Cardinality(CreditsIn(s)) = Cardinality(R) + Released(p)
  BY <1>2, <1>14, <1>15
<1> QED
  BY <1>12, <1>16 DEF t, p

\* Until wlan_start has asked how many buffers there are, nothing has been sent.
SettingUp == ~Known /\ pc # "corrupted"

\* The chip is on for every call; the interrupt is on while the routine is to
\* write, and a latched edge is that of a low line: a packet that has not gone
\* out by the end of SpiWrite is not on its way any more.
WireInv ==
  /\ pc \notin {"off", "ready", "corrupted"} => on
  /\ on /\ spi # "IDLE" => enabled
  /\ on /\ spi \in {"IDLE", "WRITE_IRQ"} /\ edge => low
  /\ patching => taken = 1
  /\ pc \in {"check", "second", "sent"} /\ ~patching /\ taken = 0
       => cs /\ spi = "WRITE_IRQ" /\ (pc = "second" => low)

\* Which call is where: only sends consume a credit; the first packet after
\* power-up is that of wlan_start.
CallInv ==
  /\ pc \in {"credit", "buffer", "spend"} => IsSend(cmd.call)
  /\ spi \in {"POWERUP", "INITIALIZED"} /\ cmd # None => cmd.call = SimpleLink_Init_Start

\* No buffer is used and no credit on its way before the number is known, and
\* what wlan_start reads is that number.
SizeInv ==
  /\ SettingUp =>
       /\ used = 0 /\ lost = 0
       /\ \A p \in ToSet(outbox) : p.op # FREE_BUFF
       /\ cmd # None /\ cmd.call = read_buffer_size /\ answered # None => free = ChipBuffers
  /\ \A p \in Coming : /\ p.op = read_buffer_size.op => p.status = ChipBuffers
                       /\ p.tag # None /\ p.op = DATA => cmd.call.data

\* All the buffers there are, with the credits of finitely many events.
CountInv == IsFiniteSet(CreditsIn(outbox)) /\ CreditsConserved

CreditInv == WireInv /\ CallInv /\ SizeInv /\ CountInv

\* The routine writes to the chip or reads from it; the edge that called it is
\* dealt with.
LEMMA RoutineKeepsWire ==
  ASSUME DriverInv, WireInv, SPI_IRQ, UNCHANGED <<patching, on>>, enabled,
         \/ edge' = FALSE /\ edge /\ pc' = pc
         \/ edge' = edge /\ ~edge /\ pc = "poll" /\ pc' = "loop"
  PROVE  WireInv'
<1>1. /\ pc' \in {"check", "second", "sent"} => pc' = pc
      /\ pc \notin {"off", "ready", "corrupted"} <=> pc' \notin {"off", "ready", "corrupted"}
  OBVIOUS
<1>2. edge' = FALSE
  BY DEF DriverInv, TypeInv, CcTypeOK, Flags
<1>3. spi \in {"POWERUP", "INITIALIZED", "IDLE", "WRITE_IRQ"} /\ on' = on /\ patching' = patching
  BY DEF DriverInv, TypeInv, CcTypeOK, Values
<1>4. CASE spi = "POWERUP" \/ spi = "INITIALIZED"
  <2>1. /\ spi' \in {"POWERUP", "INITIALIZED"}
        /\ UNCHANGED <<enabled, low, cs, taken>>
    BY <1>4 DEF SPI_IRQ, link, past
  <2>2. ~(pc \in {"check", "second", "sent"} /\ ~patching /\ taken = 0)
    BY <1>4 DEF WireInv
  <2> QED
    BY <1>1, <1>2, <1>3, <1>4, <2>1, <2>2 DEF WireInv
<1>5. CASE spi = "IDLE"
  <2>1. UNCHANGED <<spi, taken>>
    BY <1>5 DEF SPI_IRQ
  <2>2. ~(pc \in {"check", "second", "sent"} /\ ~patching /\ taken = 0)
    BY <1>5 DEF WireInv
  <2> QED
    BY <1>1, <1>2, <1>3, <1>5, <2>1, <2>2 DEF WireInv
<1>6. CASE spi = "WRITE_IRQ"
  <2>1. Write /\ spi' = "IDLE" /\ enabled' = enabled
    BY <1>6 DEF SPI_IRQ
  <2>2. patching => taken' = 1
    BY <2>1 DEF Write, WireInv
  <2>3. ~(pc' \in {"check", "second", "sent"} /\ ~patching /\ taken' = 0)
    <3>1. CASE pc' = pc /\ pc \in {"check", "second", "sent"} /\ ~patching
      <4>1. CASE taken = 0
        <5>1. cs /\ edge /\ on
          BY <3>1, <4>1 DEF WireInv
        <5>2. low
          BY <1>6, <5>1 DEF WireInv
        <5>3. taken' = 1
          BY <2>1, <3>1, <4>1, <5>1, <5>2 DEF Write
        <5> QED
          BY <5>3
      <4>2. CASE taken # 0
        <5>1. taken = 1
          BY <4>2 DEF DriverInv, StageInv
        <5>2. taken' \in {1, 2}
          BY <2>1, <5>1 DEF Write
        <5> QED
          BY <5>2
      <4> QED
        BY <4>1, <4>2
    <3> QED
      BY <1>1, <3>1
  <2> QED
    BY <1>1, <1>2, <1>3, <2>1, <2>2, <2>3 DEF WireInv
<1> QED
  BY <1>3, <1>4, <1>5, <1>6

\* SpiWrite does not end before the packet has gone out.
LEMMA SpiWriteKeepsWire ==
  ASSUME DriverInv, WireInv, SpiWrite
  PROVE  WireInv'
<1>1. /\ pc \in {"write", "check", "second", "sent"} /\ on' = on
      /\ pc' \in {"check", "second", "sent", "arm", "loop", "stuck"}
  BY DEF SpiWrite, WriteOverrun, SpiFirstWrite, SpiAskToWrite, SpiCheckPin, SpiWriteAnyway,
         SpiWritten, MayWrite, At, Goto, wire
<1>2. on /\ on'
  BY <1>1 DEF WireInv, DriverInv, TypeInv, CcTypeOK, Flags
<1>3. CASE WriteOverrun
  <2>1. pc' = "stuck" /\ UNCHANGED <<spi, enabled, low, edge, patching, taken>>
    BY <1>3 DEF WriteOverrun, Goto, link, wire
  <2> QED
    BY <1>2, <2>1 DEF WireInv
<1>4. CASE SpiFirstWrite
  <2>1. /\ pc = "write" /\ pc' = "sent" /\ spi = "INITIALIZED" /\ spi' = "IDLE"
        /\ taken' = taken + 1 /\ ~IsrDue /\ UNCHANGED <<enabled, edge, patching>>
    BY <1>4 DEF SpiFirstWrite, MayWrite, Goto, At
  <2>2. enabled /\ ~edge
    BY <1>2, <2>1 DEF WireInv, IsrDue
  <2>3. ~patching /\ taken = 0
    BY <2>1 DEF DriverInv, StageInv
  <2>4. taken' = 1
    BY <2>1, <2>3
  <2> QED
    BY <1>2, <2>1, <2>2, <2>4 DEF WireInv
<1>5. CASE SpiAskToWrite
  <2>1. /\ pc = "write" /\ pc' = "check" /\ spi = "IDLE" /\ spi' = "WRITE_IRQ" /\ cs' = TRUE
        /\ enabled' = TRUE /\ UNCHANGED <<low, edge, patching, taken>>
    BY <1>5 DEF SpiAskToWrite, MayWrite, Goto, At, past
  <2> QED
    BY <1>2, <2>1 DEF WireInv
<1>6. CASE SpiCheckPin
  <2>1. /\ pc = "check" /\ pc' = (IF low THEN "second" ELSE "sent")
        /\ UNCHANGED <<spi, enabled, low, edge, cs, patching, taken>>
    BY <1>6 DEF SpiCheckPin, Goto, link, wire, past
  <2> QED
    BY <1>2, <2>1 DEF WireInv
<1>7. CASE SpiWriteAnyway
  <2>1. /\ pc = "second" /\ pc' = "sent" /\ spi' = "IDLE" /\ ~IsrDue
        /\ Write /\ UNCHANGED <<enabled, edge, patching>>
    BY <1>7 DEF SpiWriteAnyway, Goto, At
  <2>2. edge' => low'
    <3>1. CASE cs
      <4>1. spi = "WRITE_IRQ" /\ enabled
        BY <1>2, <3>1 DEF DriverInv, StageInv, WireInv
      <4> QED
        BY <2>1, <4>1 DEF IsrDue
    <3>2. CASE ~cs
      <4>1. low' = low
        BY <2>1, <3>2 DEF Write
      <4>2. spi \in {"IDLE", "WRITE_IRQ"}
        BY <2>1 DEF DriverInv, StageInv, TypeInv, CcTypeOK, Values
      <4> QED
        BY <1>2, <2>1, <4>1, <4>2 DEF WireInv
    <3> QED
      BY <3>1, <3>2
  <2>3. patching => taken' = 1
    BY <2>1 DEF Write, WireInv
  <2>4. ~patching => taken' # 0
    <3>1. CASE taken = 0 /\ ~patching
      <4>1. taken' = taken + 1
        BY <2>1, <3>1 DEF Write, WireInv
      <4> QED
        BY <3>1, <4>1
    <3>2. CASE taken # 0
      <4>1. taken = 1 /\ taken' \in {taken, taken + 1}
        BY <2>1, <3>2 DEF DriverInv, StageInv, Write
      <4> QED
        BY <4>1
    <3> QED
      BY <3>1, <3>2
  <2> QED
    BY <1>2, <2>1, <2>2, <2>3, <2>4 DEF WireInv
<1>8. CASE SpiWritten
  <2>1. /\ pc' \in {"loop", "arm"} /\ patching' = FALSE
        /\ UNCHANGED <<spi, enabled, low, edge>>
    BY <1>8 DEF SpiWritten, link, wire
  <2> QED
    BY <1>2, <2>1 DEF WireInv
<1> QED
  BY <1>3, <1>4, <1>5, <1>6, <1>7, <1>8 DEF SpiWrite

\* The rest of the main program, between two packets.
LEMMA MainKeepsWire ==
  ASSUME DriverInv, WireInv, Main
  PROVE  WireInv'
<1>1. CASE SpiWrite
  BY <1>1, SpiWriteKeepsWire
<1>2. CASE cc3k_int_poll
  <2>1. pc = "poll" /\ ~IsrDue /\ pc' = "loop" /\ UNCHANGED patching
    BY <1>2 DEF cc3k_int_poll, At, Goto
  <2>2. CASE enabled
    <3>1. SPI_IRQ /\ UNCHANGED <<on, edge>> /\ ~edge
      BY <1>2, <2>1, <2>2 DEF cc3k_int_poll, IsrDue
    <3> QED
      BY <2>1, <2>2, <3>1, RoutineKeepsWire
  <2>3. CASE ~enabled
    <3>1. UNCHANGED <<on, spi, enabled, low, edge, taken>>
      BY <1>2, <2>3 DEF cc3k_int_poll, link, wire, past
    <3> QED
      BY <2>1, <3>1 DEF WireInv
  <2> QED
    BY <2>2, <2>3
<1>3. CASE Issue \/ LineIsLow \/ ReadBufferSize \/ Finish
  <2>1. /\ pc \in {"ready", "boot", "size", "done"}
        /\ UNCHANGED <<on, spi, enabled, low, edge, patching>>
        /\ pc = "ready" /\ ~on => pc' = "corrupted"
    BY <1>3 DEF Issue, LineIsLow, ReadBufferSize, Finish, Ask, At, link, wire
  <2>2. pc' \in {"corrupted", "credit", "write", "size", "ready"}
    BY <1>3 DEF Issue, LineIsLow, ReadBufferSize, Finish, Ask
  <2>3. patching = FALSE
    BY <2>1 DEF DriverInv, PatchInv, TypeInv, CcTypeOK, Flags
  <2> QED
    BY <2>1, <2>2, <2>3 DEF WireInv
<1>4. CASE FlowControl
  <2>1. /\ pc \in {"credit", "buffer", "spend"}
        /\ pc' \in {"ready", "credit", "buffer", "spend", "write"}
        /\ UNCHANGED <<on, spi, enabled, low, edge, patching>>
    BY <1>4 DEF FlowControl, RefusedForError, RefusedForInactive, RefusedForTime, NoErrors,
                NoBuffer, ReadCredit, SpendCredit, Back, Goto, At, link, wire
  <2>2. patching = FALSE
    BY <2>1 DEF DriverInv, PatchInv, TypeInv, CcTypeOK, Flags
  <2> QED
    BY <2>1, <2>2 DEF WireInv
<1>5. CASE SimpleLinkWaitEvent \/ SimpleLinkWaitData \/ PollSeesLow \/ HandleJunk
  <2>1. /\ pc \in {"arm", "armData", "loop"} /\ pc' \in {"loop", "poll", "corrupted"}
        /\ UNCHANGED <<on, spi, enabled, low, edge, patching, taken>>
    BY <1>5 DEF SimpleLinkWaitEvent, SimpleLinkWaitData, PollSeesLow, HandleJunk, Goto, At,
                link, wire, past
  <2> QED
    BY <2>1 DEF WireInv
<1>6. CASE HandleEvent \/ HandleData
  <2>1. /\ pc = "loop" /\ pc' \in {"patch", "loop", "armData", "done"} /\ enabled' = TRUE
        /\ UNCHANGED <<on, spi, low, edge, patching, taken>>
    BY <1>6 DEF HandleEvent, HandleData, SpiResumeSpi, Onward, Goto, At, wire
  <2> QED
    BY <2>1 DEF WireInv
<1>7. CASE HandlePatchRequest
  <2>1. /\ pc = "patch" /\ pc' \in {"write", "loop"}
        /\ UNCHANGED <<on, spi, enabled, low, edge, taken>>
    BY <1>7 DEF HandlePatchRequest, At, link, wire
  <2>2. taken = 1
    BY <2>1 DEF DriverInv, PatchInv, StageInv
  <2> QED
    BY <2>1, <2>2 DEF WireInv
<1>8. CASE wlan_start
  <2>1. pc = "off" /\ pc' = "boot" /\ spi' = "POWERUP" /\ enabled' = TRUE /\ on' = TRUE
        /\ UNCHANGED <<patching, taken>>
    BY <1>8 DEF wlan_start, At, Goto, past
  <2> QED
    BY <2>1 DEF WireInv
<1>9. CASE wlan_stop
  <2>1. pc' \in {"off", "ready"} /\ on' = FALSE /\ UNCHANGED <<patching, taken>>
    BY <1>9 DEF wlan_stop, Goto
  <2> QED
    BY <2>1 DEF WireInv
<1> QED
  BY <1>1, <1>2, <1>3, <1>4, <1>5, <1>6, <1>7, <1>8, <1>9 DEF Main, hci_event_handler

\* Every step keeps it: the chip pulls its line with the edge.
LEMMA WireStep ==
  ASSUME DriverInv, WireInv, [Next]_vars
  PROVE  WireInv'
<1>1. CASE Main
  BY <1>1, MainKeepsWire
<1>2. CASE Isr
  <2>1. SPI_IRQ /\ UNCHANGED <<patching, on, pc>> /\ edge /\ enabled /\ edge' = FALSE
    BY <1>2 DEF Isr, IsrDue, main
  <2> QED
    BY <2>1, RoutineKeepsWire
<1>3. CASE ChipPullsLine
  <2>1. low' = TRUE /\ UNCHANGED <<pc, patching, on, spi, enabled, cs, taken>>
    BY <1>3 DEF ChipPullsLine, main, link, past
  <2> QED
    BY <2>1 DEF WireInv
<1>4. CASE ChipAnswers \/ ChipAsksForPatch \/ ChipFreesBuffer \/ ChipReports \/ UNCHANGED vars
  <2>1. UNCHANGED <<main, link, wire, past>>
    BY <1>4 DEF ChipAnswers, ChipAsksForPatch, ChipFreesBuffer, ChipReports, vars
  <2> QED
    BY <2>1 DEF WireInv, main, link, wire, past
<1> QED
  BY <1>1, <1>2, <1>3, <1>4 DEF Next, Chip

\* Which call is where stays so.
LEMMA CallStep ==
  ASSUME DriverInv, CallInv, [Next]_vars
  PROVE  CallInv'
<1>1. ASSUME UNCHANGED cmd, pc' \in {"credit", "buffer", "spend"} => pc \in {"credit", "buffer", "spend"},
             spi' \in {"POWERUP", "INITIALIZED"} => spi \in {"POWERUP", "INITIALIZED"}
      PROVE  CallInv'
  BY <1>1 DEF CallInv
<1>2. CASE Issue
  <2>1. PICK c \in HostCalls, sd \in Sds :
          Ask(c, sd, IF ~on THEN "corrupted" ELSE IF IsSend(c) THEN "credit" ELSE "write")
    BY <1>2 DEF Issue
  <2>2. cmd'.call = c /\ (pc' \in {"credit", "buffer", "spend"} => IsSend(c))
    BY <2>1 DEF Ask
  <2>3. spi' = spi /\ spi \notin {"POWERUP", "INITIALIZED"}
    BY <1>2 DEF Issue, At, link, DriverInv, StageInv
  <2> QED
    BY <2>2, <2>3 DEF CallInv, IsSend
<1>3. CASE LineIsLow
  <2>1. cmd'.call = SimpleLink_Init_Start /\ pc' = "write"
    BY <1>3 DEF LineIsLow, Ask
  <2> QED
    BY <2>1 DEF CallInv
<1>4. CASE ReadBufferSize
  <2>1. pc' = "write" /\ spi' = spi /\ spi \notin {"POWERUP", "INITIALIZED"}
    BY <1>4 DEF ReadBufferSize, Ask, At, link, DriverInv, StageInv
  <2> QED
    BY <2>1 DEF CallInv
<1>5. CASE Finish
  <2>1. cmd' = None /\ pc' \in {"size", "ready"}
    BY <1>5 DEF Finish
  <2> QED
    BY <2>1 DEF CallInv
<1>6. CASE FlowControl
  <2>1. /\ pc \in {"credit", "buffer", "spend"} /\ spi' = spi
        /\ cmd' = cmd \/ (cmd' = None /\ pc' = "ready")
    BY <1>6 DEF FlowControl, RefusedForError, RefusedForInactive, RefusedForTime, NoErrors,
                NoBuffer, ReadCredit, SpendCredit, Back, Goto, At, link
  <2> QED
    BY <2>1 DEF CallInv
<1>7. CASE SpiWrite
  BY <1>1, <1>7 DEF SpiWrite, WriteOverrun, SpiFirstWrite, SpiAskToWrite, SpiCheckPin,
                    SpiWriteAnyway, SpiWritten, Goto, link
<1>8. CASE SimpleLinkWaitEvent \/ SimpleLinkWaitData \/ PollSeesLow
  BY <1>1, <1>8 DEF SimpleLinkWaitEvent, SimpleLinkWaitData, PollSeesLow, Goto, link
<1>9. SPI_IRQ /\ spi' \in {"POWERUP", "INITIALIZED"} => spi \in {"POWERUP", "INITIALIZED"}
  BY DEF SPI_IRQ, link, DriverInv, TypeInv, CcTypeOK, Values
<1>10. CASE cc3k_int_poll
  <2>1. cmd' = cmd /\ pc' = "loop" /\ (SPI_IRQ \/ UNCHANGED link)
    BY <1>10 DEF cc3k_int_poll, Goto
  <2> QED
    BY <1>1, <1>9, <2>1 DEF link
<1>11. CASE hci_event_handler
  BY <1>1, <1>11 DEF hci_event_handler, HandleEvent, HandleData, HandleJunk, HandlePatchRequest,
                     Onward, Goto, link
<1>12. CASE wlan_start
  <2>1. cmd' = None /\ pc' = "boot"
    BY <1>12 DEF wlan_start, At, Goto, DriverInv, TypeInv, BetweenCalls, NoCall
  <2> QED
    BY <2>1 DEF CallInv
<1>13. CASE wlan_stop
  BY <1>1, <1>13 DEF wlan_stop, Goto
<1>14. CASE Isr
  BY <1>1, <1>9, <1>14 DEF Isr, main
<1>15. CASE Chip \/ UNCHANGED vars
  <2>1. UNCHANGED <<pc, cmd, spi>>
    BY <1>15 DEF Chip, ChipPullsLine, ChipAnswers, ChipAsksForPatch, ChipFreesBuffer,
                 ChipReports, vars, main, link
  <2> QED
    BY <1>1, <2>1
<1> QED
  BY <1>2, <1>3, <1>4, <1>5, <1>6, <1>7, <1>8, <1>10, <1>11, <1>12, <1>13, <1>14, <1>15
     DEF Next, Main

-----------------------------------------------------------------------------
(* The count of the buffers, step by step.                                 *)

\* What is added up are natural numbers.
LEMMA Summands ==
  ASSUME DriverInv, CountInv
  PROVE  /\ free \in Nat /\ used \in Nat /\ lost \in Nat /\ Credits \in Nat
         /\ Underway \in {0, 1}
<1>1. Credits \in Nat
  BY FS_CardinalityType DEF CountInv, Credits
<1> QED
  BY <1>1 DEF DriverInv, TypeInv, CcTypeOK, Values, Underway

\* A call in progress is the sketch's or one of wlan_start's.
LEMMA WhoseCall ==
  ASSUME DriverInv, WireInv, pc \notin {"off", "boot", "size", "ready", "corrupted"}
  PROVE  /\ cmd \in Commands /\ on
         /\ \/ Known /\ cmd.call \in HostCalls
            \/ SettingUp /\ cmd.call \in {SimpleLink_Init_Start, read_buffer_size}
         /\ cmd.call \in {SimpleLink_Init_Start, read_buffer_size} => ~IsSend(cmd.call)
<1>1. cmd # None /\ cmd \in Commands
  BY DEF DriverInv, TypeInv, BetweenCalls, NoCall, CcTypeOK, Values
<1>2. on
  BY DEF WireInv, DriverInv, TypeInv, CcTypeOK, Flags
<1>3. cmd.call \in {SimpleLink_Init_Start, read_buffer_size} => ~IsSend(cmd.call)
  BY OwnCalls, Opcodes DEF IsSend
<1>4. cmd.call \in HostCalls \/ cmd.call \in {SimpleLink_Init_Start, read_buffer_size}
  BY <1>1 DEF Commands
<1>5. CASE cmd.call \in {SimpleLink_Init_Start, read_buffer_size}
  BY <1>1, <1>2, <1>3, <1>5 DEF SettingUp, Known
<1>6. CASE cmd.call \notin {SimpleLink_Init_Start, read_buffer_size}
  BY <1>1, <1>2, <1>4, <1>6 DEF Known
<1> QED
  BY <1>1, <1>2, <1>3, <1>5, <1>6

\* Who neither moves a packet nor counts changes nothing.
LEMMA QuietCounts ==
  ASSUME DriverInv, SizeInv, CountInv,
         UNCHANGED <<outbox, rx, received, cmd, used, free, lost, answered, on>>,
         \/ pc' = pc \/ pc' = "corrupted"
         \/ pc \notin {"off", "boot", "size", "corrupted"}
            /\ pc' \notin {"off", "boot", "size", "corrupted"},
         Underway' = Underway
  PROVE  SizeInv' /\ CountInv'
<1>1. UNCHANGED <<outbox, rx, received, cmd, used, free, lost, answered, on>>
  OBVIOUS
<1>2. (Known' => Known) /\ (SettingUp' => SettingUp)
  BY <1>1 DEF SettingUp, Known
<1>3. Coming' = Coming
  BY <1>1 DEF Coming
<1>4. SizeInv'
  BY <1>1, <1>2, <1>3 DEF SizeInv
<1>5. CreditsIn(outbox)' = CreditsIn(outbox) /\ Credits' = Credits
  BY <1>1 DEF Credits
<1>6. CountInv'
  BY <1>1, <1>2, <1>5 DEF CountInv, CreditsConserved
<1> QED
  BY <1>4, <1>6

\* A call is made: nothing has been sent for it.
LEMMA AskCounts ==
  ASSUME DriverInv, CreditInv, Issue \/ LineIsLow \/ ReadBufferSize
  PROVE  SizeInv' /\ CountInv'
<1> USE DEF CreditInv
<1>1. UNCHANGED <<outbox, rx, received, used, free, lost, on>> /\ answered' = None
  BY DEF Issue, LineIsLow, ReadBufferSize, Ask, host, link, wire, chip
<1>2. pc \in {"ready", "boot", "size"}
  BY DEF Issue, LineIsLow, ReadBufferSize, At
<1>3. Coming' = Coming /\ \A p \in Coming : p.tag = None
  BY <1>1, <1>2 DEF Coming, DriverInv, AnswerInv
<1>4. Credits' = Credits /\ CreditsIn(outbox)' = CreditsIn(outbox)
  BY <1>1 DEF Credits
<1>5. CASE Issue
  <2>1. PICK c \in HostCalls, sd \in Sds :
          Ask(c, sd, IF ~on THEN "corrupted" ELSE IF IsSend(c) THEN "credit" ELSE "write")
    BY <1>5 DEF Issue
  <2>2. /\ pc = "ready" /\ cmd = None /\ cmd'.call = c
        /\ pc' = IF ~on THEN "corrupted" ELSE IF IsSend(c) THEN "credit" ELSE "write"
    BY <1>5, <2>1 DEF Issue, At, Ask, DriverInv, TypeInv, BetweenCalls, NoCall
  <2>3. c \notin {SimpleLink_Init_Start, read_buffer_size}
    BY CallsAssumption
  <2>4. ~SettingUp' /\ (Known' => Known)
    BY <1>1, <2>2, <2>3 DEF SettingUp, Known
  <2>5. Underway = 0 /\ Underway' = 0
    BY <2>2 DEF Underway, IsSend
  <2>6. SizeInv'
    BY <1>3, <2>4 DEF SizeInv
  <2>7. CountInv'
    BY <1>1, <1>4, <2>4, <2>5 DEF CountInv, CreditsConserved
  <2> QED
    BY <2>6, <2>7
<1>6. CASE LineIsLow \/ ReadBufferSize
  <2>1. cmd'.call \in {SimpleLink_Init_Start, read_buffer_size} /\ cmd' # None
    <3>1. cmd' \in Commands
      BY <1>6 DEF LineIsLow, ReadBufferSize, Ask, Commands, CallTags, DriverInv, TypeInv,
                  CcTypeOK, Values
    <3> QED
      BY <1>6, <3>1, NoneAssumption DEF LineIsLow, ReadBufferSize, Ask
  <2>2. ~Known' /\ SettingUp
    BY <1>2, <1>6, <2>1 DEF Known, SettingUp, LineIsLow, ReadBufferSize, At
  <2>3. SizeInv'
    BY <1>1, <1>3, <2>2 DEF SizeInv
  <2> QED
    BY <1>4, <2>2, <2>3 DEF CountInv, CreditsConserved
<1> QED
  BY <1>5, <1>6

\* A call is done: that of read_buffer_size leaves all the buffers free.
LEMMA FinishCounts ==
  ASSUME DriverInv, CreditInv, Finish
  PROVE  SizeInv' /\ CountInv'
<1> USE DEF CreditInv
<1>1. /\ UNCHANGED <<outbox, rx, received, used, free, lost, on>>
      /\ pc = "done" /\ cmd' = None /\ answered' = None
      /\ pc' = IF cmd.call.op = START THEN "size" ELSE "ready"
  BY DEF Finish, At, link, wire, chip
<1>2. Coming' = Coming /\ \A p \in Coming : p.tag = None
  BY <1>1 DEF Coming, DriverInv, AnswerInv
<1>3. Credits' = Credits /\ CreditsIn(outbox)' = CreditsIn(outbox)
  BY <1>1 DEF Credits
<1>4. Underway = 0 /\ Underway' = 0
  BY <1>1 DEF Underway
<1>5. on /\ cmd # None /\ answered # None
  BY <1>1, WhoseCall DEF DriverInv, StageInv, TypeInv, BetweenCalls, NoCall
<1>6. CASE cmd.call = SimpleLink_Init_Start
  <2>1. pc' = "size" /\ ~Known' /\ SettingUp
    BY <1>1, <1>5, <1>6 DEF Known, SettingUp, START
  <2>2. SizeInv'
    BY <1>1, <1>2, <2>1 DEF SizeInv
  <2> QED
    BY <1>3, <2>1, <2>2 DEF CountInv, CreditsConserved
<1>7. CASE cmd.call = read_buffer_size
  <2>1. pc' = "ready" /\ ~SettingUp' /\ SettingUp
    BY <1>1, <1>5, <1>7, OwnCalls DEF Known, SettingUp
  <2>2. SizeInv'
    BY <1>2, <2>1 DEF SizeInv
  <2>3. used = 0 /\ lost = 0 /\ free = ChipBuffers /\ \A p \in ToSet(outbox) : p.op # FREE_BUFF
    BY <1>5, <1>7, <2>1 DEF SizeInv
  <2>4. outbox \in Seq(Packets)
    BY DEF DriverInv, TypeInv, CcTypeOK, Values
  <2>5. \A i \in 1..Len(outbox) : outbox[i] \in ToSet(outbox)
    BY <2>4, InRow, LenProperties
  <2>6. CreditsIn(outbox) = {}
    BY <2>3, <2>5, CreditsOf
  <2>7. Credits' = 0
    BY <1>3, <2>6, FS_EmptySet DEF Credits
  <2>8. free' + used' + Credits' + Underway' + lost' = ChipBuffers
    BY <1>1, <1>4, <2>3, <2>7, BoundsAssumption
  <2> QED
    BY <1>3, <2>2, <2>8 DEF CountInv, CreditsConserved
<1>8. CASE cmd.call \notin {SimpleLink_Init_Start, read_buffer_size}
  <2>1. Known /\ cmd.call \in HostCalls
    BY <1>1, <1>8, WhoseCall
  <2>2. pc' = "ready"
    BY <1>1, <2>1, CallsAssumption DEF START
  <2>3. ~SettingUp'
    BY <1>1, <1>5, <2>2 DEF SettingUp, Known
  <2>4. SizeInv'
    BY <1>2, <2>3 DEF SizeInv
  <2>5. CountInv'
    BY <1>1, <1>3, <1>4, <2>1 DEF CountInv, CreditsConserved
  <2> QED
    BY <2>4, <2>5
<1> QED
  BY <1>6, <1>7, <1>8

\* HostFlowControlConsumeBuff: a credit is spent for the packet that goes out
\* next, and what was freed since it was read is lost.
LEMMA FlowCounts ==
  ASSUME DriverInv, CreditInv, FlowControl
  PROVE  SizeInv' /\ CountInv'
<1> USE DEF CreditInv
<1>1. /\ pc \in {"credit", "buffer", "spend"}
      /\ UNCHANGED <<outbox, rx, received, used, on>>
  BY DEF FlowControl, RefusedForError, RefusedForInactive, RefusedForTime, NoErrors,
         NoBuffer, ReadCredit, SpendCredit, At, link, wire, chip
<1>2. cmd # None /\ on /\ IsSend(cmd.call) /\ Known
  BY <1>1, WhoseCall DEF CallInv, DriverInv, TypeInv, BetweenCalls, NoCall
<1>3. Underway = 0
  BY <1>1 DEF Underway
<1>4. Coming' = Coming /\ \A p \in Coming : p.tag = None
  BY <1>1 DEF Coming, DriverInv, AnswerInv
<1>5. Credits' = Credits /\ CreditsIn(outbox)' = CreditsIn(outbox)
  BY <1>1 DEF Credits
<1>6. CASE RefusedForError \/ RefusedForInactive \/ RefusedForTime
  <2>1. pc' = "ready" /\ cmd' = None /\ UNCHANGED <<free, lost>>
    BY <1>6 DEF RefusedForError, RefusedForInactive, RefusedForTime, Back, host
  <2>2. Underway' = 0 /\ ~SettingUp'
    BY <1>1, <1>2, <2>1 DEF Underway, SettingUp, Known
  <2>3. SizeInv'
    BY <1>4, <2>2 DEF SizeInv
  <2>4. CountInv'
    BY <1>1, <1>2, <1>3, <1>5, <2>1, <2>2 DEF CountInv, CreditsConserved
  <2> QED
    BY <2>3, <2>4
<1>7. CASE NoErrors \/ NoBuffer \/ ReadCredit
  <2>1. /\ UNCHANGED <<cmd, free, lost, answered>>
        /\ pc' \in {"credit", "buffer", "spend"}
    BY <1>7 DEF NoErrors, NoBuffer, ReadCredit, Goto, host, past
  <2>2. Underway' = Underway
    BY <1>3, <2>1 DEF Underway
  <2> QED
    BY <1>1, <2>1, <2>2, QuietCounts
<1>8. CASE SpendCredit
  <2>1. /\ pc = "spend" /\ pc' = "write" /\ UNCHANGED <<cmd, taken>>
        /\ free' = credit - 1 /\ lost' = lost + (free - credit)
    BY <1>8 DEF SpendCredit, At
  <2>2. taken = 0
    BY <2>1 DEF DriverInv, PatchInv, StageInv, TypeInv, CcTypeOK, Flags
  <2>3. Underway' = 1 /\ ~SettingUp'
    BY <1>1, <1>2, <2>1, <2>2 DEF Underway, SettingUp, Known, IsSend
  <2>4. SizeInv'
    BY <1>4, <2>3 DEF SizeInv
  <2>5. free + used + Credits + lost = ChipBuffers
    BY <1>2, <1>3, Summands DEF CountInv, CreditsConserved
  <2>6. credit \in Nat
    BY DEF DriverInv, TypeInv, CcTypeOK, Values
  <2>7. free' + used' + Credits' + Underway' + lost' = ChipBuffers
    <3>1. (credit - 1) + used + Credits + 1 + (lost + (free - credit))
            = free + used + Credits + lost
      BY <2>6, Summands
    <3> QED
      BY <1>1, <1>5, <2>1, <2>3, <2>5, <3>1
  <2>8. CountInv'
    BY <1>5, <2>7 DEF CountInv, CreditsConserved
  <2> QED
    BY <2>4, <2>8
<1> QED
  BY <1>6, <1>7, <1>8 DEF FlowControl

\* The chip that takes a packet keeps it in one of its buffers.
LEMMA WriteCounts ==
  ASSUME DriverInv, CreditInv, Write,
         UNCHANGED <<outbox, rx, received, cmd, patching, free, lost, answered, on>>,
         \/ pc' = pc \/ (pc = "second" /\ pc' = "sent")
         \/ (pc = "poll" /\ pc' = "loop")
  PROVE  SizeInv' /\ CountInv'
<1> USE DEF CreditInv
<1>1. UNCHANGED <<outbox, rx, received, cmd, patching, free, lost, answered, on>>
  OBVIOUS
<1>2. \/ pc' = pc
      \/ pc \notin {"off", "boot", "size", "corrupted"}
         /\ pc' \notin {"off", "boot", "size", "corrupted"}
  OBVIOUS
<1>3. CASE UNCHANGED <<used, taken>>
  <2>1. Underway' = Underway
    BY <1>1, <1>3 DEF Underway, IsSend
  <2> QED
    BY <1>1, <1>2, <1>3, <2>1, QuietCounts
<1>4. CASE ~UNCHANGED <<used, taken>>
  <2>1. /\ cs /\ ~patching
        /\ used' = used + IF IsSend(cmd.call) THEN 1 ELSE 0
        /\ taken' = taken + 1
    BY <1>4 DEF Write
  <2>2. taken = 0 /\ pc \in {"check", "second", "sent"}
    BY <2>1 DEF DriverInv, StageInv
  <2>3. /\ cmd # None
        /\ ~IsSend(cmd.call) \/ Known
    BY <2>2, WhoseCall DEF DriverInv, TypeInv, BetweenCalls, NoCall
  <2>4. CASE ~IsSend(cmd.call)
    <3>1. used' = used
      BY <2>1, <2>4, Summands
    <3>2. Underway' = Underway
      BY <1>1, <2>4 DEF Underway, IsSend
    <3> QED
      BY <1>1, <1>2, <3>1, <3>2, QuietCounts
  <2>5. CASE IsSend(cmd.call)
    <3>1. used' = used + 1 /\ Underway = 1
      BY <2>1, <2>2, <2>3, <2>5 DEF Underway
    <3>2. taken' = 1
      BY <2>1, <2>2
    <3>3. Underway' = 0
      BY <3>2 DEF Underway
    <3>4. Known /\ ~SettingUp'
      BY <1>1, <1>2, <2>2, <2>3, <2>5 DEF SettingUp, Known
    <3>5. Coming' = Coming /\ Credits' = Credits /\ CreditsIn(outbox)' = CreditsIn(outbox)
      BY <1>1 DEF Coming, Credits
    <3>6. SizeInv'
      BY <1>1, <3>4, <3>5 DEF SizeInv
    <3>7. free' + used' + Credits' + Underway' + lost' = ChipBuffers
      BY <1>1, <3>1, <3>3, <3>4, <3>5, Summands DEF CountInv, CreditsConserved
    <3> QED
      BY <3>5, <3>6, <3>7 DEF CountInv, CreditsConserved
  <2> QED
    BY <2>4, <2>5
<1> QED
  BY <1>3, <1>4

\* SpiWrite: a packet that has not been taken is still on its way.
LEMMA SpiWriteCounts ==
  ASSUME DriverInv, CreditInv, SpiWrite
  PROVE  SizeInv' /\ CountInv'
<1> USE DEF CreditInv
<1>1. UNCHANGED <<outbox, rx, received, cmd, free, lost, answered, on>>
  BY DEF SpiWrite, WriteOverrun, SpiFirstWrite, SpiAskToWrite, SpiCheckPin, SpiWriteAnyway,
         SpiWritten, Goto, host, link, wire, chip, past
<1>2. CASE SpiWriteAnyway
  <2>1. Write /\ pc = "second" /\ pc' = "sent" /\ patching' = patching
    BY <1>2 DEF SpiWriteAnyway, Goto, At
  <2> QED
    BY <1>1, <2>1, WriteCounts
<1>3. CASE SpiFirstWrite
  <2>1. pc = "write" /\ pc' = "sent" /\ used' = used /\ spi = "INITIALIZED"
    BY <1>3 DEF SpiFirstWrite, MayWrite, Goto, At
  <2>2. cmd # None => ~IsSend(cmd.call)
    BY <2>1, WhoseCall DEF CallInv
  <2>3. Underway = 0 /\ Underway' = 0
    BY <1>1, <2>2 DEF Underway, IsSend
  <2> QED
    BY <1>1, <2>1, <2>3, QuietCounts
<1>4. CASE SpiWritten
  <2>1. /\ pc = "sent" /\ spi = "IDLE" /\ pc' \in {"loop", "arm"} /\ used' = used
    BY <1>4 DEF SpiWritten, At, chip
  <2>2. taken # 0
    BY <2>1 DEF WireInv
  <2>3. Underway = 0 /\ Underway' = 0
    BY <2>1, <2>2 DEF Underway
  <2> QED
    BY <1>1, <2>1, <2>3, QuietCounts
<1>5. CASE WriteOverrun \/ SpiAskToWrite \/ SpiCheckPin
  <2>1. /\ pc \in {"write", "check"} /\ pc' \in {"stuck", "check", "second", "sent"}
        /\ UNCHANGED <<used, taken>>
    BY <1>5 DEF WriteOverrun, SpiAskToWrite, SpiCheckPin, MayWrite, Goto, At, chip, past
  <2>2. Underway' = Underway
    BY <1>1, <2>1 DEF Underway, IsSend
  <2> QED
    BY <1>1, <2>1, <2>2, QuietCounts
<1> QED
  BY <1>2, <1>3, <1>4, <1>5 DEF SpiWrite

\* The routine reads a packet: the buffers that an event releases are free,
\* whoever waits for what.
LEMMA ReadCounts ==
  ASSUME DriverInv, CreditInv,
         rx' = IF low /\ outbox # <<>> THEN Head(outbox) ELSE Nothing,
         outbox' = IF low /\ outbox # <<>> THEN Tail(outbox) ELSE outbox,
         Handle(rx'),
         UNCHANGED <<cmd, on, used, taken, answered, lost>>,
         pc' = pc \/ (pc = "poll" /\ pc' = "loop")
  PROVE  SizeInv' /\ CountInv'
<1> USE DEF CreditInv
<1>1. /\ UNCHANGED <<cmd, on, used, taken, answered, lost>>
      /\ pc' = pc \/ (pc = "poll" /\ pc' = "loop")
  OBVIOUS
<1>2. (Known' <=> Known) /\ (SettingUp' <=> SettingUp)
  BY <1>1 DEF SettingUp, Known
<1>3. Underway' = Underway
  BY <1>1 DEF Underway, IsSend
<1>4. outbox \in Seq(Packets) /\ \A p \in ToSet(outbox) : Sound(p)
  BY DEF DriverInv, TypeInv, CcTypeOK, Values
<1>5. CASE low /\ outbox # <<>>
  <2> DEFINE p == Head(outbox)
  <2>1. rx' = p /\ outbox' = Tail(outbox) /\ Handle(p)
    BY <1>5
  <2>2. /\ p \in ToSet(outbox) /\ ToSet(outbox') \subseteq ToSet(outbox) /\ Sound(p)
    BY <1>4, <1>5, <2>1, TakingFirst
  <2> HIDE DEF p
  <2>3. p.op = FREE_BUFF => p.status \in Nat
    BY <2>2, Opcodes DEF Sound, Packets
  <2>4. free' = free + Released(p) /\ Released(p) \in Nat
    <3>1. Released(p) \in Nat
      BY <2>3 DEF Released
    <3>2. CASE p.op = FREE_BUFF
      <4>1. p.op # DATA /\ p.op # JUNK /\ Unsolicited(p.op, p.status, awaited)
        BY <3>2, Opcodes DEF Unsolicited
      <4> QED
        BY <2>1, <3>1, <4>1 DEF Handle
    <3>3. CASE p.op # FREE_BUFF
      <4>1. Released(p) = 0
        BY <3>3 DEF Released
      <4>2. free' \in {free, free + Released(p)}
        BY <2>1 DEF Handle
      <4> QED
        BY <4>1, <4>2, Summands
    <3> QED
      BY <3>1, <3>2, <3>3
  <2>5. /\ IsFiniteSet(CreditsIn(outbox'))
        /\ Cardinality(CreditsIn(outbox)) = Cardinality(CreditsIn(outbox')) + Released(p)
    BY <1>4, <1>5, <2>1, <2>3, CreditsTaken DEF CountInv, p
  <2>6. Credits = Credits' + Released(p) /\ Credits' \in Nat
    BY <2>5, FS_CardinalityType DEF Credits
  <2>7. CountInv'
    <3>1. Known => free' + used' + Credits' + Underway' + lost' = ChipBuffers
      BY <1>1, <1>3, <2>4, <2>6, Summands DEF CountInv, CreditsConserved
    <3> QED
      BY <1>2, <2>5, <3>1 DEF CountInv, CreditsConserved
  <2>8. Coming' \subseteq Coming
    BY <2>1, <2>2 DEF Coming
  <2>9. SettingUp => free' = free
    <3>1. SettingUp => Released(p) = 0
      BY <2>2 DEF SizeInv, Released
    <3> QED
      BY <2>4, <3>1, Summands
  <2>10. SizeInv'
    BY <1>1, <1>2, <2>2, <2>8, <2>9 DEF SizeInv
  <2> QED
    BY <2>7, <2>10
<1>6. CASE ~(low /\ outbox # <<>>)
  <2>1. rx' = Nothing /\ outbox' = outbox /\ Handle(Nothing)
    BY <1>6
  <2>2. free' = free
    BY <2>1 DEF Handle, Nothing
  <2>3. \A p \in Coming' : p \in Coming \/ p = Nothing
    BY <2>1 DEF Coming
  <2>4. Nothing.tag = None /\ Nothing.op # read_buffer_size.op
    BY OwnCalls, Opcodes DEF Nothing
  <2>5. SizeInv'
    BY <1>1, <1>2, <2>1, <2>2, <2>3, <2>4 DEF SizeInv
  <2>6. CreditsIn(outbox)' = CreditsIn(outbox) /\ Credits' = Credits
    BY <2>1 DEF Credits
  <2>7. CountInv'
    BY <1>1, <1>2, <1>3, <2>2, <2>6 DEF CountInv, CreditsConserved
  <2> QED
    BY <2>5, <2>7
<1> QED
  BY <1>5, <1>6

\* The routine, called by the interrupt or by the poll.
LEMMA RoutineCounts ==
  ASSUME DriverInv, CreditInv, SPI_IRQ, UNCHANGED <<cmd, patching, on>>,
         pc' = pc \/ (pc = "poll" /\ pc' = "loop")
  PROVE  SizeInv' /\ CountInv'
<1>1. CASE spi = "POWERUP" \/ spi = "INITIALIZED"
  <2>1. UNCHANGED <<outbox, rx, received, used, free, lost, answered, taken>>
    BY <1>1 DEF SPI_IRQ, link, host, chip, past
  <2>2. Underway' = Underway
    BY <2>1 DEF Underway, IsSend
  <2> QED
    BY <2>1, <2>2, QuietCounts DEF CreditInv
<1>2. CASE spi = "IDLE"
  <2>1. /\ rx' = IF low /\ outbox # <<>> THEN Head(outbox) ELSE Nothing
        /\ outbox' = IF low /\ outbox # <<>> THEN Tail(outbox) ELSE outbox
        /\ Handle(rx')
        /\ UNCHANGED <<used, taken, answered, lost>>
    BY <1>2 DEF SPI_IRQ
  <2> QED
    BY <2>1, ReadCounts
<1>3. CASE spi = "WRITE_IRQ"
  <2>1. Write /\ UNCHANGED <<outbox, rx, received, free, lost, answered>>
    BY <1>3 DEF SPI_IRQ, host
  <2> QED
    BY <2>1, WriteCounts
<1> QED
  BY <1>1, <1>2, <1>3 DEF DriverInv, TypeInv, CcTypeOK, Values

\* The main program takes an answer out of the buffer: only that of
\* read_buffer_size says how many buffers are free.
LEMMA HandlerCounts ==
  ASSUME DriverInv, CreditInv, HandleEvent \/ HandleData
  PROVE  SizeInv' /\ CountInv'
<1> USE DEF CreditInv
<1>1. /\ pc = "loop" /\ pc' \in {"patch", "loop", "armData", "done"} /\ received /\ ~received'
      /\ UNCHANGED <<cmd, rx, outbox, used, lost, on>>
  BY DEF HandleEvent, HandleData, SpiResumeSpi, Onward, Goto, At, wire, chip
<1>2. /\ rx \in Coming
      /\ \/ HandleData /\ rx.op = DATA /\ rx.tag # None
         \/ HandleEvent /\ rx.op # DATA /\ rx.tag # None
         \/ HandleEvent /\ rx.op = PATCHES_REQ /\ rx.op # awaited
  BY WhatIsHandled DEF DriverInv
<1>3. /\ cmd # None /\ on
      /\ \/ Known /\ cmd.call \in HostCalls
         \/ SettingUp /\ cmd.call \in {SimpleLink_Init_Start, read_buffer_size}
  BY <1>1, WhoseCall DEF DriverInv, TypeInv, BetweenCalls, NoCall
<1>4. (Known' <=> Known) /\ (SettingUp' <=> SettingUp)
  BY <1>1 DEF SettingUp, Known
<1>5. Underway = 0 /\ Underway' = 0
  BY <1>1 DEF Underway
<1>6. Coming' \subseteq Coming
  BY <1>1 DEF Coming
<1>7. Credits' = Credits /\ CreditsIn(outbox)' = CreditsIn(outbox)
  BY <1>1 DEF Credits
<1>8. rx.tag # None => rx.op \in {cmd.call.event, DATA}
  BY <1>2 DEF DriverInv, AnswerInv
<1>9. Known => free' = free
  <2> SUFFICES ASSUME Known
               PROVE  free' = free
    OBVIOUS
  <2>1. cmd.call \in HostCalls
    BY <1>3 DEF SettingUp
  <2>2. cmd.call.event # read_buffer_size.op
    BY <2>1, CallsAssumption
  <2>3. PATCHES_REQ # read_buffer_size.op
    BY OwnCalls, Opcodes
  <2> QED
    BY <1>2, <1>8, <2>2, <2>3 DEF HandleEvent, HandleData
<1>10. SettingUp /\ cmd.call = read_buffer_size /\ answered' # None => free' = ChipBuffers
  <2> SUFFICES ASSUME SettingUp, cmd.call = read_buffer_size, answered' # None
               PROVE  free' = ChipBuffers
    OBVIOUS
  <2>1. CASE HandleData /\ rx.op = DATA /\ rx.tag # None
    <3>1. cmd.call.data
      BY <1>2, <2>1 DEF SizeInv
    <3> QED
      BY <3>1, OwnCalls
  <2>2. CASE HandleEvent /\ rx.op # DATA /\ rx.tag # None
    <3>1. rx.op = read_buffer_size.op
      BY <1>8, <2>2, OwnCalls
    <3>2. free' = rx.status
      BY <2>2, <3>1 DEF HandleEvent
    <3> QED
      BY <1>2, <3>1, <3>2 DEF SizeInv
  <2>3. CASE HandleEvent /\ rx.op = PATCHES_REQ /\ rx.op # awaited
    <3>1. PATCHES_REQ # read_buffer_size.op
      BY OwnCalls, Opcodes
    <3>2. free' = free /\ answered' = answered
      BY <2>3, <3>1 DEF HandleEvent
    <3> QED
      BY <1>3, <3>2 DEF SizeInv
  <2> QED
    BY <1>2, <2>1, <2>2, <2>3
<1>11. SizeInv'
  BY <1>1, <1>4, <1>6, <1>10 DEF SizeInv
<1>12. CountInv'
  BY <1>1, <1>4, <1>5, <1>7, <1>9 DEF CountInv, CreditsConserved
<1> QED
  BY <1>11, <1>12

\* The chip is switched on and off: its buffers are empty.
LEMMA PowerCounts ==
  ASSUME DriverInv, CreditInv, wlan_start \/ wlan_stop
  PROVE  SizeInv' /\ CountInv'
<1> USE DEF CreditInv
<1>1. pc \in {"off", "ready"} /\ cmd = None /\ cmd' = None
  BY DEF wlan_start, wlan_stop, At, Goto, DriverInv, TypeInv, BetweenCalls, NoCall
<1>2. \A p \in Coming : p.tag = None
  BY <1>1 DEF DriverInv, AnswerInv
<1>3. CASE wlan_start
  <2>1. pc = "off" /\ pc' = "boot" /\ ~received' /\ UNCHANGED <<outbox, used, lost>>
    BY <1>3 DEF wlan_start, At, Goto, chip, past
  <2>2. SettingUp /\ ~Known'
    BY <2>1 DEF SettingUp, Known
  <2>3. Coming' \subseteq Coming
    BY <2>1 DEF Coming
  <2>4. SizeInv'
    BY <1>1, <1>2, <2>1, <2>2, <2>3 DEF SizeInv
  <2>5. CountInv'
    BY <2>1, <2>2 DEF CountInv, CreditsConserved
  <2> QED
    BY <2>4, <2>5
<1>4. CASE wlan_stop
  <2>1. on' = FALSE /\ outbox' = <<>> /\ used' = 0 /\ lost' = 0 /\ UNCHANGED <<rx, received>>
    BY <1>4 DEF wlan_stop
  <2>2. ~Known'
    BY <2>1 DEF Known
  <2>3. ToSet(<<>>) = {} /\ CreditsIn(<<>>) = {}
    BY CreditsOf DEF ToSet
  <2>4. Coming' \subseteq Coming
    BY <2>1, <2>3 DEF Coming
  <2>5. SizeInv'
    BY <1>1, <1>2, <2>1, <2>3, <2>4 DEF SizeInv
  <2>6. CountInv'
    BY <2>1, <2>2, <2>3, FS_EmptySet DEF CountInv, CreditsConserved
  <2> QED
    BY <2>5, <2>6
<1> QED
  BY <1>3, <1>4

\* What the chip puts behind its packets, if it releases no buffers and is no
\* wrong answer, changes no count.
LEMMA QueueCounts ==
  ASSUME DriverInv, CreditInv, NEW t \in Seq(Packets), Queue(t),
         UNCHANGED <<main, host, link, wire, past, used>>,
         \A p \in ToSet(t) : /\ p.op # FREE_BUFF
                             /\ p.op = read_buffer_size.op => p.status = ChipBuffers
                             /\ p.tag # None /\ p.op = DATA => cmd.call.data
  PROVE  SizeInv' /\ CountInv'
<1> USE DEF CreditInv
<1>1. UNCHANGED <<pc, cmd, rx, received, free, used, lost, answered, taken, on>>
  BY DEF main, host, link, wire, past
<1>2. outbox \in Seq(Packets) /\ outbox' = outbox \o t
  BY DEF Queue, DriverInv, TypeInv, CcTypeOK, Values
<1>3. ToSet(outbox') \subseteq ToSet(outbox) \cup ToSet(t)
  <2> DEFINE m == Len(outbox)
             n == Len(t)
  <2>1. /\ m \in Nat /\ n \in Nat /\ DOMAIN outbox' = 1..m + n
        /\ DOMAIN outbox = 1..m /\ DOMAIN t = 1..n
        /\ \A i \in 1..m + n : outbox'[i] = IF i <= m THEN outbox[i] ELSE t[i - m]
    BY <1>2, ConcatProperties, LenProperties
  <2> HIDE DEF m, n
  <2>2. \A i \in 1..m + n : i \in 1..m \/ (~(i <= m) /\ i - m \in 1..n)
    BY <2>1
  <2>3. \A i \in 1..m + n : outbox'[i] \in ToSet(outbox) \cup ToSet(t)
    BY <2>1, <2>2, InRow
  <2> QED
    BY <2>1, <2>3, InRow
<1>4. Coming' \subseteq Coming \cup ToSet(t)
  BY <1>1, <1>3 DEF Coming
<1>5. Known' = Known /\ SettingUp' = SettingUp /\ Underway' = Underway
  BY <1>1 DEF Known, SettingUp, Underway, IsSend
<1>6. CreditsIn(outbox)' = CreditsIn(outbox) /\ Credits' = Credits
  BY <1>2, CreditsBefore DEF Credits
<1>7. SizeInv'
  BY <1>1, <1>3, <1>4, <1>5 DEF SizeInv
<1>8. CountInv'
  BY <1>1, <1>5, <1>6 DEF CountInv, CreditsConserved
<1> QED
  BY <1>7, <1>8


\* The chip's answer to the call it serves: its data only with a call that
\* fetches data, and to read_buffer_size the number of its buffers.
LEMMA AnswerCounts ==
  ASSUME DriverInv, CreditInv, ChipAnswers
  PROVE  SizeInv' /\ CountInv'
<1> DEFINE c == serving
<1>1. c \in Commands /\ c = cmd
  BY DEF ChipAnswers, DriverInv, StageInv, TypeInv, CcTypeOK, Values
<1>2. c.call.event \notin {DATA, FREE_BUFF}
  BY <1>1, CallsAssumption, OwnCalls, Opcodes DEF Commands
<1>3. c.call.event = read_buffer_size.op => c.call = read_buffer_size
  BY <1>1, CallsAssumption, OwnCalls DEF Commands
<1>4. PICK p \in Answers(c) \cup Failures(c) :
        /\ p \in Failures(c) => c.call.event \in SEND_EVENTS \cup RECV_EVENTS
        /\ c.call = read_buffer_size => p.status = ChipBuffers
        /\ \/ Queue(<<p>>)
           \/ Queue(<<p, Bytes(c)>>) /\ c.call.data
  <2>1. CASE c.call = read_buffer_size
    <3> DEFINE p == Packet(c.call.event, c.sd, ChipBuffers, c.tag)
    <3>1. c.call # nvmem_read /\ ~IsSend(c.call) /\ c.call.event \notin RECV_EVENTS
      BY <2>1, OwnCalls, Opcodes DEF IsSend
    <3>2. Queue(<<p>>)
      BY <2>1, <3>1 DEF ChipAnswers
    <3>3. p \in Answers(c) /\ p \notin Failures(c) /\ p.status = ChipBuffers
      BY BoundsAssumption DEF Answers, Failures, Packet
    <3> QED
      BY <3>2, <3>3
  <2>2. CASE c.call # read_buffer_size
    BY <2>2, AnswerIsQueued DEF DriverInv
  <2> QED
    BY <2>1, <2>2
<1>5. p.op = c.call.event
  BY <1>4 DEF Answers, Failures, Packet
<1>6. p \in Packets /\ Bytes(c) \in Packets
  BY <1>1, <1>4, AnswersAreSound DEF Sound
<1>7. Bytes(c).op = DATA /\ DATA \notin {FREE_BUFF, read_buffer_size.op}
  BY OwnCalls, Opcodes DEF Bytes, Packet
<1>8. PICK t \in {<<p>>, <<p, Bytes(c)>>} :
        Queue(t) /\ (t = <<p>> \/ c.call.data)
  BY <1>4
<1>9. /\ <<p>> \in Seq(Packets) /\ ToSet(<<p>>) = {p}
      /\ <<p, Bytes(c)>> \in Seq(Packets) /\ ToSet(<<p, Bytes(c)>>) = {p, Bytes(c)}
  BY <1>6, ShortRows
<1>10. t \in Seq(Packets)
  BY <1>8, <1>9
<1>11. \A q \in ToSet(t) : q = p \/ (q = Bytes(c) /\ c.call.data)
  BY <1>8, <1>9
<1>12. UNCHANGED <<main, host, link, wire, past, used>>
  BY DEF ChipAnswers
<1> HIDE DEF c
<1>13. \A q \in ToSet(t) : /\ q.op # FREE_BUFF
                           /\ q.op = read_buffer_size.op => q.status = ChipBuffers
                           /\ q.tag # None /\ q.op = DATA => cmd.call.data
  BY <1>1, <1>2, <1>3, <1>4, <1>5, <1>7, <1>11
<1> QED
  BY <1>8, <1>10, <1>12, <1>13, QueueCounts

\* The chip frees buffers that were used: they are credits on their way.
LEMMA FreeCounts ==
  ASSUME DriverInv, CreditInv, ChipFreesBuffer
  PROVE  SizeInv' /\ CountInv'
<1> USE DEF CreditInv
<1>1. PICK n \in 1..used : Queue(<<Packet(FREE_BUFF, 0, n, None)>>) /\ used' = used - n
  BY DEF ChipFreesBuffer
<1> DEFINE p == Packet(FREE_BUFF, 0, n, None)
<1>2. UNCHANGED <<pc, cmd, rx, received, free, lost, answered, taken, on>>
  BY DEF ChipFreesBuffer, main, host, link, wire, past
<1>3. used \in Nat /\ used > 0 /\ n \in Nat
  BY Summands DEF ChipFreesBuffer
<1>4. p \in Packets /\ p.op = FREE_BUFF /\ p.status = n /\ p.tag = None
  BY <1>3 DEF Packet, Packets, Ops
<1>5. outbox \in Seq(Packets) /\ outbox' = outbox \o <<p>>
  BY <1>1 DEF Queue, DriverInv, TypeInv, CcTypeOK, Values
<1> HIDE DEF p
<1>6. IsFiniteSet(CreditsIn(outbox')) /\ Credits' = Credits + n
  BY <1>3, <1>4, <1>5, CreditsAdded DEF CountInv, Credits
<1>7. ~SettingUp /\ ~SettingUp' /\ Known' = Known /\ Underway' = Underway
  BY <1>2, <1>3 DEF SizeInv, SettingUp, Known, Underway, IsSend
<1>8. CountInv'
  <2>1. free' + used' + Credits' + Underway' + lost'
          = free + used + Credits + Underway + lost
    BY <1>1, <1>2, <1>3, <1>6, <1>7, Summands
  <2> QED
    BY <1>6, <1>7, <2>1 DEF CountInv, CreditsConserved
<1>9. SizeInv'
  <2>1. Sound(p)
    BY <1>4, Opcodes DEF Sound
  <2>2. \A q \in Coming' : q \in Coming \/ q = p
    <3>1. p \in Packets
      BY <1>4
    <3>2. ToSet(<<p>>) = {p} /\ <<p>> \in Seq(Packets) /\ NoTwice(<<p>>)
      BY <3>1, ShortRows
    <3>3. \A q \in ToSet(outbox), r \in ToSet(<<p>>) : ~Alike(q, r) /\ ~Alike(r, q)
      BY <1>4, <3>2, Opcodes DEF Alike, Once
    <3>4. NoTwice(outbox)
      BY DEF DriverInv, OnceInv
    <3>5. outbox \in Seq(Packets)
      BY <1>5
    <3>6. ToSet(outbox \o <<p>>) = ToSet(outbox) \cup ToSet(<<p>>)
      BY ZenonT(40), <3>2, <3>3, <3>4, <3>5, QueueingUp
    <3> QED
      BY <1>2, <1>5, <3>2, <3>6 DEF Coming
  <2>3. p.op # read_buffer_size.op
    BY <1>4, OwnCalls, Opcodes
  <2> QED
    BY <1>2, <1>4, <1>7, <2>2, <2>3 DEF SizeInv
<1> QED
  BY <1>8, <1>9

\* Every step of the chip.
LEMMA ChipCounts ==
  ASSUME DriverInv, CreditInv, Chip
  PROVE  SizeInv' /\ CountInv'
<1>1. CASE ChipPullsLine
  <2>1. UNCHANGED <<pc, cmd, outbox, rx, received, used, free, lost, answered, taken, on>>
    BY <1>1 DEF ChipPullsLine, main, host, link, chip, past
  <2>2. Underway' = Underway
    BY <2>1 DEF Underway, IsSend
  <2> QED
    BY <2>1, <2>2, QuietCounts DEF CreditInv
<1>2. ASSUME NEW p \in Packets, Queue(<<p>>), p.op \notin {FREE_BUFF, read_buffer_size.op},
             p.tag = None, UNCHANGED <<main, host, link, wire, past, used>>
      PROVE  SizeInv' /\ CountInv'
  <2>1. <<p>> \in Seq(Packets) /\ ToSet(<<p>>) = {p}
    BY ShortRows
  <2>2. \A q \in ToSet(<<p>>) :
          /\ q.op # FREE_BUFF
          /\ q.op = read_buffer_size.op => q.status = ChipBuffers
          /\ q.tag # None /\ q.op = DATA => cmd.call.data
    BY <1>2, <2>1
  <2> QED
    BY <1>2, <2>1, <2>2, QueueCounts
<1>3. CASE ChipAsksForPatch \/ ChipReports
  <2>1. UNCHANGED <<main, host, link, wire, past, used>>
    BY <1>3 DEF ChipAsksForPatch, ChipReports
  <2>2. PICK sd \in Sds \cup {0}, s \in {0, -57}, o \in {PATCHES_REQ, CLOSE_WAIT, \h1003} :
          Queue(<<Packet(o, sd, s, None)>>)
    BY <1>3 DEF ChipAsksForPatch, ChipReports
  <2>3. /\ Packet(o, sd, s, None) \in Packets
        /\ Packet(o, sd, s, None).op \notin {FREE_BUFF, read_buffer_size.op}
        /\ Packet(o, sd, s, None).tag = None
    BY OwnCalls, Opcodes DEF Packet, Packets, Ops
  <2> QED
    BY <1>2, <2>1, <2>2, <2>3
<1> QED
  BY <1>1, <1>3, AnswerCounts, FreeCounts DEF Chip

\* Every step keeps the count.
LEMMA CountStep ==
  ASSUME DriverInv, CreditInv, [Next]_vars
  PROVE  SizeInv' /\ CountInv'
<1>1. CASE Isr
  <2>1. SPI_IRQ /\ UNCHANGED <<pc, cmd, patching, on>>
    BY <1>1 DEF Isr, main
  <2> QED
    BY <2>1, RoutineCounts
<1>2. CASE cc3k_int_poll
  <2>1. pc = "poll" /\ pc' = "loop" /\ UNCHANGED <<cmd, patching>>
    BY <1>2 DEF cc3k_int_poll, At, Goto
  <2>2. CASE enabled
    BY <1>2, <2>1, <2>2, RoutineCounts DEF cc3k_int_poll
  <2>3. CASE ~enabled
    <3>1. UNCHANGED <<outbox, rx, received, used, free, lost, answered, taken, on>>
      BY <1>2, <2>3 DEF cc3k_int_poll, host, link, wire, chip, past
    <3>2. Underway' = Underway
      BY <2>1 DEF Underway
    <3> QED
      BY <2>1, <3>1, <3>2, QuietCounts DEF CreditInv
  <2> QED
    BY <2>2, <2>3
<1>3. CASE SimpleLinkWaitEvent \/ SimpleLinkWaitData \/ PollSeesLow \/ HandleJunk
  <2>1. /\ pc \in {"arm", "armData", "loop"} /\ pc' \in {"loop", "poll", "corrupted"}
        /\ UNCHANGED <<cmd, outbox, rx, received, used, free, lost, answered, on>>
    BY <1>3 DEF SimpleLinkWaitEvent, SimpleLinkWaitData, PollSeesLow, HandleJunk, At, Goto,
                host, link, wire, chip, past
  <2>2. Underway = 0 /\ Underway' = 0
    BY <2>1 DEF Underway
  <2> QED
    BY <2>1, <2>2, QuietCounts DEF CreditInv
<1>4. CASE HandlePatchRequest
  <2>1. /\ pc = "patch" /\ pc' \in {"write", "loop"}
        /\ UNCHANGED <<cmd, outbox, rx, received, used, free, lost, answered, taken, on>>
    BY <1>4 DEF HandlePatchRequest, At, host, link, wire, chip
  <2>2. taken = 1
    BY <2>1 DEF DriverInv, PatchInv, StageInv
  <2>3. Underway = 0 /\ Underway' = 0
    BY <2>1, <2>2 DEF Underway
  <2> QED
    BY <2>1, <2>3, QuietCounts DEF CreditInv
<1>5. CASE UNCHANGED vars
  <2>1. UNCHANGED <<pc, cmd, outbox, rx, received, used, free, lost, answered, taken, on>>
    BY <1>5 DEF vars, main, host, link, wire, chip, past
  <2>2. Underway' = Underway
    BY <2>1 DEF Underway, IsSend
  <2> QED
    BY <2>1, <2>2, QuietCounts DEF CreditInv
<1> QED
  BY <1>1, <1>2, <1>3, <1>4, <1>5, AskCounts, FinishCounts, FlowCounts, SpiWriteCounts,
     HandlerCounts, PowerCounts, ChipCounts DEF Next, Main, hci_event_handler

\* No buffer of the chip is forgotten and none is counted twice, whatever the
\* interrupt routine frees while a credit is spent: the free ones, those in use,
\* the credits on their way back, the packet on its way out and what the
\* unprotected decrement lost are all of them (socket.cpp
\* HostFlowControlConsumeBuff, evnt_handler.cpp
\* hci_event_unsol_flowcontrol_handler, wlan.cpp wlan_start).
THEOREM BuffersAreConserved == Spec => []CreditsConserved
<1>1. Init => CreditInv
  <2> SUFFICES ASSUME Init
               PROVE  CreditInv
    OBVIOUS
  <2>1. ToSet(<<>>) = {} /\ CreditsIn(<<>>) = {}
    BY CreditsOf DEF ToSet
  <2>2. WireInv /\ CallInv
    BY DEF Init, WireInv, CallInv
  <2>3. SizeInv
    BY <2>1 DEF Init, SizeInv, Coming
  <2>4. CountInv
    BY <2>1, FS_EmptySet DEF Init, CountInv, CreditsConserved, Known
  <2> QED
    BY <2>2, <2>3, <2>4 DEF CreditInv
<1>2. DriverInv /\ CreditInv /\ [Next]_vars => CreditInv'
  BY WireStep, CallStep, CountStep DEF CreditInv
<1>3. CreditInv => CreditsConserved
  BY DEF CreditInv, CountInv
<1> QED
  BY <1>1, <1>2, <1>3, DriverStart, DriverStep, PTL DEF Spec
===============================================================================
