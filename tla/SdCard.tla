--------------------------------- MODULE SdCard ---------------------------------
(***************************************************************************)
(* The driver of an SD card, Sd2Card, and the card at the other end of the *)
(* SPI.  A call is one action: it is computed as a function of a record    *)
(* that holds the driver's fields, its chip select and the card, and       *)
(* `luck` says which step of it goes wrong in the card.  A card that is    *)
(* not selected hears nothing and is read as 0XFF.                         *)
(*                                                                         *)
(* A block has BlockSize bytes, all of the value written last, and two of  *)
(* CRC.  millis() is kept in 16 bits, Wrap values; whether a difference of *)
(* two of them wraps as well depends on the width of an int.               *)
(*                                                                         *)
(* lastCall is a history of that call: whether it returned true, whether   *)
(* what it stands for was done, and the state that it found.               *)
(***************************************************************************)
EXTENDS Integers, Sequences

CONSTANTS NONE, Blocks, BlockSize, Values,
          Wrap,          \* values of a 16-bit time
          ReadTimeout, WriteTimeout, EraseTimeout, InitTimeout,
          MaxSdCalls, MaxSdFaults

VARIABLES sd,            \* driver, chip select and card
          wide,          \* an int has more than 16 bits
          inited,        \* init() returned true
          multi,         \* writeStart() returned true and writeStop() was not called since
          lastCall, hung, sdCalls, sdFaults

sdVars == <<sd, wide, inited, multi, lastCall, hung, sdCalls, sdFaults>>

ERASED == 0
Lucks  == {"fine", "deaf", "silent", "error", "refused", "busy", "unsuited", "unanswered"}

-------------------------------------------------------------------------------
\* A wait that began at t0 ends without an answer: some time is late enough.
Expires(t0, timeout) ==
  \E t \in 0 .. Wrap - 1 : (IF wide THEN t - t0 ELSE (t - t0) % Wrap) > timeout
Wait(s, t0, timeout) == [s EXCEPT !.ok = FALSE, !.hung = ~Expires(t0, timeout)]

chipSelectHigh(s) == [s EXCEPT !.sel = FALSE]
chipSelectLow(s)  == [s EXCEPT !.sel = TRUE]
Fail(s)           == [chipSelectHigh(s) EXCEPT !.ok = FALSE]

\* n calls of spiRec() while a block may be on its way.
Receive(s, n) ==
  IF s.sel /\ s.mode = "sending"
  THEN IF s.pos + n >= BlockSize + 2 THEN [s EXCEPT !.mode = "ready", !.pos = 0]
                                    ELSE [s EXCEPT !.pos = @ + n]
  ELSE s
Bytes(s, n) ==
  [i \in 1 .. n |-> IF s.sel /\ s.mode = "sending" /\ s.pos + i <= BlockSize
                    THEN <<s.data[s.at], s.pos + i>> ELSE NONE]

readEnd(s) ==
  IF s.in THEN [chipSelectHigh(Receive(s, BlockSize + 2 - s.off)) EXCEPT !.in = FALSE] ELSE s

\* cardCommand() waits, but does not mind whether the card stays busy.  A card
\* that has begun a series of writes takes no command.
cardCommand(s, luck) ==
  LET t == chipSelectLow(readEnd(s))
  IN  IF luck = "deaf" \/ t.mode = "multi" THEN [t EXCEPT !.heard = FALSE]
      ELSE [t EXCEPT !.heard = TRUE, !.mode = IF @ = "off" THEN "off" ELSE "ready", !.pos = 0]

\* A block's address, in bytes but for an SDHC card, and where the card finds it.
Address(s, b) == IF s.type # "SDHC" THEN b * BlockSize ELSE b
Located(s, a) == IF s.kind # "SDHC" THEN a \div BlockSize ELSE a
Fits(s) == s.type = "SDHC" <=> s.kind = "SDHC"

waitStartBlock(s, luck, t0) ==
  IF luck = "silent" THEN chipSelectHigh(Wait(s, t0, ReadTimeout))
  ELSE IF luck = "error" THEN Fail(s) ELSE s

\* Mutant: a part of the block that was sent already does not begin a new read.
ContinuesAnyway(s, b, offset) == s.in /\ b = s.blk
Continues(s, b, offset) == s.in /\ b = s.blk /\ offset >= s.off

\* readData() up to the first byte, from it on, and as a whole.
Opened(s, b, luck, t0) ==
  LET t == cardCommand([s EXCEPT !.blk = b], luck)
      a == Located(s, Address(s, b))
      u == waitStartBlock([t EXCEPT !.ok = TRUE, !.mode = "sending", !.at = a], luck, t0)
  IN  IF ~t.heard \/ t.mode = "off" \/ a \notin Blocks THEN Fail(t)
      ELSE IF ~u.ok THEN [u EXCEPT !.mode = "ready"]
      ELSE [u EXCEPT !.off = 0, !.in = TRUE]
Transferred(s, offset, count) ==
  LET skipped == IF offset > s.off THEN Receive(s, offset - s.off) ELSE s
      t == [Receive(skipped, count) EXCEPT !.off = offset + count, !.got = Bytes(skipped, count)]
  IN  IF ~t.partial \/ t.off >= BlockSize THEN readEnd(t) ELSE t
readData(s, b, offset, count, luck, t0) ==
  LET t == IF Continues(s, b, offset) THEN s ELSE Opened(s, b, luck, t0)
  IN  IF count = 0 THEN s
      ELSE IF count + offset > BlockSize THEN Fail(s)
      ELSE IF ~t.ok THEN t ELSE Transferred(t, offset, count)

\* writeData(): the token, the bytes and the answer of the card.
writeData(s, b, v, luck) ==
  IF ~s.sel \/ luck = "refused" THEN Fail(s) ELSE [s EXCEPT !.data[b] = v]

waitNotBusy(s, luck, t0, timeout) ==
  IF luck = "busy" /\ s.sel THEN Wait(s, t0, timeout - 1) ELSE s

\* The steps of a call up to the first that fails.
Then(s, Step(_)) == IF s.ok THEN Step(s) ELSE s
Commanded(s, luck) ==
  LET t == cardCommand(s, luck) IN IF t.heard /\ t.mode = "ready" THEN t ELSE Fail(t)

writeBlock(s, b, v, luck, t0) ==
  LET Data(t)  == writeData(t, Located(t, Address(t, b)), v, luck)
      Flash(t) == LET u == waitNotBusy(t, luck, t0, WriteTimeout) IN IF u.ok THEN u ELSE chipSelectHigh(u)
      Check(t) == IF luck = "error" THEN Fail(t) ELSE chipSelectHigh(Commanded(t, "fine"))
  IN  IF b = 0 THEN Fail(s)
      ELSE Then(Then(Then(Commanded(s, luck), Data), Flash), Check)

readRegister(s, luck, t0) ==
  LET Token(t) == waitStartBlock(t, luck, t0)
  IN  Then(Then(Commanded(s, luck), Token), chipSelectHigh)

erase(s, first, end, luck, t0) ==
  LET Suited(t) == IF luck = "unsuited" THEN Fail(t) ELSE t
      Cleared(t) == [t EXCEPT !.data = [b \in Blocks |-> IF b \in first .. end THEN ERASED ELSE @[b]]]
      Command(t) == IF luck = "refused" THEN Fail(t) ELSE Cleared(Commanded(t, "fine"))
      Flash(t)   == LET u == waitNotBusy(t, luck, t0, EraseTimeout) IN chipSelectHigh(u)
  IN  Then(Then(Then(readRegister(s, luck, t0), Suited), Command), Flash)

writeStart(s, b, luck) ==
  LET Begin(t) == IF luck = "refused" THEN Fail(t)
                  ELSE [t EXCEPT !.mode = "multi", !.at = Located(t, Address(t, b))]
  IN  IF b = 0 THEN Fail(s) ELSE Then(Commanded(s, luck), Begin)
writeNext(s, v, luck, t0) ==
  LET t == waitNotBusy(s, luck, t0, WriteTimeout)
      u == writeData(t, s.at, v, luck)
  IN  IF ~t.ok THEN chipSelectHigh(t) ELSE IF u.ok THEN [u EXCEPT !.at = @ + 1] ELSE u
writeStop(s, luck, t0) ==
  LET t == waitNotBusy(s, luck, t0, WriteTimeout)
  IN  IF ~t.ok THEN chipSelectHigh(t)
      ELSE chipSelectHigh([t EXCEPT !.mode = IF t.sel THEN "ready" ELSE @])

\* init(): the steps, and all of them.
Idled(t, luck, t0) ==
  LET u == cardCommand(t, luck)
  IN  IF u.heard THEN [u EXCEPT !.mode = "off"] ELSE chipSelectHigh(Wait(u, t0, InitTimeout))
\* The 0XFF of a CMD8 that is not answered has the bit of an illegal command, so that
\* the card is taken for one of version 1; an SDHC card does not get ready for a host
\* that does not say that it knows such cards.
Versioned(t, luck) ==
  IF t.kind = "SD1" \/ luck = "unanswered" THEN [t EXCEPT !.type = "SD1"]
  ELSE IF luck = "error" THEN Fail(t) ELSE [t EXCEPT !.type = "SD2"]
Readied(t, luck, t0) ==
  IF luck = "silent" \/ (t.kind = "SDHC" /\ t.type = "SD1")
  THEN chipSelectHigh(Wait(t, t0, InitTimeout)) ELSE [t EXCEPT !.mode = "ready"]
Measured(t, luck) ==
  IF t.type # "SD2" THEN t ELSE IF luck = "refused" THEN Fail(t)
  ELSE [t EXCEPT !.type = IF t.kind = "SDHC" THEN "SDHC" ELSE @]

init(s, luck, t0) ==
  LET Fresh == [s EXCEPT !.in = FALSE, !.partial = FALSE, !.type = NONE, !.sel = FALSE]
      Idle(t)     == Idled(t, luck, t0)
      Version(t)  == Versioned(t, luck)
      Wake(t)     == Readied(t, luck, t0)
      Capacity(t) == Measured(t, luck)
  IN  Then(Then(Then(Then(Then(Fresh, Idle), Version), Wake), Capacity), chipSelectHigh)

-------------------------------------------------------------------------------
NewCard(kind) ==
  [sel |-> FALSE, in |-> FALSE, blk |-> 0, off |-> 0, partial |-> FALSE, type |-> NONE,
   ok |-> TRUE, hung |-> FALSE, heard |-> TRUE, got |-> <<>>,
   kind |-> kind, mode |-> "off", at |-> 0, pos |-> 0, data |-> [b \in Blocks |-> 1]]

Init == /\ sd \in {NewCard(kind) : kind \in {"SD1", "SD2", "SDHC"}}
        /\ wide \in BOOLEAN
        /\ inited = FALSE /\ multi = FALSE /\ lastCall = NONE /\ hung = FALSE
        /\ sdCalls = 0 /\ sdFaults = 0

\* A call: s is what it leaves, done whether what it stands for has come about.
Call(s, luck, t0, done) ==
  /\ ~hung /\ sdCalls < MaxSdCalls /\ sdCalls' = sdCalls + 1
  /\ luck # "fine" => sdFaults < MaxSdFaults
  /\ sdFaults' = sdFaults + (IF luck = "fine" THEN 0 ELSE 1)
  /\ luck = "fine" => t0 = 0
  /\ sd' = [s EXCEPT !.ok = TRUE, !.hung = FALSE, !.heard = TRUE, !.got = <<>>]
  /\ hung' = s.hung
  /\ lastCall' = [true |-> s.ok, done |-> done, start |-> IF s.hung THEN t0 ELSE NONE,
              inBlock |-> sd.in /\ ~sd.sel, series |-> sd.mode = "multi" /\ ~sd.sel]
  /\ UNCHANGED wide

Initialise(luck, t0) ==
  LET s == init(sd, luck, t0) IN
  /\ ~multi
  /\ Call(s, luck, t0, s.mode = "ready" /\ Fits(s))
  /\ inited' = s.ok /\ UNCHANGED multi

Ready == inited /\ ~multi
Rest  == UNCHANGED <<inited, multi>>

Read(b, offset, count, luck, t0) ==
  LET s == readData(sd, b, offset, count, luck, t0) IN
  /\ Ready /\ Rest
  /\ Call(s, luck, t0, s.got = [i \in 1 .. count |-> <<sd.data[b], offset + i>>])

Write(b, v, luck, t0) ==
  LET s == writeBlock(sd, b, v, luck, t0) IN
  /\ Ready /\ Rest /\ Call(s, luck, t0, s.data[b] = v)

Erase(first, end, luck, t0) ==
  LET s == erase(sd, first, end, luck, t0) IN
  /\ Ready /\ Rest /\ Call(s, luck, t0, \A b \in first .. end : s.data[b] = ERASED)

PartialBlockRead(value) ==
  /\ Ready /\ Rest /\ Call([readEnd(sd) EXCEPT !.partial = value], "fine", 0, TRUE)

Start(b, luck) ==
  LET s == writeStart(sd, b, luck) IN
  /\ Ready /\ Call(s, luck, 0, s.mode = "multi")
  /\ multi' = s.ok /\ UNCHANGED inited
WriteOn(v, luck, t0) ==
  LET s == writeNext(sd, v, luck, t0) IN
  /\ multi /\ sd.at \in Blocks /\ Rest
  /\ Call(s, luck, t0, s.data[sd.at] = v)
Stop(luck, t0) ==
  LET s == writeStop(sd, luck, t0) IN
  /\ multi /\ Call(s, luck, t0, s.mode # "multi")
  /\ multi' = FALSE /\ UNCHANGED inited

Times == {0, Wrap - 2}

Next ==
  \/ \E luck \in Lucks, t0 \in Times :
       \/ Initialise(luck, t0) \/ Stop(luck, t0)
       \/ \E v \in Values : WriteOn(v, luck, t0)
       \/ \E b \in Blocks, v \in Values : Write(b, v, luck, t0)
       \/ \E b \in Blocks, offset \in 0 .. BlockSize - 1, count \in 1 .. BlockSize :
            Read(b, offset, count, luck, t0)
       \/ \E first, end \in Blocks : first <= end /\ Erase(first, end, luck, t0)
  \/ \E value \in BOOLEAN : PartialBlockRead(value)
  \/ \E b \in Blocks, luck \in Lucks : Start(b, luck)

Spec == Init /\ [][Next]_sdVars

-------------------------------------------------------------------------------
TypeOK ==
  /\ sd.off \in 0 .. BlockSize + 2 /\ sd.pos \in 0 .. BlockSize + 1
  /\ sd.mode \in {"off", "ready", "sending", "multi"}
  /\ sd.in => sd.blk \in Blocks

\* A call that returns true has done what it stands for - init() has found out how the
\* card's blocks are addressed, if not its version - unless it found the card
\* deselected: in the middle of a block, after a call refused for its arguments,
\* or of a series of writes, after one of them failed.
TrueMeansDone ==
  lastCall # NONE /\ lastCall.true => lastCall.done \/ lastCall.inBlock \/ lastCall.series

\* A call hangs only when the wait begins just before the 16 bits wrap, within the
\* longest timeout, and only where an int is wider than they are.
HangsAtWrap == hung => wide /\ lastCall.start + EraseTimeout >= Wrap - 1
===============================================================================
