------------------------------ MODULE I2cDevice ------------------------------
(* An open I2C handle of pigpio.c and the device behind it.  The SMBus functions
   (i2cWriteQuick to i2cWriteI2CBlockData) go to the kernel one by one; i2cZip makes
   the segments of several transfers of a string of bytes, and gives them to the
   kernel together.  The device (external) has registers and, for each register, a
   block; a call may fail on the bus, with its bytes taken or not.              *)
EXTENDS Integers, Sequences, FiniteSets, SequencesExt

CONSTANTS
  Base,        \* values of a byte (256 in the code)
  LastReg,     \* the last register (0xFF)
  MaxBlock,    \* the longest block (32)
  PI_MAX_I2C_DEVICE_COUNT,
  MaxMsgs,     \* PI_I2C_RDRW_IOCTL_MAX_MSGS
  Values,      \* bytes and words that are written, and some that do not fit
  Blocks,      \* blocks that are written
  Lists,       \* lists of transfers for i2cZip
  Cuts,        \* bytes that are missing at the end of the string for a list
  OutLens      \* lengths of the buffer for what is read

ASSUME I2cAssumption ==
  /\ Base > 7 /\ LastReg \in 0..Base - 1 /\ Cuts \subseteq Nat
  /\ {MaxBlock, MaxMsgs, PI_MAX_I2C_DEVICE_COUNT} \subseteq Nat \ {0}

VARIABLES
  funcs,       \* i2cInfo[].funcs: what the driver is able to do
  i2cSlave,      \* the registers, the one that byte transfers are at, and the blocks
  believed,    \* the same, as the answers tell it; after a failure it is looked at
  reply,       \* the last answer, and what is believed the answer should be
  zip          \* i2cZip: its buffers, where it is, and what the kernel was given

deviceVars == <<funcs, i2cSlave, believed, reply>>
i2cDeviceVars == <<deviceVars, zip>>

Regs == 0..LastReg
Abilities == {"QUICK", "READ_BYTE", "WRITE_BYTE", "READ_BYTE_DATA", "WRITE_BYTE_DATA",
              "READ_WORD_DATA", "WRITE_WORD_DATA", "PROC_CALL", "READ_BLOCK_DATA",
              "WRITE_BLOCK_DATA", "READ_I2C_BLOCK", "WRITE_I2C_BLOCK"}

----------------------------------------------------------------------------
(* The device *)

Wrapped(r) == r % (LastReg + 1)
RegsFrom(r, n) == [i \in 1..n |-> Wrapped(r + i - 1)]
\* n bytes from register r on, and with bytes written there.
BytesAt(d, r, n) == [i \in 1..n |-> d.regs[RegsFrom(r, n)[i]]]
With(d, r, bytes) ==
  [d EXCEPT !.regs = [g \in Regs |->
     IF \E i \in DOMAIN bytes : RegsFrom(r, Len(bytes))[i] = g
     THEN bytes[CHOOSE i \in DOMAIN bytes : RegsFrom(r, Len(bytes))[i] = g /\
                  \A j \in DOMAIN bytes : RegsFrom(r, Len(bytes))[j] = g => j <= i]
     ELSE d.regs[g]]]
WordBytes(w) == <<w % Base, w \div Base>>
WordOf(b) == b[1] + Base * b[2]
Answers(d, v) == [device |-> d, value |-> v]

\* The kernel's call (my_smbus_access): what a device is afterwards, and its answer.
\* A device answers a process call with the word, and the block, in reverse.
Smbus(d, reads, cmd, size, v) ==
  CASE size = "QUICK" -> Answers(d, 0)
    [] size = "BYTE" /\ reads -> Answers([d EXCEPT !.at = Wrapped(@ + 1)], d.regs[d.at])
    [] size = "BYTE" -> Answers([d EXCEPT !.at = Wrapped(cmd)], 0)
    [] size = "BYTE_DATA" /\ reads -> Answers(d, d.regs[cmd])
    [] size = "BYTE_DATA" -> Answers(With(d, cmd, <<v>>), 0)
    [] size = "WORD_DATA" /\ reads -> Answers(d, WordOf(BytesAt(d, cmd, 2)))
    [] size = "WORD_DATA" -> Answers(With(d, cmd, WordBytes(v)), 0)
    [] size = "PROC_CALL" ->
         Answers(With(d, cmd, WordBytes(v)), WordOf(Reverse(WordBytes(v))))
    [] size = "BLOCK_DATA" /\ reads -> Answers(d, d.block[cmd])
    [] size = "BLOCK_DATA" -> Answers([d EXCEPT !.block[cmd] = v], 0)
    [] size = "BLOCK_PROC_CALL" -> Answers([d EXCEPT !.block[cmd] = v], Reverse(v))
    [] size = "I2C_BLOCK_DATA" -> Answers(d, BytesAt(d, cmd, v))
    [] size = "I2C_BLOCK_BROKEN" /\ reads -> Answers(d, BytesAt(d, cmd, MaxBlock))
    [] size = "I2C_BLOCK_BROKEN" -> Answers(With(d, cmd, v), 0)

----------------------------------------------------------------------------
(* The SMBus functions.  Each asks whether the handle is open and the driver able to,
   looks at its arguments, and passes the kernel's answer on.  An answer that is longer
   than a block is one of those that fail.  *)

Refuse(code) == /\ reply' = [value |-> code, expected |-> code]
                /\ UNCHANGED <<funcs, i2cSlave, believed>>
NotOpened == Refuse("PI_BAD_HANDLE")
\* The device has got the call or has not.
Fails(code, d) ==
  /\ reply' = [value |-> code, expected |-> code]
  /\ i2cSlave' \in {i2cSlave, d} /\ believed' = i2cSlave' /\ UNCHANGED funcs

Access(able, ok, reads, cmd, size, v, code) ==
  IF able \notin funcs THEN Refuse("PI_BAD_SMBUS_CMD")
  ELSE IF ~ok THEN Refuse("PI_BAD_PARAM")
  ELSE \/ Fails(code, Smbus(i2cSlave, reads, cmd, size, v).device)
       \/ LET real == Smbus(i2cSlave, reads, cmd, size, v)
              told == Smbus(believed, reads, cmd, size, v)
          IN /\ i2cSlave' = real.device /\ believed' = told.device
             /\ reply' = [value |-> real.value, expected |-> told.value]
             /\ UNCHANGED funcs

OkReg(reg) == reg <= LastReg
OkCount(buf) == Len(buf) \in 1..MaxBlock
NoData == 0

i2cWriteQuick(bit) ==
  Access("QUICK", bit <= 1, bit = 1, 0, "QUICK", NoData, "PI_I2C_WRITE_FAILED")
i2cReadByte == Access("READ_BYTE", TRUE, TRUE, 0, "BYTE", NoData, "PI_I2C_READ_FAILED")
i2cWriteByte(bVal) ==
  Access("WRITE_BYTE", bVal < Base, FALSE, bVal, "BYTE", NoData, "PI_I2C_WRITE_FAILED")
i2cReadByteData(reg) ==
  Access("READ_BYTE_DATA", OkReg(reg), TRUE, reg, "BYTE_DATA", NoData, "PI_I2C_READ_FAILED")
i2cWriteByteData(reg, bVal) ==
  Access("WRITE_BYTE_DATA", OkReg(reg) /\ bVal < Base, FALSE, reg, "BYTE_DATA", bVal,
         "PI_I2C_WRITE_FAILED")
i2cReadWordData(reg) ==
  Access("READ_WORD_DATA", OkReg(reg), TRUE, reg, "WORD_DATA", NoData, "PI_I2C_READ_FAILED")
\* (mutant: a word is written as a byte)
WritesLowByte(reg, wVal) ==
  IF "WRITE_WORD_DATA" \notin funcs \/ ~OkReg(reg) \/ wVal >= Base * Base
  THEN Refuse("PI_BAD_PARAM")
  ELSE /\ i2cSlave' = With(i2cSlave, reg, <<wVal % Base>>)
       /\ believed' = With(believed, reg, WordBytes(wVal))
       /\ reply' = [value |-> 0, expected |-> 0] /\ UNCHANGED funcs
i2cWriteWordData(reg, wVal) ==
  Access("WRITE_WORD_DATA", OkReg(reg) /\ wVal < Base * Base, FALSE, reg, "WORD_DATA", wVal,
         "PI_I2C_WRITE_FAILED")
i2cProcessCall(reg, wVal) ==
  Access("PROC_CALL", OkReg(reg) /\ wVal < Base * Base, FALSE, reg, "PROC_CALL", wVal,
         "PI_I2C_READ_FAILED")
i2cReadBlockData(reg) ==
  Access("READ_BLOCK_DATA", OkReg(reg), TRUE, reg, "BLOCK_DATA", NoData, "PI_I2C_READ_FAILED")
i2cWriteBlockData(reg, buf) ==
  Access("WRITE_BLOCK_DATA", OkReg(reg) /\ OkCount(buf), FALSE, reg, "BLOCK_DATA", buf,
         "PI_I2C_WRITE_FAILED")
\* The ability that is looked for is that of i2cProcessCall.
i2cBlockProcessCall(reg, buf) ==
  Access("PROC_CALL", OkReg(reg) /\ OkCount(buf), FALSE, reg, "BLOCK_PROC_CALL", buf,
         "PI_I2C_READ_FAILED")
\* The most bytes are read the way that old drivers know.
i2cReadI2CBlockData(reg, count) ==
  Access("READ_I2C_BLOCK", OkReg(reg) /\ count \in 1..MaxBlock, TRUE, reg,
         IF count = MaxBlock THEN "I2C_BLOCK_BROKEN" ELSE "I2C_BLOCK_DATA", count,
         "PI_I2C_READ_FAILED")
i2cWriteI2CBlockData(reg, buf) ==
  Access("WRITE_I2C_BLOCK", OkReg(reg) /\ OkCount(buf), FALSE, reg, "I2C_BLOCK_BROKEN", buf,
         "PI_I2C_WRITE_FAILED")

\* i2cWriteDevice and i2cReadDevice: the first byte is the register, and a short
\* transfer is a failure.
OkDeviceCount(n) == n \in 1..PI_MAX_I2C_DEVICE_COUNT
i2cWriteDevice(buf) ==
  IF ~OkDeviceCount(Len(buf)) THEN Refuse("PI_BAD_PARAM")
  ELSE LET Write(d) == [With(d, Head(buf), Tail(buf)) EXCEPT !.at = Wrapped(Head(buf))]
       IN \/ Fails("PI_I2C_WRITE_FAILED", Write(i2cSlave))
          \/ /\ i2cSlave' = Write(i2cSlave) /\ believed' = Write(believed)
             /\ reply' = [value |-> 0, expected |-> 0] /\ UNCHANGED funcs
i2cReadDevice(count) ==
  IF ~OkDeviceCount(count) THEN Refuse("PI_BAD_PARAM")
  ELSE \/ Fails("PI_I2C_READ_FAILED", i2cSlave)
       \/ /\ reply' = [value |-> BytesAt(i2cSlave, i2cSlave.at, count),
                       expected |-> BytesAt(believed, believed.at, count)]
          /\ i2cSlave' = [i2cSlave EXCEPT !.at = Wrapped(@ + count)]
          /\ believed' = [believed EXCEPT !.at = Wrapped(@ + count)]
          /\ UNCHANGED funcs

----------------------------------------------------------------------------
(* i2cZip *)

END == 0
ESC == 1
COMBINED_ON == 2
COMBINED_OFF == 3
ADDR == 4
FLAGS == 5
READ == 6
WRITE == 7

\* The string for a list of transfers: a number is written in two bytes after ESC.
Number(o) == IF o.esc \/ o.op = FLAGS THEN WordBytes(o.n) ELSE <<o.n>>
Code(o) ==
  (IF o.esc THEN <<ESC>> ELSE <<>>) \o <<o.op>> \o
  (IF o.op \in {ADDR, FLAGS, READ, WRITE} THEN Number(o) ELSE <<>>) \o o.data
Encoded(list) == FlattenSeq([i \in DOMAIN list |-> Code(list[i])]) \o <<END>>

NoZip == [list |-> <<>>, cut |-> 0, in |-> <<>>, outLen |-> 0, pos |-> 0, outPos |-> 0,
          esc |-> FALSE, addr |-> 0, flags |-> 0, segs |-> <<>>, status |-> "none",
          did |-> <<>>]

\* A call, with the address of its handle, and the refusals before the first turn.
i2cZip(list, cut, outLen, addr) ==
  LET code == Encoded(list)
      in == SubSeq(code, 1, Len(code) - cut)
      z == [NoZip EXCEPT !.list = list, !.cut = cut, !.in = in, !.outLen = outLen,
                         !.addr = addr]
  IN /\ \E opened \in BOOLEAN :
          zip' = [z EXCEPT !.status = IF ~opened THEN "PI_BAD_HANDLE"
                                      ELSE IF in = <<>> THEN "PI_BAD_POINTER"
                                      ELSE "goes on"]
     /\ UNCHANGED deviceVars

\* A write to the module's parameter, whether or not it can be opened.
Switch(on) == [switch |-> on]
\* What the kernel is told of a transfer: the last flag is that of a read.
Seg(z, op, len, at) ==
  [addr |-> z.addr, flags |-> IF op = READ THEN 2 * (z.flags \div 2) + 1
                              ELSE 2 * (z.flags \div 2),
   len |-> len, at |-> at]

\* i2cSegments: the kernel runs the segments, or none is known to be, and the handle
\* may have been closed by another thread.  None is kept for another time.
SegmentsFail == {"PI_BAD_I2C_SEG", "PI_BAD_HANDLE"}
i2cSegments(z, answer) ==
  IF z.segs = <<>> THEN z
  ELSE IF answer = "ok" THEN [z EXCEPT !.did = @ \o z.segs, !.segs = <<>>]
  ELSE [z EXCEPT !.segs = <<>>, !.status = answer]

\* myI2CGetPar: the number at the position, in two bytes or one.
GetPar(z, two) ==
  LET bytes == IF two THEN 2 ELSE 1
      some == z.pos <= Len(z.in) - bytes
  IN [n |-> IF ~some THEN -1
            ELSE IF two THEN z.in[z.pos + 1] + Base * z.in[z.pos + 2] ELSE z.in[z.pos + 1],
      pos |-> IF some THEN z.pos + bytes ELSE z.pos]

Added(z, seg, answer) ==
  LET more == [z EXCEPT !.segs = Append(@, seg)]
  IN IF Len(more.segs) >= MaxMsgs THEN i2cSegments(more, answer) ELSE more

\* One turn of the loop; `answer` is that of i2cSegments where it is called.
TurnOf(z, answer) ==
  LET cmd == z.in[z.pos + 1]
      y == [z EXCEPT !.pos = @ + 1, !.esc = (cmd = ESC)]
      par == GetPar(y, z.esc \/ cmd = FLAGS)
      x == [y EXCEPT !.pos = par.pos]
  IN CASE cmd = END -> [y EXCEPT !.status = "ends"]
       [] cmd \in {COMBINED_ON, COMBINED_OFF} ->
            [i2cSegments(y, answer) EXCEPT !.did = Append(@, Switch(cmd = COMBINED_ON))]
       [] cmd = ESC -> y
       [] cmd \in {ADDR, FLAGS} ->
            IF par.n < 0 THEN [x EXCEPT !.status = "PI_BAD_I2C_CMD"]
            ELSE IF cmd = ADDR THEN [x EXCEPT !.addr = par.n] ELSE [x EXCEPT !.flags = par.n]
       [] cmd = READ ->
            IF par.n >= 0 /\ par.n + x.outPos < x.outLen
            THEN [Added(x, Seg(x, READ, par.n, x.outPos), answer) EXCEPT !.outPos = @ + par.n]
            ELSE [x EXCEPT !.status = "PI_BAD_I2C_RLEN"]
       [] cmd = WRITE ->
            IF par.n >= 0 /\ par.n + x.pos < Len(x.in)
            THEN [Added(x, Seg(x, WRITE, par.n, x.pos), answer) EXCEPT !.pos = @ + par.n]
            ELSE [x EXCEPT !.status = "PI_BAD_I2C_WLEN"]
       [] OTHER -> [x EXCEPT !.status = "PI_BAD_I2C_CMD"]
ZipTurn ==
  /\ zip.status = "goes on" /\ zip.pos < Len(zip.in)
  /\ \E answer \in {"ok"} \union SegmentsFail : zip' = TurnOf(zip, answer)
  /\ UNCHANGED deviceVars

\* After the loop, which END or the end of the string ends: what segments there are
\* are run.  (mutant: they are run at END alone)
RunsAtEndOnly ==
  /\ zip.status = "ends" \/ (zip.status = "goes on" /\ zip.pos = Len(zip.in))
  /\ zip' = [(IF zip.status = "ends" THEN i2cSegments(zip, "ok") ELSE zip) EXCEPT
               !.status = "done"]
  /\ UNCHANGED deviceVars
ZipReturn ==
  /\ zip.status = "ends" \/ (zip.status = "goes on" /\ zip.pos = Len(zip.in))
  /\ \E answer \in {"ok"} \union SegmentsFail :
       LET ran == i2cSegments(zip, answer)
       IN zip' = [ran EXCEPT !.status = IF @ \in SegmentsFail THEN @ ELSE "done"]
  /\ UNCHANGED deviceVars

DeviceNext ==
  /\ \/ NotOpened \/ i2cReadByte
     \/ \E b \in 0..2 : i2cWriteQuick(b)
     \/ \E b \in Values : i2cWriteByte(b)
     \/ \E reg \in 0..LastReg + 1 :
          \/ i2cReadByteData(reg) \/ i2cReadWordData(reg) \/ i2cReadBlockData(reg)
          \/ \E v \in Values : i2cWriteByteData(reg, v) \/ i2cWriteWordData(reg, v)
                              \/ i2cProcessCall(reg, v)
          \/ \E b \in Blocks : i2cWriteBlockData(reg, b) \/ i2cBlockProcessCall(reg, b)
                              \/ i2cWriteI2CBlockData(reg, b)
          \/ \E n \in 0..MaxBlock + 1 : i2cReadI2CBlockData(reg, n)
     \/ \E b \in Blocks : i2cWriteDevice(b)
     \/ \E n \in 0..PI_MAX_I2C_DEVICE_COUNT + 1 : i2cReadDevice(n)
  /\ UNCHANGED zip
ZipNext ==
  \/ ZipTurn \/ ZipReturn
  \/ /\ zip.status \notin {"goes on", "ends"}
     /\ \E list \in Lists, cut \in Cuts, n \in OutLens : i2cZip(list, cut, n, 1)

----------------------------------------------------------------------------
I2cDeviceInit ==
  /\ funcs \in SUBSET Abilities
  /\ i2cSlave = [regs |-> [g \in Regs |-> 0], at |-> 0, block |-> [g \in Regs |-> <<>>]]
  /\ believed = i2cSlave
  /\ reply = [value |-> 0, expected |-> 0] /\ zip = NoZip

----------------------------------------------------------------------------
\* A read tells what the writes before it, of whatever width, have put there, unless
\* a call has failed since; and a call the driver is not able to do, or that is
\* given what does not fit, leaves the device alone.
ReadsWhatWasWritten ==
  believed = i2cSlave /\ reply.value = reply.expected

\* The transfers of a list up to the first that does not fit the buffer, or until the
\* kernel fails: what address, flags and bytes they have does not depend on what is
\* beside them, and those before a switch are run before it.  A string that is cut
\* short does what is whole of it, or is refused where it is cut.
Reading(list, k) == FoldSeq(LAMBDA o, n : IF o.op = READ THEN n + o.n ELSE n, 0,
                            SubSeq(list, 1, k))
LastOf(list, k, op, first) ==
  LET there == {i \in 1..k : list[i].op = op}
  IN IF there = {} THEN first ELSE list[CHOOSE i \in there : \A j \in there : j <= i].n
ListFits(z) == \A i \in DOMAIN z.list :
                 z.list[i].op = READ => Reading(z.list, i) < z.outLen
Whole(z) ==
  {i \in DOMAIN z.list : Len(Encoded(SubSeq(z.list, 1, i))) - 1 <= Len(z.in)}
Acts(z) == {i \in Whole(z) : z.list[i].op \in {READ, WRITE, COMBINED_ON, COMBINED_OFF}}
IsRun(z, e, k, first) ==
  LET o == z.list[k]
  IN IF o.op \in {COMBINED_ON, COMBINED_OFF} THEN e = Switch(o.op = COMBINED_ON)
     ELSE /\ e.addr = LastOf(z.list, k, ADDR, first) /\ e.len = o.n
          /\ e.flags \div 2 = LastOf(z.list, k, FLAGS, 0) \div 2
          /\ e.flags % 2 = (IF o.op = READ THEN 1 ELSE 0)
          /\ IF o.op = READ THEN e.at + o.n = Reading(z.list, k)
             ELSE SubSeq(z.in, e.at + 1, e.at + e.len) = o.data
ZipDoesTheList ==
  LET acts == SetToSortSeq(Acts(zip), LAMBDA i, j : i < j)
  IN /\ zip.status \notin SegmentsFail =>
          /\ Len(zip.did) <= Len(acts)
          /\ \A i \in DOMAIN zip.did : IsRun(zip, zip.did[i], acts[i], 1)
     /\ zip.status = "done" =>
          /\ Len(zip.did) = Len(acts) /\ zip.segs = <<>>
          /\ zip.outPos = Reading(zip.list, Cardinality(Whole(zip)))
     /\ zip.cut = 0 =>
          /\ zip.status \notin {"PI_BAD_I2C_CMD", "PI_BAD_I2C_WLEN"}
          /\ zip.status = "PI_BAD_I2C_RLEN" => ~ListFits(zip)

TransfersKept == ReadsWhatWasWritten /\ ZipDoesTheList
=============================================================================
