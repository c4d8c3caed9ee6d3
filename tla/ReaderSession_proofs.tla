------------------------ MODULE ReaderSession_proofs ------------------------
(***************************************************************************)
(* Type correctness of ReaderSession and the exclusive ownership of the    *)
(* hardware, for every set of cards, parameters, devices, Luns, channels   *)
(* and every size of the reader table.                                     *)
(***************************************************************************)
EXTENDS ReaderSession, TLAPS

IInv == TypeOK /\ OneReaderOwnsTheHardware

(* The caches a failing reset leaves are well-typed. *)
LEMMA CopiedTyped ==
  ASSUME NEW k \in AtrCache, NEW c \in Cards, NEW q \in Params
  PROVE  /\ [k EXCEPT !.params = DefaultParams] \in AtrCache
         /\ Copied(k, c) \in AtrCache
         /\ [Copied(k, c) EXCEPT !.params = q] \in AtrCache
  BY CardAssumption DEF Copied, AtrCache

(* Every outcome of transport_reset is well-typed; with pigpio initialised *)
(* RST is driven when it returns.                                          *)
LEMMA ResetTyped ==
  ASSUME NEW l \in Line, NEW dev \in Devices, NEW k \in AtrCache,
         NEW o \in transport_reset(l, dev, k)
  PROVE  /\ o \in Outcomes
         /\ l.lib => o.rst # "input"
<1> DEFINE Good(x) == x \in Outcomes /\ (l.lib => x.rst # "input")
<1>a. DefaultParams \in Params /\ None \notin Cards
  BY CardAssumption
<1>l. /\ l.port \in Params \cup {None} /\ l.rst \in RstLevels /\ l.clock \in Params \cup {None}
      /\ l.card \in Cards \cup {None} /\ l.mode \in Params \cup {None}
  BY DEF Line
<1>t. TwoModeCards \subseteq Cards
  BY CardAssumption
<1>n. NotCopied(l, dev, k) \subseteq AtrCache
  <2>1. [k EXCEPT !.params = DefaultParams] \in AtrCache
    BY <1>a DEF AtrCache
  <2>2. \A c \in Cards : Copied(k, c) \in AtrCache
    BY <1>a, CopiedTyped
  <2> QED BY <1>t, <2>1, <2>2 DEF NotCopied
<1>1. CASE ~l.lib
  <2>1. o \in NoPins(l, k)
    BY <1>1 DEF transport_reset
  <2>2. o = Outcome(FALSE, k, l.port, l.rst, l.clock, l.mode)
    BY <2>1 DEF NoPins
  <2> QED BY <1>1, <1>l, <2>2 DEF Outcome, Outcomes
<1>2. CASE l.lib /\ o \in NoSerial(l, dev, k)
  <2>1. PICK x \in NotCopied(l, dev, k) \X {l.port, DefaultParams} \X {l.clock, DefaultParams} :
             o = Outcome(FALSE, x[1], x[2], "low", x[3], None)
    BY <1>2 DEF NoSerial
  <2>2. x[1] \in AtrCache /\ x[2] \in Params \cup {None} /\ x[3] \in Params \cup {None}
    BY <2>1, <1>a, <1>l, <1>n
  <2> QED BY <2>1, <2>2 DEF RstLevels, Outcome, Outcomes
<1>3. CASE l.lib /\ o \in NoAtr(l, dev, k)
  <2>1. PICK kk \in NotCopied(l, dev, k) :
             o = Outcome(FALSE, kk, DefaultParams, "high", DefaultParams, AfterReset(l))
    BY <1>3 DEF NoAtr
  <2>2. kk \in AtrCache /\ AfterReset(l) \in Params \cup {None}
    BY <2>1, <1>a, <1>n DEF AfterReset
  <2> QED BY <2>1, <2>2, <1>a DEF RstLevels, Outcome, Outcomes
<1>4. CASE Reachable(l, dev) /\ o \in NoAgreement(l, k)
  <2>1. PICK m \in Params :
             o = Outcome(FALSE, Copied(k, l.card), DefaultParams, "high", DefaultParams, m)
    BY <1>4 DEF NoAgreement
  <2>2. Copied(k, l.card) \in AtrCache
    BY <1>4, <1>l, <1>a, CopiedTyped, Zenon DEF Reachable
  <2> QED BY <2>1, <2>2, <1>a DEF RstLevels, Outcome, Outcomes
<1>5. CASE Reachable(l, dev) /\ o \in NoSwitch(l, k)
  <2>1. PICK q \in CardParams[l.card] : \E p \in {q, DefaultParams} :
             o = Outcome(FALSE, [Copied(k, l.card) EXCEPT !.params = q], p, "high",
                         DefaultParams, q)
    BY <1>5 DEF NoSwitch
  <2>2. q \in Params
    BY <2>1, <1>5, <1>l, CardAssumption DEF Reachable
  <2>3. [Copied(k, l.card) EXCEPT !.params = q] \in AtrCache
    BY <2>2, <1>5, <1>l, CopiedTyped DEF Reachable
  <2> QED BY <2>1, <2>2, <2>3, <1>a DEF RstLevels, Outcome, Outcomes
<1>6. CASE Reachable(l, dev) /\ o \in Negotiated(l)
  <2>1. PICK q \in CardParams[l.card] :
             o = Outcome(TRUE, [atr |-> l.card, atrLength |-> AtrLen[l.card], params |-> q],
                         q, "high", q, q)
    BY <1>6 DEF Negotiated
  <2>2. q \in Params /\ l.card \in Cards /\ AtrLen[l.card] \in 0..PCSC_MAX_ATR_SIZE
    BY <2>1, <1>6, <1>l, CardAssumption DEF Reachable
  <2>3. [atr |-> l.card, atrLength |-> AtrLen[l.card], params |-> q] \in AtrCache
    BY <2>2 DEF AtrCache
  <2> QED BY <2>1, <2>2, <2>3 DEF RstLevels, Outcome, Outcomes
<1> QED BY <1>1, <1>2, <1>3, <1>4, <1>5, <1>6 DEF transport_reset

(* Every reset of an open reader, and every power-off, has a well-typed    *)
(* outcome that leaves RST driven.                                         *)
LEMMA SlotOutcome ==
  ASSUME IInv, NEW s \in OpenSlots,
         NEW o \in reader_reset_impl(s) \cup reader_power_off(s)
  PROVE  o \in Outcomes /\ o.rst # "input"
<1>1. /\ s \in Slots /\ Handle(s) \in Devices /\ rst # "input" /\ libInitialised
      /\ gReaderList[s].reader.cache \in AtrCache
  BY DEF IInv, TypeOK, OneReaderOwnsTheHardware, OpenSlots, ReaderEntries, Readers
<1>2. LineOf(s) \in Line /\ LineOf(s).lib
  BY <1>1 DEF IInv, TypeOK, LineOf, Line, Handle
<1>3. CASE o \in reader_reset_impl(s)
  <2>1. o \in transport_reset(LineOf(s), Handle(s), gReaderList[s].reader.cache)
    BY <1>3 DEF reader_reset_impl, Handle
  <2> QED BY <1>1, <1>2, <2>1, ResetTyped
<1>4. CASE /\ o \in reader_power_off(s)
           /\ gReaderList[s].reader.power = "POWERED_OFF"
  <2>1. o = Outcome(TRUE, gReaderList[s].reader.cache, LineOf(s).port, rst, clock, mode)
    BY <1>4 DEF reader_power_off
  <2>2. LineOf(s).port \in Params \cup {None}
    BY <1>2 DEF Line
  <2> QED BY <1>1, <2>1, <2>2 DEF Outcome, Outcomes, IInv, TypeOK
<1> QED BY <1>3, <1>4 DEF reader_power_off

(* A reset of an open reader keeps the invariant, whatever power and       *)
(* presence it leaves the reader with.                                     *)
LEMMA ReaderBecomesStep ==
  ASSUME IInv, NEW s \in OpenSlots, NEW o \in Outcomes, o.rst # "input",
         NEW power \in {"POWERED_OFF", "POWERED_ON"},
         NEW presence \in {"PRESENT_FALSE", "PRESENT_TRUE"},
         ReaderBecomes(s, o, power, presence),
         ret' \in Replies
  PROVE  IInv'
<1> USE DEF IInv
<1>1. /\ s \in Slots /\ gReaderList[s] \in ReaderEntries /\ gReaderList[s].reader \in Readers
      /\ gReaderList \in [Slots -> ReaderEntries] /\ gReaderList[s].initialized
  BY DEF OpenSlots, TypeOK, ReaderEntries
<1>2. /\ o.cache \in AtrCache /\ o.port \in Params \cup {None} /\ o.rst \in RstLevels
      /\ o.clock \in Params \cup {None} /\ o.mode \in Params \cup {None}
  BY DEF Outcomes
<1> DEFINE rd == [gReaderList[s].reader EXCEPT !.cache = o.cache, !.power = power,
                                               !.presence = presence]
<1>3. rd \in Readers /\ rd.handle = gReaderList[s].reader.handle
  BY <1>1, <1>2 DEF Readers
<1>4. gReaderList' = [gReaderList EXCEPT ![s].reader = rd]
  BY DEF ReaderBecomes
<1> HIDE DEF rd
<1>5. /\ gReaderList' \in [Slots -> ReaderEntries]
      /\ \A t \in Slots : t # s => gReaderList'[t] = gReaderList[t]
      /\ gReaderList'[s].reader = rd /\ gReaderList'[s].initialized
  BY <1>1, <1>3, <1>4 DEF ReaderEntries
<1>6. OpenSlots' = OpenSlots
  BY <1>1, <1>5 DEF OpenSlots
<1>7. TypeOK'
  BY <1>2, <1>5 DEF TypeOK, ReaderBecomes, LineBecomes
<1>8. OneReaderOwnsTheHardware'
  <2>1. libInitialised' = libInitialised /\ rst' = o.rst /\ libInitialised
    BY DEF ReaderBecomes, LineBecomes, OneReaderOwnsTheHardware
  <2>2. \A t \in OpenSlots : Handle(t)' = Handle(t)
    BY <1>3, <1>5 DEF Handle, OpenSlots
  <2> QED BY <1>1, <1>5, <1>6, <2>1, <2>2 DEF OneReaderOwnsTheHardware
<1> QED BY <1>7, <1>8

(* What a call may return is well-typed. *)
LEMMA RetTyped ==
  ASSUME NEW call \in Calls, NEW code \in Codes
  PROVE  Ret(call, code) \in Replies
BY DEF Ret, Replies, Bytes, NoBytes, PCSC_MAX_ATR_SIZE

(* So are the replies of GetCapability and ZeroAtr. *)
LEMMA CapabilityTyped ==
  ASSUME NEW call \in Calls, NEW b \in Buffers, NEW bytes \in Bytes
  PROVE  GetCapability(call, bytes, b) \in Replies /\ ZeroAtr(call, b) \in Replies
<1>1. /\ Ret(call, "IFD_COMMUNICATION_ERROR") \in Replies
      /\ Ret(call, "IFD_ERROR_INSUFFICIENT_BUFFER") \in Replies
      /\ Ret(call, "IFD_SUCCESS") \in Replies
  BY RetTyped DEF Codes
<1>2. [Ret(call, "IFD_SUCCESS") EXCEPT !.atr = bytes] \in Replies
  BY <1>1 DEF Replies
<1>3. ZeroAtr(call, b) \in Replies
  BY <1>1 DEF ZeroAtr
<1>4. GetCapability(call, bytes, b) \in Replies
  BY <1>1, <1>2 DEF GetCapability, Buffers
<1> QED BY <1>3, <1>4

(* A call that only returns something keeps the invariant. *)
LEMMA ReturnsStep ==
  ASSUME IInv, NEW r \in Replies, Returns(r)
  PROVE  IInv'
BY DEF IInv, TypeOK, OneReaderOwnsTheHardware, Returns, hardware, slot, OpenSlots, Handle

(* Opening a channel keeps the invariant: hw_initialize succeeds only when *)
(* no reader is open.                                                      *)
LEMMA CreateStep ==
  ASSUME IInv, NEW lun \in Luns, NEW dev \in Devices,
         IFDHCreateChannelByName(lun, dev)
  PROVE  IInv'
<1> USE DEF IInv
<1>a. DefaultParams \in Params
  BY CardAssumption
<1>r. /\ Ret("create", "IFD_COMMUNICATION_ERROR") \in Replies
      /\ Ret("create", "IFD_SUCCESS") \in Replies
  BY RetTyped DEF Calls, Codes
<1>1. CASE CreateRefused(lun, dev)
  BY <1>1, <1>r, ReturnsStep DEF CreateRefused
<1>2. CASE CreateFailed(lun, dev)
  <2>1. PICK s \in reader_list_alloc_reader :
          /\ gReaderList' = reader_list_free_reader(gReaderList, s)
          /\ port' \in {port, [port EXCEPT ![dev] = DefaultParams]}
          /\ ret' = Ret("create", "IFD_COMMUNICATION_ERROR")
          /\ UNCHANGED <<hardware, slot>>
    BY <1>2 DEF CreateFailed
  <2>2. s \in Slots \ OpenSlots
    BY <2>1 DEF reader_list_alloc_reader
  <2>3. gReaderList' = gReaderList
    BY <2>1, <2>2 DEF reader_list_free_reader, TypeOK, OneReaderOwnsTheHardware
  <2>4. port' \in [Devices -> Params \cup {None}]
    BY <2>1, <1>a DEF TypeOK
  <2> QED BY <2>1, <2>3, <2>4, <1>r
          DEF TypeOK, OneReaderOwnsTheHardware, hardware, slot, OpenSlots, Handle
<1>3. CASE Created(lun, dev)
  <2>1. PICK s \in reader_list_alloc_reader :
          /\ ~libInitialised
          /\ libInitialised' = TRUE /\ rst' = "low" /\ clock' = DefaultParams
          /\ port' = [port EXCEPT ![dev] = DefaultParams]
          /\ gReaderList' = [gReaderList EXCEPT
                 ![s] = [initialized |-> TRUE, lun |-> lun,
                         reader |-> transport_initialize(@.reader, dev)]]
          /\ mode' = None
          /\ ret' = Ret("create", "IFD_SUCCESS")
          /\ UNCHANGED card
    BY <1>3 DEF Created, hw_initialize_possible
  <2>2. s \in Slots /\ OpenSlots = {}
    BY <2>1 DEF reader_list_alloc_reader, OneReaderOwnsTheHardware
  <2> DEFINE rd == transport_initialize(gReaderList[s].reader, dev)
  <2>3. rd \in Readers /\ rd.handle = dev
    <3>1. gReaderList[s].reader \in Readers
      BY <2>2 DEF TypeOK, ReaderEntries
    <3>2. [gReaderList[s].reader.cache EXCEPT !.params = DefaultParams] \in AtrCache
      BY <3>1, <1>a DEF Readers, AtrCache
    <3> QED BY <3>1, <3>2 DEF Readers, transport_initialize
  <2>4. gReaderList' = [gReaderList EXCEPT ![s] =
                         [initialized |-> TRUE, lun |-> lun, reader |-> rd]]
    BY <2>1
  <2> HIDE DEF rd
  <2>5. /\ gReaderList' \in [Slots -> ReaderEntries]
        /\ gReaderList'[s].initialized /\ gReaderList'[s].reader = rd
        /\ \A t \in Slots : t # s => gReaderList'[t] = gReaderList[t]
    BY <2>2, <2>3, <2>4 DEF TypeOK, ReaderEntries
  <2>6. OpenSlots' = {s}
    BY <2>2, <2>5 DEF OpenSlots
  <2>7. TypeOK'
    BY <2>1, <2>5, <1>a, <1>r DEF TypeOK, RstLevels
  <2>8. Handle(s)' = dev
    BY <2>3, <2>5 DEF Handle
  <2> QED BY <2>1, <2>2, <2>5, <2>6, <2>7, <2>8 DEF OneReaderOwnsTheHardware
<1> QED BY <1>1, <1>2, <1>3 DEF IFDHCreateChannelByName

(* Closing a channel keeps the invariant: the reader that is closed is the *)
(* only one, and transport_deinitialize releases everything it holds.      *)
LEMMA CloseStep ==
  ASSUME IInv, NEW lun \in Luns, IFDHCloseChannel(lun)
  PROVE  IInv'
<1> USE DEF IInv
<1>0. PICK s \in reader_list_get_reader(lun) : \E o \in reader_power_off(s) :
        /\ port' = [port EXCEPT ![gReaderList[s].reader.handle] = o.port]
        /\ reader_close(o)
        /\ gReaderList' = reader_list_free_reader(gReaderList, s)
        /\ ret' = Ret("close", "IFD_SUCCESS")
        /\ UNCHANGED card
  BY DEF IFDHCloseChannel
<1>1. PICK o \in reader_power_off(s) :
        /\ port' = [port EXCEPT ![gReaderList[s].reader.handle] = o.port]
        /\ reader_close(o)
        /\ gReaderList' = reader_list_free_reader(gReaderList, s)
        /\ ret' = Ret("close", "IFD_SUCCESS")
        /\ UNCHANGED card
  BY <1>0
<1>2. s \in OpenSlots /\ s \in Slots
  BY <1>0 DEF reader_list_get_reader, OpenSlots
<1>3. o \in Outcomes
  BY <1>1, <1>2, SlotOutcome
<1>4. OpenSlots = {s} /\ libInitialised
  BY <1>2 DEF OneReaderOwnsTheHardware
<1>5. libInitialised' = FALSE /\ rst' = "input" /\ clock' = None /\ mode' = None
  BY <1>1, <1>4 DEF reader_close
<1>6. kEmptyReaderEntry \in ReaderEntries /\ ~kEmptyReaderEntry.initialized
  BY DEF kEmptyReaderEntry, kEmptyReader, ReaderEntries, Readers, AtrCache, PCSC_MAX_ATR_SIZE
<1>7. \A t \in Slots : gReaderList'[t] = kEmptyReaderEntry
  BY <1>1, <1>2, <1>4 DEF reader_list_free_reader, TypeOK, OneReaderOwnsTheHardware
<1>8. gReaderList' \in [Slots -> ReaderEntries]
  BY <1>1, <1>6 DEF reader_list_free_reader, TypeOK
<1>9. OpenSlots' = {}
  BY <1>6, <1>7 DEF OpenSlots
<1>10. ret' \in Replies
  BY <1>1, RetTyped DEF Calls, Codes
<1>11. TypeOK'
  BY <1>1, <1>3, <1>5, <1>8, <1>10 DEF TypeOK, RstLevels, Outcomes
<1> QED BY <1>5, <1>7, <1>9, <1>11 DEF OneReaderOwnsTheHardware

(* A power-up or reset, failed or not, keeps the invariant. *)
LEMMA PowerUpStep ==
  ASSUME IInv, NEW lun \in Luns, NEW b \in Buffers, PowerUp(lun, b)
  PROVE  IInv'
<1>0. PICK s \in reader_list_get_reader(lun) : \E o \in reader_reset_impl(s) :
        /\ ReaderBecomes(s, o, PowerAfterReset(s, o.ok), gReaderList[s].reader.presence)
        /\ ret' = IF o.ok
                  THEN GetCapability("power_up",
                                     [of |-> o.cache.atr, length |-> o.cache.atrLength], b)
                  ELSE Ret("power_up", "IFD_COMMUNICATION_ERROR")
  BY DEF PowerUp
<1>1. PICK o \in reader_reset_impl(s) :
        /\ ReaderBecomes(s, o, PowerAfterReset(s, o.ok), gReaderList[s].reader.presence)
        /\ ret' = IF o.ok
                  THEN GetCapability("power_up",
                                     [of |-> o.cache.atr, length |-> o.cache.atrLength], b)
                  ELSE Ret("power_up", "IFD_COMMUNICATION_ERROR")
  BY <1>0
<1>2. s \in OpenSlots /\ gReaderList[s].reader.presence \in {"PRESENT_FALSE", "PRESENT_TRUE"}
  BY <1>0 DEF reader_list_get_reader, OpenSlots, IInv, TypeOK, ReaderEntries, Readers
<1>3. o \in Outcomes /\ o.rst # "input"
  BY <1>1, <1>2, SlotOutcome
<1>4. [of |-> o.cache.atr, length |-> o.cache.atrLength] \in Bytes
  BY <1>3 DEF Outcomes, AtrCache, Bytes
<1>5. ret' \in Replies
  BY <1>1, <1>4, RetTyped, CapabilityTyped DEF Calls, Codes
<1>6. PowerAfterReset(s, o.ok) \in {"POWERED_OFF", "POWERED_ON"}
  BY DEF PowerAfterReset
<1> QED BY <1>1, <1>2, <1>3, <1>5, <1>6, ReaderBecomesStep

(* A power-down, failed or not, keeps the invariant. *)
LEMMA PowerDownStep ==
  ASSUME IInv, NEW lun \in Luns, NEW b \in Buffers, PowerDown(lun, b)
  PROVE  IInv'
<1>0. PICK s \in reader_list_get_reader(lun) : \E o \in reader_power_off(s) :
        /\ ReaderBecomes(s, o, IF o.ok THEN "POWERED_OFF" ELSE gReaderList[s].reader.power,
                         gReaderList[s].reader.presence)
        /\ ret' = IF o.ok THEN ZeroAtr("power_down", b)
                          ELSE Ret("power_down", "IFD_COMMUNICATION_ERROR")
  BY DEF PowerDown
<1>1. PICK o \in reader_power_off(s) :
        /\ ReaderBecomes(s, o, IF o.ok THEN "POWERED_OFF" ELSE gReaderList[s].reader.power,
                         gReaderList[s].reader.presence)
        /\ ret' = IF o.ok THEN ZeroAtr("power_down", b)
                          ELSE Ret("power_down", "IFD_COMMUNICATION_ERROR")
  BY <1>0
<1>2. /\ s \in OpenSlots
      /\ gReaderList[s].reader.presence \in {"PRESENT_FALSE", "PRESENT_TRUE"}
      /\ gReaderList[s].reader.power \in {"POWERED_OFF", "POWERED_ON"}
  BY <1>0 DEF reader_list_get_reader, OpenSlots, IInv, TypeOK, ReaderEntries, Readers
<1>3. o \in Outcomes /\ o.rst # "input"
  BY <1>1, <1>2, SlotOutcome
<1>4. NoBytes \in Bytes
  BY DEF NoBytes, Bytes, PCSC_MAX_ATR_SIZE
<1>5. ret' \in Replies
  BY <1>1, <1>4, RetTyped, CapabilityTyped DEF Calls, Codes
<1> QED BY <1>1, <1>2, <1>3, <1>5, ReaderBecomesStep

(* A presence poll that resets the card keeps the invariant. *)
LEMMA PollStep ==
  ASSUME IInv, NEW lun \in Luns, PollTests(lun)
  PROVE  IInv'
<1>0. PICK s \in reader_list_get_reader(lun) : \E o \in reader_reset_impl(s) :
        /\ ReaderBecomes(s, o, gReaderList[s].reader.power, PresenceAfterTest(o.ok))
        /\ ret' = Ret("presence", IF o.ok THEN "IFD_SUCCESS" ELSE "IFD_ICC_NOT_PRESENT")
  BY DEF PollTests
<1>1. PICK o \in reader_reset_impl(s) :
        /\ ReaderBecomes(s, o, gReaderList[s].reader.power, PresenceAfterTest(o.ok))
        /\ ret' = Ret("presence", IF o.ok THEN "IFD_SUCCESS" ELSE "IFD_ICC_NOT_PRESENT")
  BY <1>0
<1>2. s \in OpenSlots /\ gReaderList[s].reader.power \in {"POWERED_OFF", "POWERED_ON"}
  BY <1>0 DEF reader_list_get_reader, OpenSlots, IInv, TypeOK, ReaderEntries, Readers
<1>3. o \in Outcomes /\ o.rst # "input"
  BY <1>1, <1>2, SlotOutcome
<1>4. ret' \in Replies
  BY <1>1, RetTyped DEF Calls, Codes
<1>5. PresenceAfterTest(o.ok) \in {"PRESENT_FALSE", "PRESENT_TRUE"}
  BY DEF PresenceAfterTest
<1> QED BY <1>1, <1>2, <1>3, <1>4, <1>5, ReaderBecomesStep

(* The calls that change nothing but what they return.                     *)
LEMMA QuietCallStep ==
  ASSUME IInv, NEW lun \in Luns, NEW b \in Buffers,
         \/ PowerOther(lun) \/ (\E w \in BOOLEAN : TransmitRefused(lun, w))
         \/ TransmitDone(lun) \/ PollSkips(lun) \/ GetAtr(lun, b)
         \/ InvalidLun(lun)
  PROVE  IInv'
<1>r. \A call \in Calls, code \in Codes : Ret(call, code) \in Replies
  BY RetTyped
<1>n. NoBytes \in Bytes
  BY DEF NoBytes, Bytes, PCSC_MAX_ATR_SIZE
<1> USE DEF Calls, Codes
<1>1. CASE PowerOther(lun)
  BY <1>1, <1>r, ReturnsStep DEF PowerOther
<1>2. CASE \E w \in BOOLEAN : TransmitRefused(lun, w)
  BY <1>2, <1>r, ReturnsStep DEF TransmitRefused
<1>3. CASE TransmitDone(lun)
  BY <1>3, <1>r, ReturnsStep DEF TransmitDone
<1>4. CASE PollSkips(lun)
  BY <1>4, <1>r, ReturnsStep DEF PollSkips
<1>5. CASE GetAtr(lun, b)
  <2>1. PICK s \in reader_list_get_reader(lun) :
          Returns(IF Unpowered(s) THEN ZeroAtr("capabilities", b)
                  ELSE GetCapability("capabilities",
                         [of |-> gReaderList[s].reader.cache.atr,
                          length |-> gReaderList[s].reader.cache.atrLength], b))
    BY <1>5 DEF GetAtr
  <2>2. [of |-> gReaderList[s].reader.cache.atr,
         length |-> gReaderList[s].reader.cache.atrLength] \in Bytes
    BY <2>1 DEF reader_list_get_reader, OpenSlots, IInv, TypeOK, ReaderEntries, Readers,
                AtrCache, Bytes
  <2>3. (IF Unpowered(s) THEN ZeroAtr("capabilities", b)
         ELSE GetCapability("capabilities",
                [of |-> gReaderList[s].reader.cache.atr,
                 length |-> gReaderList[s].reader.cache.atrLength], b)) \in Replies
    BY <2>2, <1>n, CapabilityTyped
  <2> QED BY <2>1, <2>3, ReturnsStep
<1>6. CASE InvalidLun(lun)
  BY <1>6, <1>r, ReturnsStep DEF InvalidLun
<1> QED BY <1>1, <1>2, <1>3, <1>4, <1>5, <1>6

(* Cards that come and go keep the invariant. *)
LEMMA SlotStep ==
  ASSUME IInv, InsertCard \/ RemoveCard
  PROVE  IInv'
<1>1. NoCall \in Replies
  BY RetTyped DEF NoCall, Calls, Codes
<1> QED BY <1>1 DEF IInv, TypeOK, OneReaderOwnsTheHardware, InsertCard, RemoveCard,
                    hardware, OpenSlots, Handle

(* The invariant holds initially. *)
LEMMA InitIInv == Init => IInv
<1> SUFFICES ASSUME Init PROVE IInv
  OBVIOUS
<1>1. kEmptyReaderEntry \in ReaderEntries /\ ~kEmptyReaderEntry.initialized
  BY DEF kEmptyReaderEntry, kEmptyReader, ReaderEntries, Readers, AtrCache, PCSC_MAX_ATR_SIZE
<1>2. NoCall \in Replies
  BY RetTyped DEF NoCall, Calls, Codes
<1>3. TypeOK
  BY <1>1, <1>2 DEF Init, TypeOK, RstLevels
<1>4. OpenSlots = {}
  BY <1>1 DEF Init, OpenSlots
<1> QED BY <1>3, <1>4 DEF IInv, Init, OneReaderOwnsTheHardware

(* Every step, of pcscd or of the slot, keeps the invariant. *)
LEMMA NextIInv == IInv /\ [Next]_vars => IInv'
<1> SUFFICES ASSUME IInv, [Next]_vars PROVE IInv'
  OBVIOUS
<1>1. ASSUME NEW ch \in Channels, IFDHCreateChannelByName(ch[1], ch[2]) PROVE IInv'
  BY <1>1, CreateStep, SessionAssumption
<1>2. ASSUME NEW lun \in Luns, Call(lun) PROVE IInv'
  <2>1. "ample" \in Buffers
    BY DEF Buffers
  <2>2. CASE IFDHCloseChannel(lun)
    BY <2>2, CloseStep
  <2>3. CASE IFDHPowerICC(lun)
    BY <2>1, <2>3, PowerUpStep, PowerDownStep, QuietCallStep DEF IFDHPowerICC
  <2>4. CASE IFDHTransmitToICC(lun)
    BY <2>1, <2>4, QuietCallStep DEF IFDHTransmitToICC
  <2>5. CASE IFDHICCPresence(lun)
    BY <2>1, <2>5, PollStep, QuietCallStep DEF IFDHICCPresence
  <2>6. CASE InvalidLun(lun) \/ (\E b \in Buffers : GetAtr(lun, b))
    BY <2>1, <2>6, QuietCallStep
  <2> QED BY <1>2, <2>2, <2>3, <2>4, <2>5, <2>6 DEF Call
<1>3. ASSUME NEW b \in Buffers, GetConstant(b) PROVE IInv'
  <2>1. NoBytes \in Bytes
    BY DEF NoBytes, Bytes, PCSC_MAX_ATR_SIZE
  <2> QED BY <1>3, <2>1, CapabilityTyped, ReturnsStep DEF GetConstant, Calls
<1>4. CASE Unsupported
  BY <1>4, RetTyped, ReturnsStep DEF Unsupported, Calls, Codes
<1>5. CASE InsertCard \/ RemoveCard
  BY <1>5, SlotStep
<1>6. CASE UNCHANGED vars
  BY <1>6 DEF IInv, TypeOK, OneReaderOwnsTheHardware, vars, hardware, slot, OpenSlots, Handle
<1> QED BY <1>1, <1>2, <1>3, <1>4, <1>5, <1>6 DEF Next

(* No call of pcscd, in any order, leaves the reader table, the pins or    *)
(* the ports in a state the code has no name for; pigpio is initialised    *)
(* exactly while one reader is open, there are never two, and nothing of a *)
(* session survives its closing: for any number of Luns, devices, cards    *)
(* and table entries.                                                      *)
THEOREM SessionKeptAlways == Spec => []SessionKept
<1>1. IInv => SessionKept
  BY DEF IInv, SessionKept
<1> QED BY InitIInv, NextIInv, <1>1, PTL DEF Spec
-----------------------------------------------------------------------------
(***************************************************************************)
(* The action properties: what no call may do to a reader that is open,    *)
(* and what every power-up does.  The invariant above carries them; where  *)
(* opening a channel is not to touch the device of another one, it needs   *)
(* that an open reader is one of the configured channels.                  *)
(***************************************************************************)
Configured == \A s \in OpenSlots : <<gReaderList[s].lun, Handle(s)>> \in Channels

(* What is returned carries the name of the call.                          *)
LEMMA RetNamed ==
  ASSUME NEW call, NEW code
  PROVE  Ret(call, code).call = call /\ Ret(call, code).code = code
BY DEF Ret

LEMMA CallNamed ==
  ASSUME NEW call, NEW bytes, NEW b \in Buffers
  PROVE  GetCapability(call, bytes, b).call = call /\ ZeroAtr(call, b).call = call
BY DEF Ret, GetCapability, ZeroAtr, Buffers

(* A call that changes nothing but what it returns, and does not return an *)
(* ATR to a power-up.                                                      *)
Quiet ==
  /\ UNCHANGED <<gReaderList, hardware, port, slot>>
  /\ ~(ret'.call = "power_up" /\ ret'.code = "IFD_SUCCESS")

LEMMA QuietCall ==
  ASSUME NEW lun, NEW b \in Buffers,
         \/ PowerOther(lun) \/ (\E w \in BOOLEAN : TransmitRefused(lun, w))
         \/ TransmitDone(lun) \/ PollSkips(lun) \/ GetAtr(lun, b)
         \/ InvalidLun(lun) \/ GetConstant(b) \/ Unsupported
  PROVE  Quiet
<1> USE DEF Quiet, Returns
<1>1. CASE PowerOther(lun)
  BY <1>1, RetNamed DEF PowerOther
<1>2. CASE \E w \in BOOLEAN : TransmitRefused(lun, w)
  BY <1>2, RetNamed DEF TransmitRefused
<1>3. CASE TransmitDone(lun)
  BY <1>3, RetNamed DEF TransmitDone
<1>4. CASE PollSkips(lun)
  BY <1>4, RetNamed DEF PollSkips
<1>5. CASE GetAtr(lun, b)
  BY <1>5, CallNamed DEF GetAtr
<1>6. CASE InvalidLun(lun)
  <2>1. PICK call : Returns(Ret(call, "IFD_COMMUNICATION_ERROR"))
    BY <1>6 DEF InvalidLun
  <2> QED BY <2>1, RetNamed
<1>7. CASE GetConstant(b)
  BY <1>7, CallNamed DEF GetConstant
<1>8. CASE Unsupported
  <2>1. PICK code : Returns(Ret("unsupported", code))
    BY <1>8 DEF Unsupported
  <2> QED BY <2>1, RetNamed
<1> QED BY <1>1, <1>2, <1>3, <1>4, <1>5, <1>6, <1>7, <1>8

(* What a step can be. *)
LEMMA StepCases ==
  ASSUME Next
  PROVE  \/ Quiet \/ InsertCard \/ RemoveCard
         \/ \E ch \in Channels : CreateFailed(ch[1], ch[2]) \/ Created(ch[1], ch[2])
         \/ \E lun \in Luns : IFDHCloseChannel(lun) \/ PollTests(lun)
         \/ \E lun \in Luns, b \in Buffers : PowerUp(lun, b) \/ PowerDown(lun, b)
<1>b. "ample" \in Buffers
  BY DEF Buffers
<1>1. ASSUME NEW ch \in Channels, CreateRefused(ch[1], ch[2]) PROVE Quiet
  BY <1>1, RetNamed DEF CreateRefused, Quiet, Returns
<1>2. ASSUME NEW lun \in Luns, Call(lun)
      PROVE  \/ Quiet \/ IFDHCloseChannel(lun) \/ PollTests(lun)
             \/ \E b \in Buffers : PowerUp(lun, b) \/ PowerDown(lun, b)
  <2>1. CASE IFDHPowerICC(lun)
    BY <2>1, <1>b, QuietCall DEF IFDHPowerICC
  <2>2. CASE IFDHTransmitToICC(lun)
    BY <2>2, <1>b, QuietCall DEF IFDHTransmitToICC
  <2>3. CASE IFDHICCPresence(lun)
    BY <2>3, <1>b, QuietCall DEF IFDHICCPresence
  <2>4. CASE InvalidLun(lun) \/ (\E b \in Buffers : GetAtr(lun, b))
    BY <2>4, <1>b, QuietCall
  <2> QED BY <1>2, <2>1, <2>2, <2>3, <2>4 DEF Call
<1>3. CASE \E b \in Buffers : GetConstant(b)
  BY <1>3, CallNamed DEF GetConstant, Quiet, Returns
<1>4. CASE Unsupported
  BY <1>4, <1>b, QuietCall
<1> QED BY <1>1, <1>2, <1>3, <1>4 DEF Next, IFDHCreateChannelByName

(***************************************************************************)
(* What a reset does to the reader it is made for, which is the only one.  *)
(***************************************************************************)
LEMMA OnlyOne ==
  ASSUME IInv, NEW s \in OpenSlots
  PROVE  OpenSlots = {s} /\ s \in Slots /\ libInitialised /\ Handle(s) \in Devices
BY DEF IInv, OneReaderOwnsTheHardware, OpenSlots

LEMMA Becomes ==
  ASSUME IInv, NEW s \in OpenSlots, NEW o, NEW power, NEW presence,
         ReaderBecomes(s, o, power, presence)
  PROVE  /\ OpenSlots' = OpenSlots
         /\ gReaderList'[s].lun = gReaderList[s].lun /\ Handle(s)' = Handle(s)
         /\ Cache(s)' = o.cache /\ gReaderList'[s].reader.power = power
         /\ port'[Handle(s)] = o.port
         /\ rst' = o.rst /\ clock' = o.clock /\ mode' = o.mode /\ card' = card
<1>1. /\ gReaderList \in [Slots -> ReaderEntries] /\ s \in Slots /\ Handle(s) \in Devices
      /\ port \in [Devices -> Params \cup {None}]
  BY OnlyOne DEF IInv, TypeOK
<1>2. gReaderList[s] \in ReaderEntries /\ gReaderList[s].reader \in Readers
  BY <1>1 DEF ReaderEntries
<1> DEFINE rd == [gReaderList[s].reader EXCEPT !.cache = o.cache, !.power = power,
                                               !.presence = presence]
<1>3. rd.handle = gReaderList[s].reader.handle /\ rd.cache = o.cache /\ rd.power = power
  BY <1>2 DEF Readers
<1>4. gReaderList' = [gReaderList EXCEPT ![s].reader = rd]
  BY DEF ReaderBecomes
<1> HIDE DEF rd
<1>5. /\ \A t \in Slots : t # s => gReaderList'[t] = gReaderList[t]
      /\ gReaderList'[s].reader = rd /\ gReaderList'[s].initialized = gReaderList[s].initialized
      /\ gReaderList'[s].lun = gReaderList[s].lun
  BY <1>1, <1>2, <1>4 DEF ReaderEntries
<1>6. OpenSlots' = OpenSlots
  BY <1>1, <1>5 DEF OpenSlots
<1>7. port'[Handle(s)] = o.port
  BY <1>1 DEF ReaderBecomes, LineBecomes, Handle
<1> QED BY <1>3, <1>5, <1>6, <1>7 DEF ReaderBecomes, LineBecomes, Handle, Cache

(* The calls that reset an open reader, and are not those that open one.   *)
LEMMA ResetCall ==
  ASSUME IInv, NEW lun \in Luns, NEW b \in Buffers,
         PowerUp(lun, b) \/ PowerDown(lun, b) \/ PollTests(lun)
  PROVE  /\ \E s \in OpenSlots : \E o, power, presence : ReaderBecomes(s, o, power, presence)
         /\ ret'.call # "create"
<1>1. reader_list_get_reader(lun) \subseteq OpenSlots
  BY DEF reader_list_get_reader
<1>2. CASE PowerUp(lun, b)
  BY <1>1, <1>2, RetNamed, CallNamed DEF PowerUp
<1>3. CASE PowerDown(lun, b)
  BY <1>1, <1>3, RetNamed, CallNamed DEF PowerDown
<1>4. CASE PollTests(lun)
  BY <1>1, <1>4, RetNamed DEF PollTests
<1> QED BY <1>2, <1>3, <1>4

(* Opening a channel, closing one.                                         *)
LEMMA FailedOpening ==
  ASSUME IInv, NEW lun, NEW dev, CreateFailed(lun, dev)
  PROVE  /\ gReaderList' = gReaderList /\ reader_list_get_reader(lun) = {}
         /\ port' \in {port, [port EXCEPT ![dev] = DefaultParams]}
         /\ ret'.call = "create"
         /\ UNCHANGED <<hardware, slot>>
<1>1. PICK s \in reader_list_alloc_reader :
        /\ gReaderList' = reader_list_free_reader(gReaderList, s)
        /\ port' \in {port, [port EXCEPT ![dev] = DefaultParams]}
        /\ ret' = Ret("create", "IFD_COMMUNICATION_ERROR")
        /\ UNCHANGED <<hardware, slot>>
  BY DEF CreateFailed
<1>2. s \in Slots \ OpenSlots
  BY <1>1 DEF reader_list_alloc_reader
<1>3. gReaderList' = gReaderList
  BY <1>1, <1>2 DEF IInv, TypeOK, OneReaderOwnsTheHardware, reader_list_free_reader
<1>4. reader_list_get_reader(lun) = {}
  BY DEF CreateFailed, CanCreate
<1> QED BY <1>1, <1>3, <1>4, RetNamed

LEMMA Opening ==
  ASSUME IInv, NEW lun, NEW dev, Created(lun, dev)
  PROVE  /\ OpenSlots = {}
         /\ \E s \in Slots :
              /\ OpenSlots' = {s} /\ gReaderList'[s].lun = lun
              /\ gReaderList'[s].reader = transport_initialize(kEmptyReader, dev)
         /\ ret'.call = "create"
<1>1. PICK s \in reader_list_alloc_reader :
        /\ ~libInitialised
        /\ gReaderList' = [gReaderList EXCEPT
               ![s] = [initialized |-> TRUE, lun |-> lun,
                       reader |-> transport_initialize(@.reader, dev)]]
        /\ ret' = Ret("create", "IFD_SUCCESS")
  BY DEF Created, hw_initialize_possible
<1>2. OpenSlots = {} /\ s \in Slots \ OpenSlots /\ gReaderList[s] = kEmptyReaderEntry
  BY <1>1 DEF reader_list_alloc_reader, IInv, OneReaderOwnsTheHardware
<1>3. gReaderList[s].reader = kEmptyReader
  BY <1>2 DEF kEmptyReaderEntry
<1>4. gReaderList \in [Slots -> ReaderEntries]
  BY DEF IInv, TypeOK
<1>5. gReaderList'[s] = [initialized |-> TRUE, lun |-> lun,
                         reader |-> transport_initialize(kEmptyReader, dev)]
  BY <1>1, <1>2, <1>3, <1>4
<1>6. \A t \in Slots : t # s => gReaderList'[t] = gReaderList[t]
  BY <1>1, <1>4
<1>7. OpenSlots' = {s}
  BY <1>2, <1>5, <1>6 DEF OpenSlots
<1> QED BY <1>1, <1>2, <1>5, <1>7, RetNamed

LEMMA Closing ==
  ASSUME IInv, NEW lun, IFDHCloseChannel(lun)
  PROVE  OpenSlots' = {} /\ ret'.call = "close"
<1>1. PICK s \in reader_list_get_reader(lun) :
        /\ gReaderList' = reader_list_free_reader(gReaderList, s)
        /\ ret' = Ret("close", "IFD_SUCCESS")
  BY DEF IFDHCloseChannel
<1>2. s \in OpenSlots
  BY <1>1 DEF reader_list_get_reader
<1>3. OpenSlots = {s} /\ gReaderList \in [Slots -> ReaderEntries]
  BY <1>2, OnlyOne DEF IInv, TypeOK
<1>4. \A t \in Slots : gReaderList'[t].initialized = (IF t = s THEN FALSE ELSE gReaderList[t].initialized)
  BY <1>1, <1>3 DEF reader_list_free_reader, kEmptyReaderEntry
<1>5. OpenSlots' = {}
  BY <1>3, <1>4 DEF OpenSlots
<1> QED BY <1>1, <1>5, RetNamed

(* An open reader is one of the configured channels.                       *)
LEMMA ConfiguredStep == IInv /\ Configured /\ [Next]_vars => Configured'
<1> SUFFICES ASSUME IInv, Configured, [Next]_vars PROVE Configured'
  OBVIOUS
<1>1. CASE UNCHANGED gReaderList
  BY <1>1 DEF Configured, OpenSlots, Handle
<1>2. ASSUME NEW ch \in Channels, Created(ch[1], ch[2]) PROVE Configured'
  <2>1. PICK s \in Slots :
          /\ OpenSlots' = {s} /\ gReaderList'[s].lun = ch[1]
          /\ gReaderList'[s].reader = transport_initialize(kEmptyReader, ch[2])
    BY <1>2, Opening
  <2>2. Handle(s)' = ch[2]
    BY <2>1 DEF Handle, transport_initialize, kEmptyReader
  <2>3. ch = <<ch[1], ch[2]>>
    BY SessionAssumption
  <2> QED BY <2>1, <2>2, <2>3 DEF Configured
<1>3. ASSUME NEW ch \in Channels, CreateFailed(ch[1], ch[2]) PROVE Configured'
  BY <1>1, <1>3, FailedOpening
<1>4. ASSUME NEW lun \in Luns, IFDHCloseChannel(lun) PROVE Configured'
  BY <1>4, Closing DEF Configured
<1>5. ASSUME NEW lun \in Luns, NEW b \in Buffers,
             PowerUp(lun, b) \/ PowerDown(lun, b) \/ PollTests(lun)
      PROVE  Configured'
  <2>1. PICK s \in OpenSlots : \E o, power, presence : ReaderBecomes(s, o, power, presence)
    BY <1>5, ResetCall
  <2>2. /\ OpenSlots' = {s} /\ gReaderList'[s].lun = gReaderList[s].lun
        /\ Handle(s)' = Handle(s)
    BY <2>1, Becomes, OnlyOne
  <2> QED BY <2>2 DEF Configured
<1>6. "ample" \in Buffers
  BY DEF Buffers
<1>7. CASE Quiet \/ InsertCard \/ RemoveCard
  BY <1>1, <1>7 DEF Quiet, InsertCard, RemoveCard
<1>8. CASE UNCHANGED vars
  BY <1>1, <1>8 DEF vars
<1> QED BY <1>2, <1>3, <1>4, <1>5, <1>6, <1>7, <1>8, StepCases

LEMMA ConfiguredInit == Init => Configured
BY DEF Init, Configured, OpenSlots, kEmptyReaderEntry

(* With a device of its own for every channel, one that cannot be opened   *)
(* leaves the ports of those that are open alone.                          *)
LEMMA FailedOpeningSparesOthers ==
  ASSUME IInv, Configured, NEW ch \in Channels, CreateFailed(ch[1], ch[2]),
         NEW s \in OpenSlots
  PROVE  port'[Handle(s)] = port[Handle(s)] /\ UNCHANGED <<gReaderList, hardware, slot>>
<1>1. /\ gReaderList' = gReaderList /\ reader_list_get_reader(ch[1]) = {}
      /\ port' \in {port, [port EXCEPT ![ch[2]] = DefaultParams]}
      /\ UNCHANGED <<hardware, slot>>
  BY FailedOpening
<1>2. Handle(s) # ch[2]
  <2>1. <<gReaderList[s].lun, Handle(s)>> \in Channels
    BY DEF Configured
  <2>2. gReaderList[s].lun # ch[1]
    BY <1>1 DEF reader_list_get_reader
  <2> QED BY <2>1, <2>2, ChannelAssumption
<1>3. port \in [Devices -> Params \cup {None}] /\ Handle(s) \in Devices
  BY OnlyOne DEF IInv, TypeOK
<1> QED BY <1>1, <1>2, <1>3

(***************************************************************************)
(* The theorems.                                                           *)
(***************************************************************************)

(* A channel that has just been opened has no power, no presence and no    *)
(* ATR of the session before, for any table and any order of calls: it     *)
(* rests on the entry having been wiped, which the invariant carries.      *)
THEOREM ChannelsAreFresh == Spec => FreshChannel
<1> DEFINE Fresh ==
      \A s \in Slots : s \notin OpenSlots /\ (s \in OpenSlots)' =>
        /\ ~Powered(s)'
        /\ gReaderList'[s].reader.presence = "PRESENT_FALSE"
        /\ Cache(s)'.atrLength = 0
<1>1. ASSUME IInv, Next PROVE Fresh
  <2> SUFFICES ASSUME NEW s \in Slots, s \notin OpenSlots, (s \in OpenSlots)'
               PROVE  /\ ~Powered(s)'
                      /\ gReaderList'[s].reader.presence = "PRESENT_FALSE"
                      /\ Cache(s)'.atrLength = 0
    OBVIOUS
  <2>1. CASE UNCHANGED gReaderList
    BY <2>1 DEF OpenSlots
  <2>2. ASSUME NEW ch \in Channels, Created(ch[1], ch[2]) PROVE
          gReaderList'[s].reader = transport_initialize(kEmptyReader, ch[2])
    BY <1>1, <2>2, Opening
  <2>3. ASSUME NEW dev, gReaderList'[s].reader = transport_initialize(kEmptyReader, dev)
        PROVE  /\ gReaderList'[s].reader.power = "POWERED_OFF"
               /\ gReaderList'[s].reader.presence = "PRESENT_FALSE"
               /\ gReaderList'[s].reader.cache.atrLength = 0
    BY <2>3 DEF transport_initialize, kEmptyReader
  <2>4. ASSUME NEW ch \in Channels, CreateFailed(ch[1], ch[2]) PROVE FALSE
    BY <1>1, <2>4, <2>1, FailedOpening DEF OpenSlots
  <2>5. ASSUME NEW lun \in Luns, IFDHCloseChannel(lun) PROVE FALSE
    BY <1>1, <2>5, Closing
  <2>6. ASSUME NEW lun \in Luns, NEW b \in Buffers,
               PowerUp(lun, b) \/ PowerDown(lun, b) \/ PollTests(lun)
        PROVE  FALSE
    BY <1>1, <2>6, ResetCall, Becomes
  <2>7. "ample" \in Buffers
    BY DEF Buffers
  <2>8. CASE Quiet \/ InsertCard \/ RemoveCard
    BY <2>1, <2>8 DEF Quiet, InsertCard, RemoveCard
  <2> QED BY <1>1, <2>2, <2>3, <2>4, <2>5, <2>6, <2>7, <2>8, StepCases DEF Powered, Cache
<1>2. IInv /\ [Next]_vars => [Fresh]_vars
  BY <1>1
<1> QED BY InitIInv, NextIInv, <1>2, PTL DEF Spec, FreshChannel

(* Opening a channel does nothing to the port, the pins and the card of a  *)
(* reader that is open already: pigpio refuses the second one, and what    *)
(* was done before it refuses was done to another device.                  *)
THEOREM OpeningHarmsNobody == Spec => OpenLeavesOthersAlone
<1> DEFINE Harmless ==
      \A s \in OpenSlots : ret'.call = "create" =>
        /\ port'[Handle(s)] = port[Handle(s)]
        /\ UNCHANGED <<rst, clock, mode>>
<1>1. ASSUME IInv, Configured, Next PROVE Harmless
  <2> SUFFICES ASSUME NEW s \in OpenSlots, ret'.call = "create"
               PROVE  port'[Handle(s)] = port[Handle(s)] /\ UNCHANGED <<rst, clock, mode>>
    OBVIOUS
  <2>1. CASE Quiet
    BY <2>1 DEF Quiet, hardware, slot
  <2>2. CASE InsertCard \/ RemoveCard
    BY <2>2, RetNamed DEF InsertCard, RemoveCard, NoCall
  <2>3. ASSUME NEW ch \in Channels, CreateFailed(ch[1], ch[2])
        PROVE  port'[Handle(s)] = port[Handle(s)] /\ UNCHANGED <<rst, clock, mode>>
    BY <1>1, <2>3, FailedOpeningSparesOthers DEF hardware, slot
  <2>4. ASSUME NEW ch \in Channels, Created(ch[1], ch[2]) PROVE FALSE
    BY <1>1, <2>4, Opening
  <2>5. ASSUME NEW lun \in Luns, IFDHCloseChannel(lun) PROVE FALSE
    BY <1>1, <2>5, Closing
  <2>6. ASSUME NEW lun \in Luns, NEW b \in Buffers,
               PowerUp(lun, b) \/ PowerDown(lun, b) \/ PollTests(lun)
        PROVE  FALSE
    BY <1>1, <2>6, ResetCall
  <2>7. "ample" \in Buffers
    BY DEF Buffers
  <2> QED BY <1>1, <2>1, <2>2, <2>3, <2>4, <2>5, <2>6, <2>7, StepCases
<1>2. IInv /\ Configured /\ [Next]_vars => [Harmless]_vars
  BY <1>1
<1> QED BY InitIInv, NextIInv, ConfiguredInit, ConfiguredStep, <1>2, PTL
        DEF Spec, OpenLeavesOthersAlone

(* A reset that succeeds has gone all the way: card, port and clock are at *)
(* the parameters that are recorded, and the ATR is cached with its length.*)
WentThrough(l, dev, o) ==
  /\ Reachable(l, dev)
  /\ \E q \in CardParams[l.card] :
       o = Outcome(TRUE, [atr |-> l.card, atrLength |-> AtrLen[l.card], params |-> q],
                   q, "high", q, q)

LEMMA ResetOk ==
  ASSUME NEW l, NEW dev, NEW k, NEW o \in transport_reset(l, dev, k)
  PROVE  o.ok => WentThrough(l, dev, o)
<1> SUFFICES ASSUME o.ok PROVE WentThrough(l, dev, o)
  OBVIOUS
<1>1. ASSUME NEW c, NEW p, NEW r, NEW f, NEW m, o = Outcome(FALSE, c, p, r, f, m) PROVE FALSE
  BY <1>1 DEF Outcome
<1>2. CASE o \in NoPins(l, k)
  BY <1>1, <1>2 DEF NoPins
<1>3. CASE o \in NoSerial(l, dev, k)
  BY <1>1, <1>3 DEF NoSerial
<1>4. CASE o \in NoAtr(l, dev, k)
  BY <1>1, <1>4 DEF NoAtr
<1>5. CASE o \in NoAgreement(l, k)
  BY <1>1, <1>5 DEF NoAgreement
<1>6. CASE o \in NoSwitch(l, k)
  BY <1>1, <1>6 DEF NoSwitch
<1>7. CASE Reachable(l, dev) /\ o \in Negotiated(l)
  BY <1>7 DEF Negotiated, WentThrough
<1> QED BY <1>2, <1>3, <1>4, <1>5, <1>6, <1>7 DEF transport_reset

(* So a power-up that succeeds synchronises the reader.                    *)
LEMMA PowerUpOk ==
  ASSUME IInv, NEW s \in OpenSlots, NEW o \in reader_reset_impl(s), o.ok, NEW presence,
         ReaderBecomes(s, o, "POWERED_ON", presence)
  PROVE  s \in OpenSlots' /\ Powered(s)' /\ Synchronised(s)'
<1>1. o \in transport_reset(LineOf(s), Handle(s), gReaderList[s].reader.cache)
  BY DEF reader_reset_impl, Handle
<1>2. LineOf(s).card = card
  BY DEF LineOf
<1>3. /\ card # None /\ Handle(s) = WiredDevice
      /\ \E q \in CardParams[card] :
           o = Outcome(TRUE, [atr |-> card, atrLength |-> AtrLen[card], params |-> q],
                       q, "high", q, q)
  <2> DEFINE l == LineOf(s)
  <2>1. o \in transport_reset(l, Handle(s), gReaderList[s].reader.cache) /\ l.card = card
    BY <1>1, <1>2
  <2> HIDE DEF l
  <2>2. WentThrough(l, Handle(s), o)
    BY <2>1, ResetOk
  <2>3. card # None /\ Handle(s) = WiredDevice
    BY <2>1, <2>2 DEF WentThrough, Reachable
  <2> QED BY <2>1, <2>2, <2>3 DEF WentThrough
<1>4. PICK q \in CardParams[card] :
        o = Outcome(TRUE, [atr |-> card, atrLength |-> AtrLen[card], params |-> q],
                    q, "high", q, q)
  BY <1>3
<1>5. /\ o.cache = [atr |-> card, atrLength |-> AtrLen[card], params |-> q]
      /\ o.port = q /\ o.rst = "high" /\ o.clock = q /\ o.mode = q
  BY <1>4 DEF Outcome
<1>6. /\ OpenSlots' = OpenSlots /\ Handle(s)' = Handle(s) /\ Cache(s)' = o.cache
      /\ gReaderList'[s].reader.power = "POWERED_ON" /\ port'[Handle(s)] = o.port
      /\ rst' = o.rst /\ clock' = o.clock /\ mode' = o.mode /\ card' = card
  BY Becomes
<1>7. Linked(s)'
  BY <1>3, <1>5, <1>6 DEF Linked, Handle
<1>8. Synchronised(s)'
  BY <1>3, <1>5, <1>6, <1>7 DEF Synchronised
<1> QED BY <1>6, <1>8 DEF Powered

(* Whenever an ATR is handed out for a power-up, reader, port, pins and    *)
(* card agree, whichever way the reset went.                               *)
THEOREM PowerUpsSynchronise == Spec => PowerUpSynchronises
<1> DEFINE Synchronises ==
      ret'.call = "power_up" /\ ret'.code = "IFD_SUCCESS" =>
        \E s \in OpenSlots : Powered(s)' /\ Synchronised(s)'
<1>1. ASSUME IInv, Next PROVE Synchronises
  <2> SUFFICES ASSUME ret'.call = "power_up", ret'.code = "IFD_SUCCESS"
               PROVE  \E s \in OpenSlots : Powered(s)' /\ Synchronised(s)'
    OBVIOUS
  <2>1. CASE Quiet
    BY <2>1 DEF Quiet
  <2>2. CASE InsertCard \/ RemoveCard
    BY <2>2, RetNamed DEF InsertCard, RemoveCard, NoCall
  <2>3. ASSUME NEW ch \in Channels, CreateFailed(ch[1], ch[2]) \/ Created(ch[1], ch[2])
        PROVE  FALSE
    BY <1>1, <2>3, FailedOpening, Opening
  <2>4. ASSUME NEW lun \in Luns, IFDHCloseChannel(lun) PROVE FALSE
    BY <1>1, <2>4, Closing
  <2>5. ASSUME NEW lun \in Luns, PollTests(lun) PROVE FALSE
    BY <2>5, RetNamed DEF PollTests
  <2>6. ASSUME NEW lun \in Luns, NEW b \in Buffers, PowerDown(lun, b) PROVE FALSE
    BY <2>6, RetNamed, CallNamed DEF PowerDown
  <2>7. ASSUME NEW lun \in Luns, NEW b \in Buffers, PowerUp(lun, b)
        PROVE  \E s \in OpenSlots : Powered(s)' /\ Synchronised(s)'
    <3>1. PICK s \in reader_list_get_reader(lun) : \E o \in reader_reset_impl(s) :
            /\ ReaderBecomes(s, o, PowerAfterReset(s, o.ok), gReaderList[s].reader.presence)
            /\ o.ok \/ ret' = Ret("power_up", "IFD_COMMUNICATION_ERROR")
      BY <2>7 DEF PowerUp
    <3>2. PICK o \in reader_reset_impl(s) :
            /\ ReaderBecomes(s, o, PowerAfterReset(s, o.ok), gReaderList[s].reader.presence)
            /\ o.ok \/ ret' = Ret("power_up", "IFD_COMMUNICATION_ERROR")
      BY <3>1
    <3>3. o.ok
      BY <3>2, RetNamed
    <3>4. ReaderBecomes(s, o, "POWERED_ON", gReaderList[s].reader.presence)
      BY <3>2, <3>3 DEF PowerAfterReset
    <3>5. s \in OpenSlots
      BY <3>1 DEF reader_list_get_reader
    <3> QED BY <1>1, <3>3, <3>4, <3>5, PowerUpOk
  <2> QED BY <1>1, <2>1, <2>2, <2>3, <2>4, <2>5, <2>6, <2>7, StepCases
<1>2. IInv /\ [Next]_vars => [Synchronises]_vars
  BY <1>1
<1> QED BY InitIInv, NextIInv, <1>2, PTL DEF Spec, PowerUpSynchronises

(* A poll is not made of a reader that is powered and present.             *)
LEMMA PollOfPresent ==
  ASSUME IInv, NEW lun \in Luns, PollTests(lun), NEW s \in OpenSlots, Powered(s)
  PROVE  gReaderList[s].reader.presence # "PRESENT_TRUE"
<1>1. PICK t \in reader_list_get_reader(lun) : TestsPresence(t)
  BY DEF PollTests
<1>2. t = s
  BY <1>1, OnlyOne DEF reader_list_get_reader
<1> QED BY <1>1, <1>2 DEF TestsPresence, Powered

(* A power-down either fails or ends the power.                            *)
LEMMA PowerDownEnds ==
  ASSUME IInv, NEW lun \in Luns, NEW b \in Buffers, PowerDown(lun, b),
         NEW s \in OpenSlots, Powered(s)'
  PROVE  ret'.call = "power_down" /\ ret'.code # "IFD_SUCCESS"
<1>1. PICK t \in reader_list_get_reader(lun) : \E o \in reader_power_off(t) :
        /\ ReaderBecomes(t, o, IF o.ok THEN "POWERED_OFF" ELSE gReaderList[t].reader.power,
                         gReaderList[t].reader.presence)
        /\ o.ok \/ ret' = Ret("power_down", "IFD_COMMUNICATION_ERROR")
  BY DEF PowerDown
<1>2. PICK o \in reader_power_off(t) :
        /\ ReaderBecomes(t, o, IF o.ok THEN "POWERED_OFF" ELSE gReaderList[t].reader.power,
                         gReaderList[t].reader.presence)
        /\ o.ok \/ ret' = Ret("power_down", "IFD_COMMUNICATION_ERROR")
  BY <1>1
<1>3. t = s
  BY <1>1, OnlyOne DEF reader_list_get_reader
<1>4. CASE o.ok
  <2>1. ReaderBecomes(s, o, "POWERED_OFF", gReaderList[s].reader.presence)
    BY <1>2, <1>3, <1>4
  <2>2. gReaderList'[s].reader.power = "POWERED_OFF"
    BY <2>1, Becomes
  <2> QED BY <2>2 DEF Powered
<1>5. CASE ~o.ok
  BY <1>2, <1>5, RetNamed
<1> QED BY <1>4, <1>5

(* While its card stays, a powered reader that agrees with it goes on      *)
(* agreeing with it, through polls, commands, power-ups and other channels *)
(* being opened, but for a power-down that fails.                          *)
THEOREM AgreementLasts == Spec => AgreementKept
<1> DEFINE Kept ==
      \A s \in Slots :
        (/\ Powered(s) /\ Synchronised(s) /\ Powered(s)' /\ card' = card
         /\ gReaderList[s].reader.presence = "PRESENT_TRUE"
         /\ ~(ret'.call = "power_down" /\ ret'.code # "IFD_SUCCESS"))
        => Synchronised(s)'
<1>1. ASSUME IInv, Configured, Next PROVE Kept
  <2> SUFFICES ASSUME NEW s \in Slots, Powered(s), Synchronised(s), Powered(s)',
                      card' = card, gReaderList[s].reader.presence = "PRESENT_TRUE",
                      ~(ret'.call = "power_down" /\ ret'.code # "IFD_SUCCESS")
               PROVE  Synchronised(s)'
    OBVIOUS
  <2>s. s \in OpenSlots /\ s \in OpenSlots'
    BY DEF Powered
  <2>u. ASSUME port'[Handle(s)] = port[Handle(s)], UNCHANGED <<gReaderList, hardware, slot>>
        PROVE  Synchronised(s)'
    BY <2>u DEF Synchronised, Linked, Handle, Cache, hardware, slot
  <2>1. CASE Quiet
    BY <2>1, <2>u DEF Quiet, Handle
  <2>2. CASE InsertCard \/ RemoveCard
    BY <2>2, CardAssumption DEF InsertCard, RemoveCard
  <2>3. ASSUME NEW ch \in Channels, CreateFailed(ch[1], ch[2]) PROVE Synchronised(s)'
    BY <1>1, <2>3, <2>s, <2>u, FailedOpeningSparesOthers
  <2>4. ASSUME NEW ch \in Channels, Created(ch[1], ch[2]) PROVE FALSE
    BY <1>1, <2>4, <2>s, Opening
  <2>5. ASSUME NEW lun \in Luns, IFDHCloseChannel(lun) PROVE FALSE
    BY <1>1, <2>5, <2>s, Closing
  <2>6. ASSUME NEW lun \in Luns, PollTests(lun) PROVE FALSE
    BY <1>1, <2>6, <2>s, PollOfPresent
  <2>7. ASSUME NEW lun \in Luns, NEW b \in Buffers, PowerDown(lun, b) PROVE FALSE
    BY <1>1, <2>7, <2>s, PowerDownEnds
  <2>8. ASSUME NEW lun \in Luns, NEW b \in Buffers, PowerUp(lun, b) PROVE Synchronised(s)'
    <3>1. PICK t \in reader_list_get_reader(lun) : \E o \in reader_reset_impl(t) :
            ReaderBecomes(t, o, PowerAfterReset(t, o.ok), gReaderList[t].reader.presence)
      BY <2>8 DEF PowerUp
    <3>2. t = s
      BY <1>1, <2>s, <3>1, OnlyOne DEF reader_list_get_reader
    <3>3. PICK o \in reader_reset_impl(s) :
            ReaderBecomes(s, o, PowerAfterReset(s, o.ok), gReaderList[s].reader.presence)
      BY <3>1, <3>2
    <3>4. gReaderList'[s].reader.power = PowerAfterReset(s, o.ok)
      BY <1>1, <2>s, <3>3, Becomes
    <3>5. o.ok
      BY <3>4 DEF PowerAfterReset, Powered
    <3>6. ReaderBecomes(s, o, "POWERED_ON", gReaderList[s].reader.presence)
      BY <3>3, <3>5 DEF PowerAfterReset
    <3> QED BY <1>1, <2>s, <3>5, <3>6, PowerUpOk
  <2> QED BY <1>1, <2>1, <2>2, <2>3, <2>4, <2>5, <2>6, <2>7, <2>8, StepCases
<1>2. IInv /\ Configured /\ [Next]_vars => [Kept]_vars
  BY <1>1
<1> QED BY InitIInv, NextIInv, ConfiguredInit, ConfiguredStep, <1>2, PTL DEF Spec, AgreementKept
=============================================================================
