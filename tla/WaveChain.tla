----------------------------- MODULE WaveChain -----------------------------
(* gpioWaveChain of pigpio: a chain of waveforms, delays and loops is compiled
   into DMA control blocks (CBs). A CB can do no more than copy words, so a loop
   counts by copying link words: a counter is a row of digits, each a ring of
   links that turns by one entry per pass, in which one entry links onwards.

   An address is a pair: <<"chain", n>>, <<"wave", id>> (the waveform from its
   first step to its last CB), <<"count", k, j>> (CB j of counter k), or End.   *)
EXTENDS Integers, Sequences, SequencesExt, TLC

CONSTANTS
  Programs,       \* the chains of the instance
  WaveIds,        \* the waveforms that exist
  blklen, blocks, \* entries of a digit, and digits, of a counter
  WCB_COUNTERS,   \* counters there are
  MaxNesting,     \* sizeof(stk_pos)
  ChainCBs        \* CBs there are for a chain

ASSUME ChainAssumption ==
  /\ blklen \in Nat \ {0, 1} /\ blocks \in Nat \ {0}
  /\ WCB_COUNTERS \in Nat /\ MaxNesting \in Nat /\ ChainCBs \in Nat

End == <<"end", 0>>
Chain(n) == <<"chain", n>>
Pause == -1   \* what is heard of a delay; of a waveform it is its number

VARIABLES
  program,     \* the chain being transmitted
  code,        \* the result of gpioWaveChain: the CBs of the chain, or an error
  link,        \* the link words that the DMA engine rewrites
  ring,        \* the on-off levels of the counters: their digits, and the spare copy
  dma,         \* the address of the CB being played
  played       \* what was heard on the GPIOs: waveforms and delays

chainVars == <<program, code, link, ring, dma, played>>

----------------------------------------------------------------------------
(* The digits of a counter *)

Digits == 0..(blocks - 1)
EntryOf(b, i) == b * (blklen + 1) + i             \* entry i of digit b; entry blklen is its top
RingSlots == 0..(blocks * (blklen + 1) - 1)
DigitCB(k, b) == <<"count", k, b * 3>>         \* the first of the three CBs of a digit
ResetCB(k) == <<"count", k, blocks * 3>>

DigitOf(count, b) == (count \div blklen^b) % blklen
HasDigit(count, b) == count \div blklen^b > 0

\* chainMakeCounter: every entry repeats the loop, but for the entry of a digit
\* of `count`, which links to the next digit, or from the last one to the reset.
Ring(k, count, repeat) ==
  [s \in RingSlots |->
     LET b == s \div (blklen + 1)
         i == s % (blklen + 1)
         onwards == IF b + 1 < blocks THEN DigitCB(k, b + 1) ELSE ResetCB(k)
     IN CASE i = blklen -> onwards
          [] i # blklen /\ HasDigit(count, b) /\ i = DigitOf(count, b) ->
               IF HasDigit(count, b + 1) THEN onwards ELSE ResetCB(k)
          [] OTHER -> repeat]

----------------------------------------------------------------------------
(* The compiler: the body of its loop over the bytes of the chain *)

Fail(st, e) == [st EXCEPT !.error = e]
Emit(st, instr) == [st EXCEPT !.cbs = Append(@, instr)]
At(st) == Len(st.cbs)                          \* `cb`, the number of the next CB
Room(st, n) == At(st) + n <= ChainCBs

LoopOf(st) == IF st.stack = <<>> THEN 0 ELSE Last(st.stack)
Popped(st) == [st EXCEPT !.stack = IF @ = <<>> THEN @ ELSE Front(@)]

WaveCmd(st, id) ==
  IF id \notin WaveIds THEN Fail(st, "PI_BAD_WAVE_ID")
  ELSE IF ~Room(st, 2) THEN Fail(st, "PI_CHAIN_TOO_BIG")
  \* the CB copies the address of the CB after it to the end of the waveform
  ELSE Emit(st, [op |-> "patch", wave |-> id, next |-> <<"wave", id>>])
BeginCmd(st) ==
  IF Len(st.stack) >= MaxNesting THEN Fail(st, "PI_CHAIN_NESTING")
  ELSE [st EXCEPT !.stack = Append(@, At(st))]
\* (mutant: a count of 0 is taken for one of 1)
EndCmdOnce(st, cycles) ==
  LET loop == LoopOf(st) IN
  CASE Len(st.counters) >= WCB_COUNTERS -> Fail(st, "PI_CHAIN_COUNTER")
    [] Len(st.counters) < WCB_COUNTERS /\ loop \in {0, At(st)} -> Fail(st, "PI_BAD_CHAIN_LOOP")
    [] OTHER ->
       IF cycles <= 1 THEN Popped(st)
       ELSE IF ~Room(st, 2) THEN Fail(st, "PI_CHAIN_TOO_BIG")
       ELSE [Emit(Popped(st), [op |-> "go", next |-> DigitCB(Len(st.counters), 0)])
               EXCEPT !.counters = Append(@, [count |-> cycles - 1,
                                      repeat |-> Chain(loop), next |-> Chain(At(st) + 1)])]
\* A count of 0 relinks the first CB of the loop; 1 needs no counter.
EndCmd(st, cycles) ==
  LET loop == LoopOf(st) IN
  CASE Len(st.counters) >= WCB_COUNTERS -> Fail(st, "PI_CHAIN_COUNTER")
    [] Len(st.counters) < WCB_COUNTERS /\ loop \in {0, At(st)} -> Fail(st, "PI_BAD_CHAIN_LOOP")
    [] OTHER ->
       CASE cycles = 0 -> [Popped(st) EXCEPT !.cbs[loop + 1].next = Chain(At(st))]
         [] cycles = 1 -> Popped(st)
         [] cycles > 1 ->
              IF ~Room(st, 2) THEN Fail(st, "PI_CHAIN_TOO_BIG")
              ELSE [Emit(Popped(st), [op |-> "go", next |-> DigitCB(Len(st.counters), 0)])
                      EXCEPT !.counters = Append(@, [count |-> cycles - 1,
                                             repeat |-> Chain(loop), next |-> Chain(At(st) + 1)])]
\* A delay takes `n` CBs: none if it is 0, more than one if it is too long for a
\* lite channel (waveDelayCBs).
DelayCmd(st, n) ==
  IF ~Room(st, n) THEN Fail(st, "PI_CHAIN_TOO_BIG")
  ELSE [st EXCEPT !.cbs = @ \o [k \in 1..n |-> [op |-> "delay", next |-> Chain(At(st) + k)]]]
ForeverCmd(st) ==
  LET loop == LoopOf(st) IN
  IF loop \in {0, At(st)} THEN Fail(st, "PI_BAD_CHAIN_LOOP")
  ELSE IF ~Room(st, 1) THEN Fail(st, "PI_CHAIN_TOO_BIG")
  ELSE [Emit(Popped(st), [op |-> "go", next |-> Chain(loop)]) EXCEPT !.forever = TRUE]

Command(st, c) ==
  CASE st.error # "ok" -> st
    [] st.error = "ok" /\ st.forever -> Fail(st, "PI_BAD_FOREVER")
    [] OTHER ->
       CASE c.cmd = "wave" -> WaveCmd(st, c.id)
         [] c.cmd = "begin" -> BeginCmd(st)
         [] c.cmd = "end" -> EndCmd(st, c.n)
         [] c.cmd = "delay" -> DelayCmd(st, c.n)
         [] c.cmd = "forever" -> ForeverCmd(st)

\* CB 0 is a short delay, the last CB ends the transmission.
ChainStart == [cbs |-> <<[op |-> "go", next |-> Chain(1)]>>, stack |-> <<>>, counters |-> <<>>,
          forever |-> FALSE, error |-> "ok"]
gpioWaveChain(prog) ==
  LET st == FoldLeft(Command, ChainStart, prog) IN
  IF st.error # "ok" THEN st
  ELSE IF ~Room(st, 1) THEN Fail(st, "PI_CHAIN_TOO_BIG")
  ELSE Emit(st, [op |-> "go", next |-> End])

----------------------------------------------------------------------------
(* The DMA engine *)

CounterOf(k) == code.counters[k + 1]
Counters == 0..(Len(code.counters) - 1)

ChainInit ==
  /\ program \in Programs
  /\ code = gpioWaveChain(program)
  /\ link = [w \in {<<"wave", id>> : id \in WaveIds} |-> End]
            @@ [a \in {<<"count", k, b * 3 + 2>> : k \in Counters, b \in Digits} |->
                  CounterOf(a[2]).repeat]
  /\ ring = [k \in Counters |-> Ring(k, CounterOf(k).count, CounterOf(k).repeat)]
  /\ dma = IF code.error = "ok" THEN Chain(0) ELSE End
  /\ played = <<>>

\* A CB of the chain: a delay is heard; a patch relinks the end of a waveform.
PlayChain ==
  /\ dma[1] = "chain"
  /\ LET instr == code.cbs[dma[2] + 1] IN
     /\ dma' = instr.next
     /\ played' = IF instr.op = "delay" THEN Append(played, Pause) ELSE played
     /\ link' = IF instr.op = "patch"
                THEN [link EXCEPT ![<<"wave", instr.wave>>] = Chain(dma[2] + 1)] ELSE link
  /\ UNCHANGED <<program, code, ring>>

PlayWave == /\ dma[1] = "wave"
            /\ dma' = link[dma] /\ played' = Append(played, dma[2])
            /\ UNCHANGED <<program, code, link, ring>>

\* The three CBs of a digit: bottom entry to the link of the third, bottom to
\* top, and all entries down by one.
TurnDigit ==
  /\ dma[1] = "count" /\ dma # ResetCB(dma[2])
  /\ LET k == dma[2]
         b == dma[3] \div 3
         r == ring[k]
         down(s) == IF s \in EntryOf(b, 0)..EntryOf(b, blklen - 1) THEN r[s + 1] ELSE r[s]
     IN CASE dma[3] % 3 = 0 ->
               /\ link' = [link EXCEPT ![<<"count", k, b * 3 + 2>>] = r[EntryOf(b, 0)]]
               /\ dma' = <<"count", k, dma[3] + 1>> /\ UNCHANGED ring
          [] dma[3] % 3 = 1 ->
               /\ ring' = [ring EXCEPT ![k][EntryOf(b, blklen)] = r[EntryOf(b, 0)]]
               /\ dma' = <<"count", k, dma[3] + 1>> /\ UNCHANGED link
          [] dma[3] % 3 = 2 ->
               /\ ring' = [ring EXCEPT ![k] = [s \in RingSlots |-> down(s)]]
               /\ dma' = link[dma] /\ UNCHANGED link
  /\ UNCHANGED <<program, code, played>>

\* The spare copy makes the counter new for the next time round an outer loop.
ResetCounter ==
  /\ dma[1] = "count" /\ dma = ResetCB(dma[2])
  /\ LET c == CounterOf(dma[2]) IN
       /\ ring' = [ring EXCEPT ![dma[2]] = Ring(dma[2], c.count, c.repeat)]
       /\ dma' = c.next
  /\ UNCHANGED <<program, code, link, played>>

MaxPlayed == 24    \* bound on what is heard of an endless chain
ChainNext == /\ Len(played) < MaxPlayed
             /\ PlayChain \/ PlayWave \/ TurnDigit \/ ResetCounter
ChainSpec == ChainInit /\ [][ChainNext]_chainVars

Addresses ==
  {End} \union {Chain(n) : n \in 0..(Len(code.cbs) - 1)} \union {<<"wave", id>> : id \in WaveIds}
    \union {<<"count", k, j>> : k \in Counters, j \in 0..(blocks * 3)}
ChainTypeOK == dma \in Addresses /\ \A w \in DOMAIN link : link[w] \in Addresses

----------------------------------------------------------------------------
(* The meaning of a chain, by its documentation: a block of waveforms is
   transmitted as often as its loop says, and loops nest.                     *)

\* The position of the command that closes the block opened at i, or 0.
Depth(p, i, j) == Len(SelectSeq(SubSeq(p, i, j), LAMBDA c : c.cmd = "begin"))
                  - Len(SelectSeq(SubSeq(p, i, j), LAMBDA c : c.cmd \in {"end", "forever"}))
ClosedAt(p, i) ==
  LET ends == {j \in i..Len(p) : Depth(p, i, j) = 0}
  IN IF ends = {} THEN 0 ELSE CHOOSE j \in ends : \A k \in ends : j <= k
Times(s, n) == FlattenSeq([i \in 1..n |-> s])

\* The first command from i on that makes a CB: the one a loop begins with.
FirstCB(p, i) ==
  CHOOSE j \in i..Len(p) :
    /\ p[j].cmd = "wave" \/ (p[j].cmd = "delay" /\ p[j].n > 0)
    /\ \A k \in i..(j - 1) : p[k].cmd \notin {"wave", "delay"} \/ (p[k].cmd = "delay" /\ p[k].n = 0)

\* What is heard of a chain if a block that begins at i and whose loop counts to
\* 0 leaves Rest(p, i) of itself.
Heard(p, Rest(_, _)) ==
  LET between[i \in 1..(Len(p) + 1), j \in 0..Len(p)] ==
        IF i > j THEN <<>>
        ELSE CASE p[i].cmd = "wave" -> <<p[i].id>> \o between[i + 1, j]
               [] p[i].cmd = "delay" -> Times(<<Pause>>, p[i].n) \o between[i + 1, j]
               [] p[i].cmd = "begin" /\ ClosedAt(p, i) \notin 1..j -> between[i + 1, j]
               [] p[i].cmd = "begin" /\ ClosedAt(p, i) \in 1..j ->
                    LET c == ClosedAt(p, i)
                        n == IF p[c].cmd = "end" THEN p[c].n ELSE MaxPlayed
                    IN (IF n = 0 THEN Rest(p, i) ELSE Times(between[i + 1, c - 1], n))
                       \o between[c + 1, j]
  IN between[1, Len(p)]

\* A loop that counts to 0 is to be skipped ...
Nothing(p, i) == <<>>
\* ... which the CB it begins with is told, after it has done its own work: that
\* of a waveform goes nowhere then, but that of a delay has been heard.
FirstDelay(p, i) == IF p[FirstCB(p, i)].cmd = "delay" THEN <<Pause>> ELSE <<>>

Plays(heard) == IsPrefix(played, heard) /\ (dma = End => played = heard)

\* What the self-rewriting chain plays is, at every moment, the beginning of
\* what its program means, and all of it once the transmission has ended; of a
\* loop that counts to 0 and begins with a delay the first CB is left.
ChainPlaysProgram == ChainTypeOK /\ (code.error = "ok" => Plays(Heard(program, FirstDelay)))

\* gpioWaveChain says that a loop that counts to 0 is skipped completely.
ZeroLoopsSkipped == code.error = "ok" => Plays(Heard(program, Nothing))
=============================================================================
