--------------------------- MODULE ScriptLanguage ---------------------------
(* The language of pigpio's scripts: how command.c (cmdParse, cmdParseScript) makes
   a program of the text, and what pthScript of pigpio.c does with each instruction.
   A text is a sequence of lines, a command with up to two operands each; tags are
   lines of the text only.  The threads of scripts are in module Scripts.       *)
EXTENDS Integers, Sequences, FiniteSets, Bitwise

CONSTANTS
  PI_MAX_SCRIPT_VARS, PI_MAX_SCRIPT_PARAMS, PI_MAX_SCRIPT_TAGS,
  PI_SCRIPT_STACK_SIZE,
  Half,        \* an int is a number from -Half to Half - 1 (2^31 in the code)
  Outcomes      \* what a command, a wait or a shell script may return

ASSUME LanguageAssumption ==
  /\ PI_SCRIPT_STACK_SIZE \in Nat \ {0} /\ Half \in Nat \ {0}
  /\ Outcomes \subseteq -Half..Half - 1

VARIABLES
  source,      \* the text
  compiled,      \* the program of a stored text, and whether it has been accepted
  cpu,         \* PC, A, F, the stack and run_state
  cells,       \* the script's parameters and variables
  buf,         \* the byte of the buffer that LDAB and STAB reach
  readLine,        \* the line of the text a reader has come to
  frames,      \* what that reader expects to find on the stack
  failed,      \* a pop too many or a push too many
  wild         \* a return address was popped as data, or data as one

languageVars == <<source, compiled, cpu, cells, buf, readLine, frames, failed, wild>>

Int32(n) == ((n + Half) % (2 * Half)) - Half
Registers == ({"par"} \X (0..PI_MAX_SCRIPT_PARAMS - 1))
             \union ({"var"} \X (0..PI_MAX_SCRIPT_VARS - 1))

----------------------------------------------------------------------------
(* The text *)

\* cmdInfo: the operands a command takes.
Calculations == {"ADD", "AND", "CMP", "DIV", "LDA", "LDAB", "MLT", "MOD", "OR", "RLA", "RRA",
                 "STAB", "SUB", "XOR", "WAIT", "EVTWT", "CMDR", "CMDW"}
Jumps == {"CALL", "JM", "JMP", "JNZ", "JP", "JZ"}
Shape(op) == CASE op \in Calculations -> "value"
               [] op \in Jumps \union {"TAG"} -> "number"
               [] op \in {"DCR", "INR", "POP", "PUSH", "STA", "XA"} -> "register"
               [] op \in {"LD", "RL", "RR"} -> "register and value"
               [] op = "X" -> "registers"
               [] op = "READ" -> "positive"
               [] op = "WRITE" -> "positives"
               [] OTHER -> "none"

\* getNum: a number, or a variable or parameter there is.
IsValue(o) == CASE o.kind = "num" -> TRUE
                [] o.kind = "var" -> o.n < PI_MAX_SCRIPT_VARS
                [] o.kind = "par" -> o.n < PI_MAX_SCRIPT_PARAMS
                [] OTHER -> FALSE
\* A plain number passes for a register as well: that of the variable.
IsRegister(o) == IsValue(o) /\ o.n \in 0..PI_MAX_SCRIPT_VARS - 1
IsPositive(o) == IsValue(o) /\ o.n >= 0

\* cmdParse
Accepted(l) ==
  LET shape == Shape(l.op)
  IN CASE shape = "value" -> IsValue(l.x)
       [] shape = "number" -> l.x.kind = "num"
       [] shape = "register" -> IsRegister(l.x)
       [] shape = "register and value" -> IsRegister(l.x) /\ IsValue(l.y)
       [] shape = "registers" -> IsRegister(l.x) /\ IsRegister(l.y)
       [] shape = "positive" -> IsPositive(l.x)
       [] shape = "positives" -> IsPositive(l.x) /\ IsPositive(l.y)
       [] OTHER -> TRUE

IsTag(l) == l.op = "TAG"
TagLines(text, t) == {i \in DOMAIN text : IsTag(text[i]) /\ text[i].x.n = t}

\* The instructions before a line: the step of a tag in it.
StepOf(text, i) == Cardinality({j \in 1..i - 1 : ~IsTag(text[j])})

\* (mutant: a tag stands for the instruction after the next)
ResolvedLate(text, l) ==
  IF l.op \in Jumps
  THEN [l EXCEPT !.x.n = StepOf(text, CHOOSE i \in TagLines(text, l.x.n) : TRUE) + 1]
  ELSE l
\* Jumps to a tag go to its step.
Resolved(text, l) ==
  IF l.op \in Jumps
  THEN [l EXCEPT !.x.n = StepOf(text, CHOOSE i \in TagLines(text, l.x.n) : TRUE)]
  ELSE l

\* What a text is refused for; cmdParseScript reports the first.
Errors(text) ==
  {"bad command" : i \in {i \in DOMAIN text : ~Accepted(text[i])}}
  \union {"tag twice" : i \in {i \in DOMAIN text : IsTag(text[i])
                                  /\ Cardinality(TagLines(text, text[i].x.n)) > 1}}
  \union {"too many tags" : n \in {n \in {Cardinality({i \in DOMAIN text : IsTag(text[i])})} :
                                     n > PI_MAX_SCRIPT_TAGS}}
  \union {"no tag" : i \in {i \in DOMAIN text : text[i].op \in Jumps
                               /\ TagLines(text, text[i].x.n) = {}}}

cmdParseScript(text) ==
  LET instructions == SelectSeq(text, LAMBDA l : ~IsTag(l))
  IN IF Errors(text) = {}
     THEN [accepted |-> TRUE,
           instr |-> [i \in DOMAIN instructions |-> Resolved(text, instructions[i])]]
     ELSE [accepted |-> FALSE, instr |-> <<>>]

----------------------------------------------------------------------------
(* A run.  PC counts from 0. *)

Instr == compiled.instr[cpu.PC + 1]
Reg(o) == IF o.kind = "par" THEN <<"par", o.n>> ELSE <<"var", o.n>>
Val(o) == IF o.kind = "num" THEN o.n ELSE cells[Reg(o)]

\* The line of the text with the k-th instruction; past the last for its end.
LineOf(k) == LET there == {i \in DOMAIN source : ~IsTag(source[i]) /\ StepOf(source, i) = k}
             IN IF there = {} THEN Len(source) + 1 ELSE CHOOSE i \in there : TRUE
\* The first instruction at or after a line.
Reach(i) == LET there == {j \in i..Len(source) : ~IsTag(source[j])}
            IN IF there = {} THEN Len(source) + 1
               ELSE CHOOSE j \in there : \A k \in there : j <= k
TagOf(l) == Reach(CHOOSE i \in TagLines(source, l.x.n) : TRUE)

\* One turn of the loop: PC, A, F and the stack, and what the reader makes of it.
Turn(pc, a, f, st, state, ln, fr) ==
  /\ cpu' = [PC |-> pc, A |-> a, F |-> f, stack |-> st,
             run_state |-> IF pc >= Len(compiled.instr) THEN "HALTED" ELSE state]
  /\ readLine' = ln /\ frames' = fr
  /\ UNCHANGED <<source, compiled>>
Proceed(a, f) == /\ Turn(cpu.PC + 1, a, f, cpu.stack, cpu.run_state, Reach(readLine + 1), frames)
                 /\ UNCHANGED <<failed, wild>>
Executes(ops) == cpu.run_state = "RUNNING" /\ compiled.instr # <<>> /\ Instr.op \in ops

\* C division cuts towards zero, and is not defined for 0.
Quotient(a, b) == LET m(n) == IF n < 0 THEN -n ELSE n
                  IN IF (a < 0) = (b < 0) THEN m(a) \div m(b) ELSE -(m(a) \div m(b))
Wrap(n) == n % (2 * Half)
Alu(op, a, b) ==
  Int32(CASE op = "ADD" -> a + b [] op = "SUB" -> a - b [] op = "MLT" -> a * b
          [] op = "DIV" -> Quotient(a, b) [] op = "MOD" -> a - b * Quotient(a, b)
          [] op = "AND" -> Wrap(a) & Wrap(b) [] op = "OR" -> Wrap(a) | Wrap(b)
          [] op = "XOR" -> Wrap(a) ^^ Wrap(b)
          [] op \in {"RLA", "RL"} -> a * 2^b [] op \in {"RRA", "RR"} -> a \div 2^b)

\* Calculations change the flag with the accumulator; loads leave it.
Calculate ==
  /\ Executes({"ADD", "SUB", "MLT", "DIV", "MOD", "AND", "OR", "XOR", "RLA", "RRA"})
  /\ LET p1 == Val(Instr.x)
     IN /\ Instr.op \in {"DIV", "MOD"} => p1 # 0
        /\ Instr.op \in {"RLA", "RRA"} => p1 >= 0
        /\ LET a == Alu(Instr.op, cpu.A, p1) IN Proceed(a, a)
  /\ UNCHANGED <<cells, buf>>
Count == /\ Executes({"INRA", "DCRA"})
         /\ LET a == Int32(IF Instr.op = "INRA" THEN cpu.A + 1 ELSE cpu.A - 1) IN Proceed(a, a)
         /\ UNCHANGED <<cells, buf>>
Compare == /\ Executes({"CMP"}) /\ Proceed(cpu.A, Int32(cpu.A - Val(Instr.x)))
           /\ UNCHANGED <<cells, buf>>
LoadA == /\ \/ Executes({"LDA"}) /\ Proceed(Val(Instr.x), cpu.F)
            \/ Executes({"LDAB"}) /\ Proceed(IF Val(Instr.x) = 0 THEN buf ELSE cpu.A, cpu.F)
         /\ UNCHANGED <<cells, buf>>
StoreByte == /\ Executes({"STAB"}) /\ Proceed(cpu.A, cpu.F)
             /\ buf' = IF Val(Instr.x) = 0 THEN cpu.A ELSE buf
             /\ UNCHANGED cells

Store(o, v) == cells' = [cells EXCEPT ![Reg(o)] = v]
RegisterOp ==
  /\ \/ /\ Executes({"INR", "DCR", "RL", "RR"})
        /\ LET v == cells[Reg(Instr.x)]
               n == CASE Instr.op = "INR" -> Int32(v + 1) [] Instr.op = "DCR" -> Int32(v - 1)
                      [] OTHER -> Alu(Instr.op, v, Val(Instr.y))
           IN /\ Instr.op \in {"RL", "RR"} => Val(Instr.y) >= 0
              /\ Store(Instr.x, n) /\ Proceed(cpu.A, n)
     \/ Executes({"LD"}) /\ Store(Instr.x, Val(Instr.y)) /\ Proceed(cpu.A, cpu.F)
     \/ Executes({"STA"}) /\ Store(Instr.x, cpu.A) /\ Proceed(cpu.A, cpu.F)
     \/ /\ Executes({"XA"})
        /\ Store(Instr.x, cpu.A) /\ Proceed(cells[Reg(Instr.x)], cpu.F)
     \/ /\ Executes({"X"}) /\ Proceed(cpu.A, cpu.F)
        /\ cells' = [cells EXCEPT ![Reg(Instr.x)] = cells[Reg(Instr.y)],
                                ![Reg(Instr.y)] = cells[Reg(Instr.x)]]
  /\ UNCHANGED buf

\* A command of the API, a wait and a shell script; a command may fill the buffer.
DoCommand ==
  /\ Executes({"READ", "WRITE", "WAIT", "EVTWT", "SYS"})
  /\ \E r \in Outcomes : Proceed(r, r) /\ buf' \in IF Instr.op = "READ" THEN {buf, r} ELSE {buf}
  /\ UNCHANGED cells
\* cmdInfo has three instructions that pthScript does not know: PC stays, and so
\* does the script, until it is stopped.
Unknown == Executes({"NOP", "CMDR", "CMDW"}) /\ UNCHANGED languageVars

Jump ==
  /\ Executes(Jumps \ {"CALL"})
  /\ LET taken == CASE Instr.op = "JM" -> cpu.F < 0 [] Instr.op = "JP" -> cpu.F >= 0
                    [] Instr.op = "JZ" -> cpu.F = 0 [] Instr.op = "JNZ" -> cpu.F # 0
                    [] OTHER -> TRUE
     IN Turn(IF taken THEN Instr.x.n ELSE cpu.PC + 1, cpu.A, cpu.F, cpu.stack, cpu.run_state,
             IF taken THEN TagOf(source[readLine]) ELSE Reach(readLine + 1), frames)
  /\ UNCHANGED <<cells, buf, failed, wild>>
HaltRun ==
  /\ Executes({"HALT"})
  /\ cpu' = [cpu EXCEPT !.run_state = "HALTED"]
  /\ UNCHANGED <<source, compiled, cells, buf, readLine, frames, failed, wild>>

\* scrPush and scrPop
HasRoom == Len(cpu.stack) < PI_SCRIPT_STACK_SIZE
Pushed(v) == IF HasRoom THEN <<v>> \o cpu.stack ELSE cpu.stack
TopOfStack == IF cpu.stack = <<>> THEN 0 ELSE Head(cpu.stack)
Below(s) == IF s = <<>> THEN <<>> ELSE Tail(s)
StateIf(ok) == IF ok THEN cpu.run_state ELSE "FAILED"

Push(v, pc, ln, frame) ==
  /\ Turn(pc, cpu.A, cpu.F, Pushed(v), StateIf(HasRoom), ln,
          IF HasRoom THEN <<frame>> \o frames ELSE frames)
  /\ failed' = ~HasRoom /\ UNCHANGED <<wild, cells, buf>>
PushData == /\ Executes({"PUSH", "PUSHA"})
            /\ LET v == IF Instr.op = "PUSHA" THEN cpu.A ELSE cells[Reg(Instr.x)]
               IN Push(v, cpu.PC + 1, Reach(readLine + 1), [data |-> TRUE, v |-> v])
\* (mutant: a subroutine returns to its call)
CallsAgain == /\ Executes({"CALL"})
              /\ Push(cpu.PC, Instr.x.n, TagOf(source[readLine]),
                      [data |-> FALSE, v |-> Reach(readLine + 1)])
CallTag == /\ Executes({"CALL"})
        /\ Push(cpu.PC + 1, Instr.x.n, TagOf(source[readLine]),
                [data |-> FALSE, v |-> Reach(readLine + 1)])

Pop(pc, a, ln) ==
  /\ Turn(pc, a, cpu.F, Below(cpu.stack), StateIf(cpu.stack # <<>>), ln, Below(frames))
  /\ failed' = (cpu.stack = <<>>)
  /\ UNCHANGED buf
PopData == /\ Executes({"POP", "POPA"})
           /\ Pop(cpu.PC + 1, IF Instr.op = "POPA" THEN TopOfStack ELSE cpu.A, Reach(readLine + 1))
           /\ IF Instr.op = "POP" THEN Store(Instr.x, TopOfStack) ELSE UNCHANGED cells
           /\ wild' = (frames # <<>> /\ ~Head(frames).data)
\* Without a call it goes to the first instruction, and the run fails.
Return == /\ Executes({"RET"})
          /\ Pop(TopOfStack, cpu.A, IF frames = <<>> THEN Reach(1) ELSE Head(frames).v)
          /\ wild' = (frames # <<>> /\ Head(frames).data)
          /\ UNCHANGED cells

----------------------------------------------------------------------------
(* A text is stored, and its program run again and again: the parameters are set,
   the variables keep their values. *)

StartOfRun == [PC |-> 0, A |-> 0, F |-> 0, stack |-> <<>>, run_state |-> "RUNNING"]

StoreText(text) ==
  /\ ~compiled.accepted
  /\ source' = text /\ compiled' = cmdParseScript(text)
  /\ cells' = [r \in Registers |-> 0]
  /\ UNCHANGED <<cpu, buf, readLine, frames, failed, wild>>
\* A program of no instruction executes what the cleared memory is: MODES 0 0.
RunProgram(params) ==
  /\ compiled.accepted /\ cpu.run_state \in {"INITING", "HALTED", "FAILED"}
  /\ compiled.instr # <<>>
  /\ cells' = [r \in Registers |-> IF r \in DOMAIN params THEN params[r] ELSE cells[r]]
  /\ cpu' = StartOfRun /\ readLine' = Reach(1) /\ frames' = <<>> /\ failed' = FALSE /\ wild' = FALSE
  /\ UNCHANGED <<source, compiled, buf>>

LanguageInit ==
  /\ source = <<>> /\ compiled = [accepted |-> FALSE, instr |-> <<>>]
  /\ cpu = [StartOfRun EXCEPT !.run_state = "INITING"] /\ cells = [r \in Registers |-> 0]
  /\ buf \in Outcomes            \* not initialised
  /\ readLine = 1 /\ frames = <<>> /\ failed = FALSE /\ wild = FALSE

Instruction == \/ Calculate \/ Count \/ Compare \/ LoadA \/ StoreByte \/ RegisterOp \/ DoCommand
               \/ Unknown \/ Jump \/ HaltRun \/ PushData \/ CallTag \/ PopData \/ Return

----------------------------------------------------------------------------
LanguageTypeOK ==
  /\ cells \in [Registers -> -Half..Half - 1] /\ {cpu.A, cpu.F, buf} \subseteq -Half..Half - 1
  /\ cpu.run_state \in {"INITING", "RUNNING", "HALTED", "FAILED"}

\* A run goes through the lines of the text as one reads them: a jump or a call to
\* a tag goes on at the line after it, a return after the call, and what is on the
\* stack was put there by the lines before; it is over at the end of the text.
RunsAsWritten ==
  cpu.run_state # "INITING" /\ ~failed /\ ~wild =>
    /\ LineOf(cpu.PC) = readLine
    /\ Len(cpu.stack) = Len(frames)
    /\ \A i \in DOMAIN frames :
         frames[i].v = IF frames[i].data THEN cpu.stack[i] ELSE LineOf(cpu.stack[i])
    /\ readLine > Len(source) => cpu.run_state = "HALTED"

\* A run neither leaves its program nor its stack, and goes no further once it has
\* popped or pushed too much.
StaysInside ==
  /\ cpu.run_state = "RUNNING" /\ ~wild => cpu.PC \in 0..Len(compiled.instr) - 1 /\ ~failed
  /\ Len(cpu.stack) <= PI_SCRIPT_STACK_SIZE

LanguageKept == LanguageTypeOK /\ RunsAsWritten /\ StaysInside
=============================================================================
