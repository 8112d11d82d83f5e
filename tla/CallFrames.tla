---------------------------- MODULE CallFrames ----------------------------
(***************************************************************************)
(* One step of a stack walk: src/perfdata/unwind/dwarf.rs, and the parts   *)
(* of src/perfdata/unwind.rs around it.  From the registers of a frame, the *)
(* words of the recorded stack and the call frame information of the       *)
(* object, the registers of its caller are computed, as libdwfl would.     *)
(*                                                                         *)
(* Everything here is a function of its arguments.  A question is chosen   *)
(* in Init and answered in one step; the properties compare the answers    *)
(* with what the formats mean.  Decoding (gimli) is outside: a frame       *)
(* description is its range with its instructions, an expression is a      *)
(* sequence of operations with their sizes.                                *)
(***************************************************************************)
EXTENDS Integers, Sequences, SequencesExt, FiniteSets, FiniteSetsExt, Functions, Bitwise, TLC

CONSTANTS
  Questions,      \* what may be asked, by kind
  Bits, Bytes,    \* of a word: 64 and 8
  MaxSteps,       \* operations of one expression: 4096
  MaxDepth,       \* of its stack: 256
  None            \* no value; a failure

FrameAssumption ==
  /\ Bits \in Nat \ {0} /\ Bytes \in Nat \ {0} /\ MaxSteps \in Nat /\ MaxDepth \in Nat

VARIABLES question, answer
vars == <<question, answer>>

-----------------------------------------------------------------------------
(* Words. *)

Modulus == 2 ^ Bits
Word == 0 .. Modulus - 1
Wrapped(n) == n % Modulus
Checked(n) == IF n \in Word THEN n ELSE None
Signed(w) == IF w >= Modulus \div 2 THEN w - Modulus ELSE w
Or0(value) == IF value = None THEN 0 ELSE value

\* A partial function asked at an argument: memory, valid registers.
get(f, x) == IF x \in DOMAIN f THEN f[x] ELSE None

-----------------------------------------------------------------------------
(* Ranges.  Sections number their descriptions by offset. *)

\* Section::new: by start, then offset.  Mutant: the end is the entry's own.
Before(a, b) == a.start < b.start \/ (a.start = b.start /\ a.offset < b.offset)
Sorted(fdes) == SortSeq(fdes, Before)
MaxEndOwn(index) == [i \in DOMAIN index |-> index[i].end]
MaxEnds(index) == [i \in DOMAIN index |-> Max({index[j].end : j \in 1 .. i})]

\* Section::entry: backwards from the last that starts at the address or before,
\* while anything before may still reach it.
EntryIn(index, ends, address) ==
  LET from == Cardinality({i \in DOMAIN index : index[i].start <= address})
      reach == {i \in 1 .. from : \A j \in i .. from : ends[j] > address}
      found == {i \in reach : address < index[i].end}
  IN IF found = {} THEN None ELSE index[Max(found)]
entry(fdes, address) == EntryIn(Sorted(fdes), MaxEnds(Sorted(fdes)), address)

Span(low, high) == [low |-> low, high |-> high]
Holds(range, address) == range.low <= address /\ address < range.high

\* normalize_ranges.
Merged(ranges, range) ==
  IF ranges # <<>> /\ Last(ranges).high >= range.low
    THEN Front(ranges) \o <<Span(Last(ranges).low, Max({Last(ranges).high, range.high}))>>
    ELSE Append(ranges, range)
normalize_ranges(ranges) ==
  FoldLeft(Merged, <<>>,
    SortSeq(ranges, LAMBDA a, b : a.low < b.low \/ (a.low = b.low /\ a.high < b.high)))

\* Addresses of the object moved to where it is mapped.
svma_to_avma(at, address) == Checked(address - at.svma + at.avma)

\* push_unwind_range.
UnwindRange(at, fde) ==
  IF svma_to_avma(at, fde.start) = None \/ svma_to_avma(at, fde.end) = None THEN <<>>
  ELSE IF svma_to_avma(at, fde.start) < svma_to_avma(at, fde.end)
    THEN <<Span(svma_to_avma(at, fde.start), svma_to_avma(at, fde.end))>>
  ELSE <<>>
object_unwind_ranges(module) ==
  normalize_ranges(FlattenSeq([i \in DOMAIN (module.eh \o module.debug) |->
                                 UnwindRange(module.at, (module.eh \o module.debug)[i])]))

\* object_base_svma and object_load_range of an ELF file, by its segments.
AlignedDown(address, align) == IF align = 0 THEN 0 ELSE address - (address % align)
object_base_svma(segments) ==
  IF segments = <<>> THEN 0 ELSE AlignedDown(segments[1].address, segments[1].align)
object_load_range(segments) ==
  LET loaded == {s \in ToSet(segments) : s.size # 0}
  IN IF loaded = {} \/ \E s \in loaded : s.address + s.size \notin Word THEN None
     ELSE Span(object_base_svma(segments), Max({s.address + s.size : s \in loaded}))

-----------------------------------------------------------------------------
(* Where the canonical frame address is still the default of the ABI:          *)
(* CfaDefinition and default_cfa_ranges.                                       *)

Apply(state, code, arch) ==
  CASE code.op \in {"def_cfa", "def_cfa_expression"} -> [state EXCEPT !.defined = TRUE]
    [] code.op = "def_cfa_register" /\ arch = "aarch64" -> [state EXCEPT !.defined = TRUE]
    [] code.op = "remember_state" -> [state EXCEPT !.saved = Append(@, state.defined)]
    [] code.op = "restore_state" /\ state.saved # <<>> ->
         [state EXCEPT !.defined = Last(state.saved), !.saved = Front(@)]
    [] OTHER -> state

\* A walk over the instructions of a description: [defined, saved, address,
\* undefined (where it began to be, or None), ranges, broken].
Noted(walk) ==
  IF walk.defined
    THEN [walk EXCEPT !.undefined = None,
                      !.ranges = IF walk.undefined # None /\ walk.undefined < walk.address
                                   THEN Append(@, Span(walk.undefined, walk.address)) ELSE @]
    ELSE [walk EXCEPT !.undefined = IF @ = None THEN walk.address ELSE @]
Visit(walk, code, arch) ==
  CASE walk.broken -> walk
    [] code.op = "set_loc" ->
         IF code.to < walk.address THEN [walk EXCEPT !.broken = TRUE]
         ELSE Noted([walk EXCEPT !.address = code.to])
    [] code.op = "advance_loc" ->
         IF Checked(walk.address + code.delta) = None THEN [walk EXCEPT !.broken = TRUE]
         ELSE Noted([walk EXCEPT !.address = @ + code.delta])
    [] OTHER -> Noted(Apply(walk, code, arch))

Closed(walk, fde) ==
  IF walk.undefined # None /\ walk.undefined < fde.end
    THEN Append(walk.ranges, Span(walk.undefined, fde.end)) ELSE walk.ranges
RangesFrom(state, fde, arch) ==
  IF state.defined /\ \A i \in DOMAIN state.saved : state.saved[i] THEN <<>>
  ELSE Closed(FoldLeft(LAMBDA walk, code : Visit(walk, code, arch),
                       [defined |-> state.defined, saved |-> state.saved,
                        address |-> fde.start, ranges |-> <<>>, broken |-> FALSE,
                        undefined |-> IF state.defined THEN None ELSE fde.start],
                       fde.code), fde)
default_cfa_ranges(fde, arch) ==
  RangesFrom(FoldLeft(LAMBDA state, code : Apply(state, code, arch),
                      [defined |-> FALSE, saved |-> <<>>], fde.cie), fde, arch)

(* The row of an address, as gimli decodes it: instructions up to the one that  *)
(* passes the address, from a given address rule on; None where it refuses.     *)
RowApply(row, code) ==
  CASE code.op = "def_cfa" -> [row EXCEPT !.cfa = [reg |-> code.reg, offset |-> code.offset]]
    [] code.op = "def_cfa_expression" -> [row EXCEPT !.cfa = [expr |-> code.expr]]
    [] code.op = "def_cfa_register" ->
         IF "reg" \in DOMAIN row.cfa THEN [row EXCEPT !.cfa.reg = code.reg] ELSE None
    [] code.op = "def_cfa_offset" ->
         IF "reg" \in DOMAIN row.cfa THEN [row EXCEPT !.cfa.offset = code.offset] ELSE None
    [] code.op = "remember_state" -> [row EXCEPT !.saved = Append(@, row.cfa)]
    [] code.op = "restore_state" ->
         IF row.saved = <<>> THEN None
         ELSE [row EXCEPT !.cfa = Last(row.saved), !.saved = Front(@)]
RowVisit(row, code, address, Rule(_, _)) ==
  CASE row = None -> None
    [] row # None /\ row.passed -> row
    [] row # None /\ ~row.passed /\ code.op = "set_loc" ->
         IF code.to < row.address THEN None
         ELSE [row EXCEPT !.address = code.to, !.passed = code.to > address]
    [] row # None /\ ~row.passed /\ code.op = "advance_loc" ->
         IF Checked(row.address + code.delta) = None THEN None
         ELSE [row EXCEPT !.address = @ + code.delta, !.passed = row.address + code.delta > address]
    [] OTHER -> Rule(row, code)
RowOf(fde, address, cfa, Rule(_, _)) ==
  FoldLeft(LAMBDA row, code : RowVisit(row, code, address, Rule),
           [cfa |-> cfa, saved |-> <<>>, address |-> fde.start, passed |-> FALSE],
           fde.cie \o fde.code)
unwind_info_for_address(fde, address) == RowOf(fde, address, [reg |-> 0, offset |-> 0], RowApply)

-----------------------------------------------------------------------------
(* Expressions: Evaluator::expression and ExpressionStack.  A machine's state is *)
(* its stack, the offset it is at, whether the result is a location, its steps.   *)

OffsetOf(program, i) == FoldLeft(LAMBDA n, op : n + op.size, 0, SubSeq(program, 1, i - 1))
Length(program) == OffsetOf(program, Len(program) + 1)
Offsets(program) == {OffsetOf(program, i) : i \in DOMAIN program}
OpAt(program, offset) == program[CHOOSE i \in DOMAIN program : OffsetOf(program, i) = offset]

Pushed(s, value) ==
  IF value = None \/ Len(s.stack) = MaxDepth THEN None ELSE [s EXCEPT !.stack = Append(@, value)]
Less(s, n) == [s EXCEPT !.stack = SubSeq(@, 1, Len(@) - n)]
Top(s) == Last(s.stack)
Second(s) == s.stack[Len(s.stack) - 1]

Magnitude(n) == IF n < 0 THEN -n ELSE n
Quotient(a, b) ==
  IF b = 0 \/ (a = -(Modulus \div 2) /\ b = -1) THEN None
  ELSE IF (a < 0) # (b < 0) THEN Wrapped(-(Magnitude(a) \div Magnitude(b)))
  ELSE Magnitude(a) \div Magnitude(b)
Truth(holds) == IF holds THEN 1 ELSE 0

UnaryOps == {"abs", "neg", "not", "plus_uconst"}
Unary(op, w) ==
  CASE op.op = "abs" -> Wrapped(Magnitude(Signed(w)))
    [] op.op = "neg" -> Wrapped(-w)
    [] op.op = "not" -> Modulus - 1 - w
    [] op.op = "plus_uconst" -> Wrapped(w + op.value)
BinaryOps ==
  {"and", "div", "minus", "mod", "mul", "or", "plus", "shl", "shr", "shra", "xor", "eq", "ge",
   "gt", "le", "lt", "ne"}
Binary(op, left, right) ==
  CASE op.op = "and" -> left & right
    [] op.op = "or" -> left | right
    [] op.op = "xor" -> left ^^ right
    [] op.op = "plus" -> Wrapped(left + right)
    [] op.op = "minus" -> Wrapped(left - right)
    [] op.op = "mul" -> Wrapped(left * right)
    [] op.op = "div" -> Quotient(Signed(left), Signed(right))
    [] op.op = "mod" -> IF right = 0 THEN None ELSE left % right
    [] op.op = "shl" -> Wrapped(left * 2 ^ (right % Bits))
    [] op.op = "shr" -> left \div 2 ^ (right % Bits)
    [] op.op = "shra" -> Wrapped(Signed(left) \div 2 ^ (right % Bits))
    [] op.op = "eq" -> Truth(left = right)
    [] op.op = "ne" -> Truth(left # right)
    [] op.op = "ge" -> Truth(Signed(left) >= Signed(right))
    [] op.op = "gt" -> Truth(Signed(left) > Signed(right))
    [] op.op = "le" -> Truth(Signed(left) <= Signed(right))
    [] op.op = "lt" -> Truth(Signed(left) < Signed(right))

\* How many entries an operation needs on the stack.
Needs(op) ==
  CASE op.op \in BinaryOps \cup {"swap"} -> 2
    [] op.op \in UnaryOps \cup {"drop", "deref", "bra"} -> 1
    [] op.op = "pick" -> op.index + 1
    [] op.op = "rot" -> 3
    [] OTHER -> 0

\* expression_operation and arithmetic; `env` holds registers, address, memory, base.
expression_operation(op, s, env) ==
  CASE op.op = "const" -> Pushed(s, op.value)
    [] op.op = "reg" -> Pushed(s, get(env.regs, op.reg))
    [] op.op = "breg" ->
         Pushed(s, IF get(env.regs, op.reg) = None THEN None
                   ELSE Wrapped(env.regs[op.reg] + op.offset))
    [] op.op = "addr" -> Pushed(s, Wrapped(op.value - env.at.svma + env.at.avma))
    [] op.op = "deref" ->
         IF get(env.memory, Top(s)) = None THEN None
         ELSE Pushed(Less(s, 1), env.memory[Top(s)] % 2 ^ Min({Bits, op.bits}))
    [] op.op = "drop" -> Less(s, 1)
    [] op.op = "pick" -> Pushed(s, s.stack[Len(s.stack) - op.index])
    [] op.op = "swap" -> [s EXCEPT !.stack = Less(s, 2).stack \o <<Top(s), Second(s)>>]
    [] op.op = "rot" ->
         [s EXCEPT !.stack = Less(s, 3).stack \o <<Top(s), s.stack[Len(@) - 2], Second(s)>>]
    [] op.op = "call_frame_cfa" -> Pushed([s EXCEPT !.location = TRUE], env.cfa)
    [] op.op = "stack_value" -> [s EXCEPT !.location = FALSE]
    [] op.op = "nop" -> s
    [] op.op \in UnaryOps -> Pushed(Less(s, 1), Unary(op, Top(s)))
    [] op.op \in BinaryOps -> Pushed(Less(s, 2), Binary(op, Second(s), Top(s)))

\* Where a branch may lead: the end stands for the operation appended to a value.
Lands(program, kind, offset) ==
  offset \in Offsets(program) \/ (kind = "value" /\ offset = Length(program))
Branched(program, kind, s, offset) ==
  IF Lands(program, kind, offset) THEN [s EXCEPT !.at = offset] ELSE None

Execute(op, program, kind, s, env) ==
  IF Len(s.stack) < Needs(op) THEN None
  ELSE CASE op.op = "skip" -> Branched(program, kind, s, s.at + op.target)
         [] op.op = "bra" ->
              IF Top(s) # 0 THEN Branched(program, kind, Less(s, 1), s.at + op.target)
              ELSE Less(s, 1)
         [] OTHER -> expression_operation(op, s, env)
Turn(program, kind, s, env) ==
  IF s.steps = MaxSteps THEN None
  ELSE LET op == OpAt(program, s.at)
       IN Execute(op, program, kind, [s EXCEPT !.steps = @ + 1, !.at = @ + op.size], env)
Run(program, kind, start, env) ==
  FoldLeft(LAMBDA s, n : IF s = None THEN None
                         ELSE IF s.at = Length(program) THEN s
                         ELSE Turn(program, kind, s, env),
           start, [n \in 1 .. MaxSteps + 1 |-> n])

\* What a machine that stopped has found.
Outcome(s, env) ==
  IF s = None THEN None
  ELSE IF s.stack = <<>> THEN None
  ELSE IF s.location THEN get(env.memory, Top(s)) ELSE Top(s)

Machine(stack, location, steps) ==
  [stack |-> stack, at |-> 0, location |-> location, steps |-> steps]
Ended(s, kind) ==
  IF kind # "value" \/ s = None THEN s
  ELSE IF s.steps = MaxSteps THEN None
  ELSE [s EXCEPT !.location = FALSE]
expression(program, kind, env) ==
  IF program = <<>> \/ \E i \in DOMAIN program : program[i].op = "undecodable" THEN None
  ELSE IF kind = "cfa" THEN Outcome(Run(program, kind, Machine(<<>>, FALSE, 0), env), env)
  ELSE IF env.cfa = None THEN None
  ELSE Outcome(Ended(Run(program, kind, Machine(<<env.cfa>>, TRUE, 1), env), kind), env)

-----------------------------------------------------------------------------
(* Registers of the caller. *)

Layouts ==
  [x86_64 |-> [count |-> 17, same |-> {0, 6} \cup 12 .. 16, sp |-> 7, fp |-> 6, cfa |-> None],
   aarch64 |-> [count |-> 33, same |-> 19 .. 30, sp |-> 31, fp |-> 29, cfa |-> 30]]
default_rule(arch, register) ==
  IF register \in Layouts[arch].same THEN [rule |-> "same"]
  ELSE IF register = Layouts[arch].sp THEN [rule |-> "val_offset", offset |-> 0]
  ELSE [rule |-> "undefined"]

\* Evaluator::register.
Recovered(rule, register, env) ==
  CASE rule.rule \in {"undefined", "architectural"} -> None
    [] rule.rule = "same" -> get(env.regs, register)
    [] rule.rule = "register" -> get(env.regs, rule.reg)
    [] rule.rule = "constant" -> rule.value
    [] rule.rule = "offset" ->
         IF env.cfa = None THEN None ELSE get(env.memory, Wrapped(env.cfa + rule.offset))
    [] rule.rule = "val_offset" ->
         IF env.cfa = None THEN None ELSE Wrapped(env.cfa + rule.offset)
    [] rule.rule = "expression" -> expression(rule.expr, "location", env)
    [] rule.rule = "val_expression" -> expression(rule.expr, "value", env)
RuleOf(fde, arch, register) ==
  IF register \in DOMAIN fde.rules THEN fde.rules[register] ELSE default_rule(arch, register)

Caller(regs, pc, signal) == [step |-> "caller", regs |-> regs, pc |-> pc, signal |-> signal]
NoRow == [step |-> "no_row"]
Stop == [step |-> "stop"]

Returned(regs, fde) ==
  IF Or0(get(regs, fde.ra)) = 0 THEN Stop ELSE Caller(regs, regs[fde.ra], fde.signal)
Present(values) == Restrict(values, {r \in DOMAIN values : values[r] # None})
Recover(fde, arch, env) ==
  Returned(Present([r \in 0 .. Layouts[arch].count - 1 |-> Recovered(RuleOf(fde, arch, r), r, env)]),
           fde)

\* The canonical frame address by a row, and where the default of the ABI counts.
ByRule(cfa, env) ==
  IF "expr" \in DOMAIN cfa THEN expression(cfa.expr, "cfa", env)
  ELSE IF get(env.regs, cfa.reg) = None THEN None
  ELSE Wrapped(env.regs[cfa.reg] + cfa.offset)
Defaulted(cfa, arch, env) ==
  IF Layouts[arch].cfa = None \/ "expr" \in DOMAIN cfa THEN None
  ELSE ByRule([cfa EXCEPT !.reg = Layouts[arch].cfa], env)
FrameAddress(fde, row, address, arch, env) ==
  IF \E i \in DOMAIN default_cfa_ranges(fde, arch) : Holds(default_cfa_ranges(fde, arch)[i], address)
    THEN Defaulted(row.cfa, arch, env) ELSE ByRule(row.cfa, env)

Stepped(fde, row, address, arch, env) ==
  IF row = None THEN NoRow
  ELSE Recover(fde, arch, [env EXCEPT !.cfa = FrameAddress(fde, row, address, arch, env)])
section_step(section, address, arch, env) ==
  IF entry(section, address) = None THEN NoRow
  ELSE Stepped(entry(section, address), unwind_info_for_address(entry(section, address), address),
               address, arch, env)

\* Module::step: .eh_frame first; what it does not describe, .debug_frame may.
Linked(module, address) == Wrapped(address - module.at.avma + module.at.svma)
StepBoth(first, module, address, arch, env) ==
  IF first # NoRow THEN first ELSE section_step(module.debug, address, arch, env)
step(module, address, arch, env) ==
  StepBoth(section_step(module.eh, Linked(module, address), arch, env), module,
          Linked(module, address), arch, env)

\* frame_pointer_step of both architectures.
FramePointerX86(regs, memory) ==
  LET fp == get(regs, 6)
      sp == Wrapped(fp + 2 * Bytes)
      pc == get(memory, Wrapped(fp + Bytes))
  IN IF Or0(fp) = 0 THEN Stop
     ELSE IF pc = None \/ Or0(get(regs, 7)) >= sp THEN Stop
     ELSE Caller((6 :> Or0(get(memory, fp))) @@ (7 :> sp), pc, FALSE)
FramePointerArm(regs, memory) ==
  LET fp == Or0(get(regs, 29))
      sp == Wrapped(fp + 2 * Bytes)
      pc == Or0(get(regs, 30))
  IN IF pc = 0 \/ (fp # 0 /\ sp <= Or0(get(regs, 31))) THEN Stop
     ELSE Caller((29 :> Or0(get(memory, fp))) @@ (30 :> Or0(get(memory, Wrapped(fp + Bytes))))
                   @@ (31 :> sp), pc, FALSE)
arch_fallback(arch, regs, memory) ==
  IF arch = "x86_64" THEN FramePointerX86(regs, memory) ELSE FramePointerArm(regs, memory)

\* step_dwarf_address with the object's module, or none: frame pointers only where
\* nothing is described, and their failure leaves it at that.
StepFrom(described, arch, env) ==
  IF described # NoRow THEN described
  ELSE IF arch_fallback(arch, env.regs, env.memory) = Stop THEN NoRow
  ELSE arch_fallback(arch, env.regs, env.memory)
step_dwarf_address(module, address, arch, env) ==
  StepFrom(IF module = None THEN NoRow ELSE step(module, address, arch, env), arch, env)

\* arch_fallback_provably_cannot_advance, by the recorded registers.
provably_cannot_advance(arch, regs) ==
  IF arch = "x86_64" THEN regs[6] = 0 \/ regs[7] >= Wrapped(regs[6] + 2 * Bytes)
  ELSE regs[30] = 0

-----------------------------------------------------------------------------
(* Recorded registers and stack. *)

\* perf's numbers of the x86_64 registers that have one of DWARF's.
X86Numbers ==
  (0 :> 0) @@ (1 :> 3) @@ (2 :> 2) @@ (3 :> 1) @@ (4 :> 4) @@ (5 :> 5) @@ (6 :> 6) @@ (7 :> 7)
    @@ [r \in 16 .. 23 |-> r - 8]

Taken(reading, register) ==
  [rest |-> Tail(reading.rest), regs |-> (register :> Head(reading.rest)) @@ reading.regs]
Masked(mask, values) ==
  FoldLeft(LAMBDA reading, bit : IF bit \in mask THEN Taken(reading, bit) ELSE reading,
           [rest |-> values, regs |-> <<>>], [i \in 1 .. 64 |-> i - 1]).regs
X86Registers(mask, values) ==
  LET read == Masked(mask, values)
  IN IF ~{7, 8} \subseteq mask THEN None
     ELSE [ip |-> read[8], sp |-> read[7], fp |-> Or0(get(read, 6)),
           regs |-> [d \in 0 .. 15 |->
                       Or0(get(read, CHOOSE p \in DOMAIN X86Numbers : X86Numbers[p] = d))]]

\* On aarch64 by the number of registers below.
Ranked(mask, values, register) ==
  IF register \in mask THEN values[1 + Cardinality({r \in mask : r < register})] ELSE None
ArmRegisters(mask, values) ==
  IF ~{29, 30, 31, 32} \subseteq mask THEN None
  ELSE [ip |-> Ranked(mask, values, 32), sp |-> Ranked(mask, values, 31),
        fp |-> Ranked(mask, values, 29), lr |-> Ranked(mask, values, 30)]
from_perf_masked_values(arch, mask, values) ==
  IF Cardinality(mask) # Len(values) THEN None
  ELSE IF arch = "x86_64" THEN X86Registers(mask, values) ELSE ArmRegisters(mask, values)

\* PerfUserMemoryReader::read_u64: which byte of the stack a word starts at, or
\* that the mapped objects are asked.
read_u64(sp, size, address) ==
  IF Checked(address + Bytes) = None \/ Checked(sp + size) = None THEN None
  ELSE IF address < sp \/ address + Bytes > sp + size THEN [from |-> "mapped"]
  ELSE [from |-> "stack", byte |-> address - sp]

-----------------------------------------------------------------------------
Answer(q) ==
  CASE q.kind = "entry" -> entry(q.section, q.address)
    [] q.kind = "cfa" -> Stepped(q.fde, unwind_info_for_address(q.fde, q.address), q.address,
                                 q.arch, q.env)
    [] q.kind = "expression" -> expression(q.program, q.of, q.env)
    [] q.kind = "step" -> step_dwarf_address(q.module, q.address, q.arch, q.env)
    [] q.kind = "ranges" -> normalize_ranges(q.ranges)
    [] q.kind = "load" -> object_load_range(q.segments)
    [] q.kind = "registers" -> from_perf_masked_values(q.arch, q.mask, q.values)
    [] q.kind = "read" -> read_u64(q.sp, q.size, q.address)

Init == (\E kind \in DOMAIN Questions : question \in Questions[kind]) /\ answer = <<>>
Next == answer = <<>> /\ answer' = <<Answer(question)>> /\ UNCHANGED question
Spec == Init /\ [][Next]_vars
-----------------------------------------------------------------------------
(* Properties. *)

\* A machine without exceptions: operations at their offsets, with the address that
\* dwarf_getlocation puts before a location or value and the end it puts after a value.
Placed(op, offset) == [op |-> op, offset |-> offset]
Native(program, kind) ==
  (IF kind = "cfa" THEN <<>> ELSE <<Placed([op |-> "call_frame_cfa", size |-> 0], -1)>>)
    \o [i \in DOMAIN program |-> Placed(program[i], OffsetOf(program, i))]
    \o (IF kind = "value" THEN <<Placed([op |-> "stack_value", size |-> 0], Length(program))>>
        ELSE <<>>)
NativeJump(native, s, offset) ==
  IF offset >= 0 /\ \E i \in DOMAIN native : native[i].offset = offset
    THEN [s EXCEPT !.at = CHOOSE i \in DOMAIN native : native[i].offset = offset]
    ELSE None
NativeNext(native, placed, s, env) ==
  LET target == placed.offset + placed.op.size + placed.op.target
  IN IF Len(s.stack) < Needs(placed.op) THEN None
     ELSE CASE placed.op.op = "skip" -> NativeJump(native, s, target)
            [] placed.op.op = "bra" ->
                 IF Top(s) # 0 THEN NativeJump(native, Less(s, 1), target) ELSE Less(s, 1)
            [] OTHER -> expression_operation(placed.op, s, env)
NativeRun(native, env) ==
  FoldLeft(LAMBDA s, n : IF s = None THEN None
                         ELSE IF s.at > Len(native) THEN s
                         ELSE IF n > MaxSteps THEN None
                         ELSE NativeNext(native, native[s.at], [s EXCEPT !.at = @ + 1], env),
           [Machine(<<>>, FALSE, 0) EXCEPT !.at = 1], [n \in 1 .. MaxSteps + 1 |-> n])

\* An expression gives what that machine gives, in as many steps.
ExpressionExact(q, given) ==
  (\A i \in DOMAIN q.program : q.program[i].op # "undecodable") /\ q.program # <<>> =>
    given = Outcome(NativeRun(Native(q.program, q.of), q.env), q.env)

\* Of the descriptions that hold an address the last one counts, by start and offset.
Describes(fde, address) == fde.start <= address /\ address < fde.end
Innermost(section, address) ==
  {fde \in ToSet(section) : /\ Describes(fde, address)
                            /\ \A other \in ToSet(section) :
                                 Describes(other, address) => ~Before(fde, other)}
EntryExact(q, given) == Innermost(q.section, q.address) = IF given = None THEN {} ELSE {given}

\* The address of a frame is what its instructions say when they start from the
\* rule of the ABI: none on x86_64, the link register on aarch64.
AbiRule(arch) ==
  IF Layouts[arch].cfa = None THEN [undefined |-> TRUE]
  ELSE [reg |-> Layouts[arch].cfa, offset |-> 0]
AbiApply(row, code) ==
  IF "undefined" \in DOMAIN row.cfa /\ code.op \in {"def_cfa_register", "def_cfa_offset"}
    THEN row ELSE RowApply(row, code)
AbiAddress(row, env) == IF "undefined" \in DOMAIN row.cfa THEN None ELSE ByRule(row.cfa, env)
AbiStep(fde, address, arch, env, row) ==
  IF row = None THEN NoRow ELSE Recover(fde, arch, [env EXCEPT !.cfa = AbiAddress(row, env)])
CfaExact(q, given) ==
  given = AbiStep(q.fde, q.address, q.arch, q.env,
                   RowOf(q.fde, q.address, AbiRule(q.arch), AbiApply))

\* The leaf shortcut is sound: where no range of call frame information holds the
\* address and the registers cannot advance, there is no caller; and a step by
\* frame pointers moves up the stack unless aarch64 has no frame pointer.
Informed(module, address) ==
  \E i \in DOMAIN object_unwind_ranges(module) : Holds(object_unwind_ranges(module)[i], address)
StepExact(q, given) ==
  /\ Informed(q.module, q.address) <=>
       \E section \in {q.module.eh, q.module.debug} :
         Innermost(section, Linked(q.module, q.address)) # {}
  /\ ~Informed(q.module, q.address) /\ provably_cannot_advance(q.arch, q.env.regs) =>
       given = NoRow
  /\ ~Informed(q.module, q.address) /\ ~provably_cannot_advance(q.arch, q.env.regs)
       /\ given = NoRow =>
         \/ q.arch = "x86_64" /\ Wrapped(q.env.regs[6] + Bytes) \notin DOMAIN q.env.memory
         \/ q.arch = "aarch64" /\ Wrapped(q.env.regs[29] + 2 * Bytes) <= q.env.regs[31]
  /\ ~Informed(q.module, q.address) /\ given # NoRow
       /\ ~(q.arch = "aarch64" /\ q.env.regs[29] = 0) =>
         given.regs[Layouts[q.arch].sp] > q.env.regs[Layouts[q.arch].sp]

\* Normalized ranges are sorted and apart, and hold what they held before.
RangesExact(q, given) ==
  /\ \A i \in 1 .. Len(given) - 1 : given[i].high < given[i + 1].low
  /\ \A address \in Word :
       (\E i \in DOMAIN given : Holds(given[i], address))
         <=> (\E i \in DOMAIN q.ranges : Holds(q.ranges[i], address))

\* A module reaches over every segment, if they are in the order ELF asks for.
LoadExact(q, given) ==
  given # None /\ (\A i, j \in DOMAIN q.segments : i < j => q.segments[i].address <= q.segments[j].address) =>
    \A s \in ToSet(q.segments) : s.size # 0 =>
      given.low <= s.address /\ s.address + s.size <= given.high

\* Both architectures take the value at the register's rank.
RegistersExact(q, given) ==
  given # None =>
    /\ given.ip = Ranked(q.mask, q.values, IF q.arch = "x86_64" THEN 8 ELSE 32)
    /\ given.sp = Ranked(q.mask, q.values, IF q.arch = "x86_64" THEN 7 ELSE 31)
    /\ given.fp = Or0(Ranked(q.mask, q.values, IF q.arch = "x86_64" THEN 6 ELSE 29))
    /\ q.arch = "x86_64" =>
         \A p \in DOMAIN X86Numbers :
           given.regs[X86Numbers[p]] = Or0(Ranked(q.mask, q.values, p))

\* A word comes from the recorded stack or from an object, never from both.
WordExact(q, given) ==
  given # None =>
    (given.from = "stack" <=> q.address .. q.address + Bytes - 1 \subseteq q.sp .. q.sp + q.size - 1)

FramesRecovered ==
  \A i \in DOMAIN answer :
    CASE question.kind = "expression" -> ExpressionExact(question, answer[i])
      [] question.kind = "entry" -> EntryExact(question, answer[i])
      [] question.kind = "cfa" -> CfaExact(question, answer[i])
      [] question.kind = "step" -> StepExact(question, answer[i])
      [] question.kind = "ranges" -> RangesExact(question, answer[i])
      [] question.kind = "load" -> LoadExact(question, answer[i])
      [] question.kind = "registers" -> RegistersExact(question, answer[i])
      [] question.kind = "read" -> WordExact(question, answer[i])
=============================================================================
