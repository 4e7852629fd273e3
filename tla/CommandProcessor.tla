-------------------------- MODULE CommandProcessor --------------------------
(***************************************************************************)
(* The Xenos command processor (gpu/cmd_processor.cpp) between the guest's *)
(* display driver, which writes packets into a ring and moves the write    *)
(* pointer, and the thread that executes them and reports its read pointer *)
(* back.  Memory is counted in dwords; a word has eight bits, so that one  *)
(* of its four bytes has two; an address in a packet is 4 * dword + the    *)
(* byte order of the access, as in the code.  Register numbers are scaled  *)
(* down and keep their order and their overlaps.                           *)
(***************************************************************************)
EXTENDS Integers, Sequences, FiniteSets, SequencesExt

CONSTANTS
  RingDwords,     \* size of the ring, a power of two
  RingBase,       \* where the driver puts it
  WriteBackAt,    \* where the driver wants the read pointer
  Image,          \* the rest of physical memory: a function from dwords to cells
  Headers,        \* the packet headers the title uses beside those of VdSwap
  Packets,        \* what the driver writes: sequences of cells, each a header and its parameters
  GuestStores,    \* <<dword, value>>: what the title stores for the processor to wait for
  FrontBuffers,   \* guest addresses <<window, page>> that VdSwap is called with
  UpdateEvery,    \* rptrUpdateDwords_
  MaxSpins,       \* polls of a WAIT_REG_MEM before it gives up
  MaxPackets,     \* bound: packets the driver writes in each boot of the title, a sequence
  ClearsPointer,  \* the driver zeroes the write pointer before it sets up a ring
  ResetWhileBusy  \* a relaunch may come while the thread is executing

ASSUME PowerOfTwo == \E n \in 2..8 : RingDwords = 2^n
ASSUME RingIsInMemory ==
  RingBase \in Nat \ {0} /\ WriteBackAt \in Nat /\ RingBase + RingDwords <= WriteBackAt
ASSUME BoundsAreNat ==
  {UpdateEvery, MaxSpins} \subseteq Nat \ {0} /\ MaxPackets \in Seq(Nat)
ASSUME FlagsAreBoolean == {ClearsPointer, ResetWhileBusy} \subseteq BOOLEAN

VARIABLES
  mem, wptr, rptrMmio,                         \* the guest's memory and its GPU page
  ringBasePa, ringSize, rptrWbPa, rptrUpdate,  \* the fields of CommandProcessor
  rptrIndex, regs, bins, running,
  pc, idx, next, wptrSeen, span, sinceWb, frames, wait, spins,  \* its thread's locals
  tail, boot, written, published,              \* the driver: end of its packets, and how many
  screen,                                      \* what the last swap handed to the backend
  tag, consumed                                \* history: whose header a cell holds; what was taken

config == <<ringBasePa, ringSize, rptrWbPa, rptrUpdate>>
machine == <<regs, bins, screen>>
locals == <<idx, next, wptrSeen, span, sinceWb, frames, wait, spins>>
driver == <<tail, boot, written, published, tag>>
vars == <<mem, wptr, rptrMmio, config, rptrIndex, machine, running, pc, locals, driver, consumed>>

----------------------------------------------------------------------------
(* Words and memory *)

\* A cell holds a word or, above WordMax, the header of that number in the table below: a word of
\* the code has room for both.  A header read as a value is the largest word.
WordMax == 255
Value(cell) == IF cell <= WordMax THEN cell ELSE WordMax

ReadPhys(m, pa) == IF pa \in DOMAIN m THEN m[pa] ELSE 0
\* Mutant: an address is masked, to a memory of half the size.
WritePhysShort(m, pa, v) == IF pa \in DOMAIN m THEN [m EXCEPT ![pa % 32] = v] ELSE m
WritePhys(m, pa, v) == IF pa \in DOMAIN m THEN [m EXCEPT ![pa] = v] ELSE m
\* The n words from pa on.
Block(m, pa, n) == [k \in 1..n |-> Value(ReadPhys(m, pa + k - 1))]

\* Mutant: the halves are exchanged by a rotation that keeps the old high half.
GpuSwapUnmasked(v, order) == IF order % 4 = 1 THEN ((v % 16) * 16) + v ELSE v
\* gpuSwap: order 1 exchanges the halves (the code's comment calls it k8in16), 2 all four bytes.
GpuSwap(v, order) ==
  CASE order % 4 = 1 -> (v % 16) * 16 + v \div 16
    [] order % 4 = 2 -> (v % 4) * 64 + ((v \div 4) % 4) * 16 + ((v \div 16) % 4) * 4 + v \div 64
    [] OTHER -> v

Bit(v, i) == (v \div 2^i) % 2
BitAnd(x, y) ==
  LET Both(i) == 2^i * Bit(x, i) * Bit(y, i)
  IN  Both(0) + Both(1) + Both(2) + Both(3) + Both(4) + Both(5) + Both(6) + Both(7)
BitOr(x, y) == x + y - BitAnd(x, y)

MemRead(m, address) == GpuSwap(Value(ReadPhys(m, address \div 4)), address % 4)
MemWrite(m, address, v) == WritePhys(m, address \div 4, GpuSwap(v, address % 4))

----------------------------------------------------------------------------
(* Registers: scratch 0 and 1, their mask and address, and the banks *)

SCRATCH_UMSK == 2
SCRATCH_ADDR == 3
COHER_STATUS == 4
VIZ_STATUS == 5
EVENT_INITIATOR == 7
FETCH_00 == 9
kRegCount == 13

\* A machine state g is a record [regs, mem, bins, screen]; instructions map one to the next.
WriteRegister(g, i, v) ==
  IF i >= kRegCount THEN g
  ELSE LET r == [g EXCEPT !.regs[i] = IF i = COHER_STATUS THEN BitOr(v, 128) ELSE v]
       IN  IF i \in 0..1 /\ Bit(r.regs[SCRATCH_UMSK], i) = 1
             THEN [r EXCEPT !.mem = WritePhys(@, r.regs[SCRATCH_ADDR] \div 4 + i, v)]
             ELSE r

WriteRegisters(g, first, values, oneReg) ==
  LET After[k \in 0..Len(values)] ==
        IF k = 0 THEN g
        ELSE WriteRegister(After[k - 1], IF oneReg THEN first ELSE first + k - 1, values[k])
  IN  After[Len(values)]

Register(g, i) == IF i < kRegCount THEN g.regs[i] ELSE 0

\* SET_CONSTANT and LOAD_ALU_CONSTANT: the bank of a constant, if there is such a bank.
Bank(offsetType) == <<8, FETCH_00, 11, 12, 7>>[offsetType \div 16 + 1] + (offsetType % 16)
IsBank(offsetType) == offsetType \div 16 \in 0..4

\* The comparison of WAIT_REG_MEM and COND_WRITE; 7 waits for nothing and writes nothing.
Matches(fn, v, ref) ==
  CASE fn = 1 -> v < ref   [] fn = 2 -> v <= ref  [] fn = 3 -> v = ref
    [] fn = 4 -> v # ref   [] fn = 5 -> v >= ref  [] fn = 6 -> v > ref
    [] OTHER -> FALSE
Polled(g, info, address) ==
  IF Bit(info, 4) = 1 THEN MemRead(g.mem, address) ELSE Register(g, address)

----------------------------------------------------------------------------
(* Packets: headers with n parameters, and the type-3 packets that complete at once *)

Header(type, op, n, base) ==
  [type |-> type, op |-> op, n |-> n, base |-> base, one |-> FALSE, pred |-> FALSE]
SwapHeaders ==
  <<Header("type0", "NOP", 2, FETCH_00), Header("type3", "XE_SWAP", 4, 0),
    Header("type2", "NOP", 0, 0)>>
Table == SwapHeaders \o Headers
Cell(h) == WordMax + CHOOSE k \in 1..Len(Table) : Table[k] = h
IsHeader(cell) == cell > WordMax
\* A cell read as a header; a number below 2^14 reads as the write of one register.
HeaderOf(cell) == IF IsHeader(cell) THEN Table[cell - WordMax] ELSE Header("type0", "NOP", 1, cell)

Cells == 0..(WordMax + Len(Table))
\* The type-3 packets that do more than be counted, which NOP stands for.
Ops ==
  {"NOP", "WAIT_REG_MEM", "INDIRECT_BUFFER", "REG_RMW", "REG_TO_MEM", "MEM_WRITE", "COND_WRITE",
   "EVENT_WRITE", "EVENT_WRITE_SHD", "EVENT_WRITE_EXT", "EVENT_WRITE_ZPD", "VIZ_QUERY",
   "SET_CONSTANT", "SET_CONSTANT2", "LOAD_ALU_CONSTANT", "SET_BIN_MASK", "SET_BIN_SELECT",
   "SET_BIN_MASK_LO", "SET_BIN_MASK_HI", "SET_BIN_SELECT_LO", "SET_BIN_SELECT_HI", "XE_SWAP"}
HeaderSet == [type : {"type0", "type1", "type2", "type3"}, op : Ops, n : Nat, base : Nat,
              one : BOOLEAN, pred : BOOLEAN]
\* A packet of type 0 or 3 has at least one parameter, the others have none.
ASSUME HeadersAssumption ==
  /\ Headers \in Seq(HeaderSet)
  /\ \A k \in 1..Len(Headers) : Headers[k].n = 0 <=> Headers[k].type \in {"type1", "type2"}
\* What the driver writes at a time: whole packets, and zeros before, between and behind them.
Params(p, k) == (k + 1)..(k + HeaderOf(p[k]).n)
WellFormed(p) ==
  /\ p \in Seq(Cells)
  /\ \A k \in 1..Len(p) :
       IF IsHeader(p[k]) THEN Params(p, k) \subseteq 1..Len(p) /\ \A j \in Params(p, k) : ~IsHeader(p[j])
       ELSE p[k] = 0 \/ \E h \in 1..Len(p) : IsHeader(p[h]) /\ k \in Params(p, h)
ASSUME PacketsAssumption == \A p \in Packets : WellFormed(p)
ASSUME MemoryAssumption ==
  /\ Image \in [0..(WriteBackAt + 7) -> Cells]
  /\ \A s \in GuestStores : s[1] \in 0..(WriteBackAt + 7) /\ s[2] \in Cells
\* XE_SWAP is the runtime's own packet: only VdSwap writes it, for a page of physical memory.
IsSwap(cell) == HeaderOf(cell).op = "XE_SWAP"
ASSUME SwapsAreVdSwaps ==
  /\ \A p \in Packets : \A k \in 1..Len(p) : ~IsSwap(p[k])
  /\ \A a \in DOMAIN Image : ~IsSwap(Image[a])
  /\ \A s \in GuestStores : ~IsSwap(s[2])
  /\ \A b \in FrontBuffers : b[2] \in 0..15

\* issueSwap: the front buffer goes to the backend if it is memory, in the one format supported.
IssueSwap(g, pa, width, height) ==
  IF pa \div 4 \in DOMAIN g.mem /\ width > 0 /\ height > 0 /\ g.regs[FETCH_00 + 1] % 8 = 6
    THEN [g EXCEPT !.screen = [pa |-> pa, page |-> g.regs[FETCH_00 + 1] \div 8]]
    ELSE g

RegRmw(g, info, andMask, orMask) ==
  LET i == info % 8
      a == IF Bit(info, 7) = 1 THEN Register(g, andMask % 8) ELSE andMask
      o == IF Bit(info, 6) = 1 THEN Register(g, orMask % 8) ELSE orMask
  IN  WriteRegister(g, i, BitOr(BitAnd(Register(g, i), a), o))

CondWrite(g, a) ==
  IF ~Matches(a[1] % 8, BitAnd(Polled(g, a[1], a[2]), a[4]), a[3]) THEN g
  ELSE IF Bit(a[1], 5) = 1 THEN [g EXCEPT !.mem = MemWrite(@, a[5], a[6])]
  ELSE WriteRegister(g, a[5], a[6])

Event(g, initiator) == WriteRegister(g, EVENT_INITIATOR, initiator % 64)
EventWrite(g, n, a) ==
  IF n > 1 THEN [Event(g, a[1]) EXCEPT !.mem = MemWrite(@, a[2], a[3])] ELSE Event(g, a[1])

\* EVENT_WRITE_EXT: the largest extent, three words of two coordinates.
Extents == <<4, 4, 1>>
EventWriteExt(g, a) ==
  LET at == a[2] \div 4 IN
  [Event(g, a[1]) EXCEPT !.mem = IF at \notin DOMAIN @ THEN @
     ELSE [i \in DOMAIN @ |-> IF i - at \in 0..2 THEN Extents[i - at + 1] ELSE @[i]]]

VizQuery(g, query) ==
  LET id == query % 16
      r == VIZ_STATUS + id \div 8
  IN  IF Bit(query, 7) = 0 THEN Event(g, 1)
      ELSE [Event(g, 2) EXCEPT !.regs[r] = BitOr(@, 2^(id % 8))]

LoadConstants(g, address, offsetType, n) ==
  IF ~IsBank(offsetType) THEN g
  ELSE WriteRegisters(g, Bank(offsetType), Block(g.mem, address \div 4, n), FALSE)

\* The parameters after the first.
Rest(n, a) == [k \in 1..(n - 1) |-> a[k + 1]]

SetConstants(g, n, a) ==
  IF ~IsBank(a[1]) THEN g ELSE WriteRegisters(g, Bank(a[1]), Rest(n, a), FALSE)

MemWrites(g, n, a) ==
  [g EXCEPT !.mem =
     [i \in DOMAIN @ |-> LET k == i - a[1] \div 4 IN
        IF k \in 0..(n - 2) THEN GpuSwap(a[k + 2], a[1]) ELSE @[i]]]

kSwapSignature == 83
MaxArgs == 6

\* What a packet of n parameters does at once; the code reads parameters without looking at n.
Execute(g, op, n, a) ==
  CASE op = "REG_RMW"        -> RegRmw(g, a[1], a[2], a[3])
    [] op = "REG_TO_MEM"     -> [g EXCEPT !.mem = MemWrite(@, a[2], Register(g, a[1]))]
    [] op = "MEM_WRITE"      -> MemWrites(g, n, a)
    [] op = "COND_WRITE"     -> CondWrite(g, a)
    [] op = "EVENT_WRITE"    -> EventWrite(g, n, a)
    [] op = "EVENT_WRITE_SHD" ->
         [Event(g, a[1]) EXCEPT !.mem = MemWrite(@, a[2], IF Bit(a[1], 7) = 1 THEN 0 ELSE a[3])]
    [] op = "EVENT_WRITE_EXT" -> EventWriteExt(g, a)
    [] op = "EVENT_WRITE_ZPD" -> Event(g, a[1])
    [] op = "VIZ_QUERY"      -> VizQuery(g, a[1])
    [] op = "SET_CONSTANT"   -> SetConstants(g, n, a)
    [] op = "SET_CONSTANT2"  -> WriteRegisters(g, a[1], Rest(n, a), FALSE)
    [] op = "LOAD_ALU_CONSTANT" -> LoadConstants(g, a[1], a[2], a[3])
    [] op = "SET_BIN_MASK"   -> [g EXCEPT !.bins.mask = <<a[1], a[2]>>]
    [] op = "SET_BIN_SELECT" -> [g EXCEPT !.bins.select = <<a[1], a[2]>>]
    [] op = "SET_BIN_MASK_LO" -> [g EXCEPT !.bins.mask[2] = a[1]]
    [] op = "SET_BIN_MASK_HI" -> [g EXCEPT !.bins.mask[1] = a[1]]
    [] op = "SET_BIN_SELECT_LO" -> [g EXCEPT !.bins.select[2] = a[1]]
    [] op = "SET_BIN_SELECT_HI" -> [g EXCEPT !.bins.select[1] = a[1]]
    [] op = "XE_SWAP" /\ a[1] = kSwapSignature -> IssueSwap(g, a[2], a[3], a[4])
    [] OTHER -> g    \* NOP, draws, shader loads, and what the code only counts

\* The bin check: a predicated packet runs only if a selected bin is active, a swap never.
Skipped(h) ==
  /\ h.pred
  /\ \/ \A k \in 1..2 : BitAnd(bins.select[k], bins.mask[k]) = 0
     \/ h.op = "XE_SWAP"

----------------------------------------------------------------------------
(* The thread: from the ring to frames of indirect buffers and back *)

Machine == [regs |-> regs, mem |-> mem, bins |-> bins, screen |-> screen]
Becomes(machine_) ==
  \E g \in {machine_} : regs' = g.regs /\ mem' = g.mem /\ bins' = g.bins /\ screen' = g.screen

RingCell(i) == ReadPhys(mem, ringBasePa + (i % span))
RingArgs(n) ==
  [k \in 1..n |-> LET p == ringBasePa + ((idx + 1) % span) + k - 1
                  IN  Value(ReadPhys(mem, IF ringSize # 0 /\ p >= ringBasePa + ringSize
                                            THEN p - ringSize ELSE p))]
ArgsRead(n) == IF n > MaxArgs THEN n ELSE MaxArgs

\* The write pointer moved: everything up to it is one batch.
Fetch ==
  /\ pc = "idle" /\ running
  /\ ringBasePa # 0 /\ ringSize # 0 /\ wptr # rptrIndex
  /\ pc' = "ring" /\ idx' = rptrIndex % ringSize /\ span' = ringSize /\ wptrSeen' = wptr
  /\ sinceWb' = 0
  /\ UNCHANGED <<mem, wptr, rptrMmio, config, rptrIndex, machine, running, next, frames, wait,
                 spins, driver, consumed>>

AtEnd == idx = wptrSeen % span \/ ~running
BatchEnds ==
  /\ pc = "ring" /\ AtEnd
  /\ pc' = "publish"
  /\ UNCHANGED <<mem, wptr, rptrMmio, config, rptrIndex, machine, running, locals, driver,
                 consumed>>

\* The history of what was taken: the tag of the header at a cell, if the driver put one there.
TagAt(i) == IF tag[i] = <<0, 0>> THEN <<>> ELSE <<tag[i]>>
Take == consumed' = consumed \o TagAt(idx)
InOrder(tags) ==
  [k \in 1..Cardinality(tags) |->
     CHOOSE x \in tags : Cardinality({y \in tags : y[2] < x[2]}) = k - 1]

SkipZero ==
  /\ pc = "ring" /\ ~AtEnd /\ RingCell(idx) = 0
  /\ idx' = (idx + 1) % span /\ sinceWb' = sinceWb + 1
  /\ UNCHANGED <<mem, wptr, rptrMmio, config, rptrIndex, machine, running, pc, next, wptrSeen,
                 span, frames, wait, spins, driver, consumed>>

\* What follows a packet, given the frames it leaves: its list, or the write-back of the ring.
Resume(left, after) ==
  /\ frames' = left
  /\ IF left = <<>> THEN pc' = "wb" /\ idx' = after ELSE pc' = "list" /\ UNCHANGED idx

\* A type-3 packet, its parameters and where to go on; outer frames are those already advanced.
Type3(h, args, outer, after) == \E a \in {args} :
  \/ /\ ~Skipped(h) /\ h.op = "WAIT_REG_MEM"
     /\ pc' = "poll" /\ wait' = [info |-> a[1], address |-> a[2], ref |-> a[3], mask |-> a[4]]
     /\ spins' = 0 /\ frames' = outer
     /\ UNCHANGED <<machine, mem, idx>>
  \/ /\ ~Skipped(h) /\ h.op = "INDIRECT_BUFFER"
     /\ Resume(IF a[2] = 0 THEN outer
               ELSE Append(outer, [pa |-> a[1] \div 4, i |-> 0, n |-> a[2]]), after)
     /\ UNCHANGED <<machine, mem, wait, spins>>
  \/ /\ Skipped(h) \/ h.op \notin {"WAIT_REG_MEM", "INDIRECT_BUFFER"}
     /\ Becomes(IF Skipped(h) THEN Machine ELSE Execute(Machine, h.op, h.n, a))
     /\ Resume(outer, after)
     /\ UNCHANGED <<wait, spins>>

RunPacket ==
  /\ pc = "ring" /\ ~AtEnd /\ RingCell(idx) # 0
  /\ sinceWb' = sinceWb + 1 /\ Take
  /\ LET h == HeaderOf(RingCell(idx))
         after == (idx + 1 + h.n) % span
     IN  /\ next' = after
         /\ \/ /\ h.type = "type0"
               /\ Becomes(WriteRegisters(Machine, h.base,
                            [k \in 1..h.n |-> Value(RingCell(idx + k))], h.one))
               /\ Resume(frames, after)
               /\ UNCHANGED <<wait, spins>>
            \/ /\ h.type = "type2"
               /\ Resume(frames, (idx + 1) % span)
               /\ UNCHANGED <<machine, mem, wait, spins>>
            \/ /\ h.type = "type3"
               /\ Type3(h, RingArgs(ArgsRead(h.n)), frames, after)
         /\ h.type # "type1"
  /\ UNCHANGED <<wptr, rptrMmio, config, rptrIndex, running, wptrSeen, span, driver>>

\* Mutant: an invalid packet does not move the read index to the write pointer.
AbortStaysBehind(first) ==
  /\ pc' = "idle" /\ frames' = <<>>
  /\ consumed' = Append(consumed, tag[first])
  /\ UNCHANGED <<mem, wptr, rptrMmio, config, rptrIndex, machine, running, idx, next, wptrSeen,
                 span, sinceWb, wait, spins, driver>>
\* An invalid packet: the thread forgets the rest of the batch, and tells nobody.
Abort(first) ==
  LET skipped == {i \in DOMAIN tag : (i - first) % span < (wptrSeen - first) % span} IN
  /\ pc' = "idle" /\ rptrIndex' = wptrSeen /\ frames' = <<>>
  /\ consumed' = consumed \o InOrder({tag[i] : i \in skipped} \ {<<0, 0>>})
  /\ UNCHANGED <<mem, wptr, rptrMmio, config, machine, running, idx, next, wptrSeen, span,
                 sinceWb, wait, spins, driver>>
Type1InRing ==
  /\ pc = "ring" /\ ~AtEnd /\ HeaderOf(RingCell(idx)).type = "type1"
  /\ Abort(idx)

\* executeIndirect: the frame's index is advanced before a nested list runs.
Frame == Last(frames)
ListCell == ReadPhys(mem, Frame.pa + Frame.i)
Advanced(n) == [frames EXCEPT ![Len(frames)].i = @ + n]
Overruns(h) == h.type = "type3" /\ h.n > Frame.n - Frame.i
ListEnds ==
  /\ pc = "list" /\ Frame.i >= Frame.n
  /\ Resume(Front(frames), next)
  /\ UNCHANGED <<mem, wptr, rptrMmio, config, rptrIndex, machine, running, next, wptrSeen, span,
                 sinceWb, wait, spins, driver, consumed>>
ListPacket ==
  /\ pc = "list" /\ Frame.i < Frame.n
  /\ LET h == HeaderOf(ListCell)
         at == Frame.pa + Frame.i
     IN  \/ /\ ListCell = 0 \/ h.type = "type2"
            /\ frames' = Advanced(1)
            /\ UNCHANGED <<pc, idx, machine, mem, wait, spins>>
         \/ /\ ListCell # 0 /\ h.type = "type0"
            /\ Becomes(WriteRegisters(Machine, h.base, Block(mem, at + 1, h.n), h.one))
            /\ frames' = Advanced(1 + h.n)
            /\ UNCHANGED <<pc, idx, wait, spins>>
         \/ /\ h.type = "type3" /\ ~Overruns(h)
            /\ Type3(h, Block(mem, at + 1, ArgsRead(h.n)), Advanced(1 + h.n), next)
  /\ UNCHANGED <<wptr, rptrMmio, config, rptrIndex, running, next, wptrSeen, span, sinceWb,
                 driver, consumed>>
ListInvalid ==
  /\ pc = "list" /\ Frame.i < Frame.n
  /\ HeaderOf(ListCell).type = "type1" \/ Overruns(HeaderOf(ListCell))
  /\ Abort(next)

\* WAIT_REG_MEM polls memory or a register, and after MaxSpins polls goes on regardless.
PollMatches ==
  wait.info % 8 = 7 \/ Matches(wait.info % 8,
                         BitAnd(Polled(Machine, wait.info, wait.address), wait.mask), wait.ref)
PollEnds == spins > MaxSpins
\* Mutant: the polls are not counted.
SpunUncounted == spins
Spun == spins + 1
Poll ==
  /\ pc = "poll"
  /\ \/ /\ PollMatches \/ PollEnds
        /\ Resume(frames, next)
        /\ UNCHANGED spins
     \/ /\ ~(PollMatches \/ PollEnds)
        /\ spins' = Spun
        /\ UNCHANGED <<pc, idx, frames>>
  /\ UNCHANGED <<mem, wptr, rptrMmio, config, rptrIndex, machine, running, next, wptrSeen, span,
                 sinceWb, wait, driver, consumed>>

Report(i) ==
  /\ rptrMmio' = i
  /\ mem' = IF rptrWbPa # 0 THEN WritePhys(mem, rptrWbPa, i) ELSE mem

WriteBackDue == rptrUpdate # 0 /\ sinceWb >= rptrUpdate
\* Mutant: the end of the batch is reported instead of the packet reached.
WriteBackAhead ==
  /\ pc = "wb"
  /\ pc' = "ring"
  /\ Report(wptrSeen) /\ sinceWb' = 0
  /\ UNCHANGED <<wptr, config, rptrIndex, machine, running, idx, next, wptrSeen, span, frames,
                 wait, spins, driver, consumed>>
WriteBack ==
  /\ pc = "wb"
  /\ pc' = "ring"
  /\ IF WriteBackDue THEN Report(idx) /\ sinceWb' = 0 ELSE UNCHANGED <<mem, rptrMmio, sinceWb>>
  /\ UNCHANGED <<wptr, config, rptrIndex, machine, running, idx, next, wptrSeen, span, frames,
                 wait, spins, driver, consumed>>

\* The end of a batch, also of one that a stop cut short.
PublishRead ==
  /\ pc = "publish"
  /\ pc' = "idle" /\ rptrIndex' = wptrSeen /\ Report(wptrSeen)
  /\ UNCHANGED <<wptr, config, machine, running, locals, driver,
                 consumed>>

ThreadEnds ==
  /\ pc = "idle" /\ ~running
  /\ pc' = "ended"
  /\ UNCHANGED <<mem, wptr, rptrMmio, config, rptrIndex, machine, running, locals, driver,
                 consumed>>

Processor ==
  \/ Fetch \/ BatchEnds \/ SkipZero \/ RunPacket \/ Type1InRing \/ ListEnds \/ ListPacket
  \/ ListInvalid \/ Poll \/ WriteBack \/ PublishRead \/ ThreadEnds

----------------------------------------------------------------------------
(* The guest's display driver, which is the title's own code, and the Vd* calls it makes *)

NoTags == [i \in 0..(RingDwords - 1) |-> <<0, 0>>]

\* VdInitializeRingBuffer, before it the driver zeroes the two pointers if it does so at all.
VdInitializeRingBuffer ==
  /\ ringBasePa = 0
  /\ ringBasePa' = RingBase /\ ringSize' = RingDwords /\ rptrIndex' = 0
  /\ IF ClearsPointer THEN wptr' = 0 /\ mem' = WritePhys(mem, WriteBackAt, 0)
     ELSE UNCHANGED <<wptr, mem>>
  /\ tail' = 0
  /\ UNCHANGED <<rptrMmio, rptrWbPa, rptrUpdate, machine, running, pc, locals, boot, written,
                 published, tag, consumed>>

VdEnableRingBufferRPtrWriteBack ==
  /\ ringBasePa # 0 /\ rptrWbPa = 0
  /\ rptrWbPa' = WriteBackAt /\ rptrUpdate' = UpdateEvery
  /\ UNCHANGED <<mem, wptr, rptrMmio, ringBasePa, ringSize, rptrIndex, machine, running, pc, locals,
                 driver, consumed>>

\* The driver keeps one cell free, by the read pointer the processor reported.
RingCells == RingBase..(RingBase + RingDwords - 1)
Reported == Value(mem[WriteBackAt])
Free == (Reported - tail - 1) % RingDwords

\* How many of the first k cells are headers.
Headed(cells, k) == Cardinality({j \in 1..k : IsHeader(cells[j])})
PutCells(cells) ==
  LET n == Len(cells)
      At(i) == ((i - tail) % RingDwords) + 1
  IN  /\ rptrWbPa # 0 /\ n <= Free
      /\ written + Headed(cells, n) <= MaxPackets[boot]
      /\ mem' = [a \in DOMAIN mem |->
                   IF a \in RingCells /\ At(a - RingBase) <= n THEN cells[At(a - RingBase)]
                   ELSE mem[a]]
      /\ tag' = [i \in DOMAIN tag |->
                   IF At(i) > n THEN tag[i]
                   ELSE IF ~IsHeader(cells[At(i)]) THEN <<0, 0>>
                   ELSE <<boot, written + Headed(cells, At(i))>>]
      /\ tail' = (tail + n) % RingDwords
      /\ written' = written + Headed(cells, n)
      /\ UNCHANGED <<wptr, rptrMmio, config, rptrIndex, machine, running, pc, locals, boot,
                     published, consumed>>

WritePacket == \E p \in Packets : PutCells(p)

\* VdSwap: the fetch constant and the swap of one front buffer, its address made physical.
Flat == 1
Alias == 2
K8888 == 6
ToPhysical(window, page) == page * 16
\* Mutant: the fetch constant keeps the virtual address.
SwapBlockVirtual(window, page) ==
  <<Cell(SwapHeaders[1]), 0, (((window * 8) + page) * 8) + K8888,
    Cell(SwapHeaders[2]), kSwapSignature, ToPhysical(window, page), 8, 8, Cell(SwapHeaders[3])>>
SwapBlock(window, page) ==
  <<Cell(SwapHeaders[1]), 0, (ToPhysical(window, page) \div 2) + K8888,
    Cell(SwapHeaders[2]), kSwapSignature, ToPhysical(window, page), 8, 8, Cell(SwapHeaders[3])>>
VdSwap ==
  \E b \in FrontBuffers :
    /\ b[1] \in {Flat, Alias}
    /\ tail + 9 <= RingDwords
    /\ PutCells(SwapBlock(b[1], b[2]))

MovePointer ==
  /\ wptr # tail /\ rptrWbPa # 0
  /\ wptr' = tail /\ published' = written
  /\ UNCHANGED <<mem, rptrMmio, config, rptrIndex, machine, running, pc, locals, tail, boot,
                 written, tag, consumed>>

GuestStore ==
  \E s \in GuestStores :
    /\ mem[s[1]] # s[2]
    /\ mem' = WritePhys(mem, s[1], s[2])
    /\ UNCHANGED <<wptr, rptrMmio, config, rptrIndex, machine, running, pc, locals, driver,
                   consumed>>

\* resetForRelaunch: the fields and the registers; memory and the GPU's page stay as they are.
NoRegs == [i \in 0..(kRegCount - 1) |-> 0]
NoBins == [mask |-> <<0, 0>>, select |-> <<0, 0>>]
ResetForRelaunch ==
  /\ boot < Len(MaxPackets) /\ running
  /\ ResetWhileBusy \/ (pc = "idle" /\ (ringBasePa = 0 \/ wptr = rptrIndex))
  /\ boot' = boot + 1 /\ written' = 0 /\ published' = 0 /\ tail' = 0 /\ consumed' = <<>>
  /\ ringBasePa' = 0 /\ ringSize' = 0 /\ rptrWbPa' = 0 /\ rptrUpdate' = 0 /\ rptrIndex' = 0
  /\ regs' = NoRegs /\ bins' = NoBins
  /\ UNCHANGED <<mem, wptr, rptrMmio, screen, running, pc, locals, tag>>

Stop ==
  /\ running /\ running' = FALSE
  /\ UNCHANGED <<mem, wptr, rptrMmio, config, rptrIndex, machine, pc, locals, driver, consumed>>

----------------------------------------------------------------------------
NoScreen == [pa |-> 0, page |-> 0]
NoWait == [info |-> 0, address |-> 0, ref |-> 0, mask |-> 0]

Init ==
  /\ mem = Image /\ wptr = 0 /\ rptrMmio = 0
  /\ ringBasePa = 0 /\ ringSize = 0 /\ rptrWbPa = 0 /\ rptrUpdate = 0 /\ rptrIndex = 0
  /\ regs = NoRegs /\ bins = NoBins /\ screen = NoScreen
  /\ running = TRUE /\ pc = "idle"
  /\ idx = 0 /\ next = 0 /\ wptrSeen = 0 /\ span = 1 /\ sinceWb = 0 /\ frames = <<>>
  /\ wait = NoWait /\ spins = 0
  /\ tail = 0 /\ boot = 1 /\ written = 0 /\ published = 0 /\ tag = NoTags
  /\ consumed = <<>>

Next ==
  \/ Processor \/ VdInitializeRingBuffer \/ VdEnableRingBufferRPtrWriteBack \/ WritePacket
  \/ VdSwap \/ MovePointer \/ GuestStore \/ ResetForRelaunch \/ Stop

\* The processor's thread is scheduled; the title owes it nothing, nor does the user a stop.
Spec == Init /\ [][Next]_vars /\ WF_vars(Processor)

----------------------------------------------------------------------------
(* Properties *)

\* Types: indexes stay inside the ring, words inside their width.
TypeOK ==
  /\ mem \in [DOMAIN Image -> Cells]
  /\ {wptr, rptrMmio, rptrIndex, idx, next, tail} \subseteq 0..(RingDwords - 1)
  /\ ringBasePa \in {0, RingBase} /\ ringSize \in {0, RingDwords} /\ span \in {1, RingDwords}
  /\ regs \in [0..(kRegCount - 1) -> 0..WordMax]
  /\ pc \in {"idle", "ring", "list", "poll", "wb", "publish", "ended"}
  /\ frames # <<>> => pc \in {"list", "poll"}
  /\ spins \in 0..(MaxSpins + 1) /\ sinceWb \in 0..RingDwords

\* Every packet the driver writes is taken once and in the order of writing, also where it or
\* its parameters wrap at the end of the ring: none is overwritten, skipped or run again
\* (executePrimaryBuffer against the space the reported read pointer gives back).
PacketsOnceInOrder ==
  /\ consumed = [k \in 1..Len(consumed) |-> <<boot, k>>]
  /\ Len(consumed) <= published

\* The read pointer the guest sees never passes a packet that is not executed to its end, its
\* indirect buffers and its waits included (writeRptrMmio and the write-back in memory).  A stop in
\* the middle of a batch reports the whole batch: the title must be over by then.
InProgress == IF pc \in {"poll", "list"} THEN 1 ELSE 0
ReportedIsExecuted ==
  running /\ rptrWbPa # 0 =>
    LET reportedFree == {(tail + k) % RingDwords : k \in 0..Free}
        unread == {i \in DOMAIN tag : tag[i][1] = boot /\ tag[i][2] > Len(consumed) - InProgress}
    IN  unread \cap reportedFree = {}

\* The processor's packets and the title's stores leave the ring and the reported read pointer to
\* the driver and to the reports, and no list is read from the ring (writePhysU32, executeIndirect):
\* the driver counts on both, the code enforces neither.
LeavesTheRing ==
  /\ RunPacket \/ ListPacket \/ GuestStore =>
       \A a \in RingCells \union {WriteBackAt} : mem'[a] = mem[a]
  /\ ListPacket => Frame.pa + Frame.i \notin RingCells
RingIsTheDrivers == [][LeavesTheRing]_vars

\* What is handed to the backend is the buffer the fetch constant of the same VdSwap describes.
SwapMatchesItsFetch == screen.pa = 16 * screen.page

\* A packet that was published is executed, whatever it waits for, unless the thread is stopped or
\* the title relaunched (WAIT_REG_MEM gives up).
PublishedIsExecuted ==
  published > Len(consumed) ~>
    ((published = Len(consumed) /\ InProgress = 0) \/ ~running)

=============================================================================
