------------------------- MODULE MCCommandProcessor -------------------------
(* Values of the constants of CommandProcessor for its runs. *)
EXTENDS CommandProcessor, TLC

P(op, n) == Header("type3", op, n, 0)
Registers(first, n) == Header("type0", "NOP", n, first)
Predicated(op, n) == [P(op, n) EXCEPT !.pred = TRUE]
MCHeaders ==
  <<P("MEM_WRITE", 5), P("INDIRECT_BUFFER", 2), P("WAIT_REG_MEM", 5), P("EVENT_WRITE_SHD", 3),
    P("SET_BIN_SELECT_LO", 1), P("REG_RMW", 3), P("REG_TO_MEM", 2), Predicated("EVENT_WRITE_ZPD", 1),
    Registers(SCRATCH_UMSK, 2), Registers(0, 1), Header("type1", "NOP", 0, 0)>>

\* Physical memory: a list at 32 that runs the one at 8, and one at 2 that its length cuts short.
\* The write-back is at 56, a flag at 57, and the cells that packets write from 58 on.
Flag == 57
Inner ==
  <<Cell(P("REG_TO_MEM", 2)), 0, (4 * 60) + 2,
    Cell(P("WAIT_REG_MEM", 5)), 16 + 3, 4 * Flag, 1, 255>>
Outer ==
  <<Cell(Registers(SCRATCH_UMSK, 2)), 1, 4 * 58, Cell(Registers(0, 1)), 77,
    Cell(SwapHeaders[3]), 0, Cell(P("SET_BIN_SELECT_LO", 1)), 1,
    Cell(Predicated("EVENT_WRITE_ZPD", 1)), 3, Cell(P("REG_RMW", 3)), 4, 15, 32,
    Cell(P("INDIRECT_BUFFER", 2)), 4 * 8, 8, Cell(P("EVENT_WRITE_SHD", 3)), 9, (4 * 59) + 1, 200>>
Broken == <<Cell(P("WAIT_REG_MEM", 5)), 16, 4 * Flag, 0>>
List(a, cells) == [i \in a..(a + Len(cells) - 1) |-> cells[i - a + 1]]
MCImage ==
  LET lists == List(32, Outer) @@ List(8, Inner) @@ List(2, Broken)
  IN  lists @@ [i \in 0..63 |-> 0]

Call(a, n) == <<Cell(P("INDIRECT_BUFFER", 2)), 4 * a, n>>
RingPackets ==
  {Call(32, Len(Outer)), Call(2, 4), <<0, Cell(P("MEM_WRITE", 5)), 4 * 60, 2, 3, 4, 5>>,
   <<Cell(Header("type1", "NOP", 0, 0))>>}

MCStores == {<<Flag, 1>>}
MCFrontBuffers == {<<Alias, 1>>, <<3, 1>>}
RingBounds == <<3, 1>>
=============================================================================
