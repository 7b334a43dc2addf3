----------------------------- MODULE MCCpuTrace -----------------------------
(* TLC instance of CpuTrace: two-bit bytes, and an arithmetic unit whose     *)
(* result depends on both operands and on their order.                       *)
EXTENDS CpuTrace

MCAluVal(x, y) == (x + 2 * y + 1) % 4
MCAluFlag(x, y) == x + y >= 4
MCPendings == {{}, {0}, {2}, {2, 4}}
=============================================================================
