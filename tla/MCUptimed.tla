----------------------------- MODULE MCUptimed -----------------------------
(* An instance of Uptimed for TLC: ints of ten bits, counters at zero and  *)
(* just below the wrap, minutes without ticks, with few, and with too many *)
(* for the product; the interface named twice, first, or missing.          *)
EXTENDS Uptimed

Row(n, rx, tx) == [name |-> n, bytes |-> << rx, tx >>]
Lo == Row("lo", 1, 1)
Eth == Row("eth0", 3, 600)
Veth == Row("veth0", 7, 2)
SomeTables == {<< Veth, Eth >>, << Eth, Lo >>, << Lo >>}
Eths == {"eth0", "veth0"}
Boots == {5, 1020}
Minutes == {0, 7}
=============================================================================
