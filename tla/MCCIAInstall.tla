----------------------------- MODULE MCCIAInstall -----------------------------
(* Files with every part: two contents with a disabled index between them and *)
(* metadata; no certificates; a DLC whose five contents need three commits; a *)
(* file without a ticket; one that ends with its TMD.  The TMD ends one byte into a block, as real ones   *)
(* (0x210 + 64 * 0x24 + n * 0x30 bytes) end inside one.                       *)
EXTENDS CIAInstall

File(f) ==
  LET n == Len(f.con)
      con == [i \in 0..(n - 1) |-> f.con[i + 1]]
      at[i \in 0..n] == IF i = 0 THEN ConStartOf(f) ELSE RoundUp(at[i - 1] + con[i - 1])
  IN  [hdr |-> f.hdr, idx |-> f.idx, cert |-> f.cert, tikHdr |-> f.tikHdr, tik |-> f.tik,
       tmdHdr |-> f.tmdHdr, tmd |-> f.tmd, n |-> n, con |-> con, at |-> at,
       meta |-> f.meta, dlc |-> f.dlc]

Plain == [hdr |-> 2, idx |-> 2, cert |-> 3, tikHdr |-> 2, tik |-> 5, tmdHdr |-> 4, tmd |-> 13,
          con |-> <<8, 0, 12>>, meta |-> 2, dlc |-> FALSE]
NoCerts == [Plain EXCEPT !.cert = 0, !.con = <<4>>, !.meta = 0]
Dlc == [Plain EXCEPT !.cert = 0, !.tik = 3, !.tmd = 9, !.con = <<4, 4, 0, 8, 4, 4>>, !.dlc = TRUE]
NoTicket == [Plain EXCEPT !.tik = 0]
NoContent == [Plain EXCEPT !.tmd = 16, !.con = <<0>>, !.meta = 0]

Files == {File(f) : f \in {Plain, NoCerts, Dlc, NoTicket, NoContent}}
=============================================================================
