------------------------- MODULE MC_ProgramTableView -------------------------
(***************************************************************************)
(* A listing of 16 rows with one visible row, so that every row can be the *)
(* top one: rows 0 and 1 are the head (row < 16 / 8) and row 15 the tail   *)
(* (row > 16 - 16 / 8), so a pass re-centres from a top row other than 0   *)
(* and prev_row matters.  4-byte cells; the window offsets include one     *)
(* below a cell (2, reached by going to address 42 at row 10, from which   *)
(* a scroll to row 0 takes the move to offset 0) and several above (the    *)
(* moves that keep the top address).                                       *)
(***************************************************************************)
EXTENDS ProgramTableView

MC_Offsets == {0, 2, 4, 8}
MC_Addrs == {8, 42}
MC_Stored == {0, 8}
=============================================================================
