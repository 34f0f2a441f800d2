--------------------------- MODULE ProgramTableView ---------------------------
(***************************************************************************)
(* The scrolling of the program listing (ProgramTableView,                 *)
(* src/qtmips_gui/programtableview.cpp).                                   *)
(*                                                                         *)
(* The listing is a window of Rows rows over the program; row r shows the  *)
(* instruction at index0_offset + r * cellSizeBytes.  When the top row     *)
(* comes near either end, adjust_scroll_pos_process moves the window       *)
(* (ProgramModel::adjustRowAndOffset) and scrolls so that the same         *)
(* instruction stays at the top.  Scroll-bar changes reach it through a    *)
(* flag and a queued signal: adjust_scroll_pos_check runs synchronously    *)
(* inside every valueChanged, and the pass itself runs later, from the Qt  *)
(* event loop.                                                             *)
(*                                                                         *)
(* ProgramModel is not in the repository.  It is an environment that keeps *)
(* the row arithmetic above and, in adjustRowAndOffset(row, address),      *)
(* places address at any row whose offset it can represent (Offsets).     *)
(* Qt's QTableView is modelled by what the handlers rely on: scrollTo with *)
(* PositionAtTop sets the scroll value (clamped to the last Visible rows), *)
(* setCurrentIndex makes the current row visible, and a change of the      *)
(* scroll value emits valueChanged synchronously.  The column widths of    *)
(* adjustColumnCount and the clipboard text of keyPressEvent are layout    *)
(* and output, and are left out.                                           *)
(***************************************************************************)
EXTENDS Integers

CONSTANTS Rows,      \* m->rowCount()
          Visible,   \* rows the viewport shows
          RowBytes,  \* m->cellSizeBytes()
          Offsets,   \* index0_offset values ProgramModel can hold
          Addrs,     \* addresses passed to go_to_address / focus_address
          Stored     \* values the ProgramViewAddr0 setting can start with

ASSUME Rows >= 8 /\ Visible \in 1 .. Rows /\ RowBytes > 0
ASSUME 0 \in Offsets /\ 0 \in Stored

VARIABLES has_model,        \* model() is a ProgramModel
          top,              \* rowAt(0): the vertical scroll value
          offset,           \* m->getIndex0Offset()
          current,          \* currentIndex().row(), -1 when invalid
          in_progress,      \* adjust_scroll_pos_in_progress
          posted,           \* adjust_scroll_pos_queue events in the event queue
          initial_address,  \* 0 is Address::null()
          need_addr0_save,
          saved,            \* the ProgramViewAddr0 setting
          unseen            \* a scroll no address_changed has reported yet

vars == <<has_model, top, offset, current, in_progress, posted,
          initial_address, need_addr0_save, saved, unseen>>

RowIdx == 0 .. Rows - 1
MaxTop == Rows - Visible

\* ProgramModel::get_row_address: the address row r shows
RowAddr(off, r) == off + r * RowBytes

\* ProgramModel::get_row_for_address: the rows showing address a
RowsFor(off, a) == {r \in RowIdx : RowAddr(off, r) = a}

\* ProgramModel::adjustRowAndOffset(row, a): the rows it may place a at
Placements(a) == {r \in RowIdx : a - r * RowBytes \in Offsets}

(***************************************************************************)
(* The handlers work on the whole state as a record, so that a signal     *)
(* emitted inside a handler runs its slot in place, as Qt's direct        *)
(* connections do.                                                         *)
(***************************************************************************)
Cur == [has_model |-> has_model, top |-> top, offset |-> offset,
        current |-> current, in_progress |-> in_progress, posted |-> posted,
        initial_address |-> initial_address, need_addr0_save |-> need_addr0_save,
        saved |-> saved, unseen |-> unseen]

Update(s) ==
    /\ has_model' = s.has_model /\ top' = s.top /\ offset' = s.offset
    /\ current' = s.current /\ in_progress' = s.in_progress
    /\ posted' = s.posted /\ initial_address' = s.initial_address
    /\ need_addr0_save' = s.need_addr0_save /\ saved' = s.saved
    /\ unseen' = s.unseen

\* (mutant) every valueChanged queues a pass
adjust_scroll_pos_check_unguarded(s) ==
    [s EXCEPT !.in_progress = TRUE, !.posted = @ + 1]

adjust_scroll_pos_check(s) ==
    IF s.in_progress THEN s
    ELSE [s EXCEPT !.in_progress = TRUE, !.posted = @ + 1]

\* a new scroll value: valueChanged runs adjust_scroll_pos_check
SetValue(s, t) ==
    IF t = s.top THEN s
    ELSE adjust_scroll_pos_check([s EXCEPT !.top = t, !.unseen = TRUE])

scrollTo(s, row) == SetValue(s, IF row > MaxTop THEN MaxTop ELSE row)

\* the current row, then a scroll that makes it visible
setCurrentIndex(s, row) ==
    LET s1 == [s EXCEPT !.current = IF row \in RowIdx THEN row ELSE -1]
    IN  CASE row \notin RowIdx -> s1
          [] row < s.top -> SetValue(s1, row)
          [] row >= s.top + Visible -> SetValue(s1, row - Visible + 1)
          [] OTHER -> s1

addr0_save_change(s, a) == [s EXCEPT !.need_addr0_save = FALSE, !.saved = a]

\* go_to_address_priv, with adjustRowAndOffset placing a at row r
go_to_address_priv(s, a, r) ==
    IF ~s.has_model THEN s
    ELSE LET s1 == setCurrentIndex(scrollTo([s EXCEPT !.offset = a - r * RowBytes], r), r)
         IN  IF s1.need_addr0_save THEN addr0_save_change(s1, a) ELSE s1

go_to_address(s, a, r) == go_to_address_priv([s EXCEPT !.need_addr0_save = TRUE], a, r)

\* the tail of adjustColumnCount: restore the address saved in the settings
adjustColumnCount(s, r) ==
    IF ~s.has_model \/ s.initial_address = 0 THEN s
    ELSE [go_to_address(s, s.initial_address, r) EXCEPT !.initial_address = 0]

(***************************************************************************)
(* The re-centring pass.                                                   *)
(***************************************************************************)
\* the branch of the do { } while (false) the pass takes at the top row
AtHead(s) == s.top < Rows \div 8
ToNull(s) == AtHead(s) /\ s.top = 0 /\ s.offset < RowBytes /\ s.offset # 0
Recentre(s) ==
    \/ ToNull(s)
    \/ AtHead(s) /\ s.offset >= RowBytes
    \/ ~AtHead(s) /\ s.top > Rows - Rows \div 8

\* the address adjustRowAndOffset is given
Target(s) == IF ToNull(s) THEN 0 ELSE RowAddr(s.offset, s.top)

\* (mutant) the current row is shifted by the new top row, as if the old
\* one had been row 0
Moved_drops_prev_row(s, r) ==
    LET s1 == scrollTo([s EXCEPT !.offset = Target(s) - r * RowBytes], r)
    IN  setCurrentIndex(s1, IF s.current = -1 THEN -1 ELSE s.current + r)

\* the window moves so that Target(s) is at row r; the current row moves
\* with it
Moved(s, r) ==
    LET prev_row == s.top
        s1 == scrollTo([s EXCEPT !.offset = Target(s) - r * RowBytes], r)
    IN  setCurrentIndex(s1, IF s.current = -1 THEN -1 ELSE s.current + r - prev_row)

\* after the loop: the top row's address is saved if asked and reported
Report(s) ==
    LET a == RowAddr(s.offset, s.top)
        s1 == IF s.need_addr0_save THEN addr0_save_change(s, a) ELSE s
    IN  [s1 EXCEPT !.unseen = FALSE]

(***************************************************************************)
(* The operations.                                                         *)
(***************************************************************************)
Init ==
    /\ has_model = FALSE
    /\ top = 0 /\ offset = 0 /\ current = -1
    /\ in_progress = FALSE /\ posted = 0
    /\ saved \in Stored
    /\ initial_address = saved
    /\ need_addr0_save = FALSE
    /\ unseen = FALSE

\* QAbstractItemView::setModel, from the dock that owns the view
SetModel ==
    /\ ~has_model
    /\ has_model' = TRUE
    /\ UNCHANGED <<top, offset, current, in_progress, posted, initial_address,
                   need_addr0_save, saved, unseen>>

\* (mutant) the pass leaves adjust_scroll_pos_in_progress set
adjust_scroll_pos_process_keeps_flag ==
    /\ posted > 0
    /\ LET s == [Cur EXCEPT !.posted = @ - 1]
       IN  CASE ~s.has_model -> Update(s)
             [] Recentre(s) -> \E r \in Placements(Target(s)) : Update(Report(Moved(s, r)))
             [] OTHER -> Update(Report(s))

\* the event loop delivers one queued adjust_scroll_pos_queue
adjust_scroll_pos_process ==
    /\ posted > 0
    /\ LET s == [Cur EXCEPT !.posted = @ - 1, !.in_progress = FALSE]
       IN  CASE ~s.has_model -> Update(s)
             [] Recentre(s) -> \E r \in Placements(Target(s)) : Update(Report(Moved(s, r)))
             [] OTHER -> Update(Report(s))

\* the user drags the scroll bar or turns the wheel (no rows without a model)
UserScroll(t) ==
    /\ has_model
    /\ Update(SetValue(Cur, t))

\* resizeEvent: Super::resizeEvent may move the scroll value to t; the row
\* at the top is then put back unless the settings' address is pending
resizeEvent(t) ==
    /\ has_model
    /\ LET keep_row0 == initial_address = 0
           address == RowAddr(offset, top)
           s1 == SetValue(Cur, t)
       IN  IF keep_row0
           THEN \E r \in Placements(address) :
                    Update(go_to_address([s1 EXCEPT !.initial_address = 0], address, r))
           ELSE \E r \in Placements(initial_address) : Update(adjustColumnCount(s1, r))

GoToAddress(a) == \E r \in Placements(a) : Update(go_to_address(Cur, a, r))

\* focus_address: go to the address unless a row already shows it, then
\* make that row current
Focus(s, a) ==
    \E r \in Placements(a) :
        LET s1 == IF RowsFor(s.offset, a) = {} THEN go_to_address_priv(s, a, r) ELSE s
        IN  Update(IF RowsFor(s1.offset, a) = {} THEN s1
                   ELSE setCurrentIndex(s1, CHOOSE x \in RowsFor(s1.offset, a) : TRUE))

focus_address(a) == has_model /\ Focus(Cur, a)

focus_address_with_save(a) ==
    /\ has_model
    /\ Focus([Cur EXCEPT !.need_addr0_save = TRUE], a)

Next ==
    \/ SetModel
    \/ adjust_scroll_pos_process
    \/ \E t \in 0 .. MaxTop : UserScroll(t) \/ resizeEvent(t)
    \/ \E a \in Addrs : GoToAddress(a) \/ focus_address(a) \/ focus_address_with_save(a)

\* The event loop dispatches every posted event; nothing the user does is
\* assumed to happen.
Spec == Init /\ [][Next]_vars /\ WF_vars(adjust_scroll_pos_process)

(***************************************************************************)
(* Properties.                                                             *)
(***************************************************************************)
\* Scroll events are coalesced: at most one adjust_scroll_pos_queue event
\* waits in the event queue, and exactly while adjust_scroll_pos_in_progress
\* is set, through the valueChanged signals that the pass's own scrollTo and
\* setCurrentIndex emit (adjust_scroll_pos_check, adjust_scroll_pos_process).
ScrollCoalesced == posted <= 1 /\ (in_progress <=> posted = 1)

\* Every change of the scroll value, by the user, a resize, go_to_address or
\* focus_address, is eventually followed by a pass that re-centres the
\* window if needed and reports the top row's address (address_changed).
ScrollEventuallyReported == unseen ~> ~unseen

\* the instruction at address a lies in the cell of row r
Covers(off, r, a) == RowAddr(off, r) <= a /\ a < RowAddr(off, r) + RowBytes

\* A re-centring pass keeps the same instruction selected: whatever row
\* ProgramModel moves the window to, the current row after the pass, if it
\* is still a row, holds the address the current row showed before; the
\* move to offset 0 shifts the cells by less than one
\* (adjust_scroll_pos_process, setCurrentIndex with prev_index.row() + row
\* - prev_row).
SelectionKeepsInstruction ==
    [][adjust_scroll_pos_process =>
         (current # -1 /\ current' # -1 =>
              Covers(offset', current', RowAddr(offset, current)))]_vars
=============================================================================
