---------------------------- MODULE BoardMapping ----------------------------
(***************************************************************************)
(* How the library learns about the boards: the driver's mapping_show()    *)
(* prints one line "%-10s %d:%d:0x%x" per board, the library's             *)
(* extractValue() scans it back with "%x:%d:%x", and _check_boards_info()  *)
(* looks for boards that carry the same id switch setting.                 *)
(* The conversions are the subject here, so numbers are not abstracted; a  *)
(* board name is dropped: it is 6 characters in a column of 10, so the     *)
(* numbers start at the offset 11 where extractValue() looks for them.  So *)
(* is the type, printed and scanned in hex: boards here are of one type,   *)
(* and the device node of a board is told by its instance.                 *)
(***************************************************************************)
EXTENDS Naturals, Sequences, FiniteSets

(* Numbers are printed with %d: the decimal digits, most significant first.*)
(* Minors are below KDEVICE_MINOR_COUNT = 128; ids are taken below 1000.   *)
DecimalDigits(n) == <<n \div 100, (n \div 10) % 10, n % 10>>

(* The instance is scanned with %x, which takes the digits in base 16.     *)
ScanHex(ds) == 256 * ds[1] + 16 * ds[2] + ds[3]

(* The id is scanned with %d.                                              *)
ScanDec(ds) == 100 * ds[1] + 10 * ds[2] + ds[3]

(* mapping_show() for one board, extractValue() for one line.              *)
ShowLine(b) == [inst |-> DecimalDigits(b.board_inst), id |-> DecimalDigits(b.board_id)]
ScanLine(l) == [board_inst |-> ScanHex(l.inst), board_id |-> ScanDec(l.id)]

mapping_show(boards) == [i \in DOMAIN boards |-> ShowLine(boards[i])]
extractValue(text) == [i \in DOMAIN text |-> ScanLine(text[i])]

(* An entry of board_info[]: after the last board come the zeros that      *)
(* requst_mem()'s memset left there.                                       *)
EntryAt(info, j) == IF j <= Len(info) THEN info[j] ELSE [board_inst |-> 0, board_id |-> 0]

(* Mutant: the inner loop starts one entry too far.                        *)
MatchesSkipNext(info) ==
  {i \in 1 .. Len(info) : \E j \in i + 2 .. Len(info) + 1 :
     info[i].board_id = EntryAt(info, j).board_id}

(* Mutant: both loops run one entry further.                               *)
MatchesFar(info) ==
  {i \in 1 .. Len(info) + 1 : \E j \in i + 1 .. Len(info) + 2 :
     EntryAt(info, i).board_id = EntryAt(info, j).board_id}

(* The iterations i that find a partner j in i+1 .. count.  C counts from  *)
(* 0, so j < count+1 reaches one entry past the last board.                *)
Matches(info) ==
  {i \in 1 .. Len(info) : \E j \in i + 1 .. Len(info) + 1 :
     info[i].board_id = EntryAt(info, j).board_id}

(* _check_boards_info(): two error entries per match; a single board is    *)
(* not compared at all.                                                    *)
ErrCount(info) == IF Len(info) = 1 THEN 0 ELSE 2 * Cardinality(Matches(info))
=============================================================================
