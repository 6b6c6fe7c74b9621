------------------------- MODULE BoardRegistryProofs -------------------------
(***************************************************************************)
(* The library's registry for every number of threads, boards and table    *)
(* entries.  The argument rests on the online counter: vi53xx_device_open()*)
(* sets it to one more than the boards there are, so that closes that match*)
(* their inits never bring it to 0, and the list that clients work with is *)
(* never taken away from them.                                             *)
(***************************************************************************)
EXTENDS BoardRegistry, FiniteSetTheorems, SequenceTheorems, WellFoundedInduction, TLAPS

Handle == [board_id : BoardIds, dev_handle : 1 .. MaxFds]
Entry == [board_inst : Nat, board_id : Nat]
ListedMachines == Machines \union {<<>>}
CallType ==
  {NoCall}
    \union [step : {"checked"}, board : BoardIds, ret : Int, nodev : BOOLEAN]
    \union [step : {"insert"}, board : BoardIds, fd : 1 .. MaxFds, cnt : 0 .. MAX_DEV_HANDLE]

ListTyped ==
  /\ init_check_ok \in BOOLEAN /\ machine \in ListedMachines
  /\ board_info = NULL \/ (board_info \in Seq(Entry) /\ Len(board_info) <= MAX_DEV_HANDLE)
  /\ available \in 0 .. MAX_DEV_HANDLE /\ online \in 0 .. MAX_DEV_HANDLE + 1
TablesTyped ==
  /\ handles \in [1 .. MAX_DEV_HANDLE -> Handle \union {NULL}]
  /\ idxs \in [BoardIds -> 0 .. MAX_DEV_HANDLE - 1 \union {NULL}]
  /\ id_bitmap \subseteq 0 .. MAX_DEV_HANDLE - 1
CallsTyped ==
  /\ clients \in [BoardIds -> Nat]
  /\ call \in [Threads -> CallType]

(* A descriptor is open on one board.                                      *)
FdsTyped ==
  /\ IsFiniteSet(fds) /\ fds \subseteq (1 .. MaxFds) \X (0 .. 999)
  /\ \A f, g \in fds : f[1] = g[1] => f = g

Typed == ListTyped /\ TablesTyped /\ CallsTyped /\ FdsTyped

(* A thread that is in get_idx() is in no init.                            *)
GetTyped ==
  /\ getting \in [Threads -> BoardIds \union {NULL}]
  /\ found \in [Threads -> 0 .. MAX_DEV_HANDLE - 1 \union {NULL}]
  /\ \A t \in Threads : getting[t] # NULL => Idle(t)
  /\ \A t \in Threads : found[t] # NULL => getting[t] # NULL

(* Without a race, an init that is failing is alone; everyone else works   *)
(* with a list that was read in full.                                      *)
Unraced == "raced" \notin breach
NoneFailing == \A t \in Threads : ~Failing(t)
Loaded ==
  /\ board_info = extractValue(mapping_show(machine)) /\ ~Twice(machine)
  /\ machine = <<>> \/ available = Len(machine)
Ids == {machine[i].board_id : i \in DOMAIN machine}
Inserting(t) ==
  call[t].cnt = available /\ call[t].board \in Ids
Alone(t) == \A u \in Threads \ {t} : Idle(u)
ListInv ==
  Unraced =>
    /\ \A t \in Threads : ~Idle(t) => init_check_ok
    /\ \A t \in Threads : Failing(t) => Alone(t)
    /\ \A t \in Threads : call[t].step = "insert" => Inserting(t)
    /\ init_check_ok /\ NoneFailing => Loaded

(* The bits that are set are those of the entries; an index that was found *)
(* free is still the lowest that is; while an init is failing the tables   *)
(* stay empty.                                                             *)
Named == {b \in BoardIds : idxs[b] # NULL}
FreeIds == (0 .. MAX_DEV_HANDLE - 1) \ id_bitmap
NextId == IF FreeIds = {} THEN 0 ELSE Min(FreeIds)
IdxPremise == breach \intersect {"skipped", "overtaken"} = {}
InStep ==
  /\ id_bitmap = {idxs[b] : b \in Named}
  /\ \A b, c \in Named : idxs[b] = idxs[c] => b = c
GetInv ==
  /\ \A t, u \in Threads : getting[t] # NULL /\ getting[u] # NULL => t = u
  /\ \A t \in Threads : getting[t] # NULL => idxs[getting[t]] = NULL
  /\ \A t \in Threads : getting[t] # NULL /\ found[t] # NULL => found[t] = NextId
Untaken == idxs = NoIdxs /\ id_bitmap = {} /\ ~Getting
IdxInv ==
  IdxPremise =>
    /\ InStep /\ GetInv
    /\ (\E t \in Threads : Failing(t)) => Untaken

(* Clients, table entries and the online counter.                          *)
OpenBoards == {b \in BoardIds : clients[b] > 0}
HasSlot(b) == \E n \in 1 .. MAX_DEV_HANDLE : handles[n] # NULL /\ handles[n].board_id = b
OpenInv ==
  Disciplined =>
    /\ OpenBoards # {} => init_check_ok /\ NoneFailing
    /\ OpenBoards \subseteq Ids
    /\ \A b \in BoardIds : b \in OpenBoards <=> HasSlot(b)
    /\ \A m, n \in 1 .. MAX_DEV_HANDLE :
         handles[m] # NULL /\ handles[n] # NULL /\ handles[m].board_id = handles[n].board_id => m = n
    /\ \A n \in 1 .. MAX_DEV_HANDLE : handles[n] # NULL => n <= available
    /\ OpenBoards # {} => online >= Cardinality(OpenBoards) + 1
    /\ \A t \in Threads : call[t].step = "insert" => online = available + 1

(* The scan of an instance in hex names no board but the one it is of.     *)
NodesTold(m) ==
  \A i, j \in DOMAIN m : ScanHex(DecimalDigits(m[i].board_inst)) = m[j].board_inst => i = j

(* Descriptors, where device nodes are told apart.                         *)
FdsOf(b) == {f \in fds : f[2] = b}
Opening(b) == {t \in Threads : call[t].step = "insert" /\ call[t].board = b}
Counted(b) == Cardinality(FdsOf(b)) = clients[b] + Cardinality(Opening(b))
FdInv ==
  Disciplined =>
    /\ \A n \in 1 .. MAX_DEV_HANDLE :
         handles[n] # NULL => <<handles[n].dev_handle, handles[n].board_id>> \in fds
    /\ \A t \in Threads : call[t].step = "insert" => <<call[t].fd, call[t].board>> \in fds
    /\ \A b \in BoardIds : Counted(b)
-----------------------------------------------------------------------------
(* Operators.                                                              *)

LEMMA MinIn ==
  ASSUME NEW S \in SUBSET Nat, S # {}
  PROVE  Min(S) \in S /\ \A y \in S : Min(S) <= y
<1> DEFINE R == OpToRel(<, Nat)
<1>1. IsWellFoundedOn(R, Nat)
  BY NatLessThanWellFounded
<1>2. PICK x \in S : \A y \in S : ~(<<y, x>> \in R)
  <2> HIDE DEF R
  <2> QED
    BY <1>1, WFMin
<1>3. \A y \in S : x <= y
  <2> SUFFICES ASSUME NEW y \in S, ~(x <= y) PROVE FALSE
    OBVIOUS
  <2>1. y < x /\ <<y, x>> \in Nat \X Nat /\ <<y, x>>[1] = y /\ <<y, x>>[2] = x
    OBVIOUS
  <2>2. <<y, x>> \in {ss \in Nat \X Nat : ss[1] < ss[2]}
    BY <2>1
  <2> QED
    BY <1>2, <2>2 DEF OpToRel
<1> QED
  BY <1>3 DEF Min

(* An id survives printing and scanning; an instance does below 10.        *)
LEMMA ScanId == \A n \in 0 .. 999 : ScanDec(DecimalDigits(n)) = n
  BY DEF ScanDec, DecimalDigits

LEMMA ScanInst == \A n \in 0 .. 9 : ScanHex(DecimalDigits(n)) = n
  BY DEF ScanHex, DecimalDigits

LEMMA ScanNat == \A n \in 0 .. 127 : ScanHex(DecimalDigits(n)) \in Nat
  BY DEF ScanHex, DecimalDigits

LEMMA Sizes == MAX_DEV_HANDLE \in Nat \ {0} /\ MaxFds \in Nat /\ BoardIds \subseteq 1 .. 999
  BY RegistryAssumption

LEMMA MachineFacts ==
  ASSUME NEW m \in ListedMachines
  PROVE  /\ Len(m) \in 0 .. MAX_DEV_HANDLE /\ DOMAIN m = 1 .. Len(m)
         /\ \A i \in DOMAIN m : m[i].board_inst \in 0 .. 127 /\ m[i].board_id \in 0 .. 999
<1> DEFINE Board == [board_inst : 0 .. 127, board_id : 0 .. 999]
<1>1. m \in Seq(Board) /\ Len(m) <= MAX_DEV_HANDLE
  <2>1. CASE m \in Machines
    BY <2>1, RegistryAssumption
  <2>2. CASE m = <<>>
    BY <2>2, EmptySeq, RegistryAssumption
  <2> QED
    BY <2>1, <2>2 DEF ListedMachines
<1>2. \A i \in DOMAIN m : m[i] \in Board
  <2> HIDE DEF Board
  <2> QED
    BY <1>1, ElementOfSeq, LenProperties
<1>3. Len(m) \in Nat /\ DOMAIN m = 1 .. Len(m)
  BY <1>1, LenProperties
<1>4. \A i \in DOMAIN m : m[i].board_inst \in 0 .. 127 /\ m[i].board_id \in 0 .. 999
  BY <1>2
<1>5. Len(m) \in 0 .. MAX_DEV_HANDLE
  BY <1>1, <1>3, Sizes
<1> QED
  BY <1>3, <1>4, <1>5

(* What the library reads of a machine.                                    *)
LEMMA InfoFacts ==
  ASSUME NEW m \in ListedMachines, NEW info, info = extractValue(mapping_show(m))
  PROVE  /\ info \in Seq(Entry) /\ Len(info) = Len(m) /\ DOMAIN info = DOMAIN m
         /\ \A i \in DOMAIN m : /\ info[i].board_id = m[i].board_id
                                /\ info[i].board_inst = ScanHex(DecimalDigits(m[i].board_inst))
         /\ info # NULL
<1>1. Len(m) \in Nat /\ DOMAIN m = 1 .. Len(m)
  BY MachineFacts, Sizes
<1>2. info = [i \in DOMAIN m |-> ScanLine(ShowLine(m[i]))]
  BY DEF extractValue, mapping_show
<1>3. ASSUME NEW i \in DOMAIN m
      PROVE  /\ info[i] \in Entry /\ info[i].board_id = m[i].board_id
             /\ info[i].board_inst = ScanHex(DecimalDigits(m[i].board_inst))
  <2> DEFINE p == m[i].board_inst
  <2> DEFINE q == m[i].board_id
  <2>1. p \in 0 .. 127 /\ q \in 0 .. 999
    BY MachineFacts
  <2>2. info[i] = [board_inst |-> ScanHex(DecimalDigits(p)), board_id |-> ScanDec(DecimalDigits(q))]
    BY <1>2 DEF ScanLine, ShowLine
  <2> HIDE DEF p, q
  <2>3. ScanDec(DecimalDigits(q)) = q
    BY <2>1, ScanId
  <2>4. ScanHex(DecimalDigits(p)) \in Nat
    BY <2>1, ScanNat
  <2>5. info[i] = [board_inst |-> ScanHex(DecimalDigits(p)), board_id |-> q] /\ q \in Nat
    BY <2>1, <2>2, <2>3
  <2>6. info[i] \in Entry /\ info[i].board_id = q /\ info[i].board_inst = ScanHex(DecimalDigits(p))
    BY <2>4, <2>5 DEF Entry
  <2> QED
    BY <2>6 DEF p, q
<1>4. info \in [1 .. Len(m) -> Entry]
  BY <1>1, <1>2, <1>3
<1>5. info \in Seq(Entry)
  BY <1>1, <1>4, SeqDef
<1>6. Len(info) = Len(m)
  BY <1>1, <1>4, <1>5
<1> QED
  BY <1>2, <1>3, <1>5, <1>6, NullAssumption DEF Entry

(* A check that finds no error board has found no two with one id.         *)
LEMMA NoErrors ==
  ASSUME NEW m \in ListedMachines, ErrCount(extractValue(mapping_show(m))) = 0
  PROVE  ~Twice(m)
<1> DEFINE info == extractValue(mapping_show(m))
<1>1. /\ Len(info) = Len(m) /\ DOMAIN m = 1 .. Len(m) /\ Len(m) \in Nat
      /\ \A i \in DOMAIN m : info[i].board_id = m[i].board_id
  BY InfoFacts, MachineFacts, Sizes
<1>2. ErrCount(info) = 0
  OBVIOUS
<1> HIDE DEF info
<1>3. CASE Len(info) = 1
  BY <1>1, <1>3 DEF Twice
<1>4. CASE Len(info) # 1
  <2>1. IsFiniteSet(1 .. Len(info)) /\ Matches(info) \in SUBSET (1 .. Len(info))
    BY <1>1, FS_Interval DEF Matches
  <2>2. IsFiniteSet(Matches(info))
    BY <2>1, FS_Subset
  <2>3. Cardinality(Matches(info)) \in Nat /\ 2 * Cardinality(Matches(info)) = 0
    BY <1>2, <1>4, <2>2, FS_CardinalityType DEF ErrCount
  <2>4. Matches(info) = {}
    BY <2>2, <2>3, FS_EmptySet
  <2>5. ASSUME NEW i \in DOMAIN m, NEW j \in DOMAIN m, i < j, m[i].board_id = m[j].board_id
        PROVE  FALSE
    <3>1. i \in 1 .. Len(info) /\ j \in i + 1 .. Len(info) + 1 /\ EntryAt(info, j) = info[j]
      BY <1>1, <2>5 DEF EntryAt
    <3>2. info[i].board_id = EntryAt(info, j).board_id
      BY <1>1, <2>5, <3>1
    <3> QED
      BY <2>4, <3>1, <3>2 DEF Matches
  <2>6. \A i, j \in DOMAIN m : i # j => i < j \/ j < i
    BY <1>1
  <2> QED
    BY <2>5, <2>6 DEF Twice
<1> QED
  BY <1>3, <1>4

(* A check that finds error boards has found two with one id, or the entry *)
(* past the last board.                                                    *)
ErrorIn(m) == Twice(m) \/ (Len(m) > 1 /\ \E i \in DOMAIN m : m[i].board_id = 0)

LEMMA SomeError ==
  ASSUME NEW m \in ListedMachines, ErrCount(extractValue(mapping_show(m))) > 0
  PROVE  ErrorIn(m)
<1> DEFINE info == extractValue(mapping_show(m))
<1>1. /\ Len(info) = Len(m) /\ DOMAIN m = 1 .. Len(m) /\ Len(m) \in Nat
      /\ \A i \in DOMAIN m : info[i].board_id = m[i].board_id
  BY InfoFacts, MachineFacts, Sizes
<1>2. ErrCount(info) > 0
  OBVIOUS
<1> HIDE DEF info
<1>3. Len(info) # 1 /\ 2 * Cardinality(Matches(info)) > 0
  BY <1>2 DEF ErrCount
<1>4. Matches(info) # {}
  BY <1>3, FS_EmptySet
<1>5. PICK i \in 1 .. Len(info) : \E j \in i + 1 .. Len(info) + 1 :
        info[i].board_id = EntryAt(info, j).board_id
  BY <1>4 DEF Matches
<1>6. PICK j \in i + 1 .. Len(info) + 1 : info[i].board_id = EntryAt(info, j).board_id
  BY <1>5
<1>7. i \in DOMAIN m /\ j \in Nat /\ i < j /\ i # j /\ Len(m) > 1
  BY <1>1, <1>3
<1>8. CASE j <= Len(info)
  <2>1. j \in DOMAIN m /\ EntryAt(info, j) = info[j]
    BY <1>1, <1>7, <1>8 DEF EntryAt
  <2> QED
    BY <1>1, <1>6, <1>7, <2>1 DEF ErrorIn, Twice
<1>9. CASE ~(j <= Len(info))
  <2>1. EntryAt(info, j).board_id = 0
    BY <1>9 DEF EntryAt
  <2> QED
    BY <1>1, <1>6, <1>7, <2>1 DEF ErrorIn
<1> QED
  BY <1>8, <1>9

(* An entry that carries the id of a client is that of a board.            *)
LEMMA EntryFacts ==
  ASSUME machine \in ListedMachines, board_info = extractValue(mapping_show(machine)),
         available \in 0 .. MAX_DEV_HANDLE, NEW b \in BoardIds, NEW k \in Entries(b)
  PROVE  k \in DOMAIN machine /\ machine[k].board_id = b /\ EntryAt(board_info, k) = board_info[k]
<1>1. Len(board_info) = Len(machine) /\ DOMAIN machine = 1 .. Len(machine) /\ Len(machine) \in Nat
  BY InfoFacts, MachineFacts, Sizes
<1>2. k \in 1 .. available /\ EntryAt(board_info, k).board_id = b /\ k \in Nat
  BY DEF Entries
<1>3. b # 0
  BY RegistryAssumption
<1>4. k <= Len(board_info)
  BY <1>1, <1>2, <1>3 DEF EntryAt
<1> QED
  BY <1>1, <1>2, <1>4, InfoFacts DEF EntryAt

(* open(2) answers a descriptor that is not in use.                        *)
LEMMA NewFdFacts ==
  ASSUME FdsTyped, Cardinality(fds) < MaxFds
  PROVE  NewFd \in 1 .. MaxFds /\ \A f \in fds : f[1] # NewFd
<1> DEFINE used == {f[1] : f \in fds}
           free == 1 .. MaxFds + 1 \ used
<1>1. IsFiniteSet(used) /\ Cardinality(used) <= Cardinality(fds) /\ Cardinality(fds) \in Nat
  <2>1. IsFiniteSet(fds)
    BY DEF FdsTyped
  <2>2. Cardinality(fds) \in Nat
    BY <2>1, FS_CardinalityType
  <2> DEFINE num == [f \in fds |-> f[1]]
  <2>3. num \in Surjection(fds, used)
    BY DEF Surjection
  <2>4. IsFiniteSet(used) /\ Cardinality(used) <= Cardinality(fds)
    <3> HIDE DEF num, used
    <3> QED
      BY <2>1, <2>3, FS_Surjection
  <2> QED
    BY <2>2, <2>4
<1>2. MaxFds \in Nat /\ IsFiniteSet(1 .. MaxFds) /\ Cardinality(1 .. MaxFds) = MaxFds
  BY RegistryAssumption, FS_Interval
<1>3. ~(1 .. MaxFds \subseteq used)
  <2>1. SUFFICES ASSUME 1 .. MaxFds \in SUBSET used PROVE FALSE
    OBVIOUS
  <2>2. Cardinality(1 .. MaxFds) <= Cardinality(used) /\ Cardinality(used) \in Nat
    BY <1>1, <2>1, FS_Subset, FS_CardinalityType
  <2> QED
    BY <1>1, <1>2, <2>2
<1>4. PICK x \in 1 .. MaxFds : x \in free
  BY <1>2, <1>3
<1>5. free \in SUBSET Nat /\ free # {}
  <2>1. 1 .. MaxFds + 1 \subseteq Nat
    BY <1>2
  <2>2. free \subseteq Nat
    BY <2>1
  <2> QED
    BY <1>4, <2>2
<1>6. Min(free) \in free /\ Min(free) <= x
  BY <1>4, <1>5, MinIn
<1>7. NewFd = Min(free)
  BY DEF NewFd
<1>8. NewFd \in 1 .. MaxFds
  BY <1>2, <1>4, <1>6, <1>7
<1> QED
  BY <1>6, <1>7, <1>8
-----------------------------------------------------------------------------
(* Types.                                                                  *)

LEMMA CallFacts ==
  ASSUME CallsTyped, NEW t \in Threads
  PROVE  /\ call[t].step \in {"idle", "checked", "insert"}
         /\ Idle(t) <=> call[t].step = "idle"
         /\ call[t].step # "idle" => call[t].board \in BoardIds
         /\ call[t].step = "checked" => call[t].ret \in Int
         /\ call[t].step = "insert" => call[t].fd \in 1 .. MaxFds /\ call[t].cnt \in 0 .. MAX_DEV_HANDLE
<1>1. call[t] \in CallType
  BY DEF CallsTyped
<1>2. CASE call[t] = NoCall
  BY <1>2 DEF NoCall, Idle
<1>3. CASE call[t] \in [step : {"checked"}, board : BoardIds, ret : Int, nodev : BOOLEAN]
  BY <1>3 DEF NoCall, Idle
<1>4. CASE call[t] \in [step : {"insert"}, board : BoardIds, fd : 1 .. MaxFds, cnt : 0 .. MAX_DEV_HANDLE]
  BY <1>4 DEF NoCall, Idle
<1> QED
  BY <1>1, <1>2, <1>3, <1>4 DEF CallType

LEMMA CallMade ==
  ASSUME CallsTyped, NEW t \in Threads, NEW c \in CallType, call' = [call EXCEPT ![t] = c]
  PROVE  call' \in [Threads -> CallType] /\ call'[t] = c /\ \A u \in Threads \ {t} : call'[u] = call[u]
  BY DEF CallsTyped

LEMMA CheckedCall ==
  ASSUME NEW b \in BoardIds, NEW r \in Int, NEW none \in BOOLEAN
  PROVE  [step |-> "checked", board |-> b, ret |-> r, nodev |-> none] \in CallType
  BY DEF CallType

LEMMA InsertCall ==
  ASSUME NEW b \in BoardIds, NEW f \in 1 .. MaxFds, NEW k \in 0 .. MAX_DEV_HANDLE
  PROVE  [step |-> "insert", board |-> b, fd |-> f, cnt |-> k] \in CallType
  BY DEF CallType

LEMMA IdleCall == NoCall \in CallType
  BY DEF CallType

LEMMA WipedTables ==
  /\ NoHandles \in [1 .. MAX_DEV_HANDLE -> Handle \union {NULL}]
  /\ NoIdxs \in [BoardIds -> 0 .. MAX_DEV_HANDLE - 1 \union {NULL}]
  BY DEF NoHandles, NoIdxs

LEMMA NoErrCount == ASSUME NEW m \in ListedMachines PROVE ErrCount(extractValue(mapping_show(m))) \in Int
<1> DEFINE info == extractValue(mapping_show(m))
<1>1. Len(info) \in Nat
  BY InfoFacts, MachineFacts, Sizes
<1> HIDE DEF info
<1>2. Matches(info) \in SUBSET (1 .. Len(info))
  BY DEF Matches
<1>3. IsFiniteSet(1 .. Len(info)) /\ Matches(info) \in SUBSET (1 .. Len(info))
  BY <1>1, <1>2, FS_Interval
<1>4. IsFiniteSet(Matches(info))
  BY <1>3, FS_Subset
<1>5. Cardinality(Matches(info)) \in Nat
  BY <1>4, FS_CardinalityType
<1>6. ErrCount(info) \in Int
  BY <1>5 DEF ErrCount
<1> QED
  BY <1>6 DEF info

LEMMA InitTyped == Init => Typed
<1> SUFFICES ASSUME Init PROVE Typed
  OBVIOUS
<1>1. machine \in ListedMachines
  BY DEF Init, ListedMachines
<1>2. init_check_ok = FALSE /\ board_info = NULL /\ available = 0 /\ online = 0
  BY DEF Init
<1>3. available \in 0 .. MAX_DEV_HANDLE /\ online \in 0 .. MAX_DEV_HANDLE + 1
  BY <1>2, Sizes
<1>4. ListTyped
  BY <1>1, <1>2, <1>3, Zenon DEF ListTyped
<1>5. TablesTyped
  BY WipedTables DEF Init, TablesTyped
<1>6. CallsTyped
  BY IdleCall DEF Init, CallsTyped
<1>7. FdsTyped
  BY FS_EmptySet DEF Init, FdsTyped
<1> QED
  BY <1>4, <1>5, <1>6, <1>7 DEF Typed

LEMMA Typed_check_again ==
  ASSUME Typed, NEW t \in Threads, NEW b \in BoardIds, check_boards_info_again(t, b) PROVE Typed'
<1>1. CallsTyped'
  <2>1. [step |-> "checked", board |-> b, ret |-> 0, nodev |-> FALSE] \in CallType
    BY DEF CallType
  <2> QED
    BY <2>1, CallMade DEF Typed, check_boards_info_again, CallsTyped
<1> QED
  BY <1>1 DEF Typed, check_boards_info_again, list, tables, ListTyped, TablesTyped, FdsTyped

(* The three ways a list is read, or is not.                               *)
LEMMA CheckFacts ==
  ASSUME Typed, NEW t \in Threads, NEW b \in BoardIds, check_boards_info(t, b)
  PROVE  \E r \in Int, none \in BOOLEAN :
           /\ call' = [call EXCEPT ![t] = [step |-> "checked", board |-> b, ret |-> r, nodev |-> none]]
           /\ machine' \in ListedMachines /\ available' \in 0 .. MAX_DEV_HANDLE
           /\ board_info' = NULL \/ (board_info' \in Seq(Entry) /\ Len(board_info') <= MAX_DEV_HANDLE)
           /\ r = 0 => /\ board_info' = extractValue(mapping_show(machine')) /\ ~Twice(machine')
                       /\ machine' = <<>> \/ available' = Len(machine')
<1>1. ListTyped
  BY DEF Typed
<1>2. <<>> \in Seq(Entry) /\ Len(<<>>) <= MAX_DEV_HANDLE
  BY EmptySeq, Sizes
<1>3. CASE board_info' \in {NULL, <<>>} /\ Checked(t, b, -1, FALSE) /\ UNCHANGED <<machine, available>>
  <2>1. board_info' = NULL \/ (board_info' \in Seq(Entry) /\ Len(board_info') <= MAX_DEV_HANDLE)
    BY <1>2, <1>3
  <2>2. machine' \in ListedMachines /\ available' \in 0 .. MAX_DEV_HANDLE
    BY <1>1, <1>3 DEF ListTyped
  <2>3. -1 \in Int /\ -1 # 0 /\ FALSE \in BOOLEAN
    OBVIOUS
  <2> QED
    BY <1>3, <2>1, <2>2, <2>3 DEF Checked
<1>4. CASE board_info' = <<>> /\ Checked(t, b, 0, TRUE) /\ machine' = <<>> /\ UNCHANGED available
  <2>1. board_info' = NULL \/ (board_info' \in Seq(Entry) /\ Len(board_info') <= MAX_DEV_HANDLE)
    BY <1>2, <1>4
  <2>2. machine' \in ListedMachines /\ available' \in 0 .. MAX_DEV_HANDLE
    BY <1>1, <1>4 DEF ListTyped, ListedMachines
  <2>3. ~Twice(machine')
    BY <1>4 DEF Twice
  <2>4. board_info' = extractValue(mapping_show(machine'))
    <3>1. extractValue(mapping_show(<<>>)) = <<>>
      BY DEF extractValue, mapping_show
    <3> QED
      BY <1>4, <3>1
  <2> WITNESS 0 \in Int, TRUE \in BOOLEAN
  <2> QED
    BY <1>4, <2>1, <2>2, <2>3, <2>4 DEF Checked
<1>5. CASE /\ machine' \in Machines /\ board_info' = extractValue(mapping_show(machine'))
           /\ available' = Len(board_info') /\ Checked(t, b, ErrCount(board_info'), FALSE)
  <2>1. machine' \in ListedMachines
    BY <1>5 DEF ListedMachines
  <2>2. /\ board_info' \in Seq(Entry) /\ Len(board_info') = Len(machine')
        /\ Len(machine') \in 0 .. MAX_DEV_HANDLE
    BY <1>5, <2>1, InfoFacts, MachineFacts
  <2>3. ErrCount(board_info') \in Int /\ (ErrCount(board_info') = 0 => ~Twice(machine'))
    BY <1>5, <2>1, NoErrCount, NoErrors
  <2>4. Len(board_info') <= MAX_DEV_HANDLE /\ available' = Len(machine') /\ available' \in 0 .. MAX_DEV_HANDLE
    BY <1>5, <2>2, Sizes
  <2> QED
    BY <1>5, <2>1, <2>2, <2>3, <2>4 DEF Checked
<1> QED
  BY <1>3, <1>4, <1>5 DEF check_boards_info

LEMMA Typed_check ==
  ASSUME Typed, NEW t \in Threads, NEW b \in BoardIds, check_boards_info(t, b) PROVE Typed'
<1>1. PICK r \in Int, none \in BOOLEAN :
        /\ call' = [call EXCEPT ![t] = [step |-> "checked", board |-> b, ret |-> r, nodev |-> none]]
        /\ machine' \in ListedMachines /\ available' \in 0 .. MAX_DEV_HANDLE
        /\ board_info' = NULL \/ (board_info' \in Seq(Entry) /\ Len(board_info') <= MAX_DEV_HANDLE)
  BY CheckFacts
<1>2. CallsTyped'
  BY <1>1, CheckedCall, CallMade DEF Typed, check_boards_info, CallsTyped
<1>3. ListTyped'
  BY <1>1 DEF Typed, check_boards_info, ListTyped
<1>4. TablesTyped'
  BY WipedTables DEF check_boards_info, TablesTyped
<1>5. FdsTyped'
  BY DEF Typed, check_boards_info, FdsTyped
<1> QED
  BY <1>2, <1>3, <1>4, <1>5 DEF Typed

LEMMA Typed_free ==
  ASSUME Typed, NEW t \in Threads, free_board_info(t) PROVE Typed'
<1>1. CallsTyped'
  BY IdleCall, CallMade DEF Typed, free_board_info, CallsTyped
<1>2. ListTyped'
  BY DEF Typed, free_board_info, ListTyped
<1>3. TablesTyped'
  BY WipedTables DEF Typed, free_board_info, TablesTyped
<1>4. FdsTyped'
  BY DEF Typed, free_board_info, FdsTyped
<1> QED
  BY <1>1, <1>2, <1>3, <1>4 DEF Typed

LEMMA CountFacts == ASSUME ListTyped PROVE get_available_board_count = available
  BY Sizes DEF ListTyped, get_available_board_count

LEMMA Typed_open_fails ==
  ASSUME Typed, NEW t \in Threads, device_open_fails(t) PROVE Typed'
<1>1. CallsTyped'
  BY IdleCall, CallMade DEF Typed, device_open_fails, CallsTyped
<1>2. online' \in {online, available + 1}
  BY CountFacts DEF Typed, device_open_fails
<1>3. ListTyped'
  BY <1>2, Sizes DEF Typed, device_open_fails, ListTyped, list
<1>4. TablesTyped' /\ FdsTyped'
  BY DEF Typed, device_open_fails, tables, TablesTyped, FdsTyped
<1> QED
  BY <1>1, <1>3, <1>4 DEF Typed

(* What a successful open(2) does, in either of its two continuations.     *)
OpensAgain(t) ==
  /\ SlotsOf(call[t].board) # {} /\ online' = online
  /\ clients' = [clients EXCEPT ![call[t].board] = @ + 1] /\ call' = [call EXCEPT ![t] = NoCall]
OpensFirst(t) ==
  /\ SlotsOf(call[t].board) = {} /\ online' = available + 1 /\ clients' = clients
  /\ call' = [call EXCEPT ![t] = [step |-> "insert", board |-> call[t].board, fd |-> NewFd,
                                  cnt |-> available]]

AnyId == 0 .. 999
LEMMA OpenFacts ==
  ASSUME Typed, NEW t \in Threads, device_open(t)
  PROVE  /\ call[t].board \in BoardIds /\ NewFd \in 1 .. MaxFds /\ (\A f \in fds : f[1] # NewFd)
         /\ \E i \in Behind(call[t].board) : /\ i \in DOMAIN machine /\ machine[i].board_id \in AnyId
                                             /\ fds' = fds \union {<<NewFd, machine[i].board_id>>}
         /\ OpensAgain(t) \/ OpensFirst(t)
         /\ UNCHANGED <<list, tables, breach>>
<1>1. call[t].board \in BoardIds
  BY CallFacts DEF Typed, device_open, CanOpen
<1>2. NewFd \in 1 .. MaxFds /\ (\A f \in fds : f[1] # NewFd)
  BY NewFdFacts DEF Typed, device_open
<1>3. PICK i \in Behind(call[t].board) : fds' = fds \union {<<NewFd, machine[i].board_id>>}
  BY DEF device_open
<1>4. i \in DOMAIN machine
  BY <1>3 DEF Behind
<1>5. machine[i].board_id \in AnyId
  BY <1>4, MachineFacts DEF Typed, ListTyped, AnyId
<1>6. OpensAgain(t) \/ OpensFirst(t)
  BY CountFacts DEF Typed, device_open, OpensAgain, OpensFirst
<1>7. UNCHANGED <<list, tables, breach>>
  BY DEF device_open
<1> QED
  BY <1>1, <1>2, <1>3, <1>4, <1>5, <1>6, <1>7

LEMMA Typed_open ==
  ASSUME Typed, NEW t \in Threads, device_open(t) PROVE Typed'
<1>1. available \in 0 .. MAX_DEV_HANDLE /\ online \in 0 .. MAX_DEV_HANDLE + 1 /\ CallsTyped
  BY DEF Typed, ListTyped
<1>2. call[t].board \in BoardIds /\ NewFd \in 1 .. MaxFds /\ (\A f \in fds : f[1] # NewFd)
  BY OpenFacts, Zenon
<1>3. OpensAgain(t) \/ OpensFirst(t)
  BY OpenFacts, Zenon
<1>4. UNCHANGED <<list, tables>>
  BY OpenFacts, Zenon
<1>5. PICK id \in AnyId : fds' = fds \union {<<NewFd, id>>}
  BY OpenFacts, Zenon
<1>6. CallsTyped' /\ online' \in 0 .. MAX_DEV_HANDLE + 1
  <2>1. CASE OpensAgain(t)
    <3>1. call' \in [Threads -> CallType]
      BY <1>1, <2>1, IdleCall, CallMade DEF OpensAgain
    <3>2. clients' \in [BoardIds -> Nat] /\ online' = online
      BY <1>1, <1>2, <2>1 DEF OpensAgain, CallsTyped
    <3> QED
      BY <1>1, <3>1, <3>2 DEF CallsTyped
  <2>2. CASE OpensFirst(t)
    <3>1. [step |-> "insert", board |-> call[t].board, fd |-> NewFd, cnt |-> available] \in CallType
      BY <1>1, <1>2, InsertCall
    <3> QED
      BY <1>1, <2>2, <3>1, CallMade, Sizes DEF OpensFirst, CallsTyped
  <2> QED
    BY <1>3, <2>1, <2>2
<1>7. ListTyped' /\ TablesTyped'
  BY <1>4, <1>6 DEF list, tables, Typed, ListTyped, TablesTyped
<1>8. FdsTyped'
  <2> DEFINE new == <<NewFd, id>>
  <2>1. new \in (1 .. MaxFds) \X (0 .. 999) /\ new[1] = NewFd
    BY <1>2, <1>5 DEF AnyId
  <2>2. fds' = fds \union {new}
    BY <1>5
  <2> HIDE DEF new
  <2>3. IsFiniteSet(fds)
    BY DEF Typed, FdsTyped
  <2>4. IsFiniteSet(fds \union {new})
    BY <2>3, FS_AddElement, Zenon
  <2>5. IsFiniteSet(fds')
    BY <2>2, <2>4
  <2> QED
    BY <1>2, <2>1, <2>2, <2>5 DEF Typed, FdsTyped
<1> QED
  BY <1>6, <1>7, <1>8 DEF Typed

LEMMA FreeFacts ==
  ASSUME Typed, NEW t \in Threads, call[t].step = "insert", FreeSlots(call[t].cnt) # {}
  PROVE  /\ Min(FreeSlots(call[t].cnt)) \in 1 .. MAX_DEV_HANDLE
         /\ Min(FreeSlots(call[t].cnt)) <= call[t].cnt
         /\ handles[Min(FreeSlots(call[t].cnt))] = NULL
<1>1. call[t].cnt \in 0 .. MAX_DEV_HANDLE
  BY CallFacts DEF Typed
<1>2. FreeSlots(call[t].cnt) \in SUBSET Nat
  BY <1>1 DEF FreeSlots
<1>3. Min(FreeSlots(call[t].cnt)) \in FreeSlots(call[t].cnt)
  BY <1>2, MinIn
<1> QED
  BY <1>1, <1>3, Sizes DEF FreeSlots

LEMMA Typed_insert ==
  ASSUME Typed, NEW t \in Threads, device_open_insert(t) PROVE Typed'
<1>1. call[t].step = "insert" /\ call[t].board \in BoardIds /\ call[t].fd \in 1 .. MaxFds
  BY CallFacts DEF Typed, device_open_insert
<1>2. call' \in [Threads -> CallType]
  BY IdleCall, CallMade DEF Typed, device_open_insert
<1>3. CallsTyped'
  BY <1>1, <1>2 DEF Typed, CallsTyped, device_open_insert
<1>4. handles' \in [1 .. MAX_DEV_HANDLE -> Handle \union {NULL}]
  <2>1. CASE FreeSlots(call[t].cnt) # {}
    <3>1. [board_id |-> call[t].board, dev_handle |-> call[t].fd] \in Handle
      BY <1>1 DEF Handle
    <3> DEFINE h == [board_id |-> call[t].board, dev_handle |-> call[t].fd]
               n == Min(FreeSlots(call[t].cnt))
    <3>2. handles' = [handles EXCEPT ![n] = h]
      BY <2>1 DEF device_open_insert
    <3> HIDE DEF h, n
    <3> QED
      BY <3>1, <3>2 DEF Typed, TablesTyped, h
  <2>2. CASE FreeSlots(call[t].cnt) = {}
    BY <2>2 DEF Typed, TablesTyped, device_open_insert
  <2> QED
    BY <2>1, <2>2
<1>5. ListTyped' /\ TablesTyped' /\ FdsTyped'
  BY <1>4 DEF Typed, ListTyped, TablesTyped, FdsTyped, device_open_insert, list
<1> QED
  BY <1>3, <1>5 DEF Typed

(* The two ways of vi53xx_device_close().                                  *)
Gone(b) == {n \in DOMAIN handles : handles[n] # NULL /\ handles[n].board_id = b}
ClosesAll ==
  /\ available = 0 \/ online <= 0
  /\ board_info' = NULL /\ available' = 0 /\ online' = 0 /\ init_check_ok' = FALSE
  /\ UNCHANGED <<handles, fds>>
ClosesOne(b) ==
  /\ available # 0 /\ online > 0 /\ online' = online - 1
  /\ online = 1 => board_info' = NULL /\ available' = 0 /\ init_check_ok' = FALSE
  /\ online # 1 => UNCHANGED <<board_info, available, init_check_ok>>
  /\ fds' = {f \in fds : f[1] \notin {handles[n].dev_handle : n \in Gone(b)}}
  /\ handles' = [n \in DOMAIN handles |-> IF n \in Gone(b) THEN NULL ELSE handles[n]]

LEMMA CloseFacts ==
  ASSUME ListTyped, NEW t \in Threads, NEW b \in BoardIds, device_close(t, b)
  PROVE  ClosesAll \/ ClosesOne(b)
<1>1. get_available_board_count = available /\ online \in Int
  BY CountFacts, Sizes DEF ListTyped
<1>2. CASE available = 0 \/ online <= 0
  BY <1>1, <1>2 DEF device_close, ClosesAll
<1>3. CASE ~(available = 0 \/ online <= 0)
  <2>1. available # 0 /\ online > 0
    BY <1>1, <1>3
  <2> QED
    BY <1>1, <1>3, <2>1 DEF device_close, ClosesOne, Gone
<1> QED
  BY <1>2, <1>3

LEMMA Typed_close ==
  ASSUME Typed, NEW t \in Threads, NEW b \in BoardIds, device_close(t, b) PROVE Typed'
<1>1. CallsTyped'
  BY DEF Typed, CallsTyped, device_close
<1>2. ListTyped /\ (ClosesAll \/ ClosesOne(b))
  BY CloseFacts DEF Typed
<1>3. online' \in 0 .. MAX_DEV_HANDLE + 1 /\ available' \in 0 .. MAX_DEV_HANDLE
  <2>1. online \in 0 .. MAX_DEV_HANDLE + 1 /\ available \in 0 .. MAX_DEV_HANDLE
    BY <1>2 DEF ListTyped
  <2>2. CASE ClosesAll
    BY <2>2, Sizes DEF ClosesAll
  <2>3. CASE ClosesOne(b)
    BY <2>1, <2>3, Sizes DEF ClosesOne
  <2> QED
    BY <1>2, <2>2, <2>3
<1>4. (board_info' = NULL \/ board_info' = board_info) /\ init_check_ok' \in BOOLEAN
  BY <1>2 DEF ListTyped, ClosesAll, ClosesOne
<1>5. machine' = machine
  BY DEF device_close
<1>6. ListTyped'
  BY <1>2, <1>3, <1>4, <1>5, Zenon DEF ListTyped
<1>7. handles' \in [1 .. MAX_DEV_HANDLE -> Handle \union {NULL}]
  BY DEF Typed, TablesTyped, device_close
<1>8. TablesTyped'
  BY <1>7 DEF Typed, TablesTyped, device_close, release_idx
<1>9. fds' \in SUBSET fds
  BY DEF device_close
<1>10. FdsTyped'
  BY <1>9, FS_Subset DEF Typed, FdsTyped
<1> QED
  BY <1>1, <1>6, <1>8, <1>10 DEF Typed

(* The index get_unique_id() finds.                                        *)
Full == Cardinality(Named) = MAX_DEV_HANDLE

LEMMA IdFacts ==
  /\ NextId \in 0 .. MAX_DEV_HANDLE - 1
  /\ FreeIds # {} => NextId \notin id_bitmap
<1>1. FreeIds \in SUBSET Nat /\ FreeIds \subseteq 0 .. MAX_DEV_HANDLE - 1
  BY Sizes DEF FreeIds
<1>2. CASE FreeIds = {}
  BY <1>2, Sizes DEF NextId
<1>3. CASE FreeIds # {}
  <2>1. Min(FreeIds) \in FreeIds
    BY <1>1, <1>3, MinIn
  <2> QED
    BY <1>1, <1>3, <2>1 DEF NextId, FreeIds
<1> QED
  BY <1>2, <1>3

LEMMA Inserts ==
  ASSUME NEW t \in Threads, get_idx_insert(t)
  PROVE  /\ getting[t] # NULL /\ found[t] # NULL /\ id_bitmap' = id_bitmap \union {found[t]}
         /\ idxs' = IF Full THEN idxs ELSE [idxs EXCEPT ![getting[t]] = found[t]]
         /\ getting' = [getting EXCEPT ![t] = NULL] /\ found' = [found EXCEPT ![t] = NULL]
         /\ UNCHANGED <<list, handles, online, fds, clients, call, breach>>
  BY DEF get_idx_insert, Full, Named

LEMMA Finds ==
  ASSUME NEW t \in Threads, get_unique_id(t)
  PROVE  /\ getting[t] # NULL /\ found[t] = NULL /\ found' = [found EXCEPT ![t] = NextId]
         /\ UNCHANGED <<list, tables, online, fds, clients, call, getting, breach>>
  BY DEF get_unique_id, NextId, FreeIds

LEMMA Typed_get ==
  ASSUME Typed, UNCHANGED <<list, tables, online, fds, clients, call>> PROVE Typed'
  BY DEF list, tables, Typed, ListTyped, TablesTyped, CallsTyped, FdsTyped

LEMMA Typed_get_insert ==
  ASSUME Typed, GetTyped, NEW t \in Threads, get_idx_insert(t) PROVE Typed'
<1>1. getting[t] \in BoardIds /\ found[t] \in 0 .. MAX_DEV_HANDLE - 1
  BY Inserts DEF GetTyped
<1>2. TablesTyped'
  BY <1>1, Inserts DEF Typed, TablesTyped
<1>3. UNCHANGED <<init_check_ok, machine, board_info, available, online, fds, clients, call>>
  BY Inserts DEF list
<1>4. ListTyped' /\ CallsTyped' /\ FdsTyped'
  BY <1>3 DEF Typed, ListTyped, CallsTyped, FdsTyped
<1> QED
  BY <1>2, <1>4 DEF Typed

LEMMA StepTyped == Typed /\ GetTyped /\ [Next]_vars => Typed'
<1> SUFFICES ASSUME Typed, GetTyped, [Next]_vars PROVE Typed'
  OBVIOUS
<1>1. CASE UNCHANGED vars
  BY <1>1, Typed_get DEF vars
<1>2. ASSUME NEW t \in Threads, NEW b \in BoardIds, get_idx(t, b) PROVE Typed'
  BY <1>2, Typed_get DEF get_idx
<1>3. ASSUME NEW t \in Threads, get_unique_id(t) PROVE Typed'
  BY <1>3, Typed_get DEF get_unique_id
<1> QED
  BY <1>1, <1>2, <1>3, Typed_check, Typed_check_again, Typed_close, Typed_free, Typed_open_fails,
     Typed_open, Typed_insert, Typed_get_insert DEF Next

LEMMA InitGet == Init => GetTyped
  BY DEF Init, GetTyped, NoGet

(* Calls of threads that are not in get_idx().                             *)
LEMMA Get_same ==
  ASSUME Typed, GetTyped, NEW t \in Threads, getting[t] = NULL, UNCHANGED get,
         \A u \in Threads \ {t} : call'[u] = call[u]
  PROVE  GetTyped'
  BY DEF GetTyped, Idle, get

LEMMA StepGet == Typed /\ GetTyped /\ [Next]_vars => GetTyped'
<1> SUFFICES ASSUME Typed, GetTyped, [Next]_vars PROVE GetTyped'
  OBVIOUS
<1>1. CASE UNCHANGED <<get, call>>
  BY <1>1 DEF GetTyped, Idle, get
<1>2. ASSUME NEW t \in Threads, NEW b \in BoardIds,
             check_boards_info(t, b) \/ check_boards_info_again(t, b)
      PROVE  GetTyped'
  <2>1. PICK c : call' = [call EXCEPT ![t] = c]
    BY <1>2, CheckFacts DEF check_boards_info_again
  <2>2. \A u \in Threads \ {t} : call'[u] = call[u]
    BY <2>1 DEF Typed, CallsTyped
  <2>3. getting[t] = NULL /\ UNCHANGED get
    BY <1>2 DEF check_boards_info, check_boards_info_again, AtRest
  <2> QED
    BY <2>2, <2>3, Get_same
<1>3. ASSUME NEW t \in Threads,
             free_board_info(t) \/ device_open_fails(t) \/ device_open(t) \/ device_open_insert(t)
      PROVE  GetTyped'
  <2>1. call[t].step # "idle"
    BY <1>3 DEF free_board_info, device_open_fails, device_open, device_open_insert, Failing, CanOpen
  <2>2. getting[t] = NULL
    BY <2>1 DEF GetTyped, Idle, NoCall
  <2>3. UNCHANGED get
    BY <1>3 DEF free_board_info, device_open_fails, device_open, device_open_insert
  <2>4. PICK c : call' = [call EXCEPT ![t] = c]
    BY <1>3, OpenFacts DEF free_board_info, device_open_fails, device_open_insert, OpensAgain, OpensFirst
  <2>5. \A u \in Threads \ {t} : call'[u] = call[u]
    BY <2>4 DEF Typed, CallsTyped
  <2> QED
    BY <2>2, <2>3, <2>5, Get_same
<1>4. ASSUME NEW t \in Threads, NEW b \in BoardIds, get_idx(t, b) PROVE GetTyped'
  <2>1. Idle(t) /\ getting' = [getting EXCEPT ![t] = b] /\ found' = found /\ call' = call
    BY <1>4 DEF get_idx, AtRest
  <2>2. getting'[t] = b /\ \A u \in Threads \ {t} : getting'[u] = getting[u]
    BY <2>1 DEF GetTyped
  <2>3. b # NULL
    <3>1. b \in Nat
      BY Sizes
    <3> QED
      BY <3>1, NullAssumption
  <2>4. getting' \in [Threads -> BoardIds \union {NULL}]
    BY <2>1 DEF GetTyped
  <2>5. \A u \in Threads : getting'[u] # NULL => Idle(u)'
    BY <2>1, <2>2 DEF GetTyped, Idle
  <2>6. \A u \in Threads : found'[u] # NULL => getting'[u] # NULL
    BY <2>1, <2>2, <2>3 DEF GetTyped
  <2> QED
    BY <2>1, <2>4, <2>5, <2>6 DEF GetTyped
<1>5. ASSUME NEW t \in Threads, get_unique_id(t) PROVE GetTyped'
  <2>1. getting[t] # NULL /\ found' = [found EXCEPT ![t] = NextId] /\ getting' = getting /\ call' = call
    BY <1>5, Finds
  <2>2. NextId \in 0 .. MAX_DEV_HANDLE - 1
    BY IdFacts
  <2> QED
    BY <2>1, <2>2 DEF GetTyped, Idle
<1>6. ASSUME NEW t \in Threads, get_idx_insert(t) PROVE GetTyped'
  <2>1. /\ getting' = [getting EXCEPT ![t] = NULL] /\ found' = [found EXCEPT ![t] = NULL]
        /\ call' = call
    BY <1>6, Inserts
  <2> QED
    BY <2>1 DEF GetTyped, Idle
<1>7. \/ UNCHANGED <<get, call>>
      \/ \E t \in Threads, b \in BoardIds :
           check_boards_info(t, b) \/ check_boards_info_again(t, b) \/ get_idx(t, b)
      \/ \E t \in Threads : \/ free_board_info(t) \/ device_open_fails(t) \/ device_open(t)
                            \/ device_open_insert(t) \/ get_unique_id(t) \/ get_idx_insert(t)
  BY DEF Next, vars, device_close
<1> QED
  BY <1>1, <1>2, <1>3, <1>4, <1>5, <1>6, <1>7

LEMMA TypedAlways == Spec => [](Typed /\ GetTyped)
  BY InitTyped, InitGet, StepTyped, StepGet, PTL DEF Spec

(* Counters, table entries and indices stay in their ranges whatever the   *)
(* threads do to each other.                                               *)
THEOREM RegistryTypeTheorem == Spec => []TypeOK
<1>1. Typed /\ GetTyped => TypeOK
  <2> SUFFICES ASSUME Typed, GetTyped PROVE TypeOK
    OBVIOUS
  <2>1. \A t \in Threads : found[t] = NULL \/ (getting[t] \in BoardIds /\ found[t] \in 0 .. MAX_DEV_HANDLE - 1)
    BY DEF GetTyped
  <2> QED
    BY <2>1 DEF Typed, ListTyped, TablesTyped, TypeOK, Handle, ListedMachines
<1> QED
  BY <1>1, TypedAlways, PTL
-----------------------------------------------------------------------------
(* The board list.                                                         *)

LEMMA BreachFacts == \A e, c : (c => Breach(e, c) = {e}) /\ (~c => Breach(e, c) = {})
  BY DEF Breach

LEMMA Raced ==
  ASSUME NEW c, "raced" \notin breach', breach \union Breach("raced", c) \subseteq breach'
  PROVE  ~c /\ Unraced
  BY BreachFacts DEF Unraced

LEMMA Keeps == [Next]_vars => breach \subseteq breach'
  BY DEF Next, vars, check_boards_info, check_boards_info_again, device_close, free_board_info,
         device_open_fails, device_open, device_open_insert, get_idx, get_unique_id, get_idx_insert

LEMMA AloneFacts ==
  ASSUME Typed, ListInv, Unraced, NEW t \in Threads, call[t].step # "idle", ~Failing(t)
  PROVE  NoneFailing /\ init_check_ok /\ Loaded
<1>1. ~Idle(t)
  BY CallFacts DEF Typed
<1>2. \A u \in Threads : Failing(u) => u = t \/ Idle(t)
  BY DEF ListInv, Alone
<1>3. NoneFailing
  BY <1>1, <1>2 DEF NoneFailing
<1> QED
  BY <1>1, <1>3 DEF ListInv

(* Nothing but a call that ends.                                           *)
LEMMA List_retire ==
  ASSUME Typed, ListInv, NEW t \in Threads, call[t].step # "idle", ~Failing(t),
         call' = [call EXCEPT ![t] = NoCall], breach \subseteq breach',
         UNCHANGED <<init_check_ok, machine, board_info, available>>
  PROVE  ListInv'
<1> SUFFICES ASSUME Unraced' PROVE ListInv'
  BY DEF ListInv
<1>1. Unraced
  BY DEF Unraced
<1>2. NoneFailing /\ init_check_ok /\ Loaded
  BY <1>1, AloneFacts
<1>3. call'[t] = NoCall /\ \A u \in Threads \ {t} : call'[u] = call[u]
  BY CallMade, IdleCall DEF Typed
<1>4. NoneFailing'
  BY <1>2, <1>3 DEF NoneFailing, Failing, NoCall
<1>5. \A u \in Threads : call'[u].step = "insert" => Inserting(u)'
  BY <1>1, <1>3 DEF ListInv, Inserting, NoCall, Ids
<1>6. Loaded'
  BY <1>2 DEF Loaded
<1> QED
  BY <1>2, <1>4, <1>5, <1>6 DEF ListInv, NoneFailing

LEMMA List_check_again ==
  ASSUME Typed, ListInv, NEW t \in Threads, NEW b \in BoardIds, check_boards_info_again(t, b)
  PROVE  ListInv'
<1> SUFFICES ASSUME Unraced' PROVE ListInv'
  BY DEF ListInv
<1>1. NoneFailing /\ Unraced
  <2>1. "raced" \notin breach' /\ breach' = breach \union Breach("raced", \E u \in Threads : Failing(u))
    BY DEF Unraced, check_boards_info_again
  <2> QED
    BY <2>1, Raced DEF NoneFailing
<1>2. init_check_ok /\ init_check_ok' = init_check_ok
  BY DEF check_boards_info_again, list
<1>3. /\ call'[t] = [step |-> "checked", board |-> b, ret |-> 0, nodev |-> FALSE]
      /\ \A u \in Threads \ {t} : call'[u] = call[u]
  BY DEF Typed, CallsTyped, check_boards_info_again
<1>4. call'[t].step = "checked" /\ call'[t].ret = 0
  BY <1>3
<1>5. NoneFailing'
  BY <1>1, <1>3, <1>4 DEF NoneFailing, Failing
<1>6. \A u \in Threads : call'[u].step = "insert" => Inserting(u)'
  BY <1>1, <1>3, <1>4 DEF ListInv, Inserting, Ids, check_boards_info_again, list
<1>7. Loaded'
  BY <1>1, <1>2 DEF ListInv, Loaded, check_boards_info_again, list
<1> QED
  BY <1>2, <1>5, <1>6, <1>7 DEF ListInv, NoneFailing

LEMMA List_check ==
  ASSUME Typed, Typed', ListInv, NEW t \in Threads, NEW b \in BoardIds, check_boards_info(t, b)
  PROVE  ListInv'
<1> SUFFICES ASSUME Unraced' PROVE ListInv'
  BY DEF ListInv
<1>1. ~Overlaps(t)
  BY Raced DEF Unraced, check_boards_info
<1>2. PICK r \in Int, none \in BOOLEAN :
        /\ call' = [call EXCEPT ![t] = [step |-> "checked", board |-> b, ret |-> r, nodev |-> none]]
        /\ r = 0 => /\ board_info' = extractValue(mapping_show(machine')) /\ ~Twice(machine')
                    /\ machine' = <<>> \/ available' = Len(machine')
  BY CheckFacts
<1>3. call'[t].step = "checked" /\ call'[t].ret = r /\ \A u \in Threads \ {t} : call'[u] = NoCall
  BY <1>1, <1>2 DEF Typed, CallsTyped, Overlaps, Idle
<1>4. init_check_ok'
  BY DEF check_boards_info
<1>5. \A u \in Threads : Failing(u)' => Alone(u)'
  BY <1>3 DEF Failing, Alone, NoCall, Idle
<1>6. \A u \in Threads : call'[u].step # "insert"
  BY <1>3 DEF NoCall
<1>7. NoneFailing' => Loaded'
  BY <1>2, <1>3 DEF NoneFailing, Failing, Loaded, Twice
<1> QED
  BY <1>4, <1>5, <1>6, <1>7 DEF ListInv

LEMMA List_free ==
  ASSUME Typed, NEW t \in Threads, free_board_info(t) PROVE ListInv'
<1> SUFFICES ASSUME Unraced' PROVE ListInv'
  BY DEF ListInv
<1>1. ~Overlaps(t)
  BY Raced DEF Unraced, free_board_info
<1>2. call'[t] = NoCall /\ \A u \in Threads \ {t} : call'[u] = call[u]
  BY CallMade, IdleCall DEF Typed, free_board_info
<1>3. \A u \in Threads : call'[u] = NoCall
  BY <1>1, <1>2 DEF Overlaps, Idle
<1> QED
  BY <1>3 DEF ListInv, Idle, Failing, NoCall, free_board_info

LEMMA List_open ==
  ASSUME Typed, ListInv, NEW t \in Threads, device_open(t) PROVE ListInv'
<1>1. call[t].step = "checked" /\ ~Failing(t) /\ breach' = breach /\ breach \subseteq breach'
  BY DEF device_open, CanOpen, Failing
<1>2. UNCHANGED <<init_check_ok, machine, board_info, available, idxs, id_bitmap>>
  BY DEF device_open, list, tables
<1>3. CASE OpensAgain(t)
  BY <1>1, <1>2, <1>3, List_retire DEF OpensAgain
<1>4. CASE OpensFirst(t)
  <2> SUFFICES ASSUME Unraced' PROVE ListInv'
    BY DEF ListInv
  <2>1. Unraced
    BY <1>1 DEF Unraced
  <2>2. NoneFailing /\ init_check_ok /\ Loaded
    BY <1>1, <2>1, AloneFacts
  <2>3. /\ call'[t].step = "insert" /\ call'[t].board = call[t].board /\ call'[t].cnt = available
        /\ \A u \in Threads \ {t} : call'[u] = call[u]
    BY <1>4 DEF OpensFirst, Typed, CallsTyped
  <2>4. NoneFailing'
    BY <2>2, <2>3 DEF NoneFailing, Failing
  <2>5. call[t].board \in Ids
    <3>1. PICK i : i \in Behind(call[t].board)
      BY OpenFacts, Zenon
    <3>2. PICK k : k \in Entries(call[t].board)
      BY <3>1 DEF Behind
    <3>3. call[t].board \in BoardIds
      BY OpenFacts, Zenon
    <3>4. k \in DOMAIN machine /\ machine[k].board_id = call[t].board
      BY <2>2, <3>2, <3>3, EntryFacts DEF Typed, ListTyped, Loaded
    <3> QED
      BY <3>4 DEF Ids
  <2>6. \A u \in Threads : call'[u].step = "insert" => Inserting(u)'
    BY <1>2, <2>1, <2>3, <2>5 DEF ListInv, Inserting, Ids
  <2>7. Loaded'
    BY <1>2, <2>2 DEF Loaded
  <2> QED
    BY <1>2, <2>2, <2>4, <2>6, <2>7 DEF ListInv, NoneFailing
<1> QED
  BY <1>3, <1>4, OpenFacts, Zenon

(* Without a race nobody is at work when a board is closed.                *)
LEMMA CloseAlone ==
  ASSUME Typed, NEW t \in Threads, NEW b \in BoardIds, device_close(t, b), Unraced'
  PROVE  Unraced /\ call' = call /\ \A u \in Threads : call[u] = NoCall
<1>1. ~Overlaps(t) /\ Unraced
  BY Raced DEF Unraced, device_close
<1> QED
  BY <1>1 DEF device_close, Overlaps, Idle, AtRest

LEMMA List_close ==
  ASSUME Typed, ListInv, NEW t \in Threads, NEW b \in BoardIds, device_close(t, b) PROVE ListInv'
<1> SUFFICES ASSUME Unraced' PROVE ListInv'
  BY DEF ListInv
<1>1. Unraced /\ call' = call /\ \A u \in Threads : call[u] = NoCall
  BY CloseAlone
<1>2. ASSUME init_check_ok' PROVE Loaded'
  <2>1. ClosesOne(b) /\ online # 1 /\ machine' = machine
    BY <1>2, CloseFacts DEF Typed, ClosesAll, ClosesOne, device_close
  <2>2. UNCHANGED <<board_info, available, init_check_ok, machine>>
    BY <2>1 DEF ClosesOne
  <2>3. Loaded
    BY <1>1, <1>2, <2>2 DEF ListInv, NoneFailing, Failing, NoCall
  <2> QED
    BY <2>2, <2>3 DEF Loaded
<1> QED
  BY <1>1, <1>2 DEF ListInv, Failing, NoCall, Idle

LEMMA StepList == Typed /\ Typed' /\ ListInv /\ [Next]_vars => ListInv'
<1> SUFFICES ASSUME Typed, Typed', ListInv, [Next]_vars PROVE ListInv'
  OBVIOUS
<1>1. CASE UNCHANGED <<list, call>>
  <2>1. breach \subseteq breach'
    BY Keeps
  <2> QED
    BY <1>1, <2>1 DEF list, ListInv, Unraced, NoneFailing, Failing, Idle, Inserting, Ids, Loaded, Alone
<1>2. ASSUME NEW t \in Threads, device_open_fails(t) PROVE ListInv'
  <2>1. call[t].step = "checked" /\ ~Failing(t) /\ breach' = breach
    BY <1>2 DEF device_open_fails, CanOpen, Failing
  <2> QED
    BY <1>2, <2>1, List_retire DEF device_open_fails, list, tables
<1>3. ASSUME NEW t \in Threads, device_open_insert(t) PROVE ListInv'
  <2>1. call[t].step = "insert" /\ ~Failing(t) /\ breach \subseteq breach'
    BY <1>3 DEF device_open_insert, Failing
  <2> QED
    BY <1>3, <2>1, List_retire DEF device_open_insert, list
<1> QED
  BY <1>1, <1>2, <1>3, List_check, List_check_again, List_close, List_free, List_open
  DEF Next, vars, get_idx, get_unique_id, get_idx_insert

LEMMA InitList == Init => ListInv
  BY DEF Init, ListInv, Idle, Failing, NoCall

(* An init that gets to open(2) with a list to go by follows no NULL,      *)
(* however inits fail and boards are closed before it, unless they race.   *)
THEOREM OpenInfoTheorem == Spec => []OpenHasInfo
<1>1. Typed /\ ListInv => OpenHasInfo
  <2> SUFFICES ASSUME Typed, ListInv, Unraced, NEW t \in Threads, CanOpen(t)
               PROVE  board_info # NULL
    BY DEF OpenHasInfo, Unraced
  <2>1. call[t].step # "idle" /\ ~Failing(t)
    BY DEF CanOpen, Failing
  <2>2. board_info = extractValue(mapping_show(machine)) /\ machine \in ListedMachines
    BY <2>1, AloneFacts DEF Loaded, Typed, ListTyped
  <2> QED
    BY <2>2, InfoFacts
<1> QED
  BY <1>1, InitList, InitTyped, InitGet, StepTyped, StepGet, StepList, PTL DEF Spec
-----------------------------------------------------------------------------
(* Board indices.                                                          *)

LEMMA InitIdx == Init => IdxInv
<1> SUFFICES ASSUME Init PROVE IdxInv
  OBVIOUS
<1>1. Named = {} /\ id_bitmap = {} /\ \A t \in Threads : getting[t] = NULL /\ ~Failing(t)
  BY DEF Init, NoIdxs, Named, NoGet, Failing, NoCall
<1> QED
  BY <1>1 DEF IdxInv, InStep, GetInv

LEMMA Idx_wiped ==
  ASSUME idxs' = NoIdxs, id_bitmap' = {}, IdxPremise' => ~Getting' PROVE IdxInv'
<1> SUFFICES ASSUME IdxPremise' PROVE IdxInv'
  BY DEF IdxInv
<1>1. Named' = {}
  BY DEF Named, NoIdxs
<1>2. \A t \in Threads : getting'[t] = NULL
  BY DEF Getting
<1> QED
  BY <1>1, <1>2 DEF IdxInv, InStep, GetInv, Untaken

(* What overtakes a get_idx() is recorded.                                 *)
LEMMA Overtaken ==
  ASSUME NEW c, IdxPremise', breach \subseteq breach', Breach("overtaken", c) \subseteq breach'
  PROVE  ~c /\ IdxPremise
<1>1. IdxPremise
  BY DEF IdxPremise
<1>2. ~c
  BY BreachFacts DEF IdxPremise
<1> QED
  BY <1>1, <1>2

LEMMA Idx_close ==
  ASSUME Typed, IdxInv, NEW t \in Threads, NEW b \in BoardIds, device_close(t, b) PROVE IdxInv'
<1> SUFFICES ASSUME IdxPremise' PROVE IdxInv'
  BY DEF IdxInv
<1>1. idxs[b] # NULL /\ IdxPremise /\ ~Getting
  <2>1. breach \subseteq breach' /\ Breach("overtaken", Getting) \subseteq breach'
    BY DEF device_close
  <2>2. idxs[b] = NULL => "skipped" \in breach'
    BY BreachFacts DEF device_close
  <2>3. ~Getting /\ IdxPremise
    BY <2>1, Overtaken
  <2> QED
    BY <2>2, <2>3 DEF IdxPremise
<1>2. b \in Named /\ InStep
  BY <1>1 DEF IdxInv, Named
<1>3. id_bitmap' = id_bitmap \ {idxs[b]} /\ idxs' = [idxs EXCEPT ![b] = NULL]
  BY <1>1 DEF device_close, release_idx, IdxReleased
<1>4. Named' = Named \ {b} /\ \A c \in Named' : idxs'[c] = idxs[c]
  BY <1>3 DEF Named, Typed, TablesTyped
<1>5. id_bitmap' = {idxs'[c] : c \in Named'}
  BY <1>2, <1>3, <1>4 DEF InStep
<1>6. InStep'
  BY <1>2, <1>4, <1>5 DEF InStep
<1>7. UNCHANGED <<getting, call>> /\ \A u \in Threads : getting'[u] = NULL
  BY <1>1 DEF device_close, get, Getting
<1>8. GetInv'
  BY <1>7 DEF GetInv
<1>9. \A u \in Threads : ~Failing(u)
  BY <1>1 DEF IdxInv, Untaken, NoIdxs
<1>10. \A u \in Threads : ~Failing(u)'
  BY <1>7, <1>9 DEF Failing
<1> QED
  BY <1>6, <1>8, <1>10 DEF IdxInv

(* With bits and entries in step, a bit is free as long as an entry is.    *)
LEMMA FullFacts ==
  ASSUME Typed, IdxInv, IdxPremise
  PROVE  Full <=> FreeIds = {}
<1>1. id_bitmap = {idxs[c] : c \in Named} /\ \A c, d \in Named : idxs[c] = idxs[d] => c = d
  BY DEF IdxInv, InStep
<1>2. IsFiniteSet(Named)
  <2>1. IsFiniteSet(BoardIds) /\ Named \in SUBSET BoardIds
    BY RegistryAssumption DEF Named
  <2> QED
    BY <2>1, FS_Subset
<1> DEFINE f == [c \in Named |-> idxs[c]]
<1>3. f \in Bijection(Named, id_bitmap)
  BY <1>1 DEF Bijection, Injection, Surjection, IsInjective
<1>4. IsFiniteSet(id_bitmap) /\ Cardinality(id_bitmap) = Cardinality(Named)
  <2>1. ExistsBijection(Named, id_bitmap)
    BY <1>3 DEF ExistsBijection
  <2> QED
    BY <1>2, <2>1, FS_Bijection
<1> DEFINE All == 0 .. MAX_DEV_HANDLE - 1
<1>5. IsFiniteSet(All) /\ Cardinality(All) = MAX_DEV_HANDLE
  BY Sizes, FS_Interval
<1>6. id_bitmap \in SUBSET All
  BY DEF Typed, TablesTyped
<1>7. Cardinality(All) = Cardinality(id_bitmap) => All = id_bitmap
  <2> HIDE DEF All
  <2> QED
    BY <1>5, <1>6, FS_Subset
<1>8. Full <=> All = id_bitmap
  BY <1>4, <1>5, <1>7 DEF Full
<1> QED
  BY <1>6, <1>8 DEF FreeIds

LEMMA Idx_get_idx ==
  ASSUME GetTyped, IdxInv, NEW t \in Threads, NEW b \in BoardIds, get_idx(t, b) PROVE IdxInv'
<1> SUFFICES ASSUME IdxPremise' PROVE IdxInv'
  BY DEF IdxInv
<1>1. IdxPremise /\ ~Getting /\ \A u \in Threads : ~Failing(u)
  BY Overtaken DEF get_idx
<1>2. /\ idxs[b] = NULL /\ getting' = [getting EXCEPT ![t] = b]
      /\ UNCHANGED <<idxs, id_bitmap, found, call>>
  BY DEF get_idx, tables
<1>3. \A u \in Threads : getting[u] = NULL /\ found[u] = NULL
  BY <1>1 DEF Getting, GetTyped
<1>4. getting'[t] = b /\ (\A u \in Threads \ {t} : getting'[u] = NULL) /\ \A u \in Threads : found'[u] = NULL
  BY <1>2, <1>3 DEF GetTyped
<1>5. GetInv'
  BY <1>2, <1>4 DEF GetInv
<1>6. InStep'
  BY <1>1, <1>2 DEF IdxInv, InStep, Named
<1>7. \A u \in Threads : ~Failing(u)'
  BY <1>1, <1>2 DEF Failing
<1> QED
  BY <1>5, <1>6, <1>7 DEF IdxInv

LEMMA Idx_get_unique_id ==
  ASSUME GetTyped, IdxInv, NEW t \in Threads, get_unique_id(t) PROVE IdxInv'
<1> SUFFICES ASSUME IdxPremise' PROVE IdxInv'
  BY DEF IdxInv
<1>1. /\ found' = [found EXCEPT ![t] = NextId]
      /\ UNCHANGED <<idxs, id_bitmap, getting, call, breach>>
  BY Finds DEF tables
<1>2. IdxPremise /\ NextId' = NextId
  BY <1>1 DEF IdxPremise, NextId, FreeIds
<1>3. found'[t] = NextId /\ \A u \in Threads \ {t} : found'[u] = found[u]
  BY <1>1 DEF GetTyped
<1>4. GetInv'
  BY <1>1, <1>2, <1>3 DEF IdxInv, GetInv
<1>5. InStep' /\ ((\E u \in Threads : Failing(u)') => Untaken')
  BY <1>1, <1>2 DEF IdxInv, InStep, Named, Failing, Untaken, Getting
<1> QED
  BY <1>4, <1>5 DEF IdxInv

LEMMA Idx_get_insert ==
  ASSUME Typed, GetTyped, IdxInv, NEW t \in Threads, get_idx_insert(t) PROVE IdxInv'
<1> SUFFICES ASSUME IdxPremise' PROVE IdxInv'
  BY DEF IdxInv
<1>1. IdxPremise
  BY Inserts DEF IdxPremise
<1>2. InStep /\ GetInv /\ \A u \in Threads : ~Failing(u)
  <2>1. Getting
    BY Inserts DEF Getting
  <2> QED
    BY <1>1, <2>1 DEF IdxInv, Untaken
<1>3. PICK b \in BoardIds : b = getting[t] /\ idxs[b] = NULL /\ found[t] = NextId
  BY <1>2, Inserts DEF GetInv, GetTyped
<1>4. \A u \in Threads : getting'[u] = NULL
  BY <1>2, Inserts DEF GetInv, GetTyped
<1>5. GetInv'
  BY <1>4 DEF GetInv
<1>6. \A u \in Threads : ~Failing(u)'
  BY <1>2, Inserts DEF Failing
<1>7. CASE Full
  <2>1. NextId = 0 /\ FreeIds = {}
    BY <1>1, <1>7, FullFacts DEF NextId
  <2>2. 0 \in id_bitmap
    BY <2>1, Sizes DEF FreeIds
  <2>3. idxs' = idxs /\ id_bitmap' = id_bitmap
    BY <1>3, <1>7, <2>1, <2>2, Inserts
  <2>4. InStep'
    BY <1>2, <2>3 DEF InStep, Named
  <2> QED
    BY <1>5, <1>6, <2>4 DEF IdxInv
<1>8. CASE ~Full
  <2>1. NextId \notin id_bitmap
    BY <1>1, <1>8, FullFacts, IdFacts
  <2>2. NextId # NULL
    BY IdFacts, NullAssumption
  <2>3. idxs' = [idxs EXCEPT ![b] = NextId] /\ id_bitmap' = id_bitmap \union {NextId} /\ b \notin Named
    BY <1>3, <1>8, Inserts DEF Named
  <2>4. Named' = Named \union {b} /\ idxs'[b] = NextId /\ \A c \in Named : idxs'[c] = idxs[c]
    BY <2>2, <2>3 DEF Named, Typed, TablesTyped
  <2>5. id_bitmap' = {idxs'[c] : c \in Named'}
    BY <1>2, <2>3, <2>4 DEF InStep
  <2>6. \A c, d \in Named' : idxs'[c] = idxs'[d] => c = d
    BY <1>2, <2>1, <2>4 DEF InStep
  <2>7. InStep'
    BY <2>5, <2>6 DEF InStep
  <2> QED
    BY <1>5, <1>6, <2>7 DEF IdxInv
<1> QED
  BY <1>7, <1>8

(* A load finds nobody in get_idx() and leaves the tables empty.           *)
LEMMA Idx_check ==
  ASSUME NEW t \in Threads, NEW b \in BoardIds, check_boards_info(t, b) PROVE IdxInv'
<1>1. breach \subseteq breach' /\ Breach("overtaken", Getting) \subseteq breach'
  BY DEF check_boards_info
<1>2. IdxPremise' => ~Getting
  BY <1>1, Overtaken
<1>3. Getting' <=> Getting
  BY DEF check_boards_info, get, Getting
<1> QED
  BY <1>2, <1>3, Idx_wiped DEF check_boards_info

(* So does the release of a failed init, which clears no bit but one.      *)
LEMMA Idx_free ==
  ASSUME IdxInv, NEW t \in Threads, free_board_info(t) PROVE IdxInv'
<1> SUFFICES ASSUME IdxPremise' PROVE IdxInv'
  BY DEF IdxInv
<1>1. breach \subseteq breach' /\ Breach("overtaken", Getting) \subseteq breach'
  BY DEF free_board_info
<1>2. IdxPremise
  BY <1>1, Overtaken
<1>3. Failing(t)
  BY DEF free_board_info
<1>4. id_bitmap = {} /\ ~Getting
  BY <1>2, <1>3 DEF IdxInv, Untaken
<1>5. idxs' = NoIdxs /\ id_bitmap' = {} /\ ~Getting'
  BY <1>4 DEF free_board_info, get, Getting
<1> QED
  BY <1>5, Idx_wiped

LEMMA Idx_same ==
  ASSUME IdxInv, breach \subseteq breach', UNCHANGED <<idxs, id_bitmap, getting, found>>,
         \A t \in Threads : Failing(t)' => Failing(t)
  PROVE  IdxInv'
<1> SUFFICES ASSUME IdxPremise' PROVE IdxInv'
  BY DEF IdxInv
<1>1. IdxPremise
  BY DEF IdxPremise
<1>2. (InStep' <=> InStep) /\ (GetInv' <=> GetInv) /\ (Untaken' <=> Untaken)
  BY DEF InStep, GetInv, Untaken, Named, NextId, FreeIds, Getting
<1> QED
  BY <1>1, <1>2 DEF IdxInv

LEMMA StepIdx == Typed /\ GetTyped /\ IdxInv /\ [Next]_vars => IdxInv'
<1> SUFFICES ASSUME Typed, GetTyped, IdxInv, [Next]_vars PROVE IdxInv'
  OBVIOUS
<1>1. breach \subseteq breach'
  BY Keeps
<1>2. CASE UNCHANGED <<tables, call, get>>
  BY <1>1, <1>2, Idx_same DEF Failing, tables, get
<1>3. ASSUME NEW t \in Threads, NEW b \in BoardIds, check_boards_info_again(t, b) PROVE IdxInv'
  <2>1. /\ call'[t] = [step |-> "checked", board |-> b, ret |-> 0, nodev |-> FALSE]
        /\ \A u \in Threads \ {t} : call'[u] = call[u]
    BY <1>3 DEF Typed, CallsTyped, check_boards_info_again
  <2>2. call'[t].ret = 0
    BY <2>1
  <2>3. \A u \in Threads : Failing(u)' => Failing(u)
    BY <2>1, <2>2 DEF Failing
  <2>4. UNCHANGED <<idxs, id_bitmap, getting, found>>
    BY <1>3 DEF check_boards_info_again, tables, get
  <2> QED
    BY <1>1, <2>3, <2>4, Idx_same
<1>4. ASSUME NEW t \in Threads, device_open_fails(t) \/ device_open(t) \/ device_open_insert(t)
      PROVE  IdxInv'
  <2>1. UNCHANGED <<idxs, id_bitmap, getting, found>>
    BY <1>4 DEF device_open_fails, device_open, device_open_insert, tables, get
  <2>2. call'[t].step # "checked" /\ \A u \in Threads \ {t} : call'[u] = call[u]
    <3>1. CASE call' = [call EXCEPT ![t] = NoCall]
      BY <3>1, CallMade, IdleCall DEF Typed, NoCall
    <3>2. CASE OpensFirst(t)
      BY <3>2 DEF OpensFirst, Typed, CallsTyped
    <3> QED
      BY <1>4, <3>1, <3>2, OpenFacts DEF device_open_fails, device_open_insert, OpensAgain
  <2>3. \A u \in Threads : Failing(u)' => Failing(u)
    BY <2>2 DEF Failing
  <2> QED
    BY <1>1, <2>1, <2>3, Idx_same
<1>5. \/ UNCHANGED <<tables, call, get>>
      \/ \E t \in Threads : \/ free_board_info(t) \/ device_open_fails(t) \/ device_open(t)
                            \/ device_open_insert(t) \/ get_unique_id(t) \/ get_idx_insert(t)
      \/ \E t \in Threads, b \in BoardIds :
           \/ check_boards_info(t, b) \/ check_boards_info_again(t, b)
           \/ device_close(t, b) \/ get_idx(t, b)
  BY DEF Next, vars
<1> QED
  BY <1>2, <1>3, <1>4, <1>5, Idx_check, Idx_free, Idx_close, Idx_get_idx, Idx_get_unique_id,
     Idx_get_insert

(* Two boards never have one index, with tables of every length and any    *)
(* number of threads, as long as no get_idx() is overtaken, inits and      *)
(* closes do not race and every index released was taken.                  *)
THEOREM IdxTheorem == Spec => []IdxUnique
<1>1. Typed /\ IdxInv => IdxUnique
  <2> SUFFICES ASSUME Typed, IdxInv, breach \subseteq {"twin", "uneven"}, NEW b \in BoardIds,
                      NEW c \in BoardIds, b # c, idxs[b] # NULL
               PROVE  idxs[b] # idxs[c]
    BY DEF IdxUnique
  <2>1. IdxPremise
    BY DEF IdxPremise
  <2> QED
    BY <2>1 DEF IdxInv, InStep, Named
<1> QED
  BY <1>1, InitIdx, InitTyped, InitGet, StepTyped, StepGet, StepIdx, PTL DEF Spec
-----------------------------------------------------------------------------
(* Which boards an init is refused for.                                    *)

LEMMA Errors_check ==
  ASSUME Typed, NEW t \in Threads, NEW b \in BoardIds, check_boards_info(t, b)
  PROVE  DistinctIdsAccepted'
<1> SUFFICES ASSUME Unraced', NEW u \in Threads, call'[u].step = "checked", call'[u].ret > 0
             PROVE  ErrorIn(machine')
  BY DEF DistinctIdsAccepted, Unraced, ErrorIn, Twice
<1>1. ~Overlaps(t)
  BY Raced DEF Unraced, check_boards_info
<1>2. \A w \in Threads \ {t} : call'[w] = NoCall
  BY <1>1 DEF Typed, CallsTyped, Overlaps, Idle, check_boards_info, Checked
<1>3. u = t
  BY <1>2 DEF NoCall
<1>4. \A r, none : Checked(t, b, r, none) => call'[t].ret = r
  BY DEF Checked, Typed, CallsTyped
<1>5. ~(-1 > 0) /\ ~(0 > 0)
  OBVIOUS
<1>6. ~Checked(t, b, -1, FALSE) /\ ~Checked(t, b, 0, TRUE)
  BY <1>3, <1>4, <1>5
<1>7. /\ machine' \in Machines /\ board_info' = extractValue(mapping_show(machine'))
      /\ Checked(t, b, ErrCount(board_info'), FALSE)
  BY <1>6, Zenon DEF check_boards_info
<1>8. ErrCount(extractValue(mapping_show(machine'))) > 0
  BY <1>3, <1>4, <1>7
<1> QED
  BY <1>7, <1>8, SomeError DEF ListedMachines

LEMMA StepErrors == Typed /\ DistinctIdsAccepted /\ [Next]_vars => DistinctIdsAccepted'
<1> SUFFICES ASSUME Typed, DistinctIdsAccepted, [Next]_vars,
                    ~(\E t \in Threads, b \in BoardIds : check_boards_info(t, b))
             PROVE  DistinctIdsAccepted'
  BY Errors_check
<1> SUFFICES ASSUME Unraced', NEW u \in Threads, call'[u].step = "checked", call'[u].ret > 0
             PROVE  ErrorIn(machine')
  BY DEF DistinctIdsAccepted, Unraced, ErrorIn, Twice
<1>1. Unraced
  BY Keeps DEF Unraced
<1>2. machine' = machine
  BY DEF Next, vars, list, check_boards_info_again, device_close, free_board_info,
         device_open_fails, device_open, device_open_insert, get_idx, get_unique_id, get_idx_insert
<1>3. call'[u] = call[u]
  <2>1. CASE call' = call
    BY <2>1
  <2>2. ASSUME NEW t \in Threads, NEW c, call' = [call EXCEPT ![t] = c],
               c.step = "checked" => c.ret = 0
        PROVE  call'[u] = call[u]
    BY <2>2 DEF Typed, CallsTyped
  <2>3. ASSUME NEW t \in Threads, NEW b \in BoardIds, check_boards_info_again(t, b)
        PROVE  call'[u] = call[u]
    <3> DEFINE c == [step |-> "checked", board |-> b, ret |-> 0, nodev |-> FALSE]
    <3>1. call' = [call EXCEPT ![t] = c] /\ c.ret = 0
      BY <2>3 DEF check_boards_info_again
    <3> HIDE DEF c
    <3> QED
      BY <2>2, <3>1
  <2>4. ASSUME NEW t \in Threads, call' = [call EXCEPT ![t] = NoCall]
        PROVE  call'[u] = call[u]
    <3>1. NoCall.step # "checked"
      BY DEF NoCall
    <3> QED
      BY <2>2, <2>4, <3>1
  <2>5. ASSUME NEW t \in Threads, device_open(t) PROVE call'[u] = call[u]
    <3>1. CASE call' = [call EXCEPT ![t] = NoCall]
      BY <2>4, <3>1
    <3>2. CASE OpensFirst(t)
      <4>1. call'[t].step = "insert" /\ \A w \in Threads \ {t} : call'[w] = call[w]
        BY <3>2 DEF OpensFirst, Typed, CallsTyped
      <4> QED
        BY <4>1
    <3> QED
      BY <2>5, <3>1, <3>2, OpenFacts DEF OpensAgain
  <2>6. \/ call' = call
        \/ \E t \in Threads, b \in BoardIds : check_boards_info_again(t, b)
        \/ \E t \in Threads : call' = [call EXCEPT ![t] = NoCall] \/ device_open(t)
    BY DEF Next, vars, device_close, free_board_info, device_open_fails, device_open_insert,
           get_idx, get_unique_id, get_idx_insert
  <2> QED
    BY <2>1, <2>3, <2>4, <2>5, <2>6
<1>4. DistinctIdsAccepted => ErrorIn(machine)
  BY <1>1, <1>3 DEF DistinctIdsAccepted, Unraced, ErrorIn
<1> QED
  BY <1>2, <1>4

(* An init fails for its boards only when two carry one id, or one of      *)
(* several carries id 0, as long as lists do not race.                     *)
THEOREM AcceptedTheorem == Spec => []DistinctIdsAccepted
<1>1. Init => DistinctIdsAccepted
  BY DEF Init, DistinctIdsAccepted, NoCall
<1> QED
  BY <1>1, InitTyped, InitGet, StepTyped, StepGet, StepErrors, PTL DEF Spec
-----------------------------------------------------------------------------
(* Clients, table entries and the online counter.                          *)

LEMMA DisciplineFacts ==
  ASSUME Disciplined', breach \subseteq breach'
  PROVE  Disciplined /\ Unraced /\ Unraced'
  BY DEF Disciplined, Unraced

LEMMA CountTo == \A k \in Nat : IsFiniteSet(1 .. k) /\ Cardinality(1 .. k) = k
  BY FS_Interval

(* There are no more boards open than the list has.                        *)
LEMMA CountBoards ==
  ASSUME machine \in ListedMachines, NEW S, S \subseteq Ids
  PROVE  IsFiniteSet(S) /\ Cardinality(S) <= Len(machine) /\ Cardinality(S) \in Nat
<1>1. Len(machine) \in Nat /\ DOMAIN machine = 1 .. Len(machine)
  BY MachineFacts, Sizes
<1>2. IsFiniteSet(DOMAIN machine) /\ Cardinality(DOMAIN machine) = Len(machine)
  BY <1>1, CountTo
<1> DEFINE id == [i \in DOMAIN machine |-> machine[i].board_id]
<1>3. id \in Surjection(DOMAIN machine, Ids)
  BY DEF Surjection, Ids
<1>4. IsFiniteSet(Ids) /\ Cardinality(Ids) <= Cardinality(DOMAIN machine)
  <2> HIDE DEF id
  <2> QED
    BY <1>2, <1>3, FS_Surjection
<1>5. IsFiniteSet(S) /\ Cardinality(S) <= Cardinality(Ids)
  BY <1>4, FS_Subset
<1>6. Cardinality(Ids) \in Nat /\ Cardinality(S) \in Nat
  BY <1>4, <1>5, FS_CardinalityType
<1> QED
  BY <1>1, <1>2, <1>4, <1>5, <1>6

LEMMA ListedCount ==
  ASSUME Typed, Loaded, NEW b \in Ids
  PROVE  available = Len(machine) /\ machine \in ListedMachines /\ available > 0
<1>1. machine \in ListedMachines /\ machine # <<>>
  BY DEF Ids, Typed, ListTyped
<1>2. available = Len(machine) /\ DOMAIN machine = 1 .. Len(machine) /\ Len(machine) \in Nat
  BY <1>1, MachineFacts, Sizes DEF Loaded
<1>3. DOMAIN machine # {}
  BY DEF Ids
<1> QED
  BY <1>1, <1>2, <1>3

LEMMA InitOpen == Init => OpenInv
<1> SUFFICES ASSUME Init PROVE OpenInv
  OBVIOUS
<1>1. OpenBoards = {} /\ \A n \in 1 .. MAX_DEV_HANDLE : handles[n] = NULL
  BY DEF Init, OpenBoards, NoHandles
<1>2. \A t \in Threads : call[t].step # "insert"
  BY DEF Init, NoCall
<1> QED
  BY <1>1, <1>2 DEF OpenInv, HasSlot

LEMMA Open_same ==
  ASSUME OpenInv, breach \subseteq breach', NoneFailing => NoneFailing',
         \A t \in Threads : call'[t].step = "insert" => call[t].step = "insert",
         UNCHANGED <<handles, clients, online, init_check_ok, machine, available>>
  PROVE  OpenInv'
<1> SUFFICES ASSUME Disciplined' PROVE OpenInv'
  BY DEF OpenInv
<1>1. Disciplined
  BY DisciplineFacts
<1>2. OpenBoards' = OpenBoards /\ Ids' = Ids /\ \A b \in BoardIds : HasSlot(b)' <=> HasSlot(b)
  BY DEF OpenBoards, Ids, HasSlot
<1> QED
  BY <1>1, <1>2 DEF OpenInv

(* The tables are wiped only when nobody uses them.                        *)
LEMMA Open_wiped ==
  ASSUME OpenInv, breach \subseteq breach', Disciplined' => OpenBoards = {},
         handles' = NoHandles, clients' = clients,
         Disciplined' => \A t \in Threads : call'[t].step # "insert"
  PROVE  OpenInv'
<1> SUFFICES ASSUME Disciplined' PROVE OpenInv'
  BY DEF OpenInv
<1>1. OpenBoards' = {} /\ \A n \in 1 .. MAX_DEV_HANDLE : handles'[n] = NULL
  BY DEF OpenBoards, NoHandles
<1> QED
  BY <1>1 DEF OpenInv, HasSlot

LEMMA Open_check ==
  ASSUME Typed, OpenInv, NEW t \in Threads, NEW b \in BoardIds, check_boards_info(t, b) PROVE OpenInv'
<1>1. breach \subseteq breach' /\ handles' = NoHandles /\ clients' = clients
  BY DEF check_boards_info
<1>2. ASSUME Disciplined' PROVE OpenBoards = {} /\ \A u \in Threads : call'[u].step # "insert"
  <2>1. Disciplined /\ Unraced'
    BY <1>1, <1>2, DisciplineFacts
  <2>2. ~Overlaps(t)
    BY <2>1, Raced DEF Unraced, check_boards_info
  <2>3. OpenBoards = {}
    BY <2>1 DEF OpenInv, check_boards_info
  <2>4. PICK r, none :
          call' = [call EXCEPT ![t] = [step |-> "checked", board |-> b, ret |-> r, nodev |-> none]]
    BY CheckFacts
  <2>5. call'[t].step = "checked" /\ \A u \in Threads \ {t} : call'[u] = NoCall
    BY <2>2, <2>4 DEF Typed, CallsTyped, Overlaps, Idle
  <2> QED
    BY <2>3, <2>5 DEF NoCall
<1> QED
  BY <1>1, <1>2, Open_wiped

LEMMA Open_free ==
  ASSUME Typed, OpenInv, NEW t \in Threads, free_board_info(t) PROVE OpenInv'
<1>1. breach \subseteq breach' /\ handles' = NoHandles /\ clients' = clients
  BY DEF free_board_info
<1>2. ASSUME Disciplined' PROVE OpenBoards = {} /\ \A u \in Threads : call'[u].step # "insert"
  <2>1. Disciplined /\ Unraced'
    BY <1>1, <1>2, DisciplineFacts
  <2>2. ~Overlaps(t)
    BY <2>1, Raced DEF Unraced, free_board_info
  <2>3. OpenBoards = {}
    BY <2>1 DEF OpenInv, NoneFailing, free_board_info
  <2>4. \A u \in Threads : call'[u] = NoCall
    BY <2>2, CallMade, IdleCall DEF Typed, free_board_info, Overlaps, Idle
  <2> QED
    BY <2>3, <2>4 DEF NoCall
<1> QED
  BY <1>1, <1>2, Open_wiped

(* A call of t that goes on from open(2), with the counter set or left.    *)
LEMMA Open_counted ==
  ASSUME Typed, ListInv, OpenInv, NEW t \in Threads, CanOpen(t), breach' = breach,
         online' \in {online, available + 1},
         \A u \in Threads \ {t} : call'[u] = call[u],
         call'[t].step # "checked", call'[t].step = "insert" => online' = available + 1,
         OpenBoards' = OpenBoards,
         UNCHANGED <<handles, init_check_ok, machine, available>>
  PROVE  OpenInv'
<1> SUFFICES ASSUME Disciplined' PROVE OpenInv'
  BY DEF OpenInv
<1>1. Disciplined /\ Unraced
  BY DisciplineFacts
<1>2. call[t].step # "idle" /\ ~Failing(t)
  BY DEF CanOpen, Failing
<1>3. NoneFailing /\ init_check_ok /\ Loaded
  BY <1>1, <1>2, AloneFacts
<1>4. NoneFailing'
  BY <1>3 DEF NoneFailing, Failing
<1>5. Ids' = Ids /\ \A b \in BoardIds : HasSlot(b)' <=> HasSlot(b)
  BY DEF Ids, HasSlot
<1>6. OpenBoards # {} => online' >= Cardinality(OpenBoards) + 1
  <2> SUFFICES ASSUME OpenBoards # {} PROVE online' >= Cardinality(OpenBoards) + 1
    OBVIOUS
  <2>1. PICK b : b \in OpenBoards /\ b \in Ids
    BY <1>1 DEF OpenInv
  <2>2. available = Len(machine) /\ machine \in ListedMachines
    BY <1>3, <2>1, ListedCount
  <2>3. Cardinality(OpenBoards) <= Len(machine) /\ Cardinality(OpenBoards) \in Nat
    BY <1>1, <2>2, CountBoards DEF OpenInv
  <2>4. online >= Cardinality(OpenBoards) + 1 /\ available \in Nat
    BY <1>1, Sizes DEF OpenInv, Typed, ListTyped
  <2> QED
    BY <2>2, <2>3, <2>4
<1>7. \A u \in Threads : call'[u].step = "insert" => online' = available' + 1
  BY <1>1 DEF OpenInv
<1>8. /\ OpenBoards' \subseteq Ids' /\ (\A b \in BoardIds : b \in OpenBoards' <=> HasSlot(b)')
      /\ \A n \in 1 .. MAX_DEV_HANDLE : handles'[n] # NULL => n <= available'
      /\ \A m, n \in 1 .. MAX_DEV_HANDLE :
           handles'[m] # NULL /\ handles'[n] # NULL /\ handles'[m].board_id = handles'[n].board_id => m = n
  BY <1>1, <1>5 DEF OpenInv
<1> QED
  BY <1>3, <1>4, <1>6, <1>7, <1>8 DEF OpenInv

LEMMA SlotFacts ==
  ASSUME Typed, OpenInv, Disciplined, NEW b \in BoardIds
  PROVE  SlotsOf(b) # {} <=> b \in OpenBoards
<1>1. get_available_board_count = available /\ available \in 0 .. MAX_DEV_HANDLE
  BY CountFacts DEF Typed, ListTyped
<1>2. SlotsOf(b) = {n \in 1 .. MAX_DEV_HANDLE : handles[n] # NULL /\ handles[n].board_id = b}
  BY <1>1, Sizes DEF SlotsOf, OpenInv
<1> QED
  BY <1>2 DEF OpenInv, HasSlot

LEMMA Open_open ==
  ASSUME Typed, ListInv, OpenInv, NEW t \in Threads, device_open(t) PROVE OpenInv'
<1> SUFFICES ASSUME Disciplined' PROVE OpenInv'
  BY DEF OpenInv
<1>1. CanOpen(t) /\ breach' = breach /\ Disciplined
  BY DEF device_open, Disciplined
<1>2. UNCHANGED <<handles, init_check_ok, machine, available>>
  BY DEF device_open, list, tables
<1>3. CASE OpensAgain(t)
  <2>1. call[t].board \in OpenBoards /\ call[t].board \in BoardIds
    <3>1. call[t].board \in BoardIds
      BY OpenFacts, Zenon
    <3> QED
      BY <1>1, <1>3, <3>1, SlotFacts DEF OpensAgain
  <2>2. OpenBoards' = OpenBoards
    BY <1>3, <2>1 DEF OpensAgain, OpenBoards, Typed, CallsTyped
  <2>3. call'[t] = NoCall /\ \A u \in Threads \ {t} : call'[u] = call[u]
    BY <1>3, CallMade, IdleCall DEF OpensAgain, Typed
  <2> QED
    BY <1>1, <1>2, <1>3, <2>2, <2>3, Open_counted DEF OpensAgain, NoCall
<1>4. CASE OpensFirst(t)
  <2>1. call'[t].step = "insert" /\ \A u \in Threads \ {t} : call'[u] = call[u]
    BY <1>4 DEF OpensFirst, Typed, CallsTyped
  <2>2. OpenBoards' = OpenBoards
    BY <1>4 DEF OpensFirst, OpenBoards
  <2> QED
    BY <1>1, <1>2, <1>4, <2>1, <2>2, Open_counted DEF OpensFirst
<1> QED
  BY <1>3, <1>4, OpenFacts, Zenon

LEMMA Open_fails ==
  ASSUME Typed, ListInv, OpenInv, NEW t \in Threads, device_open_fails(t) PROVE OpenInv'
<1>1. CanOpen(t) /\ breach' = breach /\ clients' = clients
  BY DEF device_open_fails
<1>2. UNCHANGED <<handles, init_check_ok, machine, available>>
  BY DEF device_open_fails, list, tables
<1>3. online' \in {online, available + 1}
  BY CountFacts DEF Typed, device_open_fails
<1>4. call'[t] = NoCall /\ \A u \in Threads \ {t} : call'[u] = call[u]
  BY CallMade, IdleCall DEF Typed, device_open_fails
<1>5. OpenBoards' = OpenBoards
  BY <1>1 DEF OpenBoards
<1> QED
  BY <1>1, <1>2, <1>3, <1>4, <1>5, Open_counted DEF NoCall

(* Unless two opened the board at once, an open finds a slot: the slots in *)
(* use are those of the other boards of the list.                          *)
LEMMA InsertFacts ==
  ASSUME Typed, ListInv, OpenInv, NEW t \in Threads, device_open_insert(t), Disciplined'
  PROVE  /\ Disciplined /\ Unraced /\ NoneFailing /\ init_check_ok /\ Loaded
         /\ call[t].step = "insert" /\ call[t].board \in BoardIds /\ call[t].board \in Ids
         /\ call[t].cnt = available /\ available = Len(machine) /\ ~HasSlot(call[t].board)
         /\ FreeSlots(call[t].cnt) # {}
<1> DEFINE b == call[t].board
<1>1. call[t].step = "insert" /\ b \in BoardIds /\ breach \subseteq breach'
  BY CallFacts DEF Typed, device_open_insert
<1>2. Disciplined /\ Unraced
  BY <1>1, DisciplineFacts
<1>3. NoneFailing /\ init_check_ok /\ Loaded
  BY <1>1, <1>2, AloneFacts DEF Failing
<1>4. call[t].cnt = available /\ b \in Ids
  BY <1>1, <1>2 DEF ListInv, Inserting
<1>5. available = Len(machine) /\ machine \in ListedMachines /\ available > 0
  BY <1>3, <1>4, ListedCount
<1>6. SlotsOf(b) = {}
  <2>1. breach' = breach \union Breach("twin", SlotsOf(b) # {})
    BY DEF device_open_insert
  <2>2. SlotsOf(b) # {} => "twin" \in breach'
    BY <2>1 DEF Breach
  <2> QED
    BY <2>2 DEF Disciplined
<1>7. b \notin OpenBoards /\ ~HasSlot(b)
  BY <1>1, <1>2, <1>6, SlotFacts DEF OpenInv
<1> HIDE DEF b
<1>8. FreeSlots(available) # {}
  <2> SUFFICES ASSUME FreeSlots(available) = {} PROVE FALSE
    OBVIOUS
  <2> DEFINE S == 1 .. available
             T == Ids \ {b}
             f == [n \in S |-> handles[n].board_id]
  <2>1. available \in Nat /\ S \subseteq 1 .. MAX_DEV_HANDLE /\ \A n \in S : handles[n] # NULL
    BY Sizes DEF FreeSlots, Typed, ListTyped
  <2>2. IsFiniteSet(S) /\ Cardinality(S) = available
    BY <2>1, CountTo
  <2>3. IsFiniteSet(T) /\ Cardinality(T) < Cardinality(S)
    <3>1. IsFiniteSet(Ids) /\ Cardinality(Ids) <= Len(machine) /\ Cardinality(Ids) \in Nat
      BY <1>5, CountBoards
    <3>2. IsFiniteSet(T) /\ Cardinality(T) = Cardinality(Ids) - 1
      BY <1>4, <3>1, FS_RemoveElement
    <3> QED
      BY <1>5, <2>2, <3>1, <3>2
  <2>4. ASSUME NEW n \in S PROVE handles[n].board_id \in T
    <3>1. n \in 1 .. MAX_DEV_HANDLE /\ handles[n] # NULL
      BY <2>1
    <3>2. handles[n] \in Handle
      BY <3>1 DEF Typed, TablesTyped
    <3>3. handles[n].board_id \in BoardIds /\ HasSlot(handles[n].board_id)
      BY <3>1, <3>2 DEF Handle, HasSlot
    <3>4. handles[n].board_id \in OpenBoards
      BY <1>2, <3>3 DEF OpenInv
    <3> QED
      BY <1>2, <1>7, <3>4 DEF OpenInv
  <2>5. f \in [S -> T]
    BY <2>4
  <2>6. PICK m \in S, n \in S : m # n /\ f[m] = f[n]
    <3> HIDE DEF S, T, f
    <3> QED
      BY <2>2, <2>3, <2>5, FS_PigeonHole
  <2>7. handles[m].board_id = handles[n].board_id /\ handles[m] # NULL /\ handles[n] # NULL
    BY <2>1, <2>6
  <2> QED
    BY <1>2, <2>1, <2>6, <2>7 DEF OpenInv
<1> QED
  BY <1>1, <1>2, <1>3, <1>4, <1>5, <1>7, <1>8 DEF b

(* What the compare-and-swap leaves.                                       *)
LEMMA Inserted ==
  ASSUME Typed, ListInv, OpenInv, NEW t \in Threads, device_open_insert(t), Disciplined'
  PROVE  \E n \in 1 .. MAX_DEV_HANDLE :
           /\ n <= available /\ handles[n] = NULL /\ handles'[n] # NULL
           /\ handles'[n].board_id = call[t].board /\ handles'[n].dev_handle = call[t].fd
           /\ \A m \in 1 .. MAX_DEV_HANDLE \ {n} : handles'[m] = handles[m]
<1> DEFINE n == Min(FreeSlots(call[t].cnt))
           h == [board_id |-> call[t].board, dev_handle |-> call[t].fd]
<1>1. FreeSlots(call[t].cnt) # {} /\ call[t].step = "insert" /\ call[t].cnt = available
  BY InsertFacts
<1>2. n \in 1 .. MAX_DEV_HANDLE /\ n <= available /\ handles[n] = NULL
  BY <1>1, FreeFacts
<1>3. handles' = [handles EXCEPT ![n] = h]
  BY <1>1 DEF device_open_insert
<1>4. h \in [board_id : BoardIds, dev_handle : Nat]
  BY <1>1, CallFacts, Sizes DEF Typed
<1>5. h # NULL /\ h.board_id = call[t].board /\ h.dev_handle = call[t].fd
  BY <1>4, NullAssumption
<1> HIDE DEF n, h
<1>6. handles'[n] = h /\ \A m \in 1 .. MAX_DEV_HANDLE \ {n} : handles'[m] = handles[m]
  BY <1>2, <1>3 DEF Typed, TablesTyped
<1> QED
  BY <1>2, <1>5, <1>6

LEMMA Open_insert ==
  ASSUME Typed, ListInv, OpenInv, NEW t \in Threads, device_open_insert(t) PROVE OpenInv'
<1> SUFFICES ASSUME Disciplined' PROVE OpenInv'
  BY DEF OpenInv
<1> DEFINE b == call[t].board
<1>1. /\ Disciplined /\ NoneFailing /\ init_check_ok /\ call[t].step = "insert" /\ b \in BoardIds
      /\ b \in Ids /\ available = Len(machine) /\ ~HasSlot(b)
  BY InsertFacts
<1>2. PICK n \in 1 .. MAX_DEV_HANDLE :
        /\ n <= available /\ handles[n] = NULL /\ handles'[n] # NULL /\ handles'[n].board_id = b
        /\ \A m \in 1 .. MAX_DEV_HANDLE \ {n} : handles'[m] = handles[m]
  BY Inserted
<1>3. /\ clients' = [clients EXCEPT ![b] = @ + 1] /\ online' = online /\ init_check_ok' = init_check_ok
      /\ machine' = machine /\ available' = available
  BY DEF device_open_insert, list
<1>4. call'[t] = NoCall /\ \A u \in Threads \ {t} : call'[u] = call[u]
  BY CallMade, IdleCall DEF Typed, device_open_insert
<1> HIDE DEF b
<1>5. OpenBoards' = OpenBoards \union {b}
  BY <1>1, <1>3 DEF OpenBoards, Typed, CallsTyped
<1>6. NoneFailing'
  BY <1>1, <1>4 DEF NoneFailing, Failing, NoCall
<1>7. OpenBoards' \subseteq Ids' /\ Ids' = Ids
  BY <1>1, <1>3, <1>5 DEF OpenInv, Ids
<1>8. \A c \in BoardIds : HasSlot(c)' <=> HasSlot(c) \/ c = b
  BY <1>2 DEF HasSlot
<1>9. \A c \in BoardIds : c \in OpenBoards' <=> HasSlot(c)'
  BY <1>1, <1>5, <1>8 DEF OpenInv
<1>10. ASSUME NEW k \in 1 .. MAX_DEV_HANDLE, NEW m \in 1 .. MAX_DEV_HANDLE, handles'[k] # NULL,
              handles'[m] # NULL, handles'[k].board_id = handles'[m].board_id
       PROVE  k = m
  <2>1. CASE k = n \/ m = n
    BY <1>1, <1>2, <1>10, <2>1 DEF HasSlot
  <2>2. CASE k # n /\ m # n
    BY <1>1, <1>2, <1>10, <2>2 DEF OpenInv
  <2> QED
    BY <2>1, <2>2
<1>11. \A m \in 1 .. MAX_DEV_HANDLE : handles'[m] # NULL => m <= available'
  BY <1>1, <1>2, <1>3 DEF OpenInv
<1>12. online' >= Cardinality(OpenBoards') + 1
  <2>1. online = available + 1
    BY <1>1 DEF OpenInv
  <2>2. Cardinality(OpenBoards') <= Len(machine) /\ Cardinality(OpenBoards') \in Nat
    BY <1>7, CountBoards DEF Typed, ListTyped
  <2>3. available \in Nat
    BY Sizes DEF Typed, ListTyped
  <2> QED
    BY <1>1, <1>3, <2>1, <2>2, <2>3
<1>13. \A u \in Threads : call'[u].step = "insert" => online' = available' + 1
  BY <1>1, <1>3, <1>4 DEF OpenInv, NoCall
<1> QED
  BY <1>1, <1>3, <1>6, <1>7, <1>9, <1>10, <1>11, <1>12, <1>13 DEF OpenInv

(* A close that matches its init never takes the list away.                *)
LEMMA CloseEven ==
  ASSUME Typed, ListInv, OpenInv, NEW t \in Threads, NEW b \in BoardIds, device_close(t, b), Disciplined'
  PROVE  /\ Disciplined /\ ClosesOne(b) /\ online # 1 /\ clients[b] = 1 /\ b \in OpenBoards
         /\ call' = call /\ machine' = machine /\ \A u \in Threads : call[u] = NoCall
<1>1. breach \subseteq breach' /\ (clients[b] # 1 => "uneven" \in breach') /\ machine' = machine
  BY BreachFacts DEF device_close
<1>2. Disciplined /\ Unraced' /\ clients[b] = 1
  BY <1>1, DisciplineFacts DEF Disciplined
<1>3. Unraced /\ call' = call /\ \A u \in Threads : call[u] = NoCall
  BY <1>2, CloseAlone
<1>4. b \in OpenBoards /\ b \in Ids
  BY <1>2 DEF OpenBoards, OpenInv
<1>5. Loaded
  BY <1>2, <1>3, <1>4 DEF OpenInv, ListInv
<1>6. available > 0 /\ available \in Nat /\ online \in Nat
  BY <1>4, <1>5, ListedCount, Sizes DEF Typed, ListTyped
<1>7. IsFiniteSet(OpenBoards) /\ Cardinality(OpenBoards) \in Nat
  BY <1>2, CountBoards DEF OpenInv, Typed, ListTyped
<1>8. Cardinality(OpenBoards) # 0
  BY <1>4, <1>7, FS_EmptySet
<1>9. online >= Cardinality(OpenBoards) + 1
  BY <1>2, <1>4 DEF OpenInv
<1>10. online > 1
  BY <1>6, <1>7, <1>8, <1>9
<1>11. ClosesOne(b)
  <2>1. ClosesAll \/ ClosesOne(b)
    BY CloseFacts DEF Typed
  <2>2. ~ClosesAll
    BY <1>6, <1>10 DEF ClosesAll
  <2> QED
    BY <2>1, <2>2
<1> QED
  BY <1>1, <1>2, <1>3, <1>4, <1>6, <1>10, <1>11

LEMMA Open_close ==
  ASSUME Typed, ListInv, OpenInv, NEW t \in Threads, NEW b \in BoardIds, device_close(t, b) PROVE OpenInv'
<1> SUFFICES ASSUME Disciplined' PROVE OpenInv'
  BY DEF OpenInv
<1>1. /\ Disciplined /\ ClosesOne(b) /\ online # 1 /\ clients[b] = 1 /\ b \in OpenBoards
      /\ call' = call /\ machine' = machine /\ \A u \in Threads : call[u] = NoCall
  BY CloseEven
<1>2. /\ online' = online - 1 /\ available' = available /\ init_check_ok' = init_check_ok
      /\ handles' = [n \in DOMAIN handles |-> IF n \in Gone(b) THEN NULL ELSE handles[n]]
  BY <1>1 DEF ClosesOne
<1>3. OpenBoards' = OpenBoards \ {b}
  <2>1. clients' = [clients EXCEPT ![b] = IF @ = 0 THEN 0 ELSE @ - 1]
    BY DEF device_close
  <2>2. clients'[b] = 0 /\ \A c \in BoardIds \ {b} : clients'[c] = clients[c]
    BY <1>1, <2>1 DEF Typed, CallsTyped
  <2> QED
    BY <2>2 DEF OpenBoards
<1>4. \A n \in 1 .. MAX_DEV_HANDLE :
        handles'[n] = IF handles[n] # NULL /\ handles[n].board_id = b THEN NULL ELSE handles[n]
  BY <1>2 DEF Gone, Typed, TablesTyped
<1>5. \A c \in BoardIds : HasSlot(c)' <=> HasSlot(c) /\ c # b
  BY <1>4 DEF HasSlot
<1>6. NoneFailing' /\ \A u \in Threads : call'[u].step # "insert"
  BY <1>1 DEF NoneFailing, Failing, NoCall
<1>7. online' >= Cardinality(OpenBoards') + 1
  <2>1. IsFiniteSet(OpenBoards) /\ Cardinality(OpenBoards) \in Nat
    BY <1>1, CountBoards DEF OpenInv, Typed, ListTyped
  <2>2. Cardinality(OpenBoards') = Cardinality(OpenBoards) - 1
    BY <1>1, <1>3, <2>1, FS_RemoveElement
  <2>3. online >= Cardinality(OpenBoards) + 1 /\ online \in Nat
    BY <1>1, Sizes DEF OpenInv, Typed, ListTyped
  <2> QED
    BY <1>2, <2>1, <2>2, <2>3
<1>8. OpenBoards' \subseteq Ids' /\ init_check_ok'
  BY <1>1, <1>2, <1>3 DEF OpenInv, Ids
<1>9. \A c \in BoardIds : c \in OpenBoards' <=> HasSlot(c)'
  BY <1>1, <1>3, <1>5 DEF OpenInv
<1>10. \A k, m \in 1 .. MAX_DEV_HANDLE :
         handles'[k] # NULL /\ handles'[m] # NULL /\ handles'[k].board_id = handles'[m].board_id => k = m
  BY <1>1, <1>4 DEF OpenInv
<1>11. \A m \in 1 .. MAX_DEV_HANDLE : handles'[m] # NULL => m <= available'
  BY <1>1, <1>2, <1>4 DEF OpenInv
<1> QED
  BY <1>6, <1>7, <1>8, <1>9, <1>10, <1>11 DEF OpenInv

LEMMA StepOpen == Typed /\ ListInv /\ OpenInv /\ [Next]_vars => OpenInv'
<1> SUFFICES ASSUME Typed, ListInv, OpenInv, [Next]_vars PROVE OpenInv'
  OBVIOUS
<1>1. breach \subseteq breach'
  BY Keeps
<1>2. CASE UNCHANGED <<handles, clients, online, init_check_ok, machine, available, call>>
  BY <1>1, <1>2, Open_same DEF NoneFailing, Failing
<1>3. ASSUME NEW t \in Threads, NEW b \in BoardIds, check_boards_info_again(t, b) PROVE OpenInv'
  <2>1. /\ call'[t] = [step |-> "checked", board |-> b, ret |-> 0, nodev |-> FALSE]
        /\ \A u \in Threads \ {t} : call'[u] = call[u]
    BY <1>3 DEF Typed, CallsTyped, check_boards_info_again
  <2>2. call'[t].step = "checked" /\ call'[t].ret = 0
    BY <2>1
  <2>3. UNCHANGED <<handles, clients, online, init_check_ok, machine, available>>
    BY <1>3 DEF check_boards_info_again, list, tables
  <2>4. NoneFailing => NoneFailing'
    BY <2>1, <2>2 DEF NoneFailing, Failing
  <2>5. \A u \in Threads : call'[u].step = "insert" => call[u].step = "insert"
    BY <2>1, <2>2
  <2> QED
    BY <1>1, <2>3, <2>4, <2>5, Open_same
<1>4. \/ UNCHANGED <<handles, clients, online, init_check_ok, machine, available, call>>
      \/ \E t \in Threads, b \in BoardIds : \/ check_boards_info(t, b) \/ check_boards_info_again(t, b)
                                            \/ device_close(t, b)
      \/ \E t \in Threads : \/ free_board_info(t) \/ device_open_fails(t) \/ device_open(t)
                            \/ device_open_insert(t)
  BY DEF Next, vars, list, tables, get_idx, get_unique_id, get_idx_insert
<1> QED
  BY <1>2, <1>3, <1>4, Open_check, Open_free, Open_fails, Open_open, Open_insert, Open_close

(* No client works on a machine in which two boards carry one id: the check*)
(* finds them, and no close that matches its init brings on a new one.     *)
THEOREM DuplicateTheorem == Spec => []DuplicatesRefused
<1>1. Typed /\ ListInv /\ OpenInv => DuplicatesRefused
  <2> SUFFICES ASSUME ListInv, OpenInv, Disciplined, NEW b \in BoardIds, clients[b] > 0
               PROVE  ~Twice(machine)
    BY DEF DuplicatesRefused
  <2>1. Unraced /\ init_check_ok /\ NoneFailing
    BY DEF OpenInv, OpenBoards, Disciplined, Unraced
  <2> QED
    BY <2>1 DEF ListInv, Loaded
<1> QED
  BY <1>1, InitOpen, InitList, InitTyped, InitGet, StepTyped, StepGet, StepList, StepOpen, PTL DEF Spec
-----------------------------------------------------------------------------
(* Descriptors.                                                            *)

(* The library scans the instance of a board in hex.  Up to ten boards, of *)
(* instances 0 to 9, it tells them apart.                                  *)
LEMMA TenBoardsTold ==
  ASSUME NEW m \in Machines, \A i \in DOMAIN m : m[i].board_inst < 10,
         \A i, j \in DOMAIN m : m[i].board_inst = m[j].board_inst => i = j
  PROVE  NodesTold(m)
<1> SUFFICES ASSUME NEW i \in DOMAIN m, NEW j \in DOMAIN m,
                    ScanHex(DecimalDigits(m[i].board_inst)) = m[j].board_inst
             PROVE  i = j
  BY DEF NodesTold
<1>1. m[i].board_inst \in 0 .. 127 /\ m[i].board_inst < 10
  BY MachineFacts DEF ListedMachines
<1>2. m[i].board_inst \in 0 .. 9
  BY <1>1
<1>3. ScanHex(DecimalDigits(m[i].board_inst)) = m[i].board_inst
  BY <1>2, ScanInst
<1> QED
  BY <1>3

Told == \A m \in Machines : NodesTold(m)

(* open(2) of the node of a board opens that board.                        *)
LEMMA BehindFacts ==
  ASSUME Told, Typed, Loaded, NEW b \in BoardIds, NEW i \in Behind(b)
  PROVE  machine[i].board_id = b
<1>1. Entries(b) # {} /\ i \in DOMAIN machine /\ machine[i].board_inst = get_board_instance(b)
  BY DEF Behind
<1> DEFINE k == Min(Entries(b))
<1>2. k \in Entries(b)
  <2>1. Entries(b) \in SUBSET Nat
    BY Sizes DEF Entries, Typed, ListTyped
  <2> QED
    BY <1>1, <2>1, MinIn
<1>3. machine \in ListedMachines /\ board_info = extractValue(mapping_show(machine))
  BY DEF Typed, ListTyped, Loaded
<1>4. k \in DOMAIN machine /\ machine[k].board_id = b /\ EntryAt(board_info, k) = board_info[k]
  BY <1>2, <1>3, EntryFacts DEF Typed, ListTyped
<1>5. get_board_instance(b) = board_info[k].board_inst
  BY <1>4 DEF get_board_instance
<1> HIDE DEF k
<1>6. board_info[k].board_inst = ScanHex(DecimalDigits(machine[k].board_inst))
  BY <1>3, <1>4, InfoFacts
<1>7. NodesTold(machine)
  BY <1>3 DEF Told, ListedMachines, NodesTold
<1>8. k = i
  BY <1>1, <1>4, <1>5, <1>6, <1>7 DEF NodesTold
<1> QED
  BY <1>4, <1>8

LEMMA FiniteFacts ==
  ASSUME Typed, NEW b
  PROVE  IsFiniteSet(FdsOf(b)) /\ IsFiniteSet(Opening(b)) /\ Cardinality(Opening(b)) \in Nat
<1>1. IsFiniteSet(fds) /\ FdsOf(b) \in SUBSET fds
  BY DEF Typed, FdsTyped, FdsOf
<1>2. IsFiniteSet(Threads) /\ Opening(b) \in SUBSET Threads
  BY RegistryAssumption DEF Opening
<1>3. IsFiniteSet(FdsOf(b)) /\ IsFiniteSet(Opening(b))
  BY <1>1, <1>2, FS_Subset
<1> QED
  BY <1>3, FS_CardinalityType

LEMMA EachBoard ==
  ASSUME NEW b \in BoardIds, Counted(b)', \A c \in BoardIds \ {b} : Counted(c)'
  PROVE  \A c \in BoardIds : Counted(c)'
  BY Zenon

LEMMA InitFd == Init => FdInv
<1> SUFFICES ASSUME Init PROVE FdInv
  OBVIOUS
<1>1. \A n \in 1 .. MAX_DEV_HANDLE : handles[n] = NULL
  BY DEF Init, NoHandles
<1>2. \A t \in Threads : call[t].step # "insert"
  BY DEF Init, NoCall
<1>3. \A b \in BoardIds : FdsOf(b) = {} /\ Opening(b) = {} /\ clients[b] = 0
  BY <1>2 DEF Init, FdsOf, Opening
<1>4. Cardinality({}) = 0
  BY FS_EmptySet
<1> QED
  BY <1>1, <1>2, <1>3, <1>4 DEF FdInv, Counted

(* Steps that open and close nothing.                                      *)
LEMMA Fd_quiet ==
  ASSUME FdInv, breach \subseteq breach', fds' = fds, clients' = clients,
         handles' = handles \/ handles' = NoHandles,
         \A u \in Threads : call'[u] = call[u] \/ (call'[u].step # "insert" /\ call[u].step # "insert")
  PROVE  FdInv'
<1> SUFFICES ASSUME Disciplined' PROVE FdInv'
  BY DEF FdInv
<1>1. Disciplined
  BY DisciplineFacts
<1>2. \A b \in BoardIds : Counted(b)' <=> Counted(b)
  <2>1. \A b \in BoardIds : FdsOf(b)' = FdsOf(b) /\ Opening(b)' = Opening(b)
    BY DEF FdsOf, Opening
  <2> QED
    BY <2>1 DEF Counted
<1>3. \A n \in 1 .. MAX_DEV_HANDLE : handles'[n] # NULL => handles'[n] = handles[n]
  BY DEF NoHandles
<1>4. \A t \in Threads : call'[t].step = "insert" => call'[t] = call[t]
  OBVIOUS
<1> QED
  BY <1>1, <1>2, <1>3, <1>4 DEF FdInv

LEMMA Fd_open ==
  ASSUME Told, Typed, ListInv, FdInv, NEW t \in Threads, device_open(t) PROVE FdInv'
<1> SUFFICES ASSUME Disciplined' PROVE FdInv'
  BY DEF FdInv
<1>1. PICK b \in BoardIds : b = call[t].board
  BY OpenFacts
<1>2. Disciplined /\ Unraced /\ call[t].step = "checked" /\ ~Failing(t) /\ handles' = handles
  BY DEF device_open, Disciplined, Unraced, CanOpen, Failing, tables
<1>3. Loaded
  BY <1>2, AloneFacts
<1>4. NewFd \in 1 .. MaxFds /\ (\A f \in fds : f[1] # NewFd)
  BY OpenFacts, Zenon
<1>5. PICK new : new = <<NewFd, b>>
  OBVIOUS
<1>6. fds' = fds \union {new}
  <2>1. PICK i \in Behind(b) : fds' = fds \union {<<NewFd, machine[i].board_id>>}
    BY <1>1, OpenFacts, Zenon
  <2>2. machine[i].board_id = b
    BY <1>1, <1>3, <2>1, BehindFacts
  <2> QED
    BY <1>5, <2>1, <2>2
<1>7. new \notin fds /\ new[2] = b
  BY <1>4, <1>5
<1>8. OpensAgain(t) \/ OpensFirst(t)
  BY OpenFacts, Zenon
<1>9. t \notin Opening(b) /\ clients \in [BoardIds -> Nat]
  BY <1>2 DEF Opening, Typed, CallsTyped
<1>10. /\ FdsOf(b)' = FdsOf(b) \union {new} /\ new \notin FdsOf(b)
       /\ \A c \in BoardIds \ {b} : FdsOf(c)' = FdsOf(c)
  BY <1>6, <1>7 DEF FdsOf
<1>11. Cardinality(FdsOf(b)') = Cardinality(FdsOf(b)) + 1
  BY <1>10, FiniteFacts, FS_AddElement
<1>12. \A n \in 1 .. MAX_DEV_HANDLE :
         handles'[n] # NULL => <<handles'[n].dev_handle, handles'[n].board_id>> \in fds'
  BY <1>2, <1>6 DEF FdInv
<1>13. \A c \in BoardIds : Counted(c) /\ clients[c] \in Nat /\ Cardinality(Opening(c)) \in Nat
  BY <1>2, <1>9, FiniteFacts DEF FdInv
<1>14. CASE OpensAgain(t)
  <2>1. call'[t] = NoCall /\ \A u \in Threads \ {t} : call'[u] = call[u]
    BY <1>14, CallMade, IdleCall DEF OpensAgain, Typed
  <2>2. \A c \in BoardIds : Opening(c)' = Opening(c)
    BY <1>2, <2>1 DEF Opening, NoCall
  <2>3. clients'[b] = clients[b] + 1 /\ \A c \in BoardIds \ {b} : clients'[c] = clients[c]
    BY <1>1, <1>9, <1>14 DEF OpensAgain
  <2>4. \A u \in Threads : call'[u].step = "insert" => <<call'[u].fd, call'[u].board>> \in fds'
    BY <1>2, <1>6, <2>1 DEF FdInv, NoCall
  <2>5. Counted(b)'
    BY <1>11, <1>13, <2>2, <2>3 DEF Counted
  <2>6. \A c \in BoardIds \ {b} : Counted(c)'
    BY <1>10, <1>13, <2>2, <2>3 DEF Counted
  <2> QED
    BY <1>12, <2>4, <2>5, <2>6, EachBoard DEF FdInv
<1>15. CASE OpensFirst(t)
  <2>1. /\ call'[t].step = "insert" /\ call'[t].board = b /\ call'[t].fd = NewFd
        /\ \A u \in Threads \ {t} : call'[u] = call[u]
    BY <1>1, <1>15 DEF OpensFirst, Typed, CallsTyped
  <2>2. Opening(b)' = Opening(b) \union {t} /\ \A c \in BoardIds \ {b} : Opening(c)' = Opening(c)
    BY <1>2, <2>1 DEF Opening
  <2>3. Cardinality(Opening(b)') = Cardinality(Opening(b)) + 1
    BY <1>9, <2>2, FiniteFacts, FS_AddElement
  <2>4. \A u \in Threads : call'[u].step = "insert" => <<call'[u].fd, call'[u].board>> \in fds'
    BY <1>2, <1>5, <1>6, <2>1 DEF FdInv
  <2>5. Counted(b)'
    BY <1>11, <1>15, <1>13, <2>3 DEF Counted, OpensFirst
  <2>6. \A c \in BoardIds \ {b} : Counted(c)'
    BY <1>10, <1>15, <1>13, <2>2 DEF Counted, OpensFirst
  <2> QED
    BY <1>12, <2>4, <2>5, <2>6, EachBoard DEF FdInv
<1> QED
  BY <1>8, <1>14, <1>15

LEMMA Fd_insert ==
  ASSUME Typed, ListInv, OpenInv, FdInv, NEW t \in Threads, device_open_insert(t) PROVE FdInv'
<1> SUFFICES ASSUME Disciplined' PROVE FdInv'
  BY DEF FdInv
<1>1. PICK b \in BoardIds : b = call[t].board
  BY InsertFacts
<1>2. Disciplined /\ call[t].step = "insert" /\ fds' = fds
  BY InsertFacts DEF device_open_insert
<1>3. <<call[t].fd, b>> \in fds
  BY <1>1, <1>2 DEF FdInv
<1>4. PICK n \in 1 .. MAX_DEV_HANDLE :
        /\ handles'[n].board_id = b /\ handles'[n].dev_handle = call[t].fd
        /\ \A m \in 1 .. MAX_DEV_HANDLE \ {n} : handles'[m] = handles[m]
  BY <1>1, Inserted
<1>5. \A m \in 1 .. MAX_DEV_HANDLE :
        handles'[m] # NULL => <<handles'[m].dev_handle, handles'[m].board_id>> \in fds'
  BY <1>2, <1>3, <1>4 DEF FdInv
<1>6. call'[t] = NoCall /\ \A u \in Threads \ {t} : call'[u] = call[u]
  BY CallMade, IdleCall DEF Typed, device_open_insert
<1>7. \A u \in Threads : call'[u].step = "insert" => <<call'[u].fd, call'[u].board>> \in fds'
  BY <1>2, <1>6 DEF FdInv, NoCall
<1>8. t \in Opening(b) /\ Opening(b)' = Opening(b) \ {t} /\ \A c \in BoardIds \ {b} : Opening(c)' = Opening(c)
  BY <1>1, <1>2, <1>6 DEF Opening, NoCall
<1>9. Cardinality(Opening(b)') = Cardinality(Opening(b)) - 1
  BY <1>8, FiniteFacts, FS_RemoveElement
<1>10. clients'[b] = clients[b] + 1 /\ \A c \in BoardIds \ {b} : clients'[c] = clients[c]
  BY <1>1 DEF device_open_insert, Typed, CallsTyped
<1>11. \A c \in BoardIds : /\ Counted(c) /\ clients[c] \in Nat /\ Cardinality(Opening(c)) \in Nat
                           /\ FdsOf(c)' = FdsOf(c)
  BY <1>2, FiniteFacts DEF FdInv, Typed, CallsTyped, FdsOf
<1>12. Counted(b)'
  BY <1>9, <1>10, <1>11 DEF Counted
<1>13. \A c \in BoardIds \ {b} : Counted(c)'
  BY <1>8, <1>10, <1>11 DEF Counted
<1> QED
  BY <1>5, <1>7, <1>12, <1>13, EachBoard DEF FdInv

LEMMA Fd_close ==
  ASSUME Typed, ListInv, OpenInv, FdInv, NEW t \in Threads, NEW b \in BoardIds, device_close(t, b)
  PROVE  FdInv'
<1> SUFFICES ASSUME Disciplined' PROVE FdInv'
  BY DEF FdInv
<1>1. /\ Disciplined /\ ClosesOne(b) /\ clients[b] = 1 /\ b \in OpenBoards
      /\ call' = call /\ \A u \in Threads : call[u] = NoCall
  BY CloseEven
<1>2. PICK n \in 1 .. MAX_DEV_HANDLE : handles[n] # NULL /\ handles[n].board_id = b
  BY <1>1 DEF OpenInv, HasSlot
<1>3. Gone(b) = {n}
  BY <1>1, <1>2 DEF Gone, OpenInv, Typed, TablesTyped
<1>4. PICK h : h = handles[n].dev_handle
  OBVIOUS
<1>5. fds' = {f \in fds : f[1] # h}
  BY <1>1, <1>3, <1>4 DEF ClosesOne
<1>6. <<h, b>> \in fds /\ <<h, b>>[1] = h /\ <<h, b>>[2] = b
  BY <1>1, <1>2, <1>4 DEF FdInv
<1>7. PICK old : old = <<h, b>> /\ old \in fds /\ old[1] = h /\ old[2] = b
  BY <1>6, Zenon
<1>8. fds' = fds \ {old}
  <2>1. \A f \in fds : f[1] = h <=> f = old
    BY <1>7 DEF Typed, FdsTyped
  <2> QED
    BY <1>5, <2>1
<1>9. FdsOf(b)' = FdsOf(b) \ {old} /\ old \in FdsOf(b) /\ \A c \in BoardIds \ {b} : FdsOf(c)' = FdsOf(c)
  BY <1>7, <1>8 DEF FdsOf
<1>10. Cardinality(FdsOf(b)') = Cardinality(FdsOf(b)) - 1
  BY <1>9, FiniteFacts, FS_RemoveElement
<1>11. \A c \in BoardIds : Opening(c) = {} /\ Opening(c)' = {}
  BY <1>1 DEF Opening, NoCall
<1>12. clients'[b] = 0 /\ \A c \in BoardIds \ {b} : clients'[c] = clients[c]
  BY <1>1 DEF device_close, Typed, CallsTyped
<1>13. \A c \in BoardIds : Counted(c)'
  <2>1. \A c \in BoardIds : Counted(c) /\ clients[c] \in Nat
    BY <1>1 DEF FdInv, Typed, CallsTyped
  <2>2. Cardinality({}) = 0
    BY FS_EmptySet
  <2>3. \A c \in BoardIds : Cardinality(Opening(c)) = 0 /\ Cardinality(Opening(c)') = 0
    BY <1>11, <2>2
  <2>4. Counted(b)'
    BY <1>1, <1>10, <1>12, <2>1, <2>3 DEF Counted
  <2>5. \A c \in BoardIds \ {b} : Counted(c)'
    BY <1>9, <1>12, <2>1, <2>3 DEF Counted
  <2> QED
    BY <2>4, <2>5, EachBoard
<1>14. ASSUME NEW m \in 1 .. MAX_DEV_HANDLE, handles'[m] # NULL
       PROVE  <<handles'[m].dev_handle, handles'[m].board_id>> \in fds'
  <2>1. m \notin Gone(b) /\ handles'[m] = handles[m]
    BY <1>1, <1>14 DEF ClosesOne, Typed, TablesTyped
  <2>2. handles[m].board_id # b /\ handles[m] # NULL
    BY <1>14, <2>1 DEF Gone, Typed, TablesTyped
  <2>3. <<handles[m].dev_handle, handles[m].board_id>> \in fds
    BY <1>1, <2>2 DEF FdInv
  <2>4. <<handles[m].dev_handle, handles[m].board_id>> # old
    BY <1>7, <2>2
  <2> QED
    BY <1>8, <2>1, <2>3, <2>4
<1>15. \A u \in Threads : call'[u].step # "insert"
  BY <1>1 DEF NoCall
<1> QED
  BY <1>13, <1>14, <1>15 DEF FdInv

LEMMA StepFd == Told /\ Typed /\ ListInv /\ OpenInv /\ FdInv /\ [Next]_vars => FdInv'
<1> SUFFICES ASSUME Told, Typed, ListInv, OpenInv, FdInv, [Next]_vars PROVE FdInv'
  OBVIOUS
<1>1. breach \subseteq breach'
  BY Keeps
<1>2. CASE UNCHANGED <<handles, clients, fds, call>>
  BY <1>1, <1>2, Fd_quiet
<1>3. ASSUME NEW t \in Threads, NEW b \in BoardIds,
             check_boards_info(t, b) \/ check_boards_info_again(t, b)
      PROVE  FdInv'
  <2>1. PICK r, none :
          call' = [call EXCEPT ![t] = [step |-> "checked", board |-> b, ret |-> r, nodev |-> none]]
    BY <1>3, CheckFacts DEF check_boards_info_again
  <2>2. call'[t].step = "checked" /\ \A u \in Threads \ {t} : call'[u] = call[u]
    BY <2>1 DEF Typed, CallsTyped
  <2>3. call[t].step # "insert"
    <3>1. Idle(t)
      BY <1>3 DEF check_boards_info, check_boards_info_again, AtRest
    <3> QED
      BY <3>1 DEF Idle, NoCall
  <2>4. UNCHANGED <<clients, fds>> /\ (handles' = handles \/ handles' = NoHandles)
    BY <1>3 DEF check_boards_info, check_boards_info_again, tables
  <2> QED
    BY <1>1, <2>2, <2>3, <2>4, Fd_quiet
<1>4. ASSUME NEW t \in Threads, free_board_info(t) \/ device_open_fails(t) PROVE FdInv'
  <2>1. call' = [call EXCEPT ![t] = NoCall] /\ call[t].step = "checked"
    BY <1>4 DEF free_board_info, device_open_fails, Failing, CanOpen
  <2>2. call'[t] = NoCall /\ \A u \in Threads \ {t} : call'[u] = call[u]
    BY <2>1, CallMade, IdleCall DEF Typed
  <2>3. UNCHANGED <<clients, fds>> /\ (handles' = handles \/ handles' = NoHandles)
    BY <1>4 DEF free_board_info, device_open_fails, tables
  <2> QED
    BY <1>1, <2>1, <2>2, <2>3, Fd_quiet DEF NoCall
<1>5. \/ UNCHANGED <<handles, clients, fds, call>>
      \/ \E t \in Threads, b \in BoardIds : \/ check_boards_info(t, b) \/ check_boards_info_again(t, b)
                                            \/ device_close(t, b)
      \/ \E t \in Threads : \/ free_board_info(t) \/ device_open_fails(t) \/ device_open(t)
                            \/ device_open_insert(t)
  BY DEF Next, vars, list, tables, get_idx, get_unique_id, get_idx_insert
<1> QED
  BY <1>2, <1>3, <1>4, <1>5, Fd_open, Fd_insert, Fd_close

RegInv == Typed /\ GetTyped /\ ListInv /\ OpenInv /\ FdInv

LEMMA RegAlways == ASSUME Told PROVE Spec => []RegInv
<1>1. Init => RegInv
  BY InitTyped, InitGet, InitList, InitOpen, InitFd DEF RegInv
<1>2. RegInv /\ [Next]_vars => RegInv'
  BY StepTyped, StepGet, StepList, StepOpen, StepFd DEF RegInv
<1> QED
  BY <1>1, <1>2, PTL DEF Spec

(* On machines whose device nodes the scan tells apart, as it does up to   *)
(* ten boards of instances 0 to 9 (TenBoardsTold), a client whose init     *)
(* succeeded finds exactly one handle, open on its own board, whatever     *)
(* other threads open, fail to open and close.                             *)
THEOREM HandleTheorem == ASSUME Told PROVE Spec => []HandleForClient
<1>1. RegInv => HandleForClient
  <2> SUFFICES ASSUME RegInv, Disciplined, NEW b \in BoardIds, clients[b] > 0
               PROVE  \E h \in get_dev_handle(b) :
                        get_dev_handle(b) = {h} /\ <<h.dev_handle, b>> \in fds
    BY DEF HandleForClient
  <2>1. PICK n \in SlotsOf(b) : TRUE
    BY SlotFacts DEF RegInv, OpenBoards
  <2>2. SlotsOf(b) \subseteq {m \in 1 .. MAX_DEV_HANDLE : handles[m] # NULL /\ handles[m].board_id = b}
    <3>1. get_available_board_count = available /\ available \in 0 .. MAX_DEV_HANDLE
      BY CountFacts DEF RegInv, Typed, ListTyped
    <3> QED
      BY <3>1, Sizes DEF SlotsOf
  <2>3. SlotsOf(b) = {n}
    BY <2>1, <2>2 DEF RegInv, OpenInv
  <2>4. get_dev_handle(b) = {handles[n]}
    BY <2>3 DEF get_dev_handle
  <2>5. <<handles[n].dev_handle, b>> \in fds
    BY <2>1, <2>2 DEF RegInv, FdInv
  <2> QED
    BY <2>4, <2>5
<1> QED
  BY <1>1, RegAlways, PTL

(* On the same machines every descriptor is accounted for: one for each    *)
(* client and for each open under way, none after a failed init, and no two*)
(* table entries share one.                                                *)
THEOREM FdTheorem == ASSUME Told PROVE Spec => []NoFdLeak
<1>1. RegInv => NoFdLeak
  <2> SUFFICES ASSUME RegInv, Disciplined PROVE NoFdLeak
    BY DEF NoFdLeak
  <2>1. \A b \in BoardIds :
          Cardinality({f \in fds : f[2] = b}) =
            clients[b] + Cardinality({t \in Threads : call[t].step = "insert" /\ call[t].board = b})
    BY DEF RegInv, FdInv, Counted, FdsOf, Opening
  <2>2. ASSUME NEW m \in 1 .. MAX_DEV_HANDLE, NEW n \in 1 .. MAX_DEV_HANDLE, m # n,
               handles[m] # NULL, handles[n] # NULL
        PROVE  handles[m].dev_handle # handles[n].dev_handle
    <3>1. PICK f \in fds : f = <<handles[m].dev_handle, handles[m].board_id>>
      BY <2>2 DEF RegInv, FdInv
    <3>2. PICK g \in fds : g = <<handles[n].dev_handle, handles[n].board_id>>
      BY <2>2 DEF RegInv, FdInv
    <3>3. f[2] # g[2]
      BY <2>2, <3>1, <3>2 DEF RegInv, OpenInv
    <3>4. f[1] # g[1]
      BY <3>3 DEF RegInv, Typed, FdsTyped
    <3> QED
      BY <3>1, <3>2, <3>4
  <2> QED
    BY <2>1, <2>2 DEF NoFdLeak
<1> QED
  BY <1>1, RegAlways, PTL
=============================================================================
