---------------------------- MODULE BoardRegistry ----------------------------
(***************************************************************************)
(* The registry of libvi53xx (lib/vi53xx_xdma.c): the board list read from *)
(* /proc, the table of open device handles, the table of board indices and *)
(* the online counter, used by the threads of one process through          *)
(* es5341_di_cfg_init/exit, es5341_do_cfg_init/exit and get_idx().  (The   *)
(* parameter matrix that a close and a failed init release as well has no  *)
(* part in any of it: it is the subject of ParMatrix.)                     *)
(*                                                                         *)
(* An init is check_boards_info() followed by free_board_info() or by      *)
(* vi53xx_device_open(); call[t] remembers the init of thread t between    *)
(* them, and between the search and the compare-and-swap of the open.      *)
(* getting[t] and found[t] do so for get_idx(): the board it looks for, and*)
(* the index whose bit get_unique_id() saw clear and has not yet set.      *)
(* Several clients (a DI and a DO configuration, say) may name one board.  *)
(*                                                                         *)
(* Nothing but the entry of a handle is made for threads.  breach records  *)
(* what callers did that the library does not stand:                       *)
(*   "raced"   a load, the release of a failed init or a close overlapped  *)
(*             another thread's init, or an init went by tables that an    *)
(*             init that is failing is about to wipe,                      *)
(*   "overtaken" so did get_idx(), or another get_idx(), a load, a release *)
(*             or a close came while it was under way,                     *)
(*   "twin"    two threads opened one board at the same time,              *)
(*   "uneven"  a board was closed by one of several clients, or without one*)
(*   "skipped" an index was released that was never taken.                 *)
(***************************************************************************)
EXTENDS BoardMapping, Integers, FiniteSetsExt

CONSTANTS
  NULL,
  Threads,
  BoardIds,       \* ids clients ask for; 0 is what an unused entry has
  Machines,       \* what boards there may be: sequences of boards
  ProcName,       \* file the driver creates (VI53XX_DEV_MAPING)
  LibName,        \* file check_boards_info() opens
  MAX_DEV_HANDLE, \* length of both tables
  MaxClients,     \* bound: clients of one board at a time
  MaxFds          \* bound: file descriptors open at a time

ASSUME RegistryAssumption ==
  /\ BoardIds \subseteq 1 .. 999 /\ IsFiniteSet(BoardIds) /\ IsFiniteSet(Threads)
  /\ MAX_DEV_HANDLE \in Nat \ {0}
  /\ \A m \in Machines : /\ m \in Seq([board_inst : 0 .. 127, board_id : 0 .. 999])
                         /\ Len(m) <= MAX_DEV_HANDLE
  /\ MaxClients \in Nat /\ MaxFds \in Nat

(* NULL is no index, no entry of the handle table and no list of boards.   *)
ASSUME NullAssumption ==
  /\ NULL \notin Nat
  /\ NULL \notin [board_id : BoardIds, dev_handle : Nat]
  /\ NULL \notin Seq([board_inst : Nat, board_id : Nat])

VARIABLES
  init_check_ok,
  machine,       \* the boards the driver had when the list was read
  board_info,    \* the entries read, NULL without memory
  available,     \* available_board_count
  online,        \* online_board_count
  handles,       \* dev_handle_list: NULL or [board_id, dev_handle]
  idxs,          \* dev_boardid_to_idx_list as a function: the idx of a board
  id_bitmap,     \* the indices taken
  fds,           \* kernel: open descriptors, <<fd, id of the board>>
  clients,       \* clients[b]: inits of b that succeeded and did not exit
  call,          \* the init of each thread
  getting,       \* the board each thread's get_idx() is for, or NULL
  found,         \* the index its get_unique_id() found free, or NULL
  breach

tables == <<handles, idxs, id_bitmap>>
list == <<init_check_ok, machine, board_info, available>>
get == <<getting, found>>
vars == <<list, tables, online, fds, clients, call, get, breach>>

NoCall == [step |-> "idle"]
Idle(t) == call[t] = NoCall
AtRest(t) == Idle(t) /\ getting[t] = NULL
NoGet == [t \in Threads |-> NULL]
NoHandles == [n \in 1 .. MAX_DEV_HANDLE |-> NULL]
NoIdxs == [b \in BoardIds |-> NULL]

Init ==
  /\ init_check_ok = FALSE /\ machine = <<>> /\ board_info = NULL /\ available = 0 /\ online = 0
  /\ handles = NoHandles /\ idxs = NoIdxs /\ id_bitmap = {}
  /\ fds = {} /\ clients = [b \in BoardIds |-> 0] /\ call = [t \in Threads |-> NoCall]
  /\ getting = NoGet /\ found = NoGet /\ breach = {}

(* What a step of t adds to breach: e when c holds.                        *)
Breach(e, c) == IF c THEN {e} ELSE {}
Overlaps(t) == \E u \in Threads \ {t} : ~Idle(u)
Getting == \E u \in Threads : getting[u] # NULL
Failing(u) == call[u].step = "checked" /\ call[u].ret # 0
-----------------------------------------------------------------------------
(* check_boards_info(): the tables are wiped, memory is allocated, the file*)
(* is read.  A file that is missing or empty leaves ret as requst_mem()    *)
(* set it, 0, and available_board_count as it was.                         *)
check_boards_info_again(t, b) ==
  /\ AtRest(t) /\ init_check_ok /\ clients[b] < MaxClients
  /\ call' = [call EXCEPT ![t] = [step |-> "checked", board |-> b, ret |-> 0, nodev |-> FALSE]]
  /\ breach' = breach \union Breach("raced", \E u \in Threads : Failing(u))
  /\ UNCHANGED <<list, tables, online, fds, clients, get>>

Checked(t, b, r, none) ==
  call' = [call EXCEPT ![t] = [step |-> "checked", board |-> b, ret |-> r, nodev |-> none]]

check_boards_info(t, b) ==
  /\ AtRest(t) /\ ~init_check_ok /\ clients[b] < MaxClients
  /\ init_check_ok' = TRUE
  /\ handles' = NoHandles /\ idxs' = NoIdxs /\ id_bitmap' = {}
  /\ \/ /\ board_info' \in {NULL, <<>>}         \* either malloc() fails
        /\ Checked(t, b, -1, FALSE)
        /\ UNCHANGED <<machine, available>>
     \/ /\ board_info' = <<>>                   \* no file, or no board in it
        /\ Checked(t, b, 0, TRUE)
        /\ machine' = <<>> /\ UNCHANGED available
     \/ /\ ProcName = LibName
        /\ machine' \in Machines
        /\ board_info' = extractValue(mapping_show(machine'))
        /\ available' = Len(board_info')
        /\ Checked(t, b, ErrCount(board_info'), FALSE)
  /\ breach' = breach \union Breach("raced", Overlaps(t)) \union Breach("overtaken", Getting)
  /\ UNCHANGED <<online, fds, clients, get>>

(* _get_idx() answers 0 for a board without an entry, so that destroy_id() *)
(* gives index 0 back whoever has it.                                      *)
IdxReleased(b) == IF idxs[b] = NULL THEN 0 ELSE idxs[b]

(* Mutant: init_check_ok survives the release.                             *)
free_board_info_stays_ok(t) ==
  /\ Failing(t)
  /\ board_info' = NULL
  /\ id_bitmap' = id_bitmap \ {IdxReleased(call[t].board)}
  /\ handles' = NoHandles /\ idxs' = NoIdxs
  /\ call' = [call EXCEPT ![t] = NoCall]
  /\ breach' = breach \union Breach("raced", Overlaps(t)) \union Breach("overtaken", Getting)
  /\ UNCHANGED <<init_check_ok, machine, available, online, fds, clients, get>>

(* free_board_info(), for an init whose check did not return 0.  The       *)
(* handle table is wiped, not closed; available_board_count stays.         *)
free_board_info(t) ==
  /\ Failing(t)
  /\ board_info' = NULL /\ init_check_ok' = FALSE
  /\ id_bitmap' = id_bitmap \ {IdxReleased(call[t].board)}
  /\ handles' = NoHandles /\ idxs' = NoIdxs
  /\ call' = [call EXCEPT ![t] = NoCall]
  /\ breach' = breach \union Breach("raced", Overlaps(t)) \union Breach("overtaken", Getting)
  /\ UNCHANGED <<machine, available, online, fds, clients, get>>
-----------------------------------------------------------------------------
get_available_board_count == IF available > MAX_DEV_HANDLE THEN 0 ELSE available

(* vi53xx_get_board_type() and get_board_instance() take the first entry of*)
(* the id; without one the name to open is that of no device.              *)
Entries(b) == {i \in 1 .. available : EntryAt(board_info, i).board_id = b}
get_board_instance(b) == EntryAt(board_info, Min(Entries(b))).board_inst

(* open(2) of the node: the boards of the machine with that instance.      *)
Behind(b) == IF Entries(b) = {} THEN {}
             ELSE {i \in DOMAIN machine : machine[i].board_inst = get_board_instance(b)}

SlotsOf(b) == {n \in 1 .. get_available_board_count : handles[n] # NULL /\ handles[n].board_id = b}
NewFd == Min(1 .. MaxFds + 1 \ {f[1] : f \in fds})
CanOpen(t) == call[t].step = "checked" /\ call[t].ret = 0

(* Mutant: the descriptor is not closed when malloc() fails.               *)
device_open_fails_leaks(t) ==
  /\ CanOpen(t) /\ Cardinality(fds) < MaxFds /\ Behind(call[t].board) # {}
  /\ fds' = fds \union {<<NewFd, call[t].board>>}
  /\ call' = [call EXCEPT ![t] = NoCall]
  /\ UNCHANGED <<list, tables, online, clients, get, breach>>

(* vi53xx_device_open(): no board at all, or open(2) fails, as it does for *)
(* a board that is not listed and may do for any other; or malloc() fails, *)
(* the descriptor is closed, and the counter stays set.                    *)
device_open_fails(t) ==
  /\ CanOpen(t)
  /\ LET b == call[t].board
     IN online' \in {online} \union
                    (IF Behind(b) # {} /\ SlotsOf(b) = {} THEN {get_available_board_count + 1} ELSE {})
  /\ call' = [call EXCEPT ![t] = NoCall]
  /\ UNCHANGED <<list, tables, fds, clients, get, breach>>

(* open(2) comes first; a board already in the table returns the old handle*)
(* and drops the new descriptor; n has run to cnt when the online counter  *)
(* is set to n + 1.                                                        *)
device_open(t) ==
  /\ CanOpen(t) /\ Cardinality(fds) < MaxFds
  /\ LET b == call[t].board
         cnt == get_available_board_count
     IN /\ cnt > 0
        /\ \E i \in Behind(b) : fds' = fds \union {<<NewFd, machine[i].board_id>>}
        /\ IF SlotsOf(b) # {}
           THEN /\ clients' = [clients EXCEPT ![b] = @ + 1]
                /\ call' = [call EXCEPT ![t] = NoCall]
                /\ UNCHANGED online
           ELSE /\ online' = cnt + 1
                /\ call' = [call EXCEPT ![t] = [step |-> "insert", board |-> b, fd |-> NewFd, cnt |-> cnt]]
                /\ UNCHANGED clients
  /\ UNCHANGED <<list, tables, get, breach>>

(* Mutant: a slot in use is taken.                                         *)
AnySlots(cnt) == 1 .. cnt

FreeSlots(cnt) == {n \in 1 .. cnt : handles[n] = NULL}

(* The compare-and-swap; without a slot 0 is returned, as for success.     *)
device_open_insert(t) ==
  /\ call[t].step = "insert"
  /\ LET b == call[t].board
         free == FreeSlots(call[t].cnt)
     IN /\ IF free # {}
           THEN handles' = [handles EXCEPT ![Min(free)] = [board_id |-> b, dev_handle |-> call[t].fd]]
           ELSE UNCHANGED handles
        /\ clients' = [clients EXCEPT ![b] = @ + 1]
        /\ call' = [call EXCEPT ![t] = NoCall]
        /\ breach' = breach \union Breach("twin", SlotsOf(b) # {})
  /\ UNCHANGED <<list, idxs, id_bitmap, online, fds, get>>
-----------------------------------------------------------------------------
(* release_idx(): destroy_id() and the entry of b.                         *)
release_idx(b) ==
  /\ id_bitmap' = id_bitmap \ {IdxReleased(b)}
  /\ idxs' = [idxs EXCEPT ![b] = NULL]

(* vi53xx_device_close(), the body of es5341_di/do_cfg_exit(): in the first*)
(* case no handle is looked for.                                           *)
device_close(t, b) ==
  /\ AtRest(t)
  /\ IF get_available_board_count = 0 \/ online <= 0
     THEN /\ board_info' = NULL /\ available' = 0 /\ online' = 0 /\ init_check_ok' = FALSE
          /\ UNCHANGED <<handles, fds>>
     ELSE /\ online' = online - 1
          /\ IF online = 1
             THEN board_info' = NULL /\ available' = 0 /\ init_check_ok' = FALSE
             ELSE UNCHANGED <<board_info, available, init_check_ok>>
          /\ LET gone == {n \in DOMAIN handles : handles[n] # NULL /\ handles[n].board_id = b}
             IN /\ fds' = {f \in fds : f[1] \notin {handles[n].dev_handle : n \in gone}}
                /\ handles' = [n \in DOMAIN handles |-> IF n \in gone THEN NULL ELSE handles[n]]
  /\ release_idx(b)
  /\ clients' = [clients EXCEPT ![b] = IF @ = 0 THEN 0 ELSE @ - 1]
  /\ breach' = breach \union Breach("raced", Overlaps(t)) \union Breach("overtaken", Getting)
                      \union Breach("uneven", clients[b] # 1) \union Breach("skipped", idxs[b] = NULL)
  /\ UNCHANGED <<machine, call, get>>

(* get_idx() without an entry for the board: the search of the table ends. *)
get_idx(t, b) ==
  /\ AtRest(t) /\ idxs[b] = NULL
  /\ getting' = [getting EXCEPT ![t] = b]
  /\ breach' = breach \union Breach("overtaken", Getting \/ \E u \in Threads : Failing(u))
  /\ UNCHANGED <<list, tables, online, fds, clients, call, found>>

(* Mutant: indices count from 1.                                           *)
get_unique_id_from_one(t) ==
  /\ getting[t] # NULL /\ found[t] = NULL
  /\ LET free == (1 .. MAX_DEV_HANDLE) \ id_bitmap
     IN found' = [found EXCEPT ![t] = IF free = {} THEN 0 ELSE Min(free)]
  /\ UNCHANGED <<list, tables, online, fds, clients, call, getting, breach>>

(* get_unique_id(), the test: the lowest bit that is clear, or 0.          *)
get_unique_id(t) ==
  /\ getting[t] # NULL /\ found[t] = NULL
  /\ LET free == (0 .. MAX_DEV_HANDLE - 1) \ id_bitmap
     IN found' = [found EXCEPT ![t] = IF free = {} THEN 0 ELSE Min(free)]
  /\ UNCHANGED <<list, tables, online, fds, clients, call, getting, breach>>

(* Mutant: the bit is not set.                                             *)
get_idx_insert_no_bit(t) ==
  /\ getting[t] # NULL /\ found[t] # NULL
  /\ idxs' = [idxs EXCEPT ![getting[t]] = found[t]]
  /\ getting' = [getting EXCEPT ![t] = NULL] /\ found' = [found EXCEPT ![t] = NULL]
  /\ UNCHANGED <<list, handles, id_bitmap, online, fds, clients, call, breach>>

(* The rest of get_idx(): the bit is set, by a write of its byte, and the  *)
(* pair goes to a free entry of the table, or nowhere.                     *)
get_idx_insert(t) ==
  /\ getting[t] # NULL /\ found[t] # NULL
  /\ id_bitmap' = id_bitmap \union {found[t]}
  /\ idxs' = IF Cardinality({c \in BoardIds : idxs[c] # NULL}) = MAX_DEV_HANDLE
             THEN idxs ELSE [idxs EXCEPT ![getting[t]] = found[t]]
  /\ getting' = [getting EXCEPT ![t] = NULL] /\ found' = [found EXCEPT ![t] = NULL]
  /\ UNCHANGED <<list, handles, online, fds, clients, call, breach>>

Next ==
  \/ \E t \in Threads :
       \/ \E b \in BoardIds : \/ check_boards_info(t, b) \/ check_boards_info_again(t, b)
                              \/ device_close(t, b) \/ get_idx(t, b)
       \/ free_board_info(t) \/ device_open_fails(t) \/ device_open(t) \/ device_open_insert(t)
       \/ get_unique_id(t) \/ get_idx_insert(t)

Spec == Init /\ [][Next]_vars
-----------------------------------------------------------------------------
(* get_dev_handle(): what every register and DMA call starts with.         *)
get_dev_handle(b) == {handles[n] : n \in SlotsOf(b)}

Disciplined == breach \subseteq {"skipped", "overtaken"}
Twice(m) == \E i, j \in DOMAIN m : i # j /\ m[i].board_id = m[j].board_id

TypeOK ==
  /\ init_check_ok \in BOOLEAN /\ machine \in Machines \union {<<>>}
  /\ board_info = NULL \/ Len(board_info) <= MAX_DEV_HANDLE
  /\ available \in 0 .. MAX_DEV_HANDLE /\ online \in 0 .. MAX_DEV_HANDLE + 1
  /\ \A n \in 1 .. MAX_DEV_HANDLE :
       handles[n] = NULL \/ handles[n] \in [board_id : BoardIds, dev_handle : 1 .. MaxFds]
  /\ \A b \in BoardIds : idxs[b] = NULL \/ idxs[b] \in 0 .. MAX_DEV_HANDLE - 1
  /\ id_bitmap \subseteq 0 .. MAX_DEV_HANDLE - 1
  /\ \A t \in Threads : found[t] = NULL \/ (getting[t] \in BoardIds /\ found[t] \in 0 .. MAX_DEV_HANDLE - 1)

(* A client whose init succeeded can work: get_dev_handle() finds exactly  *)
(* one entry for its board, with a descriptor that is open on the board    *)
(* that carries the id.  So it is whatever other threads opened, failed to *)
(* open and closed since, and also for two clients of one board, until one *)
(* of them closes it.                                                      *)
HandleForClient ==
  Disciplined => \A b \in BoardIds : clients[b] > 0 =>
    \E h \in get_dev_handle(b) : get_dev_handle(b) = {h} /\ <<h.dev_handle, b>> \in fds

(* Descriptors are accounted for: each client of a board and each open that*)
(* is under way has one, no failed init has, and no two table entries share*)
(* one.  (That the second client's is in no table is how it leaks when the *)
(* clients exit: "uneven".)                                                *)
NoFdLeak ==
  Disciplined =>
    /\ \A b \in BoardIds :
         Cardinality({f \in fds : f[2] = b}) =
           clients[b] + Cardinality({t \in Threads : call[t].step = "insert" /\ call[t].board = b})
    /\ \A m, n \in 1 .. MAX_DEV_HANDLE :
         m # n /\ handles[m] # NULL /\ handles[n] # NULL => handles[m].dev_handle # handles[n].dev_handle

(* vi53xx_device_open() follows board_info without a test as soon as       *)
(* available_board_count is not 0.  An init that gets there finds the list,*)
(* however the inits before it failed and whoever closed what before.      *)
OpenHasInfo ==
  "raced" \notin breach => \A t \in Threads : CanOpen(t) /\ available > 0 => board_info # NULL

(* Indices tell boards apart: get_unique_id() tests a bit and sets it later*)
(* with no lock, and 0 is released for a board that has none, so this is as*)
(* long as no call of get_idx() is overtaken, inits and closes do not race,*)
(* and every index released was taken.                                     *)
IdxUnique ==
  breach \subseteq {"twin", "uneven"} =>
    \A b, c \in BoardIds : b # c /\ idxs[b] # NULL => idxs[b] # idxs[c]

(* Nobody works on a machine in which two boards carry one id, where the   *)
(* id says nothing about the board: _check_boards_info() finds them, and   *)
(* the init that learns of it takes the list away from all.                *)
DuplicatesRefused ==
  Disciplined /\ (\E b \in BoardIds : clients[b] > 0) => ~Twice(machine)

(* check_boards_info(): "< 0: no mem ,/proc/vi53xx/maping   no device".    *)
NoDeviceReported ==
  \A t \in Threads : call[t].step = "checked" /\ call[t].nodev => call[t].ret < 0

(* mapping_show() labels the first number "logical instance number"; the   *)
(* library should then open the device node of that very instance.         *)
InstanceKept ==
  init_check_ok /\ board_info # NULL =>
    \A i \in DOMAIN board_info : board_info[i].board_inst = machine[i].board_inst

(* "> 0: err_boards num" (check_boards_info()): the comparison runs one    *)
(* entry past the last board, where the id is 0.  Still an init fails for  *)
(* its boards only when two of them carry one id, or when one of several   *)
(* carries id 0, which is the one id that is taken for a duplicate wrongly;*)
(* so it is whoever looks at the answer when, unless lists race.           *)
DistinctIdsAccepted ==
  "raced" \notin breach =>
    \A t \in Threads : call[t].step = "checked" /\ call[t].ret > 0 =>
      Twice(machine) \/ (Len(machine) > 1 /\ \E i \in DOMAIN machine : machine[i].board_id = 0)
=============================================================================
