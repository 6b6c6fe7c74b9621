------------------------------ MODULE ModLife -------------------------------
(***************************************************************************)
(* Loading and unloading of the module around the probes and removes of    *)
(* PciProbe: xdma_mod_init() and xdma_mod_exit() of vi53xx_xdma_drv.c, the *)
(* globals of board_info.c and vi53xx_cndev_core.c that a probe uses, and  *)
(* the /proc tree of vi53xx_proc.c.                                        *)
(*                                                                         *)
(* xdma_mod_init() looks at the result of one of its four parts and gives  *)
(* nothing back when one fails; xdma_mod_exit() undoes all of them blindly.*)
(* What that leads to is the state "oops", in which nothing happens any    *)
(* more; fault says what the kernel died of.  After a pci_register_driver()*)
(* that fails, the kernel drops the module without calling xdma_mod_exit():*)
(* its /proc tree and its class outlive it.                                *)
(*                                                                         *)
(* Bounds: MaxLoads, MaxProbes, one file open at a time.                   *)
(***************************************************************************)
EXTENDS PciProbe, FiniteSetsExt

CONSTANTS
  BOARD_TEPE_NUM, \* character device regions allocated per load
  MINORS,         \* instances a region has room for, 128
  MaxMajors,      \* majors the kernel can allocate
  MaxLoads,       \* bound on the number of loads
  MaxProbes       \* bound on the number of probes, over all loads

ASSUME ModAssumption == {BOARD_TEPE_NUM, MINORS, MaxMajors, MaxLoads, MaxProbes} \subseteq Nat \ {0}

VARIABLES
  mod,      \* where xdma_mod_init() or xdma_mod_exit() is
  glob,     \* the module's global pointers
  majors,   \* entries of es_cdev->major[] that were allocated
  regions,  \* regions registered with the kernel, over all loads
  names,    \* what exists by name: the /proc tree and the class
  loads,
  probed,   \* probes begun since the load
  fault,    \* what the kernel died of
  hist      \* what happened: see History

modVars == <<mod, glob, majors, regions, names, loads, probed, fault, hist>>
allVars == <<vars, modVars>>

NoGlob == [list |-> "null", parent_dir |-> FALSE, es_cdev |-> FALSE, class |-> "null"]

(* whole: no part of this load failed; removed: a board was removed in it; *)
(* kept: a file was open during an unload; aborted: a pci_register_driver()*)
(* failed, in this or an earlier load.                                     *)
History == [whole : BOOLEAN, removed : BOOLEAN, kept : BOOLEAN, aborted : BOOLEAN]

ModInit ==
  /\ Init
  /\ mod = "out" /\ glob = NoGlob
  /\ majors = 0 /\ regions = 0 /\ names = {} /\ loads = 0 /\ probed = 0 /\ fault = "none"
  /\ hist = [whole |-> TRUE, removed |-> FALSE, kept |-> FALSE, aborted |-> FALSE]
-----------------------------------------------------------------------------
(* One part of the load works or fails.                                    *)
Works == UNCHANGED <<fault, hist>>
Fails == hist' = [hist EXCEPT !.whole = FALSE] /\ UNCHANGED fault

Oops(what) ==
  /\ mod' = "oops" /\ fault' = what
  /\ UNCHANGED <<vars, glob, majors, regions, names, loads, probed, hist>>

(* Mutant: the instance counters go on from the last load.                 *)
init_board_info_no_reset ==
  /\ mod = "out" /\ loads < MaxLoads /\ loads' = loads + 1 /\ probed' = 0
  /\ mod' = "board_proc" /\ glob' = [NoGlob EXCEPT !.list = "kmalloc"]
  /\ hist' = [hist EXCEPT !.whole = TRUE, !.removed = FALSE]
  /\ UNCHANGED <<vars, majors, regions, names, fault>>

(* init_board_info(), the list: kmalloc() or vmalloc().  Without memory    *)
(* xdma_mod_init() returns 0: loaded, with no driver registered.           *)
init_board_info ==
  /\ mod = "out" /\ loads < MaxLoads /\ loads' = loads + 1 /\ probed' = 0
  /\ \/ /\ \E list \in {"kmalloc", "vmalloc"} : glob' = [NoGlob EXCEPT !.list = list]
        /\ mod' = "board_proc"
        /\ hist' = [hist EXCEPT !.whole = TRUE, !.removed = FALSE]
     \/ /\ glob' = NoGlob /\ mod' = "in_idle"
        /\ hist' = [hist EXCEPT !.whole = FALSE, !.removed = FALSE]
  /\ count' = [t \in KnownTypes |-> 0]
  /\ UNCHANGED <<pc, idx, mem, drv, kern, scratch, listed, drvdata, gen, files, left,
                 majors, regions, names, fault>>

(* create_board_proc().  proc_mkdir() fails if the directory exists; a     *)
(* failed proc_create() removes the directory but leaves parent_dir.       *)
create_board_proc ==
  /\ mod = "board_proc" /\ mod' = "mapping_proc"
  /\ \/ UNCHANGED <<names, glob>> /\ Fails
     \/ /\ "dir" \notin names /\ glob' = [glob EXCEPT !.parent_dir = TRUE]
        /\ \/ names' = names \union {"dir", "boards"} /\ Works
           \/ UNCHANGED names /\ Fails
  /\ UNCHANGED <<vars, majors, regions, loads, probed>>

DanglingDir == glob.parent_dir /\ "dir" \notin names

(* create_instance_board_id_mmap() goes by parent_dir, which may point to a*)
(* directory just removed: then anything may come of it.                   *)
create_instance_board_id_mmap ==
  \/ /\ mod = "mapping_proc" /\ mod' = "cdev"
     /\ \/ ~glob.parent_dir /\ UNCHANGED names /\ Fails
        \/ DanglingDir /\ UNCHANGED names /\ Fails
        \/ glob.parent_dir /\ ~DanglingDir /\ names' = names \union {"mapping"} /\ Works
        \/ glob.parent_dir /\ names' = names \ {"dir", "boards"} /\ Fails
     /\ UNCHANGED <<vars, glob, majors, regions, loads, probed>>
  \/ mod = "mapping_proc" /\ DanglingDir /\ Oops("globals")

(* Majors left for a load, of the BOARD_TEPE_NUM it asks for.              *)
Obtainable == IF MaxMajors - regions < BOARD_TEPE_NUM THEN MaxMajors - regions ELSE BOARD_TEPE_NUM

(* vi53xx_cdev_init(), whose result is not looked at: no memory; no class, *)
(* as when one of that name exists; fewer regions than types, when majors  *)
(* run out or an alloc_chrdev_region() fails before.                       *)
cdev_init ==
  /\ mod = "cdev" /\ mod' = "register"
  /\ \/ UNCHANGED <<glob, majors, regions, names>> /\ Fails
     \/ /\ glob' = [glob EXCEPT !.es_cdev = TRUE, !.class = "err"]
        /\ UNCHANGED <<majors, regions, names>> /\ Fails
     \/ /\ "class" \notin names /\ names' = names \union {"class"}
        /\ glob' = [glob EXCEPT !.es_cdev = TRUE, !.class = "ok"]
        /\ majors' \in 0 .. Obtainable /\ regions' = regions + majors'
        /\ IF majors' = Obtainable THEN Works ELSE Fails
  /\ UNCHANGED <<vars, loads, probed>>

(* When it fails, the image of the module goes, and its globals with it.   *)
pci_register_driver ==
  /\ mod = "register"
  /\ \/ mod' = "in" /\ UNCHANGED <<glob, majors, hist>>
     \/ /\ mod' = "out" /\ glob' = NoGlob /\ majors' = 0
        /\ hist' = [hist EXCEPT !.whole = FALSE, !.aborted = TRUE]
  /\ UNCHANGED <<vars, regions, names, loads, probed, fault>>
-----------------------------------------------------------------------------
(* xdma_mod_exit(): the driver core removes the bound devices first.  An   *)
(* open file does not keep the module loaded: create_cdev() sets the owner *)
(* of the cdev before cdev_init() clears the structure, and the file       *)
(* operations name none.                                                   *)
mod_exit ==
  /\ mod \in {"in", "in_idle"}
  /\ mod' = IF mod = "in" THEN "unregister" ELSE "cdev_exit"
  /\ hist' = [hist EXCEPT !.kept = @ \/ files # {}]
  /\ UNCHANGED <<vars, glob, majors, regions, names, loads, probed, fault>>

pci_unregister_driver ==
  /\ mod = "unregister" /\ \A d \in Devs : pc[d] = "unbound"
  /\ mod' = "cdev_exit"
  /\ UNCHANGED <<vars, glob, majors, regions, names, loads, probed, fault, hist>>

(* vi53xx_cdev_exit() gives 255 minors back where 128 were allocated: no   *)
(* region matches, and all of them stay registered.                        *)
cdev_exit ==
  \/ /\ mod = "cdev_exit" /\ glob.es_cdev /\ mod' = "info_exit" /\ majors' = 0
     /\ names' = IF glob.class = "ok" THEN names \ {"class"} ELSE names
     /\ glob' = [glob EXCEPT !.es_cdev = FALSE, !.class = "null"]
     /\ UNCHANGED <<vars, regions, loads, probed, fault, hist>>
  \/ mod = "cdev_exit" /\ ~glob.es_cdev /\ Oops("globals")

(* Mutant: only the two listings are removed.                              *)
remove_board_proc_listings ==
  /\ names' = names \ {"boards", "mapping"}
  /\ UNCHANGED left

(* remove_proc_subtree() takes the entries of all boards there ever were.  *)
remove_board_proc ==
  /\ names' = names \ {"dir", "boards", "mapping"}
  /\ left' = [d \in Devs |-> [left[d] EXCEPT !.proc = {}]]

(* board_info_exit(); kfree() of a list that came from vmalloc() is fatal. *)
board_info_exit ==
  /\ mod = "info_exit" /\ remove_board_proc
  /\ IF glob.list = "vmalloc" THEN mod' = "oops" /\ fault' = "kfree" /\ UNCHANGED glob
                              ELSE mod' = "out" /\ glob' = NoGlob /\ UNCHANGED fault
  /\ UNCHANGED <<pc, idx, mem, drv, kern, count, scratch, listed, drvdata, gen, files,
                 majors, regions, loads, probed, hist>>
-----------------------------------------------------------------------------
Loaded == mod \in {"in", "unregister"}

SumOfGens == MapThenSumSet(LAMBDA d : gen[d], Devs)

begin_probe(d) ==
  /\ mod = "in" /\ SumOfGens < MaxProbes /\ xpdev_alloc(d)
  /\ probed' = probed + 1
  /\ UNCHANGED <<mod, glob, majors, regions, names, loads, fault, hist>>

(* Where a probe uses the globals: create_cdev() reads and writes *es_cdev *)
(* once it has its number; create_proc_device() follows parent_dir.        *)
NoCdev(d) == pc[d] = "name" /\ ~glob.es_cdev
ProbeFaults(d) == NoCdev(d) \/ (pc[d] = "sys_device" /\ DanglingDir)

(* Without a class device_create() makes no node, and without a directory  *)
(* create_proc_device() no entry.                                          *)
probe(d) ==
  /\ Loaded /\ ~NoCdev(d) /\ Probe(d)
  /\ pc[d] = "sys_device" => /\ glob.class # "ok" => kern'[d].node = NoName
                             /\ ~glob.parent_dir \/ DanglingDir => left' = left
  /\ UNCHANGED modVars

probe_fault(d) == Loaded /\ ProbeFaults(d) /\ Oops("globals")

(* Hot removal, or the removal that unregistering the driver causes.       *)
(* device_destroy() does not check the class it is given; list_del() on the*)
(* node inside the xpdev freed just before may go well, or not.            *)
begin_remove(d) ==
  /\ Loaded /\ glob.class # "err" /\ dev_clean(d)
  /\ hist' = [hist EXCEPT !.removed = TRUE]
  /\ UNCHANGED <<mod, glob, majors, regions, names, loads, probed, fault>>
remove(d) == Loaded /\ Remove(d) /\ UNCHANGED modVars
remove_fault(d) ==
  /\ Loaded
  /\ \/ pc[d] = "bound" /\ glob.class = "err" /\ Oops("globals")
     \/ pc[d] = "list_del" /\ Oops("list_del")

Stale(d, g) == g # gen[d] \/ "xpdev" \notin mem[d]

(* A write to the /proc entry of a board that was removed; a call on a file*)
(* opened on such a board, or on any once the driver is gone; a read of a  *)
(* /proc tree this load did not make.                                      *)
stale_use ==
  /\ mod # "oops"
  /\ \/ (\E d \in Devs : \E g \in left[d].proc : Stale(d, g)) /\ Oops("entry")
     \/ (\E f \in files : Loaded => Stale(f[1], f[2])) /\ Oops("file")
     \/ ~glob.parent_dir /\ {"boards", "mapping"} \intersect names # {} /\ Oops("tree")

open_file(d) ==
  /\ Loaded /\ files = {} /\ vi53xx_open(d)
  /\ hist' = [hist EXCEPT !.kept = @ \/ mod = "unregister"]
  /\ UNCHANGED <<mod, glob, majors, regions, names, loads, probed, fault>>
close_file(f) == mod # "oops" /\ close(f) /\ UNCHANGED modVars

load == \/ init_board_info \/ create_board_proc \/ create_instance_board_id_mmap
        \/ cdev_init \/ pci_register_driver
unload == mod_exit \/ pci_unregister_driver \/ cdev_exit \/ board_info_exit

ModNext ==
  \/ load \/ unload \/ stale_use
  \/ \E d \in Devs : \/ begin_probe(d) \/ probe(d) \/ probe_fault(d) \/ open_file(d)
                     \/ begin_remove(d) \/ remove(d) \/ remove_fault(d)
  \/ \E f \in files : close_file(f)

ModSpec == ModInit /\ [][ModNext]_allVars
-----------------------------------------------------------------------------
(* xdma_mod_init() checks little and xdma_mod_exit() nothing, yet whatever *)
(* the kernel dies of has its cause.  A NULL, dangling or error pointer is *)
(* followed only if a part of this very load failed; a list from vmalloc() *)
(* is fatal at the unload.  The /proc entry of a board names freed memory  *)
(* only if a board was removed since the load, a failed probe and earlier  *)
(* loads leaving none; an open file only then or if it was open during an  *)
(* unload; and a /proc tree without its code is that of an aborted load.   *)
(* What this does not exclude is list_del() on freed memory in any remove. *)
OopsHasCause ==
  mod = "oops" =>
    \/ fault = "globals" /\ ~hist.whole
    \/ fault = "kfree" /\ glob.list = "vmalloc"
    \/ fault \in {"list_del", "entry"} /\ hist.removed
    \/ fault = "file" /\ (hist.removed \/ hist.kept)
    \/ fault = "tree" /\ hist.aborted

(* Every board that is live has a device number within a region of this    *)
(* load: as long as the regions that stay have not used up the majors, and *)
(* for the first MINORS boards of a load, as get_board_instance() counts up*)
(* only.  Whatever was probed before the load does not matter.             *)
LiveHasNumber ==
  \A d \in Devs : kern[d].cdev =>
    /\ hist.whole /\ BOARD_TEPE_NUM * loads <= MaxMajors => majors = BOARD_TEPE_NUM
    /\ probed <= MINORS => drv[d].inst < MINORS
=============================================================================
