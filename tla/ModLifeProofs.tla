---------------------------- MODULE ModLifeProofs ----------------------------
(***************************************************************************)
(* Safety of ModLife for any number of boards, loads and probes.  A load,  *)
(* an unload and the probes in between act on the same devices, so all of  *)
(* PciProbeProofs is used again: a step of ModLife is a step of PciProbe,  *)
(* or leaves the devices alone but for init_board_info(), which resets the *)
(* instance counters while no device is bound, and board_info_exit(), which*)
(* removes what their probes left under /proc.                             *)
(***************************************************************************)
EXTENDS ModLife, PciNumberProofs, FiniteSetTheorems

ModStates == {"out", "board_proc", "mapping_proc", "cdev", "register", "in", "in_idle",
              "unregister", "cdev_exit", "info_exit", "oops"}
GlobType == [list : {"null", "kmalloc", "vmalloc"}, parent_dir : BOOLEAN, es_cdev : BOOLEAN,
             class : {"null", "err", "ok"}]

ModTypeOK ==
  /\ mod \in ModStates
  /\ glob \in GlobType
  /\ majors \in Nat /\ regions \in Nat /\ loads \in Nat /\ probed \in Nat
  /\ hist \in History

(* Devices are bound, probed and removed only while the driver is          *)
(* registered.                                                             *)
Idle == mod \notin {"in", "unregister", "oops"} => \A d \in Devs : pc[d] = "unbound"

(* What a whole load has built when the parts that use it run, and that no *)
(* entry of the /proc tree is left without its code.                       *)
Globals ==
  /\ mod = "out" => glob = NoGlob
  /\ hist.whole /\ mod \notin {"out", "oops"} =>
       /\ mod # "in_idle" /\ ~DanglingDir /\ glob.class # "err"
       /\ mod \in {"register", "in", "unregister", "cdev_exit"} => glob.es_cdev
  /\ ~hist.aborted => glob.parent_dir \/ {"boards", "mapping"} \intersect names = {}

(* Regions are never given back: how many there are, before and after the  *)
(* present load has taken its own.                                         *)
Regions ==
  /\ regions <= MaxMajors
  /\ regions <= BOARD_TEPE_NUM * loads
  /\ mod \in {"board_proc", "mapping_proc", "cdev"} =>
       loads >= 1 /\ regions <= BOARD_TEPE_NUM * (loads - 1)
  /\ /\ mod \in {"register", "in", "unregister"} \/ (mod = "oops" /\ \E d \in Devs : pc[d] # "unbound")
     /\ hist.whole /\ BOARD_TEPE_NUM * loads <= MaxMajors
     => majors = BOARD_TEPE_NUM

(* Who refers to a board: as long as none was removed in this load, a /proc*)
(* entry or an open file is that of the present probe, and the probe is    *)
(* past the point where it can fail.                                       *)
Fresh == {"out", "board_proc", "mapping_proc", "cdev", "register", "in_idle"}
Up == {"channel_init", "list_add", "set_drvdata", "bound"}
EntryOK(d) == left[d].proc = {} \/ (left[d].proc = {gen[d]} /\ pc[d] \in Up)
FileOK(f) == f[2] = gen[f[1]] /\ pc[f[1]] \in LiveLabels

Refs ==
  /\ mod \in Fresh => \A d \in Devs : left[d].proc = {}
  /\ mod # "oops" /\ ~hist.removed => \A d \in Devs : pc[d] \notin RemoveLabels /\ EntryOK(d)
  /\ mod # "oops" /\ ~hist.kept => mod = "in" \/ files = {}
  /\ mod # "oops" /\ ~hist.removed /\ ~hist.kept => \A f \in files : FileOK(f)

(* A probe that has not stored its number yet may still add one to a       *)
(* counter; a counter and the probes that may count up are bounded by the  *)
(* probes there were since the load, even if two read the same value.      *)
Counting == {d \in Devs : pc[d] \in {"device_map", "enable", "regions", "map_bars", "dma_mask",
                                     "create_cdev", "count"}}
Numbers ==
  /\ IsFiniteSet(Counting)
  /\ \A t \in KnownTypes : count[t] + Cardinality(Counting) <= probed
  /\ \A d \in Devs : pc[d] = "count" => drv[d].inst + Cardinality(Counting) <= probed
  /\ \A d \in Devs : Numbered(d) => drv[d].inst < probed

LoadInv == ModTypeOK /\ Idle /\ Globals /\ Regions

ModInv == Inv /\ LoadInv /\ Refs /\ OopsHasCause /\ Numbers
-----------------------------------------------------------------------------
(* To the devices, a step of ModLife is a step of PciProbe, the reset of   *)
(* the counters, or the removal of the /proc tree.                         *)
LEMMA PciPart == [ModNext]_allVars => [Next]_vars \/ init_board_info \/ board_info_exit
<1> SUFFICES ASSUME [ModNext]_allVars, ~init_board_info, ~board_info_exit PROVE [Next]_vars
  OBVIOUS
<1>1. CASE UNCHANGED vars
  BY <1>1
<1>2. CASE \E d \in Devs : begin_probe(d) \/ probe(d) \/ begin_remove(d) \/ remove(d) \/ open_file(d)
  BY <1>2 DEF begin_probe, probe, begin_remove, remove, open_file, Next
<1>3. CASE \E f \in files : close_file(f)
  BY <1>3 DEF close_file, Next
<1>4. CASE \/ create_board_proc \/ create_instance_board_id_mmap \/ cdev_init \/ pci_register_driver
           \/ mod_exit \/ pci_unregister_driver \/ cdev_exit \/ stale_use
           \/ \E d \in Devs : probe_fault(d) \/ remove_fault(d)
  BY <1>1, <1>4 DEF create_board_proc, create_instance_board_id_mmap, cdev_init,
     pci_register_driver, mod_exit, pci_unregister_driver, cdev_exit, stale_use, probe_fault,
     remove_fault, Oops
<1> QED
  BY <1>1, <1>2, <1>3, <1>4 DEF ModNext, load, unload, allVars

(* Neither of the other two touches a device.                              *)
LEMMA ResetFrame ==
  ASSUME TypeOK, init_board_info \/ board_info_exit
  PROVE  /\ TypeOK' /\ \A e \in Devs : Same(e)
         /\ pc' = pc /\ drv' = drv /\ kern' = kern /\ scratch' = scratch
         /\ init_board_info => count' = [t \in KnownTypes |-> 0]
         /\ board_info_exit => count' = count
<1>1. CASE init_board_info
  <2>1. /\ UNCHANGED <<pc, idx, mem, drv, kern, scratch, listed, drvdata, gen, files, left>>
        /\ count' = [t \in KnownTypes |-> 0]
    BY <1>1 DEF init_board_info
  <2>2. ~board_info_exit
    BY <1>1 DEF init_board_info, board_info_exit
  <2> QED
    BY <2>1, <2>2 DEF TypeOK, Same
<1>2. CASE board_info_exit
  <2>1. /\ UNCHANGED <<pc, idx, mem, drv, kern, count, scratch, listed, drvdata, gen, files>>
        /\ left' = [d \in Devs |-> [left[d] EXCEPT !.proc = {}]]
    BY <1>2 DEF board_info_exit, remove_board_proc
  <2>2. \A d \in Devs : [left[d] EXCEPT !.proc = {}] \in LeftType
    BY DEF TypeOK, LeftType
  <2>3. left' \in [Devs -> LeftType]
    BY <2>1, <2>2
  <2>4. ~init_board_info
    BY <1>2 DEF init_board_info, board_info_exit
  <2> QED
    BY <2>1, <2>3, <2>4 DEF TypeOK, Same
<1> QED
  BY <1>1, <1>2

LEMMA PciInv == Inv /\ [ModNext]_allVars => Inv'
<1> SUFFICES ASSUME Inv, [ModNext]_allVars PROVE Inv'
  OBVIOUS
<1>1. CASE [Next]_vars
  BY <1>1, StepInv
<1>2. CASE init_board_info \/ board_info_exit
  BY <1>2, ResetFrame, Frame DEF Inv
<1> QED
  BY <1>1, <1>2, PciPart
-----------------------------------------------------------------------------
LEMMA InitMod == ModInit => ModInv
<1> SUFFICES ASSUME ModInit PROVE ModInv
  OBVIOUS
<1> USE ModAssumption DEF ModInit
<1>1. Inv
  BY InitInv
<1>2. LoadInv
  BY DEF LoadInv, ModTypeOK, Idle, Globals, Regions, NoGlob, GlobType, ModStates, History, Init,
         DanglingDir
<1>3. Refs /\ OopsHasCause
  BY DEF Refs, OopsHasCause, EntryOK, RemoveLabels, Init
<1>4. Numbers
  <2>1. Counting = {} /\ \A d \in Devs : pc[d] # "count" /\ ~Numbered(d)
    BY DEF Counting, Init, Numbered
  <2>2. \A t \in KnownTypes : count[t] = 0
    BY DEF Init
  <2>3. IsFiniteSet({}) /\ Cardinality({}) = 0
    BY FS_EmptySet
  <2> QED
    BY <2>1, <2>2, <2>3 DEF Numbers
<1> QED
  BY <1>1, <1>2, <1>3, <1>4 DEF ModInv

(* The histories that Fails, a load or an unload write.                    *)
LEMMA HistFields ==
  ASSUME hist \in History
  PROVE  /\ \A b \in BOOLEAN : LET h == [hist EXCEPT !.whole = b] IN
              /\ h \in History /\ h.whole = b /\ h.aborted = hist.aborted
              /\ h.removed = hist.removed /\ h.kept = hist.kept
         /\ \A b \in BOOLEAN : LET h == [hist EXCEPT !.whole = b, !.removed = FALSE] IN
              /\ h \in History /\ h.whole = b /\ h.aborted = hist.aborted
              /\ ~h.removed /\ h.kept = hist.kept
         /\ \A b \in BOOLEAN : LET h == [hist EXCEPT !.kept = @ \/ b] IN
              /\ h \in History /\ h.whole = hist.whole /\ h.aborted = hist.aborted
              /\ h.removed = hist.removed /\ (h.kept <=> hist.kept \/ b)
         /\ LET h == [hist EXCEPT !.removed = TRUE] IN
              /\ h \in History /\ h.whole = hist.whole /\ h.aborted = hist.aborted
              /\ h.removed /\ h.kept = hist.kept
         /\ LET h == [hist EXCEPT !.whole = FALSE, !.aborted = TRUE] IN
              /\ h \in History /\ ~h.whole /\ h.aborted
              /\ h.removed = hist.removed /\ h.kept = hist.kept
  BY DEF History

(* What the parts of a load leave in the globals.                          *)
LEMMA GlobFields ==
  ASSUME glob \in GlobType
  PROVE  /\ NoGlob \in GlobType /\ ~NoGlob.parent_dir /\ NoGlob.class = "null"
         /\ \A l \in {"kmalloc", "vmalloc"} : LET g == [NoGlob EXCEPT !.list = l] IN
              g \in GlobType /\ ~g.parent_dir /\ g.class = "null"
         /\ LET g == [glob EXCEPT !.parent_dir = TRUE] IN
              /\ g \in GlobType /\ g.parent_dir
              /\ g.class = glob.class /\ g.es_cdev = glob.es_cdev
         /\ \A c \in {"err", "ok"} : LET g == [glob EXCEPT !.es_cdev = TRUE, !.class = c] IN
              g \in GlobType /\ g.parent_dir = glob.parent_dir /\ g.class = c /\ g.es_cdev
         /\ LET g == [glob EXCEPT !.es_cdev = FALSE, !.class = "null"] IN
              g \in GlobType /\ g.parent_dir = glob.parent_dir /\ g.class = "null"
  BY DEF GlobType, NoGlob

(* When the kernel dies, the globals no longer matter.                     *)
LEMMA OopsLoad ==
  ASSUME LoadInv, mod # "oops", NEW what, Oops(what)
  PROVE  LoadInv'
<1>1. mod' = "oops" /\ UNCHANGED <<pc, glob, majors, regions, names, loads, probed, hist>>
  BY DEF Oops, vars
<1>2. ModTypeOK' /\ Idle' /\ Globals'
  BY <1>1 DEF LoadInv, ModTypeOK, ModStates, Idle, Globals
<1>3. Regions'
  BY <1>1 DEF LoadInv, Idle, Regions
<1> QED
  BY <1>2, <1>3 DEF LoadInv

(* xdma_mod_init().                                                        *)
LEMMA LoadSteps ==
  ASSUME LoadInv, load PROVE LoadInv'
<1> USE ModAssumption DEF LoadInv, ModTypeOK, ModStates
<1>1. hist \in History /\ glob \in GlobType /\ hist.whole \in BOOLEAN /\ hist.aborted \in BOOLEAN
  BY DEF History
<1>2. CASE init_board_info
  <2>1. /\ mod = "out" /\ mod' \in {"board_proc", "in_idle"} /\ loads' = loads + 1 /\ probed' = 0
        /\ pc' = pc /\ UNCHANGED <<majors, regions, names>>
        /\ glob' \in GlobType /\ hist' \in History /\ ~glob'.parent_dir /\ glob'.class = "null"
        /\ hist'.aborted = hist.aborted /\ (mod' = "in_idle" => ~hist'.whole)
    <3>1. \/ /\ mod' = "board_proc" /\ hist' = [hist EXCEPT !.whole = TRUE, !.removed = FALSE]
             /\ \E list \in {"kmalloc", "vmalloc"} : glob' = [NoGlob EXCEPT !.list = list]
          \/ /\ mod' = "in_idle" /\ hist' = [hist EXCEPT !.whole = FALSE, !.removed = FALSE]
             /\ glob' = NoGlob
      BY <1>2 DEF init_board_info
    <3>2. glob' \in GlobType /\ ~glob'.parent_dir /\ glob'.class = "null"
      BY <1>1, <3>1, GlobFields
    <3>3. /\ hist' \in History /\ hist'.aborted = hist.aborted
          /\ (mod' = "in_idle" => ~hist'.whole)
      BY <1>1, <3>1, HistFields
    <3> QED
      BY <1>2, <3>1, <3>2, <3>3 DEF init_board_info
  <2>2. ModTypeOK' /\ Idle'
    BY <2>1 DEF Idle
  <2>3. ~glob.parent_dir
    BY <2>1 DEF Globals, NoGlob
  <2>4. Globals'
    BY <2>1, <2>3 DEF Globals, DanglingDir
  <2>5. Regions'
    BY <2>1 DEF Regions
  <2> QED
    BY <2>2, <2>4, <2>5
<1>3. CASE create_board_proc
  <2>1. /\ mod = "board_proc" /\ mod' = "mapping_proc" /\ pc' = pc
        /\ UNCHANGED <<majors, regions, loads, probed>>
        /\ glob' \in GlobType /\ hist' \in History /\ glob'.class = glob.class
        /\ hist'.aborted = hist.aborted
        /\ \/ ~hist'.whole /\ names' = names /\ (glob' = glob \/ glob'.parent_dir)
           \/ /\ glob'.parent_dir /\ names' = names \union {"dir", "boards"}
              /\ hist'.whole = hist.whole
    BY <1>1, <1>3, HistFields, GlobFields DEF create_board_proc, Works, Fails, vars
  <2>2. ModTypeOK' /\ Idle'
    BY <2>1 DEF Idle
  <2>3. Globals'
    BY <2>1 DEF Globals, DanglingDir
  <2>4. Regions'
    BY <2>1 DEF Regions
  <2> QED
    BY <2>2, <2>3, <2>4
<1>4. CASE create_instance_board_id_mmap
  <2>1. CASE Oops("globals")
    BY <1>4, <2>1, OopsLoad DEF create_instance_board_id_mmap
  <2>2. CASE ~Oops("globals")
    <3>1. /\ mod = "mapping_proc" /\ mod' = "cdev" /\ pc' = pc
          /\ UNCHANGED <<glob, majors, regions, loads, probed>>
          /\ hist' \in History /\ hist'.aborted = hist.aborted
          /\ \/ ~hist'.whole /\ names' \subseteq names
             \/ hist' = hist /\ ~DanglingDir /\ glob.parent_dir /\ names \subseteq names'
      BY <1>1, <1>4, <2>2, HistFields DEF create_instance_board_id_mmap, Works, Fails, vars
    <3>2. ModTypeOK' /\ Idle'
      BY <3>1 DEF Idle
    <3>3. Globals'
      BY <3>1 DEF Globals, DanglingDir
    <3>4. Regions'
      BY <3>1 DEF Regions
    <3> QED
      BY <3>2, <3>3, <3>4
  <2> QED
    BY <2>1, <2>2
<1>5. CASE cdev_init
  <2>1. /\ mod = "cdev" /\ mod' = "register" /\ pc' = pc /\ UNCHANGED <<loads, probed>>
        /\ hist' \in History /\ hist'.aborted = hist.aborted
        /\ glob' \in GlobType /\ glob'.parent_dir = glob.parent_dir
        /\ names \subseteq names' /\ names' \subseteq names \union {"class"}
        /\ \/ ~hist'.whole /\ majors' = majors /\ regions' = regions
           \/ /\ majors' \in 0 .. Obtainable /\ regions' = regions + majors'
              /\ ~hist'.whole \/ (hist' = hist /\ majors' = Obtainable)
              /\ glob'.es_cdev /\ glob'.class = "ok"
    BY <1>1, <1>5, HistFields, GlobFields DEF cdev_init, Works, Fails, vars
  <2>2. /\ regions \in 0 .. MaxMajors /\ MaxMajors \in Nat /\ BOARD_TEPE_NUM \in Nat
        /\ loads \in Nat /\ loads >= 1 /\ regions <= BOARD_TEPE_NUM * (loads - 1)
    BY <2>1 DEF Regions
  <2>3. /\ Obtainable \in Nat /\ Obtainable <= BOARD_TEPE_NUM /\ regions + Obtainable <= MaxMajors
        /\ regions + BOARD_TEPE_NUM <= MaxMajors => Obtainable = BOARD_TEPE_NUM
    BY <2>2 DEF Obtainable
  <2>4. BOARD_TEPE_NUM * loads = BOARD_TEPE_NUM * (loads - 1) + BOARD_TEPE_NUM
    BY <2>2
  <2>5. majors' \in Nat /\ regions' \in Nat
    BY <2>1, <2>2, <2>3
  <2>6. ModTypeOK' /\ Idle'
    BY <2>1, <2>5 DEF Idle
  <2>7. Globals'
    BY <2>1 DEF Globals, DanglingDir
  <2>8. Regions'
    <3> DEFINE bn == BOARD_TEPE_NUM * (loads - 1)
               bl == BOARD_TEPE_NUM * loads
    <3>1. bn \in Nat /\ bl = bn + BOARD_TEPE_NUM /\ regions <= bn
      BY <2>2, <2>4
    <3> HIDE DEF bn, bl
    <3>2. regions' <= MaxMajors /\ regions' <= bl
      BY <2>1, <2>2, <2>3, <3>1
    <3>3. hist'.whole /\ bl <= MaxMajors => majors' = BOARD_TEPE_NUM
      BY <2>1, <2>2, <2>3, <3>1
    <3> QED
      BY <2>1, <3>2, <3>3 DEF Regions, bl
  <2> QED
    BY <2>6, <2>7, <2>8
<1>6. CASE pci_register_driver
  <2>1. /\ mod = "register" /\ pc' = pc /\ UNCHANGED <<regions, names, loads, probed>>
        /\ \/ mod' = "in" /\ UNCHANGED <<glob, majors, hist>>
           \/ /\ mod' = "out" /\ glob' = NoGlob /\ majors' = 0 /\ hist' \in History
              /\ hist'.aborted
    BY <1>1, <1>6, HistFields DEF pci_register_driver, vars
  <2>2. ModTypeOK' /\ Idle'
    BY <1>1, <2>1, GlobFields DEF Idle
  <2>3. Globals'
    BY <2>1 DEF Globals, DanglingDir
  <2>4. Regions'
    BY <2>1 DEF Regions
  <2> QED
    BY <2>2, <2>3, <2>4
<1> QED
  BY <1>2, <1>3, <1>4, <1>5, <1>6 DEF load

(* xdma_mod_exit().                                                        *)
LEMMA UnloadSteps ==
  ASSUME LoadInv, unload PROVE LoadInv'
<1> USE ModAssumption DEF LoadInv, ModTypeOK, ModStates
<1>1. hist \in History /\ glob \in GlobType /\ hist.whole \in BOOLEAN /\ hist.aborted \in BOOLEAN
  BY DEF History
<1>2. CASE mod_exit
  <2>1. /\ mod \in {"in", "in_idle"} /\ mod' = IF mod = "in" THEN "unregister" ELSE "cdev_exit"
        /\ pc' = pc /\ UNCHANGED <<glob, majors, regions, names, loads, probed>>
        /\ hist' \in History /\ hist'.whole = hist.whole /\ hist'.aborted = hist.aborted
    BY <1>1, <1>2, HistFields DEF mod_exit, vars
  <2> QED
    BY <2>1 DEF Idle, Globals, Regions, DanglingDir
<1>3. CASE pci_unregister_driver
  BY <1>3 DEF pci_unregister_driver, Idle, Globals, Regions, vars, DanglingDir
<1>4. CASE cdev_exit
  <2>1. CASE Oops("globals")
    BY <1>4, <2>1, OopsLoad DEF cdev_exit
  <2>2. CASE ~Oops("globals")
    <3>1. /\ mod = "cdev_exit" /\ mod' = "info_exit" /\ pc' = pc /\ majors' = 0
          /\ UNCHANGED <<regions, loads, probed, hist>>
          /\ glob' \in GlobType /\ glob'.parent_dir = glob.parent_dir /\ glob'.class = "null"
          /\ names' \subseteq names /\ ("dir" \in names => "dir" \in names')
      BY <1>1, <1>4, <2>2, GlobFields DEF cdev_exit, vars
    <3> QED
      BY <3>1 DEF Idle, Globals, Regions, DanglingDir
  <2> QED
    BY <2>1, <2>2
<1>5. CASE board_info_exit
  <2>1. /\ mod = "info_exit" /\ pc' = pc /\ UNCHANGED <<majors, regions, loads, probed, hist>>
        /\ {"boards", "mapping"} \intersect names' = {}
        /\ \/ mod' = "oops" /\ glob' = glob
           \/ mod' = "out" /\ glob' = NoGlob
    BY <1>5 DEF board_info_exit, remove_board_proc
  <2>2. ModTypeOK' /\ Idle' /\ Regions'
    BY <1>1, <2>1, GlobFields DEF Idle, Regions
  <2>3. Globals'
    BY <2>1 DEF Globals
  <2> QED
    BY <2>2, <2>3
<1> QED
  BY <1>2, <1>3, <1>4, <1>5 DEF unload

(* Probes and removes, under way only while the globals are there.         *)
LEMMA DeviceSteps ==
  ASSUME LoadInv, NEW d \in Devs,
         \/ begin_probe(d) \/ probe(d) \/ probe_fault(d) \/ open_file(d)
         \/ begin_remove(d) \/ remove(d) \/ remove_fault(d)
  PROVE  LoadInv'
<1>1. CASE probe_fault(d) \/ remove_fault(d)
  BY <1>1, OopsLoad DEF probe_fault, remove_fault, Loaded
<1>2. CASE begin_probe(d) \/ probe(d) \/ open_file(d) \/ begin_remove(d) \/ remove(d)
  <2>1. hist \in History
    BY DEF LoadInv, ModTypeOK
  <2>2. /\ mod \in {"in", "unregister"} /\ UNCHANGED <<mod, glob, majors, regions, names, loads>>
        /\ hist' \in History /\ hist'.whole = hist.whole /\ hist'.aborted = hist.aborted
        /\ probed' \in {probed, probed + 1}
    BY <1>2, <2>1, HistFields
    DEF begin_probe, probe, open_file, begin_remove, remove, Loaded, modVars
  <2> QED
    BY <2>2 DEF LoadInv, ModTypeOK, Idle, Globals, Regions, DanglingDir
<1> QED
  BY <1>1, <1>2

LEMMA StepLoad == LoadInv /\ [ModNext]_allVars => LoadInv'
<1> SUFFICES ASSUME LoadInv, [ModNext]_allVars PROVE LoadInv'
  OBVIOUS
<1>1. ASSUME UNCHANGED modVars, UNCHANGED pc PROVE LoadInv'
  BY <1>1 DEF LoadInv, ModTypeOK, Idle, Globals, Regions, modVars, DanglingDir
<1>2. CASE UNCHANGED allVars
  BY <1>1, <1>2 DEF allVars, vars
<1>3. CASE \E f \in files : close_file(f)
  BY <1>1, <1>3 DEF close_file, close
<1>4. CASE stale_use
  BY <1>4, OopsLoad DEF stale_use
<1> QED
  BY <1>2, <1>3, <1>4, LoadSteps, UnloadSteps, DeviceSteps DEF ModNext
-----------------------------------------------------------------------------
(* A step of one device leaves the others.                                 *)
LEMMA OthersSame ==
  ASSUME Inv, NEW d \in Devs, xpdev_alloc(d) \/ Probe(d) \/ dev_clean(d) \/ Remove(d)
  PROVE  \A e \in Devs \ {d} : Same(e)
  BY Step_xpdev_alloc, Step_alloc_dev_instance, Step_pci_enable_device,
     Step_request_regions, Step_map_single_bar, Step_map_bars_done, Step_set_dma_mask,
     Step_err_mask, Step_err_map, Step_err_regions, Step_free_xdev, Step_err_out,
     Step_create_cdev, Step_count_store, Step_device_name, Step_cdev_add,
     Step_create_sys_device, Step_channel_init, Step_channel_init_done, Step_list_add,
     Step_set_drvdata, Step_dev_clean, Step_free_resource, Step_remove_free,
     Step_list_del, Step_clear_drvdata
  DEF Inv, Probe, Remove

CountingLabels == {"device_map", "enable", "regions", "map_bars", "dma_mask", "create_cdev", "count"}

(* Only the begin of a probe makes it one that may count up.               *)
LEMMA CountingOnce ==
  ASSUME TypeOK, NEW d \in Devs, Probe(d) \/ dev_clean(d) \/ Remove(d)
  PROVE  pc'[d] \in CountingLabels => pc[d] \in CountingLabels
<1>1. \A from, to : Goto(d, from, to) => pc[d] = from /\ pc'[d] = to
  BY DEF Goto, TypeOK
<1> USE <1>1 DEF CountingLabels
<1>2. CASE \/ alloc_dev_instance(d) \/ pci_enable_device(d) \/ request_regions(d)
           \/ map_single_bar(d) \/ map_bars_done(d) \/ set_dma_mask(d)
  BY <1>2 DEF alloc_dev_instance, pci_enable_device, request_regions,
     map_single_bar, map_bars_done, set_dma_mask
<1>3. CASE err_mask(d) \/ err_map(d) \/ err_regions(d) \/ free_xdev(d) \/ err_out(d)
  BY <1>3 DEF err_mask, err_map, err_regions, free_xdev, err_out
<1>4. CASE create_cdev(d)
  BY <1>4 DEF create_cdev
<1>5. CASE count_store(d) \/ device_name(d) \/ cdev_add(d)
  BY <1>5 DEF count_store, device_name, cdev_add
<1>6. CASE \/ create_sys_device(d) \/ channel_init(d) \/ channel_init_done(d)
           \/ list_add(d) \/ set_drvdata(d)
  BY <1>6 DEF create_sys_device, channel_init, channel_init_done, list_add, set_drvdata
<1>7. CASE dev_clean(d) \/ Remove(d)
  BY <1>7 DEF dev_clean, Remove, free_resource, remove_free, list_del, clear_drvdata
<1> QED
  BY <1>2, <1>3, <1>4, <1>5, <1>6, <1>7 DEF Probe

(* ... after which their number does not grow.                             *)
LEMMA CountingShrinks ==
  ASSUME IsFiniteSet(Counting), NEW d \in Devs, \A e \in Devs \ {d} : Same(e),
         pc'[d] \in CountingLabels => pc[d] \in CountingLabels
  PROVE  /\ IsFiniteSet(Counting') /\ Cardinality(Counting') \in Nat
         /\ Cardinality(Counting) \in Nat /\ Cardinality(Counting') <= Cardinality(Counting)
         /\ pc[d] \in CountingLabels /\ pc'[d] \notin CountingLabels
              => Cardinality(Counting') <= Cardinality(Counting) - 1
<1>1. Counting' \subseteq Counting
  BY DEF Counting, CountingLabels, Same
<1>2. IsFiniteSet(Counting') /\ Cardinality(Counting') <= Cardinality(Counting)
  BY <1>1, FS_Subset
<1>3. Cardinality(Counting') \in Nat /\ Cardinality(Counting) \in Nat
  BY <1>2, FS_CardinalityType
<1>4. ASSUME pc[d] \in CountingLabels, pc'[d] \notin CountingLabels
      PROVE  Cardinality(Counting') <= Cardinality(Counting) - 1
  <2>1. d \in Counting /\ d \notin Counting'
    BY <1>4 DEF Counting, CountingLabels
  <2>2. Cardinality(Counting') # Cardinality(Counting)
    BY <1>1, <2>1, FS_Subset
  <2> QED
    BY <1>2, <1>3, <2>2
<1> QED
  BY <1>2, <1>3, <1>4

(* What a step of d has to do to keep Numbers.                             *)
LEMMA NumbersKept ==
  ASSUME TypeOK, TypeOK', Numbers, NEW d \in Devs, \A e \in Devs \ {d} : Same(e),
         probed \in Nat, probed' = probed,
         pc'[d] \in CountingLabels => pc[d] \in CountingLabels,
         count' = count,
         pc'[d] = "count" => drv'[d].inst + Cardinality(Counting) <= probed,
         Numbered(d)' => drv'[d].inst < probed
  PROVE  Numbers'
<1>1. /\ IsFiniteSet(Counting') /\ Cardinality(Counting') \in Nat
      /\ Cardinality(Counting) \in Nat /\ Cardinality(Counting') <= Cardinality(Counting)
  BY CountingShrinks DEF Numbers
<1>2. /\ \A t \in KnownTypes : count[t] \in Nat
      /\ \A e \in Devs : drv'[e].inst \in Nat
  BY DEF TypeOK, DrvType
<1>3. \A t \in KnownTypes : count'[t] + Cardinality(Counting') <= probed'
  BY <1>1, <1>2 DEF Numbers
<1>4. ASSUME NEW e \in Devs, pc'[e] = "count"
      PROVE  drv'[e].inst + Cardinality(Counting') <= probed'
  <2>1. drv'[e].inst + Cardinality(Counting) <= probed
    BY <1>4 DEF Numbers, Same
  <2> QED
    BY <1>1, <1>2, <2>1
<1>5. ASSUME NEW e \in Devs, Numbered(e)' PROVE drv'[e].inst < probed'
  BY <1>5 DEF Numbers, Same, Numbered
<1> QED
  BY <1>1, <1>3, <1>4, <1>5 DEF Numbers

LEMMA NumbersSteps ==
  ASSUME ModInv, Inv', NEW d \in Devs, Probe(d) \/ dev_clean(d) \/ Remove(d), probed' = probed
  PROVE  Numbers'
<1>1. /\ TypeOK /\ TypeOK' /\ Numbers /\ Shape(d) /\ probed \in Nat
      /\ drv[d] \in DrvType /\ drv'[d] \in DrvType
  BY DEF ModInv, Inv, LoadInv, ModTypeOK, TypeOK
<1>2. \A e \in Devs \ {d} : Same(e)
  BY OthersSame DEF ModInv
<1>3. pc'[d] \in CountingLabels => pc[d] \in CountingLabels
  BY <1>1, CountingOnce
<1>4. CASE Local(d)
  <2>1. pc'[d] # "count" /\ count' = count /\ drv'[d].inst = drv[d].inst
        /\ (Numbered(d)' => Numbered(d))
    BY <1>4 DEF Local
  <2>2. Numbered(d)' => drv'[d].inst < probed
    BY <1>1, <2>1 DEF Numbers
  <2> QED
    BY <1>1, <1>2, <1>3, <2>1, <2>2, NumbersKept
<1>5. CASE device_name(d) \/ create_sys_device(d) \/ dev_clean(d)
  <2>1. /\ pc'[d] # "count" /\ count' = count /\ drv'[d].inst = drv[d].inst
        /\ Numbered(d)
    BY <1>1, <1>5 DEF device_name, create_sys_device, dev_clean, Goto, TypeOK, DrvType, Numbered
  <2>2. drv'[d].inst < probed
    BY <1>1, <2>1 DEF Numbers
  <2> QED
    BY <1>1, <1>2, <1>3, <2>1, <2>2, NumbersKept
<1>6. CASE err_out(d) \/ remove_free(d)
  <2>1. pc'[d] # "count" /\ count' = count /\ ~Numbered(d)'
    BY <1>1, <1>6 DEF err_out, remove_free, Goto, TypeOK, Numbered
  <2> QED
    BY <1>1, <1>2, <1>3, <2>1, NumbersKept
<1>7. CASE create_cdev(d)
  <2>1. PICK t \in Types :
          /\ drv' = [drv EXCEPT ![d].type = t, ![d].inst = IF t \in KnownTypes THEN count[t] ELSE @]
          /\ IF t \in KnownTypes THEN Goto(d, "create_cdev", "count")
                                 ELSE Goto(d, "create_cdev", "err_out")
    BY <1>7 DEF create_cdev
  <2>2. /\ count' = count /\ ~Numbered(d)'
        /\ pc'[d] = "count" => t \in KnownTypes /\ drv'[d].inst = count[t]
    BY <1>1, <1>7, <2>1 DEF create_cdev, Goto, TypeOK, DrvType, Numbered
  <2>3. pc'[d] = "count" => drv'[d].inst + Cardinality(Counting) <= probed
    BY <1>1, <2>2 DEF Numbers
  <2> QED
    BY <1>1, <1>2, <1>3, <2>2, <2>3, NumbersKept
(* Storing the number takes d from the probes that may count up.           *)
<1>8. CASE count_store(d)
  <2>1. /\ pc[d] = "count" /\ pc'[d] = "name" /\ drv' = drv /\ drv[d].type \in KnownTypes
        /\ count' = [count EXCEPT ![drv[d].type] = drv[d].inst + 1]
        /\ count \in [KnownTypes -> Nat] /\ drv[d].inst \in Nat
        /\ \A e \in Devs : drv[e].inst \in Nat
    BY <1>1, <1>8 DEF count_store, Goto, TypeOK, DrvType, Shape, Publishing
  <2>2. /\ IsFiniteSet(Counting') /\ Cardinality(Counting') \in Nat
        /\ Cardinality(Counting) \in Nat
        /\ Cardinality(Counting') <= Cardinality(Counting) - 1
    BY <1>1, <1>2, <2>1, CountingShrinks DEF Numbers, CountingLabels
  <2>3. drv[d].inst + Cardinality(Counting) <= probed
    BY <1>1, <2>1 DEF Numbers
  <2>4. ASSUME NEW t \in KnownTypes PROVE count'[t] + Cardinality(Counting') <= probed'
    <3>1. count[t] + Cardinality(Counting) <= probed /\ count[t] \in Nat
      BY <1>1, <2>1 DEF Numbers
    <3>2. count'[t] = count[t] \/ count'[t] = drv[d].inst + 1
      BY <2>1
    <3> QED
      BY <1>1, <2>1, <2>2, <2>3, <3>1, <3>2
  <2>5. ASSUME NEW e \in Devs, pc'[e] = "count"
        PROVE  drv'[e].inst + Cardinality(Counting') <= probed'
    <3>1. drv[e].inst + Cardinality(Counting) <= probed
      BY <1>1, <1>2, <2>1, <2>5 DEF Numbers, Same
    <3> QED
      BY <1>1, <2>1, <2>2, <3>1
  <2>6. ASSUME NEW e \in Devs, Numbered(e)' PROVE drv'[e].inst < probed'
    <3>1. CASE e = d
      BY <1>1, <2>1, <2>2, <2>3, <3>1
    <3>2. CASE e # d
      BY <1>1, <1>2, <2>6, <3>2 DEF Numbers, Same, Numbered
    <3> QED
      BY <3>1, <3>2
  <2> QED
    BY <2>2, <2>4, <2>5, <2>6 DEF Numbers
<1> QED
  BY <1>1, <1>4, <1>5, <1>6, <1>7, <1>8, QuietSteps DEF Probe, Remove

LEMMA Numbers_begin_probe ==
  ASSUME ModInv, Inv', NEW d \in Devs, xpdev_alloc(d), probed' = probed + 1
  PROVE  Numbers'
<1>1. /\ TypeOK /\ Numbers /\ probed \in Nat /\ count \in [KnownTypes -> Nat]
      /\ \A e \in Devs : drv[e].inst \in Nat
  BY DEF ModInv, Inv, LoadInv, ModTypeOK, TypeOK, DrvType
<1>2. \A e \in Devs \ {d} : Same(e)
  BY OthersSame DEF ModInv
<1>3. pc'[d] \in {"device_map", "unbound"} /\ count' = count
  BY <1>1 DEF xpdev_alloc, Goto, TypeOK
<1>4. Counting' \subseteq Counting \union {d}
  BY <1>2 DEF Counting, Same
<1>5. /\ IsFiniteSet(Counting \union {d}) /\ Cardinality(Counting) \in Nat
      /\ Cardinality(Counting \union {d}) <= Cardinality(Counting) + 1
  <2>1. IsFiniteSet(Counting)
    BY <1>1 DEF Numbers
  <2>2. Cardinality(Counting) \in Nat
    BY <2>1, FS_CardinalityType
  <2>3. /\ IsFiniteSet(Counting \union {d})
        /\ Cardinality(Counting \union {d}) =
             IF d \in Counting THEN Cardinality(Counting) ELSE Cardinality(Counting) + 1
    BY <2>1, FS_AddElement
  <2> QED
    BY <2>2, <2>3
<1>6. /\ IsFiniteSet(Counting') /\ Cardinality(Counting') \in Nat
      /\ Cardinality(Counting') <= Cardinality(Counting) + 1
  <2>1. IsFiniteSet(Counting') /\ Cardinality(Counting') <= Cardinality(Counting \union {d})
    BY <1>4, <1>5, FS_Subset
  <2>2. Cardinality(Counting') \in Nat /\ Cardinality(Counting \union {d}) \in Nat
    BY <1>5, <2>1, FS_CardinalityType
  <2> QED
    BY <1>5, <2>1, <2>2
<1>7. \A t \in KnownTypes : count'[t] + Cardinality(Counting') <= probed'
  BY <1>1, <1>3, <1>5, <1>6 DEF Numbers
<1>8. ASSUME NEW e \in Devs, pc'[e] = "count"
      PROVE  drv'[e].inst + Cardinality(Counting') <= probed'
  <2>1. drv'[e].inst = drv[e].inst /\ drv[e].inst + Cardinality(Counting) <= probed
    BY <1>1, <1>2, <1>3, <1>8 DEF Numbers, Same
  <2> QED
    BY <1>1, <1>5, <1>6, <2>1
<1>9. ASSUME NEW e \in Devs, Numbered(e)' PROVE drv'[e].inst < probed'
  <2>1. drv'[e].inst = drv[e].inst /\ drv[e].inst < probed
    BY <1>1, <1>2, <1>3, <1>9 DEF Numbers, Same, Numbered
  <2> QED
    BY <1>1, <2>1
<1> QED
  BY <1>6, <1>7, <1>8, <1>9 DEF Numbers

LEMMA StepNumbers == ModInv /\ Inv' /\ [ModNext]_allVars => Numbers'
<1> SUFFICES ASSUME ModInv, Inv', [ModNext]_allVars PROVE Numbers'
  OBVIOUS
<1>1. ASSUME UNCHANGED <<pc, drv, count, probed>> PROVE Numbers'
  BY <1>1 DEF ModInv, Numbers, Counting, Numbered
(* The counters start again with the count of probes.                      *)
<1>2. CASE init_board_info
  <2>1. \A d \in Devs : pc'[d] = "unbound"
    BY <1>2 DEF init_board_info, ModInv, LoadInv, Idle
  <2>2. Counting' = {} /\ \A d \in Devs : pc'[d] # "count" /\ ~Numbered(d)'
    BY <2>1 DEF Counting, Numbered
  <2>3. \A t \in KnownTypes : count'[t] = 0
    BY <1>2 DEF init_board_info
  <2>4. probed' = 0
    BY <1>2 DEF init_board_info
  <2>5. IsFiniteSet({}) /\ Cardinality({}) = 0
    BY FS_EmptySet
  <2> QED
    BY <2>2, <2>3, <2>4, <2>5 DEF Numbers
<1>3. CASE \E d \in Devs : begin_probe(d)
  BY <1>3, Numbers_begin_probe DEF begin_probe
<1>4. CASE \E d \in Devs : probe(d) \/ begin_remove(d) \/ remove(d)
  BY <1>4, NumbersSteps DEF probe, begin_remove, remove, modVars
<1>5. CASE \/ \E d \in Devs : probe_fault(d) \/ remove_fault(d) \/ open_file(d)
           \/ \E f \in files : close_file(f)
           \/ UNCHANGED allVars
  BY <1>1, <1>5 DEF probe_fault, remove_fault, Oops, open_file, vi53xx_open, close_file, close,
     modVars, allVars, vars
<1>6. CASE \/ create_board_proc \/ create_instance_board_id_mmap \/ cdev_init
           \/ pci_register_driver \/ unload \/ stale_use
  BY <1>1, <1>6 DEF create_board_proc, create_instance_board_id_mmap, cdev_init,
     pci_register_driver, mod_exit, unload, pci_unregister_driver, cdev_exit, board_info_exit,
     stale_use, Oops, vars
<1> QED
  BY <1>2, <1>3, <1>4, <1>5, <1>6 DEF ModNext, load

-----------------------------------------------------------------------------
(* A probe past device_create() does not fail any more, and only the probe *)
(* that makes a node makes an entry.                                       *)
LEMMA ProbeRefs ==
  ASSUME TypeOK, NEW d \in Devs, Probe(d)
  PROVE  /\ gen' = gen /\ files' = files
         /\ pc[d] \in LiveLabels => pc'[d] \in LiveLabels
         /\ pc[d] \in Up => pc'[d] \in Up
         /\ pc'[d] \notin RemoveLabels
         /\ \/ left'[d].proc = left[d].proc
            \/ /\ pc[d] = "sys_device" /\ pc'[d] = "channel_init"
               /\ left'[d].proc \subseteq left[d].proc \union {gen[d]}
         /\ \A e \in Devs \ {d} : left'[e] = left[e]
<1>1. \A from, to : Goto(d, from, to) => pc[d] = from /\ pc'[d] = to
  BY DEF Goto, TypeOK
<1>2. left[d] \in LeftType /\ left \in [Devs -> LeftType]
  BY DEF TypeOK
<1> USE <1>1 DEF LiveLabels, Up, RemoveLabels
<1>3. CASE \/ alloc_dev_instance(d) \/ pci_enable_device(d) \/ request_regions(d)
           \/ map_single_bar(d) \/ map_bars_done(d) \/ set_dma_mask(d)
  BY <1>3 DEF alloc_dev_instance, pci_enable_device, request_regions,
     map_single_bar, map_bars_done, set_dma_mask
<1>4. CASE err_mask(d) \/ err_map(d) \/ err_regions(d) \/ free_xdev(d) \/ err_out(d)
  BY <1>4 DEF err_mask, err_map, err_regions, free_xdev, err_out
<1>5. CASE create_cdev(d)
  <2>1. Goto(d, "create_cdev", "count") \/ Goto(d, "create_cdev", "err_out")
    BY <1>5 DEF create_cdev
  <2> QED
    BY <1>5, <2>1 DEF create_cdev
<1>6. CASE count_store(d) \/ device_name(d)
  BY <1>6 DEF count_store, device_name
<1>7. CASE cdev_add(d)
  BY <1>2, <1>7 DEF cdev_add, LeftType
<1>8. CASE create_sys_device(d)
  BY <1>2, <1>8 DEF create_sys_device, LeftType
<1>9. CASE channel_init(d) \/ channel_init_done(d) \/ list_add(d) \/ set_drvdata(d)
  BY <1>9 DEF channel_init, channel_init_done, list_add, set_drvdata
<1> QED
  BY <1>3, <1>4, <1>5, <1>6, <1>7, <1>8, <1>9 DEF Probe

LEMMA Refs_probe ==
  ASSUME ModInv, NEW d \in Devs, probe(d) PROVE Refs'
<1>1. /\ TypeOK /\ Refs /\ mod \in {"in", "unregister"} /\ UNCHANGED <<mod, hist>> /\ Probe(d)
  BY DEF ModInv, Inv, probe, modVars, Loaded
<1>2. \A e \in Devs \ {d} : pc'[e] = pc[e]
  BY <1>1, OthersSame DEF ModInv, Same
<1>3. ASSUME ~hist.removed, NEW e \in Devs PROVE pc'[e] \notin RemoveLabels /\ EntryOK(e)'
  <2>1. pc[e] \notin RemoveLabels /\ EntryOK(e)
    BY <1>1, <1>3 DEF Refs
  <2>2. CASE e # d
    BY <1>1, <1>2, <2>1, <2>2, ProbeRefs DEF EntryOK
  <2>3. CASE e = d
    BY <1>1, <2>1, <2>3, ProbeRefs DEF EntryOK, Up
  <2> QED
    BY <2>2, <2>3
<1>4. ASSUME ~hist.removed, ~hist.kept, NEW f \in files' PROVE FileOK(f)'
  <2>1. f \in files /\ FileOK(f) /\ f[1] \in Devs /\ gen' = gen
    BY <1>1, <1>4, ProbeRefs DEF Refs, TypeOK
  <2> QED
    BY <1>1, <1>2, <2>1, ProbeRefs DEF FileOK
<1> QED
  BY <1>1, <1>3, <1>4, ProbeRefs DEF Refs, Fresh

LEMMA Refs_begin_probe ==
  ASSUME ModInv, NEW d \in Devs, begin_probe(d) PROVE Refs'
<1>1. /\ TypeOK /\ Refs /\ mod = "in" /\ UNCHANGED <<mod, hist, left, files>> /\ xpdev_alloc(d)
  BY DEF ModInv, Inv, begin_probe, xpdev_alloc
<1>2. /\ pc[d] = "unbound" /\ pc'[d] \in {"device_map", "unbound"}
      /\ \A e \in Devs \ {d} : pc'[e] = pc[e] /\ gen'[e] = gen[e]
  BY <1>1 DEF xpdev_alloc, Goto, TypeOK
<1>3. ASSUME ~hist.removed, NEW e \in Devs PROVE pc'[e] \notin RemoveLabels /\ EntryOK(e)'
  <2>1. pc[e] \notin RemoveLabels /\ EntryOK(e)
    BY <1>1, <1>3 DEF Refs
  <2> QED
    BY <1>1, <1>2, <2>1 DEF EntryOK, Up, RemoveLabels
<1>4. ASSUME ~hist.removed, ~hist.kept, NEW f \in files' PROVE FileOK(f)'
  <2>1. f \in files /\ FileOK(f) /\ f[1] \in Devs
    BY <1>1, <1>4 DEF Refs, TypeOK
  <2> QED
    BY <1>2, <2>1 DEF FileOK, LiveLabels
<1> QED
  BY <1>1, <1>3, <1>4 DEF Refs, Fresh

LEMMA Refs_remove ==
  ASSUME ModInv, NEW d \in Devs, begin_remove(d) \/ remove(d) PROVE Refs'
<1>1. /\ TypeOK /\ Refs /\ mod \in {"in", "unregister"} /\ mod' = mod /\ hist \in History
      /\ UNCHANGED <<left, files>>
  BY DEF ModInv, Inv, LoadInv, ModTypeOK, begin_remove, remove, modVars, Loaded, dev_clean, Remove,
         free_resource, remove_free, list_del, clear_drvdata
<1>2. hist'.removed /\ hist'.kept = hist.kept
  <2>1. CASE begin_remove(d)
    BY <1>1, <2>1, HistFields DEF begin_remove
  <2>2. CASE remove(d)
    <3>1. pc[d] \in RemoveLabels /\ hist' = hist
      BY <2>2 DEF remove, modVars, Remove, free_resource, remove_free, list_del, clear_drvdata,
         Goto, RemoveLabels
    <3> QED
      BY <1>1, <3>1 DEF Refs
  <2> QED
    BY <2>1, <2>2
<1> QED
  BY <1>1, <1>2 DEF Refs, Fresh

LEMMA Refs_open_file ==
  ASSUME ModInv, NEW d \in Devs, open_file(d) PROVE Refs'
<1>1. /\ Refs /\ mod \in {"in", "unregister"} /\ hist \in History
      /\ UNCHANGED <<mod, left, gen, pc>> /\ files' = {<<d, gen[d]>>} /\ kern[d].cdev
  BY DEF ModInv, LoadInv, ModTypeOK, open_file, vi53xx_open, Loaded
<1>2. hist'.removed = hist.removed /\ (hist'.kept <=> hist.kept \/ mod = "unregister")
  BY <1>1, HistFields DEF open_file
<1>3. pc[d] \in LiveLabels
  BY <1>1 DEF ModInv, Inv, TypeOK, Shape, Acquiring, Unwinding, Publishing, Removing, Bare, Hidden,
              LiveLabels, Labels, ProbeLabels, RemoveLabels
<1>4. \A e \in Devs : EntryOK(e)' <=> EntryOK(e)
  BY <1>1 DEF EntryOK
<1>5. FileOK(<<d, gen[d]>>)'
  BY <1>1, <1>3 DEF FileOK
<1> QED
  BY <1>1, <1>2, <1>4, <1>5 DEF Refs, Fresh

(* Loading and unloading, with no device bound at either end.              *)
LEMMA Refs_module ==
  ASSUME ModInv, load \/ unload PROVE Refs'
<1>1. TypeOK /\ Refs /\ hist \in History /\ Idle
  BY DEF ModInv, Inv, LoadInv, ModTypeOK
<1>2. ASSUME UNCHANGED <<pc, gen>> PROVE \A e \in Devs : left'[e].proc \in {left[e].proc, {}} =>
                                          (EntryOK(e) => EntryOK(e)')
  BY <1>2 DEF EntryOK
<1>3. ASSUME UNCHANGED <<pc, gen>> PROVE \A f : FileOK(f)' <=> FileOK(f)
  BY <1>3 DEF FileOK
<1>4. CASE init_board_info
  <2>1. /\ mod = "out" /\ mod' \in Fresh /\ UNCHANGED <<pc, gen, left, files>>
        /\ hist'.kept = hist.kept
    BY <1>1, <1>4, HistFields DEF init_board_info, Fresh
  <2>2. \A e \in Devs : left[e].proc = {} /\ pc[e] = "unbound"
    BY <1>1, <2>1 DEF Refs, Fresh, Idle
  <2>3. ~hist.kept => files = {}
    BY <1>1, <2>1 DEF Refs
  <2> QED
    BY <2>1, <2>2, <2>3 DEF Refs, EntryOK, RemoveLabels
<1>5. CASE board_info_exit
  <2>1. /\ mod = "info_exit" /\ mod' \in {"out", "oops"} /\ UNCHANGED <<pc, gen, files, hist>>
        /\ left' = [d \in Devs |-> [left[d] EXCEPT !.proc = {}]]
    BY <1>5 DEF board_info_exit, remove_board_proc
  <2>2. \A e \in Devs : left'[e].proc = {} /\ EntryOK(e)'
    BY <1>1, <2>1 DEF EntryOK, TypeOK, LeftType
  <2> QED
    BY <1>1, <1>3, <2>1, <2>2 DEF Refs
<1>6. CASE mod_exit
  <2>1. /\ mod \in {"in", "in_idle"} /\ mod' \notin Fresh /\ UNCHANGED <<pc, gen, left, files>>
        /\ hist'.removed = hist.removed /\ (hist'.kept <=> hist.kept \/ files # {})
    BY <1>1, <1>6, HistFields DEF mod_exit, Fresh, vars
  <2> QED
    BY <1>1, <1>2, <1>3, <2>1 DEF Refs
<1>7. CASE mod' = "oops" /\ ~board_info_exit
  BY <1>7 DEF Refs, Fresh
<1>8. CASE /\ create_board_proc \/ create_instance_board_id_mmap \/ cdev_init \/ pci_register_driver
           /\ mod' # "oops"
  <2>1. /\ mod \in Fresh /\ UNCHANGED <<pc, gen, left, files>>
        /\ hist'.removed = hist.removed /\ hist'.kept = hist.kept
    BY <1>1, <1>8, HistFields DEF create_board_proc, create_instance_board_id_mmap, cdev_init,
       pci_register_driver, Works, Fails, Oops, Fresh, vars
  <2>2. mod # "oops" /\ (mod = "in" => FALSE)
    BY <2>1 DEF Fresh
  <2> QED
    BY <1>1, <1>2, <1>3, <2>1, <2>2 DEF Refs
<1>9. CASE (pci_unregister_driver \/ cdev_exit) /\ mod' # "oops"
  <2>1. /\ mod \in {"unregister", "cdev_exit"} /\ mod' \notin Fresh
        /\ UNCHANGED <<pc, gen, left, files, hist>>
    BY <1>9 DEF pci_unregister_driver, cdev_exit, Oops, Fresh, vars
  <2> QED
    BY <1>1, <1>2, <1>3, <2>1 DEF Refs
<1> QED
  BY <1>4, <1>5, <1>6, <1>7, <1>8, <1>9 DEF load, unload

LEMMA StepRefs == ModInv /\ [ModNext]_allVars => Refs'
<1> SUFFICES ASSUME ModInv, [ModNext]_allVars PROVE Refs'
  OBVIOUS
<1>1. CASE stale_use \/ \E d \in Devs : probe_fault(d) \/ remove_fault(d)
  BY <1>1 DEF stale_use, probe_fault, remove_fault, Oops, Refs, Fresh
<1>2. CASE \/ \E f \in files : close_file(f)
           \/ UNCHANGED allVars
  <2>1. UNCHANGED <<pc, gen, left, mod, hist>> /\ files' \subseteq files
    BY <1>2 DEF close_file, close, modVars, allVars, vars
  <2> QED
    BY <2>1 DEF ModInv, Refs, EntryOK, FileOK
<1> QED
  BY <1>1, <1>2, Refs_probe, Refs_begin_probe, Refs_remove, Refs_open_file, Refs_module DEF ModNext
-----------------------------------------------------------------------------
(* Each way to die, with the invariant that gives its cause.               *)
LEMMA StepCause == ModInv /\ [ModNext]_allVars => OopsHasCause'
<1> SUFFICES ASSUME ModInv, [ModNext]_allVars, mod' = "oops" PROVE OopsHasCause'
  BY DEF OopsHasCause
<1>1. TypeOK /\ Globals /\ Refs /\ OopsHasCause
  BY DEF ModInv, Inv, LoadInv
<1>2. CASE UNCHANGED allVars
  BY <1>1, <1>2 DEF OopsHasCause, allVars, modVars
<1>3. CASE \E d \in Devs : probe_fault(d) \/ remove_fault(d)
  <2>1. PICK d \in Devs : probe_fault(d) \/ remove_fault(d)
    BY <1>3
  <2>2. mod \in {"in", "unregister"} /\ UNCHANGED <<hist, glob>>
    BY <2>1 DEF probe_fault, remove_fault, Oops, Loaded
  <2>3. CASE fault' = "globals"
    <3>1. ~glob.es_cdev \/ DanglingDir \/ glob.class = "err"
      BY <2>1, <2>3 DEF probe_fault, remove_fault, Oops, ProbeFaults, NoCdev
    <3> QED
      BY <1>1, <2>2, <2>3, <3>1 DEF Globals, OopsHasCause
  <2>4. CASE fault' = "list_del"
    <3>1. pc[d] = "list_del"
      BY <2>1, <2>4 DEF probe_fault, remove_fault, Oops
    <3> QED
      BY <1>1, <2>2, <2>4, <3>1 DEF Refs, RemoveLabels, OopsHasCause
  <2> QED
    BY <2>1, <2>3, <2>4 DEF probe_fault, remove_fault, Oops
<1>4. CASE stale_use
  <2>1. mod # "oops" /\ UNCHANGED <<hist, glob>>
    BY <1>4 DEF stale_use, Oops
  <2>2. CASE fault' = "entry"
    <3>1. PICK d \in Devs : \E g \in left[d].proc : Stale(d, g)
      BY <1>4, <2>2 DEF stale_use, Oops
    <3>2. pc[d] \in Up => "xpdev" \in mem[d]
      BY DEF ModInv, Inv, Shape, Publishing, Mapped, Owned, Up
    <3>3. ~EntryOK(d)
      BY <3>1, <3>2 DEF EntryOK, Stale
    <3> QED
      BY <1>1, <2>1, <2>2, <3>3 DEF Refs, OopsHasCause
  <2>3. CASE fault' = "file"
    <3>1. PICK f \in files : Loaded => Stale(f[1], f[2])
      BY <1>4, <2>3 DEF stale_use, Oops
    <3>2. f[1] \in Devs
      BY <1>1 DEF TypeOK
    <3>3. pc[f[1]] \in LiveLabels => "xpdev" \in mem[f[1]]
      BY <3>2 DEF ModInv, Inv, Shape, Publishing, Mapped, Owned, LiveLabels
    <3>4. CASE Loaded
      <4>1. ~FileOK(f)
        BY <3>1, <3>3, <3>4 DEF Stale, FileOK
      <4> QED
        BY <1>1, <2>1, <2>3, <4>1 DEF Refs, OopsHasCause
    <3>5. CASE ~Loaded
      BY <1>1, <2>1, <2>3, <3>5 DEF Refs, OopsHasCause, Loaded
    <3> QED
      BY <3>4, <3>5
  <2>4. CASE fault' = "tree"
    <3>1. ~glob.parent_dir /\ {"boards", "mapping"} \intersect names # {}
      BY <1>4, <2>4 DEF stale_use, Oops
    <3> QED
      BY <1>1, <2>1, <2>4, <3>1 DEF Globals, OopsHasCause
  <2> QED
    BY <1>4, <2>2, <2>3, <2>4 DEF stale_use, Oops
<1>5. CASE load \/ unload
  <2>1. CASE board_info_exit
    BY <1>1, <2>1 DEF board_info_exit, OopsHasCause
  <2>2. CASE cdev_exit
    BY <1>1, <2>2 DEF cdev_exit, Oops, Globals, OopsHasCause
  <2>3. CASE create_instance_board_id_mmap
    BY <1>1, <2>3 DEF create_instance_board_id_mmap, Oops, Globals, OopsHasCause
  <2> QED
    BY <1>5, <2>1, <2>2, <2>3 DEF load, unload, init_board_info, create_board_proc, cdev_init,
       pci_register_driver, mod_exit, pci_unregister_driver
<1>6. CASE \E d \in Devs : begin_probe(d) \/ probe(d) \/ begin_remove(d) \/ remove(d) \/ open_file(d)
  BY <1>6 DEF begin_probe, probe, begin_remove, remove, open_file, modVars, Loaded
<1>7. CASE \E f \in files : close_file(f)
  BY <1>7 DEF close_file, modVars
<1> QED
  BY <1>2, <1>3, <1>4, <1>5, <1>6, <1>7 DEF ModNext

LEMMA StepMod == ModInv /\ [ModNext]_allVars => ModInv'
<1>1. ModInv => Inv /\ LoadInv
  BY DEF ModInv
<1> QED
  BY <1>1, PciInv, StepLoad, StepRefs, StepCause, StepNumbers DEF ModInv

LEMMA ModAlways == ModSpec => []ModInv
  BY InitMod, StepMod, PTL DEF ModSpec

(* The kernel does not die of this driver without a cause: a part of the   *)
(* load that failed and was not looked at, a list from vmalloc(), a board  *)
(* that was removed, a file open over an unload, or an aborted load; for   *)
(* any number of boards, probes and loads.                                 *)
THEOREM OopsTheorem == ModSpec => []OopsHasCause
<1>1. ModInv => OopsHasCause
  BY DEF ModInv
<1> QED
  BY <1>1, ModAlways, PTL

(* A board goes live with a device number inside a region of this load, as *)
(* long as majors and minors suffice for the boards probed since.          *)
THEOREM LiveNumberTheorem == ModSpec => []LiveHasNumber
<1>1. ModInv => LiveHasNumber
  <2> SUFFICES ASSUME ModInv, NEW d \in Devs, kern[d].cdev
               PROVE  /\ hist.whole /\ BOARD_TEPE_NUM * loads <= MaxMajors => majors = BOARD_TEPE_NUM
                      /\ probed <= MINORS => drv[d].inst < MINORS
    BY DEF LiveHasNumber
  <2>1. Numbered(d)
    BY DEF ModInv, Inv, TypeOK, Shape, Acquiring, Unwinding, Publishing, Removing, Bare, Hidden,
           Numbered, Labels, ProbeLabels, RemoveLabels
  <2>2. mod \in {"in", "unregister", "oops"}
    BY <2>1 DEF ModInv, LoadInv, Idle, Numbered
  <2>3. pc[d] # "unbound"
    BY <2>1 DEF Numbered
  <2>4. drv[d].inst < probed /\ drv[d].inst \in Nat /\ probed \in Nat /\ MINORS \in Nat
    BY <2>1, ModAssumption DEF ModInv, Numbers, LoadInv, ModTypeOK, Inv, TypeOK, DrvType
  <2> QED
    BY <2>2, <2>3, <2>4 DEF ModInv, LoadInv, Regions
<1> QED
  BY <1>1, ModAlways, PTL
-----------------------------------------------------------------------------
(* The counters are reset while nothing is numbered, so that numbers stay  *)
(* apart over reloads.                                                     *)
LEMMA ReloadNum == ASSUME SerialProbe PROVE ModSpec => []NumInv
<1>1. ModInv /\ NumInv /\ [ModNext]_allVars => NumInv'
  <2> SUFFICES ASSUME ModInv, NumInv, [ModNext]_allVars PROVE NumInv'
    OBVIOUS
  <2>1. CASE [Next]_vars
    BY <2>1, StepNum DEF ModInv
  <2>2. CASE init_board_info
    <3>1. /\ TypeOK /\ \A d \in Devs : pc[d] = "unbound"
      BY <2>2 DEF init_board_info, ModInv, LoadInv, Idle, Inv
    <3>2. pc' = pc /\ drv' = drv /\ kern' = kern
      BY <2>2, <3>1, ResetFrame
    <3>3. OneProbe' /\ CountInv'
      BY <3>1, <3>2 DEF OneProbe, CountInv, Numbered, ProbeLabels
    <3>4. NameInv'
      BY <3>1, <3>2 DEF NumInv, NameInv, Num
    <3> QED
      BY <3>3, <3>4 DEF NumInv
  <2>3. CASE board_info_exit
    <3>1. pc' = pc /\ drv' = drv /\ kern' = kern /\ scratch' = scratch /\ count' = count
      BY <2>3, ResetFrame DEF ModInv, Inv
    <3> QED
      BY <3>1 DEF NumInv, OneProbe, CountInv, NameInv, Numbered, Num
  <2> QED
    BY <2>1, <2>2, <2>3, PciPart
<1>2. ModInit => NumInv
  BY InitNum DEF ModInit
<1> QED
  BY <1>1, <1>2, ModAlways, PTL DEF ModSpec

(* MinorUnique holds across reloads of the module too, although            *)
(* init_board_info() starts counting from zero again.                      *)
THEOREM ReloadMinorTheorem == ASSUME SerialProbe PROVE ModSpec => []MinorUnique
<1>1. ModInv /\ NumInv => MinorUnique
  <2> SUFFICES ASSUME ModInv, NumInv, NEW d \in Devs, NEW e \in Devs, d # e,
                      kern[d].cdev, kern[e].cdev
               PROVE  <<drv[d].type, drv[d].inst>> # <<drv[e].type, drv[e].inst>>
    BY DEF MinorUnique
  <2>1. \A x \in Devs : kern[x].cdev => Numbered(x)
    BY DEF ModInv, Inv, TypeOK, Shape, Acquiring, Unwinding, Publishing, Removing, Bare, Hidden,
           Numbered, Labels, ProbeLabels, RemoveLabels
  <2> QED
    BY <2>1 DEF NumInv, CountInv, Num
<1> QED
  BY <1>1, ReloadNum, ModAlways, PTL

(* Nor does a reload let a node carry the name of another board.           *)
THEOREM ReloadNodeTheorem == ASSUME SerialProbe PROVE ModSpec => []NodeNamedAfterBoard
<1>1. NumInv => NodeNamedAfterBoard
  BY DEF NumInv, NameInv, NodeNamedAfterBoard, Num
<1> QED
  BY <1>1, ReloadNum, PTL
=============================================================================
