------------------------------ MODULE PciProbe ------------------------------
(***************************************************************************)
(* Binding of a VI53xx board to the driver: xdma_probe() and xdma_remove() *)
(* of vi53xx_xdma_drv.c with the character device of vi53xx_cndev_core.c   *)
(* and the instance counters of board_info.c.                              *)
(*                                                                         *)
(* A probe is a sequence of acquisitions any of which may fail; a failed   *)
(* one jumps into a ladder of labels that undo the earlier ones.  pc[d] is *)
(* the statement device d is about to execute, and one action is one call  *)
(* that acquires, releases or publishes something.  Different devices are  *)
(* probed and removed by different threads, so their steps interleave.     *)
(*                                                                         *)
(* Two views of the same device are kept apart: drv[d] is what the driver  *)
(* recorded in its structures (flags and pointers, the things its guards   *)
(* read), kern[d] is what the kernel handed out to it (the ledger).        *)
(***************************************************************************)
EXTENDS Integers, FiniteSets

CONSTANTS
  Devs,         \* PCI functions that match pci_ids
  BarNum,       \* XDMA_BAR_NUM
  Present,      \* BARs of non-zero length
  ChanNum,      \* channels set up: 1 = C2H CH1, 2 = H2C CH1, 3 = C2H CH2
  KnownTypes,   \* board types of vi53xx_inca_board_name_list
  UnknownType,  \* what any other board type register reads as
  SerialProbe,  \* TRUE: the driver core probes one device at a time
  MaxGen        \* bound: probes started per device

ASSUME PciAssumption ==
  /\ BarNum \in Nat /\ BarNum > 1
  /\ Present \subseteq 0 .. BarNum - 1 /\ {0, 1} \subseteq Present
  /\ ChanNum \in Nat \ {0}
  /\ UnknownType \notin KnownTypes
  /\ SerialProbe \in BOOLEAN
  /\ MaxGen \in Nat

VARIABLES
  pc,       \* pc[d]: the statement d's probe or remove executes next
  idx,      \* idx[d]: loop index of map_bars / xdma_channel_init
  mem,      \* mem[d]: kmalloc'ed structures, a subset of {"xpdev", "xdev"}
  drv,      \* drv[d]: fields of xdma_dev and xdma_pci_dev
  kern,     \* kern[d]: what the kernel holds on behalf of d
  count,    \* count[t]: vi53xx_inca_board_name_list[t].count
  scratch,  \* es_cdev->device_name, shared by all probes: <<type, instance>>
  listed,   \* devices whose xpdev is linked into pcie_device_list
  drvdata,  \* devices with dev_get_drvdata() # NULL
  gen,      \* gen[d]: probes started, the identity of the current xpdev
  files,    \* open files: <<d, g>> holds private_data = xcdev of probe g
  left      \* left[d]: the probes of d that left a kobject name or a /proc entry

vars == <<pc, idx, mem, drv, kern, count, scratch, listed, drvdata, gen, files, left>>

Types == KnownTypes \union {UnknownType}
NoName == <<UnknownType, 0>>
Names == Types \X Nat

ProbeLabels == {"device_map", "enable", "regions", "map_bars", "dma_mask",
                "err_mask", "err_map", "err_regions", "free_xdev", "err_out",
                "create_cdev", "count", "name", "cdev_add", "sys_device",
                "channel_init", "list_add", "set_drvdata"}
RemoveLabels == {"free_resource", "xpdev_free", "list_del", "clear_drvdata"}
Labels == {"unbound", "bound"} \union ProbeLabels \union RemoveLabels

(* struct xdma_dev and xdma_pci_dev as kzalloc/memset leave them.          *)
ZeroDrv == [xdev |-> FALSE, got_regions |-> FALSE, regions_in_use |-> FALSE,
            bar |-> {}, pData |-> {}, desc |-> {}, CDEV_CTRL |-> FALSE,
            type |-> UnknownType, inst |-> 0]
(* A device for which the kernel holds nothing but n enables.  refused     *)
(* counts the probes whose pci_request_regions() was refused, after each of*)
(* which the driver leaves the device enabled on purpose.  What no function*)
(* of the driver ever gives back is kept apart, in left.                   *)
OnlyEnabled(n) == [enabled |-> n, regions |-> FALSE, iomap |-> {}, data |-> {}, desc |-> {},
                   cdev |-> FALSE, node |-> NoName, refused |-> n]

Init ==
  /\ pc = [d \in Devs |-> "unbound"]
  /\ idx = [d \in Devs |-> 0]
  /\ mem = [d \in Devs |-> {}]
  /\ drv = [d \in Devs |-> ZeroDrv]
  /\ kern = [d \in Devs |-> OnlyEnabled(0)]
  /\ count = [t \in KnownTypes |-> 0]
  /\ scratch = NoName
  /\ listed = {}
  /\ drvdata = {}
  /\ gen = [d \in Devs |-> 0]
  /\ files = {}
  /\ left = [d \in Devs |-> [names |-> {}, proc |-> {}]]

Goto(d, from, to) == pc[d] = from /\ pc' = [pc EXCEPT ![d] = to]
-----------------------------------------------------------------------------
(* xdma_probe() up to xdma_device_map().  Returning -ENOMEM leaves the     *)
(* device unbound.                                                         *)
xpdev_alloc(d) ==
  /\ gen[d] < MaxGen
  /\ SerialProbe => \A e \in Devs : pc[e] \notin ProbeLabels
  /\ \/ /\ Goto(d, "unbound", "device_map")
        /\ mem' = [mem EXCEPT ![d] = @ \union {"xpdev"}]
        /\ drv' = [drv EXCEPT ![d] = ZeroDrv]
     \/ /\ Goto(d, "unbound", "unbound")
        /\ UNCHANGED <<mem, drv>>
  /\ gen' = [gen EXCEPT ![d] = @ + 1]
  /\ UNCHANGED <<idx, kern, count, scratch, listed, drvdata, files, left>>

alloc_dev_instance(d) ==
  /\ \/ Goto(d, "device_map", "enable") /\ mem' = [mem EXCEPT ![d] = @ \union {"xdev"}]
     \/ Goto(d, "device_map", "err_out") /\ UNCHANGED mem
  /\ UNCHANGED <<idx, drv, kern, count, scratch, listed, drvdata, gen, files, left>>

pci_enable_device(d) ==
  /\ \/ Goto(d, "enable", "regions") /\ kern' = [kern EXCEPT ![d].enabled = @ + 1]
     \/ Goto(d, "enable", "free_xdev") /\ UNCHANGED kern
  /\ UNCHANGED <<idx, mem, drv, count, scratch, listed, drvdata, gen, files, left>>

request_regions(d) ==
  /\ \/ /\ Goto(d, "regions", "map_bars")
        /\ drv' = [drv EXCEPT ![d].got_regions = TRUE]
        /\ kern' = [kern EXCEPT ![d].regions = TRUE]
     \/ /\ Goto(d, "regions", "err_regions")
        /\ drv' = [drv EXCEPT ![d].regions_in_use = TRUE]
        /\ kern' = [kern EXCEPT ![d].refused = @ + 1]
  /\ idx' = [idx EXCEPT ![d] = 0]
  /\ UNCHANGED <<mem, count, scratch, listed, drvdata, gen, files, left>>

(* Mutant: the bar[] pointers survive iounmap().                           *)
unmap_bars_keep_pointers(d) ==
  /\ kern' = [kern EXCEPT ![d].iomap = @ \ drv[d].bar]
  /\ UNCHANGED drv

(* unmap_bars(): iounmap what the bar[] pointers name and clear them.      *)
unmap_bars(d) ==
  /\ drv' = [drv EXCEPT ![d].bar = {}]
  /\ kern' = [kern EXCEPT ![d].iomap = @ \ drv[d].bar]

(* One iteration of map_bars(): a BAR of length 0 is skipped, a failing    *)
(* pci_iomap unwinds the BARs mapped so far.                               *)
map_single_bar(d) ==
  /\ idx[d] < BarNum
  /\ \/ /\ Goto(d, "map_bars", "map_bars")
        /\ idx' = [idx EXCEPT ![d] = @ + 1]
        /\ IF idx[d] \in Present
           THEN /\ drv' = [drv EXCEPT ![d].bar = @ \union {idx[d]}]
                /\ kern' = [kern EXCEPT ![d].iomap = @ \union {idx[d]}]
           ELSE UNCHANGED <<drv, kern>>
     \/ /\ idx[d] \in Present
        /\ Goto(d, "map_bars", "err_map")
        /\ unmap_bars(d)
        /\ UNCHANGED idx
  /\ UNCHANGED <<mem, count, scratch, listed, drvdata, gen, files, left>>

map_bars_done(d) ==
  /\ idx[d] = BarNum
  /\ Goto(d, "map_bars", "dma_mask")
  /\ UNCHANGED <<idx, mem, drv, kern, count, scratch, listed, drvdata, gen, files, left>>

(* set_dma_mask(), and xpdev->xdev = xdev once xdma_device_map() returned. *)
set_dma_mask(d) ==
  /\ \/ Goto(d, "dma_mask", "create_cdev") /\ drv' = [drv EXCEPT ![d].xdev = TRUE]
     \/ Goto(d, "dma_mask", "err_mask") /\ UNCHANGED drv
  /\ UNCHANGED <<idx, mem, kern, count, scratch, listed, drvdata, gen, files, left>>

(* The error ladder of xdma_device_map().                                  *)
err_mask(d) ==
  /\ Goto(d, "err_mask", "err_map")
  /\ unmap_bars(d)
  /\ UNCHANGED <<idx, mem, count, scratch, listed, drvdata, gen, files, left>>

(* Mutant: the ladder forgets pci_release_regions().                       *)
err_map_no_release(d) ==
  /\ Goto(d, "err_map", "err_regions")
  /\ UNCHANGED <<idx, mem, drv, kern, count, scratch, listed, drvdata, gen, files, left>>

err_map(d) ==
  /\ Goto(d, "err_map", "err_regions")
  /\ kern' = IF drv[d].got_regions THEN [kern EXCEPT ![d].regions = FALSE] ELSE kern
  /\ UNCHANGED <<idx, mem, drv, count, scratch, listed, drvdata, gen, files, left>>

err_regions(d) ==
  /\ Goto(d, "err_regions", "free_xdev")
  /\ kern' = IF drv[d].regions_in_use THEN kern ELSE [kern EXCEPT ![d].enabled = @ - 1]
  /\ UNCHANGED <<idx, mem, drv, count, scratch, listed, drvdata, gen, files, left>>

free_xdev(d) ==
  /\ Goto(d, "free_xdev", "err_out")
  /\ mem' = [mem EXCEPT ![d] = @ \ {"xdev"}]
  /\ UNCHANGED <<idx, drv, kern, count, scratch, listed, drvdata, gen, files, left>>

(* xpdev_free(): xdma_device_umap() when xpdev->xdev is set, then kfree.   *)
xpdev_free(d) ==
  /\ mem' = [mem EXCEPT ![d] = IF drv[d].xdev THEN {} ELSE @ \ {"xpdev"}]
  /\ kern' = IF drv[d].xdev
             THEN [kern EXCEPT ![d].iomap = @ \ drv[d].bar,
                               ![d].regions = @ /\ ~drv[d].got_regions,
                               ![d].enabled = IF drv[d].regions_in_use THEN @ ELSE @ - 1]
             ELSE kern
  /\ drv' = [drv EXCEPT ![d] = ZeroDrv]

err_out(d) ==
  /\ Goto(d, "err_out", "unbound")
  /\ xpdev_free(d)
  /\ UNCHANGED <<idx, count, scratch, listed, drvdata, gen, files, left>>
-----------------------------------------------------------------------------
(* create_cdev().  An unknown type register makes get_board_instance()     *)
(* return (unsigned)-1, which is not < 0; get_board_name() then fails.     *)
(* count++ is a load here and a store in count_store: nothing locks it.    *)
create_cdev(d) ==
  /\ \E t \in Types :
       /\ drv' = [drv EXCEPT ![d].type = t,
                             ![d].inst = IF t \in KnownTypes THEN count[t] ELSE @]
       /\ IF t \in KnownTypes THEN Goto(d, "create_cdev", "count")
                              ELSE Goto(d, "create_cdev", "err_out")
  /\ UNCHANGED <<idx, mem, kern, count, scratch, listed, drvdata, gen, files, left>>

(* Mutant: the instance counter does not advance.                          *)
count_store_no_increment(d) ==
  /\ Goto(d, "count", "name")
  /\ UNCHANGED <<idx, mem, drv, kern, count, scratch, listed, drvdata, gen, files, left>>

count_store(d) ==
  /\ Goto(d, "count", "name")
  /\ count' = [count EXCEPT ![drv[d].type] = drv[d].inst + 1]
  /\ UNCHANGED <<idx, mem, drv, kern, scratch, listed, drvdata, gen, files, left>>

(* Mutant: the node is named after the counter, already advanced.          *)
device_name_after_increment(d) ==
  /\ Goto(d, "name", "cdev_add")
  /\ scratch' = <<drv[d].type, count[drv[d].type]>>
  /\ UNCHANGED <<idx, mem, drv, kern, count, listed, drvdata, gen, files, left>>

(* sprintf(es_cdev->device_name, ...): one buffer for every probe.         *)
device_name(d) ==
  /\ Goto(d, "name", "cdev_add")
  /\ scratch' = <<drv[d].type, drv[d].inst>>
  /\ UNCHANGED <<idx, mem, drv, kern, count, listed, drvdata, gen, files, left>>

(* kobject_set_name() allocates the name of the embedded kobject, which    *)
(* cdev_init() then wipes with the rest of the cdev: from there on nobody  *)
(* can free it.  Either it or cdev_add() may fail; success makes it live.  *)
cdev_add(d) ==
  /\ \/ Goto(d, "cdev_add", "err_out") /\ UNCHANGED <<kern, left>>
     \/ /\ left' = [left EXCEPT ![d].names = @ \union {gen[d]}]
        /\ \/ Goto(d, "cdev_add", "sys_device") /\ kern' = [kern EXCEPT ![d].cdev = TRUE]
           \/ Goto(d, "cdev_add", "err_out") /\ UNCHANGED kern
  /\ UNCHANGED <<idx, mem, drv, count, scratch, listed, drvdata, gen, files>>

(* device_create() names the /dev node after the shared buffer; its failure*)
(* is an ERR_PTR, which create_sys_device() takes for success.  The /proc  *)
(* entry that follows may fail too and is ignored.  CDEV_CTRL is set.      *)
create_sys_device(d) ==
  /\ Goto(d, "sys_device", "channel_init")
  /\ \E name \in {scratch, NoName} : kern' = [kern EXCEPT ![d].node = name]
  /\ \E made \in SUBSET {gen[d]} : left' = [left EXCEPT ![d].proc = @ \union made]
  /\ drv' = [drv EXCEPT ![d].CDEV_CTRL = TRUE]
  /\ idx' = [idx EXCEPT ![d] = 1]
  /\ UNCHANGED <<mem, count, scratch, listed, drvdata, gen, files>>

(* Mutant: one channel too many is set up.                                 *)
channel_init_off_by_one(d) ==
  /\ idx[d] <= ChanNum + 1
  /\ Goto(d, "channel_init", "channel_init")
  /\ \E data, desc \in SUBSET {idx[d]} :
       /\ drv' = [drv EXCEPT ![d].pData = @ \union data, ![d].desc = @ \union desc]
       /\ kern' = [kern EXCEPT ![d].data = @ \union data, ![d].desc = @ \union desc]
  /\ idx' = [idx EXCEPT ![d] = @ + 1]
  /\ UNCHANGED <<mem, count, scratch, listed, drvdata, gen, files, left>>

(* One _xdma_channel_init(): the data buffer and the descriptor memory are *)
(* allocated independently, and a failure of either is not reported.       *)
channel_init(d) ==
  /\ idx[d] <= ChanNum
  /\ Goto(d, "channel_init", "channel_init")
  /\ \E data, desc \in SUBSET {idx[d]} :
       /\ drv' = [drv EXCEPT ![d].pData = @ \union data, ![d].desc = @ \union desc]
       /\ kern' = [kern EXCEPT ![d].data = @ \union data, ![d].desc = @ \union desc]
  /\ idx' = [idx EXCEPT ![d] = @ + 1]
  /\ UNCHANGED <<mem, count, scratch, listed, drvdata, gen, files, left>>

channel_init_done(d) ==
  /\ idx[d] > ChanNum
  /\ Goto(d, "channel_init", "list_add")
  /\ UNCHANGED <<idx, mem, drv, kern, count, scratch, listed, drvdata, gen, files, left>>

list_add(d) ==
  /\ Goto(d, "list_add", "set_drvdata")
  /\ listed' = listed \union {d}
  /\ UNCHANGED <<idx, mem, drv, kern, count, scratch, drvdata, gen, files, left>>

set_drvdata(d) ==
  /\ Goto(d, "set_drvdata", "bound")
  /\ drvdata' = drvdata \union {d}
  /\ UNCHANGED <<idx, mem, drv, kern, count, scratch, listed, gen, files, left>>
-----------------------------------------------------------------------------
(* Mutants: cdev_del() is forgotten; drvdata is cleared right away.        *)
dev_clean_no_cdev_del(d) ==
  /\ d \in drvdata
  /\ Goto(d, "bound", "free_resource")
  /\ kern' = [kern EXCEPT ![d].node = NoName]
  /\ UNCHANGED <<idx, mem, drv, count, scratch, listed, drvdata, gen, files, left>>
dev_clean_early_clear(d) ==
  /\ d \in drvdata
  /\ Goto(d, "bound", "free_resource")
  /\ kern' = [kern EXCEPT ![d].cdev = FALSE, ![d].node = NoName]
  /\ drvdata' = drvdata \ {d}
  /\ UNCHANGED <<idx, mem, drv, count, scratch, listed, gen, files, left>>

(* xdma_remove(): vi53xx_dev_clean() takes the device node and the cdev    *)
(* down if CDEV_CTRL is set ...                                            *)
dev_clean(d) ==
  /\ d \in drvdata
  /\ Goto(d, "bound", "free_resource")
  /\ kern' = IF drv[d].CDEV_CTRL
             THEN [kern EXCEPT ![d].cdev = FALSE, ![d].node = NoName] ELSE kern
  /\ UNCHANGED <<idx, mem, drv, count, scratch, listed, drvdata, gen, files, left>>

(* ... xdma_free_resource() frees what the pointers name ...               *)
free_resource(d) ==
  /\ Goto(d, "free_resource", "xpdev_free")
  /\ kern' = [kern EXCEPT ![d].data = @ \ drv[d].pData, ![d].desc = @ \ drv[d].desc]
  /\ drv' = [drv EXCEPT ![d].pData = {}, ![d].desc = {}]
  /\ UNCHANGED <<idx, mem, count, scratch, listed, drvdata, gen, files, left>>

remove_free(d) ==
  /\ Goto(d, "xpdev_free", "list_del")
  /\ xpdev_free(d)
  /\ UNCHANGED <<idx, count, scratch, listed, drvdata, gen, files, left>>

(* Mutant: the list node stays linked.                                     *)
list_del_forgotten(d) ==
  /\ Goto(d, "list_del", "clear_drvdata")
  /\ UNCHANGED <<idx, mem, drv, kern, count, scratch, listed, drvdata, gen, files, left>>

(* ... and list_del() comes after kfree(xpdev), which holds the list node. *)
list_del(d) ==
  /\ Goto(d, "list_del", "clear_drvdata")
  /\ listed' = listed \ {d}
  /\ UNCHANGED <<idx, mem, drv, kern, count, scratch, drvdata, gen, files, left>>

clear_drvdata(d) ==
  /\ Goto(d, "clear_drvdata", "unbound")
  /\ drvdata' = drvdata \ {d}
  /\ UNCHANGED <<idx, mem, drv, kern, count, scratch, listed, gen, files, left>>
-----------------------------------------------------------------------------
(* vi53xx_open() on a live character device; closing needs no handler.     *)
vi53xx_open(d) ==
  /\ kern[d].cdev
  /\ files' = files \union {<<d, gen[d]>>}
  /\ UNCHANGED <<pc, idx, mem, drv, kern, count, scratch, listed, drvdata, gen, left>>

close(f) ==
  /\ files' = files \ {f}
  /\ UNCHANGED <<pc, idx, mem, drv, kern, count, scratch, listed, drvdata, gen, left>>

Probe(d) ==
  \/ alloc_dev_instance(d) \/ pci_enable_device(d) \/ request_regions(d)
  \/ map_single_bar(d) \/ map_bars_done(d) \/ set_dma_mask(d)
  \/ err_mask(d) \/ err_map(d) \/ err_regions(d) \/ free_xdev(d) \/ err_out(d)
  \/ create_cdev(d) \/ count_store(d) \/ device_name(d) \/ cdev_add(d)
  \/ create_sys_device(d) \/ channel_init(d) \/ channel_init_done(d)
  \/ list_add(d) \/ set_drvdata(d)

Remove(d) == free_resource(d) \/ remove_free(d) \/ list_del(d) \/ clear_drvdata(d)

Next ==
  \/ \E d \in Devs : xpdev_alloc(d) \/ Probe(d) \/ dev_clean(d) \/ Remove(d) \/ vi53xx_open(d)
  \/ \E f \in files : close(f)

Spec == Init /\ [][Next]_vars
-----------------------------------------------------------------------------
DrvType ==
  [xdev : BOOLEAN, got_regions : BOOLEAN, regions_in_use : BOOLEAN,
   bar : SUBSET (0 .. BarNum - 1), pData : SUBSET (1 .. ChanNum), desc : SUBSET (1 .. ChanNum),
   CDEV_CTRL : BOOLEAN, type : Types, inst : Nat]
KernType ==
  [enabled : Int, regions : BOOLEAN, iomap : SUBSET (0 .. BarNum - 1),
   data : SUBSET (1 .. ChanNum), desc : SUBSET (1 .. ChanNum),
   cdev : BOOLEAN, node : Names, refused : Nat]
LeftType == [names : SUBSET Nat, proc : SUBSET Nat]

TypeOK ==
  /\ pc \in [Devs -> Labels]
  /\ idx \in [Devs -> Nat]
  /\ mem \in [Devs -> SUBSET {"xpdev", "xdev"}]
  /\ drv \in [Devs -> DrvType]
  /\ kern \in [Devs -> KernType]
  /\ count \in [KnownTypes -> Nat]
  /\ scratch \in Names
  /\ listed \in SUBSET Devs
  /\ drvdata \in SUBSET Devs
  /\ gen \in [Devs -> Nat]
  /\ files \in SUBSET (Devs \X Nat)
  /\ left \in [Devs -> LeftType]

(* What xdma_probe()'s error ladder and xdma_remove() give back, and what  *)
(* they do not: a device that is not bound has no memory, region, mapping, *)
(* DMA buffer, node or cdev left and is linked nowhere.  What stays behind *)
(* is one enable for every probe that found its regions in use (on purpose,*)
(* says the comment in request_regions) and, by oversight, at most one     *)
(* kobject name per probe and at most one /proc entry, of a probe that left*)
(* its name too.                                                           *)
ResourcesReturned ==
  \A d \in Devs : pc[d] = "unbound" =>
    /\ mem[d] = {}
    /\ kern[d] = OnlyEnabled(kern[d].refused)
    /\ kern[d].refused + Cardinality(left[d].names) <= gen[d]
    /\ left[d].proc \subseteq left[d].names
    /\ d \notin listed /\ d \notin drvdata

(* What the unwinding code is going to test is what the kernel holds: while*)
(* the xdma_dev exists (and until the tail of the ladder, which does not   *)
(* look any more) got_regions, bar[], pData[] and pFirst_desc name exactly *)
(* the regions, mappings and DMA memory held, so no release is skipped and *)
(* none is issued twice.                                                   *)
FlagsAgree ==
  \A d \in Devs : "xdev" \in mem[d] /\ pc[d] \notin {"err_regions", "free_xdev"} =>
    /\ drv[d].got_regions = kern[d].regions
    /\ drv[d].bar = kern[d].iomap
    /\ drv[d].pData = kern[d].data /\ drv[d].desc = kern[d].desc
    /\ kern[d].enabled >= kern[d].refused

(* vi53xx_open/ioctl run as soon as cdev_add() returns and until cdev_del()*)
(* does: throughout, both structures exist, every BAR the ioctls access is *)
(* mapped, the regions are owned and the device is enabled.                *)
LiveCdevUsable ==
  \A d \in Devs : kern[d].cdev =>
    /\ mem[d] = {"xpdev", "xdev"} /\ drv[d].xdev
    /\ kern[d].iomap = Present /\ kern[d].regions
    /\ kern[d].enabled > kern[d].refused

(* The nodes boards_show() and mapping_show() walk belong to allocated     *)
(* xpdevs, except between xpdev_free() and list_del() of that very device; *)
(* drvdata dangles no longer than until the end of the remove.             *)
ListDanglesOnlyInRemove ==
  \A d \in Devs :
    /\ d \in listed /\ pc[d] # "list_del" => "xpdev" \in mem[d]
    /\ d \in drvdata /\ pc[d] \notin {"list_del", "clear_drvdata"} => "xpdev" \in mem[d]

(* get_board_instance() numbers boards of one type apart: two live cdevs   *)
(* never share a device number, however boards came and went before.       *)
MinorUnique ==
  \A d, e \in Devs : d # e /\ kern[d].cdev /\ kern[e].cdev =>
    <<drv[d].type, drv[d].inst>> # <<drv[e].type, drv[e].inst>>

(* device_create() reads the name that the same probe wrote into the shared*)
(* es_cdev->device_name: the /dev node of a board carries its own number.  *)
NodeNamedAfterBoard ==
  \A d \in Devs : kern[d].node \in {NoName, <<drv[d].type, drv[d].inst>>}

(* vi53xx_open(): "create a reference to our char device in the opened     *)
(* file".  If it were a reference, the xcdev (inside xpdev) named by an    *)
(* open file's private_data would exist as long as the file is open.       *)
FileRefLive ==
  \A f \in files : gen[f[1]] = f[2] /\ "xpdev" \in mem[f[1]]

(* The lifecycle the rest of the system may count on, with the state of a  *)
(* board read off what is published and what is allocated.                 *)
LifeState(d) ==
  IF kern[d].cdev THEN "live"
  ELSE IF d \in drvdata THEN "teardown"
  ELSE IF mem[d] # {} THEN "setup" ELSE "absent"

Life == INSTANCE BoardLife WITH state <- [d \in Devs |-> LifeState(d)]

(* PciProbe implements BoardLife: once its cdev is down, a board does not  *)
(* come up again before its teardown is complete.                          *)
LifeSpec == Life!Spec
=============================================================================
