------------------------------ MODULE ParMatrix ------------------------------
(***************************************************************************)
(* The parameter matrix of libvi53xx (pmt in lib/vi53xx_xdma.c): read from *)
(* a file by set_parvar_mat_path(), handed out as a bare pointer by        *)
(* get_parvar_data(), and released by every vi53xx_device_close() and every*)
(* free_board_info(), whichever board they are of.  Nothing is locked.     *)
(*                                                                         *)
(* The n-th call of set_parvar_mat_path() allocates file n, and with the   *)
(* two reads of matio the variables "tmp" n, which nobody ever frees, and  *)
(* "var" n, whose data is what get_parvar_data() answers.  0 is NULL.      *)
(*                                                                         *)
(* cause records what led there:                                           *)
(*   "overlap" a set or a release began while another was under way,       *)
(*   "reset"   the path was set again without a release in between,        *)
(*   "unread"  Mat_VarRead() answered NULL,                                *)
(*   "kept"    data was used after, or obtained during, a release.         *)
(***************************************************************************)
EXTENDS Naturals

CONSTANTS
  Threads,
  MaxSets        \* bound: calls of set_parvar_mat_path()

ASSUME ParMatrixAssumption == MaxSets \in Nat

VARIABLES
  pmt,           \* matfile, tmp, matvar and data (0: NULL), data_type
  heap,          \* what is allocated
  sets,          \* calls of set_parvar_mat_path() so far
  mine,          \* the number of each thread's last set
  pc,            \* where each thread is in a set or a release
  held,          \* the data pointer each client has
  kept,          \* the clients whose pointer has outlived a release
  released,      \* no set has been made since the last release ended
  fault,         \* how the process went wrong
  cause

vars == <<pmt, heap, sets, mine, pc, held, kept, released, fault, cause>>

Cleared == [matfile |-> 0, tmp |-> 0, matvar |-> 0, data |-> 0, data_type |-> 0]
Releasing == {"free", "clear", "data", "close", "forget"}

Init ==
  /\ pmt = Cleared /\ heap = {} /\ sets = 0 /\ pc = [t \in Threads |-> "idle"]
  /\ mine = [t \in Threads |-> 0]
  /\ held = [t \in Threads |-> 0] /\ kept = {} /\ released = TRUE /\ fault = "none" /\ cause = {}

At(t, s) == pc[t] = s /\ fault = "none"
Goto(t, s) == pc' = [pc EXCEPT ![t] = s]
Busy == \E u \in Threads : pc[u] # "idle"
Because(c, b) == cause \union (IF b THEN {c} ELSE {})

(* A pointer to n is followed, or n is freed.                              *)
Follow(k, n) ==
  fault' = IF n = 0 THEN "null" ELSE IF <<k, n>> \in heap THEN fault ELSE "use after free"
Dispose(k, n) ==
  /\ heap' = heap \ {<<k, n>>}
  /\ fault' = IF n = 0 \/ <<k, n>> \in heap THEN fault ELSE "double free"
-----------------------------------------------------------------------------
(* set_parvar_mat_path(): memset() clears what was there, released or not. *)
set_parvar_mat_path(t) ==
  /\ At(t, "idle") /\ sets < MaxSets
  /\ sets' = sets + 1 /\ mine' = [mine EXCEPT ![t] = sets + 1]
  /\ pmt' = Cleared /\ released' = FALSE
  /\ cause' = Because("overlap", Busy) \union Because("reset", ~released)
  /\ Goto(t, "open")
  /\ UNCHANGED <<heap, held, kept, fault>>

(* Mat_Open() may fail.                                                    *)
Mat_Open(t) ==
  /\ At(t, "open")
  /\ \/ Goto(t, "idle") /\ UNCHANGED <<pmt, heap>>
     \/ /\ pmt' = [pmt EXCEPT !.matfile = mine[t]] /\ heap' = heap \union {<<"file", mine[t]>>}
        /\ Goto(t, "next")
  /\ UNCHANGED <<sets, mine, held, kept, released, fault, cause>>

(* init_parvar_mat(): the first variable of the file, if it has one ...    *)
Mat_VarReadNext(t) ==
  /\ At(t, "next")
  /\ \/ Goto(t, "idle") /\ UNCHANGED <<pmt, heap>>
     \/ /\ pmt.matfile # 0 /\ pmt' = [pmt EXCEPT !.tmp = mine[t]]
        /\ heap' = heap \union {<<"tmp", mine[t]>>}
        /\ Goto(t, "read")
  /\ IF pmt.matfile = 0 THEN UNCHANGED fault ELSE Follow("file", pmt.matfile)
  /\ UNCHANGED <<sets, mine, held, kept, released, cause>>

(* ... is read by its name, which may fail ...                             *)
Mat_VarRead(t) ==
  /\ At(t, "read")
  /\ \/ /\ pmt' = [pmt EXCEPT !.matvar = 0] /\ cause' = cause \union {"unread"}
        /\ UNCHANGED heap
     \/ /\ pmt.matfile # 0 /\ pmt' = [pmt EXCEPT !.matvar = mine[t]]
        /\ heap' = heap \union {<<"var", mine[t]>>} /\ UNCHANGED cause
  /\ IF pmt.tmp = 0 \/ pmt.matfile = 0 THEN Follow("tmp", pmt.tmp) ELSE Follow("file", pmt.matfile)
  /\ Goto(t, "type")
  /\ UNCHANGED <<sets, mine, held, kept, released>>

(* ... and is followed without a test: its data is the matrix if it is of  *)
(* type uint32.                                                            *)
init_parvar_mat(t) ==
  /\ At(t, "type")
  /\ Follow("var", pmt.matvar)
  /\ \/ pmt' = [pmt EXCEPT !.data = pmt.matvar, !.data_type = 1]
     \/ pmt' = [pmt EXCEPT !.data_type = 0]
  /\ Goto(t, "idle")
  /\ UNCHANGED <<heap, sets, mine, held, kept, released, cause>>
-----------------------------------------------------------------------------
(* release_parvar_mat(), called by a close and by a failed init.           *)
release_parvar_mat(t) ==
  /\ At(t, "idle")
  /\ Goto(t, IF pmt.matvar # 0 THEN "free" ELSE "close")
  /\ cause' = Because("overlap", Busy)
  /\ kept' = {u \in Threads : held[u] # 0}
  /\ UNCHANGED <<pmt, heap, sets, mine, held, released, fault>>

Mat_VarFree(t) ==
  /\ At(t, "free")
  /\ Dispose("var", pmt.matvar)
  /\ Goto(t, "clear")
  /\ UNCHANGED <<pmt, sets, mine, held, kept, released, cause>>

clear_matvar(t) ==
  /\ At(t, "clear")
  /\ pmt' = [pmt EXCEPT !.matvar = 0]
  /\ Goto(t, "data")
  /\ UNCHANGED <<heap, sets, mine, held, kept, released, fault, cause>>

(* Mutant: the pointer to the data of the freed variable stays.            *)
clear_data_not(t) ==
  /\ At(t, "data")
  /\ Goto(t, "close")
  /\ UNCHANGED <<pmt, heap, sets, mine, held, kept, released, fault, cause>>

clear_data(t) ==
  /\ At(t, "data")
  /\ pmt' = [pmt EXCEPT !.data = 0]
  /\ Goto(t, "close")
  /\ UNCHANGED <<heap, sets, mine, held, kept, released, fault, cause>>

(* Mutant: the file is closed when there was a matrix in it.               *)
Mat_Close_with_data(t) ==
  /\ At(t, "close")
  /\ IF pmt.matfile = 0 \/ pmt.data_type = 0
     THEN Goto(t, "idle") /\ released' = TRUE /\ UNCHANGED <<heap, fault>>
     ELSE Goto(t, "forget") /\ Dispose("file", pmt.matfile) /\ UNCHANGED released
  /\ UNCHANGED <<pmt, sets, mine, held, kept, cause>>

Mat_Close(t) ==
  /\ At(t, "close")
  /\ IF pmt.matfile = 0
     THEN Goto(t, "idle") /\ released' = TRUE /\ UNCHANGED <<heap, fault>>
     ELSE Goto(t, "forget") /\ Dispose("file", pmt.matfile) /\ UNCHANGED released
  /\ UNCHANGED <<pmt, sets, mine, held, kept, cause>>

(* data_type, rows, columns and size stay.                                 *)
clear_matfile(t) ==
  /\ At(t, "forget")
  /\ pmt' = [pmt EXCEPT !.matfile = 0] /\ released' = TRUE
  /\ Goto(t, "idle")
  /\ UNCHANGED <<heap, sets, mine, held, kept, fault, cause>>
-----------------------------------------------------------------------------
get_parvar_data(t) ==
  /\ At(t, "idle")
  /\ held' = [held EXCEPT ![t] = pmt.data]
  /\ kept' = IF pmt.data # 0 /\ \E u \in Threads : pc[u] \in Releasing THEN kept \union {t} ELSE kept \ {t}
  /\ UNCHANGED <<pmt, heap, sets, mine, pc, released, fault, cause>>

(* The caller's access to a matrix it was given.                           *)
use_parvar_data(t) ==
  /\ At(t, "idle") /\ held[t] # 0
  /\ Follow("var", held[t])
  /\ cause' = Because("kept", t \in kept)
  /\ UNCHANGED <<pmt, heap, sets, mine, pc, held, kept, released>>

Next ==
  \E t \in Threads :
    \/ set_parvar_mat_path(t) \/ Mat_Open(t) \/ Mat_VarReadNext(t) \/ Mat_VarRead(t)
    \/ init_parvar_mat(t)
    \/ release_parvar_mat(t) \/ Mat_VarFree(t) \/ clear_matvar(t) \/ clear_data(t)
    \/ Mat_Close(t) \/ clear_matfile(t)
    \/ get_parvar_data(t) \/ use_parvar_data(t)

Spec == Init /\ [][Next]_vars
-----------------------------------------------------------------------------
(* A process goes wrong over the matrix for one of these reasons only: two *)
(* threads are in a set or a release at a time, Mat_VarRead() fails (a NULL*)
(* is followed), or a client uses data it obtained before a release (freed *)
(* memory is read).  A variable or a file is freed twice only by threads   *)
(* that overlap: releases in any order and number, also of a matrix never  *)
(* read, or read in part, are harmless, and data obtained after one release*)
(* stays good until the next.                                              *)
CrashHasCause ==
  /\ fault = "double free" => "overlap" \in cause
  /\ fault = "use after free" => cause \intersect {"overlap", "kept"} # {}
  /\ fault = "null" => cause \intersect {"overlap", "unread"} # {}

(* Nothing is lost but the variable Mat_VarReadNext() allocates in each    *)
(* set, as long as every set is followed by a release before the next and  *)
(* calls do not overlap: whatever else is allocated the matrix still points*)
(* to, however far the set had come, and after a release nothing is.       *)
OnlyTmpLost ==
  cause \intersect {"overlap", "reset"} = {} /\ ~Busy /\ fault = "none" =>
    LET pointed == {<<"file", pmt.matfile>>, <<"var", pmt.matvar>>}
    IN heap \ ({"tmp"} \X (1 .. sets)) = IF released THEN {} ELSE pointed \ {<<"file", 0>>, <<"var", 0>>}
=============================================================================
