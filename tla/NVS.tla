-------------------------------- MODULE NVS --------------------------------
(***************************************************************************)
(* The non-volatile storage, subsys/fs/nvs/nvs.c: id-data pairs kept in a   *)
(* ring of flash sectors.  Data grows from the start of a sector, its       *)
(* allocation table entries (ATEs) from the end; the last slot of a sector  *)
(* holds its close ATE.  A full sector is closed, the live pairs of the     *)
(* sector after the new one are copied (nvs_gc) and that sector is erased.  *)
(*                                                                         *)
(* A unit of flash is the size of an ATE and the write block, so a cell is  *)
(* erased, an ATE or a block of data.  Every write and every erase is a     *)
(* step, and the power may fail in each: a write leaves a prefix of its     *)
(* blocks and perhaps a torn one, an erase stops after any cell.  A torn    *)
(* ATE keeps its fields and fails its CRC.                                  *)
(***************************************************************************)
EXTENDS Integers, Sequences, SequencesExt, FiniteSets

CONSTANTS
  Ids,           \* ids of the pairs an application stores
  Values,        \* what it stores
  LenOf,         \* the blocks a value takes
  Shapes,        \* <<sector_count, sector_size>> of the file systems
  MaxFailures,   \* bound on power failures
  TearsFull,     \* one may tear the close of a sector that has no gap left
  NULL           \* no value; also the id 0xffff of the file system's own ATEs

ASSUME NVSAssumption ==
  /\ \A h \in Shapes : h \in Nat \X Nat /\ h[1] > 1 /\ h[2] > 4
  /\ \A v \in Values : LenOf[v] \in Nat \ {0}

VARIABLES
  shape,         \* fs->sector_count and fs->sector_size, in blocks
  flash,         \* flash[s][o]: the cell at offset o of sector s
  sector,        \* the sector of data_wra
  ate_wra,       \* offset there of the next ATE to write; -1 when none is left
  data_wra,      \* offset of the next data to write
  ready,         \* fs->ready
  pc,            \* the flash operation the running call does next
  op,            \* the pair nvs_write() is storing, or NULL
  gc_addr,       \* offset of the ATE nvs_gc() looks at
  gc_count,      \* of nvs_write(); the sector of nvs_clear()
  rc,            \* the error the last call returned, or NULL
  failures,      \* power failures so far
  allowed        \* allowed[i]: what a read of i may find

vars == <<shape, flash, sector, ate_wra, data_wra, ready, pc, op,
          gc_addr, gc_count, rc, failures, allowed>>

sector_count == shape[1]
sector_size == shape[2]

Sectors == 0 .. sector_count - 1
Offsets == 0 .. sector_size - 1
CloseSlot == sector_size - 1
FirstSlot == sector_size - 2

Erased == [t |-> "erased"]
Block(v) == [t |-> "data", v |-> v]
Ate(id, offset, len) ==
  [t |-> "ate", id |-> id, offset |-> offset, len |-> len, crc |-> TRUE]
Torn(c) == IF c.t = "ate" THEN [c EXCEPT !.crc = FALSE] ELSE Block(NULL)
DataOf(v) == IF v = NULL THEN <<>> ELSE [n \in 1 .. LenOf[v] |-> Block(v)]

----------------------------------------------------------------------------
(* Reading: nvs_ate_valid(), nvs_recover_last_ate(), nvs_prev_ate().        *)

nvs_ate_valid(c) ==
  c.t = "ate" /\ (c.crc /\ c.offset + c.len < sector_size - 1)

nvs_close_ate_valid(c) == nvs_ate_valid(c) /\ c.len = 0 /\ c.id = NULL

\* Mutant: the marker is not recognised.
IsGcDoneNever(c) == FALSE

IsGcDone(c) == nvs_ate_valid(c) /\ c.id = NULL /\ c.len = 0

Advance(s) == (s + 1) % sector_count
Before(s) == (s - 1) % sector_count

\* A delete in the first block of a sector moves ate_wra out of the sector.  The
\* cell there is no valid ATE of a pair; below sector 0 there is no flash, and every
\* call fails that reads it.
Cell(fl, a) == IF a[2] = -1 THEN Block(NULL) ELSE fl[a[1]][a[2]]
OutOfFlash(a) == a = <<0, -1>>

\* Down the slots of a sector while they lie above the data of the last valid
\* ATE; the offset of that ATE.
nvs_recover_last_ate(fl, s) ==
  FoldLeft(LAMBDA acc, o : IF o > acc.end /\ nvs_ate_valid(fl[s][o])
                           THEN [end |-> fl[s][o].offset + fl[s][o].len, addr |-> o]
                           ELSE acc,
           [end |-> 0, addr |-> FirstSlot],
           [n \in 1 .. FirstSlot |-> FirstSlot + 1 - n]).addr

\* The address of the ATE written before the one at <<s, o>>; wra at the end.
nvs_prev_ate(fl, wra, s, o) ==
  LET p == Before(s)
      close == fl[p][CloseSlot]
  IN  IF o + 1 # CloseSlot THEN <<s, o + 1>>
      ELSE IF close = Erased THEN wra
      ELSE IF nvs_close_ate_valid(close) THEN <<p, close.offset>>
      ELSE <<p, nvs_recover_last_ate(fl, p)>>

\* The walk over the ATEs from a, newest first, to one of id: the address it
\* stops at, and whether that is a valid ATE of id.
RECURSIVE Walk(_, _, _, _)
Walk(fl, wra, a, id) ==
  LET c == Cell(fl, a)
      prev == nvs_prev_ate(fl, wra, a[1], a[2])
  IN  IF nvs_ate_valid(c) /\ c.id = id THEN [addr |-> a, found |-> TRUE]
      ELSE IF prev = wra THEN [addr |-> a, found |-> FALSE]
      ELSE Walk(fl, wra, prev, id)

\* The blocks the ATE c of sector s stands for.
Stored(fl, s, c) == [n \in 1 .. c.len |-> fl[s][c.offset + n - 1]]

\* nvs_read(): NULL is -ENOENT, "bad" is data that nobody wrote or an error of the
\* flash.
nvs_read(fl, wra, id) ==
  LET w == Walk(fl, wra, wra, id)
      c == Cell(fl, w.addr)
      found == {v \in Values : DataOf(v) = Stored(fl, w.addr[1], c)}
  IN  IF OutOfFlash(wra) THEN "bad"
      ELSE IF c.t # "ate" THEN NULL
      ELSE IF c.id # id \/ c.len = 0 THEN NULL
      ELSE IF found = {} THEN "bad"
      ELSE CHOOSE v \in found : TRUE

----------------------------------------------------------------------------
(* Flash operations.  What the running call does to the flash next follows   *)
(* from pc; flash_write() can only program erased cells.                      *)

Wra == <<sector, ate_wra>>
WraSector == IF ate_wra = -1 THEN Before(sector) ELSE sector
Victim == Advance(sector)                   \* the sector nvs_gc() collects
GcAte == flash[Victim][gc_addr]

Write(o, cells) == [kind |-> "write", s |-> sector, o |-> o, cells |-> cells]
Erase(s) == [kind |-> "erase", s |-> s, o |-> 0, cells |-> <<>>]

FlashOp ==
  CASE pc = "data"    -> Write(data_wra, DataOf(op.v))
    [] pc = "ate"     -> Write(ate_wra, <<Ate(op.id, data_wra - Len(DataOf(op.v)),
                                              Len(DataOf(op.v)))>>)
    [] pc = "close"   -> [Write(CloseSlot, <<Ate(NULL, ate_wra + 1, 0)>>)
                            EXCEPT !.s = WraSector]
    [] pc = "move"    -> Write(data_wra, Stored(flash, Victim, GcAte))
    [] pc = "moved"   -> Write(ate_wra, <<Ate(GcAte.id, data_wra - GcAte.len,
                                              GcAte.len)>>)
    [] pc \in {"gc_done", "empty"} -> Write(ate_wra, <<Ate(NULL, data_wra, 0)>>)
    [] pc \in {"erase", "skip"}    -> Erase(Victim)
    [] pc = "restart"              -> Erase(sector)
    [] pc = "clear"   -> Erase(gc_count)
    [] OTHER          -> Write(0, <<>>)

\* Programming a cell that is not erased spoils it.
Program(old, new) == IF old = Erased THEN new ELSE Torn(new)

After(f, cells) ==
  [flash EXCEPT ![f.s] =
     [o \in Offsets |-> IF o - f.o + 1 \in DOMAIN cells
                        THEN Program(@[o], cells[o - f.o + 1]) ELSE @[o]]]

AfterErase(s, os) ==
  [flash EXCEPT ![s] = [o \in Offsets |-> IF o \in os THEN Erased ELSE @[o]]]

Flashed ==
  LET f == FlashOp
  IN  flash' = IF f.kind = "write" THEN After(f, f.cells) ELSE AfterErase(f.s, Offsets)

\* What a power failure may leave of the operation.
Interrupted ==
  LET f == FlashOp
      cut(n) == SubSeq(f.cells, 1, n)
  IN  IF f.kind = "erase"
      THEN {AfterErase(f.s, os) : os \in {0 .. n : n \in -1 .. sector_size - 1}}
      ELSE {After(f, cut(n)) : n \in 0 .. Len(f.cells)}
           \cup {After(f, Append(cut(n - 1), Torn(f.cells[n]))) :
                   n \in IF pc = "close" /\ ate_wra < data_wra /\ ~TearsFull
                         THEN {} ELSE 1 .. Len(f.cells)}

----------------------------------------------------------------------------
(* nvs_write() and nvs_gc().                                                 *)

\* Mutant: no slot is left for a later delete.
required_spaceExact(v) == Len(DataOf(v))

\* Data leaves a slot for a delete; a delete takes it.
required_space(v) == IF v = NULL THEN 0 ELSE Len(DataOf(v)) + 1

\* The loop of nvs_write(): fail, store the pair, or make room.
Try(o, aw, dw, count) ==
  LET goes == IF count = sector_count THEN "idle"
              ELSE IF aw < dw + required_space(o.v) THEN "close"
              ELSE IF o.v = NULL THEN "ate" ELSE "data"
  IN  /\ pc' = goes
      /\ op' = IF goes = "idle" THEN NULL ELSE o
      /\ gc_count' = IF goes = "idle" THEN 0 ELSE count
      /\ rc' = IF goes = "idle" THEN (IF o.v = NULL THEN "ENOSPC of a delete" ELSE "ENOSPC")
               ELSE NULL

\* nvs_write() and, with v = NULL, nvs_delete(): nothing is written when the
\* pair is already stored.
nvs_write(id, v) ==
  LET w == Walk(flash, Wra, Wra, id)
      c == Cell(flash, w.addr)
      same == IF w.found THEN Stored(flash, w.addr[1], c) = DataOf(v) ELSE v = NULL
  IN  /\ pc = "idle" /\ Len(DataOf(v)) <= sector_size - 4 /\ ~OutOfFlash(Wra)
      /\ IF same
         THEN /\ allowed' = [allowed EXCEPT ![id] = {v}]
              /\ rc' = NULL
              /\ UNCHANGED <<pc, op, gc_count>>
         ELSE Try([id |-> id, v |-> v], ate_wra, data_wra, 0) /\ UNCHANGED allowed
      /\ UNCHANGED <<shape, flash, sector, ate_wra, data_wra, ready,
                     gc_addr, failures>>

\* nvs_flash_wrt_entry(): the data, then the ATE.
WrtData ==
  /\ pc = "data"
  /\ Flashed
  /\ data_wra' = data_wra + LenOf[op.v]
  /\ pc' = "ate"
  /\ UNCHANGED <<shape, sector, ate_wra, ready, op, gc_addr, gc_count, rc,
                 failures, allowed>>

WrtAte ==
  /\ pc = "ate"
  /\ Flashed
  /\ ate_wra' = ate_wra - 1
  /\ allowed' = [allowed EXCEPT ![op.id] = {op.v}]
  /\ pc' = "idle" /\ op' = NULL /\ gc_count' = 0
  /\ UNCHANGED <<shape, sector, data_wra, ready, gc_addr, rc, failures>>

\* The end of nvs_gc(): the marker if it fits, then the erase.
GcDone(aw, dw) == IF aw >= dw + 1 THEN "gc_done" ELSE "erase"

\* The start of nvs_gc() for the sector s: the newest ATE to look at.
GcStart(s) ==
  LET close == flash'[s][CloseSlot]
  IN  /\ pc' = IF close = Erased THEN GcDone(ate_wra', data_wra') ELSE "gc"
      /\ gc_addr' = IF close = Erased THEN 0
                    ELSE IF nvs_close_ate_valid(close) THEN close.offset
                    ELSE nvs_recover_last_ate(flash', s)

\* nvs_sector_close() goes on in the sector after that of ate_wra, nvs_gc() with the
\* one after.
nvs_sector_close ==
  /\ pc = "close"
  /\ Flashed
  /\ sector' = Advance(WraSector) /\ ate_wra' = FirstSlot /\ data_wra' = 0
  /\ GcStart(Advance(Advance(WraSector)))
  /\ UNCHANGED <<shape, ready, op, gc_count, rc, failures, allowed>>

\* A pair is copied when no newer ATE of its id is found and it is no deletion.
GcCopies ==
  /\ nvs_ate_valid(GcAte)
  /\ Walk(flash, Wra, Wra, GcAte.id).addr = <<Victim, gc_addr>>
  /\ GcAte.len # 0

\* On to the next ATE of the victim, unless this was its oldest.
GcAdvance ==
  /\ gc_addr' = IF gc_addr = FirstSlot THEN 0 ELSE gc_addr + 1
  /\ pc' = IF gc_addr = FirstSlot THEN GcDone(ate_wra', data_wra) ELSE "gc"

GcLook ==
  /\ pc = "gc"
  /\ IF GcCopies THEN pc' = "move" /\ UNCHANGED <<gc_addr, ate_wra>>
     ELSE UNCHANGED ate_wra /\ GcAdvance
  /\ UNCHANGED <<shape, flash, sector, data_wra, ready, op, gc_count, rc,
                 failures, allowed>>

GcMoveData ==
  /\ pc = "move"
  /\ Flashed
  /\ data_wra' = data_wra + GcAte.len
  /\ pc' = "moved"
  /\ UNCHANGED <<shape, sector, ate_wra, ready, op, gc_addr, gc_count, rc,
                 failures, allowed>>

GcMoveAte ==
  /\ pc = "moved"
  /\ Flashed
  /\ ate_wra' = ate_wra - 1
  /\ GcAdvance
  /\ UNCHANGED <<shape, sector, data_wra, ready, op, gc_count, rc, failures,
                 allowed>>

nvs_add_gc_done_ate ==
  /\ pc = "gc_done"
  /\ Flashed
  /\ ate_wra' = ate_wra - 1
  /\ pc' = "erase"
  /\ UNCHANGED <<shape, sector, data_wra, ready, op, gc_addr, gc_count, rc,
                 failures, allowed>>

----------------------------------------------------------------------------
(* nvs_mount() and nvs_startup(), nvs_clear(), power failures.               *)

\* The end of nvs_startup(): a sector without ATEs gets a marker, else the
\* file system is ready.  allowed is narrowed to what is there.
Mounted ==
  /\ pc' = IF ate_wra' = FirstSlot THEN "empty" ELSE "idle"
  /\ ready' = (ate_wra' # FirstSlot)
  /\ allowed' = IF ate_wra' = FirstSlot THEN allowed
                ELSE [i \in Ids |->
                        allowed[i] \cap {nvs_read(flash', <<sector', ate_wra'>>, i)}]

\* nvs_gc() returns to the loop of nvs_write() or to nvs_startup().
GcErase ==
  /\ pc = "erase"
  /\ Flashed
  /\ UNCHANGED <<shape, sector, ate_wra, data_wra, gc_addr, failures>>
  /\ IF ready
     THEN Try(op, ate_wra, data_wra, gc_count + 1) /\ UNCHANGED <<ready, allowed>>
     ELSE Mounted /\ UNCHANGED <<op, gc_count, rc>>

IsClosed(s) == flash[s][CloseSlot] # Erased

\* The open sector after a closed one; without any closed sector the first,
\* unless the last has ATEs.
OpenSector ==
  LET ends == {s \in Sectors : IsClosed(s) /\ ~IsClosed(Advance(s))}
      last == sector_count - 1
  IN  IF ends # {} THEN Advance(CHOOSE s \in ends : \A t \in ends : s <= t)
      ELSE IF flash[last][FirstSlot] = Erased THEN 0 ELSE last

\* Down from the slot aw to an erased one, tracking the end of the data.
RECURSIVE FreeSlot(_, _, _)
FreeSlot(s, aw, dw) ==
  IF aw < dw THEN [ate |-> aw, data |-> dw, err |-> OutOfFlash(<<s, aw>>)]
  ELSE LET c == flash[s][aw]
           end == IF nvs_ate_valid(c) THEN c.offset + c.len ELSE dw
       IN  IF c = Erased THEN [ate |-> aw, data |-> dw, err |-> FALSE]
           ELSE IF nvs_ate_valid(c) /\ aw = end /\ c.len # 0
           THEN [ate |-> aw, data |-> end, err |-> TRUE]
           ELSE FreeSlot(s, aw - 1, end)

\* Mutant: data without an ATE is not skipped.
SkipDataNot(s, aw, dw) == dw

\* Past the data written after the last ATE.
SkipData(s, aw, dw) ==
  IF aw <= dw THEN dw
  ELSE CHOOSE d \in dw .. aw :
         /\ \A o \in d .. aw - 1 : flash[s][o] = Erased
         /\ d > dw => flash[s][d - 1] # Erased

\* Data without an ATE in an otherwise empty sector: the code erases the sector.
\* The model stops there, for NeverRefuses states that it does not come to this.
\* The address is compared without its sector, so this is about sector 0.
OnlyData(s, aw, dw) == s = 0 /\ aw = FirstSlot /\ dw # 0

nvs_startup ==
  LET s == OpenSector
      free == FreeSlot(s, nvs_recover_last_ate(flash, s), 0)
      dirty == \E o \in Offsets : flash[Advance(s)][o] # Erased
      done == \E o \in free.ate + 1 .. FirstSlot : IsGcDone(flash[s][o])
      dw == SkipData(s, free.ate, free.data)
  IN  /\ pc = "off"
      /\ UNCHANGED <<shape, flash, op, gc_addr, gc_count, failures>>
      /\ IF (\A t \in Sectors : IsClosed(t)) \/ free.err
         THEN /\ rc' = "mount failed"
              /\ UNCHANGED <<sector, ate_wra, data_wra, ready, pc, allowed>>
         ELSE IF ~dirty /\ OnlyData(s, free.ate, dw)
         THEN /\ rc' = "only data"
              /\ UNCHANGED <<sector, ate_wra, data_wra, ready, pc, allowed>>
         ELSE /\ rc' = NULL
              /\ sector' = s /\ ate_wra' = free.ate
              /\ data_wra' = IF dirty THEN free.data ELSE dw
              /\ IF dirty
                 THEN /\ pc' = IF done THEN "skip" ELSE "restart"
                      /\ UNCHANGED <<ready, allowed>>
                 ELSE Mounted

\* gc had finished: only the erase is repeated.
StartupSkips ==
  /\ pc = "skip"
  /\ Flashed
  /\ UNCHANGED <<shape, sector, ate_wra, data_wra, op, gc_addr, gc_count, rc,
                 failures>>
  /\ Mounted

\* gc had not finished: the copies are erased and gc starts again.
StartupRestarts ==
  /\ pc = "restart"
  /\ Flashed
  /\ ate_wra' = FirstSlot /\ data_wra' = 0
  /\ GcStart(Victim)
  /\ UNCHANGED <<shape, sector, ready, op, gc_count, rc, failures, allowed>>

StartupMarks ==
  /\ pc = "empty"
  /\ Flashed
  /\ ate_wra' = ate_wra - 1
  /\ UNCHANGED <<shape, sector, data_wra, op, gc_addr, gc_count, rc, failures>>
  /\ Mounted

\* nvs_clear() erases the sectors in order; the file system must be mounted
\* again.  Until it is done anything may be read.
nvs_clear ==
  /\ pc = "idle"
  /\ pc' = "clear" /\ gc_count' = 0
  /\ allowed' = [i \in Ids |-> Values \cup {NULL, "bad"}]
  /\ UNCHANGED <<shape, flash, sector, ate_wra, data_wra, ready, op, gc_addr,
                 rc, failures>>

ClearErase ==
  /\ pc = "clear"
  /\ Flashed
  /\ IF gc_count = sector_count - 1
     THEN /\ pc' = "off" /\ ready' = FALSE /\ gc_count' = 0
          /\ allowed' = [i \in Ids |-> {NULL}]
     ELSE gc_count' = gc_count + 1 /\ UNCHANGED <<pc, ready, allowed>>
  /\ UNCHANGED <<shape, sector, ate_wra, data_wra, op, gc_addr, rc, failures>>

\* External: the power fails before, during or after the next flash operation.
\* A pair being stored may be found or not.
PowerFails ==
  /\ pc # "off" /\ failures < IF ready THEN 1 ELSE MaxFailures
  /\ failures' = failures + 1
  /\ flash' \in Interrupted
  /\ sector' = 0 /\ ate_wra' = 0 /\ data_wra' = 0 /\ gc_addr' = 0 /\ gc_count' = 0
  /\ ready' = FALSE /\ pc' = "off" /\ op' = NULL /\ rc' = NULL
  /\ allowed' = [i \in Ids |-> IF op # NULL /\ op.id = i
                               THEN allowed[i] \cup {op.v} ELSE allowed[i]]
  /\ UNCHANGED shape

----------------------------------------------------------------------------
Init ==
  /\ shape \in Shapes
  /\ flash = [s \in Sectors |-> [o \in Offsets |-> Erased]]
  /\ sector = 0 /\ ate_wra = 0 /\ data_wra = 0 /\ gc_addr = 0 /\ gc_count = 0
  /\ ready = FALSE /\ pc = "off" /\ op = NULL /\ rc = NULL /\ failures = 0
  /\ allowed = [i \in Ids |-> {NULL}]

Next ==
  \/ \E id \in Ids, v \in Values \cup {NULL} : nvs_write(id, v)
  \/ WrtData \/ WrtAte \/ nvs_sector_close
  \/ GcLook \/ GcMoveData \/ GcMoveAte \/ nvs_add_gc_done_ate \/ GcErase
  \/ nvs_startup \/ StartupSkips \/ StartupRestarts \/ StartupMarks
  \/ nvs_clear \/ ClearErase
  \/ PowerFails

Spec == Init /\ [][Next]_vars

----------------------------------------------------------------------------
(* nvs.rst: "NVS ensures that for each used id there is at least one id-data *)
(* pair stored in flash at all time."  Whatever step of a write, a garbage   *)
(* collection or an earlier mount the power failed in, a mounted file system *)
(* reads each id as the last write or delete that returned left it; a write  *)
(* that was cut off is found whole or not at all.                            *)
ReadsLast ==
  ready => \A i \in Ids :
             nvs_read(flash, Wra, i) \in
               allowed[i] \cup (IF op # NULL /\ op.id = i THEN {op.v} ELSE {})

(* Flash is programmed only where it is erased: neither data and ATEs that    *)
(* meet in a sector, nor what a power failure left, is written over.          *)
NeverOverwrites ==
  LET f == FlashOp
  IN  \A n \in DOMAIN f.cells : flash[f.s][f.o + n - 1] = Erased

(* A file system that was interrupted anywhere can be mounted again, and the  *)
(* slot nvs_write() keeps free "to always allow a delete" suffices: a delete  *)
(* never runs out of space.  No mount finds a sector with data and no ATE     *)
(* either: an empty sector gets a marker when it is mounted, and a gc that    *)
(* was cut off is repeated.                                                   *)
NeverRefuses == rc \notin {"mount failed", "only data", "ENOSPC of a delete"}
=============================================================================
