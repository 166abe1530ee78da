------------------------------ MODULE FatVolume ------------------------------
(***************************************************************************)
(* The inner half of FatFs (src/firmware/fatfs/ff.cpp) in the              *)
(* configuration of ffconf.h: one volume, one sector window shared by FAT, *)
(* directories and data (_FS_TINY), short names, FAT16 or FAT32.           *)
(*                                                                         *)
(* The work area FATFS, the card behind it and the registers of the call   *)
(* under way are one record m; a function of the source is an operator     *)
(* that takes m and returns it changed, with its FRESULT in m.res and any  *)
(* other value it returns in m.val.  A sector is an element of Contents:   *)
(* FAT entries, directory entries, data bytes, a boot record or FSInfo.    *)
(***************************************************************************)
EXTENDS Integers, Sequences

CONSTANTS NFatEnt,   \* fs->n_fatent: the clusters are 2..NFatEnt-1
          FatPer,    \* FAT entries in a sector
          DirPer,    \* directory entries in a sector
          CSize,     \* sectors in a cluster
          NRoot,     \* entries of the root directory of a FAT16 volume
          SecSize,   \* bytes in a sector, SS(fs)
          Bytes      \* the values of data bytes that are told apart

ASSUME GeometryAssumption ==
  /\ NFatEnt \in Nat /\ NFatEnt > 2
  /\ FatPer \in Nat \ {0} /\ DirPer \in Nat \ {0} /\ CSize \in Nat \ {0}
  /\ NRoot \in Nat \ {0} /\ SecSize \in Nat \ {0} /\ Bytes \subseteq Nat

EOC     == NFatEnt          \* 0x0FFFFFFF, the mark of a last cluster
DERR    == 2 * NFatEnt      \* 0xFFFFFFFF, the disk error of get_fat
Unknown == 2 * NFatEnt      \* 0xFFFFFFFF in free_clust
Self    == -1               \* dj->dir = 0: the start directory itself

(* Layout: the volume starts at m.bsect with the boot record and FSInfo.   *)
NRsv    == 2
FatSize == (NFatEnt + FatPer - 1) \div FatPer
FatBase(m)  == m.bsect + NRsv
RootBase(m) == FatBase(m) + m.n_fats * FatSize
DataBase(m) == RootBase(m) + IF m.type = "FAT32" THEN 0 ELSE NRoot \div DirPer
DirBase(m)  == IF m.type = "FAT32" THEN 2 ELSE 0     \* cluster of the root
InFat(m, s) == FatBase(m) <= s /\ s < FatBase(m) + FatSize

Blank   == [name |-> "", attr |-> {}, clust |-> 0, size |-> 0]
DirSector(e)  == [kind |-> "dir", e |-> e]
FatSector(e)  == [kind |-> "fat", e |-> e]
DataSector(b) == [kind |-> "data", b |-> b]
InfoSector(f, l) == [kind |-> "info", free |-> f, last |-> l]
ZeroDir == DirSector([i \in 0..DirPer-1 |-> Blank])
(* Bytes and entries a sector shows that was never written as what it is   *)
(* taken for: the slack of a file, a directory table that was not cleared. *)
AsData(c) == IF c.kind = "data" THEN c
             ELSE DataSector([i \in 0..SecSize-1 |-> 0])
AsDir(c)  == IF c.kind = "dir" THEN c
             ELSE DirSector([i \in 0..DirPer-1 |->
                    [name |-> "?", attr |-> {}, clust |-> 2, size |-> 1]])

-----------------------------------------------------------------------------
(* Results, sequencing and loops.                                          *)
Put(f, i, v) == [j \in DOMAIN f |-> IF j = i THEN v ELSE f[j]]
Ok(m)      == [m EXCEPT !.res = "OK"]
Fail(m, r) == [m EXCEPT !.res = r]
Stop(m, r) == [m EXCEPT !.res = r, !.stop = TRUE]
(* What follows a result, whatever it is; what follows a success; in a     *)
(* loop, which an error ends.                                              *)
After(m, F(_)) == F(m)
Then(m, F(_))  == IF m.res = "OK" THEN F(m) ELSE m
Carry(m, F(_)) == IF m.res = "OK" THEN F(m) ELSE Stop(m, m.res)
(* At most n turns of a loop; one that has not ended by then hangs.        *)
Ended(m) == [m EXCEPT !.stop = FALSE, !.res = IF m.stop THEN @ ELSE "HANG"]
Turn(m, F(_)) == IF m.stop THEN m ELSE F(m)
Loop(m, F(_), n) ==
  LET turn[i \in 0..n] == IF i = 0 THEN [m EXCEPT !.stop = FALSE] ELSE Turn(turn[i-1], F)
  IN  Ended(turn[n])
Turns == NRoot + CSize * DirPer * NFatEnt

(* An access to the card.  m.left counts down to the access that fails     *)
(* (0: none does); when the power goes (m.cut), no later one gets through. *)
Fails(m) == m.left = 1
Spent(m) == [m EXCEPT !.left = IF @ = 0 \/ (@ = 1 /\ m.cut) THEN @ ELSE @ - 1,
                      !.failed = @ \/ Fails(m)]
disk_write(m, s, c) ==
  IF Fails(m) THEN Fail(Spent(m), "DISK_ERR")
  ELSE [Spent(m) EXCEPT !.disk = Put(@, s, c), !.res = "OK"]
(* disk_read to the window                                                 *)
disk_read(m, s) ==
  IF Fails(m) THEN Fail(Spent(m), "DISK_ERR")
  ELSE [Spent(m) EXCEPT !.win = m.disk[s], !.res = "OK"]

-----------------------------------------------------------------------------
(* The window.                                                             *)
\* The last sector of the FAT taken for the first behind it.
MirrorShort(m) ==
  IF InFat(m, m.winsect + 1) /\ m.n_fats = 2
  THEN Ok(disk_write(m, m.winsect + FatSize, m.win))
  ELSE Ok(m)
(* The second FAT copy is written without a look at the result.            *)
Mirror(m) ==
  IF InFat(m, m.winsect) /\ m.n_fats = 2
  THEN Ok(disk_write(m, m.winsect + FatSize, m.win))
  ELSE Ok(m)
sync_window(m) ==
  IF ~m.wflag THEN Ok(m)
  ELSE Then(disk_write(m, m.winsect, m.win),
            LAMBDA a : Mirror([a EXCEPT !.wflag = FALSE]))
\* Another sector in the window before the one it holds is written.
SlideWindow(m, s) ==
  IF s = m.winsect THEN Ok(m)
  ELSE Then(disk_read(m, s), LAMBDA b : [b EXCEPT !.winsect = s])
move_window(m, s) ==
  IF s = m.winsect THEN Ok(m)
  ELSE Then(sync_window(m), LAMBDA a :
         Then(disk_read(a, s), LAMBDA b : [b EXCEPT !.winsect = s]))
\* FSInfo put together in the window without a note that it is there.
SlipInfo(m) ==
  LET info == InfoSector(m.free, m.last)
  IN  IF m.type = "FAT32" /\ m.fsi
      THEN Ok(disk_write([m EXCEPT !.win = info, !.fsi = FALSE], m.bsect + 1, info))
      ELSE m
(* FSInfo is put together in the window, which then shows no sector; its   *)
(* write is not looked at.                                                 *)
WriteInfo(m) ==
  LET info == InfoSector(m.free, m.last)
  IN  IF m.type = "FAT32" /\ m.fsi
      THEN Ok(disk_write([m EXCEPT !.winsect = 0, !.win = info, !.fsi = FALSE],
                         m.bsect + 1, info))
      ELSE m
disk_ioctl(m) == IF Fails(m) THEN Fail(Spent(m), "DISK_ERR") ELSE Ok(Spent(m))
sync_fs(m) == Then(sync_window(m), LAMBDA a : disk_ioctl(WriteInfo(a)))

(* What the volume holds: the card, overlaid with the window.              *)
View(m) == IF m.wflag /\ m.winsect \in DOMAIN m.disk
           THEN Put(m.disk, m.winsect, m.win) ELSE m.disk

-----------------------------------------------------------------------------
(* Clusters.                                                               *)
InRange(c) == 2 <= c /\ c < NFatEnt
clust2sect(m, c) == IF InRange(c) THEN DataBase(m) + (c - 2) * CSize ELSE 0
FatSectorOf(m, c) == FatBase(m) + c \div FatPer
get_fat(m, c) ==
  IF ~InRange(c) THEN [m EXCEPT !.val = 1]
  ELSE After(move_window(m, FatSectorOf(m, c)), LAMBDA a :
         [a EXCEPT !.val = IF a.res = "OK" THEN a.win.e[c % FatPer] ELSE DERR,
                   !.res = "OK"])
(* The window is marked dirty even if it could not be moved.               *)
put_fat(m, c, v) ==
  IF ~InRange(c) THEN Fail(m, "INT_ERR")
  ELSE [Then(move_window(m, FatSectorOf(m, c)), LAMBDA a :
               [a EXCEPT !.win = FatSector(Put(@.e, c % FatPer, v))]) EXCEPT !.wflag = TRUE]
(* The error behind a value of get_fat or create_chain.                    *)
LinkError(m) == CASE m.val = 1 -> "INT_ERR" [] m.val = DERR -> "DISK_ERR"
                  [] OTHER -> "OK"
(* The free clusters are counted once they are known; the count wraps.     *)
Counted(m, d) == [m EXCEPT !.free = IF @ = Unknown THEN @
                                    ELSE IF @ + d < 0 THEN Unknown ELSE @ + d,
                           !.fsi = @ \/ m.free # Unknown]

\* Clusters given back without being counted.
RemoveUncounted(m) ==
  IF m.cur >= NFatEnt THEN Stop(m, "OK")
  ELSE After(get_fat(m, m.cur), LAMBDA a :
    IF a.val \in {0, 1, DERR} THEN Stop(a, LinkError(a))
    ELSE [put_fat(a, m.cur, 0) EXCEPT !.cur = a.val])
RemoveLink(m) ==
  IF m.cur >= NFatEnt THEN Stop(m, "OK")
  ELSE After(get_fat(m, m.cur), LAMBDA a :
    IF a.val \in {0, 1, DERR} THEN Stop(a, LinkError(a))
    ELSE Carry(put_fat(a, m.cur, 0), LAMBDA b : [Counted(b, 1) EXCEPT !.cur = a.val]))
remove_chain(m, c) ==
  IF ~InRange(c) THEN Fail(m, "INT_ERR")
  ELSE Loop([Ok(m) EXCEPT !.cur = c], RemoveLink, Turns)

(* The search for a free cluster from m.cur on, ending at m.cnt; m.val is  *)
(* the cluster, 0 if there is none, or the error.                          *)
Following(c) == IF c + 1 >= NFatEnt THEN 2 ELSE c + 1
\* A search that does not notice that it is back where it started.
SeekOn(m) ==
  After(get_fat(m, Following(m.cur)), LAMBDA a :
    IF a.val = 0 THEN Stop([a EXCEPT !.val = Following(m.cur)], "OK")
    ELSE IF a.val \in {1, DERR} THEN Stop(a, "OK")
    ELSE [a EXCEPT !.cur = Following(m.cur)])
SeekFree(m) ==
  IF m.cur + 1 >= NFatEnt /\ 2 > m.cnt THEN Stop([m EXCEPT !.val = 0], "OK")
  ELSE After(get_fat(m, Following(m.cur)), LAMBDA a :
    IF a.val = 0 THEN Stop([a EXCEPT !.val = Following(m.cur)], "OK")
    ELSE IF a.val \in {1, DERR} THEN Stop(a, "OK")
    ELSE IF Following(m.cur) = m.cnt THEN Stop([a EXCEPT !.val = 0], "OK")
    ELSE [a EXCEPT !.cur = Following(m.cur)])
(* The cluster found, n = m.val, is marked and hung behind c.              *)
Claim(m, c) ==
  After(Then(put_fat(m, m.val, EOC), LAMBDA a :
             IF c = 0 THEN a ELSE put_fat(a, c, m.val)), LAMBDA b :
    IF b.res = "OK" THEN [Counted(b, -1) EXCEPT !.last = m.val, !.val = m.val]
    ELSE [b EXCEPT !.val = IF b.res = "DISK_ERR" THEN DERR ELSE 1, !.res = "OK"])
Allocate(m, c, scl) ==
  After(Loop([m EXCEPT !.cur = scl, !.cnt = scl], SeekFree, Turns), LAMBDA a :
    IF InRange(a.val) THEN Claim(a, c) ELSE a)
(* create_chain(0) starts a chain, create_chain(c) follows or stretches    *)
(* one.  A disk error of the first get_fat is taken for the end of chain.  *)
create_chain(m, c) ==
  IF c = 0 THEN Allocate(m, 0, IF InRange(m.last) \/ m.last = 1 THEN m.last ELSE 1)
  ELSE After(get_fat(m, c), LAMBDA a :
    IF a.val < 2 THEN [a EXCEPT !.val = 1]
    ELSE IF InRange(a.val) THEN a ELSE Allocate(a, c, c))
=============================================================================
