------------------------------- MODULE FatDir -------------------------------
(***************************************************************************)
(* FatFs (src/firmware/fatfs/ff.cpp): directory tables, paths, mounting.   *)
(* The directory object DIR is m.dj; dj.dir, a pointer into the window, is *)
(* the index of the entry there, so that what it points to follows the     *)
(* window when that moves.  An entry is a record of name, attributes,      *)
(* first cluster and size; "" is the name of a free entry behind the last  *)
(* one, "DEL" that of a deleted one (DDE).                                 *)
(***************************************************************************)
EXTENDS FatVolume

Seek(m, c, i, s) ==
  [Ok(m) EXCEPT !.dj = [@ EXCEPT !.index = i, !.clust = c, !.sect = s,
                                 !.dir = i % DirPer]]
EntryAt(m) == AsDir(m.win).e[m.dj.dir]
(* Write to the entry that dj.dir points to.                               *)
PutEntry(m, e) ==
  [m EXCEPT !.win = DirSector(Put(AsDir(@).e, m.dj.dir, e)), !.wflag = TRUE]

FollowDir(m) ==
  IF m.cnt = 0 THEN Stop(m, "OK")
  ELSE After(get_fat(m, m.cur), LAMBDA a :
    IF InRange(a.val) THEN [a EXCEPT !.cur = a.val, !.cnt = @ - 1]
    ELSE Stop(a, IF a.val = DERR THEN "DISK_ERR" ELSE "INT_ERR"))
DirBegin(m) == IF m.dj.sclust = 0 THEN DirBase(m) ELSE m.dj.sclust
dir_sdi(m, i) ==
  IF m.dj.sclust = 1 \/ m.dj.sclust >= NFatEnt THEN Fail(m, "INT_ERR")
  ELSE IF DirBegin(m) = 0
  THEN IF i >= NRoot THEN Fail(m, "INT_ERR")
       ELSE Seek(m, 0, i, RootBase(m) + i \div DirPer)
  ELSE Then(Loop([m EXCEPT !.cur = DirBegin(m), !.cnt = i \div (DirPer * CSize)],
                 FollowDir, Turns), LAMBDA a :
         Seek(a, a.cur, i, clust2sect(a, a.cur) + ((i \div DirPer) % CSize)))

(* Zeros for the sectors of the cluster m.cur, which already hangs on the  *)
(* chain; m.cnt counts them.                                               *)
ClearSector(m) ==
  IF m.cnt = CSize THEN Stop([m EXCEPT !.winsect = @ - CSize], "OK")
  ELSE Carry(sync_window([m EXCEPT !.wflag = TRUE]), LAMBDA a :
         [a EXCEPT !.winsect = @ + 1, !.cnt = @ + 1])
Cleared(m, c) ==
  Then(sync_window(m), LAMBDA a :
    [Loop([a EXCEPT !.win = ZeroDir, !.winsect = clust2sect(a, c), !.cnt = 0],
          ClearSector, Turns) EXCEPT !.val = c])
Stretch(m) ==
  After(create_chain(m, m.dj.clust), LAMBDA a :
    IF a.val \in {0, 1, DERR}
    THEN Fail(a, IF a.val = 0 THEN "DENIED" ELSE LinkError(a))
    ELSE Cleared(a, a.val))
(* dj.index, dj.clust and dj.sect of the next entry, or why there is none. *)
NextCluster(m, i, stretch) ==
  After(get_fat(m, m.dj.clust), LAMBDA a :
    IF a.val <= 1 THEN Fail(a, "INT_ERR")
    ELSE IF a.val = DERR THEN Fail(a, "DISK_ERR")
    ELSE IF a.val >= NFatEnt /\ ~stretch THEN Fail(a, "NO_FILE")
    ELSE Then(IF a.val < NFatEnt THEN a ELSE Stretch(a), LAMBDA b :
           Seek(b, b.val, i, clust2sect(b, b.val))))
dir_next(m, stretch) ==
  LET i == m.dj.index + 1
      s == m.dj.sect + 1
  IN  IF m.dj.sect = 0 THEN Fail(m, "NO_FILE")
      ELSE IF i % DirPer # 0 THEN Seek(m, m.dj.clust, i, m.dj.sect)
      ELSE IF m.dj.clust = 0
      THEN IF i >= NRoot THEN Fail(m, "NO_FILE") ELSE Seek(m, 0, i, s)
      ELSE IF (i \div DirPer) % CSize # 0 THEN Seek(m, m.dj.clust, i, s)
      ELSE NextCluster(m, i, stretch)

(* One turn of a walk over a table: the window on the entry, a decision    *)
(* about it ("" to go on), the next entry.                                 *)
Decided(m, d, stretch) ==
  IF d # "" THEN Stop(m, d) ELSE Carry(dir_next(m, stretch), LAMBDA a : a)
Walk(m, Decide(_), stretch) ==
  Carry(move_window(m, m.dj.sect), LAMBDA a : Decided(a, Decide(a), stretch))
Found(m) == IF EntryAt(m).name = "" THEN "NO_FILE"
            ELSE IF EntryAt(m).name = m.dj.fn.name /\ "VOL" \notin EntryAt(m).attr
            THEN "OK" ELSE ""
dir_find(m) ==
  Then(dir_sdi(m, 0), LAMBDA a :
    Loop(a, LAMBDA x : Walk(x, Found, FALSE), Turns))
Listed(m, vol) == IF EntryAt(m).name = "" THEN "NO_FILE"
                  ELSE IF EntryAt(m).name # "DEL" /\ ("VOL" \in EntryAt(m).attr) = vol
                  THEN "OK" ELSE ""
dir_read(m, vol) ==
  After(IF m.dj.sect = 0 THEN Fail(m, "NO_FILE")
        ELSE Loop(m, LAMBDA x : Walk(x, LAMBDA y : Listed(y, vol), FALSE), Turns), LAMBDA a :
    IF a.res = "OK" THEN a ELSE [a EXCEPT !.dj.sect = 0])
Vacant(m) == IF EntryAt(m).name \in {"", "DEL"} THEN "OK" ELSE ""
dir_alloc(m) ==
  Then(dir_sdi(m, 0), LAMBDA a :
    Loop(a, LAMBDA x : Walk(x, Vacant, TRUE), Turns))
dir_register(m) ==
  Then(dir_alloc(m), LAMBDA a :
    Then(move_window(a, a.dj.sect), LAMBDA b :
      PutEntry(b, [Blank EXCEPT !.name = b.dj.fn.name])))
dir_remove(m) ==
  Then(dir_sdi(m, m.dj.index), LAMBDA a :
    Then(move_window(a, a.dj.sect), LAMBDA b :
      PutEntry(b, [EntryAt(b) EXCEPT !.name = "DEL"])))

-----------------------------------------------------------------------------
(* Paths: sequences of names; m.path is what is left of one.  create_name  *)
(* puts the next name in directory form and notes whether it is the last   *)
(* one (NS_LAST) and a dot entry (NS_DOT).  No dj.fn is set for the empty  *)
(* path: the name of the buffer before stays.                              *)
create_name(m) ==
  IF Head(m.path) = "bad" THEN Fail(m, "INVALID_NAME")
  ELSE [Ok(m) EXCEPT !.dj.fn = [name |-> Head(m.path), last |-> Len(m.path) = 1,
                                dot |-> Head(m.path) \in {".", ".."}],
                     !.path = Tail(@)]
Entered(m) ==       \* m.dj.fn has been looked up
  LET fn  == m.dj.fn
      top == [Ok(m) EXCEPT !.dj.sclust = 0, !.dj.dir = Self]
  IN  IF m.res = "NO_FILE" /\ fn.dot THEN IF fn.last THEN Stop(top, "OK") ELSE top
      ELSE IF m.res # "OK"
      THEN Stop(m, IF m.res = "NO_FILE" /\ ~fn.last THEN "NO_PATH" ELSE m.res)
      ELSE IF fn.last THEN Stop(m, "OK")
      ELSE IF "DIR" \notin EntryAt(m).attr THEN Stop(m, "NO_PATH")
      ELSE [m EXCEPT !.dj.sclust = EntryAt(m).clust]
FollowName(m) == Carry(create_name(m), LAMBDA a : Entered(dir_find(a)))
(* An absolute path starts with "/".                                       *)
follow_path(m, path) ==
  LET abs == path # <<>> /\ Head(path) = "/"
  IN  After([m EXCEPT !.dj.sclust = IF abs THEN 0 ELSE m.cdir,
                      !.path = IF abs THEN Tail(path) ELSE path], LAMBDA a :
        IF a.path = <<>> THEN [dir_sdi(a, 0) EXCEPT !.dj.dir = Self]
        ELSE Loop(a, FollowName, Len(path)))

-----------------------------------------------------------------------------
(* Mounting.  A boot record names the kind of volume it starts ("none": it *)
(* is none, "bad": its fields are refused), or holds a partition table.    *)
BootSector(sig, type, nfats, part) ==
  [kind |-> "boot", sig |-> sig, type |-> type, n_fats |-> nfats, part |-> part]
check_fs(m, s) ==
  After(disk_read(m, s), LAMBDA a :
    [Ok(a) EXCEPT !.val = IF a.res # "OK" THEN 3
                          ELSE IF a.win.kind # "boot" \/ ~a.win.sig THEN 2
                          ELSE IF a.win.type = "none" THEN 1 ELSE 0])
disk_initialize(m) == [disk_ioctl(m) EXCEPT !.ready = @ \/ ~Fails(m)]
(* FSInfo gives the free clusters and the last one taken, if it can be     *)
(* read.  win no longer shows a sector: winsect 0 marks the boot record    *)
(* of an unpartitioned card as if it were there.                           *)
ReadInfo(m) ==
  IF m.type # "FAT32" THEN m
  ELSE After(disk_read(m, m.bsect + 1), LAMBDA a :
    LET known == a.res = "OK" /\ a.win.kind = "info"
    IN  [Ok(a) EXCEPT !.fsi  = FALSE,
                      !.free = IF known THEN a.win.free ELSE @,
                      !.last = IF known THEN a.win.last ELSE @])
Begin(m, at) ==
  IF m.val = 3 THEN Fail(m, "DISK_ERR")
  ELSE IF m.val # 0 \/ m.win.type = "bad" THEN Fail(m, "NO_FILESYSTEM")
  ELSE [ReadInfo([m EXCEPT !.bsect = at, !.n_fats = m.win.n_fats, !.free = Unknown,
                           !.last = 0, !.type = m.win.type])
         EXCEPT !.id = @ + 1, !.winsect = 0, !.wflag = FALSE, !.cdir = 0]
Recognized(m) ==
  After(check_fs(m, 0), LAMBDA a :
    IF a.val = 1 /\ a.win.part # 0 THEN Begin(check_fs(a, a.win.part), a.win.part)
    ELSE Begin(a, 0))
chk_mounted(m) ==
  IF m.type # "none" /\ m.ready THEN Ok(m)
  ELSE After(disk_initialize([m EXCEPT !.type = "none"]), LAMBDA a :
         IF a.ready THEN Recognized(Ok(a)) ELSE Fail(a, "NOT_READY"))
f_mount(m) == [Ok(m) EXCEPT !.type = "none"]
=============================================================================
