------------------------------- MODULE FatPath -------------------------------
(***************************************************************************)
(* FatFs (src/firmware/fatfs/ff.cpp): the functions of the API that work   *)
(* on paths and on the whole volume.  A FILINFO is a record of name,       *)
(* attributes and size.                                                    *)
(***************************************************************************)
EXTENDS FatFile, FiniteSets

NoInfo == [name |-> "", attr |-> {}, size |-> 0]
get_fileinfo(m) ==
  [m EXCEPT !.info = IF m.dj.sect = 0 THEN [@ EXCEPT !.name = ""]
                     ELSE [name |-> EntryAt(m).name, attr |-> EntryAt(m).attr,
                           size |-> EntryAt(m).size]]
NoPath(m) == IF m.res = "NO_FILE" THEN Fail(m, "NO_PATH") ELSE m
IsDir(m) == "DIR" \in EntryAt(m).attr

f_chdir(m, path) ==
  NoPath(Then(Resolve(m, path), LAMBDA a :
    IF a.dj.dir = Self THEN [a EXCEPT !.cdir = a.dj.sclust]
    ELSE IF IsDir(a) THEN [a EXCEPT !.cdir = EntryAt(a).clust] ELSE Fail(a, "NO_PATH")))
f_opendir(m, path) ==
  After(NoPath(Then(Then(Resolve(m, path), LAMBDA a :
           IF a.dj.dir = Self THEN a
           ELSE IF IsDir(a) THEN [a EXCEPT !.dj.sclust = EntryAt(a).clust]
           ELSE Fail(a, "NO_PATH")), LAMBDA b :
         dir_sdi([b EXCEPT !.dj.id = b.id], 0))), LAMBDA c :
    [c EXCEPT !.dj.open = c.res = "OK"])
(* The end of the table is told by an empty name.                          *)
EndOfTable(m) == IF m.res = "NO_FILE" THEN [Ok(m) EXCEPT !.dj.sect = 0] ELSE m
f_readdir(m) ==
  Then(validate(m, m.dj), LAMBDA a :
    Then(EndOfTable(dir_read(a, FALSE)), LAMBDA b :
      EndOfTable(dir_next(get_fileinfo(b), FALSE))))
f_rewinddir(m) == Then(validate(m, m.dj), LAMBDA a : dir_sdi(a, 0))
f_stat(m, path) == Then(NotStart(Resolve(m, path)), get_fileinfo)

(* f_getfree counts when it does not know; after a disk error it keeps the *)
(* part it has counted.                                                    *)
FreeIn(e, left) == {i \in 0..FatPer-1 : i < left /\ e[i] = 0}
CountSector(m) ==
  LET left == NFatEnt - m.cnt * FatPer      \* the entries not yet seen
  IN  IF left <= 0 THEN Stop(m, "OK")
      ELSE Carry(move_window(m, FatBase(m) + m.cnt), LAMBDA a :
             [a EXCEPT !.cnt = @ + 1, !.val = @ + Cardinality(FreeIn(a.win.e, left))])
f_getfree(m) ==
  Then(chk_mounted(m), LAMBDA a :
    IF a.free <= NFatEnt - 2 THEN [a EXCEPT !.val = a.free]
    ELSE After(Loop([a EXCEPT !.cnt = 0, !.val = 0], CountSector, FatSize + 1), LAMBDA b :
           [b EXCEPT !.free = b.val, !.fsi = @ \/ b.type = "FAT32"]))

-----------------------------------------------------------------------------
(* f_unlink: a directory must be empty and not the current one.            *)
Emptiness(m) ==
  After(Then(dir_sdi([m EXCEPT !.dj.sclust = EntryAt(m).clust], 2),
             LAMBDA a : dir_read(a, FALSE)), LAMBDA b :
    IF b.res = "OK" \/ (b.res # "INT_ERR" /\ EntryAt(m).clust = m.cdir)
    THEN Fail(b, "DENIED")
    ELSE IF b.res = "NO_FILE" THEN Ok(b) ELSE b)
MayUnlink(m) ==
  LET e == EntryAt(m)
  IN  IF "RDO" \in e.attr THEN Fail(m, "DENIED")
      ELSE IF "DIR" \notin e.attr THEN m
      ELSE IF e.clust < 2 THEN Fail(m, "INT_ERR")
      ELSE [Emptiness(m) EXCEPT !.dj = m.dj]
\* The chain goes before the entry.
UnlinkChainFirst(m, path) ==
  Then(ResolveEntry(m, path), LAMBDA a :
    LET cl == EntryAt(a).clust
    IN  Then(MayUnlink(a), LAMBDA b :
          Then(IF cl = 0 THEN b ELSE remove_chain(b, cl), LAMBDA c :
            Then(dir_remove(c), sync_fs))))
f_unlink(m, path) ==
  Then(ResolveEntry(m, path), LAMBDA a :
    LET cl == EntryAt(a).clust
    IN  Then(MayUnlink(a), LAMBDA b : Then(dir_remove(b), LAMBDA c :
          Then(IF cl = 0 THEN c ELSE remove_chain(c, cl), sync_fs))))

(* f_mkdir: the chain reaches the card first, then the table with its two  *)
(* dot entries, then the entry in the parent; m.cur is the sector written. *)
DotSector(c, parent) ==
  DirSector([i \in 0..DirPer-1 |->
    IF i = 0 THEN [Blank EXCEPT !.name = ".", !.attr = {"DIR"}, !.clust = c]
    ELSE IF i = 1 THEN [Blank EXCEPT !.name = "..", !.attr = {"DIR"}, !.clust = parent]
    ELSE Blank])
WriteTable(m) ==
  IF m.cnt = 0 THEN Stop(m, "OK")
  ELSE Carry(sync_window([m EXCEPT !.winsect = m.cur, !.wflag = TRUE]), LAMBDA a :
         [a EXCEPT !.win = ZeroDir, !.cur = @ + 1, !.cnt = @ - 1])
MakeTable(m, c) ==
  Then(sync_window(m), LAMBDA a :
    Loop([a EXCEPT !.cur = clust2sect(a, c), !.cnt = CSize,
            !.win = DotSector(c, IF a.type = "FAT32" /\ a.dj.sclust = DirBase(a)
                                 THEN 0 ELSE a.dj.sclust)], WriteTable, CSize + 1))
Made(m, c) ==       \* c is the new directory's cluster, or why there is none
  After(Then(IF c = 0 THEN Fail(m, "DENIED") ELSE Fail(m, LinkError(m)), LAMBDA a :
             Then(MakeTable(a, c), dir_register)), LAMBDA b :
    IF b.res # "OK" THEN Fail(remove_chain(b, c), b.res)
    ELSE sync_fs(PutEntry(b, [EntryAt(b) EXCEPT !.attr = {"DIR"}, !.clust = c])))
f_mkdir(m, path) ==
  After(Resolve(m, path), LAMBDA a :
    IF a.res = "OK" THEN Fail(a, "EXIST")
    ELSE IF a.res # "NO_FILE" THEN a
    ELSE IF a.dj.fn.dot THEN Fail(a, "INVALID_NAME")
    ELSE After(create_chain(a, 0), LAMBDA b : Made(b, b.val)))

f_chmod(m, path, value, mask) ==
  Then(ResolveEntry(m, path), LAMBDA a :
    sync_fs(PutEntry(a, [EntryAt(a) EXCEPT !.attr =
      (value \cap mask \cap {"RDO", "ARC"}) \cup (@ \ (mask \cap {"RDO", "ARC"}))])))
f_utime(m, path) == Then(ResolveEntry(m, path), LAMBDA a : sync_fs(PutEntry(a, EntryAt(a))))

(* f_rename: the new entry, the ".." of a directory that moves, then the   *)
(* old entry; until the last step two entries share the chain.             *)
Reparent(m, parent) ==
  LET s == clust2sect(m, EntryAt(m).clust)
      up == IF m.type = "FAT32" /\ parent = DirBase(m) THEN 0 ELSE parent
  IN  IF s = 0 THEN Fail(m, "INT_ERR")
      ELSE Then(move_window(m, s), LAMBDA a : After([a EXCEPT !.dj.dir = 1], LAMBDA b :
             IF EntryAt(b).name # ".." THEN a
             ELSE PutEntry(b, [EntryAt(b) EXCEPT !.clust = up])))
(* m has the new name's directory, dj is the old name and e its entry.     *)
MoveEntry(m, dj, e) ==
  Then(Then(Then(dir_register(m), LAMBDA a :
      PutEntry(a, [EntryAt(a) EXCEPT !.attr = e.attr \cup {"ARC"},
                                     !.clust = e.clust, !.size = e.size])), LAMBDA b :
    IF dj.sclust # m.dj.sclust /\ "DIR" \in e.attr THEN Reparent(b, m.dj.sclust) ELSE b),
    LAMBDA c : Then(dir_remove([c EXCEPT !.dj = dj]), sync_fs))
f_rename(m, old, new) ==
  Then(Resolve(m, old), LAMBDA a :
    IF a.dj.fn.dot THEN Fail(a, "INVALID_NAME")
    ELSE IF a.dj.dir = Self THEN Fail(a, "NO_FILE")
    ELSE After(follow_path(a, new), LAMBDA b :
      IF b.res = "OK" THEN Fail(b, "EXIST")
      ELSE IF b.res # "NO_FILE" THEN b ELSE MoveEntry(b, a.dj, EntryAt(a))))

-----------------------------------------------------------------------------
(* The label is the name of the entry with AM_VOL in the root directory.   *)
LabelEntry(m) ==
  Then(dir_sdi([m EXCEPT !.dj.sclust = 0], 0), LAMBDA a : dir_read(a, TRUE))
f_getlabel(m) ==
  Then(chk_mounted(m), LAMBDA a : After(LabelEntry(a), LAMBDA b :
    Then(CASE b.res = "OK" -> get_fileinfo(b)
           [] b.res = "NO_FILE" -> [Ok(b) EXCEPT !.info = NoInfo]
           [] OTHER -> b, LAMBDA c : move_window(c, c.bsect))))   \* the serial number
NewLabel(label) == [Blank EXCEPT !.name = label, !.attr = {"VOL"}]
f_setlabel(m, label) ==
  Then(chk_mounted(m), LAMBDA a : After(LabelEntry(a), LAMBDA b :
    IF b.res = "OK"
    THEN sync_fs(PutEntry(b, [EntryAt(b) EXCEPT !.name =
                                IF label = "" THEN "DEL" ELSE label]))
    ELSE IF b.res # "NO_FILE" THEN b
    ELSE IF label = "" THEN Ok(b)
    ELSE Then(dir_alloc(b), LAMBDA c : sync_fs(PutEntry(c, NewLabel(label))))))

(* f_mkfs: partition table unless sfd, boot record, one FAT, an empty root *)
(* directory, FSInfo (whose write is not looked at).  The backups of boot  *)
(* record and FSInfo, which nothing reads, are left out.                   *)
NewFat(fat32) ==
  [s \in 0..FatSize-1 |-> FatSector([i \in 0..FatPer-1 |->
     IF s * FatPer + i < (IF fat32 THEN 3 ELSE 2) THEN EOC ELSE 0])]
Format(m, type, sfd, nfats) ==
  LET v == [m EXCEPT !.bsect = IF sfd THEN 0 ELSE 1, !.type = type, !.n_fats = nfats]
      boot == <<v.bsect, BootSector(TRUE, type, nfats, 0)>>
      fat  == [s \in 1..nfats * FatSize |->
                <<FatBase(v) + s - 1, NewFat(type = "FAT32")[(s - 1) % FatSize]>>]
      root == IF type = "FAT32" THEN [s \in 1..CSize |-> <<DataBase(v) + s - 1, ZeroDir>>]
              ELSE [s \in 1..NRoot \div DirPer |-> <<RootBase(v) + s - 1, ZeroDir>>]
  IN  (IF sfd THEN <<>> ELSE << <<0, BootSector(TRUE, "none", 0, 1)>> >>)
        \o <<boot>> \o fat \o root
WriteNext(m) ==
  IF m.path = <<>> THEN Stop(m, "OK")
  ELSE LET s == Head(m.path)
       IN  Carry(disk_write([m EXCEPT !.win = s[2]], s[1], s[2]), LAMBDA a :
             [a EXCEPT !.path = Tail(@)])
WriteAll(m, sectors) == Loop([Ok(m) EXCEPT !.path = sectors], WriteNext, Len(sectors) + 1)
NewInfo == InfoSector(NFatEnt - 3, 2)
f_mkfs(m, type, sfd) ==
  After(disk_initialize([m EXCEPT !.type = "none"]), LAMBDA a :
    IF ~a.ready THEN Fail(a, "NOT_READY")
    ELSE Then(WriteAll(a, Format(a, type, sfd, 1)), LAMBDA b :
      disk_ioctl(IF type # "FAT32" THEN b
                 ELSE disk_write([b EXCEPT !.win = NewInfo], IF sfd THEN 1 ELSE 2, NewInfo))))

(* f_getcwd: from the current directory up, the name of each in its parent;*)
(* the names end up in m.buf.                                              *)
Child(m, c) == IF EntryAt(m).name = "" THEN "NO_FILE"
               ELSE IF EntryAt(m).name # "DEL" /\ "VOL" \notin EntryAt(m).attr
                         /\ EntryAt(m).clust = c
               THEN "OK" ELSE ""
Up(m) ==
  LET c == m.dj.sclust
  IN  IF c = 0 THEN Stop(m, "OK")
      ELSE After(Then(Then(Then(dir_sdi(m, 1), LAMBDA a : dir_read(a, FALSE)), LAMBDA b :
               dir_sdi([b EXCEPT !.dj.sclust = EntryAt(b).clust], 0)), LAMBDA d :
             Loop(d, LAMBDA x : Walk(x, LAMBDA y : Child(y, c), FALSE), Turns)), LAMBDA e :
        IF e.res # "OK" THEN Stop(e, IF e.res = "NO_FILE" THEN "INT_ERR" ELSE e.res)
        ELSE [e EXCEPT !.buf = <<EntryAt(e).name>> \o @])
f_getcwd(m) ==
  Then(chk_mounted(m), LAMBDA a :
    Loop([a EXCEPT !.dj.sclust = a.cdir, !.buf = <<>>], Up, NFatEnt))
=============================================================================
