------------------------------- MODULE FatFile -------------------------------
(***************************************************************************)
(* FatFs (src/firmware/fatfs/ff.cpp): the functions of the API.  The file  *)
(* object FIL of the call is m.f; data goes through m.buf, a sequence of   *)
(* bytes; FILINFO is m.info.  Times are left out.                          *)
(***************************************************************************)
EXTENDS FatDir

Least(a, b) == IF a <= b THEN a ELSE b
Closed == [open |-> FALSE, id |-> 0, flag |-> {}, fptr |-> 0, fsize |-> 0,
           sclust |-> 0, clust |-> 0, dsect |-> 0, dir_sect |-> 0, dir_ptr |-> 0]
(* ABORT: the file object is dead from now on.                             *)
Abort(m, r) == [Stop(m, r) EXCEPT !.f.flag = @ \cup {"ERROR"}]
validate(m, o) ==
  IF ~o.open \/ m.type = "none" \/ o.id # m.id THEN Fail(m, "INVALID_OBJECT")
  ELSE IF ~m.ready THEN Fail(m, "NOT_READY") ELSE Ok(m)
(* The checks in front of f_read, f_write, f_truncate, f_lseek.            *)
Usable(m, access) ==
  Then(validate(m, m.f), LAMBDA a :
    IF "ERROR" \in a.f.flag THEN Fail(a, "INT_ERR")
    ELSE IF access \subseteq a.f.flag THEN a ELSE Fail(a, "DENIED"))
(* The start of every call that names a path.                              *)
Resolve(m, path) == Then(chk_mounted(m), LAMBDA a : follow_path(a, path))
NotStart(m) == Then(m, LAMBDA a : IF a.dj.dir = Self THEN Fail(a, "INVALID_NAME") ELSE a)
(* ... and refuses dot entries and the start directory.                    *)
ResolveEntry(m, path) ==
  Then(Resolve(m, path), LAMBDA a :
    IF a.dj.fn.dot THEN Fail(a, "INVALID_NAME") ELSE NotStart(a))

-----------------------------------------------------------------------------
(* f_open: an existing file that is overwritten first loses its entry's    *)
(* cluster, then its chain.                                                *)
Emptied(m) == PutEntry(m, [EntryAt(m) EXCEPT !.attr = {}, !.size = 0, !.clust = 0])
Overwrite(m) ==
  IF EntryAt(m).clust = 0 THEN Emptied(m)
  ELSE Then(remove_chain(Emptied(m), EntryAt(m).clust), LAMBDA a :
         move_window([a EXCEPT !.last = EntryAt(m).clust - 1], m.winsect))
MayCreate(m, mode) ==
  IF m.res = "NO_FILE" THEN dir_register(m)
  ELSE IF m.res # "OK" THEN m
  ELSE IF EntryAt(m).attr \cap {"RDO", "DIR"} # {} THEN Fail(m, "DENIED")
  ELSE IF "NEW" \in mode THEN Fail(m, "EXIST") ELSE m
MayOpen(m, mode) ==
  Then(m, LAMBDA a :
    IF "DIR" \in EntryAt(a).attr THEN Fail(a, "NO_FILE")
    ELSE IF "W" \in mode /\ "RDO" \in EntryAt(a).attr THEN Fail(a, "DENIED") ELSE a)
Creating(mode) == mode \cap {"ALWAYS", "OPEN", "NEW"} # {}
f_open(m, path, mode) ==
  After(NotStart(Resolve([m EXCEPT !.f = Closed], path)), LAMBDA a :
    LET fresh == Creating(mode) /\ (a.res # "OK" \/ "ALWAYS" \in mode)
    IN  Then(Then(IF Creating(mode) THEN MayCreate(a, mode) ELSE MayOpen(a, mode),
                  LAMBDA b : IF fresh THEN Overwrite(b) ELSE b), LAMBDA c :
          [c EXCEPT !.f =
             [Closed EXCEPT !.open = TRUE, !.id = c.id, !.dir_sect = c.winsect,
                !.flag = (mode \cap {"R", "W"}) \cup IF fresh THEN {"WRITTEN"} ELSE {},
                !.dir_ptr = c.dj.dir, !.sclust = EntryAt(c).clust,
                !.fsize = EntryAt(c).size]]))

-----------------------------------------------------------------------------
(* Reading and writing, one turn of the loop each.                         *)
Offset(f) == f.fptr % SecSize
SectorInCluster(f) == (f.fptr \div SecSize) % CSize
AtCluster(f) == Offset(f) = 0 /\ SectorInCluster(f) = 0
Slice(b, o, n) == [i \in 1..n |-> b[o + i - 1]]
Patch(b, o, data) == [i \in 0..SecSize-1 |->
  IF i >= o /\ i < o + Len(data) THEN data[i - o + 1] ELSE b[i]]
Moved(m, n) == [m EXCEPT !.f.fptr = @ + n]

ReadCluster(m) ==
  After(IF m.f.fptr = 0 THEN [m EXCEPT !.val = m.f.sclust]
        ELSE get_fat(m, m.f.clust), LAMBDA a :
    IF a.val < 2 THEN Fail(a, "INT_ERR")
    ELSE IF a.val = DERR THEN Fail(a, "DISK_ERR")
    ELSE [Ok(a) EXCEPT !.f.clust = a.val])
(* A step of f_read, f_write that fails aborts.                            *)
OrAbort(m, F(_)) == IF m.res = "OK" THEN F(m) ELSE Abort(m, m.res)
(* Through the window.                                                     *)
ReadPart(m) ==
  OrAbort(move_window(m, m.f.dsect), LAMBDA a :
    LET n == Least(SecSize - Offset(m.f), m.want)
    IN  [Moved(a, n) EXCEPT !.want = @ - n,
           !.buf = @ \o Slice(AsData(a.win).b, Offset(m.f), n)])
\* Whole sectors directly, the changed one in the window forgotten.
ReadStale(m, s, cc) ==
  IF Fails(m) THEN Abort(Spent(m), "DISK_ERR")
  ELSE [Moved(Spent(m), cc * SecSize) EXCEPT !.want = @ - cc * SecSize,
          !.buf = @ \o [i \in 1..cc * SecSize |->
                          AsData(m.disk[s + (i-1) \div SecSize]).b[(i-1) % SecSize]]]
(* Whole sectors directly, with the one the window may hold changed.       *)
ReadDirect(m, s, cc) ==
  IF Fails(m) THEN Abort(Spent(m), "DISK_ERR")
  ELSE [Moved(Spent(m), cc * SecSize) EXCEPT !.want = @ - cc * SecSize,
          !.buf = @ \o [i \in 1..cc * SecSize |->
                          AsData(View(m)[s + (i-1) \div SecSize]).b[(i-1) % SecSize]]]
ReadSector(m) ==
  LET s0 == clust2sect(m, m.f.clust)
      s  == s0 + SectorInCluster(m.f)
      cc == Least(m.want \div SecSize, CSize - SectorInCluster(m.f))
  IN  IF Offset(m.f) # 0 THEN ReadPart(m)
      ELSE IF s0 = 0 THEN Abort(m, "INT_ERR")
      ELSE IF cc > 0 THEN ReadDirect(m, s, cc)
      ELSE ReadPart([m EXCEPT !.f.dsect = s])
ReadTurn(m) ==
  IF m.want = 0 THEN Stop(m, "OK")
  ELSE OrAbort(IF AtCluster(m.f) THEN ReadCluster(m) ELSE Ok(m), ReadSector)
f_read(m, n) ==
  Then(Usable([m EXCEPT !.buf = <<>>], {"R"}), LAMBDA a :
    Loop([a EXCEPT !.want = Least(n, a.f.fsize - a.f.fptr)], ReadTurn, n + 1))

(* The first cluster is stored before it is looked at.                     *)
WriteCluster(m) ==
  LET new == m.f.fptr = 0 /\ m.f.sclust = 0
  IN  After(IF m.f.fptr = 0 /\ ~new THEN [m EXCEPT !.val = m.f.sclust]
            ELSE create_chain(m, IF new THEN 0 ELSE m.f.clust), LAMBDA a :
        After(IF new THEN [a EXCEPT !.f.sclust = a.val] ELSE a, LAMBDA b :
          IF b.val = 0 THEN Stop(b, "OK")     \* no free cluster: a short count
          ELSE IF b.val \in {1, DERR} THEN Abort(b, LinkError(b))
          ELSE [Ok(b) EXCEPT !.f.clust = b.val]))
WritePart(m) ==
  LET data == SubSeq(m.buf, 1, Least(SecSize - Offset(m.f), Len(m.buf)))
  IN  OrAbort(move_window(m, m.f.dsect), LAMBDA a :
        [Moved(a, Len(data)) EXCEPT !.wflag = TRUE,
           !.win = DataSector(Patch(AsData(@).b, Offset(m.f), data)),
           !.buf = SubSeq(@, Len(data) + 1, Len(@))])
\* Whole sectors written below a window that still shows the old bytes.
WriteBelow(m, s, cc) ==
  LET sec(t) == DataSector([i \in 0..SecSize-1 |-> m.buf[(t - s) * SecSize + i + 1]])
  IN  IF Fails(m) THEN Abort(Spent(m), "DISK_ERR")
      ELSE [Moved(Spent(m), cc * SecSize) EXCEPT
              !.disk = [t \in DOMAIN @ |-> IF s <= t /\ t < s + cc THEN sec(t) ELSE @[t]],
              !.buf = SubSeq(@, cc * SecSize + 1, Len(@))]
WriteDirect(m, s, cc) ==
  LET sec(t) == DataSector([i \in 0..SecSize-1 |-> m.buf[(t - s) * SecSize + i + 1]])
      hit == s <= m.winsect /\ m.winsect < s + cc
  IN  IF Fails(m) THEN Abort(Spent(m), "DISK_ERR")
      ELSE [Moved(Spent(m), cc * SecSize) EXCEPT
              !.disk = [t \in DOMAIN @ |-> IF s <= t /\ t < s + cc THEN sec(t) ELSE @[t]],
              !.win = IF hit THEN sec(m.winsect) ELSE @,
              !.wflag = @ /\ ~hit,
              !.buf = SubSeq(@, cc * SecSize + 1, Len(@))]
(* A sector at the growing edge is not read: the window is renamed.        *)
WriteSector(m) ==
  OrAbort(IF m.winsect = m.f.dsect THEN sync_window(m) ELSE Ok(m), LAMBDA a :
    LET s0 == clust2sect(a, a.f.clust)
        s  == s0 + SectorInCluster(m.f)
        cc == Least(Len(m.buf) \div SecSize, CSize - SectorInCluster(m.f))
    IN  IF s0 = 0 THEN Abort(a, "INT_ERR")
        ELSE IF cc > 0 THEN WriteDirect(a, s, cc)
        ELSE IF m.f.fptr < m.f.fsize THEN WritePart([a EXCEPT !.f.dsect = s])
        ELSE OrAbort(sync_window(a), LAMBDA b :
               WritePart([b EXCEPT !.winsect = s, !.f.dsect = s])))
WriteTurn(m) ==
  IF m.buf = <<>> THEN Stop(m, "OK")
  ELSE After(IF AtCluster(m.f) THEN WriteCluster(m) ELSE Ok(m), LAMBDA a :
    IF a.stop THEN a ELSE IF Offset(m.f) = 0 THEN WriteSector(a) ELSE WritePart(a))
Grown(m) == [m EXCEPT !.f.fsize = IF m.f.fptr > @ THEN m.f.fptr ELSE @]
f_write(m, data) ==
  Then(Usable([m EXCEPT !.buf = data], {"W"}), LAMBDA a :
    Then(Loop(a, WriteTurn, Len(data) + 1), LAMBDA b :
      [Grown(b) EXCEPT !.f.flag = @ \cup {"WRITTEN"}]))

Recorded(m) ==      \* the entry of m.f in the window
  LET e == AsDir(m.win).e[m.f.dir_ptr]
  IN  PutEntry([m EXCEPT !.dj.dir = m.f.dir_ptr, !.f.flag = @ \ {"WRITTEN"}],
        [e EXCEPT !.attr = @ \cup {"ARC"}, !.size = m.f.fsize, !.clust = m.f.sclust])
f_sync(m) ==
  Then(validate(m, m.f), LAMBDA a :
    IF "WRITTEN" \notin a.f.flag THEN a
    ELSE Then(move_window(a, a.f.dir_sect), LAMBDA b : sync_fs(Recorded(b))))
f_close(m) == Then(f_sync(m), LAMBDA a : [a EXCEPT !.f.open = FALSE])

-----------------------------------------------------------------------------
(* f_lseek: m.want is the distance still to go from m.f.fptr.              *)
ClusterBytes == CSize * SecSize
SeekStart(m) ==
  LET p == m.f.fptr
      base == ((p - 1) \div ClusterBytes) * ClusterBytes
  IN  IF p > 0 /\ (m.want - 1) \div ClusterBytes >= (p - 1) \div ClusterBytes
      THEN [Ok(m) EXCEPT !.f.fptr = base, !.want = @ - base, !.val = m.f.clust]
      ELSE After(IF m.f.sclust = 0 THEN create_chain([m EXCEPT !.f.fptr = 0], 0)
                 ELSE [m EXCEPT !.f.fptr = 0, !.val = m.f.sclust], LAMBDA a :
             IF a.val \in {1, DERR} THEN Abort(a, LinkError(a))
             ELSE [Ok(a) EXCEPT !.f.sclust = a.val, !.f.clust = a.val])
SeekTurn(m) ==
  IF m.want <= ClusterBytes THEN Stop(m, "OK")
  ELSE After(IF "W" \in m.f.flag THEN create_chain(m, m.f.clust)
             ELSE get_fat(m, m.f.clust), LAMBDA a :
    IF "W" \in m.f.flag /\ a.val = 0 THEN Stop([a EXCEPT !.want = ClusterBytes], "OK")
    ELSE IF InRange(a.val)
    THEN [Moved(a, ClusterBytes) EXCEPT !.f.clust = a.val, !.want = @ - ClusterBytes]
    ELSE Abort(a, IF a.val = DERR THEN "DISK_ERR" ELSE "INT_ERR"))
SeekEnd(m) ==
  LET s0 == clust2sect(m, m.f.clust)
      s  == IF m.want % SecSize = 0 THEN 0 ELSE s0 + m.want \div SecSize
      a  == Moved(m, m.want)
  IN  IF m.want % SecSize # 0 /\ s0 = 0 THEN Abort(a, "INT_ERR")
      ELSE [a EXCEPT !.f.dsect = IF Offset(a.f) # 0 THEN s ELSE @]
SeekTo(m, to) ==
  IF to = 0 THEN [m EXCEPT !.f.fptr = 0]
  ELSE Then(SeekStart([m EXCEPT !.want = to]), LAMBDA a :
         IF a.val = 0 THEN a ELSE Then(Loop(a, SeekTurn, Turns), SeekEnd))
f_lseek(m, ofs) ==
  Then(Usable(m, {}), LAMBDA a :
    Then([SeekTo(a, IF ofs > a.f.fsize /\ "W" \notin a.f.flag THEN a.f.fsize ELSE ofs)
            EXCEPT !.stop = FALSE], LAMBDA b :
      IF b.f.fptr <= b.f.fsize THEN b
      ELSE [Grown(b) EXCEPT !.f.flag = @ \cup {"WRITTEN"}]))

(* f_truncate: the chain goes before the entry knows.                      *)
CutChain(m) ==
  After(get_fat(m, m.f.clust), LAMBDA a :
    IF a.val \in {1, DERR} THEN Fail(a, LinkError(a))
    ELSE IF a.val >= NFatEnt THEN a
    ELSE Then(put_fat(a, a.f.clust, EOC), LAMBDA b : remove_chain(b, a.val)))
Shortened(m) ==
  IF m.f.fptr = 0 THEN [remove_chain(m, m.f.sclust) EXCEPT !.f.sclust = 0] ELSE CutChain(m)
f_truncate(m) ==
  Then(Usable(m, {"W"}), LAMBDA a :
    IF a.f.fsize <= a.f.fptr THEN a
    ELSE After(Shortened([a EXCEPT !.f.fsize = a.f.fptr, !.f.flag = @ \cup {"WRITTEN"}]),
           LAMBDA b : IF b.res = "OK" THEN b ELSE [Abort(b, b.res) EXCEPT !.stop = FALSE]))
=============================================================================
