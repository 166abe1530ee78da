--------------------------------- MODULE Fat ---------------------------------
(***************************************************************************)
(* FatFs in use: the calls of the API one after the other, as the file     *)
(* service makes them, on a card that may stop answering at any access of a*)
(* call; the power may go after any call, so that a call the card did not  *)
(* finish may be the last one.  The application does not open, rename or   *)
(* delete a file it has open (_FS_LOCK is 0: the library does not look).   *)
(***************************************************************************)
EXTENDS FatPath

CONSTANTS Volumes,    \* the cards at the start: a format and what is on it
          Known,      \* the absolute paths the application uses
          Args,       \* the paths it passes, absolute ("/" first) or relative
          NewDirs, Moves,
          Handles,    \* 1..n, handed out as file_open does: the first that is free
          Modes, Data, Offsets, Counts,
          Glitch,     \* one access fails and the next succeeds
          MaxAccess, MaxCalls, MaxFaults      \* bounds

(* Paths are sequences of names; a call may fail at its first access, at   *)
(* any later one up to the bound, or not at all.                           *)
ASSUME UseAssumption ==
  /\ \A v \in Volumes :
       /\ v.type \in {"FAT16", "FAT32"} /\ v.sfd \in BOOLEAN /\ v.n_fats \in {1, 2}
       /\ v.items \in Seq([is : {"dir", "file"}, path : Seq(STRING), b : Seq(Nat)])
       /\ v.opened \in Seq([path : Seq(STRING), mode : SUBSET STRING, b : Seq(Nat)])
  /\ Args \subseteq Seq(STRING) /\ NewDirs \subseteq Seq(STRING)
  /\ Moves \subseteq Seq(STRING) \X Seq(STRING) /\ Data \subseteq Seq(Nat)
  /\ Offsets \subseteq Nat /\ Counts \subseteq Nat
  /\ MaxAccess \in Nat /\ Glitch \in BOOLEAN

VARIABLES vol,        \* the work area and the card
          files,      \* the file objects
          holds,      \* history: the path and the bytes behind each open file
          kept,       \* history: what a call has promised about each path
          cwd,        \* history: the current directory
          doubt,      \* history: the paths a failed call was changing
          suspect,    \* history: a fault where FatFs leaves two owners of a chain
          last,       \* history: the answer of the last call, and the right one
          calls, faults
hist == <<kept, doubt, suspect, cwd>>
vars == <<vol, files, holds, hist, last, calls, faults>>

(* The access of a call that fails; 0: none does.                          *)
Faults == IF faults < MaxFaults THEN 0..MaxAccess ELSE {0}
Silence == [op |-> "", res |-> "OK", got |-> <<>>, want |-> <<>>]
NotHeld == [path |-> <<>>, data |-> <<>>, clean |-> TRUE, cutting |-> FALSE]
Any     == [is |-> "any", b |-> <<>>]
Absent  == [is |-> "absent", b |-> <<>>]
ADir    == [is |-> "dir", b |-> <<>>]
AFile(b) == [is |-> "file", b |-> b]

-----------------------------------------------------------------------------
(* What a card d holds, read off by the definition of the format.          *)
Shape(d) == LET p == d[0].part
            IN  [bsect |-> p, type |-> d[p].type, n_fats |-> d[p].n_fats]
Link(d, c) == d[FatSectorOf(Shape(d), c)].e[c % FatPer]
Links(d, c) == LET l[i \in 0..NFatEnt] ==
                     IF i = 0 THEN c
                     ELSE LET k == l[i-1] IN IF InRange(k) THEN Link(d, k) ELSE k
               IN  l
Chain(d, c) == LET l == Links(d, c)
               IN  {k \in {l[i] : i \in 0..NFatEnt} : InRange(k)}
Sound(d, e) == /\ e.clust = 0 \/ (InRange(e.clust) /\ Links(d, e.clust)[NFatEnt] = EOC)
               /\ Cardinality(Chain(d, e.clust)) * ClusterBytes >= e.size
Table(d, c) ==
  LET l == Links(d, c)
      n == IF c = 0 THEN NRoot ELSE Cardinality(Chain(d, c)) * CSize * DirPer
      at(i) == IF c = 0 THEN RootBase(Shape(d)) + i
               ELSE clust2sect(Shape(d), l[i \div CSize]) + (i % CSize)
      e == [j \in 0..n-1 |-> AsDir(d[at(j \div DirPer)]).e[j % DirPer]]
      ends == {j \in 0..n-1 : e[j].name = ""}
  IN  {e[j] : j \in {i \in 0..n-1 : e[i].name # "DEL" /\ \A k \in ends : i < k}}
Root(d) == DirBase(Shape(d))
(* The entries of each of the paths ps: one, if it exists.                 *)
Tree(d, ps) ==
  LET root == Table(d, Root(d))
      named(t, n) == {e \in t : e.name = n /\ "VOL" \notin e.attr}
  IN  [p \in ps |-> IF Len(p) = 1 THEN named(root, p[1])
                    ELSE UNION {named(Table(d, e.clust), p[2]) :
                                  e \in {y \in named(root, p[1]) : "DIR" \in y.attr}}]
Lookup(d, p) == Tree(d, {p})[p]
Bytewise(d, e) ==
  LET l == Links(d, e.clust)
      at(i) == clust2sect(Shape(d), l[i \div CSize]) + (i % CSize)
  IN  [i \in 1..e.size |-> AsData(d[at((i-1) \div SecSize)]).b[(i-1) % SecSize]]
Free(d) == {c \in 2..NFatEnt-1 : Link(d, c) = 0}
(* Bytes that were never written (0) may be anything.                      *)
Agrees(b, said) == Len(b) = Len(said) /\ \A i \in DOMAIN b : said[i] \in {0, b[i]}

-----------------------------------------------------------------------------
(* Power comes on: file_init of file.cpp initializes the card and registers*)
(* the work area; the first call with a path mounts.                       *)
NoDir == [sclust |-> 0, index |-> 0, clust |-> 0, sect |-> 0, dir |-> 0,
          fn |-> [name |-> "", last |-> FALSE, dot |-> FALSE], open |-> FALSE, id |-> 0]
Rest(m) == [m EXCEPT !.left = 0, !.cut = FALSE, !.failed = FALSE, !.res = "OK",
              !.val = 0, !.cur = 0, !.cnt = 0, !.stop = FALSE, !.dj = NoDir,
              !.f = Closed, !.buf = <<>>, !.want = 0, !.path = <<>>, !.info = NoInfo]
PowerOn(d) ==
  [disk |-> d, type |-> "none", n_fats |-> 0, bsect |-> 0, last |-> 0, free |-> 0,
   fsi |-> FALSE, winsect |-> 0, win |-> ZeroDir, wflag |-> FALSE, id |-> 0, cdir |-> 0,
   ready |-> FALSE, left |-> 0, cut |-> FALSE, failed |-> FALSE, res |-> "OK", val |-> 0,
   cur |-> 0, cnt |-> 0, stop |-> FALSE, dj |-> NoDir, f |-> Closed, buf |-> <<>>,
   want |-> 0, path |-> <<>>, info |-> NoInfo]
file_init(d) == f_mount(disk_initialize(PowerOn(d)))

(* A card at the start: formatted here (one FAT) or elsewhere (two), then  *)
(* filled by the calls of the library.                                     *)
LastSector == 1 + NRsv + 2 * FatSize + NRoot \div DirPer + (NFatEnt - 2) * CSize
Formatted(v) ==
  After(f_mkfs(PowerOn([s \in 0..LastSector |-> AsData(ZeroDir)]), v.type, v.sfd), LAMBDA m :
    IF v.n_fats = 1 THEN m ELSE WriteAll(m, Format(m, v.type, v.sfd, v.n_fats)))
Store(m, item) ==
  IF item.is = "dir" THEN f_mkdir(m, item.path)
  ELSE f_close(f_write(f_open(m, item.path, {"W", "ALWAYS"}), item.b))
Filled(v) ==
  LET put[i \in 0..Len(v.items)] == IF i = 0 THEN file_init(Formatted(v).disk)
                                    ELSE Store(put[i-1], v.items[i])
  IN  put[Len(v.items)].disk
(* ... and files left open by the calls before, written at the start.      *)
Begun(z, m, job) ==     \* z.m is before, m behind the f_open of the job
  [m |-> m, f |-> z.f,
   was |-> Append(z.was, Bytewise(View(m), CHOOSE e \in Lookup(View(m), job.path) : TRUE))]
HalfDone(z, m) == [z EXCEPT !.m = Rest(m), !.f = Append(@, m.f)]
Opened(v) ==
  LET open(z, job) == Begun(z, f_open(z.m, job.path, job.mode), job)
      write(z, job) == HalfDone(z, f_write(z.m, job.b))
      at[i \in 0..Len(v.opened)] ==
        IF i = 0 THEN [m |-> file_init(Filled(v)), f |-> <<>>, was |-> <<>>]
        ELSE write(open(at[i-1], v.opened[i]), v.opened[i])
  IN  at[Len(v.opened)]
Promised(v, p) ==
  LET i == {j \in DOMAIN v.items : v.items[j].path = p}
      it == v.items[CHOOSE j \in i : TRUE]
  IN  IF \E j \in DOMAIN v.opened : v.opened[j].path = p THEN Any
      ELSE IF i = {} THEN Absent
      ELSE IF it.is = "dir" THEN ADir ELSE AFile(it.b)
(* The bytes the application has put into a file, n from position p on.    *)
Written(b, p, data) ==
  [i \in 1..(IF p + Len(data) > Len(b) THEN p + Len(data) ELSE Len(b)) |->
     IF i > p /\ i <= p + Len(data) THEN data[i - p] ELSE IF i <= Len(b) THEN b[i] ELSE 0]

InitFrom(v, o) ==
  /\ vol = o.m
  /\ kept = [p \in Known |-> Promised(v, p)]
  /\ files = [h \in Handles |-> IF h \in DOMAIN o.f THEN o.f[h] ELSE Closed]
  /\ holds = [h \in Handles |-> IF h \notin DOMAIN o.f THEN NotHeld
       ELSE [NotHeld EXCEPT !.path = v.opened[h].path,
               !.data = Written(o.was[h], 0, v.opened[h].b)]]
Init == /\ \E v \in Volumes : InitFrom(v, Opened(v))
        /\ cwd = <<>> /\ doubt = {} /\ suspect = FALSE /\ last = Silence
        /\ calls = 0 /\ faults = 0

-----------------------------------------------------------------------------
(* A call: m is the work area when it returns, x the access that failed.   *)
Start(f, x) == [vol EXCEPT !.f = f, !.left = x, !.cut = ~Glitch]
Abs(p) == IF Head(p) = "/" THEN Tail(p)
          ELSE IF p = <<"..">> THEN SubSeq(cwd, 1, Len(cwd) - 1) ELSE cwd \o p
Idle(p) == \A h \in Handles :
  Len(p) <= Len(holds[h].path) => SubSeq(holds[h].path, 1, Len(p)) # p
Returned(m, x, op, got, want) ==
  /\ x > 0 => m.failed
  /\ vol' = Rest(m)
  /\ last' = [op |-> op, res |-> m.res,
              got |-> [o \in {op} |-> got], want |-> [o \in {op} |-> want]]
  /\ calls' = calls + 1
  /\ faults' = faults + (IF x > 0 THEN 1 ELSE 0)
WithFile(h, m, hold) ==
  /\ files' = [files EXCEPT ![h] = m.f]
  /\ holds' = [holds EXCEPT ![h] = hold]
  /\ UNCHANGED <<suspect, cwd>>
(* What is promised about p after a call that may change it to v.          *)
Refusals == {"NO_FILE", "NO_PATH", "EXIST", "DENIED", "INVALID_NAME"}
Becomes(p, v, m) == [kept EXCEPT ![p] = IF m.res = "OK" THEN v
                                        ELSE IF m.res \in Refusals /\ ~m.failed THEN @ ELSE Any]
Doubted(p, m) == doubt' = doubt \cup IF m.failed THEN {p} ELSE {}

Opens(h, p, mode, x, new, m) ==
  /\ kept' = IF new THEN Becomes(p, Any, m) ELSE kept
  /\ IF new THEN Doubted(p, m) ELSE UNCHANGED doubt
  /\ WithFile(h, m, IF m.res # "OK" THEN NotHeld
       ELSE [NotHeld EXCEPT !.path = p, !.clean = p \notin doubt,
               !.data = Bytewise(View(m), CHOOSE e \in Lookup(View(m), p) : TRUE)])
  /\ Returned(m, x, "f_open", <<>>, <<>>)
Open(h, arg, mode, x) ==
  /\ ~files[h].open /\ \A k \in Handles : k < h => files[k].open
  /\ Abs(arg) \in Known /\ Idle(Abs(arg))
  /\ Opens(h, Abs(arg), mode, x,
           "ALWAYS" \in mode \/ (Creating(mode) /\ Lookup(View(vol), Abs(arg)) = {}),
           f_open(Start(Closed, x), arg, mode))

Reads(h, n, x, m) ==
  LET p == files[h].fptr
  IN  /\ WithFile(h, m, holds[h])
      /\ Returned(m, x, "f_read", m.buf,
                  SubSeq(holds[h].data, p + 1, Least(p + n, Len(holds[h].data))))
Read(h, n, x) ==
  /\ files[h].open
  /\ UNCHANGED <<kept, doubt>>
  /\ Reads(h, n, x, f_read(Start(files[h], x), n))

Writes(h, data, x, m) ==
  LET p == files[h].fptr
      done == SubSeq(data, 1, m.f.fptr - p)
  IN  /\ Doubted(holds[h].path, m)
      /\ WithFile(h, m, [holds[h] EXCEPT !.data = Written(@, p, done), !.clean = @ /\ m.res = "OK"])
      /\ Returned(m, x, "f_write", <<Len(done)>>, <<Len(data)>>)
Write(h, data, x) ==
  /\ files[h].open
  /\ kept' = IF "W" \in files[h].flag THEN [kept EXCEPT ![holds[h].path] = Any] ELSE kept
  /\ Writes(h, data, x, f_write(Start(files[h], x), data))

(* Bytes a seek beyond the end adds are not written.                       *)
Seeks(h, ofs, x, m) ==
  /\ kept' = IF m.f.fsize = files[h].fsize THEN kept ELSE [kept EXCEPT ![holds[h].path] = Any]
  /\ Doubted(holds[h].path, m)
  /\ WithFile(h, m, [holds[h] EXCEPT !.data = Written(@, m.f.fsize, <<>>),
                                     !.clean = @ /\ ~m.failed])
  /\ Returned(m, x, "f_lseek", <<m.f.fptr>>, <<ofs>>)
Lseek(h, ofs, x) == files[h].open /\ Seeks(h, ofs, x, f_lseek(Start(files[h], x), ofs))

Truncates(h, x, shorter, m) ==
  /\ Doubted(holds[h].path, m)
  /\ WithFile(h, m, [holds[h] EXCEPT !.data = SubSeq(@, 1, m.f.fsize),
                          !.clean = @ /\ m.res = "OK", !.cutting = @ \/ shorter])
  /\ Returned(m, x, "f_truncate", <<>>, <<>>)
Truncate(h, x) ==
  LET shorter == "W" \in files[h].flag /\ files[h].fptr < files[h].fsize
  IN  /\ files[h].open
      /\ kept' = IF shorter THEN [kept EXCEPT ![holds[h].path] = Any] ELSE kept
      /\ Truncates(h, x, shorter, f_truncate(Start(files[h], x)))

(* f_sync and f_close promise what the handle has put together.            *)
Saves(h, x, op, hold, m) ==
  /\ kept' = IF "WRITTEN" \notin files[h].flag THEN kept
             ELSE [kept EXCEPT ![holds[h].path] =
                     IF m.res = "OK" /\ holds[h].clean THEN AFile(holds[h].data) ELSE Any]
  /\ Doubted(holds[h].path, m)
  /\ WithFile(h, m, IF m.res = "OK" THEN hold ELSE [holds[h] EXCEPT !.clean = FALSE])
  /\ Returned(m, x, op, <<>>, <<>>)
Sync(h, x) ==
  /\ files[h].open
  /\ Saves(h, x, "f_sync", [holds[h] EXCEPT !.cutting = FALSE], f_sync(Start(files[h], x)))
Close(h, x) ==
  /\ files[h].open
  /\ Saves(h, x, "f_close", NotHeld, f_close(Start(files[h], x)))

-----------------------------------------------------------------------------
(* The path p becomes v.                                                   *)
Alters(p, v, x, op, m) ==
  /\ kept' = Becomes(p, v, m) /\ Doubted(p, m)
  /\ UNCHANGED <<files, holds, suspect, cwd>>
  /\ Returned(m, x, op, <<>>, <<>>)
Unlink(arg, x) ==
  /\ Abs(arg) \in Known /\ Idle(Abs(arg))
  /\ Alters(Abs(arg), Absent, x, "f_unlink", f_unlink(Start(Closed, x), arg))
Mkdir(arg, x) ==
  /\ Abs(arg) \in Known
  /\ Alters(Abs(arg), ADir, x, "f_mkdir", f_mkdir(Start(Closed, x), arg))
(* Between its new and its old entry a file has two owners.                *)
Renames(p, q, x, m) ==
  LET k == Becomes(p, Absent, m)
  IN  /\ kept' = [k EXCEPT ![q] = IF m.res = "OK" THEN kept[p] ELSE IF k[p] = Any THEN Any ELSE @]
      /\ doubt' = doubt \cup IF m.failed THEN {p, q} ELSE {}
      /\ suspect' = (suspect \/ m.failed) /\ UNCHANGED <<files, holds, cwd>>
      /\ Returned(m, x, "f_rename", <<>>, <<>>)
Rename(old, new, x) ==
  /\ {Abs(old), Abs(new)} \subseteq Known /\ Idle(Abs(old))
  /\ Renames(Abs(old), Abs(new), x, f_rename(Start(Closed, x), old, new))
(* Attributes, time and label: the files themselves stay.                  *)
Stamps(x, op, m) == UNCHANGED <<files, holds, hist>> /\ Returned(m, x, op, <<>>, <<>>)
Chmod(arg, value, x) ==
  /\ Abs(arg) \in Known /\ Idle(Abs(arg))
  /\ Stamps(x, "f_chmod", f_chmod(Start(Closed, x), arg, value, {"RDO"}))
Utime(arg, x) ==
  /\ Abs(arg) \in Known /\ Idle(Abs(arg))
  /\ Stamps(x, "f_utime", f_utime(Start(Closed, x), arg))
Setlabel(label, x) == Stamps(x, "f_setlabel", f_setlabel(Start(Closed, x), label))

-----------------------------------------------------------------------------
(* Questions.  The right answers are read off the card with the window.    *)
Answers(op, m, got, right) ==
  UNCHANGED <<files, holds, hist>> /\ Returned(m, 0, op, got, right)
Ask(op, m, Got(_), Right(_)) == Answers(op, m, Got(m), Right(View(m)))
Now == Start(Closed, 0)
Stat(arg) ==
  /\ Abs(arg) \in Known
  /\ Ask("f_stat", f_stat(Now, arg),
         LAMBDA m : IF m.res = "OK" THEN {m.info} ELSE {},
         LAMBDA d : {[name |-> e.name, attr |-> e.attr, size |-> e.size] :
                       e \in Lookup(d, Abs(arg))})
(* A listing: the names up to the empty one, rewound and taken again.      *)
NextName(m) ==
  Carry(f_readdir(m), LAMBDA a :
    IF a.info.name = "" THEN Stop(a, "OK") ELSE [a EXCEPT !.buf = Append(@, a.info.name)])
Names(m) == Loop([m EXCEPT !.buf = <<>>], NextName, Turns)
Listing(m) ==
  After(Names(m), LAMBDA a : After(Names(f_rewinddir(a)), LAMBDA b :
    IF b.buf = a.buf THEN b ELSE [b EXCEPT !.buf = <<"differs">>]))
Entries(d, p) == UNION {Table(d, c) : c \in IF p = <<>> THEN {Root(d)}
                   ELSE {e.clust : e \in {y \in Lookup(d, p) : "DIR" \in y.attr}}}
Ordinary(t) == {e.name : e \in {y \in t : "VOL" \notin y.attr}}
Labels(t)   == {e.name : e \in {y \in t : "VOL" \in y.attr}}
List(arg) ==
  Ask("f_readdir", Then(f_opendir(Now, arg), Listing),
      LAMBDA m : {m.buf[i] : i \in DOMAIN m.buf}, LAMBDA d : Ordinary(Entries(d, Abs(arg))))
Getfree == Ask("f_getfree", f_getfree(Now), LAMBDA m : m.val, LAMBDA d : Cardinality(Free(d)))
Getlabel == Ask("f_getlabel", f_getlabel(Now), LAMBDA m : {m.info.name} \ {""},
                LAMBDA d : Labels(Entries(d, <<>>)))
Getcwd == Ask("f_getcwd", f_getcwd(Now), LAMBDA m : m.buf, LAMBDA d : cwd)
ChangesTo(p, m) ==
  /\ UNCHANGED <<files, holds, kept, doubt, suspect>>
  /\ cwd' = IF m.res = "OK" THEN p ELSE cwd
  /\ Returned(m, 0, "f_chdir", <<>>, <<>>)
Chdir(arg) == ChangesTo(Abs(arg), f_chdir(Now, arg))

(* The power goes and comes back: what was in the memory is lost, a fault  *)
(* if there was something that a close would have written.                 *)
PowerOff ==
  /\ vol' = file_init(vol.disk)
  /\ files' = [h \in Handles |-> Closed] /\ holds' = [h \in Handles |-> NotHeld]
  /\ cwd' = <<>> /\ last' = Silence
  /\ suspect' = (suspect \/ \E h \in Handles : holds[h].cutting)
  /\ faults' = faults + (IF vol.wflag \/ vol.fsi \/ \E h \in Handles : files[h].open
                         THEN 1 ELSE 0)
  /\ UNCHANGED <<kept, doubt, calls>>

Next ==
  \/ PowerOff
  \/ /\ calls < MaxCalls
     /\ \/ \E x \in Faults :
             \/ \E h \in Handles :
                  \/ \E arg \in Args, mode \in Modes : Open(h, arg, mode, x)
                  \/ \E n \in Counts : Read(h, n, x)
                  \/ \E data \in Data : Write(h, data, x)
                  \/ \E ofs \in Offsets : Lseek(h, ofs, x)
                  \/ Truncate(h, x) \/ Sync(h, x) \/ Close(h, x)
             \/ \E arg \in Args :
                  Unlink(arg, x) \/ Utime(arg, x) \/ Chmod(arg, {"RDO"}, x)
             \/ \E arg \in NewDirs : Mkdir(arg, x)
             \/ \E mv \in Moves : Rename(mv[1], mv[2], x)
             \/ Setlabel("L", x)
        \/ \E arg \in Args : Stat(arg)
        \/ \E arg \in {<<"/">>, <<"D">>} : List(arg)
        \/ \E arg \in {<<"D">>, <<"..">>} : Chdir(arg)
        \/ Getfree \/ Getlabel \/ Getcwd
Spec == Init /\ [][Next]_vars

-----------------------------------------------------------------------------
(* Sectors keep to their kind: both FATs hold FAT sectors and the volume    *)
(* its boot record.  A window that waits to be written shows a sector of   *)
(* the volume behind those, a FAT sector where one belongs; one that does  *)
(* not wait shows what the card has there.                                 *)
TypeOK ==
  LET v == Shape(vol.disk)
      fat == FatBase(v)..FatBase(v) + v.n_fats * FatSize - 1
  IN  /\ vol.disk[v.bsect].kind = "boot" /\ vol.winsect \in DOMAIN vol.disk
      /\ \A s \in fat : vol.disk[s].kind = "fat"
      /\ vol.wflag => vol.winsect >= FatBase(v)
                      /\ (vol.winsect \in fat <=> vol.win.kind = "fat")
      /\ ~vol.wflag /\ vol.winsect >= FatBase(v) =>
            vol.win.kind = vol.disk[vol.winsect].kind /\ vol.win = vol.disk[vol.winsect]

(* sync_window writes a FAT sector twice where there are two FATs, and looks*)
(* at the result of the first write only: as long as no access has failed, *)
(* the second FAT repeats the first, whatever is still in the window.      *)
Mirrored ==
  faults = 0 =>
    LET v == Shape(vol.disk)
    IN  v.n_fats = 2 =>
          \A s \in FatBase(v)..FatBase(v) + FatSize - 1 : vol.disk[s + FatSize] = vol.disk[s]

(* Reading and asking move the window, which may have to be written first, *)
(* mount the volume and turn a file's or a directory's position, but what  *)
(* the volume shows stays, also when an access of an f_read fails; only the*)
(* second FAT may be brought up to date.                                   *)
Questions == {"f_read", "f_stat", "f_readdir", "f_getfree", "f_getlabel", "f_getcwd", "f_chdir"}
Copies(d) == LET v == Shape(d)
             IN  IF v.n_fats = 2 THEN FatBase(v) + FatSize..FatBase(v) + 2 * FatSize - 1 ELSE {}
SameVolume == \A s \in DOMAIN vol.disk \ Copies(vol.disk) : View(vol')[s] = View(vol)[s]
Still == last'.op \in Questions => SameVolume
QuestionsOnlyLook == [][Still]_vars

(* What a call has acknowledged is on the card and survives the loss of    *)
(* power at any access of any later call: a closed or synchronized file    *)
(* with its bytes, a directory made, a name deleted.                       *)
Durable ==
  ~suspect =>
    LET tree == Tree(vol.disk, Known)
    IN  \A p \in Known :
      LET e == tree[p]
      IN  CASE kept[p].is = "absent" -> e = {}
            [] kept[p].is = "dir"  -> Cardinality(e) = 1 /\ \A y \in e : "DIR" \in y.attr
            [] kept[p].is = "file" -> Cardinality(e) = 1
                 /\ \A y \in e : Agrees(Bytewise(vol.disk, y), kept[p].b)
            [] OTHER -> TRUE

(* The chains of two paths never share a cluster, every chain ends, and a  *)
(* file is no longer than its chain: on the card at any moment, torn calls *)
(* included, and with the window.  Left out: files whose writing failed    *)
(* and files cut short but not yet synchronized.                           *)
Settled == Known \ (doubt \cup {holds[h].path : h \in {k \in Handles : holds[k].cutting}})
NoCrossLink ==
  ~suspect =>
    \A d \in {vol.disk, View(vol)} :
      LET tree == Tree(d, Settled)
          own == [p \in Settled |-> UNION {Chain(d, e.clust) : e \in tree[p]}]
      IN  \A p \in Settled :
            /\ \A e \in tree[p] : "DIR" \in e.attr \/ Sound(d, e)
            /\ \A q \in Settled \ {p} : own[p] \cap own[q] = {}

(* As long as no access has failed: the free clusters are counted right,   *)
(* and every other cluster belongs to an entry or to an open file.         *)
Accounted ==
  faults = 0 =>
    LET d == View(vol)
        shut == Known \ {holds[h].path : h \in Handles}
        tree == Tree(d, shut)
    IN  /\ vol.type # "none" /\ vol.free # Unknown => vol.free = Cardinality(Free(d))
        /\ (2..NFatEnt-1) \ Free(d) =
             UNION {Chain(d, e.clust) : e \in UNION {tree[p] : p \in shut}}
             \cup (IF Root(d) = 0 THEN {} ELSE Chain(d, Root(d)))
             \cup UNION {Chain(d, files[h].sclust) : h \in {k \in Handles : files[k].open}}

(* Every call returns, and none reports the internal error ("assertion     *)
(* failed") unless a fault has hit before; its answer is right: f_read     *)
(* returns the bytes written through the handle or found at f_open, as many*)
(* as there are up to the end of the file; f_write takes all its bytes     *)
(* unless the volume is full; questions are answered by what is on the     *)
(* volume.                                                                 *)
Truthful ==
  /\ last.res # "HANG" /\ (faults = 0 => last.res # "INT_ERR")
  /\ last.res = "OK" /\ ~suspect =>
       CASE last.op = "f_read" -> Agrees(last.got[last.op], last.want[last.op])
         [] last.op = "f_write" -> last.got = last.want \/ Free(View(vol)) = {}
         [] last.op \in {"f_stat", "f_readdir", "f_getlabel", "f_getcwd"} -> last.got = last.want
         [] last.op = "f_getfree" -> faults = 0 => last.got = last.want
         [] OTHER -> TRUE

(* The clusters of an open file reach to its end, a disk error on the way  *)
(* being reported (ff.cpp:1001).                                           *)
ChainCovers ==
  \A h \in Handles :
    files[h].open /\ "ERROR" \notin files[h].flag /\ holds[h].clean =>
      Cardinality(Chain(View(vol), files[h].sclust)) * ClusterBytes >= files[h].fsize
=============================================================================
