--------------------------- MODULE FatVolumeProofs ---------------------------
(***************************************************************************)
(* What FatFs does with a volume and its directories, on a card that may   *)
(* stop answering at any access: window, FAT, FSInfo, tables, paths and    *)
(* mounting.  FatProofs goes on with the calls.                            *)
(*                                                                         *)
(* Each function of the library is taken by itself: Work(g) is the set of  *)
(* the records m that a call may be in on a card of the shape g, and a     *)
(* lemma named for the function says that it leads from Work(g) to Work(g),*)
(* whichever access fails on the way.  A loop is a function over the turns *)
(* taken; that its turns stay in a set follows from the induction over     *)
(* SetInduction, which is stated with the set itself.                      *)
(***************************************************************************)
EXTENDS Fat, WellFoundedInduction, FiniteSetTheorems, SequenceTheorems, TLAPS

-----------------------------------------------------------------------------
(* Induction over sets of numbers, and loops.                              *)
LEMMA SetInduction ==
  ASSUME NEW S, 0 \in S, \A n \in Nat : n \in S => n + 1 \in S
  PROVE  \A n \in Nat : n \in S
<1> DEFINE T == {n \in Nat : n \notin S}
           R == OpToRel(<, Nat)
<1>1. SUFFICES ASSUME T # {} PROVE FALSE
  OBVIOUS
<1>2. PICK x \in T : \A y \in T : ~ (<<y, x>> \in R)
  <2>1. T \subseteq Nat
    OBVIOUS
  <2>2. IsWellFoundedOn(R, Nat)
    BY NatLessThanWellFounded
  <2> HIDE DEF T, R
  <2>3. QED
    BY <1>1, <2>1, <2>2, WFMin
<1>3. x # 0
  OBVIOUS
<1>4. x - 1 \in Nat /\ x - 1 < x
  BY <1>3
<1>5. <<x-1, x>> \in R
  BY <1>4 DEF OpToRel
<1> HIDE DEF R
<1>6. x - 1 \notin T
  BY <1>2, <1>5
<1>7. x - 1 \in S
  BY <1>4, <1>6
<1>8. (x - 1) + 1 \in S
  BY <1>4, <1>7
<1>9. (x - 1) + 1 = x
  BY <1>4
<1>10. QED
  BY <1>8, <1>9

(* Whatever each turn does within M, any number of turns does. *)
LEMMA Runs ==
  ASSUME NEW M, NEW x \in M, NEW n \in Nat, NEW step \in [1..n -> [M -> M]]
  PROVE  \E f \in [0..n -> M] : f = [i \in 0..n |-> IF i = 0 THEN x ELSE step[i][f[i-1]]]
<1> DEFINE Run(k, f) == f = [i \in 0..k |-> IF i = 0 THEN x ELSE step[i][f[i-1]]]
           S == {k \in Nat : k <= n => \E f \in [0..k -> M] : Run(k, f)}
<1>1. 0 \in S
  <2> DEFINE g == [i \in 0..0 |-> x]
  <2>1. g \in [0..0 -> M] /\ Run(0, g)
    OBVIOUS
  <2> QED BY <2>1
<1>2. ASSUME NEW k \in Nat, k \in S PROVE k + 1 \in S
  <2>0. SUFFICES ASSUME k + 1 <= n PROVE \E f \in [0..k+1 -> M] : Run(k+1, f)
    OBVIOUS
  <2>1. PICK f \in [0..k -> M] : Run(k, f)
    BY <1>2, <2>0
  <2> DEFINE g == [i \in 0..k+1 |-> IF i = k + 1 THEN step[k+1][f[k]] ELSE f[i]]
  <2>2. g \in [0..k+1 -> M]
    <3>1. step[k+1] \in [M -> M] /\ f[k] \in M
      BY <2>0
    <3> QED BY <3>1
  <2>3. ASSUME NEW i \in 0..k+1 PROVE g[i] = IF i = 0 THEN x ELSE step[i][g[i-1]]
    <3>1. CASE i = k + 1
      <4>1. g[k] = f[k] /\ g[k+1] = step[k+1][f[k]]
        OBVIOUS
      <4>2. i - 1 = k /\ i # 0
        BY <3>1
      <4> HIDE DEF g
      <4> QED BY <3>1, <4>1, <4>2
    <3>2. CASE i \in 0..k
      <4>1. g[i] = f[i] /\ (i # 0 => g[i-1] = f[i-1])
        BY <3>2
      <4>2. f[i] = IF i = 0 THEN x ELSE step[i][f[i-1]]
        BY <2>1, <3>2
      <4> HIDE DEF g
      <4> QED BY <4>1, <4>2
    <3> QED BY <3>1, <3>2
  <2>4. Run(k+1, g)
    <3> HIDE DEF g
    <3> QED BY <2>2, <2>3
  <2> HIDE DEF g, Run
  <2> QED BY <2>2, <2>4
<1> HIDE DEF S
<1>3. n \in S
  BY <1>1, <1>2, SetInduction
<1> QED BY <1>3 DEF S

LEMMA Always ==
  ASSUME NEW n \in Nat, NEW t, NEW G,
         t[0] \in G[0], \A i \in 1..n : t[i-1] \in G[i-1] => t[i] \in G[i]
  PROVE  t[n] \in G[n]
<1> DEFINE S == {k \in Nat : k <= n => t[k] \in G[k]}
<1>1. 0 \in S
  OBVIOUS
<1>2. ASSUME NEW k \in Nat, k \in S PROVE k + 1 \in S
  <2>1. SUFFICES ASSUME k + 1 <= n PROVE t[k+1] \in G[k+1]
    OBVIOUS
  <2>2. k + 1 \in 1..n /\ (k + 1) - 1 = k /\ t[k] \in G[k]
    BY <1>2, <2>1
  <2> QED BY <2>2
<1> HIDE DEF S
<1>3. n \in S
  BY <1>1, <1>2, SetInduction
<1> QED BY <1>3 DEF S

IsRun(f, M, x, n, step) ==
  /\ f = [i \in 0..n |-> IF i = 0 THEN x ELSE step[f[i-1]]]
  /\ \A i \in 0..n : f[i] \in M
LEMMA Repeated ==
  ASSUME NEW M, NEW x \in M, NEW n \in Nat, NEW step \in [M -> M]
  PROVE  \E f : IsRun(f, M, x, n, step)
<1> DEFINE steps == [i \in 1..n |-> step]
<1>1. steps \in [1..n -> [M -> M]]
  OBVIOUS
<1>2. PICK f \in [0..n -> M] : f = [i \in 0..n |-> IF i = 0 THEN x ELSE steps[i][f[i-1]]]
  <2> HIDE DEF steps
  <2> QED BY <1>1, Runs
<1>3. \A i \in 1..n : steps[i] = step
  OBVIOUS
<1>4. [i \in 0..n |-> IF i = 0 THEN x ELSE steps[i][f[i-1]]] = [i \in 0..n |-> IF i = 0 THEN x ELSE step[f[i-1]]]
  <2> HIDE DEF steps
  <2>1. \A i \in 0..n : i = 0 \/ i \in 1..n
    OBVIOUS
  <2> QED BY <1>3, <2>1
<1> QED BY <1>2, <1>4 DEF IsRun

-----------------------------------------------------------------------------
(* The record of the work area and the card, and what holds of it during a *)
(* call.                                                                   *)

Sectors == 0..LastSector
Spellings == STRING \cup {"", "DEL", "?", ".", "..", "L", "differs", "/", "D"}
Attrs == {"DIR", "VOL", "RDO", "ARC"}
Flags == {"R", "W", "WRITTEN", "ERROR"}
Results == {"OK", "DISK_ERR", "INT_ERR", "NOT_READY", "NO_FILE", "NO_PATH", "INVALID_NAME",
            "DENIED", "EXIST", "INVALID_OBJECT", "NO_FILESYSTEM", "HANG"}
Kinds == {"none", "bad", "FAT16", "FAT32"}
Entry == [name : Spellings, attr : SUBSET Attrs, clust : Nat, size : Nat]
DirContent  == [kind : {"dir"}, e : [0..DirPer-1 -> Entry]]
FatContent  == [kind : {"fat"}, e : [0..FatPer-1 -> Nat]]
DataContent == [kind : {"data"}, b : [0..SecSize-1 -> Int]]
InfoContent == [kind : {"info"}, free : Int, last : Int]
BootContent == [kind : {"boot"}, sig : BOOLEAN, type : Kinds, n_fats : Int, part : Int]
Content == DirContent \cup FatContent \cup DataContent \cup InfoContent \cup BootContent
DirObjects == [sclust : Nat, index : Nat, clust : Int, sect : Int, dir : -1..DirPer-1,
         fn : [name : Spellings, last : BOOLEAN, dot : BOOLEAN], open : BOOLEAN, id : Int]
FileObjects == [open : BOOLEAN, id : Int, flag : SUBSET Flags, fptr : Nat, fsize : Nat,
          sclust : Nat, clust : Nat, dsect : Int, dir_sect : Int, dir_ptr : Int]
Infos == [name : Spellings, attr : SUBSET Attrs, size : Nat]
Bufs == Seq(Int \cup Spellings)
State ==
  [disk : [Sectors -> Content], type : Kinds, n_fats : Int, bsect : Int, last : Int,
   free : Int, fsi : BOOLEAN, winsect : Int, win : Content, wflag : BOOLEAN, id : Int,
   cdir : Nat, ready : BOOLEAN, left : Nat, cut : BOOLEAN, failed : BOOLEAN,
   res : Results, val : Int, cur : Int, cnt : Int, stop : BOOLEAN, dj : DirObjects,
   f : FileObjects, buf : Bufs, want : Int, path : Seq(Spellings \cup (Int \X Content)),
   info : Infos]

(* The shape of a card: what its boot record says, whether every access so   *)
(* far was answered (quiet), and whether what it shows has to stay as view.  *)
Cards == [bsect : {0, 1}, type : {"FAT16", "FAT32"}, n_fats : {1, 2},
          quiet : BOOLEAN, still : BOOLEAN, view : [Sectors -> Content]]
(* The sectors of the second FAT. *)
Copy(g, s) == FatBase(g) + FatSize <= s /\ s < RootBase(g)
(* Boot records and FATs where the boot record says they are. *)
Layout(d, g) ==
  /\ d[0].kind = "boot" /\ d[0].sig /\ d[0].part = g.bsect
  /\ g.bsect = 1 => d[0].type = "none"
  /\ d[g.bsect].kind = "boot" /\ d[g.bsect].sig
  /\ d[g.bsect].type = g.type /\ d[g.bsect].n_fats = g.n_fats
  /\ \A s \in Sectors : FatBase(g) <= s /\ s < RootBase(g) => d[s].kind = "fat"
Mirrors(d, g) == g.n_fats = 2 => \A s \in Sectors : InFat(g, s) => d[s + FatSize] = d[s]
DiskOk(d, g) == Layout(d, g) /\ (g.quiet => Mirrors(d, g))
(* The window: never a sector of the second FAT; dirty, it holds what its    *)
(* sector is for; clean, what its sector holds.                              *)
WindowOk(m, g) ==
  /\ m.winsect \in Sectors /\ ~Copy(g, m.winsect)
  /\ m.wflag => FatBase(g) <= m.winsect /\ (InFat(g, m.winsect) <=> m.win.kind = "fat")
  /\ ~m.wflag /\ FatBase(g) <= m.winsect => m.win = m.disk[m.winsect]
(* What the volume shows is the view it has to keep. *)
Seen(m, g) ==
  g.still => \A s \in Sectors : ~Copy(g, s) =>
               (IF m.wflag /\ m.winsect = s THEN m.win ELSE m.disk[s]) = g.view[s]
(* The work area agrees with the card it was mounted from. *)
Mount(m, g) ==
  /\ m.type # "none" => m.type = g.type /\ m.bsect = g.bsect /\ m.n_fats = g.n_fats /\ m.ready
  /\ m.type = "none" => m.winsect = 0 /\ ~m.wflag
Quiet(m, g) == g.quiet => m.left = 0 /\ ~m.failed
InData(g, s) == DataBase(g) <= s /\ s < DataBase(g) + (NFatEnt - 2) * CSize
(* Where a directory object stands; where an open file's entry and buffered  *)
(* sector are.                                                               *)
DirOk(j, g) ==
  \/ j.sect = 0
  \/ j.clust = 0 /\ j.index \div DirPer <= NRoot \div DirPer
               /\ j.sect = RootBase(g) + j.index \div DirPer
  \/ InRange(j.clust) /\ j.sect = clust2sect(g, j.clust) + ((j.index \div DirPer) % CSize)
FileOk(f, g) ==
  /\ "ERROR" \notin f.flag /\ Offset(f) # 0 => InData(g, f.dsect)
  /\ f.open => f.dir_sect \in Sectors /\ RootBase(g) <= f.dir_sect /\ f.dir_ptr \in 0..DirPer-1

(* The states of a call on a card of the shape g; Live(g), once mounted.     *)
Card(m, g) == DiskOk(m.disk, g) /\ WindowOk(m, g) /\ Seen(m, g) /\ Mount(m, g) /\ Quiet(m, g)
Work(g) == {m \in State : Card(m, g) /\ DirOk(m.dj, g) /\ FileOk(m.f, g)}
Live(g) == {m \in Work(g) : m.type # "none"}

(* What a step from m to a leaves alone: the card and the window; the fields *)
(* no access touches; all but card, answer and val.                          *)
SameCard(m, a) ==
  /\ a.disk = m.disk /\ a.winsect = m.winsect /\ a.win = m.win /\ a.wflag = m.wflag
  /\ a.type = m.type /\ a.bsect = m.bsect /\ a.n_fats = m.n_fats /\ a.ready = m.ready
  /\ a.left = m.left /\ a.failed = m.failed
Keeps(m, a) ==
  /\ a.type = m.type /\ a.n_fats = m.n_fats /\ a.bsect = m.bsect /\ a.id = m.id
  /\ a.cdir = m.cdir /\ a.ready = m.ready /\ a.dj = m.dj /\ a.f = m.f
  /\ a.buf = m.buf /\ a.want = m.want /\ a.path = m.path /\ a.info = m.info
Beside(m, a) ==
  /\ Keeps(m, a) /\ a.last = m.last /\ a.free = m.free /\ a.fsi = m.fsi
  /\ a.cur = m.cur /\ a.cnt = m.cnt /\ a.stop = m.stop

LEMMA SizeOfFat == FatSize \in Nat \ {0} /\ NRoot \div DirPer \in Nat /\ Turns \in Nat
BY GeometryAssumption DEF FatSize, Turns

LEMMA StaysWork ==
  ASSUME NEW g \in Cards, NEW m \in Work(g), NEW a \in State,
         SameCard(m, a), a.dj = m.dj, a.f = m.f
  PROVE  a \in Work(g)
BY DEF Work, Card, SameCard, WindowOk, Seen, Mount, Quiet

LEMMA Answer ==
  ASSUME NEW m \in State, NEW r \in Results
  PROVE  LET a == [m EXCEPT !.res = r] IN
         a \in State /\ Beside(m, a) /\ SameCard(m, a) /\ a.val = m.val /\ a.res = r
<1> DEFINE a == [m EXCEPT !.res = r]
<1>1. a \in State
  BY DEF State
<1>2. Beside(m, a) /\ a.val = m.val /\ a.res = r
  BY DEF State, Beside, Keeps
<1>3. SameCard(m, a)
  BY DEF State, SameCard
<1> QED
  BY <1>1, <1>2, <1>3

LEMMA Spends ==
  ASSUME NEW m \in State
  PROVE  LET a == Spent(m) IN
         /\ a \in State /\ Beside(m, a) /\ a.val = m.val /\ a.res = m.res
         /\ a.disk = m.disk /\ a.win = m.win /\ a.winsect = m.winsect /\ a.wflag = m.wflag
         /\ a.failed = (m.failed \/ m.left = 1)
         /\ m.left = 0 => a.left = 0
<1> DEFINE n == IF m.left = 0 \/ (m.left = 1 /\ m.cut) THEN m.left ELSE m.left - 1
           b == m.failed \/ Fails(m)
<1>1. Spent(m) = [m EXCEPT !.left = n, !.failed = b]
  BY DEF Spent
<1>2. n \in Nat /\ b \in BOOLEAN /\ (m.left = 0 => n = 0) /\ b = (m.failed \/ m.left = 1)
  BY DEF State, Fails
<1> HIDE DEF n, b
<1> DEFINE a == [m EXCEPT !.left = n, !.failed = b]
<1>3. a \in State
  BY <1>2 DEF State
<1>4. Beside(m, a) /\ a.val = m.val /\ a.res = m.res
  BY DEF State, Beside, Keeps
<1>5. a.disk = m.disk /\ a.win = m.win /\ a.winsect = m.winsect /\ a.wflag = m.wflag
  BY DEF State
<1>6. a.left = n /\ a.failed = b
  BY DEF State
<1> HIDE DEF a
<1> QED
  BY <1>1, <1>2, <1>3, <1>4, <1>5, <1>6 DEF a

LEMMA DiskWrite ==
  ASSUME NEW m \in State, NEW s \in Sectors, NEW c \in Content
  PROVE  LET a == disk_write(m, s, c) IN
         /\ a \in State /\ Beside(m, a) /\ a.val = m.val
         /\ a.win = m.win /\ a.winsect = m.winsect /\ a.wflag = m.wflag
         /\ a.res = "OK" => a.disk = [m.disk EXCEPT ![s] = c]
         /\ a.res # "OK" => a.disk = m.disk
         /\ m.left = 0 => a.left = 0 /\ a.failed = m.failed /\ a.res = "OK"
<1> DEFINE p == Put(m.disk, s, c)
           z == Spent(m)
<1>1. m.disk \in [Sectors -> Content] /\ m.left \in Nat /\ m.failed \in BOOLEAN
  BY DEF State
<1>2. p = [m.disk EXCEPT ![s] = c] /\ p \in [Sectors -> Content]
  BY <1>1 DEF Put
<1>3. disk_write(m, s, c) = IF m.left = 1 THEN [z EXCEPT !.res = "DISK_ERR"]
                            ELSE [z EXCEPT !.disk = p, !.res = "OK"]
  BY Spends DEF disk_write, Fails, Fail
<1> HIDE DEF p, z
<1>4. /\ z \in State /\ Beside(m, z) /\ z.val = m.val
      /\ z.win = m.win /\ z.winsect = m.winsect /\ z.wflag = m.wflag /\ z.disk = m.disk
      /\ z.failed = (m.failed \/ m.left = 1) /\ (m.left = 0 => z.left = 0)
  BY Spends DEF z
<1>5. CASE m.left = 1
  <2>1. "DISK_ERR" \in Results
    BY DEF Results
  <2> QED
    BY <1>1, <1>3, <1>4, <1>5, <2>1, Answer DEF SameCard, Beside, Keeps
<1>6. CASE m.left # 1
  <2> DEFINE a == [z EXCEPT !.disk = p, !.res = "OK"]
  <2>1. a \in State
    BY <1>2, <1>4 DEF State, Results
  <2>2. Beside(m, a) /\ a.val = m.val
    BY <1>4 DEF State, Beside, Keeps
  <2>3. a.win = m.win /\ a.winsect = m.winsect /\ a.wflag = m.wflag /\ a.disk = p /\ a.res = "OK"
    BY <1>4 DEF State
  <2>4. a.left = z.left /\ a.failed = z.failed
    BY <1>4 DEF State
  <2>5. disk_write(m, s, c) = a
    BY <1>3, <1>6
  <2> HIDE DEF a
  <2> QED BY <1>1, <1>2, <1>4, <1>6, <2>1, <2>2, <2>3, <2>4, <2>5
<1> QED
  BY <1>5, <1>6

LEMMA DiskRead ==
  ASSUME NEW m \in State, NEW s \in Sectors
  PROVE  LET a == disk_read(m, s) IN
         /\ a \in State /\ Beside(m, a) /\ a.val = m.val
         /\ a.disk = m.disk /\ a.winsect = m.winsect /\ a.wflag = m.wflag
         /\ a.res = "OK" => a.win = m.disk[s]
         /\ a.res # "OK" => a.win = m.win
         /\ m.left = 0 => a.left = 0 /\ a.failed = m.failed /\ a.res = "OK"
<1> DEFINE p == m.disk[s]
           z == Spent(m)
<1>1. m.disk \in [Sectors -> Content] /\ m.left \in Nat /\ m.failed \in BOOLEAN
      /\ p \in Content
  BY DEF State
<1>3. disk_read(m, s) = IF m.left = 1 THEN [z EXCEPT !.res = "DISK_ERR"]
                        ELSE [z EXCEPT !.win = p, !.res = "OK"]
  BY Spends DEF disk_read, Fails, Fail
<1> HIDE DEF p, z
<1>4. /\ z \in State /\ Beside(m, z) /\ z.val = m.val
      /\ z.win = m.win /\ z.winsect = m.winsect /\ z.wflag = m.wflag /\ z.disk = m.disk
      /\ z.failed = (m.failed \/ m.left = 1) /\ (m.left = 0 => z.left = 0)
  BY Spends DEF z
<1>5. CASE m.left = 1
  <2>1. "DISK_ERR" \in Results
    BY DEF Results
  <2> QED
    BY <1>1, <1>3, <1>4, <1>5, <2>1, Answer DEF SameCard, Beside, Keeps
<1>6. CASE m.left # 1
  <2> DEFINE a == [z EXCEPT !.win = p, !.res = "OK"]
  <2>1. a \in State
    BY <1>1, <1>4 DEF State, Results
  <2>2. Beside(m, a) /\ a.val = m.val
    BY <1>4 DEF State, Beside, Keeps
  <2>3. a.win = p /\ a.winsect = m.winsect /\ a.wflag = m.wflag /\ a.disk = m.disk /\ a.res = "OK"
    BY <1>4 DEF State
  <2>4. a.left = z.left /\ a.failed = z.failed
    BY <1>4 DEF State
  <2>5. disk_read(m, s) = a
    BY <1>3, <1>6
  <2> HIDE DEF a
  <2> QED BY <1>1, <1>4, <1>6, <2>1, <2>2, <2>3, <2>4, <2>5 DEF p
<1> QED
  BY <1>5, <1>6

LEMMA Regions ==
  ASSUME NEW g \in Cards
  PROVE  /\ FatBase(g) = g.bsect + 2 /\ FatBase(g) \in Nat
         /\ RootBase(g) \in Nat /\ DataBase(g) \in Nat /\ (NFatEnt - 2) * CSize \in Nat
         /\ FatBase(g) + FatSize <= RootBase(g) /\ RootBase(g) <= FatBase(g) + 2 * FatSize
         /\ g.n_fats = 2 => RootBase(g) = FatBase(g) + 2 * FatSize
         /\ g.n_fats = 1 => RootBase(g) = FatBase(g) + FatSize
         /\ RootBase(g) <= DataBase(g) /\ LastSector \in Nat
         /\ DataBase(g) + (NFatEnt - 2) * CSize <= LastSector + 1
         /\ RootBase(g) + NRoot \div DirPer <= LastSector + 1
<1>1. g.bsect \in {0, 1} /\ g.n_fats \in {1, 2} /\ FatSize \in Nat \ {0}
      /\ NRoot \div DirPer \in Nat
  BY SizeOfFat DEF Cards
<1> DEFINE k == (NFatEnt - 2) * CSize
           r == NRoot \div DirPer
<1>2. k \in Nat /\ r \in Nat
  BY <1>1, GeometryAssumption
<1>3. RootBase(g) = FatBase(g) + g.n_fats * FatSize /\ FatBase(g) = g.bsect + 2
      /\ LastSector = 3 + 2 * FatSize + r + k
      /\ DataBase(g) = RootBase(g) + IF g.type = "FAT32" THEN 0 ELSE r
  BY DEF RootBase, FatBase, LastSector, NRsv, DataBase
<1> HIDE DEF k, r
<1>4. CASE g.n_fats = 1
  <2>1. g.n_fats * FatSize = FatSize
    BY <1>1, <1>4
  <2> QED BY <1>1, <1>2, <1>3, <1>4, <2>1 DEF k, r
<1>5. CASE g.n_fats = 2
  <2>1. g.n_fats * FatSize = 2 * FatSize
    BY <1>1, <1>5
  <2> QED BY <1>1, <1>2, <1>3, <1>5, <2>1 DEF k, r
<1> QED
  BY <1>1, <1>4, <1>5

LEMMA SameRegions ==
  ASSUME NEW g \in Cards, NEW m, m.type = g.type, m.bsect = g.bsect, m.n_fats = g.n_fats
  PROVE  /\ FatBase(m) = FatBase(g) /\ RootBase(m) = RootBase(g) /\ DataBase(m) = DataBase(g)
         /\ DirBase(m) = DirBase(g)
         /\ \A s : InFat(m, s) = InFat(g, s)
         /\ \A c : clust2sect(m, c) = clust2sect(g, c) /\ FatSectorOf(m, c) = FatSectorOf(g, c)
BY DEF FatBase, RootBase, DataBase, DirBase, InFat, clust2sect, FatSectorOf

LEMMA Writing ==
  ASSUME NEW g \in Cards, NEW d \in [Sectors -> Content], NEW s \in Sectors, NEW c \in Content,
         Layout(d, g), FatBase(g) <= s, s < RootBase(g) => c.kind = "fat"
  PROVE  /\ Layout([d EXCEPT ![s] = c], g) /\ [d EXCEPT ![s] = c] \in [Sectors -> Content]
         /\ Mirrors(d, g) /\ RootBase(g) <= s => Mirrors([d EXCEPT ![s] = c], g)
<1> DEFINE e == [d EXCEPT ![s] = c]
<1>1. e \in [Sectors -> Content] /\ \A t \in Sectors : e[t] = IF t = s THEN c ELSE d[t]
  OBVIOUS
<1>2. 0 \in Sectors /\ g.bsect \in Sectors /\ g.bsect < FatBase(g) /\ 0 < FatBase(g)
  BY Regions, SizeOfFat DEF Cards, Sectors
<1> HIDE DEF e
<1>3. Layout(e, g)
  BY <1>1, <1>2, Regions DEF Layout, Cards, Sectors
<1>4. Mirrors(d, g) /\ RootBase(g) <= s => Mirrors(e, g)
  BY <1>1, Regions, SizeOfFat DEF Mirrors, InFat, Sectors
<1> QED
  BY <1>1, <1>3, <1>4 DEF e

LEMMA Answered ==
  ASSUME NEW g \in Cards, NEW m \in Work(g), NEW r \in Results
  PROVE  LET a == [m EXCEPT !.res = r] IN
         a \in Work(g) /\ Beside(m, a) /\ SameCard(m, a) /\ a.val = m.val /\ a.res = r
<1> DEFINE a == [m EXCEPT !.res = r]
<1>1. m \in State
  BY DEF Work
<1>2. a \in State /\ Beside(m, a) /\ SameCard(m, a) /\ a.val = m.val /\ a.res = r
  BY <1>1, Answer
<1>3. a.dj = m.dj /\ a.f = m.f
  BY <1>2 DEF Beside, Keeps
<1> HIDE DEF a
<1>4. a \in Work(g)
  BY <1>2, <1>3, StaysWork
<1> QED
  BY <1>2, <1>4 DEF a

LEMMA SyncWindow ==
  ASSUME NEW g \in Cards, NEW m \in Work(g)
  PROVE  LET a == sync_window(m) IN
         /\ a \in Work(g) /\ Beside(m, a) /\ a.val = m.val
         /\ a.win = m.win /\ a.winsect = m.winsect
         /\ a.res \in {"OK", "DISK_ERR"}
         /\ a.res = "OK" => ~a.wflag
         /\ a.res # "OK" => a.wflag = m.wflag
<1> DEFINE w == disk_write(m, m.winsect, m.win)
           b == [w EXCEPT !.wflag = FALSE]
           x == disk_write(b, b.winsect + FatSize, b.win)
<1>0. m \in State /\ "OK" \in Results /\ "DISK_ERR" \in Results
  BY DEF Work, Results
<1>1. CASE ~m.wflag
  <2>1. sync_window(m) = [m EXCEPT !.res = "OK"]
    BY <1>1 DEF sync_window, Ok
  <2> QED
    BY <1>0, <1>1, <2>1, Answered DEF SameCard, Beside, Keeps
<1>2. CASE m.wflag
  <2>1. /\ m.type = g.type /\ m.bsect = g.bsect /\ m.n_fats = g.n_fats
        /\ m.winsect \in Sectors /\ ~Copy(g, m.winsect) /\ FatBase(g) <= m.winsect
        /\ InFat(g, m.winsect) <=> m.win.kind = "fat"
        /\ m.disk \in [Sectors -> Content] /\ m.win \in Content /\ Layout(m.disk, g)
        /\ m.type # "none"
        /\ g.quiet => m.left = 0 /\ ~m.failed /\ Mirrors(m.disk, g)
    BY <1>2 DEF Work, Card, Mount, WindowOk, DiskOk, State, Cards, Quiet
  <2>2. /\ w \in State /\ Beside(m, w) /\ w.val = m.val
        /\ w.win = m.win /\ w.winsect = m.winsect /\ w.wflag = m.wflag
        /\ w.res = "OK" => w.disk = [m.disk EXCEPT ![m.winsect] = m.win]
        /\ w.res # "OK" => w.disk = m.disk
        /\ m.left = 0 => w.left = 0 /\ w.failed = m.failed /\ w.res = "OK"
    BY <1>0, <2>1, DiskWrite
  <2> HIDE DEF w
  <2>3. CASE w.res # "OK"
    <3>1. sync_window(m) = w
      BY <1>2, <2>3 DEF sync_window, Then, w
    <3>2. w \in Work(g)
      BY <2>1, <2>2, <2>3 DEF Work, Card, DiskOk, WindowOk, Seen, Mount, Quiet, Beside, Keeps
    <3>3. w.res \in {"OK", "DISK_ERR"}
      BY DEF w, disk_write, Fail
    <3> QED
      BY <2>2, <2>3, <3>1, <3>2, <3>3
  <2>4. CASE w.res = "OK"
    <3>1. /\ b \in State /\ Beside(m, b) /\ b.val = m.val /\ b.win = m.win /\ ~b.wflag
          /\ b.winsect = m.winsect /\ b.disk = [m.disk EXCEPT ![m.winsect] = m.win]
          /\ b.left = w.left /\ b.failed = w.failed
      <4>1. b \in State
        BY <2>2 DEF State
      <4>2. Beside(m, b) /\ b.val = m.val /\ b.win = m.win
        BY <2>2 DEF State, Beside, Keeps
      <4>3. ~b.wflag /\ b.winsect = m.winsect /\ b.disk = w.disk
            /\ b.left = w.left /\ b.failed = w.failed
        BY <2>2 DEF State
      <4> HIDE DEF b
      <4> QED
        BY <2>2, <2>4, <4>1, <4>2, <4>3
    <3>2. sync_window(m) = IF InFat(b, m.winsect) /\ b.n_fats = 2 THEN Ok(x) ELSE Ok(b)
      BY <1>2, <2>4, <3>1 DEF sync_window, Then, w, b, Mirror
    <3> HIDE DEF b
    <3>3. /\ Layout(b.disk, g) /\ b.disk \in [Sectors -> Content]
          /\ Mirrors(m.disk, g) /\ RootBase(g) <= m.winsect => Mirrors(b.disk, g)
      <4>1. m.winsect < RootBase(g) => m.win.kind = "fat"
        BY <2>1, Regions, SizeOfFat DEF InFat, Copy, Sectors
      <4> QED
        BY <2>1, <3>1, <4>1, Writing
    <3>4. WindowOk(b, g) /\ Mount(b, g) /\ Seen(b, g)
      <4>1. WindowOk(b, g)
        BY <2>1, <3>1 DEF WindowOk
      <4>2. Mount(b, g)
        BY <2>1, <3>1 DEF Work, Card, Mount, Beside, Keeps
      <4>3. Seen(b, g)
        BY <1>2, <2>1, <3>1 DEF Work, Card, Seen
      <4> QED BY <4>1, <4>2, <4>3
    <3>5. Quiet(b, g) /\ DirOk(b.dj, g) /\ FileOk(b.f, g)
      BY <2>1, <2>2, <3>1 DEF Quiet, Work, Beside, Keeps
    <3>6. InFat(b, m.winsect) <=> InFat(g, m.winsect)
      BY <2>1, <3>1, SameRegions DEF Beside, Keeps
    <3>7. CASE ~(InFat(b, m.winsect) /\ b.n_fats = 2)
      <4>1. g.quiet => Mirrors(b.disk, g)
        <5>1. CASE b.n_fats = 2
          <6>1. g.n_fats = 2 /\ ~InFat(g, m.winsect)
            BY <2>1, <3>1, <3>6, <3>7, <5>1 DEF Beside, Keeps
          <6>2. RootBase(g) <= m.winsect
            BY <2>1, <6>1, Regions, SizeOfFat DEF Copy, InFat, Sectors
          <6> QED BY <2>1, <3>3, <6>2
        <5>2. CASE b.n_fats # 2
          <6>1. g.n_fats # 2
            BY <2>1, <3>1, <5>2 DEF Beside, Keeps
          <6> QED BY <6>1 DEF Mirrors
        <5> QED BY <5>1, <5>2
      <4>2. b \in Work(g)
        BY <3>1, <3>3, <3>4, <3>5, <4>1 DEF Work, Card, DiskOk
      <4>3. sync_window(m) = [b EXCEPT !.res = "OK"]
        BY <3>2, <3>7 DEF Ok
      <4> QED
        BY <1>0, <3>1, <4>2, <4>3, Answered DEF SameCard, Beside, Keeps
    <3>8. CASE InFat(b, m.winsect) /\ b.n_fats = 2
      <4> DEFINE s == m.winsect + FatSize
      <4>1. g.n_fats = 2 /\ InFat(g, m.winsect) /\ s \in Sectors /\ FatBase(g) <= s
            /\ s < RootBase(g) /\ m.win.kind = "fat" /\ ~InFat(g, s)
        <5>1. g.n_fats = 2 /\ InFat(g, m.winsect) /\ m.win.kind = "fat"
          BY <2>1, <3>1, <3>6, <3>8 DEF Beside, Keeps
        <5> QED
          BY <2>1, <5>1, Regions, SizeOfFat DEF InFat, Sectors
      <4>2. x = disk_write(b, s, m.win)
        BY <3>1
      <4>3. /\ x \in State /\ Beside(b, x) /\ x.val = b.val
            /\ x.win = m.win /\ x.winsect = m.winsect /\ ~x.wflag
            /\ x.res = "OK" => x.disk = [b.disk EXCEPT ![s] = m.win]
            /\ x.res # "OK" => x.disk = b.disk
            /\ b.left = 0 => x.left = 0 /\ x.failed = b.failed /\ x.res = "OK"
        BY <2>1, <3>1, <4>1, <4>2, DiskWrite
      <4>4. sync_window(m) = [x EXCEPT !.res = "OK"]
        BY <3>2, <3>8 DEF Ok
      <4> HIDE DEF x, s
      <4>5. Layout(x.disk, g) /\ x.disk \in [Sectors -> Content]
        BY <2>1, <3>3, <4>1, <4>3, Writing
      <4>6. g.quiet => Mirrors(x.disk, g)
        <5>1. SUFFICES ASSUME g.quiet, NEW t \in Sectors, InFat(g, t)
                       PROVE  x.disk[t + FatSize] = x.disk[t]
          BY DEF Mirrors
        <5>2. x.disk = [b.disk EXCEPT ![s] = m.win] /\ b.disk = [m.disk EXCEPT ![m.winsect] = m.win]
          BY <2>1, <2>2, <3>1, <4>3, <5>1
        <5>3. t + FatSize \in Sectors /\ ~InFat(g, t + FatSize)
          BY <4>1, <5>1, Regions, SizeOfFat DEF InFat, Sectors
        <5>4. m.disk[t + FatSize] = m.disk[t]
          BY <2>1, <4>1, <5>1 DEF Mirrors
        <5>5. t = m.winsect <=> t + FatSize = s
          BY <2>1, <5>1, SizeOfFat DEF s, Sectors
        <5> QED
          BY <2>1, <4>1, <5>1, <5>2, <5>3, <5>4, <5>5
      <4>7. WindowOk(x, g) /\ Mount(x, g) /\ Seen(x, g)
        <5>0. \A t \in Sectors : t # s => x.disk[t] = b.disk[t]
          BY <3>3, <4>1, <4>3
        <5>1. WindowOk(x, g)
          BY <2>1, <3>1, <4>1, <4>3, <5>0 DEF WindowOk
        <5>2. Mount(x, g)
          BY <2>1, <3>1, <3>4, <4>3 DEF Mount, Beside, Keeps
        <5>3. Copy(g, s)
          BY <2>1, <4>1, SizeOfFat, Regions DEF Copy, s, InFat, Sectors
        <5>4. Seen(x, g)
          BY <3>1, <3>4, <4>3, <5>0, <5>3 DEF Seen
        <5> QED BY <5>1, <5>2, <5>4
      <4>8. Quiet(x, g) /\ DirOk(x.dj, g) /\ FileOk(x.f, g)
        BY <3>5, <4>3 DEF Quiet, Beside, Keeps
      <4>9. x \in Work(g)
        BY <4>3, <4>5, <4>6, <4>7, <4>8 DEF Work, Card, DiskOk
      <4> QED
        BY <1>0, <3>1, <4>3, <4>4, <4>9, Answered DEF SameCard, Beside, Keeps
    <3> QED
      BY <3>7, <3>8
  <2> QED
    BY <2>3, <2>4
<1> QED
  BY <1>1, <1>2

LEMMA FatWindow ==
  ASSUME NEW g \in Cards, NEW m \in Work(g), InFat(g, m.winsect)
  PROVE  m.win \in FatContent
<1>1. m.win \in Content /\ m.disk \in [Sectors -> Content]
  BY DEF Work, State
<1>2. FatBase(g) <= m.winsect /\ m.winsect < RootBase(g) /\ m.winsect \in Sectors
  BY Regions, SizeOfFat DEF Work, Card, WindowOk, InFat, Sectors
<1>3. m.win.kind = "fat"
  BY <1>2 DEF Work, Card, WindowOk, DiskOk, Layout
<1> QED
  BY <1>1, <1>3 DEF Content, DirContent, FatContent, DataContent, InfoContent, BootContent

LEMMA MoveWindow ==
  ASSUME NEW g \in Cards, NEW m \in Work(g), NEW s \in Sectors,
         m.type # "none", ~Copy(g, s)
  PROVE  LET a == move_window(m, s) IN
         /\ a \in Work(g) /\ Beside(m, a) /\ a.val = m.val
         /\ a.res \in {"OK", "DISK_ERR"}
         /\ a.res = "OK" => a.winsect = s
         /\ a.res # "OK" => a.winsect = m.winsect
         /\ s = m.winsect => a.res = "OK" /\ a.win = m.win /\ a.wflag = m.wflag
<1> DEFINE a == sync_window(m)
           b == disk_read(a, s)
           c == [b EXCEPT !.winsect = s]
<1>0. "OK" \in Results /\ m \in State
  BY DEF Results, Work
<1>1. CASE s = m.winsect
  <2>1. move_window(m, s) = [m EXCEPT !.res = "OK"]
    BY <1>1 DEF move_window, Ok
  <2> QED
    BY <1>0, <1>1, <2>1, Answered DEF SameCard, Beside, Keeps
<1>2. CASE s # m.winsect
  <2>1. /\ a \in Work(g) /\ Beside(m, a) /\ a.val = m.val
        /\ a.res \in {"OK", "DISK_ERR"} /\ (a.res = "OK" => ~a.wflag)
        /\ a.winsect = m.winsect
    BY SyncWindow
  <2>2. move_window(m, s) = IF a.res = "OK" THEN IF b.res = "OK" THEN c ELSE b ELSE a
    BY <1>2 DEF move_window, Then
  <2> HIDE DEF a
  <2>3. CASE a.res # "OK"
    BY <1>2, <2>1, <2>2, <2>3
  <2>4. CASE a.res = "OK"
    <3>1. /\ a \in State /\ Card(a, g) /\ DirOk(a.dj, g) /\ FileOk(a.f, g) /\ ~a.wflag
          /\ a.type # "none" /\ a.disk \in [Sectors -> Content]
      BY <2>1, <2>4 DEF Work, Beside, Keeps, State
    <3>2. /\ b \in State /\ Beside(a, b) /\ b.val = a.val
          /\ b.disk = a.disk /\ b.winsect = a.winsect /\ ~b.wflag
          /\ b.res = "OK" => b.win = a.disk[s]
          /\ b.res # "OK" => b.win = a.win
          /\ a.left = 0 => b.left = 0 /\ b.failed = a.failed /\ b.res = "OK"
      BY <3>1, DiskRead
    <3>3. b.res \in {"OK", "DISK_ERR"}
      BY DEF b, disk_read, Fail
    <3> HIDE DEF b
    <3>4. CASE b.res # "OK"
      <4>1. b \in Work(g)
        BY <3>1, <3>2, <3>4 DEF Work, Card, DiskOk, WindowOk, Seen, Mount, Quiet, Beside, Keeps
      <4> QED
        BY <1>2, <2>1, <2>2, <2>4, <3>2, <3>3, <3>4, <4>1 DEF Beside, Keeps
    <3>5. CASE b.res = "OK"
      <4>0. s \in Int
        BY DEF Sectors
      <4>1. c \in State
        BY <3>2, <4>0 DEF State
      <4>2. Beside(a, c) /\ c.val = a.val /\ c.winsect = s
        BY <3>2 DEF State, Beside, Keeps
      <4>3. c.win = a.disk[s] /\ c.disk = a.disk /\ c.wflag = a.wflag /\ c.res = "OK"
            /\ c.left = b.left /\ c.failed = b.failed
        BY <3>2, <3>5, <3>1 DEF State
      <4> HIDE DEF c
      <4>4. WindowOk(c, g) /\ Mount(c, g)
        BY <3>1, <4>2, <4>3 DEF Card, WindowOk, Mount, Beside, Keeps
      <4>5. Seen(c, g) /\ Quiet(c, g) /\ DiskOk(c.disk, g)
        BY <3>1, <3>2, <4>2, <4>3 DEF Card, Seen, Quiet
      <4>6. c \in Work(g)
        BY <3>1, <4>1, <4>2, <4>4, <4>5 DEF Work, Card, Beside, Keeps
      <4> QED
        BY <1>2, <2>1, <2>2, <2>4, <3>5, <4>2, <4>3, <4>6 DEF Beside, Keeps
    <3> QED
      BY <3>4, <3>5
  <2> QED
    BY <2>3, <2>4
<1> QED
  BY <1>1, <1>2
(* Division: quotient and remainder, their uniqueness, and the next number. *)
LEMMA Mod == \A x \in Int, n \in Nat \ {0} : x % n \in 0..n-1
OBVIOUS

LEMMA Divided ==
  ASSUME NEW n \in Nat \ {0}, NEW x \in Nat
  PROVE  x \div n \in Nat /\ x % n \in 0..n-1 /\ x = n * (x \div n) + (x % n)
<1>1. x \div n \in Nat /\ x % n \in 0..n-1
  OBVIOUS
<1>2. x = n * (x \div n) + (x % n)
  OBVIOUS
<1> QED BY <1>1, <1>2

LEMMA Times ==
  ASSUME NEW n \in Nat \ {0}, NEW a \in Int, NEW b \in Int
  PROVE  /\ a * n \in Int /\ n * a \in Int /\ n * a = a * n
         /\ a <= b => n * a <= n * b
         /\ a < b => n * a + n <= n * b
         /\ n * a < n * b + n => a <= b
<1>1. n * (b - a) = n * b - n * a /\ n * a \in Int /\ n * b \in Int /\ a * n = n * a
  OBVIOUS
<1>2. a <= b => n * (b - a) >= 0
  <2>1. \A k \in Nat : n * k >= 0
    OBVIOUS
  <2> QED BY <2>1
<1>3. a < b => n * (b - a) >= n
  <2>1. \A k \in Nat : k >= 1 => n * k >= n
    <3>1. \A k \in Nat : n * k = n * (k - 1) + n
      OBVIOUS
    <3>2. \A k \in Nat : k >= 1 => n * (k - 1) >= 0
      OBVIOUS
    <3>3. \A k \in Nat : n * (k - 1) \in Int
      OBVIOUS
    <3> QED BY <3>1, <3>2, <3>3
  <2>2. a < b => b - a \in Nat /\ b - a >= 1
    OBVIOUS
  <2> QED BY <2>1, <2>2
<1>4. b < a => n * b + n <= n * a
  <2>1. n * (a - b) = n * a - n * b
    OBVIOUS
  <2>2. \A k \in Nat : k >= 1 => n * k >= n
    <3>1. \A k \in Nat : n * k = n * (k - 1) + n
      OBVIOUS
    <3>2. \A k \in Nat : k >= 1 => n * (k - 1) >= 0
      OBVIOUS
    <3>3. \A k \in Nat : n * (k - 1) \in Int
      OBVIOUS
    <3> QED BY <3>1, <3>2, <3>3
  <2>3. b < a => a - b \in Nat /\ a - b >= 1
    OBVIOUS
  <2>4. b < a => n * (a - b) >= n
    BY <2>2, <2>3
  <2> QED BY <1>1, <2>1, <2>4
<1> QED
  BY <1>1, <1>2, <1>3, <1>4

LEMMA Quotients ==
  ASSUME NEW n \in Nat \ {0}, NEW x \in Nat, NEW y \in Nat, x <= y
  PROVE  x \div n <= y \div n
<1> DEFINE p == x \div n
           q == y \div n
           r == x % n
           s == y % n
<1>1. p \in Nat /\ r \in 0..n-1 /\ x = n * p + r
  BY Divided
<1>2. q \in Nat /\ s \in 0..n-1 /\ y = n * q + s
  BY Divided
<1> HIDE DEF p, q, r, s
<1>3. n * p \in Int /\ n * q \in Int
  BY <1>1, <1>2, Times
<1>4. n * p < n * q + n
  BY <1>1, <1>2, <1>3
<1>5. p <= q
  BY <1>1, <1>2, <1>4, Times
<1> QED BY <1>5 DEF p, q

LEMMA ClusterSectors ==
  ASSUME NEW g \in Cards, NEW c \in Int, InRange(c), NEW k \in 0..CSize-1
  PROVE  LET s == clust2sect(g, c) + k IN s \in Int /\ InData(g, s) /\ clust2sect(g, c) # 0
<1> DEFINE p == (c - 2) * CSize
           q == (NFatEnt - 2) * CSize
<1>1. p \in Nat /\ q \in Nat /\ p + CSize <= q
  <2>1. c - 2 \in Int /\ 0 <= c - 2 /\ c - 2 < NFatEnt - 2 /\ NFatEnt - 2 \in Int
        /\ CSize \in Nat \ {0}
    BY GeometryAssumption DEF InRange
  <2>2. p = CSize * (c - 2) /\ q = CSize * (NFatEnt - 2) /\ p \in Int /\ q \in Int
    BY <2>1, Times
  <2>3. CSize * 0 <= CSize * (c - 2) /\ CSize * (c - 2) + CSize <= CSize * (NFatEnt - 2)
    BY <2>1, Times
  <2> HIDE DEF p, q
  <2> QED BY <2>1, <2>2, <2>3
<1>2. clust2sect(g, c) = DataBase(g) + p
  BY DEF clust2sect
<1> HIDE DEF p
<1>3. DataBase(g) \in Nat /\ 0 < DataBase(g)
  BY Regions, SizeOfFat DEF Cards
<1>4. CSize \in Nat
  BY GeometryAssumption
<1> QED
  <2> HIDE DEF q
  <2> QED BY <1>1, <1>2, <1>3, <1>4 DEF InData, q

LEMMA DataSectors ==
  ASSUME NEW g \in Cards, NEW s \in Int, RootBase(g) <= s, s <= LastSector
  PROVE  s \in Sectors /\ ~Copy(g, s) /\ ~InFat(g, s) /\ FatBase(g) <= s
BY Regions, SizeOfFat DEF Sectors, Copy, InFat

LEMMA InDataIs ==
  ASSUME NEW g \in Cards, NEW s \in Int, InData(g, s)
  PROVE  s \in Sectors /\ ~Copy(g, s) /\ ~InFat(g, s) /\ FatBase(g) <= s /\ RootBase(g) <= s
<1> DEFINE q == (NFatEnt - 2) * CSize
<1>1. q \in Nat /\ RootBase(g) <= DataBase(g) /\ DataBase(g) + q <= LastSector + 1
      /\ RootBase(g) \in Nat /\ DataBase(g) \in Nat /\ LastSector \in Nat
  BY Regions
<1>2. DataBase(g) <= s /\ s < DataBase(g) + q
  BY DEF InData
<1> HIDE DEF q
<1> QED
  BY <1>1, <1>2, DataSectors

LEMMA FatSectors ==
  ASSUME NEW g \in Cards, NEW c \in Int, InRange(c)
  PROVE  LET s == FatSectorOf(g, c) IN
         s \in Sectors /\ InFat(g, s) /\ ~Copy(g, s) /\ c % FatPer \in 0..FatPer-1
<1>1. c \div FatPer \in Nat /\ c \div FatPer < FatSize
  <2> DEFINE y == NFatEnt + FatPer - 1
             i == c \div FatPer
             j == y \div FatPer
  <2>1. FatPer \in Nat \ {0} /\ c \in Nat /\ c + FatPer <= y /\ y \in Nat
    BY GeometryAssumption DEF InRange
  <2>2. FatSize = j
    BY DEF FatSize
  <2> HIDE DEF y
  <2>3. i \in Nat /\ c % FatPer \in 0..FatPer-1 /\ c = FatPer * i + (c % FatPer)
    BY <2>1, Divided
  <2>4. j \in Nat /\ y % FatPer \in 0..FatPer-1 /\ y = FatPer * j + (y % FatPer)
    BY <2>1, Divided
  <2> HIDE DEF i, j
  <2>5. SUFFICES ASSUME j <= i PROVE FALSE
    BY <2>2, <2>3, <2>4 DEF i
  <2>6. FatPer * j <= FatPer * i /\ FatPer * i \in Int /\ FatPer * j \in Int
    BY <2>1, <2>3, <2>4, <2>5, Times
  <2> QED BY <2>1, <2>3, <2>4, <2>6
<1>2. c % FatPer \in 0..FatPer-1
  BY Mod, GeometryAssumption
<1> QED
  BY <1>1, <1>2, Regions, SizeOfFat DEF FatSectorOf, InFat, Copy, Sectors

(* Registers of a call that have nothing to do with the card. *)
LEMMA Stopped ==
  ASSUME NEW g \in Cards, NEW m \in Work(g), NEW r \in Results
  PROVE  LET a == Stop(m, r) IN
         a \in Work(g) /\ Keeps(m, a) /\ SameCard(m, a) /\ a.val = m.val /\ a.res = r /\ a.stop
<1> DEFINE a == Stop(m, r)
<1>1. a \in State
  BY DEF Work, State, Stop
<1>2. Keeps(m, a) /\ a.val = m.val /\ a.res = r /\ a.stop
  BY DEF Work, State, Stop, Keeps
<1>3. SameCard(m, a)
  BY DEF Work, State, Stop, SameCard
<1> HIDE DEF a
<1>4. a \in Work(g)
  BY <1>1, <1>2, <1>3, StaysWork DEF Keeps
<1> QED
  BY <1>1, <1>2, <1>3, <1>4 DEF a

LEMMA Valued ==
  ASSUME NEW g \in Cards, NEW m \in Work(g), NEW v \in Int
  PROVE  LET a == [m EXCEPT !.val = v] IN
         a \in Work(g) /\ Beside(m, a) /\ SameCard(m, a) /\ a.val = v /\ a.res = m.res
<1> DEFINE a == [m EXCEPT !.val = v]
<1>1. a \in State
  BY DEF Work, State
<1>2. Beside(m, a) /\ a.val = v /\ a.res = m.res
  BY DEF Work, State, Beside, Keeps
<1>3. SameCard(m, a)
  BY DEF Work, State, SameCard
<1> HIDE DEF a
<1>4. a \in Work(g)
  BY <1>1, <1>2, <1>3, StaysWork DEF Beside, Keeps
<1> QED
  BY <1>1, <1>2, <1>3, <1>4 DEF a

LEMMA GetFat ==
  ASSUME NEW g \in Cards, NEW m \in Work(g), NEW c \in Int, m.type # "none"
  PROVE  LET a == get_fat(m, c) IN
         /\ a \in Work(g) /\ Beside(m, a) /\ a.val \in Nat
         /\ ~InRange(c) => a.val = 1 /\ SameCard(m, a) /\ a.res = m.res
         /\ InRange(c) => a.res = "OK" /\ (a.val = DERR \/ a.winsect = FatSectorOf(g, c))
<1> DEFINE a == move_window(m, FatSectorOf(m, c))
           v == IF a.res = "OK" THEN a.win.e[c % FatPer] ELSE DERR
           b == [a EXCEPT !.val = v]
           d == [b EXCEPT !.res = "OK"]
<1>1. CASE ~InRange(c)
  <2>1. get_fat(m, c) = [m EXCEPT !.val = 1]
    BY <1>1 DEF get_fat
  <2> QED BY <1>1, <2>1, Valued
<1>2. CASE InRange(c)
  <2>1. get_fat(m, c) = d
    BY <1>2 DEF get_fat, After
  <2>2. FatSectorOf(m, c) = FatSectorOf(g, c)
    BY SameRegions DEF Work, Card, Mount
  <2>3. /\ a \in Work(g) /\ Beside(m, a)
        /\ a.res \in {"OK", "DISK_ERR"} /\ (a.res = "OK" => a.winsect = FatSectorOf(g, c))
    BY <1>2, <2>2, FatSectors, MoveWindow
  <2> HIDE DEF a
  <2>4. v \in Nat
    <3>1. CASE a.res = "OK"
      <4>1. a.win \in FatContent /\ c % FatPer \in 0..FatPer-1
        BY <1>2, <2>3, <3>1, FatSectors, FatWindow
      <4> QED BY <3>1, <4>1 DEF FatContent
    <3>2. CASE a.res # "OK"
      BY <3>2, GeometryAssumption DEF DERR
    <3> QED BY <3>1, <3>2
  <2>5. v = DERR \/ a.winsect = FatSectorOf(g, c)
    BY <2>3
  <2> HIDE DEF v
  <2>6. b \in Work(g) /\ Beside(a, b) /\ SameCard(a, b) /\ b.val = v
    BY <2>3, <2>4, Valued
  <2> HIDE DEF b
  <2>7. d \in Work(g) /\ Beside(b, d) /\ SameCard(b, d) /\ d.val = b.val /\ d.res = "OK"
    BY <2>6, Answered DEF Results
  <2> HIDE DEF d
  <2> QED
    BY <1>2, <2>1, <2>3, <2>4, <2>5, <2>6, <2>7 DEF Beside, Keeps, SameCard
<1> QED BY <1>1, <1>2

(* The window is changed. *)
Changed(m, c) == [m EXCEPT !.win = c, !.wflag = TRUE]
LEMMA Dirtied ==
  ASSUME NEW g \in Cards, NEW m \in Work(g), NEW c \in Content, m.type # "none", ~g.still,
         FatBase(g) <= m.winsect, InFat(g, m.winsect) <=> c.kind = "fat"
  PROVE  LET a == Changed(m, c) IN
         /\ a \in Work(g) /\ Beside(m, a) /\ a.val = m.val /\ a.res = m.res
         /\ a.winsect = m.winsect /\ a.win = c /\ a.wflag
<1> DEFINE a == Changed(m, c)
<1>1. a \in State
  BY DEF Work, State, Changed
<1>2. Beside(m, a) /\ a.val = m.val /\ a.res = m.res
  BY DEF Work, State, Beside, Keeps, Changed
<1>3. a.disk = m.disk /\ a.winsect = m.winsect /\ a.win = c /\ a.wflag
      /\ a.left = m.left /\ a.failed = m.failed
  BY DEF Work, State, Changed
<1> HIDE DEF a
<1>4. a \in Work(g)
  BY <1>1, <1>2, <1>3
     DEF Work, Card, WindowOk, Seen, Mount, Quiet, Beside, Keeps
<1> QED BY <1>1, <1>2, <1>3, <1>4 DEF a

-----------------------------------------------------------------------------
(* FAT entries are written and chains cut.                                 *)

LEMMA PutFat ==
  ASSUME NEW g \in Cards, NEW m \in Work(g), NEW c \in Int, NEW v \in Nat, m.type # "none",
         ~g.still, InFat(g, m.winsect)
  PROVE  LET a == put_fat(m, c, v) IN
         /\ a \in Work(g) /\ Beside(m, a) /\ a.val = m.val /\ InFat(g, a.winsect)
         /\ a.res \in {"OK", "DISK_ERR", "INT_ERR"}
<1> DEFINE a == move_window(m, FatSectorOf(m, c))
           e == Put(a.win.e, c % FatPer, v)
           n == FatSector(e)
           b == [a EXCEPT !.win = n, !.wflag = TRUE]
           d == [a EXCEPT !.wflag = TRUE]
<1>1. CASE ~InRange(c)
  <2>1. put_fat(m, c, v) = [m EXCEPT !.res = "INT_ERR"] /\ "INT_ERR" \in Results
    BY <1>1 DEF put_fat, Fail, Results
  <2> QED BY <1>1, <2>1, Answered DEF SameCard
<1>2. CASE InRange(c)
  <2>1. put_fat(m, c, v) = IF a.res = "OK" THEN b ELSE d
    <3>1. put_fat(m, c, v) = [(IF a.res = "OK" THEN [a EXCEPT !.win = n] ELSE a) EXCEPT !.wflag = TRUE]
      BY <1>2 DEF put_fat, Then
    <3> QED BY <3>1
  <2>2. FatSectorOf(m, c) = FatSectorOf(g, c)
    BY SameRegions DEF Work, Card, Mount
  <2>3. /\ a \in Work(g) /\ Beside(m, a) /\ a.val = m.val
        /\ a.res \in {"OK", "DISK_ERR"} /\ (a.res = "OK" => a.winsect = FatSectorOf(g, c))
        /\ (a.res # "OK" => a.winsect = m.winsect)
    BY <1>2, <2>2, FatSectors, MoveWindow
  <2> HIDE DEF a
  <2>5. InFat(g, a.winsect) /\ a.winsect \in Sectors /\ FatBase(g) <= a.winsect /\ a.type # "none"
    BY <1>2, <2>3, FatSectors DEF InFat, Work, Card, WindowOk, Beside, Keeps
  <2>6. a.win \in FatContent
    BY <2>3, <2>5, FatWindow
  <2>7. CASE a.res = "OK"
    <3>1. n \in Content /\ n.kind = "fat"
      BY <2>6 DEF FatSector, Put, FatContent, Content
    <3> HIDE DEF n
    <3>2. InFat(g, a.winsect) <=> n.kind = "fat"
      BY <2>5, <3>1
    <3>3. b \in Work(g) /\ Beside(a, b) /\ b.val = a.val /\ b.res = a.res /\ b.winsect = a.winsect
      <4>1. a \in Work(g) /\ n \in Content /\ a.type # "none" /\ ~g.still /\ FatBase(g) <= a.winsect
        BY <2>3, <2>5, <3>1
      <4> HIDE DEF b
      <4>2. b = Changed(a, n)
        BY DEF b, Changed
      <4> QED BY <3>2, <4>1, <4>2, Dirtied
    <3> HIDE DEF b
    <3> QED
      BY <2>1, <2>3, <2>5, <2>7, <3>3 DEF Beside, Keeps
  <2>8. CASE a.res # "OK"
    <3>1. a.win.kind = "fat" /\ a.win \in Content
      BY <2>6 DEF FatContent, Content
    <3>0. InFat(g, a.winsect) <=> a.win.kind = "fat"
      BY <2>5, <3>1
    <3>2. d = [a EXCEPT !.win = a.win, !.wflag = TRUE]
      BY <2>3 DEF Work, State
    <3> HIDE DEF d
    <3>3. d \in Work(g) /\ Beside(a, d) /\ d.val = a.val /\ d.res = a.res /\ d.winsect = a.winsect
      <4> DEFINE w == a.win
      <4>1. w \in Content /\ (InFat(g, a.winsect) <=> w.kind = "fat") /\ d = Changed(a, w)
        BY <3>0, <3>1, <3>2 DEF Changed
      <4> HIDE DEF w
      <4> QED BY <2>3, <2>5, <4>1, Dirtied
    <3> QED
      BY <2>1, <2>3, <2>5, <2>8, <3>3 DEF Beside, Keeps
  <2> QED BY <2>7, <2>8
<1> QED BY <1>1, <1>2

LEMMA CountedOk ==
  ASSUME NEW g \in Cards, NEW m \in Work(g), NEW d \in Int
  PROVE  LET a == Counted(m, d) IN
         a \in Work(g) /\ Keeps(m, a) /\ SameCard(m, a) /\ a.res = m.res /\ a.val = m.val /\ a.stop = m.stop
<1> DEFINE v == IF m.free = Unknown THEN m.free ELSE IF m.free + d < 0 THEN Unknown ELSE m.free + d
           w == m.fsi \/ m.free # Unknown
           a == [m EXCEPT !.free = v, !.fsi = w]
<1>1. Counted(m, d) = a
  BY DEF Counted
<1>2. v \in Int /\ w \in BOOLEAN
  BY GeometryAssumption DEF Work, State, Unknown
<1> HIDE DEF v, w
<1>3. a \in State
  BY <1>2 DEF Work, State
<1>4. Keeps(m, a) /\ a.res = m.res /\ a.val = m.val /\ a.stop = m.stop
  BY DEF Work, State, Keeps
<1>5. SameCard(m, a)
  BY DEF Work, State, SameCard
<1> HIDE DEF a
<1>6. a \in Work(g)
  BY <1>3, <1>4, <1>5, StaysWork DEF Keeps
<1> QED BY <1>1, <1>3, <1>4, <1>5, <1>6

SetCur(m, v) == [m EXCEPT !.cur = v]
LEMMA CurOk ==
  ASSUME NEW g \in Cards, NEW m \in Work(g), NEW v \in Int
  PROVE  LET a == SetCur(m, v) IN
         a \in Work(g) /\ Keeps(m, a) /\ SameCard(m, a) /\ a.res = m.res /\ a.val = m.val
         /\ a.cur = v /\ a.cnt = m.cnt /\ a.stop = m.stop
<1> DEFINE a == SetCur(m, v)
<1>1. a \in State
  BY DEF Work, State, SetCur
<1>2. Keeps(m, a) /\ a.res = m.res /\ a.val = m.val /\ a.cur = v /\ a.cnt = m.cnt /\ a.stop = m.stop
  BY DEF Work, State, Keeps, SetCur
<1>3. SameCard(m, a)
  BY DEF Work, State, SameCard, SetCur
<1> HIDE DEF a
<1>4. a \in Work(g)
  BY <1>1, <1>2, <1>3, StaysWork DEF Keeps
<1> QED BY <1>1, <1>2, <1>3, <1>4 DEF a

SetStop(m, b) == [m EXCEPT !.stop = b]
LEMMA StopOk ==
  ASSUME NEW g \in Cards, NEW m \in Work(g), NEW b \in BOOLEAN
  PROVE  LET a == SetStop(m, b) IN
         a \in Work(g) /\ Keeps(m, a) /\ SameCard(m, a) /\ a.res = m.res /\ a.val = m.val
         /\ a.cur = m.cur /\ a.cnt = m.cnt /\ a.stop = b
<1> DEFINE a == SetStop(m, b)
<1>1. a \in State
  BY DEF Work, State, SetStop
<1>2. Keeps(m, a) /\ a.res = m.res /\ a.val = m.val /\ a.cur = m.cur /\ a.cnt = m.cnt /\ a.stop = b
  BY DEF Work, State, Keeps, SetStop
<1>3. SameCard(m, a)
  BY DEF Work, State, SameCard, SetStop
<1> HIDE DEF a
<1>4. a \in Work(g)
  BY <1>1, <1>2, <1>3, StaysWork DEF Keeps
<1> QED BY <1>1, <1>2, <1>3, <1>4 DEF a

LEMMA EndedOk ==
  ASSUME NEW g \in Cards, NEW m \in Work(g)
  PROVE  LET a == Ended(m) IN
         a \in Work(g) /\ Keeps(m, a) /\ SameCard(m, a) /\ a.val = m.val
         /\ a.cur = m.cur /\ a.cnt = m.cnt /\ ~a.stop /\ a.res = (IF m.stop THEN m.res ELSE "HANG")
<1> DEFINE r == IF m.stop THEN m.res ELSE "HANG"
           a == [m EXCEPT !.stop = FALSE, !.res = r]
<1>0. Ended(m) = a /\ r \in Results
  BY DEF Ended, Work, State, Results
<1> HIDE DEF r
<1>1. a \in State
  BY <1>0 DEF Work, State
<1>2. Keeps(m, a) /\ a.res = r /\ a.val = m.val /\ a.cur = m.cur /\ a.cnt = m.cnt /\ ~a.stop
  BY DEF Work, State, Keeps
<1>3. SameCard(m, a)
  BY DEF Work, State, SameCard
<1> HIDE DEF a
<1>4. a \in Work(g)
  BY <1>1, <1>2, <1>3, StaysWork DEF Keeps
<1> QED BY <1>0, <1>1, <1>2, <1>3, <1>4 DEF r

LEMMA RemoveTurn ==
  ASSUME NEW g \in Cards, ~g.still, NEW m \in Live(g)
  PROVE  LET a == RemoveLink(m) IN a \in Live(g) /\ Keeps(m, a)
<1> DEFINE a == get_fat(m, m.cur)
           b == put_fat(a, m.cur, 0)
           c == Counted(b, 1)
           d == SetCur(c, a.val)
           e == Stop(a, LinkError(a))
           r == Stop(b, b.res)
<1>1. m \in Work(g) /\ m.type # "none" /\ m.cur \in Int
  BY DEF Live, Work, State
<1>2. RemoveLink(m) = IF m.cur >= NFatEnt THEN Stop(m, "OK")
                      ELSE IF a.val \in {0, 1, DERR} THEN e
                      ELSE IF b.res = "OK" THEN d ELSE r
  BY DEF RemoveLink, After, Carry, SetCur
<1>3. a \in Work(g) /\ Beside(m, a) /\ a.val \in Nat /\ a.type # "none"
      /\ (a.val \notin {0, 1, DERR} => InFat(g, a.winsect))
  <2>1. a \in Work(g) /\ Beside(m, a) /\ a.val \in Nat
      /\ (~InRange(m.cur) => a.val = 1)
      /\ (InRange(m.cur) => a.val = DERR \/ a.winsect = FatSectorOf(g, m.cur))
    BY <1>1, GetFat
  <2> HIDE DEF a
  <2> QED BY <1>1, <2>1, FatSectors DEF Beside, Keeps
<1> HIDE DEF a
<1>4. e \in Work(g) /\ Keeps(a, e) /\ Stop(m, "OK") \in Work(g) /\ Keeps(m, Stop(m, "OK"))
  <2>1. LinkError(a) \in Results /\ "OK" \in Results
    BY DEF LinkError, Results
  <2> QED BY <1>1, <1>3, <2>1, Stopped
<1>5. ASSUME a.val \notin {0, 1, DERR}
      PROVE  d \in Work(g) /\ r \in Work(g) /\ Keeps(a, d) /\ Keeps(a, r)
  <2>1. b \in Work(g) /\ Beside(a, b) /\ b.res \in Results
    BY <1>1, <1>3, <1>5, PutFat DEF Results
  <2> HIDE DEF b
  <2>2. c \in Work(g) /\ Keeps(b, c) /\ r \in Work(g) /\ Keeps(b, r)
    BY <2>1, CountedOk, Stopped
  <2> HIDE DEF c, r
  <2>3. d \in Work(g) /\ Keeps(c, d)
    BY <1>3, <2>2, CurOk
  <2> QED BY <2>1, <2>2, <2>3 DEF Beside, Keeps
<1> HIDE DEF b, c, d, e, r
<1>6. RemoveLink(m) \in Work(g) /\ Keeps(m, RemoveLink(m))
  BY <1>2, <1>3, <1>4, <1>5 DEF Beside, Keeps
<1> QED
  BY <1>1, <1>6 DEF Live, Keeps

LEMMA RemoveChain ==
  ASSUME NEW g \in Cards, ~g.still, NEW m \in Live(g), NEW c \in Int
  PROVE  LET a == remove_chain(m, c) IN a \in Live(g) /\ Keeps(m, a)
<1> DEFINE M == {y \in Live(g) : Keeps(m, y)}
           x == SetCur(Ok(m), c)
           x0 == SetStop(x, FALSE)
<1>20. Turns \in Nat
  BY SizeOfFat
<1>10. x0 \in M
  <2>1. m \in Work(g) /\ m.type # "none" /\ "OK" \in Results
    BY DEF Live, Results
  <2>2. Ok(m) \in Work(g) /\ Beside(m, Ok(m))
    BY <2>1, Answered DEF Ok
  <2>3. x \in Work(g) /\ Keeps(Ok(m), x)
    BY <2>2, CurOk
  <2> HIDE DEF x
  <2>4. x0 \in Work(g) /\ Keeps(x, x0)
    BY <2>3, StopOk
  <2> HIDE DEF x0
  <2> QED BY <2>1, <2>2, <2>3, <2>4 DEF Live, Beside, Keeps
<1>11. \A y \in M : (IF y.stop THEN y ELSE RemoveLink(y)) \in M
  <2>1. TAKE y \in M
  <2>2. RemoveLink(y) \in Live(g) /\ Keeps(y, RemoveLink(y))
    BY RemoveTurn
  <2> QED BY <2>2 DEF Keeps
<1> HIDE DEF x0
<1> DEFINE step == [y \in M |-> IF y.stop THEN y ELSE RemoveLink(y)]
           t == CHOOSE f : f = [i \in 0..Turns |-> IF i = 0 THEN x0 ELSE IF f[i-1].stop THEN f[i-1] ELSE RemoveLink(f[i-1])]
<1> HIDE DEF M
<1>21. step \in [M -> M]
  BY <1>11
<1>22. PICK f : IsRun(f, M, x0, Turns, step)
  <2> HIDE DEF step
  <2> QED BY <1>10, <1>20, <1>21, Repeated
<1>23. f = [i \in 0..Turns |-> IF i = 0 THEN x0 ELSE IF f[i-1].stop THEN f[i-1] ELSE RemoveLink(f[i-1])]
  <2>1. ASSUME NEW i \in 0..Turns, i # 0
        PROVE  step[f[i-1]] = IF f[i-1].stop THEN f[i-1] ELSE RemoveLink(f[i-1])
    <3>1. i - 1 \in 0..Turns
      BY <1>20, <2>1
    <3>2. f[i-1] \in M
      BY <1>22, <3>1 DEF IsRun
    <3> QED BY <3>2
  <2> HIDE DEF step
  <2> QED BY <1>22, <2>1 DEF IsRun
<1>24. t = [i \in 0..Turns |-> IF i = 0 THEN x0 ELSE IF t[i-1].stop THEN t[i-1] ELSE RemoveLink(t[i-1])]
  BY <1>23
<1> HIDE DEF t, step
<1> DEFINE G == [i \in 0..Turns |-> M]
<1>12. x0 \in G[0]
  BY <1>10, <1>20
<1>13. \A i \in 1..Turns : \A y \in G[i-1] : (IF y.stop THEN y ELSE RemoveLink(y)) \in G[i]
  BY <1>11, <1>20
<1> HIDE DEF G
<1>25. t[Turns] \in G[Turns]
  <2>1. t[0] \in G[0]
    BY <1>12, <1>20, <1>24
  <2>2. ASSUME NEW i \in 1..Turns, t[i-1] \in G[i-1] PROVE t[i] \in G[i]
    <3>1. t[i] = IF t[i-1].stop THEN t[i-1] ELSE RemoveLink(t[i-1])
      BY <1>20, <1>24
    <3> DEFINE y == t[i-1]
    <3>2. y \in G[i-1] /\ t[i] = IF y.stop THEN y ELSE RemoveLink(y)
      BY <2>2, <3>1
    <3> HIDE DEF y
    <3> QED BY <1>13, <3>2
  <2> QED BY <1>20, <2>1, <2>2, Always
<1>26. t[Turns] \in M
  BY <1>20, <1>25 DEF G
<1>1. Ended(t[Turns]) \in M
  BY <1>26, EndedOk DEF M, Live, Keeps
<1>2. remove_chain(m, c) = IF ~InRange(c) THEN Fail(m, "INT_ERR") ELSE Ended(t[Turns])
  BY DEF remove_chain, Loop, Turn, t, x0, x, SetCur, SetStop
<1>3. Fail(m, "INT_ERR") \in M
  <2>1. m \in Work(g) /\ m.type # "none" /\ "INT_ERR" \in Results
    BY DEF Live, Results
  <2>2. Fail(m, "INT_ERR") \in Work(g) /\ Beside(m, Fail(m, "INT_ERR"))
    BY <2>1, Answered DEF Fail
  <2> QED BY <2>1, <2>2 DEF M, Live, Beside, Keeps
<1> QED BY <1>1, <1>2, <1>3 DEF M

-----------------------------------------------------------------------------
(* Clusters are found and claimed.                                         *)

SetVal(m, v) == [m EXCEPT !.val = v]
LEMMA ValOk ==
  ASSUME NEW g \in Cards, NEW m \in Work(g), NEW v \in Int
  PROVE  LET a == SetVal(m, v) IN
         a \in Work(g) /\ Beside(m, a) /\ SameCard(m, a) /\ a.val = v /\ a.res = m.res
BY Valued DEF SetVal

LEMMA OkOk ==
  ASSUME NEW g \in Cards, NEW m \in Work(g)
  PROVE  LET a == Ok(m) IN
         a \in Work(g) /\ Beside(m, a) /\ SameCard(m, a) /\ a.val = m.val /\ a.res = "OK"
BY Answered DEF Ok, Results

LEMMA FailOk ==
  ASSUME NEW g \in Cards, NEW m \in Work(g), NEW r \in Results
  PROVE  LET a == Fail(m, r) IN
         a \in Work(g) /\ Beside(m, a) /\ SameCard(m, a) /\ a.val = m.val /\ a.res = r
BY Answered DEF Fail

SetCnt(m, v) == [m EXCEPT !.cnt = v]
LEMMA CntOk ==
  ASSUME NEW g \in Cards, NEW m \in Work(g), NEW v \in Int
  PROVE  LET a == SetCnt(m, v) IN
         a \in Work(g) /\ Keeps(m, a) /\ SameCard(m, a) /\ a.res = m.res /\ a.val = m.val
         /\ a.cnt = v /\ a.cur = m.cur /\ a.stop = m.stop
<1> DEFINE a == SetCnt(m, v)
<1>1. a \in State
  BY DEF Work, State, SetCnt
<1>2. Keeps(m, a) /\ a.res = m.res /\ a.val = m.val /\ a.cnt = v /\ a.cur = m.cur /\ a.stop = m.stop
  BY DEF Work, State, Keeps, SetCnt
<1>3. SameCard(m, a)
  BY DEF Work, State, SameCard, SetCnt
<1> HIDE DEF a
<1>4. a \in Work(g)
  BY <1>1, <1>2, <1>3, StaysWork DEF Keeps
<1> QED BY <1>1, <1>2, <1>3, <1>4 DEF a

SetLast(m, v) == [m EXCEPT !.last = v, !.val = v]
LEMMA LastOk ==
  ASSUME NEW g \in Cards, NEW m \in Work(g), NEW v \in Int
  PROVE  LET a == SetLast(m, v) IN
         a \in Work(g) /\ Keeps(m, a) /\ SameCard(m, a) /\ a.res = m.res /\ a.val = v /\ a.stop = m.stop
<1> DEFINE a == SetLast(m, v)
<1>1. a \in State
  BY DEF Work, State, SetLast
<1>2. Keeps(m, a) /\ a.res = m.res /\ a.val = v /\ a.stop = m.stop
  BY DEF Work, State, Keeps, SetLast
<1>3. SameCard(m, a)
  BY DEF Work, State, SameCard, SetLast
<1> HIDE DEF a
<1>4. a \in Work(g)
  BY <1>1, <1>2, <1>3, StaysWork DEF Keeps
<1> QED BY <1>1, <1>2, <1>3, <1>4 DEF a

(* What an allocation answers: a cluster, no room, or an error. *)
Allotted(v) == v \in {0, 1, DERR} \/ (InRange(v) /\ v \in Int)
LEMMA Claims ==
  ASSUME NEW g \in Cards, ~g.still, NEW m \in Live(g), NEW c \in Int,
         InRange(m.val), InFat(g, m.winsect)
  PROVE  LET a == Claim(m, c) IN a \in Live(g) /\ Keeps(m, a) /\ Allotted(a.val) /\ a.stop = m.stop
<1> DEFINE p == put_fat(m, m.val, EOC)
           q == IF c = 0 THEN p ELSE put_fat(p, c, m.val)
           b == IF p.res = "OK" THEN q ELSE p
           k == Counted(b, -1)
           d == SetLast(k, m.val)
           v == IF b.res = "DISK_ERR" THEN DERR ELSE 1
           w == SetVal(b, v)
           e == Ok(w)
<1>1. m \in Work(g) /\ m.type # "none" /\ m.val \in Nat /\ EOC \in Nat /\ DERR \in Int /\ m.val \in Int
  <2>1. m.val \in Int
    BY DEF Live, Work, State
  <2> QED BY <2>1, GeometryAssumption DEF Live, InRange, EOC, DERR
<1>2. Claim(m, c) = IF b.res = "OK" THEN d ELSE e
  <2>1. [b EXCEPT !.val = v, !.res = "OK"] = e
    BY DEF SetVal, Ok
  <2> QED BY <2>1 DEF Claim, After, Then, SetLast
<1>3. p \in Work(g) /\ Beside(m, p) /\ InFat(g, p.winsect)
  BY <1>1, PutFat
<1> HIDE DEF p
<1>4. q \in Work(g) /\ Keeps(p, q) /\ q.stop = p.stop
  <2>1. CASE c = 0
    BY <1>3, <2>1 DEF Keeps
  <2>2. CASE c # 0
    BY <1>1, <1>3, <2>2, PutFat DEF Beside, Keeps
  <2> QED BY <2>1, <2>2
<1> HIDE DEF q
<1>5. b \in Work(g) /\ Keeps(m, b) /\ b.stop = m.stop
  BY <1>3, <1>4 DEF Beside, Keeps
<1> HIDE DEF b
<1>6. k \in Work(g) /\ Keeps(b, k) /\ k.stop = b.stop
  BY <1>5, CountedOk
<1> HIDE DEF k
<1>7. d \in Work(g) /\ Keeps(k, d) /\ d.val = m.val /\ d.stop = k.stop
  BY <1>1, <1>6, LastOk
<1>8. v \in Int /\ v \in {1, DERR}
  BY <1>1
<1> HIDE DEF v
<1>9. w \in Work(g) /\ Keeps(b, w) /\ w.val = v /\ w.stop = b.stop
  BY <1>5, <1>8, ValOk DEF Beside
<1> HIDE DEF w
<1>10. e \in Work(g) /\ Keeps(w, e) /\ e.val = w.val /\ e.stop = w.stop
  BY <1>9, OkOk DEF Beside
<1> HIDE DEF d, e
<1>11. Claim(m, c) \in Work(g) /\ Keeps(m, Claim(m, c)) /\ Allotted(Claim(m, c).val)
       /\ Claim(m, c).stop = m.stop
  BY <1>1, <1>2, <1>5, <1>6, <1>7, <1>8, <1>9, <1>10 DEF Keeps, Allotted
<1> QED BY <1>1, <1>11 DEF Live, Keeps

Sought(y, g) == y.val \in {0, 1, DERR} \/ (InRange(y.val) /\ InFat(g, y.winsect))
LEMMA SeekFreeTurn ==
  ASSUME NEW g \in Cards, NEW m \in Live(g), ~m.stop
  PROVE  LET a == SeekFree(m) IN
         /\ a \in Live(g) /\ Keeps(m, a) /\ a.cnt = m.cnt
         /\ a.stop => Sought(a, g)
         /\ ~a.stop => /\ ~(m.cur + 1 >= NFatEnt /\ 2 > m.cnt)
                       /\ Following(m.cur) # m.cnt /\ a.cur = Following(m.cur)
<1> DEFINE n == Following(m.cur)
           a == get_fat(m, n)
           z == SetVal(m, 0)
           k == SetVal(a, n)
           k0 == SetVal(a, 0)
           c == SetCur(a, n)
<1>1. m \in Work(g) /\ m.type # "none" /\ n \in Int
  BY GeometryAssumption DEF Live, Work, State, Following
<1>2. SeekFree(m) = IF m.cur + 1 >= NFatEnt /\ 2 > m.cnt THEN Stop(z, "OK")
                    ELSE IF a.val = 0 THEN Stop(k, "OK")
                    ELSE IF a.val \in {1, DERR} THEN Stop(a, "OK")
                    ELSE IF n = m.cnt THEN Stop(k0, "OK")
                    ELSE c
  BY DEF SeekFree, After, SetVal, SetCur
<1>3. z \in Work(g) /\ Beside(m, z) /\ z.val = 0
  BY <1>1, ValOk
<1> HIDE DEF z, n
<1>4. a \in Work(g) /\ Beside(m, a) /\ a.val \in Nat /\ (~InRange(n) => a.val = 1)
      /\ (InRange(n) => a.val = DERR \/ a.winsect = FatSectorOf(g, n))
  BY <1>1, GetFat
<1> HIDE DEF a
<1>5. k \in Work(g) /\ Beside(a, k) /\ k.val = n /\ k.winsect = a.winsect
  BY <1>1, <1>4, ValOk DEF SameCard
<1>6. k0 \in Work(g) /\ Beside(a, k0) /\ k0.val = 0
  BY <1>4, ValOk
<1>7. c \in Work(g) /\ Keeps(a, c) /\ c.cur = n /\ c.cnt = a.cnt /\ c.stop = a.stop
  BY <1>1, <1>4, CurOk
<1>8. a.val = 0 => InRange(n) /\ InFat(g, a.winsect)
  BY <1>1, <1>4, FatSectors, GeometryAssumption DEF DERR
<1>9. \A y \in Work(g) : Stop(y, "OK") \in Work(g) /\ Keeps(y, Stop(y, "OK")) /\ Stop(y, "OK").stop
        /\ Stop(y, "OK").val = y.val /\ Stop(y, "OK").winsect = y.winsect /\ Stop(y, "OK").cnt = y.cnt
  <2>1. TAKE y \in Work(g)
  <2>2. "OK" \in Results
    BY DEF Results
  <2>3. Stop(y, "OK").cnt = y.cnt
    BY DEF Stop, Work, State
  <2> QED BY <2>2, <2>3, Stopped DEF SameCard
<1> HIDE DEF k, k0, c
<1>10. CASE m.cur + 1 >= NFatEnt /\ 2 > m.cnt
  BY <1>1, <1>2, <1>3, <1>9, <1>10 DEF Live, Beside, Keeps, Sought
<1>11. CASE ~(m.cur + 1 >= NFatEnt /\ 2 > m.cnt)
  <2>1. CASE a.val = 0
    BY <1>1, <1>2, <1>4, <1>5, <1>8, <1>9, <1>11, <2>1 DEF Live, Beside, Keeps, Sought
  <2>2. CASE a.val # 0 /\ a.val \in {1, DERR}
    BY <1>1, <1>2, <1>4, <1>9, <1>11, <2>2 DEF Live, Beside, Keeps, Sought
  <2>3. CASE a.val \notin {0, 1, DERR} /\ n = m.cnt
    BY <1>1, <1>2, <1>4, <1>6, <1>9, <1>11, <2>3 DEF Live, Beside, Keeps, Sought
  <2>4. CASE a.val \notin {0, 1, DERR} /\ n # m.cnt
    <3>1. SeekFree(m) = c
      BY <1>2, <1>11, <2>4
    <3>2. c \in Live(g) /\ Keeps(m, c) /\ c.cnt = m.cnt /\ c.cur = n
      BY <1>1, <1>4, <1>7 DEF Live, Beside, Keeps
    <3>3. c.stop = m.stop
      BY <1>4, <1>7 DEF Beside
    <3> QED BY <1>11, <2>4, <3>1, <3>2, <3>3 DEF n
  <2> QED BY <2>1, <2>2, <2>3, <2>4
<1> QED BY <1>10, <1>11
LEMMA ManyTurns == NFatEnt <= Turns /\ CSize + 1 <= Turns
<1> DEFINE p == CSize * DirPer
<1>1. p \in Nat /\ CSize <= p /\ 1 <= p
  <2>1. DirPer \in Nat \ {0} /\ CSize \in Nat \ {0}
    BY GeometryAssumption
  <2>2. CSize * 1 <= CSize * DirPer /\ CSize * DirPer \in Int /\ CSize * 1 = CSize
    BY <2>1, Times
  <2> QED BY <2>1, <2>2
<1> HIDE DEF p
<1>2. NFatEnt * 1 <= NFatEnt * p /\ p * 1 <= p * NFatEnt /\ p * NFatEnt \in Int /\ NFatEnt * p = p * NFatEnt
  <2>1. p \in Nat \ {0} /\ NFatEnt \in Nat \ {0} /\ 1 <= NFatEnt
    BY <1>1, GeometryAssumption
  <2> QED BY <1>1, <2>1, Times
<1>3. NFatEnt * 1 = NFatEnt /\ p * 1 = p
  BY <1>1, GeometryAssumption
<1>4. Turns = NRoot + p * NFatEnt
  BY DEF Turns, p
<1> QED BY <1>1, <1>2, <1>3, <1>4, GeometryAssumption

(* How far a search that began at c has come after i turns. *)
Reached(c, i, k) ==
  /\ i < NFatEnt
  /\ IF c = 1 THEN k = 1 + i /\ k < NFatEnt
     ELSE (k = c + i /\ k < NFatEnt) \/ (k = c + i - (NFatEnt - 2) /\ 2 <= k /\ k < c)

LEMMA Allocates ==
  ASSUME NEW g \in Cards, ~g.still, NEW m \in Live(g), NEW c \in Int, NEW scl \in Int,
         scl = 1 \/ InRange(scl)
  PROVE  LET a == Allocate(m, c, scl) IN a \in Live(g) /\ Keeps(m, a) /\ Allotted(a.val) /\ ~a.stop
<1> DEFINE M == {y \in Live(g) : Keeps(m, y) /\ y.cnt = scl /\ (y.stop => Sought(y, g))}
           G == [i \in 0..Turns |-> {y \in M : ~y.stop => Reached(scl, i, y.cur)}]
           p == SetCur(m, scl)
           x == SetCnt(p, scl)
           x0 == SetStop(x, FALSE)
<1>20. Turns \in Nat
  BY SizeOfFat
<1>1. x0 \in M /\ x0.cur = scl
  <2>1. m \in Work(g) /\ m.type # "none"
    BY DEF Live
  <2>2. p \in Work(g) /\ Keeps(m, p) /\ p.cur = scl
    BY <2>1, CurOk
  <2> HIDE DEF p
  <2>3. x \in Work(g) /\ Keeps(p, x) /\ x.cnt = scl /\ x.cur = p.cur
    BY <2>2, CntOk
  <2> HIDE DEF x
  <2>4. x0 \in Work(g) /\ Keeps(x, x0) /\ x0.cur = x.cur /\ x0.cnt = x.cnt /\ ~x0.stop
    BY <2>3, StopOk
  <2> HIDE DEF x0
  <2> QED BY <2>1, <2>2, <2>3, <2>4 DEF Live, Keeps
<1> HIDE DEF x0
<1>10. x0 \in M
  BY <1>1
<1>11. \A y \in M : (IF y.stop THEN y ELSE SeekFree(y)) \in M
  <2>1. TAKE y \in M
  <2>2. CASE ~y.stop
    <3>1. /\ SeekFree(y) \in Live(g) /\ Keeps(y, SeekFree(y)) /\ SeekFree(y).cnt = y.cnt
          /\ SeekFree(y).stop => Sought(SeekFree(y), g)
      BY <2>2, SeekFreeTurn
    <3> QED BY <2>2, <3>1 DEF Keeps
  <2> QED BY <2>2
<1>12. x0 \in G[0]
  BY <1>1, <1>20, GeometryAssumption DEF Reached, InRange
<1>13. \A i \in 1..Turns : \A y \in G[i-1] : (IF y.stop THEN y ELSE SeekFree(y)) \in G[i]
  <2>1. SUFFICES ASSUME NEW i \in 1..Turns, NEW y \in M, ~y.stop, Reached(scl, i - 1, y.cur),
                        NEW z, z = SeekFree(y), ~z.stop
                 PROVE  Reached(scl, i, z.cur)
    BY <1>11, <1>20
  <2>2. /\ ~(y.cur + 1 >= NFatEnt /\ 2 > y.cnt)
        /\ Following(y.cur) # y.cnt /\ z.cur = Following(y.cur)
    BY <2>1, SeekFreeTurn
  <2>3. y.cnt = scl /\ y.cur \in Int
    BY DEF Live, Work, State
  <2> HIDE DEF M
  <2> QED BY <1>20, <2>1, <2>2, <2>3, GeometryAssumption DEF Reached, Following, InRange
<1> HIDE DEF x0
<1> DEFINE step == [y \in M |-> IF y.stop THEN y ELSE SeekFree(y)]
           t == CHOOSE f : f = [i \in 0..Turns |-> IF i = 0 THEN x0 ELSE IF f[i-1].stop THEN f[i-1] ELSE SeekFree(f[i-1])]
<1> HIDE DEF M
<1>21. step \in [M -> M]
  BY <1>11
<1>22. PICK f : IsRun(f, M, x0, Turns, step)
  <2> HIDE DEF step
  <2> QED BY <1>10, <1>20, <1>21, Repeated
<1>23. f = [i \in 0..Turns |-> IF i = 0 THEN x0 ELSE IF f[i-1].stop THEN f[i-1] ELSE SeekFree(f[i-1])]
  <2>1. ASSUME NEW i \in 0..Turns, i # 0
        PROVE  step[f[i-1]] = IF f[i-1].stop THEN f[i-1] ELSE SeekFree(f[i-1])
    <3>1. i - 1 \in 0..Turns
      BY <1>20, <2>1
    <3>2. f[i-1] \in M
      BY <1>22, <3>1 DEF IsRun
    <3> QED BY <3>2
  <2> HIDE DEF step
  <2> QED BY <1>22, <2>1 DEF IsRun
<1>24. t = [i \in 0..Turns |-> IF i = 0 THEN x0 ELSE IF t[i-1].stop THEN t[i-1] ELSE SeekFree(t[i-1])]
  BY <1>23
<1> HIDE DEF t, step
<1> HIDE DEF G
<1>25. t[Turns] \in G[Turns]
  <2>1. t[0] \in G[0]
    BY <1>12, <1>20, <1>24
  <2>2. ASSUME NEW i \in 1..Turns, t[i-1] \in G[i-1] PROVE t[i] \in G[i]
    <3>1. t[i] = IF t[i-1].stop THEN t[i-1] ELSE SeekFree(t[i-1])
      BY <1>20, <1>24
    <3> DEFINE y == t[i-1]
    <3>2. y \in G[i-1] /\ t[i] = IF y.stop THEN y ELSE SeekFree(y)
      BY <2>2, <3>1
    <3> HIDE DEF y
    <3> QED BY <1>13, <3>2
  <2> QED BY <1>20, <2>1, <2>2, Always
<1> DEFINE e == t[Turns]
           f1 == Ended(e)
<1>3. e \in M /\ e.stop
  BY <1>20, <1>25, ManyTurns, GeometryAssumption DEF G, Reached
<1> HIDE DEF e
<1>4. f1 \in Live(g) /\ Keeps(m, f1) /\ Sought(f1, g) /\ f1.val \in Int /\ ~f1.stop
  <2>1. e \in Work(g) /\ e.type # "none" /\ Keeps(m, e) /\ Sought(e, g)
    BY <1>3 DEF M, Live
  <2>2. f1 \in Work(g) /\ Keeps(e, f1) /\ f1.val = e.val /\ f1.winsect = e.winsect /\ ~f1.stop
    BY <2>1, EndedOk DEF SameCard
  <2> HIDE DEF f1
  <2>3. f1.val \in Int
    BY <2>2 DEF Work, State
  <2> QED BY <2>1, <2>2, <2>3 DEF Keeps, Live, Sought
<1>5. Allocate(m, c, scl) = IF InRange(f1.val) THEN Claim(f1, c) ELSE f1
  <2>1. Loop([m EXCEPT !.cur = scl, !.cnt = scl], SeekFree, Turns) = f1
    BY DEF Loop, Turn, t, f1, e, x0, x, p, SetCur, SetStop, SetCnt
  <2> QED BY <2>1 DEF Allocate, After
<1> HIDE DEF f1
<1>6. CASE InRange(f1.val)
  <2>1. InFat(g, f1.winsect)
    BY <1>4, <1>6, GeometryAssumption DEF Sought, InRange, DERR
  <2>2. Claim(f1, c) \in Live(g) /\ Keeps(f1, Claim(f1, c)) /\ Allotted(Claim(f1, c).val)
       /\ Claim(f1, c).stop = f1.stop
    BY <1>4, <1>6, <2>1, Claims
  <2> QED BY <1>4, <1>5, <1>6, <2>2 DEF Keeps
<1>7. CASE ~InRange(f1.val)
  BY <1>4, <1>5, <1>7 DEF Sought, Allotted
<1> QED BY <1>6, <1>7

LEMMA CreateChain ==
  ASSUME NEW g \in Cards, ~g.still, NEW m \in Live(g), NEW c \in Int
  PROVE  LET a == create_chain(m, c) IN a \in Live(g) /\ Keeps(m, a) /\ Allotted(a.val) /\ a.val \in Nat
         /\ (a.stop => m.stop)
<1> DEFINE a == get_fat(m, c)
           b == SetVal(a, 1)
           l == IF InRange(m.last) \/ m.last = 1 THEN m.last ELSE 1
<1>0. \A v : Allotted(v) => v \in Nat
  BY GeometryAssumption DEF Allotted, InRange, DERR
<1>1. m \in Work(g) /\ m.type # "none" /\ m.last \in Int
  BY DEF Live, Work, State
<1>2. CASE c = 0
  <2>1. l \in Int /\ (l = 1 \/ InRange(l))
    BY <1>1
  <2>2. create_chain(m, c) = Allocate(m, 0, l)
    BY <1>2 DEF create_chain
  <2> HIDE DEF l
  <2> QED BY <1>0, <2>1, <2>2, Allocates
<1>3. CASE c # 0
  <2>1. create_chain(m, c) = IF a.val < 2 THEN b ELSE IF InRange(a.val) THEN a ELSE Allocate(a, c, c)
    BY <1>3 DEF create_chain, After, SetVal
  <2>2. a \in Live(g) /\ Keeps(m, a) /\ a.val \in Nat /\ (~InRange(c) => a.val = 1) /\ a.stop = m.stop
    BY <1>1, GetFat DEF Live, Beside, Keeps
  <2> HIDE DEF a
  <2>3. b \in Live(g) /\ Keeps(a, b) /\ b.val = 1 /\ b.stop = a.stop
    <3>1. b \in Work(g) /\ Keeps(a, b) /\ b.val = 1 /\ b.stop = a.stop
      BY <2>2, ValOk DEF Live, Beside
    <3> QED BY <2>2, <3>1 DEF Live, Keeps
  <2> HIDE DEF b
  <2>4. ASSUME a.val >= 2
        PROVE  Allocate(a, c, c) \in Live(g) /\ Keeps(a, Allocate(a, c, c)) /\ Allotted(Allocate(a, c, c).val)
               /\ ~Allocate(a, c, c).stop
    BY <2>2, <2>4, Allocates
  <2>5. CASE a.val < 2
    BY <1>0, <2>1, <2>2, <2>3, <2>5 DEF Keeps, Allotted
  <2>6. CASE a.val >= 2 /\ InRange(a.val)
    BY <1>0, <2>1, <2>2, <2>6 DEF Allotted
  <2>7. CASE a.val >= 2 /\ ~InRange(a.val)
    BY <1>0, <2>1, <2>2, <2>4, <2>7 DEF Keeps
  <2> QED BY <2>2, <2>5, <2>6, <2>7
<1> QED BY <1>2, <1>3

-----------------------------------------------------------------------------
(* FSInfo and the end of a call that writes.                               *)

LEMMA SpentOk ==
  ASSUME NEW g \in Cards, NEW m \in Work(g)
  PROVE  LET a == Spent(m) IN a \in Work(g) /\ Beside(m, a) /\ a.val = m.val /\ a.res = m.res
         /\ a.disk = m.disk /\ a.win = m.win /\ a.winsect = m.winsect /\ a.wflag = m.wflag
<1> DEFINE a == Spent(m)
<1>0. m \in State /\ m.left \in Nat /\ m.failed \in BOOLEAN
  BY DEF Work, State
<1>1. /\ a \in State /\ Beside(m, a) /\ a.val = m.val /\ a.res = m.res
      /\ a.disk = m.disk /\ a.win = m.win /\ a.winsect = m.winsect /\ a.wflag = m.wflag
      /\ a.failed = (m.failed \/ m.left = 1)
      /\ m.left = 0 => a.left = 0
  BY <1>0, Spends
<1> HIDE DEF a
<1>2. DiskOk(m.disk, g) /\ WindowOk(m, g) /\ Seen(m, g) /\ Mount(m, g) /\ Quiet(m, g)
      /\ DirOk(m.dj, g) /\ FileOk(m.f, g)
  BY DEF Work, Card
<1>3. DiskOk(a.disk, g) /\ WindowOk(a, g) /\ Seen(a, g)
  BY <1>1, <1>2 DEF WindowOk, Seen
<1>4. Mount(a, g) /\ DirOk(a.dj, g) /\ FileOk(a.f, g)
  BY <1>1, <1>2 DEF Mount, Beside, Keeps
<1>5. Quiet(a, g)
  BY <1>0, <1>1, <1>2 DEF Quiet
<1> QED BY <1>1, <1>3, <1>4, <1>5 DEF a, Work, Card

LEMMA DiskIoctl ==
  ASSUME NEW g \in Cards, NEW m \in Work(g)
  PROVE  LET a == disk_ioctl(m) IN a \in Work(g) /\ Beside(m, a) /\ a.val = m.val
         /\ a.win = m.win /\ a.winsect = m.winsect /\ a.wflag = m.wflag /\ a.disk = m.disk
         /\ a.res \in {"OK", "DISK_ERR"} /\ (m.left = 0 => a.res = "OK")
<1> DEFINE s == Spent(m)
<1>1. /\ s \in Work(g) /\ Beside(m, s) /\ s.val = m.val
      /\ s.win = m.win /\ s.winsect = m.winsect /\ s.wflag = m.wflag /\ s.disk = m.disk
  BY SpentOk
<1>2. disk_ioctl(m) = IF m.left = 1 THEN Fail(s, "DISK_ERR") ELSE Ok(s)
  BY DEF disk_ioctl, Fails
<1> HIDE DEF s
<1>3. /\ Fail(s, "DISK_ERR") \in Work(g) /\ Beside(s, Fail(s, "DISK_ERR"))
      /\ SameCard(s, Fail(s, "DISK_ERR")) /\ Fail(s, "DISK_ERR").val = s.val
      /\ Fail(s, "DISK_ERR").res = "DISK_ERR"
  BY <1>1, FailOk DEF Results
<1>4. Ok(s) \in Work(g) /\ Beside(s, Ok(s)) /\ SameCard(s, Ok(s)) /\ Ok(s).val = s.val /\ Ok(s).res = "OK"
  BY <1>1, OkOk
<1> QED BY <1>1, <1>2, <1>3, <1>4 DEF Beside, Keeps, SameCard

SetInfo(m, c) == [m EXCEPT !.winsect = 0, !.win = c, !.fsi = FALSE]
LEMMA WriteInfoOk ==
  ASSUME NEW g \in Cards, ~g.still, NEW m \in Live(g), ~m.wflag
  PROVE  LET a == WriteInfo(m) IN a \in Live(g) /\ Keeps(m, a)
<1> DEFINE c == InfoSector(m.free, m.last)
           b == SetInfo(m, c)
           s == m.bsect + 1
           d == disk_write(b, s, c)
<1>0. m \in Work(g) /\ m.type # "none" /\ m.bsect = g.bsect /\ m \in State
  BY DEF Live, Work, Card, Mount
<1>1. WriteInfo(m) = IF m.type = "FAT32" /\ m.fsi THEN Ok(d) ELSE m
  BY DEF WriteInfo, SetInfo
<1>2. c \in Content
  BY <1>0 DEF InfoSector, State, Content, InfoContent
<1>3. s \in Sectors /\ s # 0 /\ s # g.bsect /\ s < FatBase(g) /\ s \in Int /\ 0 \in Sectors
  BY <1>0, Regions, SizeOfFat DEF Sectors, Cards
<1> HIDE DEF c, s
<1>4. b \in State
  <2>1. b = [[[m EXCEPT !.winsect = 0] EXCEPT !.win = c] EXCEPT !.fsi = FALSE]
    BY DEF SetInfo
  <2>2. [m EXCEPT !.winsect = 0] \in State
    <3> DEFINE v == 0
    <3>1. v \in Int
      OBVIOUS
    <3> HIDE DEF v
    <3>2. [m EXCEPT !.winsect = v] \in State
      BY <1>0, <3>1 DEF State
    <3> QED BY <3>2 DEF v
  <2> DEFINE p == [m EXCEPT !.winsect = 0]
             q == [p EXCEPT !.win = c]
  <2> HIDE DEF p
  <2>3. q \in State
    BY <1>2, <2>2 DEF State, p
  <2> HIDE DEF q
  <2>4. [q EXCEPT !.fsi = FALSE] \in State
    BY <2>3 DEF State
  <2> QED BY <2>1, <2>4 DEF p, q
<1>5. Keeps(m, b)
  BY <1>0 DEF State, Keeps, SetInfo
<1>6. b.winsect = 0 /\ b.win = c /\ b.disk = m.disk /\ ~b.wflag /\ b.left = m.left /\ b.failed = m.failed
  BY <1>0 DEF State, SetInfo
<1> HIDE DEF b
<1>7. /\ d \in State /\ Beside(b, d)
      /\ d.win = b.win /\ d.winsect = b.winsect /\ d.wflag = b.wflag
      /\ d.res = "OK" => d.disk = [b.disk EXCEPT ![s] = c]
      /\ d.res # "OK" => d.disk = b.disk
      /\ b.left = 0 => d.left = 0 /\ d.failed = b.failed /\ d.res = "OK"
  BY <1>2, <1>3, <1>4, DiskWrite
<1> HIDE DEF d
<1>8. DiskOk(d.disk, g)
  <2>1. DiskOk(m.disk, g) /\ m.disk \in [Sectors -> Content]
    BY <1>0 DEF Work, Card, State
  <2>2. DiskOk([m.disk EXCEPT ![s] = c], g)
    <3> DEFINE e == [m.disk EXCEPT ![s] = c]
    <3>1. \A t \in Sectors : t # s => e[t] = m.disk[t]
      BY <2>1
    <3>2. g.bsect \in Sectors /\ 0 \in Sectors /\ g.bsect \in Nat
      BY <1>3, Regions DEF Cards, Sectors
    <3> HIDE DEF e
    <3>5. e[0] = m.disk[0] /\ e[g.bsect] = m.disk[g.bsect]
          /\ \A t \in Sectors : FatBase(g) <= t => e[t] = m.disk[t]
      BY <1>3, <3>1, <3>2, Regions DEF Sectors
    <3>3. Layout(e, g)
      BY <2>1, <3>5 DEF DiskOk, Layout
    <3>4. Mirrors(m.disk, g) => Mirrors(e, g)
      <4>1. \A t \in Sectors : InFat(g, t) /\ g.n_fats = 2 =>
               FatBase(g) <= t /\ t + FatSize \in Sectors /\ FatBase(g) <= t + FatSize
        BY Regions, SizeOfFat DEF InFat, Sectors
      <4> QED BY <3>5, <4>1 DEF Mirrors
    <3> QED BY <2>1, <3>3, <3>4 DEF DiskOk, e
  <2> QED BY <1>6, <1>7, <2>1, <2>2
<1>9. d \in Work(g)
  <2>1. WindowOk(d, g)
    BY <1>3, <1>6, <1>7, Regions, SizeOfFat DEF WindowOk, Copy, Cards
  <2>2. Seen(d, g) /\ Mount(d, g) /\ Quiet(d, g)
    BY <1>0, <1>5, <1>6, <1>7 DEF Seen, Work, Card, Mount, Quiet, Beside, Keeps
  <2> QED BY <1>0, <1>5, <1>7, <1>8, <2>1, <2>2 DEF Work, Card, Beside, Keeps
<1>10. Ok(d) \in Work(g) /\ Beside(d, Ok(d))
  BY <1>9, OkOk
<1>11. WriteInfo(m) \in Work(g) /\ Keeps(m, WriteInfo(m))
  BY <1>0, <1>1, <1>5, <1>7, <1>9, <1>10 DEF Beside, Keeps
<1> QED BY <1>0, <1>11 DEF Live, Keeps

LEMMA SyncFs ==
  ASSUME NEW g \in Cards, ~g.still, NEW m \in Live(g)
  PROVE  LET a == sync_fs(m) IN a \in Live(g) /\ Keeps(m, a)
<1> DEFINE a == sync_window(m)
           b == WriteInfo(a)
           d == disk_ioctl(b)
<1>1. sync_fs(m) = IF a.res = "OK" THEN d ELSE a
  BY DEF sync_fs, Then
<1>2. a \in Live(g) /\ Keeps(m, a) /\ (a.res = "OK" => ~a.wflag)
  BY SyncWindow DEF Live, Beside, Keeps
<1> HIDE DEF a
<1>3. ASSUME a.res = "OK" PROVE d \in Live(g) /\ Keeps(m, d)
  <2>1. b \in Live(g) /\ Keeps(a, b)
    BY <1>2, <1>3, WriteInfoOk
  <2> HIDE DEF b
  <2>2. d \in Work(g) /\ Keeps(b, d)
    BY <2>1, DiskIoctl DEF Live, Beside
  <2> HIDE DEF d
  <2> QED BY <1>2, <2>1, <2>2 DEF Live, Keeps
<1> QED BY <1>1, <1>2, <1>3

-----------------------------------------------------------------------------
(* Directory positions and entries.                                        *)

LEMMA SyncElsewhere ==
  ASSUME NEW g \in Cards, NEW m \in Live(g), NEW t \in Sectors, RootBase(g) <= t, t # m.winsect
  PROVE  sync_window(m).disk[t] = m.disk[t]
<1> DEFINE w == disk_write(m, m.winsect, m.win)
           b == [w EXCEPT !.wflag = FALSE]
           x == disk_write(b, b.winsect + FatSize, b.win)
<1>0. /\ m \in State /\ m.winsect \in Sectors /\ m.win \in Content
      /\ m.type = g.type /\ m.bsect = g.bsect /\ m.n_fats = g.n_fats
      /\ m.disk \in [Sectors -> Content]
  BY DEF Live, Work, Card, WindowOk, State, Mount
<1>1. CASE ~m.wflag
  BY <1>0, <1>1 DEF sync_window, Ok, State
<1>2. CASE m.wflag
  <2>1. w \in State /\ (w.disk = m.disk \/ w.disk = [m.disk EXCEPT ![m.winsect] = m.win])
        /\ w.winsect = m.winsect /\ w.win = m.win /\ Beside(m, w)
    BY <1>0, DiskWrite
  <2>2. sync_window(m) = IF w.res = "OK" THEN IF InFat(b, b.winsect) /\ b.n_fats = 2 THEN Ok(x) ELSE Ok(b) ELSE w
    BY <1>2 DEF sync_window, Then, Mirror
  <2> HIDE DEF w
  <2>3. b \in State /\ b.disk = w.disk /\ b.winsect = m.winsect /\ b.win = m.win
        /\ b.bsect = g.bsect /\ b.type = g.type /\ b.n_fats = g.n_fats
    <3>1. b \in State
      BY <2>1 DEF State
    <3>2. b.disk = w.disk /\ b.winsect = m.winsect /\ b.win = m.win
      BY <2>1 DEF State
    <3>3. b.bsect = w.bsect /\ b.type = w.type /\ b.n_fats = w.n_fats
      BY <2>1 DEF State
    <3> HIDE DEF b
    <3> QED BY <1>0, <2>1, <3>1, <3>2, <3>3 DEF Beside, Keeps
  <2> HIDE DEF b
  <2>4. w.disk[t] = m.disk[t] /\ b.disk[t] = m.disk[t]
    BY <1>0, <2>1, <2>3
  <2>5. ASSUME InFat(b, b.winsect), b.n_fats = 2
        PROVE  x \in State /\ x.disk[t] = m.disk[t]
    <3> DEFINE s == b.winsect + FatSize
    <3>1. InFat(g, b.winsect)
      BY <2>3, <2>5, SameRegions
    <3>2. s \in Sectors /\ s # t
      <4>1. g.n_fats = 2 /\ b.winsect = m.winsect
        BY <2>3, <2>5
      <4>2. RootBase(g) = FatBase(g) + 2 * FatSize /\ FatSize \in Nat /\ RootBase(g) <= LastSector + 1
            /\ FatBase(g) \in Nat /\ LastSector \in Nat
        BY <4>1, Regions, SizeOfFat
      <4> HIDE DEF s
      <4> QED BY <1>0, <3>1, <4>1, <4>2 DEF InFat, Sectors, s
    <3>3. x = disk_write(b, s, b.win) /\ b.win \in Content /\ b.disk \in [Sectors -> Content]
      BY <1>0, <2>3 DEF State
    <3> HIDE DEF s, x
    <3>4. x \in State /\ (x.disk = b.disk \/ x.disk = [b.disk EXCEPT ![s] = b.win])
      BY <2>3, <3>2, <3>3, DiskWrite
    <3> QED BY <2>4, <3>2, <3>3, <3>4
  <2> HIDE DEF x
  <2>6. \A y \in State : Ok(y).disk = y.disk
    BY DEF Ok, State
  <2> QED BY <2>2, <2>3, <2>4, <2>5, <2>6
<1> QED BY <1>1, <1>2

(* The directory object. *)
Aside(m, a) ==
  /\ a.type = m.type /\ a.f = m.f /\ a.buf = m.buf /\ a.want = m.want /\ a.path = m.path
  /\ a.cdir = m.cdir /\ a.info = m.info /\ a.id = m.id
  /\ a.dj.fn = m.dj.fn /\ a.dj.sclust = m.dj.sclust
  /\ m.dj.dir # Self => a.dj.dir # Self
LEMMA Nearby == \A m, a : Keeps(m, a) => Aside(m, a)
BY DEF Keeps, Aside

OnEntry(m, g) == m.winsect \in Sectors /\ RootBase(g) <= m.winsect /\ m.dj.dir # Self

LEMMA DirSect ==
  ASSUME NEW g \in Cards, NEW j \in DirObjects, DirOk(j, g)
  PROVE  j.sect \in Sectors /\ ~Copy(g, j.sect) /\ (j.sect # 0 => RootBase(g) <= j.sect /\ ~InFat(g, j.sect))
<1> DEFINE q == (NFatEnt - 2) * CSize
           r == NRoot \div DirPer
           k == j.index \div DirPer
<1>1. j.index \in Nat /\ DirPer \in Nat \ {0} /\ NRoot \in Nat /\ CSize \in Nat \ {0} /\ j.clust \in Int
  BY GeometryAssumption DEF DirObjects
<1>2. k \in Nat
  BY <1>1, Divided
<1>3. CASE j.sect = 0
  BY <1>3, Regions, SizeOfFat DEF Sectors, Copy
<1>4. CASE j.clust = 0 /\ k <= r /\ j.sect = RootBase(g) + k
  <2>1. k <= r
    BY <1>4
  <2>2. RootBase(g) \in Nat /\ r \in Nat /\ RootBase(g) + r <= LastSector /\ LastSector \in Nat
    <3>1. q \in Nat /\ q >= 1
      <4>1. NFatEnt - 2 \in Nat \ {0} /\ CSize \in Nat \ {0}
        BY GeometryAssumption
      <4>3. CSize * 1 <= CSize * (NFatEnt - 2) /\ CSize * (NFatEnt - 2) = (NFatEnt - 2) * CSize
            /\ (NFatEnt - 2) * CSize \in Int /\ CSize * 1 = CSize
        <5>1. 1 <= NFatEnt - 2 /\ NFatEnt - 2 \in Int
          BY GeometryAssumption
        <5> QED BY <4>1, <5>1, Times
      <4> QED BY <4>1, <4>3
    <3>2. RootBase(g) + g.n_fats * 0 = RootBase(g)
      BY Regions DEF Cards
    <3>3. LastSector = 3 + 2 * FatSize + r + q /\ RootBase(g) <= 3 + 2 * FatSize /\ r \in Nat
      BY Regions, SizeOfFat DEF LastSector, NRsv, Cards
    <3> HIDE DEF q, r
    <3>4. RootBase(g) \in Nat /\ FatSize \in Nat
      BY Regions, SizeOfFat
    <3> QED BY <3>1, <3>3, <3>4
  <2> HIDE DEF k, r
  <2>3. RootBase(g) <= j.sect /\ j.sect <= LastSector /\ j.sect \in Int
    BY <1>2, <1>4, <2>1, <2>2
  <2> QED BY <2>3, DataSectors
<1>5. CASE InRange(j.clust) /\ j.sect = clust2sect(g, j.clust) + (k % CSize)
  <2> DEFINE i == k % CSize
  <2>1. i \in 0..CSize-1 /\ j.sect = clust2sect(g, j.clust) + i /\ InRange(j.clust)
    <3>1. j.sect = clust2sect(g, j.clust) + i /\ InRange(j.clust)
      BY <1>5
    <3>2. k \in Nat /\ CSize \in Nat \ {0}
      BY <1>1, <1>2
    <3> HIDE DEF k
    <3>3. i \in 0..CSize-1
      BY <3>2, Mod
    <3> QED BY <3>1, <3>3
  <2> HIDE DEF i
  <2>2. j.sect \in Int /\ InData(g, j.sect)
    BY <1>1, <1>5, <2>1, ClusterSectors
  <2> QED BY <2>2, InDataIs
<1> QED BY <1>3, <1>4, <1>5 DEF DirOk

LEMMA Shown ==
  ASSUME NEW c \in Content
  PROVE  AsDir(c) \in DirContent /\ AsData(c) \in DataContent
<1>1. AsDir(c) \in DirContent
  <2>1. CASE c.kind = "dir"
    BY <2>1 DEF AsDir, Content, DirContent, FatContent, DataContent, InfoContent, BootContent
  <2>2. CASE c.kind # "dir"
    BY <2>2 DEF AsDir, DirSector, DirContent, Entry, Spellings, Attrs
  <2> QED BY <2>1, <2>2
<1>2. AsData(c) \in DataContent
  <2>1. CASE c.kind = "data"
    BY <2>1 DEF AsData, Content, DirContent, FatContent, DataContent, InfoContent, BootContent
  <2>2. CASE c.kind # "data"
    BY <2>2 DEF AsData, DataSector, DataContent
  <2> QED BY <2>1, <2>2
<1> QED BY <1>1, <1>2

LEMMA EntryOk ==
  ASSUME NEW g \in Cards, NEW m \in Work(g), m.dj.dir # Self
  PROVE  EntryAt(m) \in Entry /\ m.dj.dir \in 0..DirPer-1
<1>1. m.win \in Content /\ m.dj \in DirObjects
  BY DEF Work, State
<1>2. m.dj.dir \in 0..DirPer-1
  BY <1>1, GeometryAssumption DEF DirObjects, Self
<1>3. AsDir(m.win) \in DirContent
  BY <1>1, Shown
<1> QED BY <1>2, <1>3 DEF EntryAt, DirContent

SetDj(m, j) == [m EXCEPT !.dj = j]
LEMMA DjOk ==
  ASSUME NEW g \in Cards, NEW m \in Work(g), NEW j \in DirObjects, DirOk(j, g)
  PROVE  LET a == SetDj(m, j) IN
         /\ a \in Work(g) /\ a.dj = j /\ SameCard(m, a) /\ a.f = m.f /\ a.buf = m.buf
         /\ a.want = m.want /\ a.path = m.path /\ a.cdir = m.cdir /\ a.info = m.info /\ a.id = m.id
         /\ a.res = m.res /\ a.val = m.val /\ a.cur = m.cur /\ a.cnt = m.cnt /\ a.stop = m.stop
<1> DEFINE a == SetDj(m, j)
<1>1. a \in State
  BY DEF Work, State, SetDj
<1>2. a.dj = j /\ a.f = m.f /\ a.buf = m.buf
         /\ a.want = m.want /\ a.path = m.path /\ a.cdir = m.cdir /\ a.info = m.info /\ a.id = m.id
         /\ a.res = m.res /\ a.val = m.val /\ a.cur = m.cur /\ a.cnt = m.cnt /\ a.stop = m.stop
  BY DEF Work, State, SetDj
<1>3. SameCard(m, a)
  BY DEF Work, State, SameCard, SetDj
<1> HIDE DEF a
<1>4. a \in Work(g)
  BY <1>1, <1>2, <1>3 DEF Work, Card, SameCard, WindowOk, Seen, Mount, Quiet
<1> QED BY <1>1, <1>2, <1>3, <1>4 DEF a

-----------------------------------------------------------------------------
(* A directory object is set and moved.                                    *)

LEMMA StepOn ==
  ASSUME NEW n \in Nat \ {0}, NEW x \in Nat
  PROVE  /\ (x + 1) % n # 0 => (x + 1) \div n = x \div n /\ (x + 1) % n = (x % n) + 1
         /\ (x + 1) % n = 0 => (x + 1) \div n = (x \div n) + 1
<1> DEFINE p == x \div n
           q == (x + 1) \div n
           r == x % n
           s == (x + 1) % n
<1>1. p \in Nat /\ r \in 0..n-1 /\ x = n * p + r
  BY Divided
<1>2. q \in Nat /\ s \in 0..n-1 /\ x + 1 = n * q + s
  <2>1. x + 1 \in Nat
    OBVIOUS
  <2> QED BY <2>1, Divided
<1> HIDE DEF p, q, r, s
<1>3. n * p \in Int /\ n * q \in Int
  BY <1>1, <1>2, Times
<1>4. p <= q
  <2>1. n * p < n * q + n
    BY <1>1, <1>2, <1>3
  <2> QED BY <1>1, <1>2, <2>1, Times
<1>5. q <= p + 1
  <2>1. n * (p + 1) = n * p + n
    BY <1>1
  <2>2. n * q < n * (p + 1) + n
    BY <1>1, <1>2, <1>3, <2>1
  <2> QED BY <1>1, <1>2, <2>2, Times
<1>6. CASE q = p
  BY <1>1, <1>2, <1>3, <1>6 DEF p, q, r, s
<1>7. CASE q = p + 1
  <2>1. n * q = n * p + n
    BY <1>1, <1>7
  <2>2. s = 0
    BY <1>1, <1>2, <1>3, <2>1
  <2> QED BY <1>7, <2>2 DEF p, q, r, s
<1> QED BY <1>1, <1>2, <1>4, <1>5, <1>6, <1>7

DirAt(g, c, i, s) ==
  \/ s = 0
  \/ c = 0 /\ i \div DirPer <= NRoot \div DirPer /\ s = RootBase(g) + i \div DirPer
  \/ InRange(c) /\ s = clust2sect(g, c) + ((i \div DirPer) % CSize)
LEMMA DirAtIs ==
  ASSUME NEW g, NEW j PROVE DirOk(j, g) <=> DirAt(g, j.clust, j.index, j.sect)
BY DEF DirOk, DirAt

LEMMA SeekOk ==
  ASSUME NEW g \in Cards, NEW m \in Live(g), NEW c \in Int, NEW i \in Nat, NEW s \in Int,
         DirAt(g, c, i, s)
  PROVE  LET a == Seek(m, c, i, s) IN
         a \in Live(g) /\ Aside(m, a) /\ a.res = "OK" /\ a.dj.sect = s /\ a.dj.dir # Self
         /\ a.stop = m.stop
<1> DEFINE o == Ok(m)
           j == [o.dj EXCEPT !.index = i, !.clust = c, !.sect = s, !.dir = i % DirPer]
           a == SetDj(o, j)
<1>1. o \in Work(g) /\ Beside(m, o) /\ o.res = "OK" /\ o.type # "none"
  BY OkOk DEF Live, Beside, Keeps
<1>2. Seek(m, c, i, s) = a
  BY DEF Seek, SetDj
<1> HIDE DEF o
<1>3. o.dj \in DirObjects
  BY <1>1 DEF Work, State
<1>4. i % DirPer \in 0..DirPer-1 /\ DirPer \in Nat
  BY Mod, GeometryAssumption
<1>5. j \in DirObjects
  <2> DEFINE q == i % DirPer
             h == [o.dj EXCEPT !.index = i, !.clust = c, !.sect = s, !.dir = q]
  <2>1. q \in -1..DirPer-1
    BY <1>4
  <2>2. j = h
    OBVIOUS
  <2> HIDE DEF q, j
  <2>3. h \in DirObjects
    BY <1>3, <2>1 DEF DirObjects
  <2> QED BY <2>2, <2>3
<1>6. j.index = i /\ j.clust = c /\ j.sect = s /\ j.dir # Self /\ j.fn = o.dj.fn /\ j.sclust = o.dj.sclust
  <2> DEFINE q == i % DirPer
             h == [o.dj EXCEPT !.index = i, !.clust = c, !.sect = s, !.dir = q]
  <2>1. q \in 0..DirPer-1
    BY <1>4
  <2>2. j = h
    OBVIOUS
  <2> HIDE DEF q, j
  <2>3. h.index = i /\ h.clust = c /\ h.sect = s /\ h.dir = q /\ h.fn = o.dj.fn /\ h.sclust = o.dj.sclust
    BY <1>3 DEF DirObjects
  <2> QED BY <1>4, <2>1, <2>2, <2>3 DEF Self
<1> HIDE DEF j
<1>7. DirOk(j, g)
  BY <1>6, DirAtIs
<1>8. /\ a \in Work(g) /\ a.dj = j /\ SameCard(o, a) /\ a.f = o.f /\ a.buf = o.buf
      /\ a.want = o.want /\ a.path = o.path /\ a.cdir = o.cdir /\ a.info = o.info /\ a.id = o.id
      /\ a.res = o.res /\ a.stop = o.stop
  BY <1>1, <1>5, <1>7, DjOk
<1> HIDE DEF a
<1> QED BY <1>1, <1>2, <1>6, <1>8 DEF Live, Aside, Beside, Keeps, SameCard

LEMMA PutEntryOk ==
  ASSUME NEW g \in Cards, ~g.still, NEW m \in Live(g), OnEntry(m, g), NEW e \in Entry
  PROVE  LET a == PutEntry(m, e) IN
         a \in Live(g) /\ Beside(m, a) /\ a.res = m.res /\ a.val = m.val /\ OnEntry(a, g)
         /\ a.winsect = m.winsect
<1> DEFINE c == DirSector(Put(AsDir(m.win).e, m.dj.dir, e))
           a == Changed(m, c)
<1>1. PutEntry(m, e) = a
  BY DEF PutEntry, Changed
<1>2. m \in Work(g) /\ m.type # "none" /\ m.win \in Content
  BY DEF Live, Work, State
<1>3. c \in Content /\ c.kind = "dir"
  <2>1. AsDir(m.win) \in DirContent
    BY <1>2, Shown
  <2>2. c \in DirContent
    BY <2>1 DEF Put, DirSector, DirContent
  <2> QED BY <2>2 DEF DirContent, Content
<1> HIDE DEF c
<1>4. FatBase(g) <= m.winsect /\ ~InFat(g, m.winsect)
  BY Regions, SizeOfFat DEF OnEntry, InFat, Sectors
<1>5. InFat(g, m.winsect) <=> c.kind = "fat"
  BY <1>3, <1>4
<1>6. a \in Work(g) /\ Beside(m, a) /\ a.val = m.val /\ a.res = m.res /\ a.winsect = m.winsect
  BY <1>2, <1>3, <1>4, <1>5, Dirtied
<1> HIDE DEF a
<1> QED BY <1>1, <1>2, <1>6 DEF Live, OnEntry, Beside, Keeps

LEMMA FollowDirTurn ==
  ASSUME NEW g \in Cards, NEW m \in Live(g), InRange(m.cur)
  PROVE  LET a == FollowDir(m) IN a \in Live(g) /\ Keeps(m, a) /\ InRange(a.cur)
         /\ (a.stop => m.stop \/ a.res # "NO_FILE")
<1> DEFINE a == get_fat(m, m.cur)
           c == SetCur(a, a.val)
           d == SetCnt(c, a.cnt - 1)
           r == IF a.val = DERR THEN "DISK_ERR" ELSE "INT_ERR"
<1>1. m \in Work(g) /\ m.type # "none" /\ m.cur \in Int
  BY DEF Live, Work, State
<1>2. FollowDir(m) = IF m.cnt = 0 THEN Stop(m, "OK") ELSE IF InRange(a.val) THEN d ELSE Stop(a, r)
  <2>1. d = [a EXCEPT !.cur = a.val, !.cnt = @ - 1]
    BY DEF SetCnt, SetCur
  <2> QED BY <2>1 DEF FollowDir, After
<1>3. a \in Work(g) /\ Beside(m, a) /\ a.val \in Nat
  BY <1>1, GetFat
<1> HIDE DEF a
<1>4. a.cnt - 1 \in Int
  BY <1>3 DEF Work, State
<1>5. c \in Work(g) /\ Keeps(a, c) /\ c.cur = a.val /\ c.stop = a.stop
  BY <1>3, CurOk
<1> HIDE DEF c
<1>6. d \in Work(g) /\ Keeps(c, d) /\ d.cur = c.cur /\ d.stop = c.stop
  BY <1>4, <1>5, CntOk
<1> HIDE DEF d
<1>7. \A y \in Work(g), q \in {"OK", "DISK_ERR", "INT_ERR"} :
        Stop(y, q) \in Work(g) /\ Keeps(y, Stop(y, q)) /\ Stop(y, q).cur = y.cur /\ Stop(y, q).res # "NO_FILE"
  <2>1. TAKE y \in Work(g), q \in {"OK", "DISK_ERR", "INT_ERR"}
  <2>2. q \in Results /\ q # "NO_FILE"
    BY DEF Results
  <2>3. Stop(y, q).cur = y.cur
    BY DEF Stop, Work, State
  <2> QED BY <2>2, <2>3, Stopped
<1>8. r \in {"OK", "DISK_ERR", "INT_ERR"}
  OBVIOUS
<1> HIDE DEF r
<1>12. a.stop = m.stop /\ c.stop = a.stop /\ d.stop = c.stop
  BY <1>3, <1>5, <1>6 DEF Beside
<1> DEFINE z == FollowDir(m)
<1> HIDE DEF z
<1>9. CASE m.cnt = 0
  <2>1. z = Stop(m, "OK")
    BY <1>2, <1>9 DEF z
  <2> QED BY <1>1, <1>7, <2>1 DEF Live, Keeps, z
<1>10. CASE m.cnt # 0 /\ InRange(a.val)
  <2>1. z = d
    BY <1>2, <1>10 DEF z
  <2> QED BY <1>1, <1>3, <1>5, <1>6, <1>10, <1>12, <2>1 DEF Live, Beside, Keeps, z
<1>11. CASE m.cnt # 0 /\ ~InRange(a.val)
  <2>1. z = Stop(a, r)
    BY <1>2, <1>11 DEF z
  <2>2. Stop(a, r) \in Work(g) /\ Keeps(a, Stop(a, r)) /\ Stop(a, r).cur = a.cur /\ Stop(a, r).res # "NO_FILE"
    BY <1>3, <1>7, <1>8
  <2> QED BY <1>1, <1>3, <2>1, <2>2 DEF Live, Beside, Keeps, z
<1> QED BY <1>9, <1>10, <1>11

LEMMA DirFollowed ==
  ASSUME NEW g \in Cards, NEW m \in Live(g), NEW b \in Nat, InRange(b), NEW k \in Nat
  PROVE  LET z == Loop([m EXCEPT !.cur = b, !.cnt = k], FollowDir, Turns) IN
         z \in Live(g) /\ Keeps(m, z) /\ InRange(z.cur) /\ z.res # "NO_FILE" /\ ~z.stop
<1> DEFINE M == {y \in Live(g) : Keeps(m, y) /\ InRange(y.cur) /\ (y.stop => y.res # "NO_FILE")}
           p == SetCur(m, b)
           x == SetCnt(p, k)
           x0 == SetStop(x, FALSE)
<1>20. Turns \in Nat
  BY SizeOfFat
<1>10. x0 \in M
  <2>1. m \in Work(g) /\ m.type # "none"
    BY DEF Live
  <2>2. p \in Work(g) /\ Keeps(m, p) /\ p.cur = b
    BY <2>1, CurOk
  <2> HIDE DEF p
  <2>3. x \in Work(g) /\ Keeps(p, x) /\ x.cur = p.cur
    BY <2>2, CntOk
  <2> HIDE DEF x
  <2>4. x0 \in Work(g) /\ Keeps(x, x0) /\ x0.cur = x.cur /\ ~x0.stop
    BY <2>3, StopOk
  <2> HIDE DEF x0
  <2> QED BY <2>1, <2>2, <2>3, <2>4 DEF Live, Keeps
<1>11. \A y \in M : (IF y.stop THEN y ELSE FollowDir(y)) \in M
  <2>1. TAKE y \in M
  <2>2. FollowDir(y) \in Live(g) /\ Keeps(y, FollowDir(y)) /\ InRange(FollowDir(y).cur)
        /\ (FollowDir(y).stop => y.stop \/ FollowDir(y).res # "NO_FILE")
    BY FollowDirTurn
  <2> QED BY <2>2 DEF Keeps
<1> HIDE DEF x0
<1> DEFINE step == [y \in M |-> IF y.stop THEN y ELSE FollowDir(y)]
           t == CHOOSE f : f = [i \in 0..Turns |-> IF i = 0 THEN x0 ELSE IF f[i-1].stop THEN f[i-1] ELSE FollowDir(f[i-1])]
<1> HIDE DEF M
<1>21. step \in [M -> M]
  BY <1>11
<1>22. PICK f : IsRun(f, M, x0, Turns, step)
  <2> HIDE DEF step
  <2> QED BY <1>10, <1>20, <1>21, Repeated
<1>23. f = [i \in 0..Turns |-> IF i = 0 THEN x0 ELSE IF f[i-1].stop THEN f[i-1] ELSE FollowDir(f[i-1])]
  <2>1. ASSUME NEW i \in 0..Turns, i # 0
        PROVE  step[f[i-1]] = IF f[i-1].stop THEN f[i-1] ELSE FollowDir(f[i-1])
    <3>1. i - 1 \in 0..Turns
      BY <1>20, <2>1
    <3>2. f[i-1] \in M
      BY <1>22, <3>1 DEF IsRun
    <3> QED BY <3>2
  <2> HIDE DEF step
  <2> QED BY <1>22, <2>1 DEF IsRun
<1>24. t = [i \in 0..Turns |-> IF i = 0 THEN x0 ELSE IF t[i-1].stop THEN t[i-1] ELSE FollowDir(t[i-1])]
  BY <1>23
<1> HIDE DEF t, step
<1> DEFINE G == [i \in 0..Turns |-> M]
<1>12. x0 \in G[0]
  BY <1>10, <1>20
<1>13. \A i \in 1..Turns : \A y \in G[i-1] : (IF y.stop THEN y ELSE FollowDir(y)) \in G[i]
  BY <1>11, <1>20
<1> HIDE DEF G
<1>25. t[Turns] \in G[Turns]
  <2>1. t[0] \in G[0]
    BY <1>12, <1>20, <1>24
  <2>2. ASSUME NEW i \in 1..Turns, t[i-1] \in G[i-1] PROVE t[i] \in G[i]
    <3>1. t[i] = IF t[i-1].stop THEN t[i-1] ELSE FollowDir(t[i-1])
      BY <1>20, <1>24
    <3> DEFINE y == t[i-1]
    <3>2. y \in G[i-1] /\ t[i] = IF y.stop THEN y ELSE FollowDir(y)
      BY <2>2, <3>1
    <3> HIDE DEF y
    <3> QED BY <1>13, <3>2
  <2> QED BY <1>20, <2>1, <2>2, Always
<1>26. t[Turns] \in M
  BY <1>20, <1>25 DEF G
<1> DEFINE e == t[Turns]
           f1 == Ended(e)
<1>3. e \in M
  BY <1>26
<1> HIDE DEF e
<1>4. f1 \in Live(g) /\ Keeps(m, f1) /\ InRange(f1.cur) /\ f1.res # "NO_FILE" /\ ~f1.stop
  <2>1. e \in Work(g) /\ e.type # "none" /\ Keeps(m, e) /\ InRange(e.cur) /\ (e.stop => e.res # "NO_FILE")
    BY <1>3 DEF M, Live
  <2>2. f1 \in Work(g) /\ ~f1.stop /\ Keeps(e, f1) /\ f1.cur = e.cur /\ f1.res = (IF e.stop THEN e.res ELSE "HANG")
    BY <2>1, EndedOk
  <2> HIDE DEF f1
  <2> QED BY <2>1, <2>2 DEF Keeps, Live
<1>5. Loop([m EXCEPT !.cur = b, !.cnt = k], FollowDir, Turns) = f1
  BY DEF Loop, Turn, t, f1, e, x0, x, p, SetCur, SetStop, SetCnt
<1> QED BY <1>4, <1>5

LEMMA DirSdi ==
  ASSUME NEW g \in Cards, NEW m \in Live(g), NEW n \in Nat
  PROVE  LET a == dir_sdi(m, n) IN
         a \in Live(g) /\ Aside(m, a) /\ (a.res = "OK" => a.dj.sect # 0 /\ a.dj.dir # Self)
         /\ a.res # "NO_FILE" /\ (a.stop => m.stop)
<1> DEFINE M == {y \in Live(g) : Keeps(m, y) /\ InRange(y.cur) /\ (y.stop => y.res # "NO_FILE")}
           b == DirBegin(m)
           k == n \div (DirPer * CSize)
           p == SetCur(m, b)
           x == SetCnt(p, k)
           x0 == SetStop(x, FALSE)
           r == n \div DirPer
           fi == Fail(m, "INT_ERR")
<1>1. m \in Work(g) /\ m.type # "none" /\ m.type = g.type /\ m.dj.sclust \in Nat
      /\ m.bsect = g.bsect /\ m.n_fats = g.n_fats
  BY DEF Live, Work, State, Card, Mount, DirObjects
<1>2. r \in Nat /\ k \in Nat /\ b \in Nat
  <2>1. DirPer \in Nat \ {0} /\ CSize \in Nat \ {0}
    BY GeometryAssumption
  <2>2. CSize * 1 <= CSize * DirPer /\ CSize * DirPer = DirPer * CSize /\ CSize * DirPer \in Int /\ CSize * 1 = CSize
    BY <2>1, Times
  <2>3. DirPer * CSize \in Nat \ {0}
    BY <2>1, <2>2
  <2>4. r \in Nat
    BY <2>1, Divided
  <2>5. k \in Nat
    BY <2>3, Divided
  <2>6. b \in Nat
    BY <1>1 DEF DirBegin, DirBase
  <2> QED BY <2>4, <2>5, <2>6
<1>3. fi \in Live(g) /\ Aside(m, fi) /\ fi.res = "INT_ERR" /\ fi.stop = m.stop
  <2>1. fi \in Work(g) /\ Beside(m, fi) /\ fi.res = "INT_ERR"
    BY <1>1, FailOk DEF Results
  <2> HIDE DEF fi
  <2> QED BY <1>1, <2>1, Nearby DEF Live, Beside, Keeps
<1>4. CASE m.dj.sclust = 1 \/ m.dj.sclust >= NFatEnt
  <2>1. dir_sdi(m, n) = fi
    BY <1>4 DEF dir_sdi
  <2> HIDE DEF fi
  <2> QED BY <1>3, <2>1
<1>5. CASE ~(m.dj.sclust = 1 \/ m.dj.sclust >= NFatEnt) /\ b = 0
  <2> DEFINE s == RootBase(m) + r
             a == Seek(m, 0, n, s)
  <2>1. dir_sdi(m, n) = IF n >= NRoot THEN fi ELSE a
    BY <1>5 DEF dir_sdi
  <2>2. CASE n >= NRoot
    <3> HIDE DEF fi
    <3> QED BY <1>3, <2>1, <2>2
  <2>3. CASE n < NRoot
    <3>1. s = RootBase(g) + r /\ s \in Int /\ s # 0
      <4>1. RootBase(m) = RootBase(g) /\ RootBase(g) \in Nat /\ RootBase(g) > 0
        BY <1>1, SameRegions, Regions, SizeOfFat DEF Cards
      <4> HIDE DEF r
      <4> QED BY <1>2, <4>1
    <3>2. DirAt(g, 0, n, s)
      <4>1. n \div DirPer <= NRoot \div DirPer
        BY <2>3, GeometryAssumption, Quotients
      <4> QED BY <3>1, <4>1 DEF DirAt
    <3> HIDE DEF s, r
    <3>3. a \in Live(g) /\ a.stop = m.stop /\ Aside(m, a) /\ a.res = "OK" /\ a.dj.sect = s /\ a.dj.dir # Self
      <4>1. 0 \in Int
        OBVIOUS
      <4> HIDE DEF M, b, k, p, x, x0, fi
      <4> QED BY <3>1, <3>2, <4>1, SeekOk
    <3> HIDE DEF a
    <3> QED BY <2>1, <2>3, <3>1, <3>3, GeometryAssumption
  <2> QED BY <2>2, <2>3, GeometryAssumption
<1>6. CASE ~(m.dj.sclust = 1 \/ m.dj.sclust >= NFatEnt) /\ b # 0
  <2>1. InRange(b)
    BY <1>1, <1>6, GeometryAssumption DEF DirBegin, DirBase, InRange
  <2> DEFINE z == Loop([m EXCEPT !.cur = b, !.cnt = k], FollowDir, Turns)
             s == clust2sect(z, z.cur) + (r % CSize)
             a == Seek(z, z.cur, n, s)
  <2>3. dir_sdi(m, n) = IF z.res = "OK" THEN a ELSE z
    BY <1>6, GeometryAssumption DEF dir_sdi, Then
  <2>4. z \in Live(g) /\ Keeps(m, z) /\ InRange(z.cur) /\ z.res # "NO_FILE" /\ ~z.stop
    BY <1>2, <2>1, DirFollowed
  <2> HIDE DEF z
  <2>5. CASE z.res = "OK"
    <3>1. z.cur \in Int /\ z.type = g.type /\ z.bsect = g.bsect /\ z.n_fats = g.n_fats
      BY <1>1, <2>4 DEF Live, Work, State, Keeps
    <3>2. r % CSize \in 0..CSize-1
      <4>1. CSize \in Nat \ {0} /\ r \in Int
        BY <1>2, GeometryAssumption
      <4> HIDE DEF r
      <4> QED BY <4>1, Mod
    <3>3. s = clust2sect(g, z.cur) + (r % CSize)
      BY <3>1, SameRegions
    <3>4. s \in Int /\ s # 0
      <4> DEFINE q == r % CSize
      <4>1. q \in 0..CSize-1
        BY <3>2
      <4> HIDE DEF q
      <4>2. clust2sect(g, z.cur) + q \in Int /\ InData(g, clust2sect(g, z.cur) + q)
        BY <2>4, <3>1, <4>1, ClusterSectors
      <4>3. RootBase(g) \in Nat /\ RootBase(g) > 0
        BY Regions, SizeOfFat DEF Cards
      <4>4. RootBase(g) <= clust2sect(g, z.cur) + q
        BY <4>2, InDataIs
      <4> QED BY <3>3, <4>2, <4>3, <4>4 DEF q
    <3>5. DirAt(g, z.cur, n, s)
      BY <2>4, <3>3 DEF DirAt
    <3> HIDE DEF s
    <3>6. a \in Live(g) /\ a.stop = z.stop /\ Aside(z, a) /\ a.res = "OK" /\ a.dj.sect = s /\ a.dj.dir # Self
      BY <2>4, <3>1, <3>4, <3>5, SeekOk
    <3> HIDE DEF a
    <3> QED BY <2>3, <2>4, <2>5, <3>4, <3>6 DEF Aside, Keeps
  <2>6. CASE z.res # "OK"
    BY <2>3, <2>4, <2>6, Nearby
  <2> QED BY <2>5, <2>6
<1> QED BY <1>4, <1>5, <1>6

-----------------------------------------------------------------------------
(* A cluster is cleared for a table: the window goes ahead of the card.    *)

(* The card while a cluster is cleared: the window shows no sector, and what *)
(* it holds has not been written where it points to.                         *)
Loose(g) == {m \in State : /\ DiskOk(m.disk, g) /\ Mount(m, g) /\ Quiet(m, g)
                           /\ DirOk(m.dj, g) /\ FileOk(m.f, g) /\ m.type # "none" /\ ~m.wflag}
LEMMA Loosened ==
  ASSUME NEW g \in Cards, NEW m \in Live(g), ~m.wflag
  PROVE  m \in Loose(g)
BY DEF Live, Work, Card, Loose

LEMMA Fastened ==
  ASSUME NEW g \in Cards, ~g.still, NEW m \in Loose(g), m.winsect \in Sectors, ~Copy(g, m.winsect),
         FatBase(g) <= m.winsect => m.win = m.disk[m.winsect]
  PROVE  m \in Live(g)
BY DEF Live, Work, Card, Loose, WindowOk, Seen

SetWin(m, c, s) == [m EXCEPT !.win = c, !.winsect = s]
LEMMA WinOk ==
  ASSUME NEW g \in Cards, NEW m \in Loose(g), NEW c \in Content, NEW s \in Int
  PROVE  LET a == SetWin(m, c, s) IN
         a \in Loose(g) /\ Beside(m, a) /\ a.res = m.res /\ a.val = m.val /\ a.disk = m.disk
         /\ a.win = c /\ a.winsect = s
<1> DEFINE a == SetWin(m, c, s)
<1>1. a \in State
  BY DEF Loose, State, SetWin
<1>2. Beside(m, a) /\ a.res = m.res /\ a.val = m.val
  BY DEF Loose, State, SetWin, Beside, Keeps
<1>3. a.disk = m.disk /\ a.win = c /\ a.winsect = s /\ a.wflag = m.wflag /\ a.left = m.left
      /\ a.failed = m.failed
  BY DEF Loose, State, SetWin
<1> HIDE DEF a
<1>4. a \in Loose(g)
  <2>1. m.type # "none"
    BY DEF Loose
  <2> QED BY <1>1, <1>2, <1>3, <2>1 DEF Loose, Mount, Quiet, Beside, Keeps
<1> QED BY <1>2, <1>3, <1>4 DEF a

LEMMA LooseCnt ==
  ASSUME NEW g \in Cards, NEW m \in Loose(g), NEW v \in Int
  PROVE  LET a == SetCnt(m, v) IN
         a \in Loose(g) /\ Keeps(m, a) /\ a.res = m.res /\ a.val = m.val /\ a.disk = m.disk
         /\ a.win = m.win /\ a.winsect = m.winsect /\ a.cnt = v /\ a.cur = m.cur /\ a.stop = m.stop
<1> DEFINE a == SetCnt(m, v)
<1>1. a \in State
  BY DEF Loose, State, SetCnt
<1>2. Keeps(m, a) /\ a.res = m.res /\ a.val = m.val /\ a.cnt = v /\ a.cur = m.cur /\ a.stop = m.stop
  BY DEF Loose, State, SetCnt, Keeps
<1>3. a.disk = m.disk /\ a.win = m.win /\ a.winsect = m.winsect /\ a.wflag = m.wflag /\ a.left = m.left
      /\ a.failed = m.failed
  BY DEF Loose, State, SetCnt
<1> HIDE DEF a
<1>4. a \in Loose(g)
  <2>1. m.type # "none"
    BY DEF Loose
  <2> QED BY <1>1, <1>2, <1>3, <2>1 DEF Loose, Mount, Quiet, Keeps
<1> QED BY <1>2, <1>3, <1>4 DEF a

LEMMA LooseStop ==
  ASSUME NEW g \in Cards, NEW m \in Loose(g), NEW b \in BOOLEAN
  PROVE  LET a == SetStop(m, b) IN
         a \in Loose(g) /\ Keeps(m, a) /\ a.res = m.res /\ a.val = m.val /\ a.disk = m.disk
         /\ a.win = m.win /\ a.winsect = m.winsect /\ a.cnt = m.cnt /\ a.cur = m.cur /\ a.stop = b
<1> DEFINE a == SetStop(m, b)
<1>1. a \in State
  BY DEF Loose, State, SetStop
<1>2. Keeps(m, a) /\ a.res = m.res /\ a.val = m.val /\ a.cnt = m.cnt /\ a.cur = m.cur /\ a.stop = b
  BY DEF Loose, State, SetStop, Keeps
<1>3. a.disk = m.disk /\ a.win = m.win /\ a.winsect = m.winsect /\ a.wflag = m.wflag /\ a.left = m.left
      /\ a.failed = m.failed
  BY DEF Loose, State, SetStop
<1> HIDE DEF a
<1>4. a \in Loose(g)
  <2>1. m.type # "none"
    BY DEF Loose
  <2> QED BY <1>1, <1>2, <1>3, <2>1 DEF Loose, Mount, Quiet, Keeps
<1> QED BY <1>2, <1>3, <1>4 DEF a

SetFlag(m, b) == [m EXCEPT !.wflag = b]
LEMMA FlagOk ==
  ASSUME NEW g \in Cards, ~g.still, NEW m \in Loose(g), m.winsect \in Sectors, RootBase(g) <= m.winsect,
         m.win.kind # "fat"
  PROVE  LET a == SetFlag(m, TRUE) IN
         a \in Live(g) /\ Beside(m, a) /\ a.res = m.res /\ a.val = m.val /\ a.disk = m.disk
         /\ a.win = m.win /\ a.winsect = m.winsect /\ a.wflag
<1> DEFINE a == SetFlag(m, TRUE)
<1>1. a \in State
  BY DEF Loose, State, SetFlag
<1>2. Beside(m, a) /\ a.res = m.res /\ a.val = m.val
  BY DEF Loose, State, SetFlag, Beside, Keeps
<1>3. a.disk = m.disk /\ a.win = m.win /\ a.winsect = m.winsect /\ a.wflag /\ a.left = m.left
      /\ a.failed = m.failed
  BY DEF Loose, State, SetFlag
<1> HIDE DEF a
<1>4. ~Copy(g, m.winsect) /\ ~InFat(g, m.winsect) /\ FatBase(g) <= m.winsect
  <2>1. m.winsect \in Int /\ m.winsect <= LastSector
    BY Regions DEF Sectors
  <2> QED BY <2>1, DataSectors
<1>5. a \in Live(g)
  <2>1. m.type # "none" /\ DiskOk(m.disk, g) /\ Mount(m, g) /\ Quiet(m, g)
                           /\ DirOk(m.dj, g) /\ FileOk(m.f, g)
    BY DEF Loose
  <2>2. WindowOk(a, g)
    BY <1>3, <1>4 DEF WindowOk
  <2>3. Mount(a, g) /\ Quiet(a, g) /\ Seen(a, g)
    BY <1>2, <1>3, <2>1 DEF Mount, Quiet, Seen, Beside, Keeps
  <2> QED BY <1>1, <1>2, <1>3, <2>1, <2>2, <2>3 DEF Live, Work, Card, Beside, Keeps
<1> QED BY <1>2, <1>3, <1>5 DEF a

LEMMA ZeroIs == ZeroDir \in Content /\ ZeroDir.kind = "dir"
BY DEF ZeroDir, DirSector, Blank, Content, DirContent, Entry, Spellings, Attrs

Clearing(y, base) ==
  /\ y.win = ZeroDir /\ y.cnt \in 0..CSize /\ y.winsect = base + y.cnt
  /\ y.cnt > 0 => y.disk[base] = ZeroDir
LEMMA ClearTurn ==
  ASSUME NEW g \in Cards, ~g.still, NEW y \in Loose(g), ~y.stop, NEW base \in Int,
         \A k \in 0..CSize-1 : InData(g, base + k), Clearing(y, base)
  PROVE  LET a == ClearSector(y) IN
         /\ Keeps(y, a)
         /\ a.stop => a \in Live(g)
         /\ ~a.stop => a \in Loose(g) /\ Clearing(a, base) /\ a.cnt = y.cnt + 1
<1>0. CSize \in Nat \ {0}
  BY GeometryAssumption
<1>1. CASE y.cnt = CSize
  <2> DEFINE s == y.winsect - CSize
             b == SetWin(y, y.win, s)
             a == Stop(b, "OK")
  <2>1. ClearSector(y) = a
    <3>1. b = [y EXCEPT !.winsect = @ - CSize]
      BY DEF SetWin, Loose, State
    <3> QED BY <1>1, <3>1 DEF ClearSector
  <2>2. s = base /\ y.win = ZeroDir /\ y.disk[base] = ZeroDir
    BY <1>0, <1>1 DEF Clearing
  <2>3. InData(g, base)
    <3>1. 0 \in 0..CSize-1 /\ base + 0 = base
      BY <1>0
    <3> QED BY <3>1
  <2>4. base \in Sectors /\ ~Copy(g, base)
    BY <2>3, InDataIs
  <2> HIDE DEF s
  <2>5. b \in Loose(g) /\ Beside(y, b) /\ b.disk = y.disk /\ b.win = ZeroDir /\ b.winsect = base
    BY <2>2, ZeroIs, WinOk
  <2> HIDE DEF b
  <2>6. b \in Live(g)
    BY <2>2, <2>4, <2>5, Fastened
  <2>7. a \in Work(g) /\ Keeps(b, a) /\ a.stop
    BY <2>6, Stopped DEF Live, Results
  <2> HIDE DEF a
  <2> QED BY <2>1, <2>5, <2>6, <2>7 DEF Live, Beside, Keeps
<1>2. CASE y.cnt # CSize
  <2> DEFINE f == SetFlag(y, TRUE)
             w == sync_window(f)
             b == SetWin(w, w.win, w.winsect + 1)
             d == SetCnt(b, b.cnt + 1)
             e == Stop(w, w.res)
  <2>1. ClearSector(y) = IF w.res = "OK" THEN [w EXCEPT !.winsect = @ + 1, !.cnt = @ + 1] ELSE e
    BY <1>2 DEF ClearSector, Carry, SetFlag
  <2>2. y.cnt \in 0..CSize-1 /\ y.winsect = base + y.cnt /\ y.win = ZeroDir
    BY <1>0, <1>2 DEF Clearing
  <2>3. InData(g, y.winsect) /\ y.winsect \in Int
    BY <2>2
  <2>4. y.winsect \in Sectors /\ RootBase(g) <= y.winsect
    BY <2>3, InDataIs
  <2>5. f \in Live(g) /\ Beside(y, f) /\ f.disk = y.disk /\ f.win = ZeroDir /\ f.winsect = y.winsect /\ f.wflag
    BY <2>2, <2>4, ZeroIs, FlagOk
  <2> HIDE DEF f
  <2>6. /\ w \in Live(g) /\ Beside(f, w) /\ w.win = f.win /\ w.winsect = f.winsect
        /\ w.res \in {"OK", "DISK_ERR"} /\ (w.res = "OK" => ~w.wflag)
    <3>1. f \in Work(g) /\ f.type # "none"
      BY <2>5 DEF Live
    <3>2. /\ w \in Work(g) /\ Beside(f, w) /\ w.win = f.win /\ w.winsect = f.winsect
          /\ w.res \in {"OK", "DISK_ERR"} /\ (w.res = "OK" => ~w.wflag)
      BY <3>1, SyncWindow
    <3> HIDE DEF w
    <3> QED BY <3>1, <3>2 DEF Live, Beside, Keeps
  <2>7. ASSUME y.cnt > 0 PROVE w.disk[base] = ZeroDir
    <3>1. y.disk[base] = ZeroDir /\ base # y.winsect
      BY <2>2, <2>7 DEF Clearing
    <3>2. base \in Sectors /\ RootBase(g) <= base
      <4>1. 0 \in 0..CSize-1 /\ base + 0 = base
        BY <1>0
      <4>2. InData(g, base)
        BY <4>1
      <4> QED BY <4>2, InDataIs
    <3> QED BY <2>5, <3>1, <3>2, SyncElsewhere
  <2> HIDE DEF w
  <2>8. CASE w.res # "OK"
    <3>1. e \in Work(g) /\ Keeps(w, e) /\ e.stop
      BY <2>6, Stopped DEF Live, Results
    <3> HIDE DEF e
    <3> QED BY <2>1, <2>5, <2>6, <2>8, <3>1 DEF Live, Beside, Keeps
  <2>9. CASE w.res = "OK"
    <3>1. w \in Loose(g) /\ w.winsect + 1 \in Int /\ w.win \in Content
      BY <2>2, <2>3, <2>5, <2>6, <2>9, Loosened, ZeroIs
    <3>2. b \in Loose(g) /\ Beside(w, b) /\ b.disk = w.disk /\ b.win = w.win /\ b.winsect = w.winsect + 1
      BY <3>1, WinOk
    <3>3. d = [w EXCEPT !.winsect = @ + 1, !.cnt = @ + 1]
      BY <3>1 DEF b, SetWin, SetCnt, Loose, State
    <3> HIDE DEF b
    <3>4. b.cnt + 1 \in Int
      <4>1. b.cnt = y.cnt
        BY <2>5, <2>6, <3>2 DEF Beside
      <4> QED BY <2>2, <4>1
    <3>5. d \in Loose(g) /\ Keeps(b, d) /\ d.disk = b.disk /\ d.win = b.win /\ d.winsect = b.winsect
          /\ d.cnt = b.cnt + 1 /\ d.stop = b.stop
      BY <3>2, <3>4, LooseCnt
    <3> HIDE DEF d
    <3>6. d.cnt = y.cnt + 1 /\ ~d.stop /\ Keeps(y, d)
      BY <2>5, <2>6, <3>2, <3>5 DEF Beside, Keeps
    <3>7. w.disk[base] = ZeroDir
      <4>1. CASE y.cnt > 0
        BY <2>7, <4>1
      <4>2. CASE ~(y.cnt > 0)
        <5>1. y.winsect = base
          BY <2>2, <4>2
        <5>2. FatBase(g) <= base
          BY <2>3, <5>1, InDataIs
        <5> QED BY <2>5, <2>6, <2>9, <5>1, <5>2 DEF Live, Work, Card, WindowOk
      <4> QED BY <4>1, <4>2
    <3>8. Clearing(d, base)
      BY <2>2, <2>5, <2>6, <3>2, <3>5, <3>6, <3>7, <1>0 DEF Clearing
    <3> QED BY <2>1, <2>9, <3>3, <3>5, <3>6, <3>8
  <2> QED BY <2>8, <2>9
<1> QED BY <1>1, <1>2

LEMMA ClearLoop ==
  ASSUME NEW g \in Cards, ~g.still, NEW m \in Live(g), ~m.wflag, NEW base \in Int,
         \A k \in 0..CSize-1 : InData(g, base + k)
  PROVE  LET a == Loop([m EXCEPT !.win = ZeroDir, !.winsect = base, !.cnt = 0], ClearSector, Turns) IN
         a \in Live(g) /\ Keeps(m, a) /\ ~a.stop
<1> DEFINE M == {y \in State : /\ Keeps(m, y)
                               /\ IF y.stop THEN y \in Live(g) ELSE y \in Loose(g) /\ Clearing(y, base)}
           G == [i \in 0..Turns |-> {y \in M : ~y.stop => y.cnt = i}]
           p == SetWin(m, ZeroDir, base)
           x == SetCnt(p, 0)
           x0 == SetStop(x, FALSE)
<1>20. Turns \in Nat
  BY SizeOfFat
<1>1. x0 \in M /\ x0.cnt = 0
  <2>1. p \in Loose(g) /\ Beside(m, p) /\ p.win = ZeroDir /\ p.winsect = base
    BY Loosened, ZeroIs, WinOk
  <2> HIDE DEF p
  <2>2. x \in Loose(g) /\ Keeps(p, x) /\ x.win = p.win /\ x.winsect = p.winsect /\ x.cnt = 0
    BY <2>1, LooseCnt
  <2> HIDE DEF x
  <2>3. x0 \in Loose(g) /\ Keeps(x, x0) /\ x0.win = x.win /\ x0.winsect = x.winsect /\ x0.cnt = x.cnt /\ ~x0.stop
    BY <2>2, LooseStop
  <2> HIDE DEF x0
  <2>4. x0 \in State
    BY <2>3 DEF Loose
  <2>5. Clearing(x0, base)
    BY <2>1, <2>2, <2>3, GeometryAssumption DEF Clearing
  <2> QED BY <2>1, <2>2, <2>3, <2>4, <2>5 DEF Beside, Keeps
<1> HIDE DEF x0
<1>10. x0 \in M
  BY <1>1
<1>2. \A y \in M : ~y.stop => ClearSector(y) \in M /\ (~ClearSector(y).stop => ClearSector(y).cnt = y.cnt + 1)
  <2>1. TAKE y \in M
  <2>2. SUFFICES ASSUME ~y.stop
                 PROVE  ClearSector(y) \in M /\ (~ClearSector(y).stop => ClearSector(y).cnt = y.cnt + 1)
    OBVIOUS
  <2> DEFINE z == ClearSector(y)
  <2>3. y \in Loose(g) /\ Clearing(y, base) /\ Keeps(m, y)
    BY <2>2
  <2>4. /\ Keeps(y, z) /\ (z.stop => z \in Live(g))
        /\ ~z.stop => z \in Loose(g) /\ Clearing(z, base) /\ z.cnt = y.cnt + 1
    BY <2>2, <2>3, ClearTurn
  <2> HIDE DEF z
  <2>5. z \in State
    BY <2>4 DEF Live, Work, Loose
  <2>6. Keeps(m, z)
    BY <2>3, <2>4 DEF Keeps
  <2> QED BY <2>4, <2>5, <2>6 DEF z
<1>11. \A y \in M : (IF y.stop THEN y ELSE ClearSector(y)) \in M
  BY <1>2
<1>12. x0 \in G[0]
  BY <1>1, <1>20
<1>13. \A i \in 1..Turns : \A y \in G[i-1] : (IF y.stop THEN y ELSE ClearSector(y)) \in G[i]
  <2>1. SUFFICES ASSUME NEW i \in 1..Turns, NEW y \in M, ~y.stop, y.cnt = i - 1, ~ClearSector(y).stop
                 PROVE  ClearSector(y).cnt = i
    BY <1>11, <1>20
  <2>2. ClearSector(y).cnt = y.cnt + 1
    BY <1>2, <2>1
  <2> QED BY <1>20, <2>1, <2>2
<1> HIDE DEF x0
<1> DEFINE step == [y \in M |-> IF y.stop THEN y ELSE ClearSector(y)]
           t == CHOOSE f : f = [i \in 0..Turns |-> IF i = 0 THEN x0 ELSE IF f[i-1].stop THEN f[i-1] ELSE ClearSector(f[i-1])]
<1> HIDE DEF M
<1>21. step \in [M -> M]
  BY <1>11
<1>22. PICK f : IsRun(f, M, x0, Turns, step)
  <2> HIDE DEF step
  <2> QED BY <1>10, <1>20, <1>21, Repeated
<1>23. f = [i \in 0..Turns |-> IF i = 0 THEN x0 ELSE IF f[i-1].stop THEN f[i-1] ELSE ClearSector(f[i-1])]
  <2>1. ASSUME NEW i \in 0..Turns, i # 0
        PROVE  step[f[i-1]] = IF f[i-1].stop THEN f[i-1] ELSE ClearSector(f[i-1])
    <3>1. i - 1 \in 0..Turns
      BY <1>20, <2>1
    <3>2. f[i-1] \in M
      BY <1>22, <3>1 DEF IsRun
    <3> QED BY <3>2
  <2> HIDE DEF step
  <2> QED BY <1>22, <2>1 DEF IsRun
<1>24. t = [i \in 0..Turns |-> IF i = 0 THEN x0 ELSE IF t[i-1].stop THEN t[i-1] ELSE ClearSector(t[i-1])]
  BY <1>23
<1> HIDE DEF t, step
<1> HIDE DEF G
<1>25. t[Turns] \in G[Turns]
  <2>1. t[0] \in G[0]
    BY <1>12, <1>20, <1>24
  <2>2. ASSUME NEW i \in 1..Turns, t[i-1] \in G[i-1] PROVE t[i] \in G[i]
    <3>1. t[i] = IF t[i-1].stop THEN t[i-1] ELSE ClearSector(t[i-1])
      BY <1>20, <1>24
    <3> DEFINE y == t[i-1]
    <3>2. y \in G[i-1] /\ t[i] = IF y.stop THEN y ELSE ClearSector(y)
      BY <2>2, <3>1
    <3> HIDE DEF y
    <3> QED BY <1>13, <3>2
  <2> QED BY <1>20, <2>1, <2>2, Always
<1> DEFINE e == t[Turns]
           f1 == Ended(e)
<1>3. e \in M /\ e.stop
  <2>1. e \in M /\ (~e.stop => e.cnt = Turns)
    BY <1>20, <1>25 DEF G
  <2>2. ~e.stop => e.cnt \in 0..CSize
    BY <2>1 DEF M, Clearing
  <2> HIDE DEF e
  <2> QED BY <1>20, <2>1, <2>2, ManyTurns, GeometryAssumption
<1> HIDE DEF e
<1>4. f1 \in Live(g) /\ Keeps(m, f1) /\ ~f1.stop
  <2>1. e \in Work(g) /\ e.type # "none" /\ Keeps(m, e)
    BY <1>3 DEF M, Live
  <2>2. f1 \in Work(g) /\ Keeps(e, f1) /\ ~f1.stop
    BY <2>1, EndedOk
  <2> HIDE DEF f1
  <2> QED BY <2>1, <2>2 DEF Keeps, Live
<1>5. Loop([m EXCEPT !.win = ZeroDir, !.winsect = base, !.cnt = 0], ClearSector, Turns) = f1
  BY DEF Loop, Turn, t, f1, e, x0, x, p, SetWin, SetStop, SetCnt
<1> HIDE DEF f1
<1> QED BY <1>4, <1>5

LEMMA ClearedOk ==
  ASSUME NEW g \in Cards, ~g.still, NEW m \in Live(g), NEW c \in Int, InRange(c)
  PROVE  LET a == Cleared(m, c) IN
         a \in Live(g) /\ Keeps(m, a) /\ (a.res = "OK" => a.val = c) /\ (a.stop => m.stop)
<1> DEFINE w == sync_window(m)
           base == clust2sect(w, c)
           l == Loop([w EXCEPT !.win = ZeroDir, !.winsect = base, !.cnt = 0], ClearSector, Turns)
           v == SetVal(l, c)
<1>1. m \in Work(g) /\ m.type # "none" /\ m.type = g.type /\ m.bsect = g.bsect /\ m.n_fats = g.n_fats
  BY DEF Live, Work, Card, Mount
<1>2. w \in Live(g) /\ Beside(m, w) /\ (w.res = "OK" => ~w.wflag)
  <2>1. w \in Work(g) /\ Beside(m, w) /\ (w.res = "OK" => ~w.wflag)
    BY <1>1, SyncWindow
  <2> HIDE DEF w
  <2> QED BY <1>1, <2>1 DEF Live, Beside, Keeps
<1>3. Cleared(m, c) = IF w.res = "OK" THEN v ELSE w
  BY DEF Cleared, Then, SetVal
<1> HIDE DEF w
<1>4. base = clust2sect(g, c) /\ base \in Int /\ \A k \in 0..CSize-1 : InData(g, base + k)
  <2>1. base = clust2sect(g, c)
    BY <1>1, <1>2, SameRegions DEF Beside, Keeps
  <2>2. 0 \in 0..CSize-1
    BY GeometryAssumption
  <2>3. InData(g, clust2sect(g, c) + 0) /\ clust2sect(g, c) + 0 \in Int
    BY <2>2, ClusterSectors
  <2>4. clust2sect(g, c) \in Int
    <3>1. DataBase(g) \in Int /\ c - 2 \in Int /\ CSize \in Nat \ {0}
      BY Regions, GeometryAssumption
    <3>2. (c - 2) * CSize \in Int
      BY <3>1, Times
    <3> QED BY <3>1, <3>2 DEF clust2sect
  <2> QED BY <2>1, <2>4, ClusterSectors
<1> HIDE DEF base
<1>5. CASE w.res # "OK"
  BY <1>2, <1>3, <1>5 DEF Beside
<1>6. CASE w.res = "OK"
  <2>1. l \in Live(g) /\ Keeps(w, l) /\ ~l.stop
    BY <1>2, <1>4, <1>6, ClearLoop
  <2> HIDE DEF l
  <2>2. v \in Work(g) /\ Beside(l, v) /\ v.val = c
    BY <2>1, ValOk DEF Live
  <2> HIDE DEF v
  <2> QED BY <1>2, <1>3, <1>6, <2>1, <2>2 DEF Live, Beside, Keeps
<1> QED BY <1>5, <1>6

-----------------------------------------------------------------------------
(* The next entry of a table, which may grow.                              *)

LEMMA LiveFail ==
  ASSUME NEW g \in Cards, NEW m \in Live(g), NEW r \in Results
  PROVE  LET a == Fail(m, r) IN
         a \in Live(g) /\ Beside(m, a) /\ Keeps(m, a) /\ Aside(m, a) /\ a.dj = m.dj /\ a.res = r /\ a.val = m.val
         /\ a.winsect = m.winsect /\ a.win = m.win
<1> DEFINE a == Fail(m, r)
<1>1. a \in Work(g) /\ Beside(m, a) /\ a.res = r /\ a.val = m.val /\ SameCard(m, a)
  BY FailOk DEF Live
<1> HIDE DEF a
<1>2. Keeps(m, a)
  BY <1>1 DEF Beside
<1>3. a \in Live(g)
  BY <1>1, <1>2 DEF Live, Keeps
<1> QED BY <1>1, <1>2, <1>3, Nearby DEF a, Keeps, SameCard

LEMMA StretchOk ==
  ASSUME NEW g \in Cards, ~g.still, NEW m \in Live(g)
  PROVE  LET a == Stretch(m) IN a \in Live(g) /\ Keeps(m, a) /\ (a.res = "OK" => InRange(a.val)) /\ (a.stop => m.stop)
<1> DEFINE b == create_chain(m, m.dj.clust)
           r == IF b.val = 0 THEN "DENIED" ELSE LinkError(b)
           f == Fail(b, r)
           d == Cleared(b, b.val)
<1>1. Stretch(m) = IF b.val \in {0, 1, DERR} THEN f ELSE d
  BY DEF Stretch, After
<1>2. b \in Live(g) /\ Keeps(m, b) /\ Allotted(b.val) /\ b.val \in Nat /\ (b.stop => m.stop)
  <2>1. m.dj.clust \in Int
    BY DEF Live, Work, State, DirObjects
  <2> QED BY <2>1, CreateChain
<1> HIDE DEF b
<1>3. CASE b.val \in {0, 1, DERR}
  <2>1. r \in Results /\ r # "OK"
    BY <1>3 DEF LinkError, Results
  <2> HIDE DEF r
  <2>2. f \in Live(g) /\ Keeps(b, f) /\ f.res = r /\ f.stop = b.stop
    BY <1>2, <2>1, LiveFail DEF Beside
  <2> HIDE DEF f
  <2> QED BY <1>1, <1>2, <1>3, <2>1, <2>2 DEF Keeps
<1>4. CASE b.val \notin {0, 1, DERR}
  <2>1. InRange(b.val)
    BY <1>2, <1>4 DEF Allotted
  <2>2. d \in Live(g) /\ Keeps(b, d) /\ (d.res = "OK" => d.val = b.val) /\ (d.stop => b.stop)
    BY <1>2, <2>1, ClearedOk
  <2> HIDE DEF d
  <2> QED BY <1>1, <1>2, <1>4, <2>1, <2>2 DEF Keeps
<1> QED BY <1>3, <1>4

LEMMA NextClusterOk ==
  ASSUME NEW g \in Cards, NEW stretch \in BOOLEAN, stretch => ~g.still, NEW m \in Live(g),
         NEW i \in Nat, (i \div DirPer) % CSize = 0
  PROVE  LET a == NextCluster(m, i, stretch) IN
         a \in Live(g) /\ Aside(m, a) /\ (a.dj.sect # 0 \/ a.dj.sect = m.dj.sect)
         /\ (a.res = "OK" => a.dj.dir # Self) /\ (a.stop => m.stop)
<1> DEFINE b == get_fat(m, m.dj.clust)
           f1 == Fail(b, "INT_ERR")
           f2 == Fail(b, "DISK_ERR")
           f3 == Fail(b, "NO_FILE")
           d == IF b.val < NFatEnt THEN b ELSE Stretch(b)
           s == clust2sect(d, d.val)
           h == Seek(d, d.val, i, s)
           z == NextCluster(m, i, stretch)
<1>1. z = IF b.val <= 1 THEN f1 ELSE IF b.val = DERR THEN f2
          ELSE IF b.val >= NFatEnt /\ ~stretch THEN f3
          ELSE IF d.res = "OK" THEN h ELSE d
  BY DEF NextCluster, After, Then
<1>2. b \in Live(g) /\ Keeps(m, b) /\ b.val \in Nat
      /\ (b.val # 1 => b.res = "OK") /\ b.stop = m.stop
  <2>0. m \in Work(g) /\ m.type # "none" /\ m.dj.clust \in Int
    BY DEF Live, Work, State, DirObjects
  <2>1. b \in Work(g) /\ Beside(m, b) /\ b.val \in Nat /\ (b.val # 1 => b.res = "OK")
    BY <2>0, GetFat
  <2> HIDE DEF b
  <2> QED BY <2>0, <2>1 DEF Live, Beside, Keeps
<1> HIDE DEF b, z
<1>3. \A r \in Results : LET a == Fail(b, r) IN
        a \in Live(g) /\ Aside(b, a) /\ a.dj = b.dj /\ a.res = r /\ a.stop = b.stop
  BY <1>2, LiveFail DEF Beside
<1>4. /\ f1 \in Live(g) /\ Aside(b, f1) /\ f1.dj = b.dj /\ f1.res = "INT_ERR" /\ f1.stop = b.stop
      /\ f2 \in Live(g) /\ Aside(b, f2) /\ f2.dj = b.dj /\ f2.res = "DISK_ERR" /\ f2.stop = b.stop
      /\ f3 \in Live(g) /\ Aside(b, f3) /\ f3.dj = b.dj /\ f3.res = "NO_FILE" /\ f3.stop = b.stop
  BY <1>3 DEF Results
<1>5. Aside(m, b) /\ b.dj = m.dj
  BY <1>2, Nearby DEF Keeps
<1> HIDE DEF f1, f2, f3
<1>6. CASE b.val <= 1 \/ b.val = DERR \/ (b.val >= NFatEnt /\ ~stretch)
  <2>1. z = f1 \/ z = f2 \/ z = f3
    BY <1>1, <1>6
  <2> QED BY <1>2, <1>4, <1>5, <2>1 DEF Aside, z
<1>7. CASE ~(b.val <= 1 \/ b.val = DERR \/ (b.val >= NFatEnt /\ ~stretch))
  <2>1. z = IF d.res = "OK" THEN h ELSE d
    BY <1>1, <1>7
  <2>2. d \in Live(g) /\ Keeps(b, d) /\ (d.res = "OK" => InRange(d.val))
      /\ (d.stop => b.stop)
    <3>1. CASE b.val < NFatEnt
      BY <1>2, <1>7, <3>1, GeometryAssumption DEF InRange, Keeps
    <3>2. CASE ~(b.val < NFatEnt)
      <4>1. ~g.still
        BY <1>2, <1>7, <3>2, GeometryAssumption
      <4> QED BY <1>2, <3>2, <4>1, StretchOk
    <3> QED BY <3>1, <3>2
  <2> HIDE DEF d
  <2>3. Aside(m, d) /\ d.dj = m.dj
    BY <1>5, <2>2, Nearby DEF Aside, Keeps
  <2>4. CASE d.res # "OK"
    BY <1>2, <2>1, <2>2, <2>3, <2>4 DEF z
  <2>5. CASE d.res = "OK"
    <3>1. d.val \in Int /\ d.type = g.type /\ d.bsect = g.bsect /\ d.n_fats = g.n_fats
      BY <2>2 DEF Live, Work, Card, Mount, State
    <3>2. s = clust2sect(g, d.val) /\ InRange(d.val)
      BY <2>2, <2>5, <3>1, SameRegions
    <3>3. s \in Int /\ s # 0
      <4>1. 0 \in 0..CSize-1
        BY GeometryAssumption
      <4>2. clust2sect(g, d.val) # 0
        BY <3>1, <3>2, <4>1, ClusterSectors
      <4>3. clust2sect(g, d.val) \in Int
        <5>1. DataBase(g) \in Int /\ d.val - 2 \in Int /\ CSize \in Nat \ {0}
          BY <3>1, Regions, GeometryAssumption
        <5>2. (d.val - 2) * CSize \in Int
          BY <5>1, Times
        <5> QED BY <5>1, <5>2 DEF clust2sect
      <4> QED BY <3>2, <4>2, <4>3
    <3>4. DirAt(g, d.val, i, s)
      <4> HIDE DEF s
      <4> QED BY <3>2, <3>3 DEF DirAt
    <3> HIDE DEF s
    <3>5. h \in Live(g) /\ Aside(d, h) /\ h.res = "OK" /\ h.dj.sect = s /\ h.dj.dir # Self /\ h.stop = d.stop
      BY <2>2, <3>1, <3>3, <3>4, SeekOk
    <3> HIDE DEF h
    <3> QED BY <1>2, <2>1, <2>2, <2>3, <2>5, <3>3, <3>5 DEF Aside, z
  <2> QED BY <2>4, <2>5
<1> QED BY <1>6, <1>7

LEMMA DirNext ==
  ASSUME NEW g \in Cards, NEW stretch \in BOOLEAN, stretch => ~g.still, NEW m \in Live(g)
  PROVE  LET a == dir_next(m, stretch) IN
         a \in Live(g) /\ Aside(m, a) /\ (m.dj.sect # 0 => a.dj.sect # 0)
         /\ (a.res = "OK" => m.dj.sect # 0 /\ a.dj.dir # Self)
         /\ (a.stop => m.stop)
<1> DEFINE j == m.dj
           i == j.index + 1
           s == j.sect + 1
           k == j.index \div DirPer
           l == i \div DirPer
           f == Fail(m, "NO_FILE")
           z == dir_next(m, stretch)
<1>1. z = IF j.sect = 0 THEN f
          ELSE IF i % DirPer # 0 THEN Seek(m, j.clust, i, j.sect)
          ELSE IF j.clust = 0 THEN IF i >= NRoot THEN f ELSE Seek(m, 0, i, s)
          ELSE IF l % CSize # 0 THEN Seek(m, j.clust, i, s)
          ELSE NextCluster(m, i, stretch)
  BY DEF dir_next
<1>2. j \in DirObjects /\ DirOk(j, g)
  BY DEF Live, Work, State
<1> HIDE DEF z, j
<1>3. j.index \in Nat /\ j.clust \in Int /\ j.sect \in Int /\ DirPer \in Nat \ {0} /\ CSize \in Nat \ {0}
  BY <1>2, GeometryAssumption DEF DirObjects
<1>4. i \in Nat /\ k \in Nat /\ l \in Nat
  <2>1. i \in Nat
    BY <1>3
  <2>2. k \in Nat
    BY <1>3, Divided
  <2> HIDE DEF i
  <2>3. l \in Nat
    BY <1>3, <2>1, Divided
  <2> QED BY <2>1, <2>2, <2>3
<1>5. f \in Live(g) /\ Aside(m, f) /\ f.dj = j /\ f.res = "NO_FILE" /\ f.stop = m.stop
  BY LiveFail DEF Results, Beside, j
<1>6. \A c \in Int, t \in Int : DirAt(g, c, i, t) =>
        LET a == Seek(m, c, i, t) IN
        a \in Live(g) /\ Aside(m, a) /\ a.res = "OK" /\ a.dj.sect = t /\ a.dj.dir # Self /\ a.stop = m.stop
  <2> HIDE DEF i
  <2> QED BY <1>4, SeekOk
<1>7. j.sect # 0 => j.sect \in Sectors /\ RootBase(g) <= j.sect
  BY <1>2, DirSect
<1>8. j.sect # 0 => s # 0
  BY <1>3, <1>7, Regions DEF Sectors
<1> HIDE DEF f
<1>9. CASE j.sect = 0 \/ (i % DirPer = 0 /\ j.clust = 0 /\ i >= NRoot)
  <2>1. z = f
    BY <1>1, <1>9
  <2> QED BY <1>5, <2>1 DEF z, j
<1>10. CASE j.sect # 0 /\ i % DirPer # 0
  <2>1. l = k
    BY <1>3, <1>10, StepOn
  <2>2. DirAt(g, j.clust, i, j.sect)
    <3>1. DirAt(g, j.clust, j.index, j.sect)
      BY <1>2, DirAtIs
    <3> HIDE DEF i
    <3> QED BY <2>1, <3>1 DEF DirAt
  <2>3. z = Seek(m, j.clust, i, j.sect)
    BY <1>1, <1>10
  <2> HIDE DEF i
  <2> QED BY <1>3, <1>6, <1>10, <2>2, <2>3 DEF z, j
<1>11. CASE j.sect # 0 /\ i % DirPer = 0 /\ j.clust = 0 /\ i < NRoot
  <2>1. l = k + 1
    BY <1>3, <1>11, StepOn
  <2>2. l <= NRoot \div DirPer
    <3> HIDE DEF i
    <3> QED BY <1>3, <1>4, <1>11, Quotients, GeometryAssumption
  <2>3. j.sect = RootBase(g) + k
    BY <1>2, <1>11, GeometryAssumption DEF DirOk, InRange
  <2>4. DirAt(g, 0, i, s)
    <3>1. s = RootBase(g) + l
      <4> HIDE DEF k, l
      <4> QED BY <1>3, <1>4, <2>1, <2>3, Regions
    <3> HIDE DEF s, i
    <3> QED BY <2>2, <3>1 DEF DirAt
  <2>5. z = Seek(m, 0, i, s)
    BY <1>1, <1>3, <1>4, <1>11, GeometryAssumption
  <2>6. s \in Int
    BY <1>3
  <2> HIDE DEF i, s
  <2> QED BY <1>6, <1>8, <1>11, <2>4, <2>5, <2>6 DEF z, j
<1>12. CASE j.sect # 0 /\ i % DirPer = 0 /\ j.clust # 0 /\ l % CSize # 0
  <2>1. l = k + 1
    BY <1>3, <1>12, StepOn
  <2>2. l % CSize = (k % CSize) + 1
    <3>0. (k + 1) % CSize # 0
      BY <1>12, <2>1
    <3> HIDE DEF k, l
    <3> QED BY <1>3, <1>4, <2>1, <3>0, StepOn
  <2>3. j.sect = clust2sect(g, j.clust) + (k % CSize) /\ InRange(j.clust)
    BY <1>2, <1>12 DEF DirOk
  <2>4. DirAt(g, j.clust, i, s)
    <3>1. s = clust2sect(g, j.clust) + (l % CSize)
      <4> DEFINE a == k % CSize
                 b == l % CSize
      <4>1. a \in Int /\ clust2sect(g, j.clust) \in Int
        <5>1. a \in Int
          <6> HIDE DEF k
          <6> QED BY <1>3, <1>4, Mod
        <5>2. DataBase(g) \in Int /\ j.clust - 2 \in Int
          BY <1>3, Regions
        <5>3. (j.clust - 2) * CSize \in Int
          BY <1>3, <5>2, Times
        <5> QED BY <5>1, <5>2, <5>3 DEF clust2sect
      <4>2. b = a + 1 /\ j.sect = clust2sect(g, j.clust) + a
        BY <2>2, <2>3
      <4> HIDE DEF a, b
      <4>3. s = clust2sect(g, j.clust) + b
        BY <4>1, <4>2
      <4> QED BY <4>3 DEF b
    <3> HIDE DEF s, i
    <3> QED BY <2>3, <3>1 DEF DirAt
  <2>5. z = Seek(m, j.clust, i, s)
    BY <1>1, <1>12
  <2>6. s \in Int
    BY <1>3
  <2> HIDE DEF i, s
  <2> QED BY <1>3, <1>6, <1>8, <1>12, <2>4, <2>5, <2>6 DEF z, j
<1>13. CASE j.sect # 0 /\ i % DirPer = 0 /\ j.clust # 0 /\ l % CSize = 0
  <2>1. z = NextCluster(m, i, stretch)
    BY <1>1, <1>13
  <2> HIDE DEF i
  <2>2. z \in Live(g) /\ Aside(m, z) /\ (z.dj.sect # 0 \/ z.dj.sect = m.dj.sect)
         /\ (z.res = "OK" => z.dj.dir # Self) /\ (z.stop => m.stop)
    BY <1>4, <1>13, <2>1, NextClusterOk
  <2> QED BY <1>13, <2>2 DEF z, j
<1>14. (i >= NRoot \/ i < NRoot)
  BY <1>4, GeometryAssumption
<1> QED BY <1>9, <1>10, <1>11, <1>12, <1>13, <1>14

-----------------------------------------------------------------------------
(* Walks over a table.                                                     *)

LEMMA LiveStop ==
  ASSUME NEW g \in Cards, NEW m \in Live(g), NEW r \in Results
  PROVE  LET a == Stop(m, r) IN
         a \in Live(g) /\ Keeps(m, a) /\ Aside(m, a) /\ a.dj = m.dj /\ a.res = r /\ a.val = m.val /\ a.stop
         /\ a.winsect = m.winsect /\ a.win = m.win
<1> DEFINE a == Stop(m, r)
<1>1. a \in Work(g) /\ Keeps(m, a) /\ a.res = r /\ a.val = m.val /\ a.stop /\ SameCard(m, a)
  BY Stopped DEF Live
<1> HIDE DEF a
<1>2. a \in Live(g)
  BY <1>1 DEF Live, Keeps
<1> QED BY <1>1, <1>2, Nearby DEF a, Keeps, SameCard

LEMMA LiveWindow ==
  ASSUME NEW g \in Cards, NEW m \in Live(g), NEW s \in Sectors, ~Copy(g, s)
  PROVE  LET a == move_window(m, s) IN
         a \in Live(g) /\ Beside(m, a) /\ Keeps(m, a) /\ a.val = m.val
         /\ a.res \in {"OK", "DISK_ERR"} /\ a.res \in Results
         /\ (IF a.res = "OK" THEN a.winsect = s ELSE a.winsect = m.winsect)
         /\ (s = m.winsect => a.res = "OK" /\ a.win = m.win /\ a.wflag = m.wflag)
<1> DEFINE a == move_window(m, s)
<1>1. m \in Work(g) /\ m.type # "none"
  BY DEF Live
<1>2. a \in Work(g) /\ Beside(m, a) /\ a.val = m.val
         /\ a.res \in {"OK", "DISK_ERR"}
         /\ (a.res = "OK" => a.winsect = s) /\ (a.res # "OK" => a.winsect = m.winsect)
         /\ (s = m.winsect => a.res = "OK" /\ a.win = m.win /\ a.wflag = m.wflag)
  BY <1>1, MoveWindow
<1> HIDE DEF a
<1>3. a \in Live(g) /\ Keeps(m, a)
  BY <1>1, <1>2 DEF Live, Beside, Keeps
<1>4. a.res \in Results
  BY <1>2 DEF Results
<1> QED BY <1>2, <1>3, <1>4 DEF a

(* A walk over a directory table: where it stands, and where it ends.       *)
Walking(m, g) == {y \in Live(g) : /\ Aside(m, y) /\ y.dj.sect # 0 /\ y.dj.dir # Self
                                  /\ y.stop /\ y.res = "OK" => OnEntry(y, g)}
Verdicts == {"", "OK", "NO_FILE"}
Going(d) == d = ""
LEMMA Verdict == \A d \in Verdicts : Going(d) \/ d \in Results
BY DEF Verdicts, Going, Results
Decide(a, d, stretch) == Carry(a, LAMBDA x : Decided(x, d, stretch))
LEMMA WalkStep ==
  ASSUME NEW g \in Cards, NEW stretch \in BOOLEAN, stretch => ~g.still, NEW m, NEW y \in Walking(m, g),
         ~y.stop, NEW d \in Verdicts
  PROVE  Decide(move_window(y, y.dj.sect), d, stretch) \in Walking(m, g)
<1> DEFINE w == move_window(y, y.dj.sect)
           n == dir_next(w, stretch)
           z == Decide(w, d, stretch)
<1>1. z = IF w.res # "OK" THEN Stop(w, w.res)
          ELSE IF ~Going(d) THEN Stop(w, d)
          ELSE IF n.res = "OK" THEN n ELSE Stop(n, n.res)
  BY DEF Decide, Carry, Decided, Going
<1> HIDE DEF z, n
<1>2. y \in Live(g) /\ Aside(m, y) /\ y.dj.sect # 0 /\ y.dj.dir # Self
      /\ y.dj.sect \in Sectors /\ ~Copy(g, y.dj.sect) /\ RootBase(g) <= y.dj.sect
  <2>1. y \in Live(g) /\ Aside(m, y) /\ y.dj.sect # 0 /\ y.dj.dir # Self
    BY DEF Walking
  <2>2. y.dj \in DirObjects /\ DirOk(y.dj, g)
    BY <2>1 DEF Live, Work, State
  <2> QED BY <2>1, <2>2, DirSect
<1>3. w \in Live(g) /\ Keeps(y, w) /\ w.res \in Results /\ (w.res = "OK" => w.winsect = y.dj.sect) /\ ~w.stop
  <2> DEFINE b == move_window(y, y.dj.sect)
  <2>1. b \in Live(g) /\ Keeps(y, b) /\ b.res \in Results /\ (b.res = "OK" => b.winsect = y.dj.sect)
        /\ Beside(y, b)
    BY <1>2, LiveWindow
  <2> HIDE DEF b
  <2>2. b.stop = y.stop
    BY <2>1 DEF Beside
  <2> QED BY <2>1, <2>2 DEF b, w
<1> HIDE DEF w
<1>4. Aside(m, w) /\ w.dj = y.dj
  BY <1>2, <1>3, Nearby DEF Aside, Keeps
<1>5. CASE w.res # "OK"
  <2>1. z = Stop(w, w.res)
    BY <1>1, <1>5
  <2>2. z \in Live(g) /\ Aside(w, z) /\ z.dj = w.dj /\ z.res = w.res
    <3> DEFINE b == Stop(w, w.res)
    <3>1. b \in Live(g) /\ Aside(w, b) /\ b.dj = w.dj /\ b.res = w.res
      BY <1>3, LiveStop
    <3> QED BY <2>1, <3>1
  <2> QED BY <1>2, <1>4, <1>5, <2>2 DEF Walking, Aside, z, w
<1>6. CASE w.res = "OK" /\ ~Going(d)
  <2>1. z = Stop(w, d) /\ d \in Results
    BY <1>1, <1>6, Verdict
  <2>2. z \in Live(g) /\ Aside(w, z) /\ z.dj = w.dj /\ z.winsect = w.winsect
    <3> DEFINE b == Stop(w, d)
    <3>1. b \in Live(g) /\ Aside(w, b) /\ b.dj = w.dj /\ b.winsect = w.winsect
      BY <1>3, <2>1, LiveStop
    <3> QED BY <2>1, <3>1
  <2>3. OnEntry(z, g)
    BY <1>2, <1>3, <1>4, <1>6, <2>2 DEF OnEntry
  <2> QED BY <1>2, <1>4, <2>2, <2>3 DEF Walking, Aside, z, w
<1>7. CASE w.res = "OK" /\ Going(d)
  <2>1. n \in Live(g) /\ Aside(w, n) /\ n.dj.sect # 0 /\ n.dj.dir # Self /\ ~n.stop
    <3>1. n \in Live(g) /\ Aside(w, n) /\ (w.dj.sect # 0 => n.dj.sect # 0) /\ (n.stop => w.stop)
      BY <1>3, DirNext DEF n
    <3> QED BY <1>2, <1>3, <1>4, <3>1 DEF Aside
  <2>2. n.res \in Results
    BY <2>1 DEF Live, Work, State
  <2>3. CASE n.res = "OK"
    <3>1. z = n
      BY <1>1, <1>7, <2>3
    <3> QED BY <1>2, <1>4, <2>1, <3>1 DEF Walking, Aside, z, w
  <2>4. CASE n.res # "OK"
    <3>1. z = Stop(n, n.res)
      BY <1>1, <1>7, <2>4
    <3>2. z \in Live(g) /\ Aside(n, z) /\ z.dj = n.dj /\ z.res = n.res
      <4> DEFINE b == Stop(n, n.res)
      <4>1. b \in Live(g) /\ Aside(n, b) /\ b.dj = n.dj /\ b.res = n.res
        BY <2>1, <2>2, LiveStop
      <4> QED BY <3>1, <4>1
    <3> QED BY <1>2, <1>4, <2>1, <2>4, <3>2 DEF Walking, Aside, z, w
  <2> QED BY <2>3, <2>4
<1> QED BY <1>5, <1>6, <1>7

LEMMA WalkStart ==
  ASSUME NEW g \in Cards, NEW m \in Live(g), m.dj.sect # 0, m.dj.dir # Self
  PROVE  SetStop(m, FALSE) \in Walking(m, g)
<1> DEFINE a == SetStop(m, FALSE)
<1>1. a \in Work(g) /\ Keeps(m, a) /\ ~a.stop
  BY StopOk DEF Live
<1> HIDE DEF a
<1> QED BY <1>1, Nearby DEF Walking, Live, Keeps, a

LEMMA WalkEnd ==
  ASSUME NEW g \in Cards, NEW m, NEW y \in Walking(m, g)
  PROVE  LET a == Ended(y) IN
         a \in Live(g) /\ Aside(m, a) /\ a.dj.sect # 0 /\ a.dj.dir # Self
         /\ (a.res = "OK" => OnEntry(a, g)) /\ ~a.stop
<1> DEFINE a == Ended(y)
<1>1. y \in Work(g) /\ y.type # "none" /\ Aside(m, y) /\ y.dj.sect # 0 /\ y.dj.dir # Self
      /\ (y.stop /\ y.res = "OK" => OnEntry(y, g))
  BY DEF Walking, Live
<1>2. a \in Work(g) /\ Keeps(y, a) /\ SameCard(y, a) /\ ~a.stop /\ a.res = (IF y.stop THEN y.res ELSE "HANG")
  BY <1>1, EndedOk
<1> HIDE DEF a
<1>3. a.res = "OK" => y.stop /\ y.res = "OK"
  BY <1>2
<1>4. a \in Live(g) /\ Aside(m, a) /\ a.dj = y.dj /\ a.winsect = y.winsect
  BY <1>1, <1>2, Nearby DEF Live, Aside, Keeps, SameCard
<1> QED BY <1>1, <1>2, <1>3, <1>4 DEF OnEntry, a

FindTurn(y) == Walk(y, Found, FALSE)
LEMMA Finding ==
  ASSUME NEW g \in Cards, NEW m \in Live(g), m.dj.sect # 0, m.dj.dir # Self
  PROVE  LET a == Loop(m, LAMBDA x : Walk(x, Found, FALSE), Turns) IN
         a \in Live(g) /\ Aside(m, a) /\ a.dj.sect # 0 /\ a.dj.dir # Self
         /\ (a.res = "OK" => OnEntry(a, g)) /\ ~a.stop
<1> DEFINE M == Walking(m, g)
           x0 == SetStop(m, FALSE)
<1>20. Turns \in Nat
  BY SizeOfFat
<1>10. x0 \in M
  BY WalkStart
<1>11. \A y \in M : (IF y.stop THEN y ELSE FindTurn(y)) \in M
  <2>1. TAKE y \in M
  <2>2. SUFFICES ASSUME ~y.stop PROVE FindTurn(y) \in M
    OBVIOUS
  <2> DEFINE a == move_window(y, y.dj.sect)
             d == Found(a)
  <2>3. d \in Verdicts
    BY DEF Found, Verdicts
  <2>4. FindTurn(y) = Decide(a, d, FALSE)
    BY DEF FindTurn, Walk, Carry, Decide
  <2> HIDE DEF d
  <2> QED BY <2>2, <2>3, <2>4, WalkStep
<1> HIDE DEF x0
<1> DEFINE step == [y \in M |-> IF y.stop THEN y ELSE FindTurn(y)]
           t == CHOOSE f : f = [i \in 0..Turns |-> IF i = 0 THEN x0 ELSE IF f[i-1].stop THEN f[i-1] ELSE FindTurn(f[i-1])]
<1> HIDE DEF M
<1>21. step \in [M -> M]
  BY <1>11
<1>22. PICK f : IsRun(f, M, x0, Turns, step)
  <2> HIDE DEF step
  <2> QED BY <1>10, <1>20, <1>21, Repeated
<1>23. f = [i \in 0..Turns |-> IF i = 0 THEN x0 ELSE IF f[i-1].stop THEN f[i-1] ELSE FindTurn(f[i-1])]
  <2>1. ASSUME NEW i \in 0..Turns, i # 0
        PROVE  step[f[i-1]] = IF f[i-1].stop THEN f[i-1] ELSE FindTurn(f[i-1])
    <3>1. i - 1 \in 0..Turns
      BY <1>20, <2>1
    <3>2. f[i-1] \in M
      BY <1>22, <3>1 DEF IsRun
    <3> QED BY <3>2
  <2> HIDE DEF step
  <2> QED BY <1>22, <2>1 DEF IsRun
<1>24. t = [i \in 0..Turns |-> IF i = 0 THEN x0 ELSE IF t[i-1].stop THEN t[i-1] ELSE FindTurn(t[i-1])]
  BY <1>23
<1> HIDE DEF t, step
<1> DEFINE G == [i \in 0..Turns |-> M]
<1>12. x0 \in G[0]
  BY <1>10, <1>20
<1>13. \A i \in 1..Turns : \A y \in G[i-1] : (IF y.stop THEN y ELSE FindTurn(y)) \in G[i]
  BY <1>11, <1>20
<1> HIDE DEF G
<1>25. t[Turns] \in G[Turns]
  <2>1. t[0] \in G[0]
    BY <1>12, <1>20, <1>24
  <2>2. ASSUME NEW i \in 1..Turns, t[i-1] \in G[i-1] PROVE t[i] \in G[i]
    <3>1. t[i] = IF t[i-1].stop THEN t[i-1] ELSE FindTurn(t[i-1])
      BY <1>20, <1>24
    <3> DEFINE y == t[i-1]
    <3>2. y \in G[i-1] /\ t[i] = IF y.stop THEN y ELSE FindTurn(y)
      BY <2>2, <3>1
    <3> HIDE DEF y
    <3> QED BY <1>13, <3>2
  <2> QED BY <1>20, <2>1, <2>2, Always
<1>26. t[Turns] \in M
  BY <1>20, <1>25 DEF G
<1> DEFINE e == t[Turns]
           f1 == Ended(e)
<1>3. e \in M
  BY <1>26
<1> HIDE DEF e
<1>4. f1 \in Live(g) /\ Aside(m, f1) /\ f1.dj.sect # 0 /\ f1.dj.dir # Self
         /\ (f1.res = "OK" => OnEntry(f1, g)) /\ ~f1.stop
  BY <1>3, WalkEnd DEF M
<1>5. Loop(m, LAMBDA x : Walk(x, Found, FALSE), Turns) = f1
  BY DEF Loop, Turn, FindTurn, t, f1, e, x0, SetStop
<1> HIDE DEF f1
<1> QED BY <1>4, <1>5

-----------------------------------------------------------------------------
(* Entries are found, made and deleted.                                    *)

LEMMA LiveOk ==
  ASSUME NEW g \in Cards, NEW m \in Live(g)
  PROVE  LET a == Ok(m) IN
         a \in Live(g) /\ Beside(m, a) /\ Keeps(m, a) /\ Aside(m, a) /\ a.dj = m.dj /\ a.res = "OK" /\ a.val = m.val
         /\ a.winsect = m.winsect /\ a.win = m.win
<1> DEFINE a == Ok(m)
<1>1. a \in Work(g) /\ Beside(m, a) /\ SameCard(m, a) /\ a.val = m.val /\ a.res = "OK"
  BY OkOk DEF Live
<1> HIDE DEF a
<1>2. a \in Live(g) /\ Keeps(m, a)
  BY <1>1 DEF Live, Beside, Keeps
<1> QED BY <1>1, <1>2, Nearby DEF a, Keeps, SameCard

ListTurn(y, v) == Walk(y, LAMBDA x : Listed(x, v), FALSE)
LEMMA ListTurnOk ==
  ASSUME NEW g \in Cards, NEW m, NEW y \in Walking(m, g), NEW v \in BOOLEAN
  PROVE  (IF y.stop THEN y ELSE ListTurn(y, v)) \in Walking(m, g)
<1> DEFINE w == move_window(y, y.dj.sect)
           d == Listed(w, v)
<1>1. d \in Verdicts
  BY DEF Listed, Verdicts
<1>2. ListTurn(y, v) = Decide(w, d, FALSE)
  BY DEF ListTurn, Walk, Carry, Decide
<1> HIDE DEF d
<1> QED BY <1>1, <1>2, WalkStep

LEMMA Lists ==
  ASSUME NEW g \in Cards, NEW m \in Live(g), m.dj.sect # 0, m.dj.dir # Self, NEW v \in BOOLEAN
  PROVE  LET a == Loop(m, LAMBDA x : Walk(x, LAMBDA y : Listed(y, v), FALSE), Turns) IN
         a \in Live(g) /\ Aside(m, a) /\ a.dj.sect # 0 /\ a.dj.dir # Self
         /\ (a.res = "OK" => OnEntry(a, g)) /\ ~a.stop
<1> DEFINE M == Walking(m, g)
           x0 == SetStop(m, FALSE)
<1>20. Turns \in Nat
  BY SizeOfFat
<1>10. x0 \in M
  BY WalkStart
<1>11. \A y \in M : (IF y.stop THEN y ELSE ListTurn(y, v)) \in M
  BY ListTurnOk
<1> HIDE DEF x0
<1> DEFINE step == [y \in M |-> IF y.stop THEN y ELSE ListTurn(y, v)]
           t == CHOOSE f : f = [i \in 0..Turns |-> IF i = 0 THEN x0 ELSE IF f[i-1].stop THEN f[i-1] ELSE ListTurn(f[i-1], v)]
<1> HIDE DEF M
<1>21. step \in [M -> M]
  BY <1>11
<1>22. PICK f : IsRun(f, M, x0, Turns, step)
  <2> HIDE DEF step
  <2> QED BY <1>10, <1>20, <1>21, Repeated
<1>23. f = [i \in 0..Turns |-> IF i = 0 THEN x0 ELSE IF f[i-1].stop THEN f[i-1] ELSE ListTurn(f[i-1], v)]
  <2>1. ASSUME NEW i \in 0..Turns, i # 0
        PROVE  step[f[i-1]] = IF f[i-1].stop THEN f[i-1] ELSE ListTurn(f[i-1], v)
    <3>1. i - 1 \in 0..Turns
      BY <1>20, <2>1
    <3>2. f[i-1] \in M
      BY <1>22, <3>1 DEF IsRun
    <3> QED BY <3>2
  <2> HIDE DEF step
  <2> QED BY <1>22, <2>1 DEF IsRun
<1>24. t = [i \in 0..Turns |-> IF i = 0 THEN x0 ELSE IF t[i-1].stop THEN t[i-1] ELSE ListTurn(t[i-1], v)]
  BY <1>23
<1> HIDE DEF t, step
<1> DEFINE G == [i \in 0..Turns |-> M]
<1>12. x0 \in G[0]
  BY <1>10, <1>20
<1>13. \A i \in 1..Turns : \A y \in G[i-1] : (IF y.stop THEN y ELSE ListTurn(y, v)) \in G[i]
  BY <1>11, <1>20
<1> HIDE DEF G
<1>25. t[Turns] \in G[Turns]
  <2>1. t[0] \in G[0]
    BY <1>12, <1>20, <1>24
  <2>2. ASSUME NEW i \in 1..Turns, t[i-1] \in G[i-1] PROVE t[i] \in G[i]
    <3>1. t[i] = IF t[i-1].stop THEN t[i-1] ELSE ListTurn(t[i-1], v)
      BY <1>20, <1>24
    <3> DEFINE y == t[i-1]
    <3>2. y \in G[i-1] /\ t[i] = IF y.stop THEN y ELSE ListTurn(y, v)
      BY <2>2, <3>1
    <3> HIDE DEF y
    <3> QED BY <1>13, <3>2
  <2> QED BY <1>20, <2>1, <2>2, Always
<1>26. t[Turns] \in M
  BY <1>20, <1>25 DEF G
<1> DEFINE e == t[Turns]
           f1 == Ended(e)
<1>3. e \in M
  BY <1>26
<1> HIDE DEF e
<1>4. f1 \in Live(g) /\ Aside(m, f1) /\ f1.dj.sect # 0 /\ f1.dj.dir # Self
         /\ (f1.res = "OK" => OnEntry(f1, g)) /\ ~f1.stop
  BY <1>3, WalkEnd DEF M
<1>5. Loop(m, LAMBDA x : Walk(x, LAMBDA y : Listed(y, v), FALSE), Turns) = f1
  BY DEF Loop, Turn, ListTurn, t, f1, e, x0, SetStop
<1> HIDE DEF f1
<1> QED BY <1>4, <1>5

VacantTurn(y) == Walk(y, Vacant, TRUE)
LEMMA Vacates ==
  ASSUME NEW g \in Cards, ~g.still, NEW m \in Live(g), m.dj.sect # 0, m.dj.dir # Self
  PROVE  LET a == Loop(m, LAMBDA x : Walk(x, Vacant, TRUE), Turns) IN
         a \in Live(g) /\ Aside(m, a) /\ a.dj.sect # 0 /\ a.dj.dir # Self
         /\ (a.res = "OK" => OnEntry(a, g)) /\ ~a.stop
<1> DEFINE M == Walking(m, g)
           x0 == SetStop(m, FALSE)
<1>20. Turns \in Nat
  BY SizeOfFat
<1>10. x0 \in M
  BY WalkStart
<1>11. \A y \in M : (IF y.stop THEN y ELSE VacantTurn(y)) \in M
  <2>1. TAKE y \in M
  <2>2. SUFFICES ASSUME ~y.stop PROVE VacantTurn(y) \in M
    OBVIOUS
  <2> DEFINE w == move_window(y, y.dj.sect)
             d == Vacant(w)
  <2>3. d \in Verdicts
    BY DEF Vacant, Verdicts
  <2>4. VacantTurn(y) = Decide(w, d, TRUE)
    BY DEF VacantTurn, Walk, Carry, Decide
  <2> HIDE DEF d
  <2> QED BY <2>2, <2>3, <2>4, WalkStep
<1> HIDE DEF x0
<1> DEFINE step == [y \in M |-> IF y.stop THEN y ELSE VacantTurn(y)]
           t == CHOOSE f : f = [i \in 0..Turns |-> IF i = 0 THEN x0 ELSE IF f[i-1].stop THEN f[i-1] ELSE VacantTurn(f[i-1])]
<1> HIDE DEF M
<1>21. step \in [M -> M]
  BY <1>11
<1>22. PICK f : IsRun(f, M, x0, Turns, step)
  <2> HIDE DEF step
  <2> QED BY <1>10, <1>20, <1>21, Repeated
<1>23. f = [i \in 0..Turns |-> IF i = 0 THEN x0 ELSE IF f[i-1].stop THEN f[i-1] ELSE VacantTurn(f[i-1])]
  <2>1. ASSUME NEW i \in 0..Turns, i # 0
        PROVE  step[f[i-1]] = IF f[i-1].stop THEN f[i-1] ELSE VacantTurn(f[i-1])
    <3>1. i - 1 \in 0..Turns
      BY <1>20, <2>1
    <3>2. f[i-1] \in M
      BY <1>22, <3>1 DEF IsRun
    <3> QED BY <3>2
  <2> HIDE DEF step
  <2> QED BY <1>22, <2>1 DEF IsRun
<1>24. t = [i \in 0..Turns |-> IF i = 0 THEN x0 ELSE IF t[i-1].stop THEN t[i-1] ELSE VacantTurn(t[i-1])]
  BY <1>23
<1> HIDE DEF t, step
<1> DEFINE G == [i \in 0..Turns |-> M]
<1>12. x0 \in G[0]
  BY <1>10, <1>20
<1>13. \A i \in 1..Turns : \A y \in G[i-1] : (IF y.stop THEN y ELSE VacantTurn(y)) \in G[i]
  BY <1>11, <1>20
<1> HIDE DEF G
<1>25. t[Turns] \in G[Turns]
  <2>1. t[0] \in G[0]
    BY <1>12, <1>20, <1>24
  <2>2. ASSUME NEW i \in 1..Turns, t[i-1] \in G[i-1] PROVE t[i] \in G[i]
    <3>1. t[i] = IF t[i-1].stop THEN t[i-1] ELSE VacantTurn(t[i-1])
      BY <1>20, <1>24
    <3> DEFINE y == t[i-1]
    <3>2. y \in G[i-1] /\ t[i] = IF y.stop THEN y ELSE VacantTurn(y)
      BY <2>2, <3>1
    <3> HIDE DEF y
    <3> QED BY <1>13, <3>2
  <2> QED BY <1>20, <2>1, <2>2, Always
<1>26. t[Turns] \in M
  BY <1>20, <1>25 DEF G
<1> DEFINE e == t[Turns]
           f1 == Ended(e)
<1>3. e \in M
  BY <1>26
<1> HIDE DEF e
<1>4. f1 \in Live(g) /\ Aside(m, f1) /\ f1.dj.sect # 0 /\ f1.dj.dir # Self
         /\ (f1.res = "OK" => OnEntry(f1, g)) /\ ~f1.stop
  BY <1>3, WalkEnd DEF M
<1>5. Loop(m, LAMBDA x : Walk(x, Vacant, TRUE), Turns) = f1
  BY DEF Loop, Turn, VacantTurn, t, f1, e, x0, SetStop
<1> HIDE DEF f1
<1> QED BY <1>4, <1>5

ChildTurn(y, c) == Walk(y, LAMBDA x : Child(x, c), FALSE)
LEMMA ChildTurnOk ==
  ASSUME NEW g \in Cards, NEW m, NEW y \in Walking(m, g), NEW c
  PROVE  (IF y.stop THEN y ELSE ChildTurn(y, c)) \in Walking(m, g)
<1> DEFINE w == move_window(y, y.dj.sect)
           d == Child(w, c)
<1>1. d \in Verdicts
  BY DEF Child, Verdicts
<1>2. ChildTurn(y, c) = Decide(w, d, FALSE)
  BY DEF ChildTurn, Walk, Carry, Decide
<1> HIDE DEF d
<1> QED BY <1>1, <1>2, WalkStep

ChildLoop(m, c) == Loop(m, LAMBDA x : Walk(x, LAMBDA y : Child(y, c), FALSE), Turns)
LEMMA FindsChild ==
  ASSUME NEW g \in Cards, NEW m \in Live(g), m.dj.sect # 0, m.dj.dir # Self, NEW c
  PROVE  LET a == ChildLoop(m, c) IN
         a \in Live(g) /\ Aside(m, a) /\ a.dj.sect # 0 /\ a.dj.dir # Self
         /\ (a.res = "OK" => OnEntry(a, g)) /\ ~a.stop
<1> DEFINE M == Walking(m, g)
           x0 == SetStop(m, FALSE)
<1>20. Turns \in Nat
  BY SizeOfFat
<1>10. x0 \in M
  BY WalkStart
<1>11. \A y \in M : (IF y.stop THEN y ELSE ChildTurn(y, c)) \in M
  BY ChildTurnOk
<1> HIDE DEF x0
<1> DEFINE step == [y \in M |-> IF y.stop THEN y ELSE ChildTurn(y, c)]
           t == CHOOSE f : f = [i \in 0..Turns |-> IF i = 0 THEN x0 ELSE IF f[i-1].stop THEN f[i-1] ELSE ChildTurn(f[i-1], c)]
<1> HIDE DEF M
<1>21. step \in [M -> M]
  BY <1>11
<1>22. PICK f : IsRun(f, M, x0, Turns, step)
  <2> HIDE DEF step
  <2> QED BY <1>10, <1>20, <1>21, Repeated
<1>23. f = [i \in 0..Turns |-> IF i = 0 THEN x0 ELSE IF f[i-1].stop THEN f[i-1] ELSE ChildTurn(f[i-1], c)]
  <2>1. ASSUME NEW i \in 0..Turns, i # 0
        PROVE  step[f[i-1]] = IF f[i-1].stop THEN f[i-1] ELSE ChildTurn(f[i-1], c)
    <3>1. i - 1 \in 0..Turns
      BY <1>20, <2>1
    <3>2. f[i-1] \in M
      BY <1>22, <3>1 DEF IsRun
    <3> QED BY <3>2
  <2> HIDE DEF step
  <2> QED BY <1>22, <2>1 DEF IsRun
<1>24. t = [i \in 0..Turns |-> IF i = 0 THEN x0 ELSE IF t[i-1].stop THEN t[i-1] ELSE ChildTurn(t[i-1], c)]
  BY <1>23
<1> HIDE DEF t, step
<1> DEFINE G == [i \in 0..Turns |-> M]
<1>12. x0 \in G[0]
  BY <1>10, <1>20
<1>13. \A i \in 1..Turns : \A y \in G[i-1] : (IF y.stop THEN y ELSE ChildTurn(y, c)) \in G[i]
  BY <1>11, <1>20
<1> HIDE DEF G
<1>25. t[Turns] \in G[Turns]
  <2>1. t[0] \in G[0]
    BY <1>12, <1>20, <1>24
  <2>2. ASSUME NEW i \in 1..Turns, t[i-1] \in G[i-1] PROVE t[i] \in G[i]
    <3>1. t[i] = IF t[i-1].stop THEN t[i-1] ELSE ChildTurn(t[i-1], c)
      BY <1>20, <1>24
    <3> DEFINE y == t[i-1]
    <3>2. y \in G[i-1] /\ t[i] = IF y.stop THEN y ELSE ChildTurn(y, c)
      BY <2>2, <3>1
    <3> HIDE DEF y
    <3> QED BY <1>13, <3>2
  <2> QED BY <1>20, <2>1, <2>2, Always
<1>26. t[Turns] \in M
  BY <1>20, <1>25 DEF G
<1> DEFINE e == t[Turns]
           f1 == Ended(e)
<1>3. e \in M
  BY <1>26
<1> HIDE DEF e
<1>4. f1 \in Live(g) /\ Aside(m, f1) /\ f1.dj.sect # 0 /\ f1.dj.dir # Self
         /\ (f1.res = "OK" => OnEntry(f1, g)) /\ ~f1.stop
  BY <1>3, WalkEnd DEF M
<1>5. ChildLoop(m, c) = f1
  BY DEF ChildLoop, Loop, Turn, ChildTurn, t, f1, e, x0, SetStop
<1> HIDE DEF f1
<1> QED BY <1>4, <1>5

(* The functions on directory tables, on top of the walks.                  *)
Lands(m, a, g) == a \in Live(g) /\ Aside(m, a) /\ (a.res = "OK" => OnEntry(a, g) /\ a.dj.sect # 0)
LEMMA DirFind ==
  ASSUME NEW g \in Cards, NEW m \in Live(g)
  PROVE  Lands(m, dir_find(m), g) /\ (dir_find(m).stop => m.stop)
<1> DEFINE b == dir_sdi(m, 0)
           z == Loop(b, LAMBDA x : Walk(x, Found, FALSE), Turns)
<1>1. dir_find(m) = IF b.res = "OK" THEN z ELSE b
  BY DEF dir_find, Then
<1>2. b \in Live(g) /\ Aside(m, b) /\ (b.res = "OK" => b.dj.sect # 0 /\ b.dj.dir # Self) /\ (b.stop => m.stop)
  BY DirSdi
<1> HIDE DEF b
<1>3. CASE b.res = "OK"
  <2>1. z \in Live(g) /\ Aside(b, z) /\ (z.res = "OK" => OnEntry(z, g)) /\ z.dj.sect # 0 /\ ~z.stop
    BY <1>2, <1>3, Finding
  <2> HIDE DEF z
  <2> QED BY <1>1, <1>2, <1>3, <2>1 DEF Lands, Aside
<1>4. CASE b.res # "OK"
  BY <1>1, <1>2, <1>4 DEF Lands
<1> QED BY <1>3, <1>4

LEMMA SectCleared ==
  ASSUME NEW g \in Cards, NEW m \in Live(g)
  PROVE  LET a == [m EXCEPT !.dj.sect = 0] IN
         a \in Live(g) /\ Aside(m, a) /\ a.res = m.res /\ a.val = m.val
<1> DEFINE j == [m.dj EXCEPT !.sect = 0]
           a == SetDj(m, j)
<1>1. [m EXCEPT !.dj.sect = 0] = a
  BY DEF SetDj
<1>2. m \in Work(g) /\ m.dj \in DirObjects
  BY DEF Live, Work, State
<1>3. j \in DirObjects /\ j.sect = 0 /\ j.fn = m.dj.fn /\ j.sclust = m.dj.sclust /\ j.dir = m.dj.dir
  BY <1>2 DEF DirObjects
<1> HIDE DEF j
<1>4. DirOk(j, g)
  BY <1>3 DEF DirOk
<1>5. /\ a \in Work(g) /\ a.dj = j /\ SameCard(m, a) /\ a.f = m.f /\ a.buf = m.buf
      /\ a.want = m.want /\ a.path = m.path /\ a.cdir = m.cdir /\ a.info = m.info /\ a.id = m.id
      /\ a.res = m.res /\ a.val = m.val
  BY <1>2, <1>3, <1>4, DjOk
<1> HIDE DEF a
<1> QED BY <1>1, <1>3, <1>5 DEF Live, Aside, SameCard

LEMMA DirRead ==
  ASSUME NEW g \in Cards, NEW m \in Live(g), m.dj.dir # Self, NEW v \in BOOLEAN
  PROVE  LET a == dir_read(m, v) IN a \in Live(g) /\ Aside(m, a) /\ (a.res = "OK" => OnEntry(a, g))
<1> DEFINE f == Fail(m, "NO_FILE")
           z == Loop(m, LAMBDA x : Walk(x, LAMBDA y : Listed(y, v), FALSE), Turns)
           b == IF m.dj.sect = 0 THEN f ELSE z
           c == [b EXCEPT !.dj.sect = 0]
<1>1. dir_read(m, v) = IF b.res = "OK" THEN b ELSE c
  BY DEF dir_read, After
<1>2. f \in Live(g) /\ Aside(m, f) /\ f.res = "NO_FILE"
  BY LiveFail DEF Results
<1>3. m.dj.sect # 0 => z \in Live(g) /\ Aside(m, z) /\ (z.res = "OK" => OnEntry(z, g))
  BY Lists
<1> HIDE DEF f, z
<1>4. b \in Live(g) /\ Aside(m, b) /\ (b.res = "OK" => OnEntry(b, g))
  BY <1>2, <1>3
<1> HIDE DEF b
<1>5. c \in Live(g) /\ Aside(b, c) /\ c.res = b.res
  BY <1>4, SectCleared
<1> HIDE DEF c
<1> QED BY <1>1, <1>4, <1>5 DEF Aside

LEMMA DirAlloc ==
  ASSUME NEW g \in Cards, ~g.still, NEW m \in Live(g)
  PROVE  Lands(m, dir_alloc(m), g)
<1> DEFINE b == dir_sdi(m, 0)
           z == Loop(b, LAMBDA x : Walk(x, Vacant, TRUE), Turns)
<1>1. dir_alloc(m) = IF b.res = "OK" THEN z ELSE b
  BY DEF dir_alloc, Then
<1>2. b \in Live(g) /\ Aside(m, b) /\ (b.res = "OK" => b.dj.sect # 0 /\ b.dj.dir # Self)
  BY DirSdi
<1> HIDE DEF b
<1>3. CASE b.res = "OK"
  <2>1. z \in Live(g) /\ Aside(b, z) /\ (z.res = "OK" => OnEntry(z, g)) /\ z.dj.sect # 0
    BY <1>2, <1>3, Vacates
  <2> HIDE DEF z
  <2> QED BY <1>1, <1>2, <1>3, <2>1 DEF Lands, Aside
<1>4. CASE b.res # "OK"
  BY <1>1, <1>2, <1>4 DEF Lands
<1> QED BY <1>3, <1>4

(* The window moves back to the entry, which is written.                    *)
LEMMA EntryWindow ==
  ASSUME NEW g \in Cards, NEW m \in Live(g), m.dj.sect # 0, m.dj.dir # Self
  PROVE  Lands(m, move_window(m, m.dj.sect), g)
<1> DEFINE w == move_window(m, m.dj.sect)
<1>1. m.dj.sect \in Sectors /\ ~Copy(g, m.dj.sect) /\ RootBase(g) <= m.dj.sect
  <2>1. m.dj \in DirObjects /\ DirOk(m.dj, g)
    BY DEF Live, Work, State
  <2> QED BY <2>1, DirSect
<1>2. w \in Live(g) /\ Keeps(m, w) /\ (w.res = "OK" => w.winsect = m.dj.sect)
  BY <1>1, LiveWindow
<1> HIDE DEF w
<1>3. Aside(m, w) /\ w.dj = m.dj
  BY <1>2, Nearby DEF Keeps
<1> QED BY <1>1, <1>2, <1>3 DEF Lands, OnEntry, w

LEMMA Renamed ==
  ASSUME NEW e \in Entry, NEW n \in Spellings
  PROVE  [e EXCEPT !.name = n] \in Entry
BY DEF Entry

LEMMA BlankOk == Blank \in Entry
BY DEF Blank, Entry, Spellings, Attrs

LEMMA DirRegister ==
  ASSUME NEW g \in Cards, ~g.still, NEW m \in Live(g)
  PROVE  LET a == dir_register(m) IN a \in Live(g) /\ Aside(m, a) /\ (a.res = "OK" => OnEntry(a, g))
<1> DEFINE b == dir_alloc(m)
           w == move_window(b, b.dj.sect)
           e == [Blank EXCEPT !.name = w.dj.fn.name]
           p == PutEntry(w, e)
<1>1. dir_register(m) = IF b.res = "OK" THEN IF w.res = "OK" THEN p ELSE w ELSE b
  BY DEF dir_register, Then
<1>2. b \in Live(g) /\ Aside(m, b) /\ (b.res = "OK" => OnEntry(b, g) /\ b.dj.sect # 0)
  BY DirAlloc DEF Lands
<1> HIDE DEF b
<1>3. CASE b.res # "OK"
  BY <1>1, <1>2, <1>3
<1>4. CASE b.res = "OK"
  <2>1. Lands(b, w, g)
    BY <1>2, <1>4, EntryWindow DEF OnEntry
  <2> HIDE DEF w
  <2>2. w \in Live(g) /\ Aside(m, w) /\ (w.res = "OK" => OnEntry(w, g))
    BY <1>2, <2>1 DEF Lands, Aside
  <2>3. CASE w.res # "OK"
    BY <1>1, <1>4, <2>2, <2>3
  <2>4. CASE w.res = "OK"
    <3>1. w.dj.fn.name \in Spellings
      BY <2>2 DEF Live, Work, State, DirObjects
    <3>2. e \in Entry
      BY <3>1, BlankOk, Renamed
    <3> HIDE DEF e
    <3>3. p \in Live(g) /\ Beside(w, p) /\ p.res = w.res /\ OnEntry(p, g)
      BY <2>2, <2>4, <3>2, PutEntryOk
    <3> HIDE DEF p
    <3>4. Aside(w, p)
      BY <3>3, Nearby DEF Beside
    <3> QED BY <1>1, <1>4, <2>2, <2>4, <3>3, <3>4 DEF Aside
  <2> QED BY <2>3, <2>4
<1> QED BY <1>3, <1>4

LEMMA DirRemove ==
  ASSUME NEW g \in Cards, ~g.still, NEW m \in Live(g)
  PROVE  LET a == dir_remove(m) IN a \in Live(g) /\ Aside(m, a)
<1> DEFINE b == dir_sdi(m, m.dj.index)
           w == move_window(b, b.dj.sect)
           e == [EntryAt(w) EXCEPT !.name = "DEL"]
           p == PutEntry(w, e)
<1>1. dir_remove(m) = IF b.res = "OK" THEN IF w.res = "OK" THEN p ELSE w ELSE b
  BY DEF dir_remove, Then
<1>2. b \in Live(g) /\ Aside(m, b) /\ (b.res = "OK" => b.dj.sect # 0 /\ b.dj.dir # Self)
  <2>1. m.dj.index \in Nat
    BY DEF Live, Work, State, DirObjects
  <2> QED BY <2>1, DirSdi
<1> HIDE DEF b
<1>3. CASE b.res # "OK"
  BY <1>1, <1>2, <1>3
<1>4. CASE b.res = "OK"
  <2>1. Lands(b, w, g)
    BY <1>2, <1>4, EntryWindow
  <2> HIDE DEF w
  <2>2. w \in Live(g) /\ Aside(m, w) /\ (w.res = "OK" => OnEntry(w, g))
    BY <1>2, <2>1 DEF Lands, Aside
  <2>3. CASE w.res # "OK"
    BY <1>1, <1>4, <2>2, <2>3
  <2>4. CASE w.res = "OK"
    <3>1. EntryAt(w) \in Entry /\ "DEL" \in Spellings
      <4>1. w \in Work(g) /\ w.dj.dir # Self
        BY <2>2, <2>4 DEF Live, OnEntry
      <4> QED BY <4>1, EntryOk DEF Spellings
    <3>2. e \in Entry
      BY <3>1, Renamed
    <3> HIDE DEF e
    <3>3. p \in Live(g) /\ Beside(w, p) /\ p.res = w.res /\ OnEntry(p, g)
      BY <2>2, <2>4, <3>2, PutEntryOk
    <3> HIDE DEF p
    <3>4. Aside(w, p)
      BY <3>3, Nearby DEF Beside
    <3> QED BY <1>1, <1>4, <2>2, <2>4, <3>3, <3>4 DEF Aside
  <2> QED BY <2>3, <2>4
<1> QED BY <1>3, <1>4

-----------------------------------------------------------------------------
(* Paths and names.                                                        *)

(* What is left of a state when only the directory object changes.          *)
OnlyDj(m, a) ==
  /\ SameCard(m, a) /\ a.f = m.f /\ a.buf = m.buf /\ a.want = m.want /\ a.path = m.path
  /\ a.cdir = m.cdir /\ a.info = m.info /\ a.id = m.id /\ a.res = m.res /\ a.val = m.val
  /\ a.cur = m.cur /\ a.cnt = m.cnt /\ a.stop = m.stop
LEMMA LiveDj ==
  ASSUME NEW g \in Cards, NEW m \in Live(g), NEW j \in DirObjects,
         j.sect = m.dj.sect, j.clust = m.dj.clust, j.index = m.dj.index
  PROVE  LET a == SetDj(m, j) IN a \in Live(g) /\ a.dj = j /\ OnlyDj(m, a)
<1>1. m \in Work(g) /\ DirOk(m.dj, g)
  BY DEF Live, Work
<1>2. DirOk(j, g)
  BY <1>1, DirAtIs
<1> DEFINE a == SetDj(m, j)
<1>3. a \in Work(g) /\ a.dj = j /\ OnlyDj(m, a)
  BY <1>1, <1>2, DjOk DEF OnlyDj
<1> HIDE DEF a
<1> QED BY <1>3 DEF Live, a, OnlyDj, SameCard

LEMMA SclustOk ==
  ASSUME NEW g \in Cards, NEW m \in Live(g), NEW c \in Nat
  PROVE  LET a == [m EXCEPT !.dj.sclust = c] IN
         a \in Live(g) /\ OnlyDj(m, a) /\ a.dj.fn = m.dj.fn /\ a.dj.dir = m.dj.dir /\ a.dj.sect = m.dj.sect
         /\ a.dj.sclust = c
<1> DEFINE j == [m.dj EXCEPT !.sclust = c]
           a == SetDj(m, j)
<1>1. [m EXCEPT !.dj.sclust = c] = a
  BY DEF SetDj
<1>2. m.dj \in DirObjects
  BY DEF Live, Work, State
<1>3. j \in DirObjects /\ j.sect = m.dj.sect /\ j.fn = m.dj.fn /\ j.dir = m.dj.dir
      /\ j.clust = m.dj.clust /\ j.index = m.dj.index /\ j.sclust = c
  BY <1>2 DEF DirObjects
<1> HIDE DEF j
<1>4. a \in Live(g) /\ a.dj = j /\ OnlyDj(m, a)
  BY <1>3, LiveDj
<1> HIDE DEF a
<1> QED BY <1>1, <1>3, <1>4

LEMMA DirPtrOk ==
  ASSUME NEW g \in Cards, NEW m \in Live(g), NEW d \in -1..DirPer-1
  PROVE  LET a == [m EXCEPT !.dj.dir = d] IN
         a \in Live(g) /\ OnlyDj(m, a) /\ a.dj.fn = m.dj.fn /\ a.dj.dir = d /\ a.dj.sect = m.dj.sect
         /\ a.dj.sclust = m.dj.sclust
<1> DEFINE j == [m.dj EXCEPT !.dir = d]
           a == SetDj(m, j)
<1>1. [m EXCEPT !.dj.dir = d] = a
  BY DEF SetDj
<1>2. m.dj \in DirObjects
  BY DEF Live, Work, State
<1>3. j \in DirObjects /\ j.sect = m.dj.sect /\ j.fn = m.dj.fn /\ j.dir = d
      /\ j.clust = m.dj.clust /\ j.index = m.dj.index /\ j.sclust = m.dj.sclust
  BY <1>2 DEF DirObjects
<1> HIDE DEF j
<1>4. a \in Live(g) /\ a.dj = j /\ OnlyDj(m, a)
  BY <1>3, LiveDj
<1> HIDE DEF a
<1> QED BY <1>1, <1>3, <1>4

LEMMA FnOk ==
  ASSUME NEW g \in Cards, NEW m \in Live(g),
         NEW fn \in [name : Spellings, last : BOOLEAN, dot : BOOLEAN]
  PROVE  LET a == [m EXCEPT !.dj.fn = fn] IN
         a \in Live(g) /\ OnlyDj(m, a) /\ a.dj.fn = fn /\ a.dj.dir = m.dj.dir
<1> DEFINE j == [m.dj EXCEPT !.fn = fn]
           a == SetDj(m, j)
<1>1. [m EXCEPT !.dj.fn = fn] = a
  BY DEF SetDj
<1>2. m.dj \in DirObjects
  BY DEF Live, Work, State
<1>3. j \in DirObjects /\ j.sect = m.dj.sect /\ j.fn = fn /\ j.dir = m.dj.dir
      /\ j.clust = m.dj.clust /\ j.index = m.dj.index
  BY <1>2 DEF DirObjects
<1> HIDE DEF j
<1>4. a \in Live(g) /\ a.dj = j /\ OnlyDj(m, a)
  BY <1>3, LiveDj
<1> HIDE DEF a
<1> QED BY <1>1, <1>3, <1>4

Paths == Seq(Spellings)
SetPath(m, p) == [m EXCEPT !.path = p]
LEMMA PathOk ==
  ASSUME NEW g \in Cards, NEW m \in Work(g), NEW p \in Seq(Spellings \cup (Int \X Content))
  PROVE  LET a == SetPath(m, p) IN
         a \in Work(g) /\ SameCard(m, a) /\ a.dj = m.dj /\ a.f = m.f /\ a.path = p /\ a.res = m.res
         /\ a.stop = m.stop /\ a.type = m.type /\ a.winsect = m.winsect /\ a.val = m.val /\ a.cdir = m.cdir
<1> DEFINE a == SetPath(m, p)
<1>1. a \in State
  BY DEF Work, State, SetPath
<1>2. a.dj = m.dj /\ a.f = m.f /\ a.path = p /\ a.res = m.res
         /\ a.stop = m.stop /\ a.type = m.type /\ a.winsect = m.winsect /\ a.val = m.val /\ a.cdir = m.cdir
  BY DEF Work, State, SetPath
<1>3. SameCard(m, a)
  BY DEF Work, State, SetPath, SameCard
<1> HIDE DEF a
<1>4. a \in Work(g)
  BY <1>1, <1>2, <1>3, StaysWork
<1> QED BY <1>1, <1>2, <1>3, <1>4 DEF a

LEMMA PathsAre == Paths \subseteq Seq(Spellings \cup (Int \X Content))
<1> DEFINE S == Spellings
           T == Int \X Content
<1>1. Seq(S) \subseteq Seq(S \cup T)
  <2> HIDE DEF S, T
  <2> QED OBVIOUS
<1> QED BY <1>1 DEF Paths

-----------------------------------------------------------------------------
(* One step along a path.                                                  *)

LEMMA PathParts ==
  ASSUME NEW p \in Paths, p # <<>>
  PROVE  Head(p) \in Spellings /\ Tail(p) \in Paths /\ (Len(p) = 1 <=> Tail(p) = <<>>)
<1> DEFINE S == Spellings
<1>1. \A q \in Seq(S) : q # <<>> => Head(q) \in S /\ Tail(q) \in Seq(S) /\ (Len(q) = 1 <=> Tail(q) = <<>>)
  <2> HIDE DEF S
  <2> SUFFICES ASSUME NEW q \in Seq(S), q # <<>>
               PROVE Head(q) \in S /\ Tail(q) \in Seq(S) /\ (Len(q) = 1 <=> Tail(q) = <<>>)
    OBVIOUS
  <2>1. Head(q) \in S /\ Tail(q) \in Seq(S) /\ Len(Tail(q)) = Len(q) - 1
    BY HeadTailProperties
  <2>2. Len(q) \in Nat
    BY LenProperties
  <2>3. Tail(q) = <<>> <=> Len(Tail(q)) = 0
    BY <2>1, EmptySeq
  <2> QED BY <2>1, <2>2, <2>3
<1> QED BY <1>1 DEF Paths

(* One name further along a path.                                           *)
Named(m, a) ==
  /\ a.path \in Paths /\ (a.res = "OK" => (a.dj.fn.last <=> a.path = <<>>))
  /\ a.dj.dir = m.dj.dir /\ a.stop = m.stop
LEMMA CreateName ==
  ASSUME NEW g \in Cards, NEW m \in Live(g), m.path \in Paths, m.path # <<>>
  PROVE  LET a == create_name(m) IN a \in Live(g) /\ Named(m, a) /\ a.res \in {"OK", "INVALID_NAME"}
<1> DEFINE f == Fail(m, "INVALID_NAME")
           fn == [name |-> Head(m.path), last |-> Len(m.path) = 1, dot |-> Head(m.path) \in {".", ".."}]
           o == Ok(m)
           b == [o EXCEPT !.dj.fn = fn]
           p == Tail(m.path)
           c == SetPath(b, p)
<1>1. create_name(m) = IF Head(m.path) = "bad" THEN f ELSE c
  <2>1. m.path = o.path
    BY DEF Ok, Live, Work, State
  <2>2. [Ok(m) EXCEPT !.dj.fn = fn, !.path = Tail(@)] = c
    BY <2>1 DEF SetPath
  <2> QED BY <2>2 DEF create_name
<1>2. f \in Live(g) /\ Beside(m, f) /\ f.res = "INVALID_NAME"
  BY LiveFail DEF Results
<1>3. o \in Live(g) /\ Beside(m, o) /\ o.res = "OK" /\ o.dj = m.dj
  BY LiveOk
<1>4. fn \in [name : Spellings, last : BOOLEAN, dot : BOOLEAN] /\ p \in Paths /\ (fn.last <=> p = <<>>)
  <2>1. Head(m.path) \in Spellings /\ p \in Paths /\ (Len(m.path) = 1 <=> p = <<>>)
    BY PathParts
  <2> HIDE DEF p
  <2>2. (Len(m.path) = 1) \in BOOLEAN /\ (Head(m.path) \in {".", ".."}) \in BOOLEAN
    OBVIOUS
  <2> QED BY <2>1, <2>2
<1> HIDE DEF f, fn, o, p
<1>5. b \in Live(g) /\ OnlyDj(o, b) /\ b.dj.fn = fn /\ b.dj.dir = o.dj.dir
  BY <1>3, <1>4, FnOk
<1> HIDE DEF b
<1>6. c \in Live(g) /\ c.dj = b.dj /\ c.path = p /\ c.res = b.res /\ c.stop = b.stop
  <2>1. b \in Work(g) /\ p \in Seq(Spellings \cup (Int \X Content))
    BY <1>4, <1>5, PathsAre DEF Live
  <2>2. c \in Work(g) /\ c.dj = b.dj /\ c.path = p /\ c.res = b.res /\ c.stop = b.stop /\ c.type = b.type
    BY <2>1, PathOk
  <2> HIDE DEF c
  <2> QED BY <1>5, <2>2 DEF Live
<1> HIDE DEF c
<1>7. Named(m, c) /\ c.res = "OK"
  BY <1>3, <1>4, <1>5, <1>6 DEF Named, OnlyDj, Beside, Keeps
<1>8. Named(m, f)
  BY <1>2 DEF Named, Beside, Keeps
<1> QED BY <1>1, <1>2, <1>6, <1>7, <1>8

(* Where a walk along a path stands: something is left of it, or it has     *)
(* ended at the start directory itself or on an entry in the window.        *)
AtGoal(m, g) == m.dj.dir = Self \/ OnEntry(m, g)
OnPath(g) == {y \in Live(g) : /\ y.path \in Paths
                              /\ ~y.stop => y.path # <<>>
                              /\ y.stop /\ y.res = "OK" => AtGoal(y, g)}
EnteredTop(m) == [Ok(m) EXCEPT !.dj.sclust = 0, !.dj.dir = Self]
LEMMA TopOk ==
  ASSUME NEW g \in Cards, NEW m \in Live(g)
  PROVE  LET a == EnteredTop(m) IN
         a \in Live(g) /\ a.dj.dir = Self /\ a.path = m.path /\ a.stop = m.stop /\ a.res = "OK"
<1> DEFINE o == Ok(m)
           b == [o EXCEPT !.dj.sclust = 0]
           c == [b EXCEPT !.dj.dir = Self]
<1>1. EnteredTop(m) = c
  BY DEF EnteredTop
<1>2. o \in Live(g) /\ Beside(m, o) /\ o.res = "OK"
  BY LiveOk
<1> HIDE DEF o
<1>3. b \in Live(g) /\ OnlyDj(o, b)
  BY <1>2, SclustOk
<1> HIDE DEF b
<1>4. Self \in -1..DirPer-1
  BY GeometryAssumption DEF Self
<1>5. c \in Live(g) /\ OnlyDj(b, c) /\ c.dj.dir = Self
  BY <1>3, <1>4, DirPtrOk
<1> HIDE DEF c
<1> QED BY <1>1, <1>2, <1>3, <1>5 DEF OnlyDj, Beside, Keeps

LEMMA EnteredOk ==
  ASSUME NEW g \in Cards, NEW m \in Live(g), ~m.stop, m.path \in Paths,
         m.dj.fn.last <=> m.path = <<>>, m.res = "OK" => OnEntry(m, g)
  PROVE  Entered(m) \in OnPath(g)
<1> DEFINE top == EnteredTop(m)
           r == IF m.res = "NO_FILE" /\ ~m.dj.fn.last THEN "NO_PATH" ELSE m.res
           c == EntryAt(m).clust
           d == [m EXCEPT !.dj.sclust = c]
           z == Entered(m)
<1>1. z = IF m.res = "NO_FILE" /\ m.dj.fn.dot THEN IF m.dj.fn.last THEN Stop(top, "OK") ELSE top
          ELSE IF m.res # "OK" THEN Stop(m, r)
          ELSE IF m.dj.fn.last THEN Stop(m, "OK")
          ELSE IF "DIR" \notin EntryAt(m).attr THEN Stop(m, "NO_PATH") ELSE d
  BY DEF Entered, EnteredTop
<1> HIDE DEF z
<1>2. top \in Live(g) /\ top.dj.dir = Self /\ top.path = m.path /\ top.stop = m.stop /\ top.res = "OK"
  BY TopOk
<1> HIDE DEF top
<1>3. r \in Results /\ "OK" \in Results /\ "NO_PATH" \in Results /\ (m.res # "OK" => r # "OK")
  BY DEF Results, Live, Work, State
<1> HIDE DEF r
<1>4. CASE m.res = "NO_FILE" /\ m.dj.fn.dot
  <2>1. CASE m.dj.fn.last
    <3> DEFINE b == Stop(top, "OK")
    <3>1. b \in Live(g) /\ Keeps(top, b) /\ b.stop
      BY <1>2, <1>3, LiveStop
    <3> HIDE DEF b
    <3>2. z = b
      BY <1>1, <1>4, <2>1 DEF b
    <3> QED BY <1>2, <3>1, <3>2 DEF OnPath, AtGoal, Keeps, z
  <2>2. CASE ~m.dj.fn.last
    BY <1>1, <1>2, <1>4, <2>2 DEF OnPath, z
  <2> QED BY <2>1, <2>2
<1>5. CASE ~(m.res = "NO_FILE" /\ m.dj.fn.dot) /\ m.res # "OK"
  <2> DEFINE b == Stop(m, r)
  <2>1. b \in Live(g) /\ Keeps(m, b) /\ b.stop /\ b.res = r
    BY <1>3, LiveStop
  <2> HIDE DEF b
  <2>2. z = b
    BY <1>1, <1>5 DEF b
  <2> QED BY <1>3, <1>5, <2>1, <2>2 DEF OnPath, Keeps, z
<1>6. CASE m.res = "OK" /\ m.dj.fn.last
  <2> DEFINE b == Stop(m, "OK")
  <2>1. b \in Live(g) /\ Keeps(m, b) /\ b.stop /\ b.winsect = m.winsect
    BY <1>3, LiveStop
  <2> HIDE DEF b
  <2>2. z = b
    BY <1>1, <1>6 DEF b
  <2> QED BY <1>6, <2>1, <2>2 DEF OnPath, AtGoal, OnEntry, Keeps, z
<1>7. CASE m.res = "OK" /\ ~m.dj.fn.last /\ "DIR" \notin EntryAt(m).attr
  <2> DEFINE b == Stop(m, "NO_PATH")
  <2>1. b \in Live(g) /\ Keeps(m, b) /\ b.stop /\ b.res = "NO_PATH"
    BY <1>3, LiveStop
  <2> HIDE DEF b
  <2>2. z = b
    BY <1>1, <1>7 DEF b
  <2> QED BY <2>1, <2>2 DEF OnPath, Keeps, z
<1>8. CASE m.res = "OK" /\ ~m.dj.fn.last /\ "DIR" \in EntryAt(m).attr
  <2>1. c \in Nat
    <3>1. m \in Work(g) /\ m.dj.dir # Self
      BY <1>8 DEF Live, OnEntry
    <3>2. EntryAt(m) \in Entry
      BY <3>1, EntryOk
    <3> QED BY <3>2 DEF Entry
  <2> HIDE DEF c
  <2>2. d \in Live(g) /\ OnlyDj(m, d)
    BY <2>1, SclustOk
  <2> HIDE DEF d
  <2>3. z = d
    BY <1>1, <1>8
  <2> QED BY <1>8, <2>2, <2>3 DEF OnPath, OnlyDj, z
<1> QED BY <1>4, <1>5, <1>6, <1>7, <1>8

LEMMA FollowNameOk ==
  ASSUME NEW g \in Cards, NEW y \in OnPath(g), ~y.stop
  PROVE  FollowName(y) \in OnPath(g)
<1> DEFINE a == create_name(y)
           b == dir_find(a)
           z == FollowName(y)
<1>1. z = IF a.res = "OK" THEN Entered(b) ELSE Stop(a, a.res)
  BY DEF FollowName, Carry
<1> HIDE DEF z, b
<1>2. a \in Live(g) /\ Named(y, a) /\ a.res \in {"OK", "INVALID_NAME"}
  BY CreateName DEF OnPath
<1> HIDE DEF a
<1>3. CASE a.res = "OK"
  <2>1. b \in Live(g) /\ Aside(a, b) /\ (b.res = "OK" => OnEntry(b, g)) /\ (b.stop => a.stop)
    BY <1>2, DirFind DEF Lands, b
  <2>2. ~b.stop
    BY <1>2, <2>1 DEF Named
  <2>3. b.path \in Paths /\ (b.dj.fn.last <=> b.path = <<>>)
    BY <1>2, <1>3, <2>1 DEF Named, Aside
  <2> QED BY <1>1, <1>3, <2>1, <2>2, <2>3, EnteredOk DEF z
<1>4. CASE a.res # "OK"
  <2> DEFINE d == Stop(a, a.res)
  <2>1. d \in Live(g) /\ Keeps(a, d) /\ d.stop /\ d.res = a.res
    BY <1>2, LiveStop DEF Results
  <2> HIDE DEF d
  <2>2. z = d
    BY <1>1, <1>4 DEF d
  <2> QED BY <1>2, <1>4, <2>1, <2>2 DEF OnPath, Named, Keeps, z
<1> QED BY <1>3, <1>4

-----------------------------------------------------------------------------
(* Whole paths, and the volume mounted on the way.                         *)

LEMMA FollowsPath ==
  ASSUME NEW g \in Cards, NEW m \in Live(g), m.path \in Paths, m.path # <<>>, NEW k \in Nat
  PROVE  LET a == Loop(m, FollowName, k) IN a \in Live(g) /\ (a.res = "OK" => AtGoal(a, g))
<1> DEFINE M == OnPath(g)
           x0 == SetStop(m, FALSE)
<1>20. k \in Nat
  OBVIOUS
<1>10. x0 \in M
  <2>1. x0 \in Work(g) /\ Keeps(m, x0) /\ ~x0.stop
    BY StopOk DEF Live
  <2> HIDE DEF x0
  <2> QED BY <2>1 DEF OnPath, Live, Keeps
<1>11. \A y \in M : (IF y.stop THEN y ELSE FollowName(y)) \in M
  BY FollowNameOk
<1> HIDE DEF x0
<1> DEFINE step == [y \in M |-> IF y.stop THEN y ELSE FollowName(y)]
           t == CHOOSE f : f = [i \in 0..k |-> IF i = 0 THEN x0 ELSE IF f[i-1].stop THEN f[i-1] ELSE FollowName(f[i-1])]
<1> HIDE DEF M
<1>21. step \in [M -> M]
  BY <1>11
<1>22. PICK f : IsRun(f, M, x0, k, step)
  <2> HIDE DEF step
  <2> QED BY <1>10, <1>20, <1>21, Repeated
<1>23. f = [i \in 0..k |-> IF i = 0 THEN x0 ELSE IF f[i-1].stop THEN f[i-1] ELSE FollowName(f[i-1])]
  <2>1. ASSUME NEW i \in 0..k, i # 0
        PROVE  step[f[i-1]] = IF f[i-1].stop THEN f[i-1] ELSE FollowName(f[i-1])
    <3>1. i - 1 \in 0..k
      BY <1>20, <2>1
    <3>2. f[i-1] \in M
      BY <1>22, <3>1 DEF IsRun
    <3> QED BY <3>2
  <2> HIDE DEF step
  <2> QED BY <1>22, <2>1 DEF IsRun
<1>24. t = [i \in 0..k |-> IF i = 0 THEN x0 ELSE IF t[i-1].stop THEN t[i-1] ELSE FollowName(t[i-1])]
  BY <1>23
<1> HIDE DEF t, step
<1> DEFINE G == [i \in 0..k |-> M]
<1>12. x0 \in G[0]
  BY <1>10, <1>20
<1>13. \A i \in 1..k : \A y \in G[i-1] : (IF y.stop THEN y ELSE FollowName(y)) \in G[i]
  BY <1>11, <1>20
<1> HIDE DEF G
<1>25. t[k] \in G[k]
  <2>1. t[0] \in G[0]
    BY <1>12, <1>20, <1>24
  <2>2. ASSUME NEW i \in 1..k, t[i-1] \in G[i-1] PROVE t[i] \in G[i]
    <3>1. t[i] = IF t[i-1].stop THEN t[i-1] ELSE FollowName(t[i-1])
      BY <1>20, <1>24
    <3> DEFINE y == t[i-1]
    <3>2. y \in G[i-1] /\ t[i] = IF y.stop THEN y ELSE FollowName(y)
      BY <2>2, <3>1
    <3> HIDE DEF y
    <3> QED BY <1>13, <3>2
  <2> QED BY <1>20, <2>1, <2>2, Always
<1>26. t[k] \in M
  BY <1>20, <1>25 DEF G
<1> DEFINE e == t[k]
           f1 == Ended(e)
<1>3. e \in M
  BY <1>26
<1> HIDE DEF e
<1>4. f1 \in Live(g) /\ (f1.res = "OK" => AtGoal(f1, g))
  <2>1. e \in Work(g) /\ e.type # "none" /\ (e.stop /\ e.res = "OK" => AtGoal(e, g))
    BY <1>3 DEF M, OnPath, Live
  <2>2. f1 \in Work(g) /\ Keeps(e, f1) /\ SameCard(e, f1) /\ f1.res = (IF e.stop THEN e.res ELSE "HANG")
    BY <2>1, EndedOk
  <2> HIDE DEF f1
  <2>3. f1.res = "OK" => e.stop /\ e.res = "OK"
    BY <2>2
  <2> QED BY <2>1, <2>2, <2>3 DEF Live, Keeps, SameCard, AtGoal, OnEntry
<1>5. Loop(m, FollowName, k) = f1
  BY DEF Loop, Turn, t, f1, e, x0, SetStop
<1> HIDE DEF f1
<1> QED BY <1>4, <1>5

LEMMA FollowPath ==
  ASSUME NEW g \in Cards, NEW m \in Live(g), NEW path \in Paths
  PROVE  LET a == follow_path(m, path) IN a \in Live(g) /\ (a.res = "OK" => AtGoal(a, g))
<1> DEFINE abs == path # <<>> /\ Head(path) = "/"
           c == IF abs THEN 0 ELSE m.cdir
           p == IF abs THEN Tail(path) ELSE path
           a == [m EXCEPT !.dj.sclust = c]
           b == SetPath(a, p)
           d == dir_sdi(b, 0)
           e == [d EXCEPT !.dj.dir = Self]
           z == Loop(b, FollowName, Len(path))
<1>1. follow_path(m, path) = IF b.path = <<>> THEN e ELSE z
  BY DEF follow_path, After, SetPath
<1>2. c \in Nat /\ p \in Paths /\ Len(path) \in Nat
  <2>1. p \in Paths
    BY PathParts
  <2>2. Len(path) \in Nat
    BY LenProperties DEF Paths
  <2> QED BY <2>1, <2>2 DEF Live, Work, State
<1> HIDE DEF c, p, z, e, d
<1>3. a \in Live(g)
  BY <1>2, SclustOk
<1> HIDE DEF a
<1>4. b \in Live(g) /\ b.path = p
  <2>1. a \in Work(g) /\ p \in Seq(Spellings \cup (Int \X Content))
    BY <1>2, <1>3, PathsAre DEF Live
  <2>2. b \in Work(g) /\ b.path = p /\ b.type = a.type
    BY <2>1, PathOk
  <2> HIDE DEF b
  <2> QED BY <1>3, <2>2 DEF Live
<1> HIDE DEF b
<1>5. e \in Live(g) /\ AtGoal(e, g)
  <2>1. d \in Live(g)
    BY <1>4, DirSdi DEF d
  <2>2. Self \in -1..DirPer-1
    BY GeometryAssumption DEF Self
  <2> HIDE DEF d
  <2>3. [d EXCEPT !.dj.dir = Self] \in Live(g) /\ [d EXCEPT !.dj.dir = Self].dj.dir = Self
    BY <2>1, <2>2, DirPtrOk
  <2> QED BY <2>3 DEF AtGoal, e
<1>6. b.path # <<>> => z \in Live(g) /\ (z.res = "OK" => AtGoal(z, g))
  BY <1>2, <1>4, FollowsPath DEF z
<1> QED BY <1>1, <1>5, <1>6

LEMMA LowSectors ==
  ASSUME NEW g \in Cards
  PROVE  FatBase(g) \in Nat /\ FatBase(g) > 0 /\ 0 \in Sectors /\ g.bsect \in Sectors /\ g.bsect + 1 \in Sectors
<1> DEFINE k == NRoot \div DirPer
<1>1. g.bsect \in {0, 1} /\ FatBase(g) = g.bsect + 2 /\ FatSize \in Nat \ {0} /\ LastSector \in Nat
      /\ FatBase(g) + FatSize <= RootBase(g) /\ RootBase(g) \in Nat
      /\ k \in Nat /\ RootBase(g) + k <= LastSector + 1
  BY Regions, SizeOfFat DEF Cards
<1> HIDE DEF k
<1> QED BY <1>1 DEF Sectors

(* Mounting: a work area without a volume looks for the one the card holds. *)
Unmounted(g) == {m \in Work(g) : m.type = "none"}
LEMMA UnmountedWindow ==
  ASSUME NEW g \in Cards, NEW m \in Unmounted(g)
  PROVE  m \in State /\ m.winsect = 0 /\ ~m.wflag /\ m.disk \in [Sectors -> Content] /\ Layout(m.disk, g)
         /\ FatBase(g) > 0 /\ 0 \in Sectors /\ g.bsect \in Sectors /\ g.bsect + 1 \in Sectors
<1>1. m \in State /\ m.winsect = 0 /\ ~m.wflag /\ m.disk \in [Sectors -> Content] /\ Layout(m.disk, g)
  BY DEF Unmounted, Work, Card, Mount, DiskOk, State
<1>2. FatBase(g) > 0 /\ 0 \in Sectors /\ g.bsect \in Sectors /\ g.bsect + 1 \in Sectors
  BY LowSectors
<1> QED BY <1>1, <1>2

LEMMA Rewindow ==    \* a window that shows no sector may hold anything
  ASSUME NEW g \in Cards, NEW m \in Work(g), m.winsect = 0, ~m.wflag, NEW a \in State,
         a.disk = m.disk, a.winsect = m.winsect, a.wflag = m.wflag, a.type = m.type,
         a.bsect = m.bsect, a.n_fats = m.n_fats, a.ready = m.ready,
         g.quiet => a.left = 0 /\ ~a.failed, a.dj = m.dj, a.f = m.f
  PROVE  a \in Work(g)
<1>1. FatBase(g) \in Nat /\ FatBase(g) > 0 /\ 0 \in Sectors
  BY LowSectors
<1>2. DiskOk(a.disk, g) /\ Mount(a, g) /\ Quiet(a, g) /\ DirOk(a.dj, g) /\ FileOk(a.f, g)
  BY DEF Work, Card, Mount, Quiet
<1>3. WindowOk(a, g)
  BY <1>1 DEF Work, Card, WindowOk
<1>4. Seen(a, g)
  BY DEF Work, Card, Seen
<1> QED BY <1>2, <1>3, <1>4 DEF Work, Card

LEMMA CheckFs ==
  ASSUME NEW g \in Cards, NEW m \in Unmounted(g), NEW s \in Sectors
  PROVE  LET a == check_fs(m, s) IN
         /\ a \in Unmounted(g) /\ a.disk = m.disk /\ a.ready = m.ready /\ a.res = "OK"
         /\ a.val \in 0..3
         /\ a.val = 0 => a.win = m.disk[s] /\ a.win.kind = "boot" /\ a.win.sig /\ a.win.type # "none"
         /\ a.val = 1 => a.win = m.disk[s] /\ a.win.kind = "boot" /\ a.win.sig /\ a.win.type = "none"
<1> DEFINE b == disk_read(m, s)
           v == IF b.res # "OK" THEN 3 ELSE IF b.win.kind # "boot" \/ ~b.win.sig THEN 2
                ELSE IF b.win.type = "none" THEN 1 ELSE 0
           c == SetVal(Ok(b), v)
<1>1. check_fs(m, s) = c
  BY DEF check_fs, After, SetVal
<1>2. m \in State /\ m.winsect = 0 /\ ~m.wflag
  BY UnmountedWindow
<1>3. /\ b \in State /\ Beside(m, b)
      /\ b.disk = m.disk /\ b.winsect = m.winsect /\ b.wflag = m.wflag
      /\ b.res = "OK" => b.win = m.disk[s]
      /\ m.left = 0 => b.left = 0 /\ b.failed = m.failed
  BY <1>2, DiskRead
<1> HIDE DEF b
<1>4. b \in Work(g) /\ b.type = "none"
  <2>1. m \in Work(g) /\ m.type = "none"
    BY DEF Unmounted
  <2>2. g.quiet => b.left = 0 /\ ~b.failed
    BY <1>3, <2>1 DEF Work, Card, Quiet
  <2>3. b.type = m.type /\ b.bsect = m.bsect /\ b.n_fats = m.n_fats /\ b.ready = m.ready
        /\ b.dj = m.dj /\ b.f = m.f
    BY <1>3 DEF Beside, Keeps
  <2> QED BY <1>2, <1>3, <2>1, <2>2, <2>3, Rewindow
<1>5. v \in 0..3
  OBVIOUS
<1>6. /\ v = 0 => b.res = "OK" /\ b.win.kind = "boot" /\ b.win.sig /\ b.win.type # "none"
      /\ v = 1 => b.res = "OK" /\ b.win.kind = "boot" /\ b.win.sig /\ b.win.type = "none"
  OBVIOUS
<1> HIDE DEF v
<1>7. c \in Work(g) /\ SameCard(b, c) /\ c.val = v /\ c.res = "OK"
  <2> DEFINE o == Ok(b)
  <2>1. o \in Work(g) /\ SameCard(b, o) /\ o.res = "OK"
    BY <1>4, OkOk
  <2> HIDE DEF o
  <2>2. SetVal(o, v) \in Work(g) /\ SameCard(o, SetVal(o, v)) /\ SetVal(o, v).val = v /\ SetVal(o, v).res = o.res
    BY <1>5, <2>1, ValOk
  <2> QED BY <2>1, <2>2 DEF o, SameCard
<1> HIDE DEF c
<1> QED BY <1>1, <1>3, <1>4, <1>5, <1>6, <1>7 DEF Unmounted, SameCard, Beside, Keeps

SetMount(m, at) ==
  [m EXCEPT !.bsect = at, !.n_fats = m.win.n_fats, !.free = Unknown, !.last = 0, !.type = m.win.type]
SetKnown(m, free, last0) == [m EXCEPT !.res = "OK", !.fsi = FALSE, !.free = free, !.last = last0]
SetFresh(m) == [m EXCEPT !.id = @ + 1, !.winsect = 0, !.wflag = FALSE, !.cdir = 0]
LEMMA Mounting ==
  ASSUME NEW g \in Cards, NEW m \in Unmounted(g), m.ready, m.win = m.disk[g.bsect]
  PROVE  LET a == SetMount(m, g.bsect) IN
         a \in Live(g) /\ a.winsect = 0 /\ ~a.wflag /\ a.res = m.res
<1> DEFINE a == SetMount(m, g.bsect)
<1>1. m \in State /\ m.winsect = 0 /\ ~m.wflag /\ Layout(m.disk, g) /\ m \in Work(g)
      /\ FatBase(g) \in Nat /\ FatBase(g) > 0
  BY UnmountedWindow, LowSectors DEF Unmounted
<1>2. m.win.n_fats = g.n_fats /\ m.win.type = g.type /\ g.bsect \in Int /\ g.n_fats \in Int
      /\ g.type \in Kinds /\ g.type # "none"
  BY <1>1 DEF Layout, Cards, Kinds
<1>3. Unknown \in Int
  BY GeometryAssumption DEF Unknown
<1>4. a \in State
  BY <1>1, <1>2, <1>3 DEF State, SetMount
<1>5. /\ a.disk = m.disk /\ a.winsect = 0 /\ ~a.wflag /\ a.type = g.type /\ a.bsect = g.bsect
      /\ a.n_fats = g.n_fats /\ a.ready = m.ready /\ a.left = m.left /\ a.failed = m.failed
      /\ a.dj = m.dj /\ a.f = m.f /\ a.res = m.res
  BY <1>1, <1>2 DEF State, SetMount
<1> HIDE DEF a
<1>6. DiskOk(a.disk, g) /\ Quiet(a, g) /\ DirOk(a.dj, g) /\ FileOk(a.f, g)
  BY <1>1, <1>5 DEF Work, Card, Quiet
<1>7. WindowOk(a, g) /\ Seen(a, g)
  BY <1>1, <1>5 DEF Work, Card, WindowOk, Seen
<1>8. Mount(a, g)
  BY <1>2, <1>5 DEF Mount
<1>9. a \in Work(g)
  BY <1>4, <1>6, <1>7, <1>8 DEF Work, Card
<1> QED BY <1>2, <1>5, <1>9 DEF Live, a

LEMMA KnownOk ==
  ASSUME NEW g \in Cards, NEW m \in Live(g), NEW p \in Int, NEW q \in Int
  PROVE  LET a == SetKnown(m, p, q) IN
         a \in Live(g) /\ a.winsect = m.winsect /\ a.wflag = m.wflag /\ a.res = "OK"
<1> DEFINE a == SetKnown(m, p, q)
<1>1. m \in State /\ m \in Work(g)
  BY DEF Live, Work
<1>2. a \in State
  BY <1>1 DEF State, SetKnown, Results
<1>3. a.res = "OK" /\ a.dj = m.dj /\ a.f = m.f /\ a.type = m.type
  BY <1>1 DEF State, SetKnown
<1>4. SameCard(m, a)
  BY <1>1 DEF State, SetKnown, SameCard
<1> HIDE DEF a
<1>5. a \in Work(g)
  BY <1>1, <1>2, <1>3, <1>4, StaysWork
<1> QED BY <1>3, <1>4, <1>5 DEF Live, SameCard, a

LEMMA ReadInfoOk ==
  ASSUME NEW g \in Cards, NEW m \in Live(g), m.winsect = 0, ~m.wflag, m.res = "OK"
  PROVE  LET a == ReadInfo(m) IN a \in Live(g) /\ a.winsect = 0 /\ ~a.wflag /\ a.res = "OK"
<1> DEFINE b == disk_read(m, m.bsect + 1)
           known == b.res = "OK" /\ b.win.kind = "info"
           p == IF known THEN b.win.free ELSE b.free
           q == IF known THEN b.win.last ELSE b.last
           c == SetKnown(b, p, q)
<1>1. ReadInfo(m) = IF m.type # "FAT32" THEN m ELSE c
  <2>1. ReadInfo(m) = IF m.type # "FAT32" THEN m
          ELSE [Ok(b) EXCEPT !.fsi = FALSE, !.free = IF known THEN b.win.free ELSE @,
                             !.last = IF known THEN b.win.last ELSE @]
    BY DEF ReadInfo, After
  <2>2. m \in State /\ m.bsect + 1 \in Sectors
    <3>1. m \in State /\ m.bsect = g.bsect
      BY DEF Live, Work, Card, Mount
    <3> QED BY <3>1, Regions, SizeOfFat DEF Sectors, Cards
  <2>3. b \in State
    BY <2>2, DiskRead
  <2>4. Ok(b).free = b.free /\ Ok(b).last = b.last
    BY <2>3 DEF State, Ok
  <2>5. c = [Ok(b) EXCEPT !.fsi = FALSE, !.free = IF known THEN b.win.free ELSE Ok(b).free,
                             !.last = IF known THEN b.win.last ELSE Ok(b).last]
    BY <2>3, <2>4 DEF SetKnown, Ok, State
  <2> QED BY <2>1, <2>5
<1>2. m \in State /\ m.bsect + 1 \in Sectors /\ m \in Work(g) /\ m.type # "none"
  <2>1. m \in State /\ m.bsect = g.bsect /\ m \in Work(g) /\ m.type # "none"
    BY DEF Live, Work, Card, Mount
  <2> QED BY <2>1, Regions, SizeOfFat DEF Sectors, Cards
<1>3. /\ b \in State /\ Beside(m, b)
      /\ b.disk = m.disk /\ b.winsect = m.winsect /\ b.wflag = m.wflag
      /\ m.left = 0 => b.left = 0 /\ b.failed = m.failed
  BY <1>2, DiskRead
<1> HIDE DEF b
<1>4. b \in Live(g)
  <2>2. g.quiet => b.left = 0 /\ ~b.failed
    BY <1>2, <1>3 DEF Work, Card, Quiet
  <2>3. b.type = m.type /\ b.bsect = m.bsect /\ b.n_fats = m.n_fats /\ b.ready = m.ready
        /\ b.dj = m.dj /\ b.f = m.f
    BY <1>3 DEF Beside, Keeps
  <2>4. b \in Work(g)
    BY <1>2, <1>3, <2>2, <2>3, Rewindow
  <2> QED BY <1>2, <2>3, <2>4 DEF Live
<1>5. p \in Int /\ q \in Int
  <2>1. b.win \in Content /\ b.free \in Int /\ b.last \in Int
    BY <1>3 DEF State
  <2>2. CASE known
    <3>1. b.win \in InfoContent
      BY <2>1, <2>2 DEF Content, DirContent, FatContent, DataContent, InfoContent, BootContent
    <3> QED BY <2>2, <3>1 DEF InfoContent
  <2>3. CASE ~known
    BY <2>1, <2>3
  <2> QED BY <2>2, <2>3
<1> HIDE DEF p, q
<1>6. c \in Live(g) /\ c.winsect = b.winsect /\ c.wflag = b.wflag /\ c.res = "OK"
  BY <1>4, <1>5, KnownOk
<1> HIDE DEF c
<1> QED BY <1>1, <1>3, <1>6

LEMMA FreshOk ==
  ASSUME NEW g \in Cards, NEW m \in Live(g), m.winsect = 0, ~m.wflag
  PROVE  LET a == SetFresh(m) IN a \in Live(g) /\ a.res = m.res
<1> DEFINE a == SetFresh(m)
<1>1. m \in State /\ m \in Work(g)
  BY DEF Live, Work
<1>2. a \in State
  <2> DEFINE i == m.id + 1
             b == [m EXCEPT !.id = i, !.winsect = 0, !.wflag = FALSE, !.cdir = 0]
  <2>1. a = b
    BY DEF SetFresh
  <2>2. i \in Int
    BY <1>1 DEF State
  <2> HIDE DEF i, a
  <2>3. b \in State
    BY <1>1, <2>2 DEF State
  <2> QED BY <2>1, <2>3
<1>3. a.res = m.res /\ a.dj = m.dj /\ a.f = m.f /\ a.type = m.type
  BY <1>1 DEF State, SetFresh
<1>4. SameCard(m, a)
  BY <1>1 DEF State, SetFresh, SameCard
<1> HIDE DEF a
<1>5. a \in Work(g)
  BY <1>1, <1>2, <1>3, <1>4, StaysWork
<1> QED BY <1>3, <1>5 DEF Live, a

Mounts(a, g) == a \in Work(g) /\ (a.res = "OK" => a \in Live(g)) /\ a.res # "NO_FILE"
LEMMA BeginOk ==
  ASSUME NEW g \in Cards, NEW m \in Unmounted(g), m.ready, m.res = "OK", NEW at,
         m.val = 0 => at = g.bsect /\ m.win = m.disk[g.bsect]
  PROVE  Mounts(Begin(m, at), g)
<1> DEFINE e == Fail(m, "DISK_ERR")
           n == Fail(m, "NO_FILESYSTEM")
           b == SetMount(m, at)
           c == ReadInfo(b)
           d == SetFresh(c)
<1>1. Begin(m, at) = IF m.val = 3 THEN e ELSE IF m.val # 0 \/ m.win.type = "bad" THEN n ELSE d
  BY DEF Begin, SetMount, SetFresh
<1>2. Mounts(e, g) /\ Mounts(n, g)
  <2>1. m \in Work(g)
    BY DEF Unmounted
  <2>2. e \in Work(g) /\ e.res = "DISK_ERR"
    BY <2>1, FailOk DEF Results
  <2>3. n \in Work(g) /\ n.res = "NO_FILESYSTEM"
    BY <2>1, FailOk DEF Results
  <2> HIDE DEF e, n
  <2> QED BY <2>2, <2>3 DEF Mounts
<1>3. m.val = 0 => Mounts(d, g)
  <2>1. SUFFICES ASSUME m.val = 0 PROVE Mounts(d, g)
    OBVIOUS
  <2>2. b \in Live(g) /\ b.winsect = 0 /\ ~b.wflag /\ b.res = m.res
    BY <2>1, Mounting
  <2> HIDE DEF b
  <2>3. c \in Live(g) /\ c.winsect = 0 /\ ~c.wflag /\ c.res = "OK"
    BY <2>2, ReadInfoOk
  <2> HIDE DEF c
  <2>4. d \in Live(g) /\ d.res = c.res
    BY <2>3, FreshOk
  <2> HIDE DEF d
  <2> QED BY <2>3, <2>4 DEF Mounts, Live
<1> HIDE DEF d, e, n
<1> QED BY <1>1, <1>2, <1>3

LEMMA RecognizedOk ==
  ASSUME NEW g \in Cards, NEW m \in Unmounted(g), m.ready
  PROVE  Mounts(Recognized(m), g)
<1> DEFINE a == check_fs(m, 0)
           b == check_fs(a, a.win.part)
<1>1. Recognized(m) = IF a.val = 1 /\ a.win.part # 0 THEN Begin(b, a.win.part) ELSE Begin(a, 0)
  BY DEF Recognized, After
<1>2. Layout(m.disk, g) /\ 0 \in Sectors /\ g.bsect \in Sectors
  BY UnmountedWindow
<1>3. /\ a \in Unmounted(g) /\ a.disk = m.disk /\ a.ready = m.ready /\ a.res = "OK"
      /\ a.val \in 0..3
      /\ a.val = 0 => a.win = m.disk[0] /\ a.win.type # "none"
      /\ a.val = 1 => a.win = m.disk[0] /\ a.win.type = "none"
  BY <1>2, CheckFs
<1> HIDE DEF a
<1>4. CASE a.val = 1 /\ a.win.part # 0
  <2>1. a.win.part = g.bsect
    BY <1>2, <1>3, <1>4 DEF Layout
  <2>2. /\ b \in Unmounted(g) /\ b.disk = a.disk /\ b.ready = a.ready /\ b.res = "OK"
        /\ b.val = 0 => b.win = a.disk[g.bsect]
    <3> DEFINE c == check_fs(a, g.bsect)
    <3>1. /\ c \in Unmounted(g) /\ c.disk = a.disk /\ c.ready = a.ready /\ c.res = "OK"
          /\ c.val = 0 => c.win = a.disk[g.bsect]
      BY <1>2, <1>3, CheckFs
    <3> QED BY <2>1, <3>1
  <2> HIDE DEF b
  <2>3. Mounts(Begin(b, a.win.part), g)
    BY <1>3, <2>1, <2>2, BeginOk
  <2> QED BY <1>1, <1>4, <2>3
<1>5. CASE ~(a.val = 1 /\ a.win.part # 0)
  <2>1. a.val = 0 => 0 = g.bsect /\ a.win = a.disk[g.bsect]
    BY <1>2, <1>3 DEF Layout, Cards
  <2>2. Mounts(Begin(a, 0), g)
    BY <1>3, <2>1, BeginOk
  <2> QED BY <1>1, <1>5, <2>2
<1> QED BY <1>4, <1>5

SetReady(m, b) == [m EXCEPT !.ready = b]
LEMMA DiskInitialize ==
  ASSUME NEW g \in Cards, NEW m \in Unmounted(g)
  PROVE  LET a == disk_initialize(m) IN a \in Unmounted(g) /\ a.disk = m.disk
<1> DEFINE b == disk_ioctl(m)
           r == b.ready \/ ~Fails(m)
           a == SetReady(b, r)
<1>1. disk_initialize(m) = a
  BY DEF disk_initialize, SetReady
<1>2. m \in Work(g) /\ m.type = "none"
  BY DEF Unmounted
<1>3. b \in Work(g) /\ Beside(m, b) /\ b.disk = m.disk
  BY <1>2, DiskIoctl
<1> HIDE DEF b
<1>4. r \in BOOLEAN /\ b \in State /\ b.type = "none"
  BY <1>2, <1>3 DEF Work, State, Beside, Keeps, Fails
<1> HIDE DEF r
<1>5. a \in State
  BY <1>4 DEF State, SetReady
<1>6. /\ a.disk = b.disk /\ a.winsect = b.winsect /\ a.wflag = b.wflag /\ a.win = b.win /\ a.type = b.type
      /\ a.bsect = b.bsect /\ a.n_fats = b.n_fats /\ a.left = b.left /\ a.failed = b.failed
      /\ a.dj = b.dj /\ a.f = b.f
  BY <1>4 DEF State, SetReady
<1> HIDE DEF a
<1>7. a \in Work(g)
  BY <1>3, <1>4, <1>5, <1>6 DEF Work, Card, WindowOk, Seen, Mount, Quiet
<1> QED BY <1>1, <1>3, <1>4, <1>6, <1>7 DEF Unmounted

LEMMA ChkMounted ==
  ASSUME NEW g \in Cards, NEW m \in Work(g)
  PROVE  Mounts(chk_mounted(m), g)
<1> DEFINE n == [m EXCEPT !.type = "none"]
           a == disk_initialize(n)
           b == Ok(a)
           o == Ok(m)
           f == Fail(a, "NOT_READY")
<1>1. chk_mounted(m) = IF m.type # "none" /\ m.ready THEN o ELSE IF a.ready THEN Recognized(b) ELSE f
  BY DEF chk_mounted, After
<1>2. CASE m.type # "none"
  <2>1. m.ready /\ m \in Live(g)
    BY <1>2 DEF Work, Card, Mount, Live
  <2>2. o \in Live(g) /\ o.res = "OK"
    BY <2>1, LiveOk
  <2> HIDE DEF o
  <2> QED BY <1>1, <1>2, <2>1, <2>2 DEF Mounts, Live
<1>3. CASE m.type = "none"
  <2>1. n = m /\ m \in Unmounted(g)
    BY <1>3 DEF Work, State, Unmounted
  <2>2. a \in Unmounted(g)
    BY <2>1, DiskInitialize
  <2> HIDE DEF a
  <2>3. a \in Work(g) /\ a.type = "none"
    BY <2>2 DEF Unmounted
  <2>4. b \in Work(g) /\ SameCard(a, b)
    BY <2>3, OkOk
  <2>5. f \in Work(g) /\ f.res = "NOT_READY"
    BY <2>3, FailOk DEF Results
  <2> HIDE DEF b, f
  <2>6. a.ready => Mounts(Recognized(b), g)
    BY <2>3, <2>4, RecognizedOk DEF Unmounted, SameCard
  <2> QED BY <1>1, <1>3, <2>5, <2>6 DEF Mounts
<1> QED BY <1>2, <1>3

LEMMA ResolveOk ==
  ASSUME NEW g \in Cards, NEW m \in Work(g), NEW path \in Paths
  PROVE  LET a == Resolve(m, path) IN
         /\ a \in Work(g) /\ (a.res \in {"OK", "NO_FILE"} => a \in Live(g))
         /\ (a.res = "OK" => AtGoal(a, g))
<1> DEFINE b == chk_mounted(m)
           c == follow_path(b, path)
<1>1. Resolve(m, path) = IF b.res = "OK" THEN c ELSE b
  BY DEF Resolve, Then
<1>2. Mounts(b, g)
  BY ChkMounted
<1> HIDE DEF b
<1>3. b.res = "OK" => c \in Live(g) /\ (c.res = "OK" => AtGoal(c, g))
  BY <1>2, FollowPath DEF Mounts
<1> HIDE DEF c
<1> QED BY <1>1, <1>2, <1>3 DEF Mounts, Live
=============================================================================
