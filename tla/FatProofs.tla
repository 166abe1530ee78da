------------------------------ MODULE FatProofs ------------------------------
(***************************************************************************)
(* FatFs on a card that may stop answering at any access, for any card,    *)
(* paths and sizes: sectors keep to their kinds and the window to its      *)
(* sector (TypeOK), the second FAT repeats the first (Mirrored), and calls *)
(* that only look leave the volume as it shows (QuestionsOnlyLook).        *)
(* FatVolumeProofs has the layers below the calls.                         *)
(***************************************************************************)
EXTENDS FatVolumeProofs

-----------------------------------------------------------------------------
(* File objects, and f_open.                                               *)

(* What is left of a state when only the file object changes.               *)
OnlyF(m, a) ==
  /\ SameCard(m, a) /\ a.dj = m.dj /\ a.buf = m.buf /\ a.want = m.want /\ a.path = m.path
  /\ a.cdir = m.cdir /\ a.info = m.info /\ a.id = m.id /\ a.res = m.res /\ a.val = m.val
  /\ a.cur = m.cur /\ a.cnt = m.cnt /\ a.stop = m.stop
SetF(m, f) == [m EXCEPT !.f = f]
LEMMA WorkF ==
  ASSUME NEW g \in Cards, NEW m \in Work(g), NEW f \in FileObjects, FileOk(f, g)
  PROVE  LET a == SetF(m, f) IN a \in Work(g) /\ a.f = f /\ OnlyF(m, a)
<1> DEFINE a == SetF(m, f)
<1>1. a \in State
  BY DEF Work, State, SetF
<1>2. SameCard(m, a)
  BY DEF Work, State, SetF, SameCard
<1>3. OnlyF(m, a) /\ a.f = f
  BY <1>2 DEF Work, State, SetF, OnlyF
<1> HIDE DEF a
<1>4. a \in Work(g)
  BY <1>1, <1>2, <1>3 DEF Work, Card, SameCard, WindowOk, Seen, Mount, Quiet, OnlyF
<1> QED BY <1>3, <1>4 DEF a

LEMMA LiveF ==
  ASSUME NEW g \in Cards, NEW m \in Live(g), NEW f \in FileObjects, FileOk(f, g)
  PROVE  LET a == SetF(m, f) IN a \in Live(g) /\ a.f = f /\ OnlyF(m, a)
<1> DEFINE a == SetF(m, f)
<1>1. a \in Work(g) /\ a.f = f /\ OnlyF(m, a)
  BY WorkF DEF Live
<1> HIDE DEF a
<1> QED BY <1>1 DEF Live, a, OnlyF, SameCard

LEMMA ZeroOffset == 0 % SecSize = 0
BY GeometryAssumption

LEMMA ClosedOk ==
  ASSUME NEW g \in Cards
  PROVE  Closed \in FileObjects /\ FileOk(Closed, g)
BY ZeroOffset DEF Closed, FileObjects, FileOk, Offset, Flags

LEMMA ValidateOk ==
  ASSUME NEW g \in Cards, NEW m \in Work(g), NEW o
  PROVE  LET a == validate(m, o) IN a \in Work(g) /\ Beside(m, a) /\ SameCard(m, a) /\ (a.res = "OK" => a \in Live(g))
<1> DEFINE i == Fail(m, "INVALID_OBJECT")
           n == Fail(m, "NOT_READY")
           k == Ok(m)
<1>1. validate(m, o) = IF ~o.open \/ m.type = "none" \/ o.id # m.id THEN i ELSE IF ~m.ready THEN n ELSE k
  BY DEF validate
<1>2. i \in Work(g) /\ Beside(m, i) /\ SameCard(m, i) /\ i.res # "OK"
  BY FailOk DEF Results
<1>3. n \in Work(g) /\ Beside(m, n) /\ SameCard(m, n) /\ n.res # "OK"
  BY FailOk DEF Results
<1>4. k \in Work(g) /\ Beside(m, k) /\ SameCard(m, k)
  BY OkOk
<1> HIDE DEF i, n, k
<1> QED BY <1>1, <1>2, <1>3, <1>4 DEF Live, SameCard

LEMMA UsableOk ==
  ASSUME NEW g \in Cards, NEW m \in Work(g), NEW access
  PROVE  LET a == Usable(m, access) IN
         a \in Work(g) /\ Beside(m, a)
         /\ (a.res = "OK" => a \in Live(g) /\ "ERROR" \notin a.f.flag /\ access \subseteq a.f.flag)
<1> DEFINE b == validate(m, m.f)
           i == Fail(b, "INT_ERR")
           n == Fail(b, "DENIED")
<1>1. Usable(m, access) = IF b.res = "OK" THEN IF "ERROR" \in b.f.flag THEN i
                                               ELSE IF access \subseteq b.f.flag THEN b ELSE n
                          ELSE b
  BY DEF Usable, Then
<1>2. b \in Work(g) /\ Beside(m, b) /\ (b.res = "OK" => b \in Live(g))
  BY ValidateOk
<1> HIDE DEF b
<1>3. i \in Work(g) /\ Beside(b, i) /\ i.res # "OK"
  BY <1>2, FailOk DEF Results
<1>4. n \in Work(g) /\ Beside(b, n) /\ n.res # "OK"
  BY <1>2, FailOk DEF Results
<1> HIDE DEF i, n
<1> QED BY <1>1, <1>2, <1>3, <1>4 DEF Beside, Keeps

LEMMA NotStartOk ==
  ASSUME NEW g \in Cards, NEW m \in Work(g), m.res \in {"OK", "NO_FILE"} => m \in Live(g),
         m.res = "OK" => AtGoal(m, g)
  PROVE  LET a == NotStart(m) IN
         /\ a \in Work(g) /\ (a.res \in {"OK", "NO_FILE"} => a \in Live(g))
         /\ (a.res = "OK" => OnEntry(a, g))
<1> DEFINE f == Fail(m, "INVALID_NAME")
<1>1. NotStart(m) = IF m.res = "OK" THEN IF m.dj.dir = Self THEN f ELSE m ELSE m
  BY DEF NotStart, Then
<1>2. f \in Work(g) /\ f.res = "INVALID_NAME"
  BY FailOk DEF Results
<1> HIDE DEF f
<1> QED BY <1>1, <1>2 DEF AtGoal

LEMMA ResolveEntryOk ==
  ASSUME NEW g \in Cards, NEW m \in Work(g), NEW path \in Paths
  PROVE  LET a == ResolveEntry(m, path) IN
         /\ a \in Work(g) /\ (a.res = "OK" => a \in Live(g) /\ OnEntry(a, g))
<1> DEFINE b == Resolve(m, path)
           f == Fail(b, "INVALID_NAME")
           n == NotStart(b)
<1>1. ResolveEntry(m, path) = IF b.res = "OK" THEN IF b.dj.fn.dot THEN f ELSE n ELSE b
  BY DEF ResolveEntry, Then
<1>2. /\ b \in Work(g) /\ (b.res \in {"OK", "NO_FILE"} => b \in Live(g))
      /\ (b.res = "OK" => AtGoal(b, g))
  BY ResolveOk
<1> HIDE DEF b
<1>3. f \in Work(g) /\ f.res = "INVALID_NAME"
  BY <1>2, FailOk DEF Results
<1>4. n \in Work(g) /\ (n.res \in {"OK", "NO_FILE"} => n \in Live(g)) /\ (n.res = "OK" => OnEntry(n, g))
  BY <1>2, NotStartOk
<1> HIDE DEF f, n
<1> QED BY <1>1, <1>2, <1>3, <1>4

(* f_open.                                                                  *)
Ends(a, g) == a \in Work(g) /\ (a.res = "OK" => a \in Live(g) /\ OnEntry(a, g))
SetTaken(m, v) == [m EXCEPT !.last = v]
LEMMA TakenOk ==
  ASSUME NEW g \in Cards, NEW m \in Live(g), NEW v \in Int
  PROVE  LET a == SetTaken(m, v) IN a \in Live(g) /\ Keeps(m, a) /\ SameCard(m, a)
<1> DEFINE a == SetTaken(m, v)
<1>1. m \in State /\ m \in Work(g)
  BY DEF Live, Work
<1>2. a \in State
  BY <1>1 DEF State, SetTaken
<1>3. Keeps(m, a)
  BY <1>1 DEF State, SetTaken, Keeps
<1>4. SameCard(m, a)
  BY <1>1 DEF State, SetTaken, SameCard
<1> HIDE DEF a
<1>5. a \in Work(g)
  BY <1>1, <1>2, <1>3, <1>4, StaysWork DEF Keeps
<1> QED BY <1>3, <1>4, <1>5 DEF Live, Keeps, a

LEMMA EntryHere ==
  ASSUME NEW g \in Cards, NEW m \in Live(g), OnEntry(m, g)
  PROVE  EntryAt(m) \in Entry /\ m.dj.dir \in 0..DirPer-1 /\ EntryAt(m).clust \in Nat
         /\ EntryAt(m).size \in Nat /\ EntryAt(m).name \in Spellings /\ EntryAt(m).attr \in SUBSET Attrs
<1>1. m \in Work(g) /\ m.dj.dir # Self
  BY DEF Live, OnEntry
<1>2. EntryAt(m) \in Entry /\ m.dj.dir \in 0..DirPer-1
  BY <1>1, EntryOk
<1> QED BY <1>2 DEF Entry

LEMMA EmptiedOk ==
  ASSUME NEW g \in Cards, ~g.still, NEW m \in Live(g), OnEntry(m, g)
  PROVE  LET a == Emptied(m) IN
         a \in Live(g) /\ Beside(m, a) /\ a.res = m.res /\ OnEntry(a, g) /\ a.winsect = m.winsect
<1> DEFINE o == EntryAt(m)
           e == [o EXCEPT !.attr = {}, !.size = 0, !.clust = 0]
<1>1. o \in Entry
  BY EntryHere
<1> HIDE DEF o
<1>2. e \in Entry
  BY <1>1 DEF Entry
<1> HIDE DEF e
<1>3. LET a == PutEntry(m, e) IN
         a \in Live(g) /\ Beside(m, a) /\ a.res = m.res /\ a.val = m.val /\ OnEntry(a, g)
         /\ a.winsect = m.winsect
  BY <1>2, PutEntryOk
<1> QED BY <1>3 DEF Emptied, e, o

LEMMA OverwriteOk ==
  ASSUME NEW g \in Cards, ~g.still, NEW m \in Live(g), OnEntry(m, g)
  PROVE  Ends(Overwrite(m), g)
<1> DEFINE c == EntryAt(m).clust
           p == Emptied(m)
           a == remove_chain(p, c)
           v == c - 1
           b == SetTaken(a, v)
           d == move_window(b, m.winsect)
<1>1. Overwrite(m) = IF c = 0 THEN p ELSE IF a.res = "OK" THEN d ELSE a
  BY DEF Overwrite, Then, SetTaken
<1>2. c \in Nat /\ m.winsect \in Sectors /\ RootBase(g) <= m.winsect /\ m.dj.dir # Self /\ ~Copy(g, m.winsect)
  <2>1. c \in Nat /\ m.winsect \in Sectors /\ RootBase(g) <= m.winsect /\ m.dj.dir # Self
    BY EntryHere DEF OnEntry
  <2> QED BY <2>1 DEF Live, Work, Card, WindowOk
<1>3. p \in Live(g) /\ Beside(m, p) /\ p.res = m.res /\ OnEntry(p, g) /\ p.winsect = m.winsect
  BY EmptiedOk
<1> HIDE DEF p, c
<1>4. a \in Live(g) /\ Keeps(p, a)
  BY <1>2, <1>3, RemoveChain
<1> HIDE DEF a
<1>5. v \in Int
  BY <1>2
<1> HIDE DEF v
<1>6. b \in Live(g) /\ Keeps(a, b)
  BY <1>4, <1>5, TakenOk
<1> HIDE DEF b
<1>7. d \in Live(g) /\ Keeps(b, d) /\ (d.res = "OK" => d.winsect = m.winsect)
  BY <1>2, <1>6, LiveWindow
<1> HIDE DEF d
<1>8. Ends(p, g) /\ (a.res # "OK" => Ends(a, g))
  BY <1>3, <1>4 DEF Ends, Live
<1>9. Ends(d, g)
  <2>1. d.dj = m.dj
    BY <1>3, <1>4, <1>6, <1>7 DEF Keeps, Beside
  <2> QED BY <1>2, <1>7, <2>1 DEF Ends, OnEntry, Live
<1> QED BY <1>1, <1>8, <1>9

LEMMA MayCreateOk ==
  ASSUME NEW g \in Cards, ~g.still, NEW m \in Work(g), m.res \in {"OK", "NO_FILE"} => m \in Live(g),
         m.res = "OK" => OnEntry(m, g), NEW mode
  PROVE  Ends(MayCreate(m, mode), g)
<1> DEFINE r == dir_register(m)
           d == Fail(m, "DENIED")
           x == Fail(m, "EXIST")
<1>1. MayCreate(m, mode) \in {r, m, d, x} /\ (m.res # "NO_FILE" => MayCreate(m, mode) # r \/ MayCreate(m, mode) \in {m, d, x})
  BY DEF MayCreate
<1>2. m.res = "NO_FILE" => Ends(r, g)
  <2>1. SUFFICES ASSUME m.res = "NO_FILE" PROVE Ends(r, g)
    OBVIOUS
  <2>2. m \in Live(g)
    BY <2>1
  <2>3. r \in Live(g) /\ (r.res = "OK" => OnEntry(r, g))
    BY <2>2, DirRegister
  <2> QED BY <2>3 DEF Ends, Live
<1>3. Ends(m, g)
  BY DEF Ends
<1>4. Ends(d, g)
  <2>1. d \in Work(g) /\ d.res = "DENIED"
    BY FailOk DEF Results
  <2> QED BY <2>1 DEF Ends
<1>5. Ends(x, g)
  <2>1. x \in Work(g) /\ x.res = "EXIST"
    BY FailOk DEF Results
  <2> QED BY <2>1 DEF Ends
<1> HIDE DEF r, d, x
<1> QED BY <1>1, <1>2, <1>3, <1>4, <1>5

LEMMA MayOpenOk ==
  ASSUME NEW g \in Cards, NEW m \in Work(g), Ends(m, g), NEW mode
  PROVE  Ends(MayOpen(m, mode), g)
<1> DEFINE d == Fail(m, "DENIED")
           x == Fail(m, "NO_FILE")
<1>1. MayOpen(m, mode) \in {m, d, x}
  BY DEF MayOpen, Then
<1>4. Ends(d, g)
  <2>1. d \in Work(g) /\ d.res = "DENIED"
    BY FailOk DEF Results
  <2> QED BY <2>1 DEF Ends
<1>5. Ends(x, g)
  <2>1. x \in Work(g) /\ x.res = "NO_FILE"
    BY FailOk DEF Results
  <2> QED BY <2>1 DEF Ends
<1> HIDE DEF d, x
<1> QED BY <1>1, <1>4, <1>5

LEMMA FOpen ==
  ASSUME NEW g \in Cards, ~g.still, NEW m \in Work(g), NEW path \in Paths, NEW mode
  PROVE  f_open(m, path, mode) \in Work(g)
<1> DEFINE m0 == SetF(m, Closed)
           r == Resolve(m0, path)
           a == NotStart(r)
           fresh == Creating(mode) /\ (a.res # "OK" \/ "ALWAYS" \in mode)
           b == IF Creating(mode) THEN MayCreate(a, mode) ELSE MayOpen(a, mode)
           c == IF b.res = "OK" THEN IF fresh THEN Overwrite(b) ELSE b ELSE b
           f == [Closed EXCEPT !.open = TRUE, !.id = c.id, !.dir_sect = c.winsect,
                !.flag = (mode \cap {"R", "W"}) \cup IF fresh THEN {"WRITTEN"} ELSE {},
                !.dir_ptr = c.dj.dir, !.sclust = EntryAt(c).clust,
                !.fsize = EntryAt(c).size]
           z == SetF(c, f)
<1>1. f_open(m, path, mode) = IF c.res = "OK" THEN z ELSE c
  BY DEF f_open, After, Then, SetF
<1>2. m0 \in Work(g)
  BY ClosedOk, WorkF
<1> HIDE DEF m0
<1>3. /\ r \in Work(g) /\ (r.res \in {"OK", "NO_FILE"} => r \in Live(g))
      /\ (r.res = "OK" => AtGoal(r, g))
  BY <1>2, ResolveOk
<1> HIDE DEF r
<1>4. /\ a \in Work(g) /\ (a.res \in {"OK", "NO_FILE"} => a \in Live(g))
      /\ (a.res = "OK" => OnEntry(a, g))
  BY <1>3, NotStartOk
<1> HIDE DEF a
<1>5. Ends(b, g)
  <2>1. Ends(a, g)
    BY <1>4 DEF Ends
  <2>2. Ends(MayCreate(a, mode), g)
    BY <1>4, MayCreateOk
  <2>3. Ends(MayOpen(a, mode), g)
    BY <1>4, <2>1, MayOpenOk
  <2> QED BY <2>2, <2>3
<1> HIDE DEF b, fresh
<1>6. Ends(c, g)
  <2>1. b.res = "OK" => Ends(Overwrite(b), g)
    BY <1>5, OverwriteOk DEF Ends
  <2> QED BY <1>5, <2>1
<1> HIDE DEF c
<1>7. c.res = "OK" => z \in Work(g)
  <2>1. SUFFICES ASSUME c.res = "OK" PROVE z \in Work(g)
    OBVIOUS
  <2>2. c \in Live(g) /\ OnEntry(c, g) /\ c \in Work(g)
    BY <1>6, <2>1 DEF Ends, Live
  <2> DEFINE q == EntryAt(c)
             fl == (mode \cap {"R", "W"}) \cup IF fresh THEN {"WRITTEN"} ELSE {}
             h == [Closed EXCEPT !.open = TRUE, !.id = c.id, !.dir_sect = c.winsect,
                !.flag = fl, !.dir_ptr = c.dj.dir, !.sclust = q.clust, !.fsize = q.size]
  <2>3. q.clust \in Nat /\ q.size \in Nat /\ c.dj.dir \in 0..DirPer-1 /\ c.winsect \in Sectors
        /\ RootBase(g) <= c.winsect /\ c.id \in Int
    BY <2>2, EntryHere DEF OnEntry, Work, State
  <2>4. fl \in SUBSET Flags
    BY DEF Flags
  <2>5. f = h
    OBVIOUS
  <2> HIDE DEF q, fl, f
  <2>6. DirPer \in Nat /\ LastSector \in Int
    BY GeometryAssumption, Regions
  <2>7. h \in FileObjects
    <3>1. Closed \in FileObjects /\ c.winsect \in Int /\ c.dj.dir \in Int
      BY <2>3, <2>6, ClosedOk DEF Sectors
    <3> QED BY <2>3, <2>4, <3>1 DEF FileObjects
  <2>8. FileOk(h, g)
    <3>1. h.fptr = 0 /\ h.dir_sect = c.winsect /\ h.dir_ptr = c.dj.dir
      <4>1. Closed \in FileObjects /\ Closed.fptr = 0
        BY ClosedOk DEF Closed
      <4> QED BY <4>1 DEF FileObjects
    <3>2. Offset(h) = 0
      BY <3>1, ZeroOffset DEF Offset
    <3> HIDE DEF h
    <3> QED BY <2>3, <3>1, <3>2 DEF FileOk
  <2> HIDE DEF h
  <2> QED BY <2>2, <2>5, <2>7, <2>8, WorkF
<1> HIDE DEF z
<1> QED BY <1>1, <1>6, <1>7 DEF Ends

-----------------------------------------------------------------------------
(* The length of a chunk, and buffers.                                     *)

LEMMA Remainder ==
  ASSUME NEW n \in Nat \ {0}, NEW p \in Nat, NEW k \in Nat
  PROVE  (p + k * n) % n = p % n /\ k * n \in Nat
<1> DEFINE S == {i \in Nat : i * n \in Nat /\ (p + i * n) % n = p % n}
<1>1. 0 \in S
  OBVIOUS
<1>2. ASSUME NEW i \in Nat, i \in S PROVE i + 1 \in S
  <2> DEFINE q == i * n
  <2>1. (i + 1) * n = q + n
    OBVIOUS
  <2>2. q \in Nat /\ (p + q) % n = p % n
    BY <1>2
  <2> HIDE DEF q
  <2>3. ASSUME NEW r \in Nat PROVE (r + n) % n = r % n
    <3> DEFINE a == r \div n
               b == r % n
               c == (r + n) \div n
               d == (r + n) % n
    <3>1. a \in Nat /\ b \in 0..n-1 /\ r = n * a + b
      BY Divided
    <3>2. c \in Nat /\ d \in 0..n-1 /\ r + n = n * c + d
      <4>1. r + n \in Nat
        OBVIOUS
      <4> QED BY <4>1, Divided
    <3> HIDE DEF a, b, c, d
    <3>3. n * (a + 1) = n * a + n /\ n * a \in Int /\ n * c \in Int
      <4>1. n * (a + 1) = n * a + n
        BY <3>1
      <4> QED BY <3>1, <3>2, <4>1, Times
    <3>4. c < a + 1 => n * c + n <= n * a + n
      BY <3>1, <3>2, <3>3, Times
    <3>5. a + 1 < c => n * a + n + n <= n * c
      BY <3>1, <3>2, <3>3, Times
    <3>6. c = a + 1
      BY <3>1, <3>2, <3>3, <3>4, <3>5
    <3>7. d = b
      BY <3>1, <3>2, <3>3, <3>6
    <3> QED BY <3>7 DEF b, d
  <2>4. (p + (q + n)) % n = p % n
    <3>1. p + (q + n) = (p + q) + n /\ p + q \in Nat
      BY <2>2
    <3> QED BY <2>2, <2>3, <3>1
  <2> QED BY <2>1, <2>2, <2>4
<1> HIDE DEF S
<1>3. \A i \in Nat : i \in S
  BY <1>1, <1>2, SetInduction
<1> QED BY <1>3 DEF S

LEMMA Sequence ==
  ASSUME NEW S, NEW n \in Int, NEW f \in [1..n -> S]
  PROVE  f \in Seq(S)
<1>1. CASE n >= 0
  <2>1. n \in Nat
    BY <1>1
  <2> QED BY <2>1
<1>2. CASE n < 0
  <2>1. 1..n = 1..0
    BY <1>2
  <2> QED BY <2>1
<1> QED BY <1>1, <1>2

SetBuf(m, b, w) == [m EXCEPT !.buf = b, !.want = w]
LEMMA BufOk ==
  ASSUME NEW g \in Cards, NEW m \in Work(g), NEW b \in Bufs, NEW w \in Int
  PROVE  LET a == SetBuf(m, b, w) IN
         a \in Work(g) /\ SameCard(m, a) /\ a.buf = b /\ a.want = w /\ a.f = m.f /\ a.dj = m.dj
         /\ a.stop = m.stop /\ a.res = m.res /\ a.val = m.val
<1> DEFINE a == SetBuf(m, b, w)
<1>1. m \in State
  BY DEF Work
<1>2. a \in State
  BY <1>1 DEF State, SetBuf
<1>3. a.buf = b /\ a.want = w /\ a.f = m.f /\ a.dj = m.dj /\ a.stop = m.stop /\ a.res = m.res /\ a.val = m.val
  BY <1>1 DEF State, SetBuf
<1>4. SameCard(m, a)
  BY <1>1 DEF State, SetBuf, SameCard
<1> HIDE DEF a
<1>5. a \in Work(g)
  BY <1>2, <1>3, <1>4, StaysWork
<1> QED BY <1>3, <1>4, <1>5 DEF a

LEMMA LiveBuf ==
  ASSUME NEW g \in Cards, NEW m \in Live(g), NEW b \in Bufs, NEW w \in Int
  PROVE  LET a == SetBuf(m, b, w) IN
         a \in Live(g) /\ SameCard(m, a) /\ a.buf = b /\ a.want = w /\ a.f = m.f /\ a.dj = m.dj
         /\ a.stop = m.stop /\ a.res = m.res /\ a.val = m.val
<1> DEFINE a == SetBuf(m, b, w)
<1>1. a \in Work(g) /\ SameCard(m, a) /\ a.buf = b /\ a.want = w /\ a.f = m.f /\ a.dj = m.dj
         /\ a.stop = m.stop /\ a.res = m.res /\ a.val = m.val
  BY BufOk DEF Live
<1> HIDE DEF a
<1> QED BY <1>1 DEF Live, SameCard, a

(* A step of a read, a write or a seek that fails kills the file object.    *)
LEMMA AbortOk ==
  ASSUME NEW g \in Cards, NEW m \in Live(g), NEW r \in Results
  PROVE  LET a == Abort(m, r) IN
         /\ a \in Live(g) /\ a.stop /\ a.res = r /\ a.f.fptr = m.f.fptr /\ a.want = m.want /\ a.buf = m.buf
         /\ a.f.fsize = m.f.fsize /\ a.f.open = m.f.open /\ "ERROR" \in a.f.flag
<1> DEFINE s == Stop(m, r)
           fl == s.f.flag \cup {"ERROR"}
           f == [s.f EXCEPT !.flag = fl]
           a == SetF(s, f)
<1>1. Abort(m, r) = a
  BY DEF Abort, SetF
<1>2. s \in Live(g) /\ Keeps(m, s) /\ s.stop /\ s.res = r
  BY LiveStop
<1> HIDE DEF s
<1>3. s.f \in FileObjects /\ FileOk(s.f, g)
  BY <1>2 DEF Live, Work, State
<1>4. fl \in SUBSET Flags /\ "ERROR" \in fl
  BY <1>3 DEF FileObjects, Flags
<1> HIDE DEF fl
<1>5. f \in FileObjects /\ f.flag = fl /\ f.fptr = s.f.fptr /\ f.fsize = s.f.fsize /\ f.open = s.f.open
      /\ f.dir_sect = s.f.dir_sect /\ f.dir_ptr = s.f.dir_ptr
  BY <1>3, <1>4 DEF FileObjects
<1> HIDE DEF f
<1>6. FileOk(f, g)
  BY <1>3, <1>4, <1>5 DEF FileOk
<1>7. a \in Live(g) /\ a.f = f /\ OnlyF(s, a)
  BY <1>2, <1>5, <1>6, LiveF
<1> HIDE DEF a
<1> QED BY <1>1, <1>2, <1>4, <1>5, <1>7 DEF OnlyF, Keeps

(* The file pointer moves on.                                               *)
LEMMA MovedOk ==
  ASSUME NEW g \in Cards, NEW m \in Live(g), NEW n \in Int, m.f.fptr + n \in Nat,
         Offset(m.f) # 0 \/ (m.f.fptr + n) % SecSize # 0 => InData(g, m.f.dsect)
  PROVE  LET a == Moved(m, n) IN
         /\ a \in Live(g) /\ OnlyF(m, a) /\ a.f.fptr = m.f.fptr + n /\ a.f.flag = m.f.flag
         /\ a.f.fsize = m.f.fsize /\ a.f.dsect = m.f.dsect /\ a.f.clust = m.f.clust
<1> DEFINE p == m.f.fptr + n
           f == [m.f EXCEPT !.fptr = p]
           a == SetF(m, f)
<1>1. Moved(m, n) = a
  BY DEF Moved, SetF
<1>2. p \in Nat /\ (p % SecSize # 0 => InData(g, m.f.dsect))
  OBVIOUS
<1>3. m.f \in FileObjects /\ FileOk(m.f, g)
  BY DEF Live, Work, State
<1> HIDE DEF p
<1>4. /\ f \in FileObjects /\ f.fptr = p /\ f.flag = m.f.flag /\ f.fsize = m.f.fsize /\ f.open = m.f.open
      /\ f.dsect = m.f.dsect /\ f.dir_sect = m.f.dir_sect /\ f.dir_ptr = m.f.dir_ptr
      /\ f.clust = m.f.clust
  BY <1>2, <1>3 DEF FileObjects
<1> HIDE DEF f
<1>5. FileOk(f, g)
  BY <1>2, <1>3, <1>4 DEF FileOk, Offset
<1>6. a \in Live(g) /\ a.f = f /\ OnlyF(m, a)
  BY <1>4, <1>5, LiveF
<1> HIDE DEF a
<1> QED BY <1>1, <1>4, <1>6 DEF p

LEMMA ClustOk ==
  ASSUME NEW g \in Cards, NEW m \in Live(g), NEW c \in Nat
  PROVE  LET a == [m EXCEPT !.f.clust = c] IN
         a \in Live(g) /\ OnlyF(m, a) /\ a.f.fptr = m.f.fptr /\ a.f.flag = m.f.flag
         /\ a.f.fsize = m.f.fsize /\ a.f.dsect = m.f.dsect /\ a.f.clust = c
<1> DEFINE f == [m.f EXCEPT !.clust = c]
           a == SetF(m, f)
<1>1. [m EXCEPT !.f.clust = c] = a
  BY DEF SetF
<1>3. m.f \in FileObjects /\ FileOk(m.f, g)
  BY DEF Live, Work, State
<1>4. /\ f \in FileObjects /\ f.fptr = m.f.fptr /\ f.flag = m.f.flag /\ f.fsize = m.f.fsize /\ f.open = m.f.open
      /\ f.dsect = m.f.dsect /\ f.dir_sect = m.f.dir_sect /\ f.dir_ptr = m.f.dir_ptr /\ f.clust = c
  BY <1>3 DEF FileObjects
<1> HIDE DEF f
<1>5. FileOk(f, g)
  BY <1>3, <1>4 DEF FileOk, Offset
<1>6. a \in Live(g) /\ a.f = f /\ OnlyF(m, a)
  BY <1>4, <1>5, LiveF
<1> HIDE DEF a
<1> QED BY <1>1, <1>4, <1>6

LEMMA DsectOk ==
  ASSUME NEW g \in Cards, NEW m \in Live(g), NEW s \in Int, Offset(m.f) # 0 => InData(g, s)
  PROVE  LET a == [m EXCEPT !.f.dsect = s] IN
         a \in Live(g) /\ OnlyF(m, a) /\ a.f.fptr = m.f.fptr /\ a.f.flag = m.f.flag
         /\ a.f.fsize = m.f.fsize /\ a.f.dsect = s /\ a.f.clust = m.f.clust
<1> DEFINE f == [m.f EXCEPT !.dsect = s]
           a == SetF(m, f)
<1>1. [m EXCEPT !.f.dsect = s] = a
  BY DEF SetF
<1>3. m.f \in FileObjects /\ FileOk(m.f, g)
  BY DEF Live, Work, State
<1>4. /\ f \in FileObjects /\ f.fptr = m.f.fptr /\ f.flag = m.f.flag /\ f.fsize = m.f.fsize /\ f.open = m.f.open
      /\ f.dsect = s /\ f.dir_sect = m.f.dir_sect /\ f.dir_ptr = m.f.dir_ptr /\ f.clust = m.f.clust
  BY <1>3 DEF FileObjects
<1> HIDE DEF f
<1>5. FileOk(f, g)
  BY <1>3, <1>4 DEF FileOk, Offset
<1>6. a \in Live(g) /\ a.f = f /\ OnlyF(m, a)
  BY <1>4, <1>5, LiveF
<1> HIDE DEF a
<1> QED BY <1>1, <1>4, <1>6

-----------------------------------------------------------------------------
(* f_read: one sector.                                                     *)

(* A read, a write or a seek between two turns of its loop.                 *)
Alike(m, a) ==
  /\ a.f.fptr = m.f.fptr /\ a.f.flag = m.f.flag /\ a.f.fsize = m.f.fsize /\ a.f.dsect = m.f.dsect
  /\ a.want = m.want /\ a.buf = m.buf /\ a.stop = m.stop
InRead(g) == {y \in Live(g) : y.f.fptr + y.want \in Nat /\ (~y.stop => "ERROR" \notin y.f.flag)}
LEMMA OffsetIs ==
  ASSUME NEW g \in Cards, NEW m \in Live(g)
  PROVE  /\ m.f.fptr \in Nat /\ m.f.fsize \in Nat /\ m.f.clust \in Nat /\ m.f.sclust \in Nat
         /\ m.f.dsect \in Int /\ m.want \in Int
         /\ m.buf \in Bufs /\ Offset(m.f) \in 0..SecSize-1 /\ SecSize \in Nat \ {0}
         /\ m.f.flag \in SUBSET Flags
         /\ "ERROR" \notin m.f.flag /\ Offset(m.f) # 0 => InData(g, m.f.dsect)
<1>1. m.f \in FileObjects /\ FileOk(m.f, g) /\ m.want \in Int /\ m.buf \in Bufs
  BY DEF Live, Work, State
<1>2. m.f.fptr \in Nat /\ m.f.fsize \in Nat /\ m.f.clust \in Nat /\ m.f.sclust \in Nat /\ m.f.dsect \in Int
      /\ m.f.flag \in SUBSET Flags
  BY <1>1 DEF FileObjects
<1>3. SecSize \in Nat \ {0}
  BY GeometryAssumption
<1>4. Offset(m.f) \in 0..SecSize-1
  <2> DEFINE x == m.f.fptr
  <2>1. x \in Int
    BY <1>2
  <2> HIDE DEF x
  <2>2. x % SecSize \in 0..SecSize-1
    BY <1>3, <2>1, Mod
  <2> QED BY <2>2 DEF Offset, x
<1> QED BY <1>1, <1>2, <1>3, <1>4 DEF FileOk

LEMMA ReadClusterOk ==
  ASSUME NEW g \in Cards, NEW m \in Live(g)
  PROVE  LET a == ReadCluster(m) IN a \in Live(g) /\ Alike(m, a) /\ a.res \in Results
<1> DEFINE v == SetVal(m, m.f.sclust)
           w == get_fat(m, m.f.clust)
           b == IF m.f.fptr = 0 THEN v ELSE w
           i == Fail(b, "INT_ERR")
           d == Fail(b, "DISK_ERR")
           o == Ok(b)
           c == b.val
           e == [o EXCEPT !.f.clust = c]
<1>1. ReadCluster(m) = IF c < 2 THEN i ELSE IF c = DERR THEN d ELSE e
  BY DEF ReadCluster, After, SetVal
<1>2. m \in Work(g) /\ m.type # "none" /\ m.f.clust \in Nat /\ m.f.sclust \in Nat
  BY OffsetIs DEF Live
<1>3. v \in Work(g) /\ Beside(m, v) /\ v.val \in Nat
  BY <1>2, ValOk
<1>4. w \in Work(g) /\ Beside(m, w) /\ w.val \in Nat
  BY <1>2, GetFat
<1> HIDE DEF v, w
<1>5. b \in Live(g) /\ Beside(m, b) /\ c \in Nat
  BY <1>2, <1>3, <1>4 DEF Live, Beside, Keeps
<1> HIDE DEF b, c
<1>6. i \in Live(g) /\ Beside(b, i) /\ i.res = "INT_ERR"
  BY <1>5, LiveFail DEF Results
<1>7. d \in Live(g) /\ Beside(b, d) /\ d.res = "DISK_ERR"
  BY <1>5, LiveFail DEF Results
<1>8. o \in Live(g) /\ Beside(b, o) /\ o.res = "OK"
  BY <1>5, LiveOk
<1> HIDE DEF i, d, o
<1>9. /\ e \in Live(g) /\ OnlyF(o, e) /\ e.f.fptr = o.f.fptr /\ e.f.flag = o.f.flag
      /\ e.f.fsize = o.f.fsize /\ e.f.dsect = o.f.dsect
  BY <1>5, <1>8, ClustOk
<1> HIDE DEF e
<1>10. Alike(m, i) /\ Alike(m, d) /\ Alike(m, e)
  BY <1>5, <1>6, <1>7, <1>8, <1>9 DEF Alike, OnlyF, Beside, Keeps
<1>11. i.res \in Results /\ d.res \in Results /\ e.res \in Results
  BY <1>6, <1>7, <1>9 DEF Live, Work, State
<1> QED BY <1>1, <1>6, <1>7, <1>9, <1>10, <1>11

LEMMA SliceOk ==
  ASSUME NEW b \in [0..SecSize-1 -> Int], NEW o \in 0..SecSize-1, NEW n \in Int, n <= SecSize - o
  PROVE  Slice(b, o, n) \in Bufs
<1> DEFINE s == [i \in 1..n |-> b[o + i - 1]]
<1>0. SecSize \in Nat
  BY GeometryAssumption
<1>1. s \in [1..n -> Int \cup Spellings]
  <2>1. ASSUME NEW i \in 1..n PROVE b[o + i - 1] \in Int
    <3>1. o + i - 1 \in 0..SecSize-1
      BY <1>0
    <3> QED BY <3>1
  <2> QED BY <2>1
<1> HIDE DEF s
<1>2. s \in Seq(Int \cup Spellings)
  BY <1>1, Sequence
<1> QED BY <1>2 DEF Bufs, Slice, s

LEMMA Joined ==
  ASSUME NEW s \in Bufs, NEW t \in Bufs
  PROVE  s \o t \in Bufs
<1> DEFINE S == Int \cup Spellings
<1>1. \A x, y \in Seq(S) : x \o y \in Seq(S)
  <2> HIDE DEF S
  <2> QED BY ConcatProperties
<1> QED BY <1>1 DEF Bufs

LEMMA ReadPartOk ==
  ASSUME NEW g \in Cards, NEW m \in InRead(g), ~m.stop, InData(g, m.f.dsect)
  PROVE  ReadPart(m) \in InRead(g)
<1> DEFINE a == move_window(m, m.f.dsect)
           n == Least(SecSize - Offset(m.f), m.want)
           b == Moved(a, n)
           t == Slice(AsData(a.win).b, Offset(m.f), n)
           u == m.buf \o t
           w == m.want - n
           c == SetBuf(b, u, w)
           d == Abort(a, a.res)
           z == ReadPart(m)
<1>1. m \in Live(g) /\ m.f.fptr + m.want \in Nat /\ "ERROR" \notin m.f.flag /\ m.want \in Int
      /\ m.f.fptr \in Nat /\ Offset(m.f) \in 0..SecSize-1 /\ SecSize \in Nat \ {0} /\ m.f.dsect \in Int
      /\ m.buf \in Bufs
  BY OffsetIs DEF InRead
<1>2. m.f.dsect \in Sectors /\ ~Copy(g, m.f.dsect)
  BY <1>1, InDataIs
<1>3. a \in Live(g) /\ Beside(m, a) /\ Keeps(m, a) /\ a.res \in Results
  BY <1>1, <1>2, LiveWindow
<1>4. z = IF a.res = "OK" THEN [Moved(a, n) EXCEPT !.want = @ - n, !.buf = @ \o t] ELSE d
  BY DEF ReadPart, OrAbort
<1> HIDE DEF a, z
<1>5. n \in Int /\ m.f.fptr + n \in Nat /\ n <= SecSize - Offset(m.f)
  <2> DEFINE o == Offset(m.f)
  <2>1. o \in 0..SecSize-1
    BY <1>1
  <2> HIDE DEF o
  <2>2. Least(SecSize - o, m.want) \in Int /\ m.f.fptr + Least(SecSize - o, m.want) \in Nat
        /\ Least(SecSize - o, m.want) <= SecSize - o
    BY <1>1, <2>1 DEF Least
  <2> QED BY <2>2 DEF o
<1> HIDE DEF n
<1>6. /\ b \in Live(g) /\ OnlyF(a, b) /\ b.f.fptr = a.f.fptr + n /\ b.f.flag = a.f.flag
  <2>1. a.f = m.f
    BY <1>3 DEF Keeps
  <2> QED BY <1>3, <1>5, <2>1, MovedOk
<1> HIDE DEF b
<1>7. b.want = m.want /\ b.buf = m.buf /\ b.f.fptr = m.f.fptr + n /\ b.f.flag = m.f.flag /\ ~b.stop
  BY <1>3, <1>6 DEF OnlyF, Keeps, Beside
<1>8. t \in Bufs
  <2>1. a.win \in Content
    BY <1>3 DEF Live, Work, State
  <2>2. AsData(a.win).b \in [0..SecSize-1 -> Int]
    BY <2>1, Shown DEF DataContent
  <2> QED BY <1>1, <1>5, <2>2, SliceOk
<1> HIDE DEF t
<1>9. u \in Bufs /\ w \in Int
  BY <1>1, <1>5, <1>8, Joined
<1>10. [Moved(a, n) EXCEPT !.want = @ - n, !.buf = @ \o t] = c
  BY <1>7 DEF b, SetBuf
<1> HIDE DEF u
<1>11. c \in Live(g) /\ c.want = w /\ c.f = b.f /\ c.stop = b.stop
  BY <1>6, <1>9, LiveBuf
<1>12. c \in InRead(g)
  <2>1. c.f.fptr + c.want = m.f.fptr + m.want
    BY <1>1, <1>5, <1>7, <1>11
  <2> QED BY <1>1, <1>7, <1>11, <2>1 DEF InRead
<1> HIDE DEF c, w
<1>13. d \in InRead(g)
  <2>1. d \in Live(g) /\ d.stop /\ d.f.fptr = a.f.fptr /\ d.want = a.want
    BY <1>3, AbortOk
  <2> HIDE DEF d
  <2> QED BY <1>1, <1>3, <2>1 DEF InRead, Keeps
<1> QED BY <1>4, <1>10, <1>12, <1>13 DEF z

LEMMA ViewOk ==
  ASSUME NEW g \in Cards, NEW m \in Live(g)
  PROVE  View(m) \in [Sectors -> Content]
BY DEF Live, Work, State, View, Put

LEMMA SpentLive ==
  ASSUME NEW g \in Cards, NEW m \in Live(g)
  PROVE  LET a == Spent(m) IN a \in Live(g) /\ Beside(m, a) /\ a.val = m.val /\ a.res = m.res
         /\ a.disk = m.disk /\ a.win = m.win /\ a.winsect = m.winsect /\ a.wflag = m.wflag
<1> DEFINE a == Spent(m)
<1>1. m \in Work(g) /\ m.type # "none"
  BY DEF Live
<1>2. a \in Work(g) /\ Beside(m, a) /\ a.val = m.val /\ a.res = m.res
         /\ a.disk = m.disk /\ a.win = m.win /\ a.winsect = m.winsect /\ a.wflag = m.wflag
  BY <1>1, SpentOk
<1> HIDE DEF a
<1> QED BY <1>1, <1>2 DEF Live, Beside, Keeps, a

-----------------------------------------------------------------------------
(* f_read: whole sectors at once.                                          *)

LEMMA ClusterInt ==
  ASSUME NEW g \in Cards, NEW c \in Int
  PROVE  clust2sect(g, c) \in Int
<1> DEFINE p == (c - 2) * CSize
<1>1. p \in Int
  <2>1. c - 2 \in Int /\ CSize \in Nat \ {0}
    BY GeometryAssumption
  <2> QED BY <2>1, Times
<1>2. clust2sect(g, c) = IF InRange(c) THEN DataBase(g) + p ELSE 0
  BY DEF clust2sect
<1> HIDE DEF p
<1>3. DataBase(g) \in Nat
  BY Regions
<1> QED BY <1>1, <1>2, <1>3

(* cc whole sectors from the sector of the pointer on stay in the cluster.  *)
LEMMA SectorsOf ==
  ASSUME NEW g \in Cards, NEW m \in Live(g), NEW x \in Int, NEW cc \in Int,
         cc = Least(x \div SecSize, CSize - SectorInCluster(m.f)), cc > 0
  PROVE  /\ cc * SecSize \in Nat /\ SectorInCluster(m.f) \in 0..CSize-1
         /\ SectorInCluster(m.f) + cc <= CSize /\ cc \in Nat \ {0} /\ cc * SecSize <= x
         /\ (m.f.fptr + cc * SecSize) % SecSize = Offset(m.f)
<1> DEFINE k == SectorInCluster(m.f)
           q == m.f.fptr \div SecSize
           p == m.f.fptr
           d == x \div SecSize
<1>1. p \in Nat /\ SecSize \in Nat \ {0} /\ CSize \in Nat \ {0}
  BY OffsetIs, GeometryAssumption
<1>2. q \in Nat
  <2> HIDE DEF p
  <2> QED BY <1>1, Divided DEF p
<1>3. k = q % CSize
  BY DEF SectorInCluster
<1> HIDE DEF k, q, p
<1>4. k \in 0..CSize-1
  <2>1. q \in Int
    BY <1>2
  <2> QED BY <1>1, <1>3, <2>1, Mod
<1>5. cc = Least(d, CSize - k)
  BY DEF k, d
<1>6. d \in Int
  BY <1>1
<1> HIDE DEF d
<1>7. cc \in Nat \ {0} /\ k + cc <= CSize /\ cc <= d
  BY <1>1, <1>4, <1>5, <1>6 DEF Least
<1>8. cc * SecSize <= x
  <2>1. x >= 0
    <3>1. x < 0 => x \div SecSize <= 0
      BY <1>1
    <3> QED BY <1>1, <1>6, <1>7, <3>1 DEF d
  <2>2. d \in Nat /\ x % SecSize \in 0..SecSize-1 /\ x = SecSize * d + (x % SecSize)
    <3>1. x \in Nat
      BY <2>1
    <3> QED BY <1>1, <3>1, Divided DEF d
  <2> DEFINE r == x % SecSize
  <2> HIDE DEF r
  <2>3. SecSize * cc <= SecSize * d /\ SecSize * cc = cc * SecSize /\ cc * SecSize \in Int /\ SecSize * d \in Int
    BY <1>1, <1>7, <2>2, Times
  <2> QED BY <2>2, <2>3 DEF r
<1>9. cc * SecSize \in Nat /\ (p + cc * SecSize) % SecSize = p % SecSize
  BY <1>1, <1>7, Remainder
<1> QED BY <1>4, <1>7, <1>8, <1>9 DEF k, p, Offset

LEMMA ReadDirectOk ==
  ASSUME NEW g \in Cards, NEW m \in InRead(g), ~m.stop, Offset(m.f) = 0, InRange(m.f.clust), NEW cc \in Int,
         cc = Least(m.want \div SecSize, CSize - SectorInCluster(m.f)), cc > 0
  PROVE  ReadDirect(m, clust2sect(m, m.f.clust) + SectorInCluster(m.f), cc) \in InRead(g)
<1> DEFINE k == SectorInCluster(m.f)
           s == clust2sect(m, m.f.clust) + k
           n == cc * SecSize
           a == Spent(m)
           b == Moved(a, n)
           t == [i \in 1..cc * SecSize |-> AsData(View(m)[s + ((i-1) \div SecSize)]).b[(i-1) % SecSize]]
           u == m.buf \o t
           w == m.want - n
           c == SetBuf(b, u, w)
           d == Abort(a, "DISK_ERR")
           z == ReadDirect(m, s, cc)
<1>1. m \in Live(g) /\ m.f.fptr + m.want \in Nat /\ "ERROR" \notin m.f.flag /\ m.want \in Int
      /\ m.f.fptr \in Nat /\ SecSize \in Nat \ {0} /\ m.buf \in Bufs /\ m.f.clust \in Int
  BY OffsetIs DEF InRead
<1>2. /\ n \in Nat /\ k \in 0..CSize-1 /\ k + cc <= CSize /\ cc \in Nat \ {0} /\ n <= m.want
      /\ (m.f.fptr + n) % SecSize = Offset(m.f)
  BY <1>1, SectorsOf
<1> HIDE DEF k
<1>3. a \in Live(g) /\ Beside(m, a)
  BY <1>1, SpentLive
<1>4. z = IF Fails(m) THEN d ELSE [Moved(a, n) EXCEPT !.want = @ - n, !.buf = @ \o t]
  BY DEF ReadDirect
<1> HIDE DEF a, z
<1>5. t \in Bufs
  <2>1. ASSUME NEW i \in 1..n PROVE AsData(View(m)[s + ((i-1) \div SecSize)]).b[(i-1) % SecSize] \in Int
    <3> DEFINE x == i - 1
               q == x \div SecSize
               r == x % SecSize
    <3>1. x \in Nat /\ x < cc * SecSize
      BY <1>2
    <3> HIDE DEF x
    <3>2. q \in Nat /\ r \in 0..SecSize-1 /\ x = SecSize * q + r
      BY <1>1, <3>1, Divided
    <3> HIDE DEF q, r
    <3>3. q < cc
      <4>1. SecSize * q \in Int /\ SecSize * cc = cc * SecSize /\ (cc <= q => SecSize * cc <= SecSize * q)
        BY <1>1, <1>2, <3>2, Times
      <4> DEFINE e == SecSize * q
                 h == cc * SecSize
      <4>2. e \in Int /\ h \in Nat /\ (cc <= q => h <= e) /\ x = e + r /\ x < h
        BY <1>2, <3>1, <3>2, <4>1
      <4> HIDE DEF e, h
      <4> QED BY <1>2, <3>2, <4>2
    <3>4. k + q \in 0..CSize-1
      BY <1>2, <3>2, <3>3, GeometryAssumption
    <3>5. clust2sect(m, m.f.clust) = clust2sect(g, m.f.clust)
      BY <1>1, SameRegions DEF Live, Work, Card, Mount
    <3>6. clust2sect(g, m.f.clust) + (k + q) \in Int /\ InData(g, clust2sect(g, m.f.clust) + (k + q))
      BY <1>1, <3>4, ClusterSectors
    <3>7. clust2sect(g, m.f.clust) + (k + q) \in Sectors
      BY <3>6, InDataIs
    <3>8. s + q = clust2sect(g, m.f.clust) + (k + q)
      <4> DEFINE v == clust2sect(g, m.f.clust)
      <4>1. v \in Int
        BY <1>1, ClusterInt
      <4> HIDE DEF v
      <4> QED BY <1>2, <3>2, <3>5, <4>1 DEF v
    <3> DEFINE y == View(m)[s + q]
    <3>9. y \in Content
      BY <1>1, <3>7, <3>8, ViewOk
    <3> HIDE DEF y, s
    <3>10. AsData(y).b[r] \in Int
      BY <3>2, <3>9, Shown DEF DataContent
    <3> QED BY <3>10 DEF y, q, r, x
  <2>2. t \in [1..n -> Int \cup Spellings]
    BY <2>1
  <2> HIDE DEF t
  <2>3. n \in Int
    BY <1>2
  <2> HIDE DEF n
  <2>4. t \in Seq(Int \cup Spellings)
    BY <2>2, <2>3, Sequence
  <2> QED BY <2>4 DEF Bufs
<1> HIDE DEF n, t
<1>6. /\ b \in Live(g) /\ OnlyF(a, b) /\ b.f.fptr = a.f.fptr + n /\ b.f.flag = a.f.flag
  <2>1. a.f = m.f
    BY <1>3 DEF Beside, Keeps
  <2>2. Offset(a.f) = 0 /\ (a.f.fptr + n) % SecSize = 0 /\ a.f.fptr + n \in Nat /\ n \in Int
    BY <1>1, <1>2, <2>1
  <2> QED BY <1>3, <2>2, MovedOk
<1>10. [Moved(a, n) EXCEPT !.want = @ - n, !.buf = @ \o t] = c
  <2>1. b.want = m.want /\ b.buf = m.buf
    BY <1>3, <1>6 DEF OnlyF, Keeps, Beside
  <2> QED BY <2>1 DEF b, SetBuf
<1> HIDE DEF b
<1>7. b.want = m.want /\ b.buf = m.buf /\ b.f.fptr = m.f.fptr + n /\ b.f.flag = m.f.flag /\ ~b.stop
  BY <1>3, <1>6 DEF OnlyF, Keeps, Beside
<1>9. u \in Bufs /\ w \in Int
  BY <1>1, <1>2, <1>5, Joined
<1> HIDE DEF u
<1>11. c \in Live(g) /\ c.want = w /\ c.f = b.f /\ c.stop = b.stop
  BY <1>6, <1>9, LiveBuf
<1>12. c \in InRead(g)
  <2>1. c.f.fptr + c.want = m.f.fptr + m.want
    <3> DEFINE h == c.f.fptr
               e == c.want
    <3>1. h = m.f.fptr + n /\ e = m.want - n
      BY <1>7, <1>11
    <3> HIDE DEF h, e
    <3>2. h + e = m.f.fptr + m.want
      BY <1>1, <1>2, <3>1
    <3> QED BY <3>2 DEF h, e
  <2> HIDE DEF c
  <2> QED BY <1>1, <1>7, <1>11, <2>1 DEF InRead
<1> HIDE DEF c, w
<1>13. d \in InRead(g)
  <2>1. d \in Live(g) /\ d.stop /\ d.f.fptr = a.f.fptr /\ d.want = a.want
    BY <1>3, AbortOk DEF Results
  <2> HIDE DEF d
  <2> QED BY <1>1, <1>3, <2>1 DEF InRead, Keeps, Beside
<1> QED BY <1>4, <1>10, <1>12, <1>13 DEF z, s, k

-----------------------------------------------------------------------------
(* f_read.                                                                 *)

LEMMA ReadAborts ==
  ASSUME NEW g \in Cards, NEW m \in Live(g), m.f.fptr + m.want \in Nat, NEW r \in Results
  PROVE  Abort(m, r) \in InRead(g)
<1> DEFINE d == Abort(m, r)
<1>1. d \in Live(g) /\ d.stop /\ d.f.fptr = m.f.fptr /\ d.want = m.want
  BY AbortOk
<1> HIDE DEF d
<1> QED BY <1>1 DEF InRead, d

LEMMA SectorAt ==
  ASSUME NEW g \in Cards, NEW m \in Live(g), clust2sect(m, m.f.clust) # 0
  PROVE  /\ InRange(m.f.clust) /\ clust2sect(m, m.f.clust) = clust2sect(g, m.f.clust)
         /\ SectorInCluster(m.f) \in 0..CSize-1
         /\ clust2sect(m, m.f.clust) + SectorInCluster(m.f) \in Int
         /\ InData(g, clust2sect(m, m.f.clust) + SectorInCluster(m.f))
<1> DEFINE q == m.f.fptr \div SecSize
           k == q % CSize
<1>1. InRange(m.f.clust)
  BY DEF clust2sect
<1>2. clust2sect(m, m.f.clust) = clust2sect(g, m.f.clust)
  BY SameRegions DEF Live, Work, Card, Mount
<1>3. k \in 0..CSize-1 /\ k = SectorInCluster(m.f)
  <2> DEFINE p == m.f.fptr
  <2>1. p \in Nat /\ SecSize \in Nat \ {0} /\ CSize \in Nat \ {0}
    BY OffsetIs, GeometryAssumption
  <2> HIDE DEF p
  <2>2. p \div SecSize \in Nat
    BY <2>1, Divided
  <2>3. q \in Int
    BY <2>2 DEF p
  <2> HIDE DEF q
  <2>4. q % CSize \in 0..CSize-1
    BY <2>1, <2>3, Mod
  <2> QED BY <2>4 DEF q, SectorInCluster
<1> HIDE DEF k, q
<1>4. m.f.clust \in Int
  BY OffsetIs
<1>5. clust2sect(g, m.f.clust) + k \in Int /\ InData(g, clust2sect(g, m.f.clust) + k)
  BY <1>1, <1>3, <1>4, ClusterSectors
<1> QED BY <1>1, <1>2, <1>3, <1>5

LEMMA ReadSectorOk ==
  ASSUME NEW g \in Cards, NEW m \in InRead(g), ~m.stop
  PROVE  ReadSector(m) \in InRead(g)
<1> DEFINE s0 == clust2sect(m, m.f.clust)
           k == SectorInCluster(m.f)
           s == s0 + k
           cc == Least(m.want \div SecSize, CSize - k)
           d == Abort(m, "INT_ERR")
           b == [m EXCEPT !.f.dsect = s]
<1>1. m \in Live(g) /\ m.f.fptr + m.want \in Nat /\ "ERROR" \notin m.f.flag /\ m.want \in Int
      /\ SecSize \in Nat \ {0}
  BY OffsetIs DEF InRead
<1>2. ReadSector(m) = IF Offset(m.f) # 0 THEN ReadPart(m) ELSE IF s0 = 0 THEN d
                      ELSE IF cc > 0 THEN ReadDirect(m, s, cc) ELSE ReadPart(b)
  BY DEF ReadSector
<1>3. Offset(m.f) # 0 => ReadPart(m) \in InRead(g)
  BY <1>1, OffsetIs, ReadPartOk
<1>4. d \in InRead(g)
  BY <1>1, ReadAborts DEF Results
<1>5. Offset(m.f) = 0 /\ s0 # 0 /\ cc > 0 => ReadDirect(m, s, cc) \in InRead(g)
  <2>1. SUFFICES ASSUME Offset(m.f) = 0, s0 # 0, cc > 0 PROVE ReadDirect(m, s, cc) \in InRead(g)
    OBVIOUS
  <2>2. InRange(m.f.clust) /\ k \in 0..CSize-1
    BY <1>1, <2>1, SectorAt
  <2>3. cc \in Int
    <3> DEFINE x == m.want \div SecSize
    <3>1. x \in Int
      BY <1>1
    <3> HIDE DEF x, k
    <3>2. CSize \in Nat
      BY GeometryAssumption
    <3> QED BY <2>2, <3>1, <3>2 DEF Least, x
  <2> QED BY <2>1, <2>2, <2>3, ReadDirectOk
<1>6. Offset(m.f) = 0 /\ s0 # 0 => ReadPart(b) \in InRead(g)
  <2>1. SUFFICES ASSUME Offset(m.f) = 0, s0 # 0 PROVE ReadPart(b) \in InRead(g)
    OBVIOUS
  <2>2. s \in Int /\ InData(g, s)
    BY <1>1, <2>1, SectorAt
  <2> HIDE DEF s
  <2>3. b \in Live(g) /\ OnlyF(m, b) /\ b.f.fptr = m.f.fptr /\ b.f.flag = m.f.flag /\ b.f.dsect = s
    BY <1>1, <2>2, DsectOk
  <2> HIDE DEF b
  <2>4. b \in InRead(g) /\ ~b.stop
    BY <1>1, <2>3 DEF InRead, OnlyF
  <2> QED BY <2>2, <2>3, <2>4, ReadPartOk
<1> HIDE DEF s, d, b, cc, s0
<1> QED BY <1>2, <1>3, <1>4, <1>5, <1>6

LEMMA ReadTurnOk ==
  ASSUME NEW g \in Cards, NEW y \in InRead(g), ~y.stop
  PROVE  ReadTurn(y) \in InRead(g)
<1> DEFINE e == Stop(y, "OK")
           b == IF AtCluster(y.f) THEN ReadCluster(y) ELSE Ok(y)
           d == Abort(b, b.res)
<1>1. ReadTurn(y) = IF y.want = 0 THEN e ELSE IF b.res = "OK" THEN ReadSector(b) ELSE d
  BY DEF ReadTurn, OrAbort
<1>2. y \in Live(g) /\ y.f.fptr + y.want \in Nat /\ "ERROR" \notin y.f.flag
  BY DEF InRead
<1>3. e \in InRead(g)
  <2>1. e \in Live(g) /\ Keeps(y, e) /\ e.stop
    BY <1>2, LiveStop DEF Results
  <2> HIDE DEF e
  <2> QED BY <1>2, <2>1 DEF InRead, Keeps
<1>4. b \in Live(g) /\ Alike(y, b) /\ b.res \in Results
  <2>1. ReadCluster(y) \in Live(g) /\ Alike(y, ReadCluster(y)) /\ ReadCluster(y).res \in Results
    BY <1>2, ReadClusterOk
  <2> DEFINE o == Ok(y)
  <2>2. o \in Live(g) /\ Beside(y, o) /\ Keeps(y, o) /\ o.res = "OK"
    BY <1>2, LiveOk
  <2> HIDE DEF o
  <2>3. Alike(y, o)
    BY <2>2 DEF Beside, Keeps, Alike
  <2>4. o.res \in Results
    BY <2>2 DEF Live, Work, State
  <2> QED BY <2>1, <2>2, <2>3, <2>4 DEF o
<1> HIDE DEF b, e
<1>5. b \in InRead(g) /\ ~b.stop /\ b.f.fptr + b.want \in Nat
  BY <1>2, <1>4 DEF InRead, Alike
<1>6. d \in InRead(g)
  BY <1>4, <1>5, ReadAborts
<1>7. ReadSector(b) \in InRead(g)
  BY <1>5, ReadSectorOk
<1> HIDE DEF d
<1> QED BY <1>1, <1>3, <1>6, <1>7

LEMMA ReadsOn ==
  ASSUME NEW g \in Cards, NEW m \in Live(g), m.f.fptr + m.want \in Nat, "ERROR" \notin m.f.flag, NEW k \in Nat
  PROVE  Loop(m, ReadTurn, k) \in Live(g)
<1> DEFINE M == InRead(g)
           x0 == SetStop(m, FALSE)
<1>20. k \in Nat
  OBVIOUS
<1>10. x0 \in M
  <2>1. x0 \in Work(g) /\ Keeps(m, x0) /\ ~x0.stop
    BY StopOk DEF Live
  <2> HIDE DEF x0
  <2> QED BY <2>1 DEF InRead, Live, Keeps
<1>11. \A y \in M : (IF y.stop THEN y ELSE ReadTurn(y)) \in M
  BY ReadTurnOk
<1> HIDE DEF x0
<1> DEFINE step == [y \in M |-> IF y.stop THEN y ELSE ReadTurn(y)]
           t == CHOOSE f : f = [i \in 0..k |-> IF i = 0 THEN x0 ELSE IF f[i-1].stop THEN f[i-1] ELSE ReadTurn(f[i-1])]
<1> HIDE DEF M
<1>21. step \in [M -> M]
  BY <1>11
<1>22. PICK f : IsRun(f, M, x0, k, step)
  <2> HIDE DEF step
  <2> QED BY <1>10, <1>20, <1>21, Repeated
<1>23. f = [i \in 0..k |-> IF i = 0 THEN x0 ELSE IF f[i-1].stop THEN f[i-1] ELSE ReadTurn(f[i-1])]
  <2>1. ASSUME NEW i \in 0..k, i # 0
        PROVE  step[f[i-1]] = IF f[i-1].stop THEN f[i-1] ELSE ReadTurn(f[i-1])
    <3>1. i - 1 \in 0..k
      BY <1>20, <2>1
    <3>2. f[i-1] \in M
      BY <1>22, <3>1 DEF IsRun
    <3> QED BY <3>2
  <2> HIDE DEF step
  <2> QED BY <1>22, <2>1 DEF IsRun
<1>24. t = [i \in 0..k |-> IF i = 0 THEN x0 ELSE IF t[i-1].stop THEN t[i-1] ELSE ReadTurn(t[i-1])]
  BY <1>23
<1> HIDE DEF t, step
<1> DEFINE G == [i \in 0..k |-> M]
<1>12. x0 \in G[0]
  BY <1>10, <1>20
<1>13. \A i \in 1..k : \A y \in G[i-1] : (IF y.stop THEN y ELSE ReadTurn(y)) \in G[i]
  BY <1>11, <1>20
<1> HIDE DEF G
<1>25. t[k] \in G[k]
  <2>1. t[0] \in G[0]
    BY <1>12, <1>20, <1>24
  <2>2. ASSUME NEW i \in 1..k, t[i-1] \in G[i-1] PROVE t[i] \in G[i]
    <3>1. t[i] = IF t[i-1].stop THEN t[i-1] ELSE ReadTurn(t[i-1])
      BY <1>20, <1>24
    <3> DEFINE y == t[i-1]
    <3>2. y \in G[i-1] /\ t[i] = IF y.stop THEN y ELSE ReadTurn(y)
      BY <2>2, <3>1
    <3> HIDE DEF y
    <3> QED BY <1>13, <3>2
  <2> QED BY <1>20, <2>1, <2>2, Always
<1>26. t[k] \in M
  BY <1>20, <1>25 DEF G
<1> DEFINE e == t[k]
           f1 == Ended(e)
<1>3. e \in M
  BY <1>26
<1> HIDE DEF e
<1>4. f1 \in Live(g)
  <2>1. e \in Work(g) /\ e.type # "none"
    BY <1>3 DEF M, InRead, Live
  <2>2. f1 \in Work(g) /\ Keeps(e, f1)
    BY <2>1, EndedOk
  <2> HIDE DEF f1
  <2> QED BY <2>1, <2>2 DEF Live, Keeps
<1>5. Loop(m, ReadTurn, k) = f1
  BY DEF Loop, Turn, t, f1, e, x0, SetStop
<1> HIDE DEF f1
<1> QED BY <1>4, <1>5

LEMMA NoBytes == <<>> \in Bufs
BY EmptySeq DEF Bufs

LEMMA FRead ==
  ASSUME NEW g \in Cards, NEW m \in Work(g), NEW n \in Nat
  PROVE  f_read(m, n) \in Work(g)
<1> DEFINE m0 == SetBuf(m, <<>>, m.want)
           a == Usable(m0, {"R"})
           w == Least(n, a.f.fsize - a.f.fptr)
           b == SetBuf(a, a.buf, w)
           z == Loop(b, ReadTurn, n + 1)
<1>1. f_read(m, n) = IF a.res = "OK" THEN z ELSE a
  <2>1. [m EXCEPT !.buf = <<>>] = m0
    BY DEF SetBuf, Work, State
  <2> DEFINE c == Usable(m0, {"R"})
  <2>2. c \in State
    <3>1. m0 \in Work(g)
      BY NoBytes, BufOk DEF Work, State
    <3>2. c \in Work(g)
      BY <3>1, UsableOk
    <3> QED BY <3>2 DEF Work
  <2> HIDE DEF m0
  <2>3. f_read(m, n) = IF a.res = "OK" THEN Loop([a EXCEPT !.want = w], ReadTurn, n + 1) ELSE a
    BY <2>1 DEF f_read, Then
  <2>4. [a EXCEPT !.want = w] = b
    BY <2>2 DEF SetBuf, State
  <2> QED BY <2>3, <2>4
<1>2. m0 \in Work(g)
  BY NoBytes, BufOk DEF Work, State
<1> HIDE DEF m0
<1>3. a \in Work(g) /\ (a.res = "OK" => a \in Live(g) /\ "ERROR" \notin a.f.flag)
  BY <1>2, UsableOk
<1> HIDE DEF a
<1>4. a.res = "OK" => z \in Work(g)
  <2>1. SUFFICES ASSUME a.res = "OK" PROVE z \in Work(g)
    OBVIOUS
  <2>2. a \in Live(g) /\ a.f.fptr \in Nat /\ a.f.fsize \in Nat /\ a.buf \in Bufs /\ "ERROR" \notin a.f.flag
    BY <1>3, <2>1, OffsetIs
  <2>3. w \in Int /\ a.f.fptr + w \in Nat
    <3> DEFINE p == a.f.fptr
               q == a.f.fsize
    <3>1. p \in Nat /\ q \in Nat
      BY <2>2
    <3> HIDE DEF p, q
    <3>2. Least(n, q - p) \in Int /\ p + Least(n, q - p) \in Nat
      BY <3>1 DEF Least
    <3> QED BY <3>2 DEF p, q
  <2> HIDE DEF w
  <2>4. b \in Live(g) /\ b.want = w /\ b.f = a.f
    BY <2>2, <2>3, LiveBuf
  <2> HIDE DEF b
  <2>5. n + 1 \in Nat /\ b.f.fptr + b.want \in Nat /\ "ERROR" \notin b.f.flag
    BY <2>2, <2>3, <2>4
  <2>6. z \in Live(g)
    BY <2>4, <2>5, ReadsOn
  <2> QED BY <2>6 DEF Live
<1> HIDE DEF z
<1> QED BY <1>1, <1>3, <1>4

-----------------------------------------------------------------------------
(* f_write: the bytes, and the cluster they go to.                         *)

(* The state of a write between two turns of its loop.                      *)
Ints == Seq(Int)
InWrite(g) == {y \in Live(g) : y.buf \in Ints /\ (~y.stop => "ERROR" \notin y.f.flag)}
LEMMA IntsIn == Ints \subseteq Bufs
<1> SUFFICES ASSUME NEW s \in Ints PROVE s \in Bufs
  OBVIOUS
<1>1. s \in Seq(Int)
  BY DEF Ints
<1>2. Len(s) \in Nat /\ s \in [1..Len(s) -> Int]
  BY <1>1, LenProperties
<1>3. s \in [1..Len(s) -> Int \cup Spellings] /\ Len(s) \in Int
  BY <1>2
<1>4. s \in Seq(Int \cup Spellings)
  BY <1>3, Sequence
<1> QED BY <1>4 DEF Bufs

(* A part of a sequence of integers.                                        *)
LEMMA PartOk ==
  ASSUME NEW b \in Ints, NEW i \in Nat \ {0}, NEW j \in Int, j <= Len(b)
  PROVE  LET s == SubSeq(b, i, j) IN s \in Ints /\ Len(s) = IF i <= j THEN j - i + 1 ELSE 0
<1>1. b \in Seq(Int)
  BY DEF Ints
<1>2. Len(b) \in Nat /\ b \in [1..Len(b) -> Int]
  BY <1>1, LenProperties
<1>3. \A k \in i..j : b[k] \in Int
  BY <1>2
<1>4. SubSeq(b, i, j) \in Seq(Int) /\ Len(SubSeq(b, i, j)) = IF i <= j THEN j - i + 1 ELSE 0
  BY <1>3, SubSeqProperties
<1> QED BY <1>4 DEF Ints

LEMMA PatchOk ==
  ASSUME NEW b \in [0..SecSize-1 -> Int], NEW o \in Int, NEW data \in Ints
  PROVE  DataSector(Patch(b, o, data)) \in Content /\ DataSector(Patch(b, o, data)).kind = "data"
<1> DEFINE n == Len(data)
           p == [i \in 0..SecSize-1 |-> IF i >= o /\ i < o + n THEN data[i - o + 1] ELSE b[i]]
<1>1. data \in Seq(Int)
  BY DEF Ints
<1>2. n \in Nat /\ data \in [1..n -> Int]
  BY <1>1, LenProperties
<1> HIDE DEF n
<1>3. p \in [0..SecSize-1 -> Int]
  <2>1. SecSize \in Nat
    BY GeometryAssumption
  <2> QED BY <1>2, <2>1
<1>4. Patch(b, o, data) = p
  BY DEF Patch, n
<1> HIDE DEF p
<1> QED BY <1>3, <1>4 DEF DataSector, Content, DataContent

LEMMA StoreOk ==
  ASSUME NEW g \in Cards, NEW m \in Live(g), NEW c \in Nat
  PROVE  LET a == [m EXCEPT !.f.sclust = c] IN
         a \in Live(g) /\ OnlyF(m, a) /\ a.f.fptr = m.f.fptr /\ a.f.flag = m.f.flag
         /\ a.f.fsize = m.f.fsize /\ a.f.dsect = m.f.dsect /\ a.f.sclust = c
<1> DEFINE f == [m.f EXCEPT !.sclust = c]
           a == SetF(m, f)
<1>1. [m EXCEPT !.f.sclust = c] = a
  BY DEF SetF
<1>3. m.f \in FileObjects /\ FileOk(m.f, g)
  BY DEF Live, Work, State
<1>4. /\ f \in FileObjects /\ f.fptr = m.f.fptr /\ f.flag = m.f.flag /\ f.fsize = m.f.fsize /\ f.open = m.f.open
      /\ f.dsect = m.f.dsect /\ f.dir_sect = m.f.dir_sect /\ f.dir_ptr = m.f.dir_ptr /\ f.sclust = c
  BY <1>3 DEF FileObjects
<1> HIDE DEF f
<1>5. FileOk(f, g)
  BY <1>3, <1>4 DEF FileOk, Offset
<1>6. a \in Live(g) /\ a.f = f /\ OnlyF(m, a)
  BY <1>4, <1>5, LiveF
<1> HIDE DEF a
<1> QED BY <1>1, <1>4, <1>6

LEMMA LinkErrors == \A m : LinkError(m) \in Results
BY DEF LinkError, Results

LEMMA WriteAborts ==
  ASSUME NEW g \in Cards, NEW m \in Live(g), m.buf \in Ints, NEW r \in Results
  PROVE  Abort(m, r) \in InWrite(g) /\ Abort(m, r).stop
<1> DEFINE d == Abort(m, r)
<1>1. d \in Live(g) /\ d.stop /\ d.buf = m.buf
  BY AbortOk
<1> HIDE DEF d
<1> QED BY <1>1 DEF InWrite, d

LEMMA WriteClusterOk ==
  ASSUME NEW g \in Cards, ~g.still, NEW m \in InWrite(g), ~m.stop
  PROVE  LET a == WriteCluster(m) IN a \in InWrite(g) /\ (~a.stop => Alike(m, a))
<1> DEFINE new == m.f.fptr = 0 /\ m.f.sclust = 0
           v == SetVal(m, m.f.sclust)
           k == IF new THEN 0 ELSE m.f.clust
           w == create_chain(m, k)
           a == IF m.f.fptr = 0 /\ ~new THEN v ELSE w
           c == a.val
           t == [a EXCEPT !.f.sclust = c]
           b == IF new THEN t ELSE a
           e == b.val
           s == Stop(b, "OK")
           d == Abort(b, LinkError(b))
           o == Ok(b)
           z == [o EXCEPT !.f.clust = e]
<1>1. WriteCluster(m) = IF e = 0 THEN s ELSE IF e \in {1, DERR} THEN d ELSE z
  BY DEF WriteCluster, After, SetVal
<1>2. m \in Live(g) /\ m \in Work(g) /\ m.type # "none" /\ m.f.clust \in Nat /\ m.f.sclust \in Nat
      /\ m.buf \in Ints /\ "ERROR" \notin m.f.flag
  BY OffsetIs DEF InWrite, Live
<1>3. v \in Work(g) /\ Beside(m, v) /\ v.val \in Nat
  BY <1>2, ValOk
<1>4. w \in Live(g) /\ Keeps(m, w) /\ w.val \in Nat /\ ~w.stop
  <2>1. k \in Int
    BY <1>2
  <2> HIDE DEF k
  <2> QED BY <1>2, <2>1, CreateChain
<1> HIDE DEF v, w, k
<1>5. a \in Live(g) /\ Keeps(m, a) /\ c \in Nat /\ ~a.stop
  BY <1>2, <1>3, <1>4 DEF Live, Beside, Keeps
<1> HIDE DEF a
<1>6. t \in Live(g) /\ OnlyF(a, t) /\ t.f.fptr = a.f.fptr /\ t.f.flag = a.f.flag
         /\ t.f.fsize = a.f.fsize /\ t.f.dsect = a.f.dsect
  BY <1>5, StoreOk
<1> HIDE DEF t
<1>7. b \in Live(g) /\ Alike(m, b) /\ e \in Nat /\ ~b.stop
  <2>1. t.val = a.val
    BY <1>6 DEF OnlyF
  <2>3. a.stop = m.stop
    <3>1. a.stop \in BOOLEAN /\ m.stop \in BOOLEAN
      BY <1>2, <1>5 DEF Live, Work, State
    <3> QED BY <1>5, <3>1
  <2>2. Alike(m, a) /\ Alike(m, t)
    BY <1>2, <1>5, <1>6, <2>3 DEF Alike, OnlyF, Keeps
  <2> QED BY <1>5, <1>6, <2>1, <2>2 DEF Alike
<1> HIDE DEF b, c, new
<1>8. b.buf \in Ints /\ "ERROR" \notin b.f.flag
  BY <1>2, <1>7 DEF Alike
<1>9. s \in InWrite(g) /\ s.stop
  <2>1. s \in Live(g) /\ Keeps(b, s) /\ s.stop
    BY <1>7, LiveStop DEF Results
  <2> HIDE DEF s
  <2> QED BY <1>8, <2>1 DEF InWrite, Keeps
<1>10. d \in InWrite(g) /\ d.stop
  BY <1>7, <1>8, WriteAborts, LinkErrors
<1>11. o \in Live(g) /\ Beside(b, o)
  BY <1>7, LiveOk
<1> HIDE DEF s, d, o
<1>12. z \in Live(g) /\ OnlyF(o, z) /\ z.f.fptr = o.f.fptr /\ z.f.flag = o.f.flag
         /\ z.f.fsize = o.f.fsize /\ z.f.dsect = o.f.dsect
  <2> HIDE DEF e
  <2> QED BY <1>7, <1>11, ClustOk DEF e
<1> HIDE DEF z
<1>13. z \in InWrite(g) /\ Alike(m, z)
  <2>1. Alike(b, z)
    BY <1>11, <1>12 DEF Alike, OnlyF, Beside, Keeps
  <2>2. Alike(m, z)
    BY <1>7, <2>1 DEF Alike
  <2> QED BY <1>8, <1>12, <2>1, <2>2 DEF InWrite, Alike
<1> HIDE DEF e
<1> QED BY <1>1, <1>9, <1>10, <1>13

-----------------------------------------------------------------------------
(* f_write: part of a sector in the window.                                *)

(* Part of a sector goes to the window.                                     *)
Overlaid(x, n, w, b) == [Moved(x, n) EXCEPT !.wflag = TRUE, !.win = w, !.buf = b]
LEMMA OverlaidOk ==
  ASSUME NEW g \in Cards, ~g.still, NEW x \in Live(g), RootBase(g) <= x.winsect, NEW w \in Content, w.kind # "fat",
         NEW n \in Int, x.f.fptr + n \in Nat, InData(g, x.f.dsect), NEW b \in Ints, "ERROR" \notin x.f.flag
  PROVE  Overlaid(x, n, w, b) \in InWrite(g)
<1> DEFINE y == Changed(x, w)
           v == Moved(y, n)
           z == SetBuf(v, b, v.want)
<1>1. x \in Work(g) /\ x.type # "none" /\ x.winsect \in Sectors /\ x \in State
  BY DEF Live, Work, Card, WindowOk
<1>2. FatBase(g) <= x.winsect /\ ~InFat(g, x.winsect)
  <2>1. x.winsect \in Int /\ x.winsect <= LastSector
    BY <1>1 DEF Sectors
  <2> QED BY <2>1, DataSectors
<1>3. y \in Work(g) /\ Beside(x, y)
  BY <1>1, <1>2, Dirtied
<1>4. Overlaid(x, n, w, b) = z
  BY <1>1 DEF Overlaid, Moved, Changed, SetBuf, State
<1> HIDE DEF y
<1>5. y \in Live(g) /\ y.f = x.f
  BY <1>1, <1>3 DEF Live, Beside, Keeps
<1>6. v \in Live(g) /\ OnlyF(y, v) /\ v.f.flag = y.f.flag
  BY <1>5, MovedOk
<1> HIDE DEF v
<1>7. b \in Bufs /\ v.want \in Int
  BY <1>6, IntsIn DEF Live, Work, State
<1>8. z \in Live(g) /\ z.buf = b /\ z.f = v.f
  BY <1>6, <1>7, LiveBuf
<1> HIDE DEF z
<1> QED BY <1>4, <1>5, <1>6, <1>8 DEF InWrite

(* ... or, at the growing edge, to a window that takes the sector's name.   *)
LEMMA EdgeOk ==
  ASSUME NEW g \in Cards, ~g.still, NEW x \in Live(g), ~x.wflag, NEW s \in Int, InData(g, s), NEW w \in Content, w.kind # "fat",
         NEW n \in Int, x.f.fptr + n \in Nat, NEW b \in Ints, "ERROR" \notin x.f.flag
  PROVE  Overlaid(Ok([x EXCEPT !.winsect = s, !.f.dsect = s]), n, w, b) \in InWrite(g)
<1> DEFINE d == [x EXCEPT !.f.dsect = s]
           e == SetWin(d, w, s)
           y == SetFlag(e, TRUE)
           o == Ok(y)
           v == Moved(o, n)
           z == SetBuf(v, b, v.want)
           k == Overlaid(Ok([x EXCEPT !.winsect = s, !.f.dsect = s]), n, w, b)
<1>1. x \in State
  BY DEF Live, Work
<1>2. s \in Sectors /\ RootBase(g) <= s
  BY InDataIs
<1>3. d \in Live(g) /\ OnlyF(x, d) /\ d.f.fptr = x.f.fptr /\ d.f.flag = x.f.flag /\ d.f.dsect = s
  BY DsectOk
<1>4. k = z
  <2>1. k = [x EXCEPT !.winsect = s, !.f.dsect = s, !.res = "OK", !.f.fptr = x.f.fptr + n,
                      !.wflag = TRUE, !.win = w, !.buf = b]
    <3> DEFINE q == Ok([x EXCEPT !.winsect = s, !.f.dsect = s])
    <3>1. q = [x EXCEPT !.winsect = s, !.f.dsect = s, !.res = "OK"] /\ q.f.fptr = x.f.fptr
      BY <1>1 DEF Ok, State, FileObjects
    <3>2. k = [[q EXCEPT !.f.fptr = x.f.fptr + n] EXCEPT !.wflag = TRUE, !.win = w, !.buf = b]
      <4> HIDE DEF q
      <4> QED BY <3>1 DEF Overlaid, Moved, q
    <3> HIDE DEF k, q
    <3> QED BY <1>1, <3>1, <3>2 DEF State
  <2>2. v = [x EXCEPT !.f.dsect = s, !.win = w, !.winsect = s, !.wflag = TRUE, !.res = "OK",
                      !.f.fptr = x.f.fptr + n]
    BY <1>1 DEF Moved, Ok, State, SetWin, SetFlag
  <2>3. z = [x EXCEPT !.f.dsect = s, !.win = w, !.winsect = s, !.wflag = TRUE, !.res = "OK",
                      !.f.fptr = x.f.fptr + n, !.buf = b]
    BY <1>1, <2>2 DEF SetBuf, State
  <2> HIDE DEF k, z
  <2> QED BY <1>1, <2>1, <2>3 DEF State
<1> HIDE DEF d
<1>5. d \in Loose(g)
  <2>1. ~d.wflag
    BY <1>3 DEF OnlyF, SameCard
  <2> QED BY <1>3, <2>1, Loosened
<1>6. e \in Loose(g) /\ Beside(d, e) /\ e.win = w /\ e.winsect = s
  BY <1>5, WinOk
<1> HIDE DEF e
<1>7. y \in Live(g) /\ Beside(e, y)
  BY <1>2, <1>6, FlagOk
<1> HIDE DEF y
<1>8. o \in Live(g) /\ Beside(y, o)
  BY <1>7, LiveOk
<1> HIDE DEF o
<1>9. o.f = d.f
  BY <1>6, <1>7, <1>8 DEF Beside, Keeps
<1>10. v \in Live(g) /\ OnlyF(o, v) /\ v.f.flag = o.f.flag
  BY <1>3, <1>8, <1>9, MovedOk
<1> HIDE DEF v
<1>11. b \in Bufs /\ v.want \in Int
  BY <1>10, IntsIn DEF Live, Work, State
<1>12. z \in Live(g) /\ z.buf = b /\ z.f = v.f
  BY <1>10, <1>11, LiveBuf
<1> HIDE DEF z, k
<1>13. z \in InWrite(g)
  BY <1>3, <1>9, <1>10, <1>12 DEF InWrite
<1> QED BY <1>4, <1>13 DEF k

(* How much of the data still to be written goes to this sector.            *)
Portion(m) == SubSeq(m.buf, 1, Least(SecSize - Offset(m.f), Len(m.buf)))
LEMMA PortionOk ==
  ASSUME NEW g \in Cards, NEW m \in Live(g), m.buf \in Ints
  PROVE  /\ Portion(m) \in Ints /\ Len(Portion(m)) \in Nat
         /\ SubSeq(m.buf, Len(Portion(m)) + 1, Len(m.buf)) \in Ints
<1> DEFINE b == m.buf
           n == Len(b)
           j == Least(SecSize - Offset(m.f), n)
<1>1. n \in Nat
  BY LenProperties DEF Ints
<1>2. j \in Nat /\ j <= n
  <2> DEFINE o == Offset(m.f)
  <2>1. o \in 0..SecSize-1 /\ SecSize \in Nat
    BY OffsetIs
  <2> HIDE DEF o, n
  <2>2. Least(SecSize - o, n) \in Nat /\ Least(SecSize - o, n) <= n
    BY <1>1, <2>1 DEF Least
  <2> QED BY <2>2 DEF o
<1> HIDE DEF j
<1>3. Portion(m) = SubSeq(b, 1, j)
  BY DEF Portion, j
<1>4. LET s == SubSeq(b, 1, j) IN s \in Ints /\ Len(s) = IF 1 <= j THEN j - 1 + 1 ELSE 0
  BY <1>2, PartOk
<1> DEFINE k == Len(Portion(m))
<1>5. Portion(m) \in Ints /\ k \in Nat /\ k <= n
  BY <1>1, <1>2, <1>3, <1>4
<1> HIDE DEF k, n
<1>6. k + 1 \in Nat \ {0} /\ n \in Int /\ n <= Len(b)
  BY <1>1, <1>5 DEF n
<1>7. SubSeq(b, k + 1, n) \in Ints
  BY <1>6, PartOk
<1> QED BY <1>5, <1>7 DEF k, n

LEMMA WritePartOk ==
  ASSUME NEW g \in Cards, ~g.still, NEW m \in InWrite(g), ~m.stop, InData(g, m.f.dsect)
  PROVE  WritePart(m) \in InWrite(g)
<1> DEFINE a == move_window(m, m.f.dsect)
           data == Portion(m)
           n == Len(data)
           w == DataSector(Patch(AsData(a.win).b, Offset(m.f), data))
           b == SubSeq(m.buf, n + 1, Len(m.buf))
           d == Abort(a, a.res)
           z == Overlaid(a, n, w, b)
<1>1. m \in Live(g) /\ m.buf \in Ints /\ "ERROR" \notin m.f.flag /\ m.f.dsect \in Int /\ m.f.fptr \in Nat
      /\ Offset(m.f) \in 0..SecSize-1 /\ SecSize \in Nat
  BY OffsetIs DEF InWrite
<1>2. m.f.dsect \in Sectors /\ ~Copy(g, m.f.dsect) /\ RootBase(g) <= m.f.dsect
  BY <1>1, InDataIs
<1>3. a \in Live(g) /\ Keeps(m, a) /\ a.res \in Results /\ (a.res = "OK" => a.winsect = m.f.dsect)
  BY <1>1, <1>2, LiveWindow
<1>4. WritePart(m) = IF a.res = "OK" THEN z ELSE d
  <2> DEFINE y == move_window(m, m.f.dsect)
  <2>1. y.buf = m.buf /\ y \in State
    BY <1>3 DEF Keeps, Live, Work
  <2>2. WritePart(m) = IF y.res = "OK"
          THEN [Moved(y, n) EXCEPT !.wflag = TRUE, !.win = DataSector(Patch(AsData(@).b, Offset(m.f), data)),
                                  !.buf = SubSeq(@, n + 1, Len(@))]
          ELSE Abort(y, y.res)
    BY DEF WritePart, OrAbort, Portion
  <2> HIDE DEF y
  <2>3. Moved(y, n).win = y.win /\ Moved(y, n).buf = m.buf
    BY <2>1 DEF Moved, State
  <2> QED BY <2>2, <2>3 DEF Overlaid, y
<1> HIDE DEF a
<1>5. data \in Ints /\ n \in Nat /\ b \in Ints
  BY <1>1, PortionOk
<1> HIDE DEF data, b
<1>6. w \in Content /\ w.kind = "data"
  <2>1. a.win \in Content
    BY <1>3 DEF Live, Work, State
  <2>2. AsData(a.win).b \in [0..SecSize-1 -> Int]
    BY <2>1, Shown DEF DataContent
  <2>3. Offset(m.f) \in Int
    BY <1>1
  <2> QED BY <1>5, <2>2, <2>3, PatchOk
<1> HIDE DEF w, n
<1>7. a.res = "OK" => z \in InWrite(g)
  <2>1. SUFFICES ASSUME a.res = "OK" PROVE z \in InWrite(g)
    OBVIOUS
  <2>2. a.f = m.f /\ RootBase(g) <= a.winsect /\ a.f.fptr + n \in Nat /\ n \in Int
    BY <1>1, <1>2, <1>3, <1>5, <2>1 DEF Keeps
  <2> QED BY <1>1, <1>3, <1>5, <1>6, <2>2, OverlaidOk
<1>8. d \in InWrite(g)
  <2>1. a.buf \in Ints
    BY <1>1, <1>3 DEF Keeps
  <2> QED BY <1>3, <2>1, WriteAborts
<1> HIDE DEF z, d
<1> QED BY <1>4, <1>7, <1>8

LEMMA WriteEdgeOk ==
  ASSUME NEW g \in Cards, ~g.still, NEW b \in InWrite(g), ~b.stop, ~b.wflag, NEW s \in Int, InData(g, s)
  PROVE  WritePart([b EXCEPT !.winsect = s, !.f.dsect = s]) \in InWrite(g)
<1> DEFINE m == [b EXCEPT !.winsect = s, !.f.dsect = s]
           a == Ok(m)
           data == Portion(b)
           n == Len(data)
           w == DataSector(Patch(AsData(b.win).b, Offset(b.f), data))
           u == SubSeq(b.buf, n + 1, Len(b.buf))
           z == Overlaid(a, n, w, u)
<1>1. b \in Live(g) /\ b \in State /\ b.buf \in Ints /\ "ERROR" \notin b.f.flag /\ b.f.fptr \in Nat
      /\ Offset(b.f) \in 0..SecSize-1 /\ SecSize \in Nat
  BY OffsetIs DEF InWrite, Live, Work
<1>2. m.winsect = s /\ m.f.dsect = s /\ m.buf = b.buf /\ m.f.fptr = b.f.fptr /\ m.win = b.win
  <2>1. b.f \in FileObjects
    BY <1>1 DEF State
  <2> QED BY <1>1, <2>1 DEF State, FileObjects
<1>3. Portion(m) = data /\ Offset(m.f) = Offset(b.f)
  BY <1>2 DEF Portion, Offset
<1>4. move_window(m, m.f.dsect) = a
  BY <1>2 DEF move_window
<1>5. a.res = "OK" /\ a.win = b.win /\ a.buf = b.buf /\ Moved(a, n).win = b.win /\ Moved(a, n).buf = b.buf
  <2>1. a.res = "OK" /\ a.win = b.win /\ a.buf = b.buf
    BY <1>1, <1>2 DEF Ok, State
  <2>2. Moved(a, n).win = a.win /\ Moved(a, n).buf = a.buf
    BY <1>1 DEF Ok, State, Moved
  <2> QED BY <2>1, <2>2
<1> HIDE DEF a
<1>6. WritePart(m) = z
  <2> HIDE DEF m
  <2>1. WritePart(m) = [Moved(a, n) EXCEPT !.wflag = TRUE,
             !.win = DataSector(Patch(AsData(@).b, Offset(m.f), data)),
             !.buf = SubSeq(@, n + 1, Len(@))]
    BY <1>3, <1>4, <1>5 DEF WritePart, OrAbort, Portion
  <2> QED BY <1>3, <1>5, <2>1 DEF Overlaid
<1>7. data \in Ints /\ n \in Nat /\ u \in Ints
  BY <1>1, PortionOk
<1> HIDE DEF data, u
<1>8. w \in Content /\ w.kind = "data"
  <2>1. b.win \in Content
    BY <1>1 DEF State
  <2>2. AsData(b.win).b \in [0..SecSize-1 -> Int]
    BY <2>1, Shown DEF DataContent
  <2>3. Offset(b.f) \in Int
    BY <1>1
  <2> QED BY <1>7, <2>2, <2>3, PatchOk
<1> HIDE DEF w, n
<1>9. z \in InWrite(g)
  <2>1. b.f.fptr + n \in Nat /\ n \in Int
    BY <1>1, <1>7
  <2> QED BY <1>1, <1>7, <1>8, <2>1, EdgeOk DEF a
<1> HIDE DEF z
<1> QED BY <1>6, <1>9

-----------------------------------------------------------------------------
(* f_write: whole sectors below the window.                                *)

(* Data sectors written below the window.                                   *)
SetCard(m, d, w, f) == [m EXCEPT !.disk = d, !.win = w, !.wflag = f]
LEMMA CardOk ==
  ASSUME NEW g \in Cards, ~g.still, NEW m \in Live(g), NEW d \in [Sectors -> Content], NEW w \in Content, NEW f \in BOOLEAN,
         \A t \in Sectors : d[t] = m.disk[t] \/ InData(g, t),
         \/ w = d[m.winsect] /\ ~f
         \/ w = m.win /\ f = m.wflag /\ d[m.winsect] = m.disk[m.winsect]
  PROVE  LET a == SetCard(m, d, w, f) IN
         a \in Live(g) /\ Keeps(m, a) /\ a.stop = m.stop
<1> DEFINE a == SetCard(m, d, w, f)
<1>0. m \in State /\ m \in Work(g) /\ Card(m, g) /\ m.type # "none" /\ DirOk(m.dj, g) /\ FileOk(m.f, g)
  BY DEF Live, Work
<1>1. a \in State
  BY <1>0 DEF State, SetCard
<1>2. Keeps(m, a) /\ a.stop = m.stop /\ a.winsect = m.winsect /\ a.left = m.left /\ a.failed = m.failed
  BY <1>0 DEF State, SetCard, Keeps
<1>3. a.disk = d /\ a.win = w /\ a.wflag = f
  BY <1>0 DEF State, SetCard
<1> HIDE DEF a
<1>4. \A t \in Sectors : t < RootBase(g) => d[t] = m.disk[t]
  <2>1. RootBase(g) <= DataBase(g) /\ RootBase(g) \in Nat /\ DataBase(g) \in Nat
    BY Regions
  <2> QED BY <2>1 DEF InData, Sectors
<1>5. DiskOk(d, g)
  <2>1. Layout(m.disk, g) /\ (g.quiet => Mirrors(m.disk, g))
    BY <1>0 DEF Card, DiskOk
  <2>2. 0 \in Sectors /\ g.bsect \in Sectors /\ 0 < RootBase(g) /\ g.bsect < RootBase(g)
    BY Regions, SizeOfFat, LowSectors DEF Cards
  <2>3. Layout(d, g)
    BY <1>4, <2>1, <2>2 DEF Layout
  <2>4. Mirrors(m.disk, g) => Mirrors(d, g)
    <3>1. SUFFICES ASSUME Mirrors(m.disk, g), g.n_fats = 2, NEW t \in Sectors, InFat(g, t)
                   PROVE  d[t + FatSize] = d[t]
      BY DEF Mirrors
    <3>2. t + FatSize \in Sectors /\ t + FatSize < RootBase(g) /\ t < RootBase(g)
      BY <3>1, Regions, SizeOfFat DEF InFat, Sectors
    <3> QED BY <1>4, <3>1, <3>2 DEF Mirrors
  <2> QED BY <2>1, <2>3, <2>4 DEF DiskOk
<1>6. WindowOk(a, g)
  BY <1>0, <1>2, <1>3 DEF Card, WindowOk
<1>7. Mount(a, g)
  BY <1>0, <1>2 DEF Card, Mount, Keeps
<1>8. Quiet(a, g) /\ Seen(a, g)
  BY <1>0, <1>2 DEF Card, Quiet, Seen
<1>9. a \in Work(g)
  BY <1>0, <1>1, <1>2, <1>3, <1>5, <1>6, <1>7, <1>8 DEF Work, Card, Keeps
<1> QED BY <1>0, <1>2, <1>9 DEF Live, Keeps, a

(* The cc sectors from s on of the data.                                    *)
SectorBytes(m, s, t) == DataSector([i \in 0..SecSize-1 |-> m.buf[(t - s) * SecSize + i + 1]])
LEMMA SectorBytesOk ==
  ASSUME NEW m, m.buf \in Ints, NEW s \in Int, NEW cc \in Nat \ {0}, cc * SecSize <= Len(m.buf), NEW t \in Int, s <= t, t < s + cc
  PROVE  SectorBytes(m, s, t) \in Content
<1> DEFINE k == (t - s) * SecSize
           n == cc * SecSize
           l == Len(m.buf)
           b == [i \in 0..SecSize-1 |-> m.buf[k + i + 1]]
<1>1. SecSize \in Nat \ {0} /\ l \in Nat /\ m.buf \in [1..l -> Int]
  BY LenProperties, GeometryAssumption DEF Ints
<1>2. k \in Nat /\ n \in Nat /\ k + SecSize <= n
  <2>1. t - s \in Int /\ cc \in Int /\ 0 <= t - s /\ t - s < cc /\ 0 \in Int
    OBVIOUS
  <2> DEFINE x == t - s
  <2>2. x \in Int /\ 0 <= x /\ x < cc
    BY <2>1
  <2> HIDE DEF x
  <2>3. x * SecSize \in Int /\ SecSize * x = x * SecSize /\ SecSize * 0 <= SecSize * x /\ SecSize * x + SecSize <= SecSize * cc
        /\ SecSize * cc = cc * SecSize /\ cc * SecSize \in Int /\ SecSize * 0 = 0
    <3>1. x * SecSize \in Int /\ SecSize * x = x * SecSize
      BY <1>1, <2>2, Times
    <3>2. SecSize * 0 = 0 /\ SecSize * 0 <= SecSize * x
      <4>1. 0 \in Int /\ SecSize * 0 = 0
        BY <1>1
      <4>2. SecSize * 0 <= SecSize * x
        BY <1>1, <2>2, <4>1, Times
      <4> QED BY <4>1, <4>2
    <3>3. SecSize * x + SecSize <= SecSize * cc /\ SecSize * cc = cc * SecSize /\ cc * SecSize \in Int
      <4>1. cc \in Int
        OBVIOUS
      <4> QED BY <1>1, <2>2, <4>1, Times
    <3> QED BY <3>1, <3>2, <3>3
  <2>4. \A p, q, r, u \in Int : p = q /\ 0 <= q /\ q + SecSize <= r /\ r = u => p \in Nat /\ u \in Nat /\ p + SecSize <= u
    BY <1>1
  <2>5. x * SecSize \in Nat /\ cc * SecSize \in Nat /\ x * SecSize + SecSize <= cc * SecSize
    BY <2>3, <2>4
  <2> QED BY <2>5 DEF x
<1>3. n <= l
  OBVIOUS
<1> HIDE DEF k, n, l
<1>4. b \in [0..SecSize-1 -> Int]
  BY <1>1, <1>2, <1>3
<1>5. SectorBytes(m, s, t) = DataSector(b)
  BY DEF SectorBytes, k
<1> HIDE DEF b
<1> QED BY <1>4, <1>5 DEF DataSector, Content, DataContent

LEMMA WriteDirectOk ==
  ASSUME NEW g \in Cards, ~g.still, NEW m \in InWrite(g), ~m.stop, Offset(m.f) = 0, InRange(m.f.clust), NEW cc \in Int,
         cc = Least(Len(m.buf) \div SecSize, CSize - SectorInCluster(m.f)), cc > 0,
         NEW s \in Int, s = clust2sect(m, m.f.clust) + SectorInCluster(m.f)
  PROVE  WriteDirect(m, s, cc) \in InWrite(g)
<1> DEFINE k == SectorInCluster(m.f)
           n == cc * SecSize
           l == Len(m.buf)
           a == Spent(m)
           hit == s <= m.winsect /\ m.winsect < s + cc
           d == [t \in DOMAIN a.disk |-> IF s <= t /\ t < s + cc THEN SectorBytes(m, s, t) ELSE a.disk[t]]
           w == IF hit THEN SectorBytes(m, s, m.winsect) ELSE a.win
           f == a.wflag /\ ~hit
           u == SubSeq(m.buf, n + 1, l)
           b == Moved(a, n)
           c == SetCard(b, d, w, f)
           z == SetBuf(c, u, c.want)
           e == Abort(a, "DISK_ERR")
<1>1. m \in Live(g) /\ m.buf \in Ints /\ "ERROR" \notin m.f.flag /\ m.f.clust \in Int /\ m.f.fptr \in Nat
  BY OffsetIs DEF InWrite
<1>2. l \in Nat
  BY <1>1, LenProperties DEF Ints
<1>3. /\ n \in Nat /\ k \in 0..CSize-1 /\ k + cc <= CSize /\ cc \in Nat \ {0} /\ n <= l
      /\ (m.f.fptr + n) % SecSize = Offset(m.f)
  <2> HIDE DEF l
  <2>1. l \in Int
    BY <1>2
  <2> QED BY <1>1, <2>1, SectorsOf DEF l
<1>4. a \in Live(g) /\ Beside(m, a) /\ a.disk = m.disk /\ a.win = m.win /\ a.winsect = m.winsect /\ a.wflag = m.wflag
  BY <1>1, SpentLive
<1>5. WriteDirect(m, s, cc) = IF Fails(m) THEN e ELSE z
  <2>1. a \in State /\ a.buf = m.buf
    BY <1>4 DEF Live, Work, Beside, Keeps
  <2>2. WriteDirect(m, s, cc) = IF Fails(m) THEN e
          ELSE [b EXCEPT !.disk = [t \in DOMAIN @ |-> IF s <= t /\ t < s + cc THEN SectorBytes(m, s, t) ELSE @[t]],
                         !.win = IF hit THEN SectorBytes(m, s, m.winsect) ELSE @,
                         !.wflag = @ /\ ~hit, !.buf = SubSeq(@, n + 1, Len(@))]
    BY DEF WriteDirect, SectorBytes
  <2> HIDE DEF a
  <2>4. b.disk = a.disk /\ b.win = a.win /\ b.wflag = a.wflag /\ b.buf = m.buf
    BY <2>1 DEF Moved, State
  <2>5. [b EXCEPT !.disk = [t \in DOMAIN @ |-> IF s <= t /\ t < s + cc THEN SectorBytes(m, s, t) ELSE @[t]],
                         !.win = IF hit THEN SectorBytes(m, s, m.winsect) ELSE @,
                         !.wflag = @ /\ ~hit, !.buf = SubSeq(@, n + 1, Len(@))]
        = [b EXCEPT !.disk = d, !.win = w, !.wflag = f, !.buf = u]
    BY <2>4
  <2> HIDE DEF d, w, f, u, n
  <2>6. [b EXCEPT !.disk = d, !.win = w, !.wflag = f, !.buf = u] = z
    <3>1. \E q : b = [a EXCEPT !.f.fptr = q]
      BY DEF Moved
    <3>2. PICK q : b = [a EXCEPT !.f.fptr = q]
      BY <3>1
    <3> HIDE DEF b
    <3> QED BY <2>1, <3>2 DEF SetCard, SetBuf, State
  <2> QED BY <2>2, <2>5, <2>6
<1> HIDE DEF a
<1>6. \A t \in Sectors : s <= t /\ t < s + cc => InData(g, t)
  <2>1. SUFFICES ASSUME NEW t \in Sectors, s <= t, t < s + cc PROVE InData(g, t)
    OBVIOUS
  <2> DEFINE v == clust2sect(g, m.f.clust)
             q == k + (t - s)
  <2>2. clust2sect(m, m.f.clust) = v
    BY <1>1, SameRegions DEF Live, Work, Card, Mount
  <2>3. v \in Int
    BY <1>1, ClusterInt
  <2> HIDE DEF v, k
  <2>4. t \in Int
    BY DEF Sectors
  <2>5. s = v + k
    BY <2>2 DEF v, k
  <2>6. q \in 0..CSize-1 /\ v + q = t
    <3>1. k \in 0..CSize-1 /\ k + cc <= CSize /\ CSize \in Nat
      BY <1>3, GeometryAssumption
    <3>2. k + (t - s) >= 0 /\ k + (t - s) < CSize
      BY <2>1, <2>4, <3>1
    <3>3. v + (k + (t - s)) = t
      BY <2>3, <2>4, <2>5, <3>1
    <3> QED BY <2>4, <3>1, <3>2, <3>3
  <2> HIDE DEF q
  <2>7. InData(g, v + q)
    BY <1>1, <2>6, ClusterSectors DEF v
  <2> QED BY <2>6, <2>7
<1>7. \A t \in Sectors : s <= t /\ t < s + cc => SectorBytes(m, s, t) \in Content
  <2>1. SUFFICES ASSUME NEW t \in Sectors, s <= t, t < s + cc PROVE SectorBytes(m, s, t) \in Content
    OBVIOUS
  <2>2. t \in Int
    BY DEF Sectors
  <2> QED BY <1>1, <1>3, <2>1, <2>2, SectorBytesOk
<1>8. a.disk \in [Sectors -> Content] /\ a.win \in Content /\ a.wflag \in BOOLEAN /\ m.winsect \in Sectors
  BY <1>4 DEF Live, Work, State, Card, WindowOk
<1>9. d \in [Sectors -> Content] /\ w \in Content /\ f \in BOOLEAN
  BY <1>7, <1>8
<1>10. /\ \A t \in Sectors : d[t] = a.disk[t] \/ InData(g, t)
       /\ \/ w = d[a.winsect] /\ ~f
          \/ w = a.win /\ f = a.wflag /\ d[a.winsect] = a.disk[a.winsect]
  <2> HIDE DEF u, n
  <2>1. \A t \in Sectors : d[t] = a.disk[t] \/ InData(g, t)
    BY <1>6, <1>8
  <2>2. hit => w = d[a.winsect] /\ ~f
    BY <1>4, <1>8
  <2>3. ~hit => w = a.win /\ f = a.wflag /\ d[a.winsect] = a.disk[a.winsect]
    BY <1>4, <1>8
  <2> QED BY <2>1, <2>2, <2>3
<1> HIDE DEF d, w, f
<1>11. u \in Ints
  <2>1. n + 1 \in Nat \ {0} /\ l \in Int
    BY <1>2, <1>3
  <2> HIDE DEF n
  <2> QED BY <1>1, <1>2, <2>1, PartOk
<1> HIDE DEF u, n, l
<1>12. b \in Live(g) /\ OnlyF(a, b) /\ b.f.flag = a.f.flag
  <2>1. a.f = m.f
    BY <1>4 DEF Beside, Keeps
  <2>2. Offset(a.f) = 0 /\ (a.f.fptr + n) % SecSize = 0 /\ a.f.fptr + n \in Nat /\ n \in Int
    BY <1>1, <1>3, <2>1
  <2> QED BY <1>4, <2>2, MovedOk
<1> HIDE DEF b
<1>13. c \in Live(g) /\ Keeps(b, c)
  <2>1. /\ \A t \in Sectors : d[t] = b.disk[t] \/ InData(g, t)
        /\ \/ w = d[b.winsect] /\ ~f
           \/ w = b.win /\ f = b.wflag /\ d[b.winsect] = b.disk[b.winsect]
    BY <1>10, <1>12 DEF OnlyF, SameCard
  <2> QED BY <1>9, <1>12, <2>1, CardOk
<1> HIDE DEF c
<1>14. u \in Bufs /\ c.want \in Int
  BY <1>11, <1>13, IntsIn DEF Live, Work, State
<1>15. z \in Live(g) /\ z.buf = u /\ z.f = c.f
  BY <1>13, <1>14, LiveBuf
<1> HIDE DEF z
<1>16. z \in InWrite(g)
  BY <1>1, <1>4, <1>11, <1>12, <1>13, <1>15 DEF InWrite, OnlyF, Beside, Keeps
<1>17. e \in InWrite(g)
  <2>1. a.buf \in Ints
    BY <1>1, <1>4 DEF Beside, Keeps
  <2> QED BY <1>4, <2>1, WriteAborts DEF Results
<1> HIDE DEF e
<1> QED BY <1>5, <1>16, <1>17

-----------------------------------------------------------------------------
(* f_write.                                                                *)

LEMMA LiveSync ==
  ASSUME NEW g \in Cards, NEW m \in Live(g)
  PROVE  LET a == sync_window(m) IN
         a \in Live(g) /\ Beside(m, a) /\ Keeps(m, a) /\ a.res \in Results /\ (a.res = "OK" => ~a.wflag)
<1> DEFINE a == sync_window(m)
<1>1. a \in Work(g) /\ Beside(m, a) /\ a.res \in {"OK", "DISK_ERR"} /\ (a.res = "OK" => ~a.wflag)
  BY SyncWindow DEF Live
<1> HIDE DEF a
<1> QED BY <1>1 DEF Live, Beside, Keeps, Results, a

LEMMA StillWriting ==
  ASSUME NEW g \in Cards, NEW m \in InWrite(g), NEW a \in Live(g), Beside(m, a)
  PROVE  a \in InWrite(g)
BY DEF InWrite, Beside, Keeps

LEMMA LiveDsect ==
  ASSUME NEW g \in Cards, NEW m \in InWrite(g), ~m.stop, NEW s \in Int, InData(g, s)
  PROVE  LET a == [m EXCEPT !.f.dsect = s] IN a \in InWrite(g) /\ ~a.stop /\ a.f.dsect = s
<1> DEFINE a == [m EXCEPT !.f.dsect = s]
<1>1. m \in Live(g) /\ m.buf \in Ints /\ "ERROR" \notin m.f.flag
  BY DEF InWrite
<1>2. a \in Live(g) /\ OnlyF(m, a) /\ a.f.flag = m.f.flag /\ a.f.dsect = s
  BY <1>1, DsectOk
<1> HIDE DEF a
<1> QED BY <1>1, <1>2 DEF InWrite, OnlyF, a

LEMMA WriteSectorOk ==
  ASSUME NEW g \in Cards, ~g.still, NEW m \in InWrite(g), ~m.stop, Offset(m.f) = 0
  PROVE  WriteSector(m) \in InWrite(g)
<1> DEFINE y == sync_window(m)
           o == Ok(m)
           a == IF m.winsect = m.f.dsect THEN y ELSE o
           s0 == clust2sect(a, a.f.clust)
           k == SectorInCluster(m.f)
           s == s0 + k
           cc == Least(Len(m.buf) \div SecSize, CSize - k)
           d0 == Abort(a, a.res)
           d1 == Abort(a, "INT_ERR")
           p == WritePart([a EXCEPT !.f.dsect = s])
           b == sync_window(a)
           d2 == Abort(b, b.res)
           q == WritePart([b EXCEPT !.winsect = s, !.f.dsect = s])
<1>1. WriteSector(m) = IF a.res # "OK" THEN d0 ELSE IF s0 = 0 THEN d1
                       ELSE IF cc > 0 THEN WriteDirect(a, s, cc)
                       ELSE IF m.f.fptr < m.f.fsize THEN p
                       ELSE IF b.res = "OK" THEN q ELSE d2
  BY DEF WriteSector, OrAbort
<1>2. m \in Live(g) /\ m.buf \in Ints /\ "ERROR" \notin m.f.flag
  BY DEF InWrite
<1>3. y \in Live(g) /\ Beside(m, y) /\ y.res \in Results
  BY <1>2, LiveSync
<1>4. o \in Live(g) /\ Beside(m, o) /\ o.res \in Results
  <2>1. o \in Live(g) /\ Beside(m, o)
    BY <1>2, LiveOk
  <2> HIDE DEF o
  <2> QED BY <2>1 DEF Live, Work, State
<1> HIDE DEF y, o
<1>5. a \in Live(g) /\ Beside(m, a) /\ a.res \in Results
  BY <1>3, <1>4
<1> HIDE DEF a
<1>6. a \in InWrite(g) /\ a.f = m.f /\ a.buf = m.buf /\ ~a.stop
  BY <1>5, StillWriting DEF Beside, Keeps
<1>7. d0 \in InWrite(g) /\ d1 \in InWrite(g)
  BY <1>2, <1>5, <1>6, WriteAborts DEF Results
<1>8. s0 # 0 => InRange(a.f.clust) /\ k \in 0..CSize-1 /\ s \in Int /\ InData(g, s)
  BY <1>5, <1>6, SectorAt
<1>9. s0 # 0 /\ cc > 0 => WriteDirect(a, s, cc) \in InWrite(g)
  <2>1. SUFFICES ASSUME s0 # 0, cc > 0 PROVE WriteDirect(a, s, cc) \in InWrite(g)
    OBVIOUS
  <2>2. cc \in Int
    <3> DEFINE l == Len(m.buf)
               x == l \div SecSize
    <3>0. l \in Nat /\ SecSize \in Nat \ {0}
      BY <1>2, LenProperties, GeometryAssumption DEF Ints
    <3> HIDE DEF l
    <3>1. x \in Int
      BY <3>0
    <3> HIDE DEF x, k
    <3>2. CSize \in Nat
      BY GeometryAssumption
    <3> QED BY <1>8, <2>1, <3>1, <3>2 DEF Least, x, l
  <2>3. /\ cc = Least(Len(a.buf) \div SecSize, CSize - SectorInCluster(a.f))
        /\ s = clust2sect(a, a.f.clust) + SectorInCluster(a.f) /\ Offset(a.f) = 0
    BY <1>6
  <2> HIDE DEF cc, s
  <2> QED BY <1>6, <1>8, <2>1, <2>2, <2>3, WriteDirectOk
<1>10. s0 # 0 => p \in InWrite(g)
  <2>1. SUFFICES ASSUME s0 # 0 PROVE p \in InWrite(g)
    OBVIOUS
  <2> DEFINE x == [a EXCEPT !.f.dsect = s]
  <2>2. s \in Int /\ InData(g, s)
    BY <1>8, <2>1
  <2> HIDE DEF s
  <2>3. x \in InWrite(g) /\ ~x.stop /\ x.f.dsect = s
    BY <1>6, <2>2, LiveDsect
  <2> HIDE DEF x
  <2>4. WritePart(x) \in InWrite(g)
    BY <2>2, <2>3, WritePartOk
  <2> QED BY <2>4 DEF x
<1>11. b \in Live(g) /\ Beside(a, b) /\ b.res \in Results /\ (b.res = "OK" => ~b.wflag)
  BY <1>5, LiveSync
<1> HIDE DEF b
<1>12. b \in InWrite(g) /\ ~b.stop /\ b.buf \in Ints
  BY <1>2, <1>6, <1>11, StillWriting DEF Beside, Keeps
<1>13. d2 \in InWrite(g)
  BY <1>11, <1>12, WriteAborts
<1>14. s0 # 0 /\ b.res = "OK" => q \in InWrite(g)
  <2> HIDE DEF s, s0
  <2> QED BY <1>8, <1>11, <1>12, WriteEdgeOk
<1> HIDE DEF s, d0, d1, d2, p, q, cc, s0
<1> QED BY <1>1, <1>7, <1>9, <1>10, <1>13, <1>14

LEMMA WriteTurnOk ==
  ASSUME NEW g \in Cards, ~g.still, NEW m \in InWrite(g), ~m.stop
  PROVE  WriteTurn(m) \in InWrite(g)
<1> DEFINE s == Stop(m, "OK")
           w == WriteCluster(m)
           o == Ok(m)
           a == IF AtCluster(m.f) THEN w ELSE o
<1>1. WriteTurn(m) = IF m.buf = <<>> THEN s ELSE IF a.stop THEN a
                     ELSE IF Offset(m.f) = 0 THEN WriteSector(a) ELSE WritePart(a)
  BY DEF WriteTurn, After
<1>2. m \in Live(g) /\ m.buf \in Ints /\ "ERROR" \notin m.f.flag
  BY DEF InWrite
<1>3. s \in InWrite(g)
  <2>1. s \in Live(g) /\ Keeps(m, s) /\ s.stop
    BY <1>2, LiveStop DEF Results
  <2> HIDE DEF s
  <2> QED BY <1>2, <2>1 DEF InWrite, Keeps
<1>4. w \in InWrite(g) /\ (~w.stop => Alike(m, w))
  BY WriteClusterOk
<1>5. o \in InWrite(g) /\ Alike(m, o)
  <2>1. o \in Live(g) /\ Beside(m, o)
    BY <1>2, LiveOk
  <2> HIDE DEF o
  <2> QED BY <2>1, StillWriting DEF Beside, Keeps, Alike
<1> HIDE DEF s, w, o
<1>6. a \in InWrite(g) /\ (~a.stop => a.f.fptr = m.f.fptr /\ a.f.dsect = m.f.dsect)
  BY <1>4, <1>5 DEF Alike
<1> HIDE DEF a
<1>7. ~a.stop /\ Offset(m.f) = 0 => WriteSector(a) \in InWrite(g)
  BY <1>6, WriteSectorOk DEF Offset
<1>8. ~a.stop /\ Offset(m.f) # 0 => WritePart(a) \in InWrite(g)
  <2>1. Offset(m.f) # 0 => InData(g, m.f.dsect)
    BY <1>2, OffsetIs
  <2> QED BY <1>6, <2>1, WritePartOk
<1> QED BY <1>1, <1>3, <1>6, <1>7, <1>8

LEMMA WritesOn ==
  ASSUME NEW g \in Cards, ~g.still, NEW m \in Live(g), m.buf \in Ints, "ERROR" \notin m.f.flag, NEW k \in Nat
  PROVE  Loop(m, WriteTurn, k) \in Live(g)
<1> DEFINE M == InWrite(g)
           x0 == SetStop(m, FALSE)
<1>20. k \in Nat
  OBVIOUS
<1>10. x0 \in M
  <2>1. x0 \in Work(g) /\ Keeps(m, x0) /\ ~x0.stop
    BY StopOk DEF Live
  <2> HIDE DEF x0
  <2> QED BY <2>1 DEF InWrite, Live, Keeps
<1>11. \A y \in M : (IF y.stop THEN y ELSE WriteTurn(y)) \in M
  BY WriteTurnOk
<1> HIDE DEF x0
<1> DEFINE step == [y \in M |-> IF y.stop THEN y ELSE WriteTurn(y)]
           t == CHOOSE f : f = [i \in 0..k |-> IF i = 0 THEN x0 ELSE IF f[i-1].stop THEN f[i-1] ELSE WriteTurn(f[i-1])]
<1> HIDE DEF M
<1>21. step \in [M -> M]
  BY <1>11
<1>22. PICK f : IsRun(f, M, x0, k, step)
  <2> HIDE DEF step
  <2> QED BY <1>10, <1>20, <1>21, Repeated
<1>23. f = [i \in 0..k |-> IF i = 0 THEN x0 ELSE IF f[i-1].stop THEN f[i-1] ELSE WriteTurn(f[i-1])]
  <2>1. ASSUME NEW i \in 0..k, i # 0
        PROVE  step[f[i-1]] = IF f[i-1].stop THEN f[i-1] ELSE WriteTurn(f[i-1])
    <3>1. i - 1 \in 0..k
      BY <1>20, <2>1
    <3>2. f[i-1] \in M
      BY <1>22, <3>1 DEF IsRun
    <3> QED BY <3>2
  <2> HIDE DEF step
  <2> QED BY <1>22, <2>1 DEF IsRun
<1>24. t = [i \in 0..k |-> IF i = 0 THEN x0 ELSE IF t[i-1].stop THEN t[i-1] ELSE WriteTurn(t[i-1])]
  BY <1>23
<1> HIDE DEF t, step
<1> DEFINE G == [i \in 0..k |-> M]
<1>12. x0 \in G[0]
  BY <1>10, <1>20
<1>13. \A i \in 1..k : \A y \in G[i-1] : (IF y.stop THEN y ELSE WriteTurn(y)) \in G[i]
  BY <1>11, <1>20
<1> HIDE DEF G
<1>25. t[k] \in G[k]
  <2>1. t[0] \in G[0]
    BY <1>12, <1>20, <1>24
  <2>2. ASSUME NEW i \in 1..k, t[i-1] \in G[i-1] PROVE t[i] \in G[i]
    <3>1. t[i] = IF t[i-1].stop THEN t[i-1] ELSE WriteTurn(t[i-1])
      BY <1>20, <1>24
    <3> DEFINE y == t[i-1]
    <3>2. y \in G[i-1] /\ t[i] = IF y.stop THEN y ELSE WriteTurn(y)
      BY <2>2, <3>1
    <3> HIDE DEF y
    <3> QED BY <1>13, <3>2
  <2> QED BY <1>20, <2>1, <2>2, Always
<1>26. t[k] \in M
  BY <1>20, <1>25 DEF G
<1> DEFINE e == t[k]
           f1 == Ended(e)
<1>3. e \in M
  BY <1>26
<1> HIDE DEF e
<1>4. f1 \in Live(g)
  <2>1. e \in Work(g) /\ e.type # "none"
    BY <1>3 DEF M, InWrite, Live
  <2>2. f1 \in Work(g) /\ Keeps(e, f1)
    BY <2>1, EndedOk
  <2> HIDE DEF f1
  <2> QED BY <2>1, <2>2 DEF Live, Keeps
<1>5. Loop(m, WriteTurn, k) = f1
  BY DEF Loop, Turn, t, f1, e, x0, SetStop
<1> HIDE DEF f1
<1> QED BY <1>4, <1>5

(* The size and the mark of a file that has been written to.                *)
LEMMA MarkedOk ==
  ASSUME NEW g \in Cards, NEW m \in Live(g)
  PROVE  [Grown(m) EXCEPT !.f.flag = @ \cup {"WRITTEN"}] \in Live(g)
<1> DEFINE n == IF m.f.fptr > m.f.fsize THEN m.f.fptr ELSE m.f.fsize
           fl == m.f.flag \cup {"WRITTEN"}
           f == [m.f EXCEPT !.fsize = n, !.flag = fl]
           a == SetF(m, f)
<1>0. m \in State /\ m.f \in FileObjects /\ FileOk(m.f, g)
  BY DEF Live, Work, State
<1>1. [Grown(m) EXCEPT !.f.flag = @ \cup {"WRITTEN"}] = a
  BY <1>0 DEF Grown, SetF, State, FileObjects
<1>2. n \in Nat /\ fl \in SUBSET Flags /\ ("ERROR" \in fl <=> "ERROR" \in m.f.flag)
  BY <1>0 DEF FileObjects, Flags
<1> HIDE DEF n, fl
<1>3. /\ f \in FileObjects /\ f.fptr = m.f.fptr /\ f.flag = fl /\ f.open = m.f.open /\ f.dsect = m.f.dsect
      /\ f.dir_sect = m.f.dir_sect /\ f.dir_ptr = m.f.dir_ptr
  BY <1>0, <1>2 DEF FileObjects
<1> HIDE DEF f
<1>4. FileOk(f, g)
  BY <1>0, <1>2, <1>3 DEF FileOk, Offset
<1>5. a \in Live(g)
  BY <1>3, <1>4, LiveF
<1> HIDE DEF a
<1> QED BY <1>1, <1>5

LEMMA FWrite ==
  ASSUME NEW g \in Cards, ~g.still, NEW m \in Work(g), NEW data \in Ints
  PROVE  f_write(m, data) \in Work(g)
<1> DEFINE m0 == SetBuf(m, data, m.want)
           a == Usable(m0, {"W"})
           n == Len(data) + 1
           b == Loop(a, WriteTurn, n)
           c == [Grown(b) EXCEPT !.f.flag = @ \cup {"WRITTEN"}]
<1>1. f_write(m, data) = IF a.res = "OK" THEN IF b.res = "OK" THEN c ELSE b ELSE a
  <2>1. [m EXCEPT !.buf = data] = m0
    BY DEF SetBuf, Work, State
  <2> HIDE DEF m0
  <2> QED BY <2>1 DEF f_write, Then
<1>2. m0 \in Work(g) /\ m0.buf = data
  <2>1. data \in Bufs /\ m.want \in Int
    BY IntsIn DEF Work, State
  <2> QED BY <2>1, BufOk
<1> HIDE DEF m0
<1>3. a \in Work(g) /\ Beside(m0, a) /\ (a.res = "OK" => a \in Live(g) /\ "ERROR" \notin a.f.flag)
  BY <1>2, UsableOk
<1> HIDE DEF a
<1>4. n \in Nat
  BY LenProperties DEF Ints
<1> HIDE DEF n
<1>5. a.res = "OK" => b \in Live(g)
  <2>1. a.buf = data
    BY <1>2, <1>3 DEF Beside, Keeps
  <2> QED BY <1>3, <1>4, <2>1, WritesOn
<1> HIDE DEF b
<1>6. a.res = "OK" => c \in Live(g)
  BY <1>5, MarkedOk
<1> HIDE DEF c
<1> QED BY <1>1, <1>3, <1>5, <1>6 DEF Live

-----------------------------------------------------------------------------
(* f_sync, f_close, f_truncate.                                            *)

LEMMA FlagsOk ==
  ASSUME NEW g \in Cards, NEW m \in Live(g), NEW s \in SUBSET Flags, "ERROR" \notin s => "ERROR" \notin m.f.flag
  PROVE  LET a == [m EXCEPT !.f.flag = s] IN
         /\ a \in Live(g) /\ OnlyF(m, a) /\ a.f.flag = s /\ a.f.fptr = m.f.fptr /\ a.f.fsize = m.f.fsize
         /\ a.f.sclust = m.f.sclust /\ a.f.dir_ptr = m.f.dir_ptr
<1> DEFINE f == [m.f EXCEPT !.flag = s]
           a == SetF(m, f)
<1>1. [m EXCEPT !.f.flag = s] = a
  BY DEF SetF
<1>2. m.f \in FileObjects /\ FileOk(m.f, g)
  BY DEF Live, Work, State
<1>3. /\ f \in FileObjects /\ f.flag = s /\ f.fptr = m.f.fptr /\ f.fsize = m.f.fsize /\ f.open = m.f.open
      /\ f.dsect = m.f.dsect /\ f.dir_sect = m.f.dir_sect /\ f.dir_ptr = m.f.dir_ptr /\ f.sclust = m.f.sclust
  BY <1>2 DEF FileObjects
<1> HIDE DEF f
<1>4. FileOk(f, g)
  BY <1>2, <1>3 DEF FileOk, Offset
<1>5. a \in Live(g) /\ a.f = f /\ OnlyF(m, a)
  BY <1>3, <1>4, LiveF
<1> HIDE DEF a
<1> QED BY <1>1, <1>3, <1>5

(* f_sync: the entry of the file object is brought up to date.              *)
LEMMA RecordedOk ==
  ASSUME NEW g \in Cards, ~g.still, NEW m \in Live(g), m.winsect \in Sectors, RootBase(g) <= m.winsect,
         m.f.dir_ptr \in 0..DirPer-1
  PROVE  Recorded(m) \in Live(g)
<1> DEFINE p == m.f.dir_ptr
           e == AsDir(m.win).e[p]
           at == e.attr \cup {"ARC"}
           h == [e EXCEPT !.attr = at, !.size = m.f.fsize, !.clust = m.f.sclust]
           s == m.f.flag \ {"WRITTEN"}
           a == [m EXCEPT !.f.flag = s]
           b == [a EXCEPT !.dj.dir = p]
           z == PutEntry(b, h)
<1>1. m \in State /\ m.f \in FileObjects /\ m.win \in Content
  BY DEF Live, Work, State
<1>2. Recorded(m) = z
  <2>1. [m EXCEPT !.dj.dir = p, !.f.flag = @ \ {"WRITTEN"}] = b
    BY <1>1 DEF State
  <2> HIDE DEF b
  <2> QED BY <2>1 DEF Recorded
<1>3. e \in Entry /\ m.f.fsize \in Nat /\ m.f.sclust \in Nat
  BY <1>1, Shown DEF DirContent, FileObjects
<1>4. at \in SUBSET Attrs
  BY <1>3 DEF Entry, Attrs
<1> HIDE DEF e, at
<1>5. h \in Entry
  BY <1>3, <1>4 DEF Entry
<1>6. s \in SUBSET Flags /\ ("ERROR" \in s <=> "ERROR" \in m.f.flag)
  BY <1>1 DEF FileObjects
<1> HIDE DEF s, h
<1>7. a \in Live(g) /\ OnlyF(m, a)
  BY <1>6, FlagsOk
<1> HIDE DEF a
<1>8. p \in -1..DirPer-1 /\ p # Self
  BY GeometryAssumption DEF Self
<1> HIDE DEF p
<1>9. b \in Live(g) /\ OnlyDj(a, b) /\ b.dj.dir = p
  BY <1>7, <1>8, DirPtrOk
<1> HIDE DEF b
<1>10. OnEntry(b, g)
  BY <1>7, <1>8, <1>9 DEF OnEntry, OnlyDj, OnlyF, SameCard
<1>11. z \in Live(g)
  BY <1>5, <1>9, <1>10, PutEntryOk
<1> HIDE DEF z
<1> QED BY <1>2, <1>11

LEMMA FSync ==
  ASSUME NEW g \in Cards, ~g.still, NEW m \in Work(g)
  PROVE  f_sync(m) \in Work(g)
<1> DEFINE a == validate(m, m.f)
           b == move_window(a, a.f.dir_sect)
           c == Recorded(b)
           d == sync_fs(c)
<1>1. f_sync(m) = IF a.res = "OK" THEN IF "WRITTEN" \notin a.f.flag THEN a
                                       ELSE IF b.res = "OK" THEN d ELSE b
                  ELSE a
  BY DEF f_sync, Then
<1>2. a \in Work(g) /\ Beside(m, a) /\ (a.res = "OK" => a \in Live(g))
  BY ValidateOk
<1>3. a.res = "OK" => m.f.open
  <2>1. ~m.f.open => a.res = "INVALID_OBJECT"
    <3>1. m \in State
      BY DEF Work
    <3> QED BY <3>1 DEF validate, Fail, State
  <2> QED BY <2>1
<1> HIDE DEF a
<1>4. a.res = "OK" => b \in Work(g) /\ (b.res = "OK" => d \in Work(g))
  <2>1. SUFFICES ASSUME a.res = "OK" PROVE b \in Work(g) /\ (b.res = "OK" => d \in Work(g))
    OBVIOUS
  <2>2. /\ a \in Live(g) /\ a.f.dir_sect \in Sectors /\ RootBase(g) <= a.f.dir_sect
        /\ a.f.dir_ptr \in 0..DirPer-1
    BY <1>2, <1>3, <2>1 DEF Beside, Keeps, Live, Work, FileOk
  <2>3. ~Copy(g, a.f.dir_sect)
    BY <2>2, Regions DEF Copy, Sectors
  <2>4. b \in Live(g) /\ Keeps(a, b) /\ (b.res = "OK" => b.winsect = a.f.dir_sect)
    BY <2>2, <2>3, LiveWindow
  <2> HIDE DEF b
  <2>5. b.res = "OK" => c \in Live(g)
    BY <2>2, <2>4, RecordedOk DEF Keeps
  <2> HIDE DEF c
  <2>6. b.res = "OK" => d \in Live(g)
    BY <2>5, SyncFs
  <2> QED BY <2>4, <2>6 DEF Live
<1> HIDE DEF b, d
<1> QED BY <1>1, <1>2, <1>4

LEMMA FClose ==
  ASSUME NEW g \in Cards, ~g.still, NEW m \in Work(g)
  PROVE  f_close(m) \in Work(g)
<1> DEFINE a == f_sync(m)
           f == [a.f EXCEPT !.open = FALSE]
           b == SetF(a, f)
<1>1. f_close(m) = IF a.res = "OK" THEN b ELSE a
  BY DEF f_close, Then, SetF
<1>2. a \in Work(g)
  BY FSync
<1> HIDE DEF a
<1>3. a.f \in FileObjects /\ FileOk(a.f, g)
  BY <1>2 DEF Work, State
<1>4. f \in FileObjects /\ ~f.open /\ f.flag = a.f.flag /\ f.fptr = a.f.fptr /\ f.dsect = a.f.dsect
  BY <1>3 DEF FileObjects
<1> HIDE DEF f
<1>5. FileOk(f, g)
  BY <1>3, <1>4 DEF FileOk, Offset
<1>6. b \in Work(g)
  BY <1>2, <1>4, <1>5, WorkF
<1> HIDE DEF b
<1> QED BY <1>1, <1>2, <1>6

(* f_truncate.                                                              *)
LEMMA CutChainOk ==
  ASSUME NEW g \in Cards, ~g.still, NEW m \in Live(g)
  PROVE  CutChain(m) \in Live(g)
<1> DEFINE a == get_fat(m, m.f.clust)
           f == Fail(a, LinkError(a))
           b == put_fat(a, a.f.clust, EOC)
           c == remove_chain(b, a.val)
<1>1. CutChain(m) = IF a.val \in {1, DERR} THEN f ELSE IF a.val >= NFatEnt THEN a
                    ELSE IF b.res = "OK" THEN c ELSE b
  BY DEF CutChain, After, Then
<1>2. m \in Work(g) /\ m.type # "none" /\ m.f.clust \in Int
  BY OffsetIs DEF Live
<1>3. a \in Work(g) /\ Beside(m, a) /\ a.val \in Nat
      /\ (~InRange(m.f.clust) => a.val = 1)
      /\ (InRange(m.f.clust) => a.val = DERR \/ a.winsect = FatSectorOf(g, m.f.clust))
  BY <1>2, GetFat
<1> HIDE DEF a
<1>4. a \in Live(g) /\ a.f = m.f
  BY <1>2, <1>3 DEF Live, Beside, Keeps
<1>5. f \in Live(g)
  BY <1>4, LiveFail, LinkErrors
<1>6. a.val \notin {1, DERR} => b \in Live(g)
  <2>1. SUFFICES ASSUME a.val \notin {1, DERR} PROVE b \in Live(g)
    OBVIOUS
  <2>2. InFat(g, a.winsect)
    BY <1>2, <1>3, <2>1, FatSectors
  <2>3. EOC \in Nat /\ a.f.clust \in Int
    BY <1>2, <1>4, GeometryAssumption DEF EOC
  <2>4. b \in Work(g) /\ Beside(a, b)
    BY <1>4, <2>2, <2>3, PutFat DEF Live
  <2> HIDE DEF b
  <2> QED BY <1>4, <2>4 DEF Live, Beside, Keeps
<1> HIDE DEF b, f
<1>7. a.val \notin {1, DERR} => c \in Live(g)
  BY <1>3, <1>6, RemoveChain
<1> HIDE DEF c
<1> QED BY <1>1, <1>4, <1>5, <1>6, <1>7

LEMMA FTruncate ==
  ASSUME NEW g \in Cards, ~g.still, NEW m \in Work(g)
  PROVE  f_truncate(m) \in Work(g)
<1> DEFINE a == Usable(m, {"W"})
           fl == a.f.flag \cup {"WRITTEN"}
           f == [a.f EXCEPT !.fsize = a.f.fptr, !.flag = fl]
           b == SetF(a, f)
           q == remove_chain(b, b.f.sclust)
           r == [q EXCEPT !.f.sclust = 0]
           c == IF b.f.fptr = 0 THEN r ELSE CutChain(b)
           d == Abort(c, c.res)
           z == SetStop(d, FALSE)
<1>1. f_truncate(m) = IF a.res = "OK" THEN IF a.f.fsize <= a.f.fptr THEN a ELSE IF c.res = "OK" THEN c ELSE z
                      ELSE a
  <2>1. a \in State
    BY UsableOk DEF Work
  <2> HIDE DEF a
  <2>2. [a EXCEPT !.f.fsize = a.f.fptr, !.f.flag = @ \cup {"WRITTEN"}] = b
    BY <2>1 DEF State, FileObjects, SetF
  <2> HIDE DEF b
  <2>3. Shortened(b) = c
    BY DEF Shortened
  <2> HIDE DEF c
  <2>4. f_truncate(m) = IF a.res = "OK" THEN IF a.f.fsize <= a.f.fptr THEN a
             ELSE After(Shortened([a EXCEPT !.f.fsize = a.f.fptr, !.f.flag = @ \cup {"WRITTEN"}]),
               LAMBDA y : IF y.res = "OK" THEN y ELSE [Abort(y, y.res) EXCEPT !.stop = FALSE])
             ELSE a
    BY DEF f_truncate, Then, a
  <2> QED BY <2>2, <2>3, <2>4 DEF After, SetStop
<1>2. a \in Work(g) /\ (a.res = "OK" => a \in Live(g))
  BY UsableOk
<1> HIDE DEF a
<1>3. a.res = "OK" => (c.res = "OK" => c \in Work(g)) /\ (c.res # "OK" => z \in Work(g))
  <2>1. SUFFICES ASSUME a.res = "OK" PROVE (c.res = "OK" => c \in Work(g)) /\ (c.res # "OK" => z \in Work(g))
    OBVIOUS
  <2>2. a \in Live(g) /\ a.f \in FileObjects /\ FileOk(a.f, g)
    BY <1>2, <2>1 DEF Live, Work, State
  <2>3. fl \in SUBSET Flags /\ ("ERROR" \in fl <=> "ERROR" \in a.f.flag) /\ a.f.fptr \in Nat
    BY <2>2 DEF FileObjects, Flags
  <2> HIDE DEF fl
  <2>4. /\ f \in FileObjects /\ f.fptr = a.f.fptr /\ f.flag = fl /\ f.open = a.f.open /\ f.dsect = a.f.dsect
        /\ f.dir_sect = a.f.dir_sect /\ f.dir_ptr = a.f.dir_ptr
    BY <2>2, <2>3 DEF FileObjects
  <2> HIDE DEF f
  <2>5. FileOk(f, g)
    BY <2>2, <2>3, <2>4 DEF FileOk, Offset
  <2>6. b \in Live(g)
    BY <2>2, <2>4, <2>5, LiveF
  <2> HIDE DEF b
  <2>7. b.f.sclust \in Int
    BY <2>6, OffsetIs
  <2>8. q \in Live(g)
    BY <2>6, <2>7, RemoveChain
  <2> HIDE DEF q
  <2>9. r \in Live(g)
    BY <2>8, StoreOk
  <2> HIDE DEF r
  <2>10. c \in Live(g)
    BY <2>6, <2>9, CutChainOk
  <2> HIDE DEF c
  <2>11. c.res \in Results
    BY <2>10 DEF Live, Work, State
  <2>12. d \in Live(g)
    BY <2>10, <2>11, AbortOk
  <2> HIDE DEF d
  <2>13. z \in Work(g)
    BY <2>12, StopOk DEF Live
  <2> QED BY <2>10, <2>13 DEF Live
<1> HIDE DEF c, z
<1> QED BY <1>1, <1>2, <1>3

-----------------------------------------------------------------------------
(* f_lseek.                                                                *)
LEMMA FptrOk ==
  ASSUME NEW g \in Cards, NEW m \in Live(g), NEW p \in Nat, p % SecSize # 0 => InData(g, m.f.dsect)
  PROVE  LET a == [m EXCEPT !.f.fptr = p] IN
         /\ a \in Live(g) /\ OnlyF(m, a) /\ a.f.fptr = p /\ a.f.flag = m.f.flag /\ a.f.sclust = m.f.sclust
         /\ a.f.clust = m.f.clust
<1> DEFINE f == [m.f EXCEPT !.fptr = p]
           a == SetF(m, f)
<1>1. [m EXCEPT !.f.fptr = p] = a
  BY DEF SetF
<1>2. m.f \in FileObjects /\ FileOk(m.f, g)
  BY DEF Live, Work, State
<1>3. /\ f \in FileObjects /\ f.flag = m.f.flag /\ f.fptr = p /\ f.open = m.f.open
      /\ f.dsect = m.f.dsect /\ f.dir_sect = m.f.dir_sect /\ f.dir_ptr = m.f.dir_ptr /\ f.sclust = m.f.sclust
      /\ f.clust = m.f.clust
  BY <1>2 DEF FileObjects
<1> HIDE DEF f
<1>4. FileOk(f, g)
  BY <1>2, <1>3 DEF FileOk, Offset
<1>5. a \in Live(g) /\ a.f = f /\ OnlyF(m, a)
  BY <1>3, <1>4, LiveF
<1> HIDE DEF a
<1> QED BY <1>1, <1>3, <1>5

LEMMA ClusterBytesOk ==
  /\ ClusterBytes \in Nat \ {0} /\ SecSize \in Nat \ {0} /\ CSize \in Nat \ {0}
  /\ \A k \in Nat : (k * ClusterBytes) % SecSize = 0 /\ k * ClusterBytes \in Nat
  /\ \A p \in Nat : (p + ClusterBytes) % SecSize = p % SecSize
<1>1. SecSize \in Nat \ {0} /\ CSize \in Nat \ {0}
  BY GeometryAssumption
<1> DEFINE b == CSize * SecSize
<1>2. b \in Nat \ {0}
  <2>1. SecSize * 0 + SecSize <= SecSize * CSize /\ SecSize * CSize = CSize * SecSize /\ CSize * SecSize \in Int
    <3>1. 0 \in Int /\ 0 < CSize /\ CSize \in Int
      BY <1>1
    <3> QED BY <1>1, <3>1, Times
  <2>2. SecSize * 0 = 0
    BY <1>1
  <2> HIDE DEF b
  <2>3. CSize * SecSize = b
    BY DEF b
  <2> QED BY <1>1, <2>1, <2>2, <2>3
<1>3. ASSUME NEW p \in Nat PROVE (p + b) % SecSize = p % SecSize
  <2>1. CSize \in Nat
    BY <1>1
  <2> QED BY <1>1, <2>1, Remainder
<1>4. ASSUME NEW k \in Nat PROVE (k * b) % SecSize = 0 /\ k * b \in Nat
  <2> DEFINE S == {i \in Nat : i * b \in Nat /\ (i * b) % SecSize = 0}
  <2>1. 0 \in S
    <3>1. 0 * b = 0
      BY <1>2
    <3> QED BY <3>1, ZeroOffset
  <2>2. ASSUME NEW i \in Nat, i \in S PROVE i + 1 \in S
    <3>1. (i + 1) * b = i * b + b
      BY <1>2
    <3> DEFINE q == i * b
    <3>2. q \in Nat /\ q % SecSize = 0
      BY <2>2
    <3> HIDE DEF q, b
    <3>3. (q + b) % SecSize = 0 /\ q + b \in Nat
      BY <1>2, <1>3, <3>2
    <3> QED BY <3>1, <3>3 DEF q
  <2> HIDE DEF S
  <2>3. \A i \in Nat : i \in S
    BY <2>1, <2>2, SetInduction
  <2> QED BY <2>3 DEF S
<1> QED BY <1>1, <1>2, <1>3, <1>4 DEF ClusterBytes

(* A seek that has got to the start of a cluster, with the way still to go. *)
Sought0(a) == "ERROR" \notin a.f.flag /\ Offset(a.f) = 0 /\ a.want \in Nat
LEMMA SeekStartOk ==
  ASSUME NEW g \in Cards, ~g.still, NEW m \in Live(g), "ERROR" \notin m.f.flag, m.want \in Nat \ {0}
  PROVE  LET a == SeekStart(m) IN a \in Live(g) /\ (a.res = "OK" => Sought0(a))
<1> DEFINE p == m.f.fptr
           j == (p - 1) \div ClusterBytes
           base == j * ClusterBytes
           cut == p > 0 /\ (m.want - 1) \div ClusterBytes >= j
           o == Ok(m)
           o1 == [o EXCEPT !.f.fptr = base]
           o2 == SetBuf(o1, m.buf, m.want - base)
           o3 == SetVal(o2, m.f.clust)
           m0 == [m EXCEPT !.f.fptr = 0]
           w == create_chain(m0, 0)
           v == SetVal(m0, m.f.sclust)
           a == IF m.f.sclust = 0 THEN w ELSE v
           d == Abort(a, LinkError(a))
           k == Ok(a)
           k1 == [k EXCEPT !.f.sclust = a.val]
           k2 == [k1 EXCEPT !.f.clust = a.val]
<1>1. SeekStart(m) = IF cut THEN o3 ELSE IF a.val \in {1, DERR} THEN d ELSE k2
  <2>0. m \in State
    BY DEF Live, Work
  <2>1. [Ok(m) EXCEPT !.f.fptr = base, !.want = @ - base, !.val = m.f.clust] = o3
    <3> HIDE DEF base
    <3> QED BY <2>0 DEF Ok, SetBuf, SetVal, State
  <2>2. [m EXCEPT !.f.fptr = 0, !.val = m.f.sclust] = v
    BY <2>0 DEF SetVal, State
  <2> HIDE DEF o3, v
  <2>3. SeekStart(m) = IF cut THEN o3 ELSE After(a, LAMBDA x : IF x.val \in {1, DERR} THEN Abort(x, LinkError(x))
             ELSE [Ok(x) EXCEPT !.f.sclust = x.val, !.f.clust = x.val])
    BY <2>1, <2>2 DEF SeekStart
  <2> HIDE DEF a
  <2>4. [Ok(a) EXCEPT !.f.sclust = a.val, !.f.clust = a.val] = k2
    OBVIOUS
  <2> QED BY <2>3, <2>4 DEF After
<1>2. p \in Nat /\ m.f.clust \in Nat /\ m.f.sclust \in Nat /\ m.buf \in Bufs /\ m.want \in Nat \ {0}
  BY OffsetIs
<1>3. cut => o3 \in Live(g) /\ Sought0(o3)
  <2>1. SUFFICES ASSUME cut PROVE o3 \in Live(g) /\ Sought0(o3)
    OBVIOUS
  <2>2. base \in Nat /\ base % SecSize = 0 /\ m.want - base \in Nat
    <3> DEFINE x == p - 1
               y == m.want - 1
               c == ClusterBytes
               i == y \div c
    <3>1. x \in Nat /\ y \in Nat /\ c \in Nat \ {0}
      <4>1. p > 0 /\ m.want > 0
        BY <1>2, <2>1
      <4> DEFINE w1 == m.want
      <4>2. w1 \in Nat /\ w1 > 0
        BY <1>2, <4>1
      <4> HIDE DEF p, w1
      <4>3. x \in Nat /\ w1 - 1 \in Nat
        BY <1>2, <4>1, <4>2
      <4> QED BY <4>3, ClusterBytesOk DEF w1
    <3> HIDE DEF c
    <3>2. i \in Nat /\ y % c \in 0..c-1 /\ y = c * i + (y % c)
      BY <3>1, Divided
    <3>3. x \div c \in Nat
      BY <3>1, Divided
    <3>4. j \in Nat /\ j <= i
      BY <2>1, <3>2, <3>3 DEF c
    <3>5. j * c \in Nat /\ (j * c) % SecSize = 0
      BY <3>4, ClusterBytesOk DEF c
    <3> DEFINE r == y % c
    <3>6. r \in Nat /\ i \in Nat /\ y = c * i + r
      BY <3>1, <3>2
    <3> HIDE DEF j, i, r
    <3>7. c * j <= c * i /\ c * j = j * c /\ c * i \in Int
      BY <3>1, <3>4, <3>6, Times
    <3>8. j * c <= y
      <4> DEFINE s == c * i
                 t == j * c
      <4>1. t <= s /\ s \in Int /\ t \in Nat /\ y = s + r
        BY <3>5, <3>6, <3>7
      <4> HIDE DEF s, t
      <4> QED BY <3>1, <3>6, <4>1 DEF t
    <3>9. j * c <= m.want /\ base = j * c
      <4> DEFINE t == j * c
      <4>1. t \in Nat /\ t <= m.want - 1
        BY <3>5, <3>8
      <4> HIDE DEF t
      <4>2. t <= m.want
        BY <1>2, <4>1
      <4> QED BY <4>2 DEF t, c
    <3> HIDE DEF base
    <3> DEFINE t == j * c
    <3>10. t \in Nat /\ t <= m.want /\ base = t /\ t % SecSize = 0
      BY <3>5, <3>9
    <3> HIDE DEF t
    <3> QED BY <1>2, <3>10
  <2> HIDE DEF base
  <2>3. o \in Live(g) /\ Beside(m, o)
    BY LiveOk
  <2> HIDE DEF o
  <2>4. o1 \in Live(g) /\ OnlyF(o, o1) /\ o1.f.fptr = base /\ o1.f.flag = o.f.flag
    BY <2>2, <2>3, FptrOk
  <2> HIDE DEF o1
  <2>5. o2 \in Live(g) /\ o2.f = o1.f /\ o2.want = m.want - base
    <3>1. m.want - base \in Int
      BY <2>2
    <3> QED BY <1>2, <2>4, <3>1, LiveBuf
  <2> HIDE DEF o2
  <2>6. o3 \in Work(g) /\ Beside(o2, o3)
    <3>1. o2 \in Work(g) /\ m.f.clust \in Int
      BY <1>2, <2>5 DEF Live
    <3> QED BY <3>1, ValOk
  <2> HIDE DEF o3
  <2>7. o3.f.flag = m.f.flag /\ o3.f.fptr = base /\ o3.want = m.want - base /\ o3.type = o2.type
    BY <2>3, <2>4, <2>5, <2>6 DEF Beside, Keeps
  <2> QED BY <2>2, <2>5, <2>6, <2>7 DEF Sought0, Live, Offset
<1> HIDE DEF o3, base, cut
<1>4. m0 \in Live(g) /\ OnlyF(m, m0) /\ m0.f.fptr = 0 /\ m0.f.flag = m.f.flag
  BY ZeroOffset, FptrOk
<1> HIDE DEF m0
<1>5. a \in Live(g) /\ Keeps(m0, a) /\ a.val \in Nat
  <2>1. w \in Live(g) /\ Keeps(m0, w) /\ w.val \in Nat
    BY <1>4, CreateChain
  <2>2. v \in Work(g) /\ Beside(m0, v) /\ v.val = m.f.sclust
    <3>1. m0 \in Work(g) /\ m.f.sclust \in Int
      BY <1>2, <1>4 DEF Live
    <3> QED BY <3>1, ValOk
  <2> HIDE DEF w, v
  <2> QED BY <1>2, <1>4, <2>1, <2>2 DEF Live, Beside, Keeps
<1> HIDE DEF a
<1>6. d \in Live(g) /\ (a.val \in {1, DERR} => d.res # "OK")
  <2>1. d \in Live(g) /\ d.res = LinkError(a)
    BY <1>5, AbortOk, LinkErrors
  <2> HIDE DEF d
  <2> QED BY <2>1 DEF LinkError
<1> HIDE DEF d
<1>7. k \in Live(g) /\ Beside(a, k)
  BY <1>5, LiveOk
<1> HIDE DEF k
<1>8. k1 \in Live(g) /\ OnlyF(k, k1) /\ k1.f.fptr = k.f.fptr /\ k1.f.flag = k.f.flag
  BY <1>5, <1>7, StoreOk
<1> HIDE DEF k1
<1>9. k2 \in Live(g) /\ OnlyF(k1, k2) /\ k2.f.fptr = k1.f.fptr /\ k2.f.flag = k1.f.flag
  BY <1>5, <1>8, ClustOk
<1> HIDE DEF k2
<1>10. Sought0(k2)
  <2>1. k2.f.fptr = 0 /\ k2.f.flag = m.f.flag /\ k2.want = m.want
    BY <1>4, <1>5, <1>7, <1>8, <1>9 DEF OnlyF, Keeps, Beside
  <2> QED BY <1>2, <2>1, ZeroOffset DEF Sought0, Offset
<1> QED BY <1>1, <1>3, <1>6, <1>9, <1>10

InSeek(g) == {y \in Live(g) : /\ ~y.stop => Sought0(y)
                              /\ y.stop /\ y.res = "OK" => Sought0(y) /\ y.want <= ClusterBytes}
LEMMA SeekTurnOk ==
  ASSUME NEW g \in Cards, ~g.still, NEW m \in InSeek(g), ~m.stop
  PROVE  SeekTurn(m) \in InSeek(g)
<1> DEFINE u == create_chain(m, m.f.clust)
           v == get_fat(m, m.f.clust)
           a == IF "W" \in m.f.flag THEN u ELSE v
           s == Stop(m, "OK")
           b == SetBuf(a, a.buf, ClusterBytes)
           c == Stop(b, "OK")
           d == Moved(a, ClusterBytes)
           d1 == [d EXCEPT !.f.clust = a.val]
           d2 == SetBuf(d1, d1.buf, d1.want - ClusterBytes)
           r == IF a.val = DERR THEN "DISK_ERR" ELSE "INT_ERR"
           x == Abort(a, r)
<1>0. m \in Live(g) /\ Sought0(m) /\ m.want \in Nat /\ "OK" \in Results
  BY DEF InSeek, Sought0, Results
<1>1. a \in Live(g) /\ Keeps(m, a) /\ a.val \in Nat /\ ~a.stop /\ a.stop \in BOOLEAN
  <2>1. m.f.clust \in Int /\ m \in Work(g) /\ m.type # "none" /\ m.stop \in BOOLEAN
    BY <1>0, OffsetIs DEF Live, Work, State
  <2>2. u \in Live(g) /\ Keeps(m, u) /\ u.val \in Nat /\ (u.stop => m.stop)
    BY <1>0, <2>1, CreateChain
  <2>3. v \in Work(g) /\ Beside(m, v) /\ v.val \in Nat
    BY <2>1, GetFat
  <2> HIDE DEF u, v
  <2>4. v \in Live(g) /\ Keeps(m, v) /\ v.stop = m.stop
    BY <2>1, <2>3 DEF Live, Beside, Keeps
  <2>5. u.stop \in BOOLEAN /\ v.stop \in BOOLEAN
    BY <2>2, <2>4 DEF Live, Work, State
  <2> QED BY <2>1, <2>2, <2>3, <2>4, <2>5
<1>2. SeekTurn(m) = IF m.want <= ClusterBytes THEN s
         ELSE IF "W" \in m.f.flag /\ a.val = 0 THEN c
         ELSE IF InRange(a.val) THEN d2 ELSE x
  <2> HIDE DEF a
  <2>1. a \in State
    BY <1>1 DEF Live, Work
  <2>2. [a EXCEPT !.want = ClusterBytes] = b
    BY <2>1 DEF SetBuf, State
  <2>3. [Moved(a, ClusterBytes) EXCEPT !.f.clust = a.val, !.want = @ - ClusterBytes] = d2
    BY <2>1 DEF SetBuf, State, Moved
  <2> HIDE DEF b, d2
  <2>4. SeekTurn(m) = IF m.want <= ClusterBytes THEN s
         ELSE IF "W" \in m.f.flag /\ a.val = 0 THEN Stop([a EXCEPT !.want = ClusterBytes], "OK")
         ELSE IF InRange(a.val) THEN [Moved(a, ClusterBytes) EXCEPT !.f.clust = a.val, !.want = @ - ClusterBytes]
         ELSE x
    BY DEF SeekTurn, After, a
  <2> QED BY <2>2, <2>3, <2>4
<1> HIDE DEF a
<1>3. m.want <= ClusterBytes => s \in InSeek(g)
  <2>1. s \in Live(g) /\ Keeps(m, s) /\ s.stop /\ s.res = "OK"
    BY <1>0, LiveStop
  <2> HIDE DEF s
  <2> QED BY <1>0, <2>1 DEF InSeek, Sought0, Keeps
<1>4. Sought0(a) /\ a.want = m.want /\ a.f.fptr \in Nat /\ a.buf \in Bufs
  BY <1>0, <1>1, OffsetIs DEF Sought0, Keeps
<1>5. c \in InSeek(g)
  <2>1. b \in Live(g) /\ b.f = a.f /\ b.want = ClusterBytes
    <3>1. ClusterBytes \in Int
      BY ClusterBytesOk
    <3> QED BY <1>1, <1>4, <3>1, LiveBuf
  <2> HIDE DEF b
  <2>2. c \in Live(g) /\ Keeps(b, c) /\ c.stop /\ c.res = "OK"
    BY <1>0, <2>1, LiveStop
  <2> HIDE DEF c
  <2>3. ClusterBytes \in Nat
    BY ClusterBytesOk
  <2> QED BY <1>4, <2>1, <2>2, <2>3 DEF InSeek, Sought0, Keeps
<1>6. ~(m.want <= ClusterBytes) => d2 \in InSeek(g)
  <2> DEFINE p == a.f.fptr
  <2>1. p % SecSize = 0 /\ p \in Nat
    BY <1>4 DEF Sought0, Offset
  <2>2. (p + ClusterBytes) % SecSize = 0 /\ p + ClusterBytes \in Nat /\ ClusterBytes \in Nat /\ ClusterBytes \in Int
    <3>1. ClusterBytes \in Nat /\ (p + ClusterBytes) % SecSize = p % SecSize
      BY <2>1, ClusterBytesOk
    <3> HIDE DEF p
    <3> QED BY <2>1, <3>1
  <2>3. d \in Live(g) /\ OnlyF(a, d) /\ d.f.fptr = p + ClusterBytes /\ d.f.flag = a.f.flag
    BY <1>1, <1>4, <2>1, <2>2, MovedOk DEF Offset
  <2> HIDE DEF d
  <2>4. d1 \in Live(g) /\ OnlyF(d, d1) /\ d1.f.fptr = d.f.fptr /\ d1.f.flag = d.f.flag
    BY <1>1, <2>3, ClustOk
  <2> HIDE DEF d1
  <2>5. d1.want = m.want /\ d1.buf \in Bufs /\ d1.want - ClusterBytes \in Int /\ ~d1.stop
    BY <1>0, <1>1, <1>4, <2>2, <2>3, <2>4 DEF OnlyF
  <2>6. d2 \in Live(g) /\ d2.f = d1.f /\ d2.want = d1.want - ClusterBytes /\ d2.stop = d1.stop
    BY <2>4, <2>5, LiveBuf
  <2> HIDE DEF d2
  <2>7. ~(m.want <= ClusterBytes) => d2.want \in Nat
    BY <1>0, <2>2, <2>5, <2>6
  <2>8. Offset(d2.f) = 0 /\ "ERROR" \notin d2.f.flag
    BY <1>4, <2>2, <2>3, <2>4, <2>6 DEF Offset, Sought0
  <2> QED BY <2>5, <2>6, <2>7, <2>8 DEF InSeek, Sought0
<1>7. x \in InSeek(g)
  <2>1. r \in Results /\ r # "OK"
    BY DEF Results
  <2> HIDE DEF r
  <2>2. x \in Live(g) /\ x.stop /\ x.res = r
    BY <1>1, <2>1, AbortOk
  <2> HIDE DEF x
  <2> QED BY <2>1, <2>2 DEF InSeek
<1> HIDE DEF s, c, d2, x
<1> QED BY <1>2, <1>3, <1>5, <1>6, <1>7

LEMMA SeeksOn ==
  ASSUME NEW g \in Cards, ~g.still, NEW m \in Live(g), Sought0(m), NEW k \in Nat
  PROVE  LET a == Loop(m, SeekTurn, k) IN
         a \in Live(g) /\ (a.res = "OK" => Sought0(a) /\ a.want <= ClusterBytes)
<1> DEFINE M == InSeek(g)
           x0 == SetStop(m, FALSE)
<1>20. k \in Nat
  OBVIOUS
<1>10. x0 \in M
  <2>1. x0 \in Work(g) /\ Keeps(m, x0) /\ ~x0.stop
    BY StopOk DEF Live
  <2> HIDE DEF x0
  <2> QED BY <2>1 DEF InSeek, Live, Keeps, Sought0
<1>11. \A y \in M : (IF y.stop THEN y ELSE SeekTurn(y)) \in M
  BY SeekTurnOk
<1> HIDE DEF x0
<1> DEFINE step == [y \in M |-> IF y.stop THEN y ELSE SeekTurn(y)]
           t == CHOOSE f : f = [i \in 0..k |-> IF i = 0 THEN x0 ELSE IF f[i-1].stop THEN f[i-1] ELSE SeekTurn(f[i-1])]
<1> HIDE DEF M
<1>21. step \in [M -> M]
  BY <1>11
<1>22. PICK f : IsRun(f, M, x0, k, step)
  <2> HIDE DEF step
  <2> QED BY <1>10, <1>20, <1>21, Repeated
<1>23. f = [i \in 0..k |-> IF i = 0 THEN x0 ELSE IF f[i-1].stop THEN f[i-1] ELSE SeekTurn(f[i-1])]
  <2>1. ASSUME NEW i \in 0..k, i # 0
        PROVE  step[f[i-1]] = IF f[i-1].stop THEN f[i-1] ELSE SeekTurn(f[i-1])
    <3>1. i - 1 \in 0..k
      BY <1>20, <2>1
    <3>2. f[i-1] \in M
      BY <1>22, <3>1 DEF IsRun
    <3> QED BY <3>2
  <2> HIDE DEF step
  <2> QED BY <1>22, <2>1 DEF IsRun
<1>24. t = [i \in 0..k |-> IF i = 0 THEN x0 ELSE IF t[i-1].stop THEN t[i-1] ELSE SeekTurn(t[i-1])]
  BY <1>23
<1> HIDE DEF t, step
<1> DEFINE G == [i \in 0..k |-> M]
<1>12. x0 \in G[0]
  BY <1>10, <1>20
<1>13. \A i \in 1..k : \A y \in G[i-1] : (IF y.stop THEN y ELSE SeekTurn(y)) \in G[i]
  BY <1>11, <1>20
<1> HIDE DEF G
<1>25. t[k] \in G[k]
  <2>1. t[0] \in G[0]
    BY <1>12, <1>20, <1>24
  <2>2. ASSUME NEW i \in 1..k, t[i-1] \in G[i-1] PROVE t[i] \in G[i]
    <3>1. t[i] = IF t[i-1].stop THEN t[i-1] ELSE SeekTurn(t[i-1])
      BY <1>20, <1>24
    <3> DEFINE y == t[i-1]
    <3>2. y \in G[i-1] /\ t[i] = IF y.stop THEN y ELSE SeekTurn(y)
      BY <2>2, <3>1
    <3> HIDE DEF y
    <3> QED BY <1>13, <3>2
  <2> QED BY <1>20, <2>1, <2>2, Always
<1>26. t[k] \in M
  BY <1>20, <1>25 DEF G
<1> DEFINE e == t[k]
           f1 == Ended(e)
<1>3. e \in M
  BY <1>26
<1> HIDE DEF e
<1>4. f1 \in Live(g) /\ (f1.res = "OK" => Sought0(f1) /\ f1.want <= ClusterBytes)
  <2>1. e \in Work(g) /\ e.type # "none"
    BY <1>3 DEF M, InSeek, Live
  <2>2. f1 \in Work(g) /\ Keeps(e, f1) /\ f1.res = (IF e.stop THEN e.res ELSE "HANG")
    BY <2>1, EndedOk
  <2> HIDE DEF f1
  <2> QED BY <1>3, <2>1, <2>2 DEF Live, Keeps, M, InSeek, Sought0
<1>5. Loop(m, SeekTurn, k) = f1
  BY DEF Loop, Turn, t, f1, e, x0, SetStop
<1> HIDE DEF f1
<1> QED BY <1>4, <1>5

LEMMA SeekEndOk ==
  ASSUME NEW g \in Cards, NEW m \in Live(g), Sought0(m), m.want <= ClusterBytes
  PROVE  SeekEnd(m) \in Live(g)
<1> DEFINE s0 == clust2sect(m, m.f.clust)
           w == m.want
           s == IF w % SecSize = 0 THEN 0 ELSE s0 + w \div SecSize
           p == m.f.fptr
           h == [m.f EXCEPT !.fptr = p + w, !.flag = @ \cup {"ERROR"}]
           z == Stop(m, "INT_ERR")
           x == SetF(z, h)
           k == [m.f EXCEPT !.fptr = p + w, !.dsect = IF (p + w) % SecSize # 0 THEN s ELSE m.f.dsect]
           y == SetF(m, k)
<1>0. m \in State /\ m.f \in FileObjects /\ FileOk(m.f, g) /\ w \in Nat /\ p \in Nat /\ m.type # "none"
      /\ p % SecSize = 0 /\ m.f.clust \in Int /\ m.f.dsect \in Int /\ SecSize \in Nat \ {0} /\ m.f.flag \in SUBSET Flags
  BY OffsetIs DEF Live, Work, State, Sought0, Offset
<1>1. SeekEnd(m) = IF w % SecSize # 0 /\ s0 = 0 THEN x ELSE y
  <2>1. Abort(Moved(m, w), "INT_ERR") = x
    BY <1>0 DEF Abort, Moved, Stop, SetF, State, FileObjects
  <2>2. [Moved(m, w) EXCEPT !.f.dsect = IF Offset(Moved(m, w).f) # 0 THEN s ELSE @] = y
    <3> HIDE DEF s
    <3> QED BY <1>0 DEF Moved, SetF, State, FileObjects, Offset
  <2> HIDE DEF x, y
  <2> QED BY <2>1, <2>2 DEF SeekEnd
<1>2. x \in Live(g)
  <2>1. "INT_ERR" \in Results /\ "ERROR" \in Flags
    BY DEF Results, Flags
  <2>2. z \in Live(g) /\ Keeps(m, z)
    BY <2>1, LiveStop
  <2> HIDE DEF z
  <2>3. p + w \in Nat
    BY <1>0
  <2> DEFINE q == p + w
  <2> HIDE DEF q
  <2>4. [m.f EXCEPT !.fptr = q, !.flag = @ \cup {"ERROR"}] \in FileObjects
    BY <1>0, <2>1, <2>3 DEF FileObjects, q
  <2>5. /\ h \in FileObjects /\ "ERROR" \in h.flag /\ h.open = m.f.open
        /\ h.dir_sect = m.f.dir_sect /\ h.dir_ptr = m.f.dir_ptr
    BY <1>0, <2>4 DEF FileObjects, q
  <2> HIDE DEF h
  <2>6. FileOk(h, g)
    BY <1>0, <2>5 DEF FileOk
  <2> QED BY <2>2, <2>5, <2>6, LiveF
<1>3. ~(w % SecSize # 0 /\ s0 = 0) => y \in Live(g)
  <2>1. SUFFICES ASSUME ~(w % SecSize # 0 /\ s0 = 0) PROVE y \in Live(g)
    OBVIOUS
  <2>2. (p + w) % SecSize = w % SecSize /\ p + w \in Nat
    <3> DEFINE n == SecSize
               i == p \div n
               r == p % n
    <3>1. n \in Nat \ {0} /\ p \in Nat /\ w \in Nat
      BY <1>0
    <3> HIDE DEF p, w, n
    <3>2. i \in Nat /\ p = n * i + r /\ r = 0
      BY <3>1, <1>0, Divided DEF n
    <3> HIDE DEF i, r
    <3>3. i \in Int /\ i * n = n * i
      BY <3>1, <3>2
    <3>4. (w + i * n) % n = w % n /\ i * n \in Nat
      BY <3>1, <3>2, Remainder
    <3> DEFINE t == i * n
    <3>5. t \in Nat /\ p = t
      BY <3>2, <3>3, <3>4
    <3> HIDE DEF t
    <3>6. p + w = w + t /\ p + w \in Nat
      BY <3>1, <3>5
    <3> QED BY <3>4, <3>6 DEF n, t
  <2>3. w % SecSize # 0 => s \in Int /\ InData(g, s)
    <3>1. SUFFICES ASSUME w % SecSize # 0 PROVE s0 + w \div SecSize \in Int /\ InData(g, s0 + w \div SecSize)
      OBVIOUS
    <3>2. InRange(m.f.clust) /\ s0 = clust2sect(g, m.f.clust)
      BY <2>1, <3>1, SectorAt
    <3>3. w \div SecSize \in 0..CSize-1
      <4> DEFINE n == SecSize
                 q == w \div n
                 r == w % n
                 c == CSize
      <4>1. n \in Nat \ {0} /\ w \in Nat /\ c \in Nat \ {0} /\ w <= c * n
        BY <1>0, GeometryAssumption DEF ClusterBytes
      <4> HIDE DEF w, n, c
      <4>2. q \in Nat /\ r \in 0..n-1 /\ w = n * q + r /\ r # 0
        BY <3>1, <4>1, Divided DEF n
      <4> HIDE DEF q, r
      <4>3. q \in Int /\ c \in Int /\ r \in Nat /\ r > 0
        BY <4>1, <4>2
      <4>4. c <= q => n * c <= n * q
        BY <4>1, <4>3, Times
      <4>5. c * n = n * c /\ n * c \in Int /\ n * q \in Int
        BY <4>1, <4>3, Times
      <4>6. ~(n * c <= n * q)
        <5> DEFINE u == n * c
                   v == n * q
        <5>1. u \in Int /\ v \in Int /\ w <= u /\ w = v + r
          BY <4>1, <4>2, <4>5
        <5> HIDE DEF u, v
        <5>2. ~(u <= v)
          BY <4>3, <5>1
        <5> QED BY <5>2 DEF u, v
      <4>7. q \in 0..c-1
        BY <4>1, <4>2, <4>4, <4>6
      <4> QED BY <4>7 DEF q, n, c
    <3> HIDE DEF w
    <3> QED BY <1>0, <3>2, <3>3, ClusterSectors
  <2> HIDE DEF s
  <2> DEFINE q == p + w
             ds == IF q % SecSize # 0 THEN s ELSE m.f.dsect
  <2>4. q \in Nat /\ ds \in Int /\ (q % SecSize # 0 => InData(g, ds))
    BY <1>0, <2>2, <2>3
  <2> HIDE DEF q, ds
  <2>5. [m.f EXCEPT !.fptr = q, !.dsect = ds] \in FileObjects
    BY <1>0, <2>4 DEF FileObjects
  <2>6. k = [m.f EXCEPT !.fptr = q, !.dsect = ds]
    BY DEF q, ds
  <2>7. /\ k \in FileObjects /\ k.fptr = q /\ k.dsect = ds /\ k.open = m.f.open
        /\ k.dir_sect = m.f.dir_sect /\ k.dir_ptr = m.f.dir_ptr
    BY <1>0, <2>4, <2>5, <2>6 DEF FileObjects
  <2> HIDE DEF k
  <2>8. FileOk(k, g)
    BY <1>0, <2>4, <2>7 DEF FileOk, Offset
  <2> QED BY <2>7, <2>8, LiveF
<1> HIDE DEF x, y
<1> QED BY <1>1, <1>2, <1>3

LEMMA SeekToOk ==
  ASSUME NEW g \in Cards, ~g.still, NEW m \in Live(g), "ERROR" \notin m.f.flag, NEW to \in Nat
  PROVE  SeekTo(m, to) \in Live(g)
<1> DEFINE z == [m EXCEPT !.f.fptr = 0]
           m1 == SetBuf(m, m.buf, to)
           a == SeekStart(m1)
           l == Loop(a, SeekTurn, Turns)
           x == SeekEnd(l)
<1>1. SeekTo(m, to) = IF to = 0 THEN z ELSE IF a.res = "OK" THEN IF a.val = 0 THEN a ELSE IF l.res = "OK" THEN x ELSE l ELSE a
  <2>1. [m EXCEPT !.want = to] = m1
    BY DEF SetBuf, Live, Work, State
  <2> HIDE DEF m1
  <2> QED BY <2>1 DEF SeekTo, Then
<1>2. z \in Live(g)
  BY ZeroOffset, FptrOk
<1> HIDE DEF z
<1>3. m1 \in Live(g) /\ m1.want = to /\ m1.f = m.f
  <2>1. m.buf \in Bufs /\ to \in Int
    BY OffsetIs
  <2> QED BY <2>1, LiveBuf
<1> HIDE DEF m1
<1>4. to # 0 => a \in Live(g) /\ (a.res = "OK" => Sought0(a))
  BY <1>3, SeekStartOk
<1> HIDE DEF a
<1>5. to # 0 /\ a.res = "OK" => l \in Live(g) /\ (l.res = "OK" => Sought0(l) /\ l.want <= ClusterBytes)
  BY <1>4, SizeOfFat, SeeksOn
<1> HIDE DEF l
<1>6. to # 0 /\ a.res = "OK" /\ l.res = "OK" => x \in Live(g)
  BY <1>5, SeekEndOk
<1> HIDE DEF x
<1> QED BY <1>1, <1>2, <1>4, <1>5, <1>6

LEMMA FLseek ==
  ASSUME NEW g \in Cards, ~g.still, NEW m \in Work(g), NEW ofs \in Nat
  PROVE  f_lseek(m, ofs) \in Work(g)
<1> DEFINE a == Usable(m, {})
           to == IF ofs > a.f.fsize /\ "W" \notin a.f.flag THEN a.f.fsize ELSE ofs
           s == SeekTo(a, to)
           b == SetStop(s, FALSE)
           c == [Grown(b) EXCEPT !.f.flag = @ \cup {"WRITTEN"}]
<1>1. f_lseek(m, ofs) = IF a.res = "OK" THEN IF b.res = "OK" /\ ~(b.f.fptr <= b.f.fsize) THEN c ELSE b ELSE a
  <2> HIDE DEF a
  <2>1. [SeekTo(a, to) EXCEPT !.stop = FALSE] = b
    BY DEF SetStop
  <2> HIDE DEF b
  <2> QED BY <2>1 DEF f_lseek, Then, a
<1>2. a \in Work(g) /\ (a.res = "OK" => a \in Live(g) /\ "ERROR" \notin a.f.flag)
  BY UsableOk
<1> HIDE DEF a
<1>3. a.res = "OK" => b \in Live(g)
  <2>1. SUFFICES ASSUME a.res = "OK" PROVE b \in Live(g)
    OBVIOUS
  <2>2. to \in Nat
    BY <1>2, <2>1, OffsetIs
  <2> HIDE DEF to
  <2>3. s \in Live(g)
    BY <1>2, <2>1, <2>2, SeekToOk
  <2> HIDE DEF s
  <2>4. b \in Work(g) /\ Keeps(s, b)
    BY <2>3, StopOk DEF Live
  <2> HIDE DEF b
  <2> QED BY <2>3, <2>4 DEF Live, Keeps
<1> HIDE DEF b
<1>4. a.res = "OK" => c \in Live(g)
  BY <1>3, MarkedOk
<1> HIDE DEF c
<1> QED BY <1>1, <1>2, <1>3, <1>4 DEF Live

-----------------------------------------------------------------------------
(* f_chdir, f_opendir, f_readdir, f_stat.                                  *)

(* Directories and information.                                             *)
SetInfoRec(m, i) == [m EXCEPT !.info = i]
LEMMA InfoOk ==
  ASSUME NEW g \in Cards, NEW m \in Live(g), NEW i \in Infos
  PROVE  LET a == SetInfoRec(m, i) IN
         /\ a \in Live(g) /\ SameCard(m, a) /\ a.dj = m.dj /\ a.info = i /\ a.res = m.res /\ a.stop = m.stop
         /\ a.buf = m.buf /\ a.f = m.f /\ a.want = m.want /\ a.val = m.val
<1> DEFINE a == SetInfoRec(m, i)
<1>0. m \in State /\ m \in Work(g)
  BY DEF Live, Work
<1>1. a \in State
  BY <1>0 DEF State, SetInfoRec
<1>2. SameCard(m, a)
  BY <1>0 DEF State, SetInfoRec, SameCard
<1>3. /\ a.dj = m.dj /\ a.info = i /\ a.res = m.res /\ a.stop = m.stop /\ a.buf = m.buf /\ a.f = m.f
      /\ a.want = m.want /\ a.val = m.val
  BY <1>0 DEF State, SetInfoRec
<1> HIDE DEF a
<1>4. a \in Work(g)
  BY <1>0, <1>1, <1>2, <1>3, StaysWork
<1> QED BY <1>2, <1>3, <1>4 DEF a, Live, SameCard

SetCdir(m, c) == [m EXCEPT !.cdir = c]
LEMMA CdirOk ==
  ASSUME NEW g \in Cards, NEW m \in Live(g), NEW c \in Nat
  PROVE  LET a == SetCdir(m, c) IN a \in Live(g) /\ a.res = m.res
<1> DEFINE a == SetCdir(m, c)
<1>0. m \in State /\ m \in Work(g)
  BY DEF Live, Work
<1>1. a \in State
  BY <1>0 DEF State, SetCdir
<1>2. SameCard(m, a)
  BY <1>0 DEF State, SetCdir, SameCard
<1>3. a.dj = m.dj /\ a.f = m.f /\ a.res = m.res
  BY <1>0 DEF State, SetCdir
<1> HIDE DEF a
<1>4. a \in Work(g)
  BY <1>0, <1>1, <1>2, <1>3, StaysWork
<1> QED BY <1>2, <1>3, <1>4 DEF a, Live, SameCard

(* The end of a table has an empty name.                                    *)
Nameless(i) == [i EXCEPT !.name = ""]
LEMMA NamelessOk == ASSUME NEW i \in Infos PROVE Nameless(i) \in Infos
<1>1. "" \in Spellings
  BY Zenon DEF Spellings
<1> DEFINE s == ""
<1>2. s \in Spellings /\ Nameless(i) = [i EXCEPT !.name = s]
  BY <1>1 DEF Nameless
<1> HIDE DEF s
<1> QED BY <1>2 DEF Infos
InfoHere(m) == [name |-> EntryAt(m).name, attr |-> EntryAt(m).attr, size |-> EntryAt(m).size]
LEMMA InfoGot ==
  ASSUME NEW g \in Cards, NEW m \in Live(g), m.dj.sect = 0 \/ m.dj.dir # Self
  PROVE  LET a == get_fileinfo(m) IN
         a \in Live(g) /\ a.dj = m.dj /\ a.res = m.res /\ a.stop = m.stop /\ a.buf = m.buf
<1> DEFINE i == IF m.dj.sect = 0 THEN Nameless(m.info) ELSE InfoHere(m)
<1>1. get_fileinfo(m) = SetInfoRec(m, i)
  BY DEF get_fileinfo, SetInfoRec, Nameless, InfoHere
<1>2. m.info \in Infos /\ m \in Work(g)
  BY DEF Live, Work, State
<1>3. m.dj.sect # 0 => InfoHere(m) \in Infos
  BY <1>2, EntryOk DEF InfoHere, Entry, Infos
<1>4. i \in Infos
  BY <1>2, <1>3, NamelessOk
<1> HIDE DEF i
<1> QED BY <1>1, <1>4, InfoOk

LEMMA NoPathOk ==
  ASSUME NEW g \in Cards, NEW m \in Work(g)
  PROVE  LET a == NoPath(m) IN a \in Work(g) /\ (a.res = "OK" => a = m)
<1> DEFINE f == Fail(m, "NO_PATH")
<1>1. f \in Work(g) /\ f.res = "NO_PATH"
  BY FailOk DEF Results
<1> HIDE DEF f
<1> QED BY <1>1 DEF NoPath, f

LEMMA FChdir ==
  ASSUME NEW g \in Cards, NEW m \in Work(g), NEW path \in Paths
  PROVE  f_chdir(m, path) \in Work(g)
<1> DEFINE a == Resolve(m, path)
           p == SetCdir(a, a.dj.sclust)
           q == SetCdir(a, EntryAt(a).clust)
           f == Fail(a, "NO_PATH")
           b == IF a.res = "OK" THEN IF a.dj.dir = Self THEN p ELSE IF IsDir(a) THEN q ELSE f ELSE a
<1>1. f_chdir(m, path) = NoPath(b)
  BY DEF f_chdir, Then, SetCdir
<1>2. a \in Work(g) /\ (a.res = "OK" => a \in Live(g) /\ AtGoal(a, g))
  BY ResolveOk
<1> HIDE DEF a
<1>3. a.res = "OK" => p \in Live(g)
  <2>1. a \in Work(g) => a.dj.sclust \in Nat
    BY DEF Work, State, DirObjects
  <2> QED BY <1>2, <2>1, CdirOk
<1>4. a.res = "OK" /\ a.dj.dir # Self => q \in Live(g)
  BY <1>2, EntryHere, CdirOk DEF AtGoal
<1>5. f \in Work(g)
  BY <1>2, FailOk DEF Results
<1> HIDE DEF p, q, f
<1>6. b \in Work(g)
  BY <1>2, <1>3, <1>4, <1>5 DEF Live
<1> HIDE DEF b
<1> QED BY <1>1, <1>6, NoPathOk

SetDjId(m, i) == [m EXCEPT !.dj.id = i]
LEMMA DjIdOk ==
  ASSUME NEW g \in Cards, NEW m \in Live(g), NEW i \in Int
  PROVE  LET a == SetDjId(m, i) IN a \in Live(g) /\ a.res = m.res /\ a.dj.dir = m.dj.dir
<1> DEFINE j == [m.dj EXCEPT !.id = i]
           a == SetDj(m, j)
<1>0. m \in State /\ m.dj \in DirObjects
  BY DEF Live, Work, State
<1>1. SetDjId(m, i) = a
  BY <1>0 DEF SetDjId, SetDj, State
<1>2. /\ j \in DirObjects /\ j.sect = m.dj.sect /\ j.clust = m.dj.clust /\ j.index = m.dj.index
      /\ j.dir = m.dj.dir
  BY <1>0 DEF DirObjects
<1> HIDE DEF j
<1>3. a \in Live(g) /\ a.dj = j /\ OnlyDj(m, a)
  BY <1>2, LiveDj
<1> HIDE DEF a
<1> QED BY <1>1, <1>2, <1>3 DEF OnlyDj

SetOpen(m, b) == [m EXCEPT !.dj.open = b]
LEMMA OpenOk ==
  ASSUME NEW g \in Cards, NEW m \in Work(g), NEW b \in BOOLEAN
  PROVE  LET a == SetOpen(m, b) IN a \in Work(g) /\ a.res = m.res /\ a.dj.dir = m.dj.dir /\ a.type = m.type
<1> DEFINE j == [m.dj EXCEPT !.open = b]
           a == SetDj(m, j)
<1>0. m \in State /\ m.dj \in DirObjects /\ DirOk(m.dj, g)
  BY DEF Work, State
<1>1. SetOpen(m, b) = a
  BY <1>0 DEF SetOpen, SetDj, State
<1>2. /\ j \in DirObjects /\ j.sect = m.dj.sect /\ j.clust = m.dj.clust /\ j.index = m.dj.index
      /\ j.dir = m.dj.dir
  BY <1>0 DEF DirObjects
<1> HIDE DEF j
<1>3. DirOk(j, g)
  BY <1>0, <1>2, DirAtIs
<1>4. a \in Work(g) /\ a.dj = j /\ SameCard(m, a) /\ a.res = m.res
  BY <1>2, <1>3, DjOk
<1> HIDE DEF a
<1> QED BY <1>1, <1>2, <1>4 DEF SameCard

LEMMA FOpendir ==
  ASSUME NEW g \in Cards, NEW m \in Work(g), NEW path \in Paths
  PROVE  LET z == f_opendir(m, path) IN
         z \in Work(g) /\ (z.res = "OK" => z \in Live(g) /\ z.dj.dir # Self)
<1> DEFINE a == Resolve(m, path)
           q == [a EXCEPT !.dj.sclust = EntryAt(a).clust]
           f == Fail(a, "NO_PATH")
           b == IF a.res = "OK" THEN IF a.dj.dir = Self THEN a ELSE IF IsDir(a) THEN q ELSE f ELSE a
           d == SetDjId(b, b.id)
           s == dir_sdi(d, 0)
           c == IF b.res = "OK" THEN s ELSE b
           n == NoPath(c)
           z == SetOpen(n, n.res = "OK")
<1>1. f_opendir(m, path) = z
  BY DEF f_opendir, After, Then, SetDjId, SetOpen
<1>2. a \in Work(g) /\ (a.res = "OK" => a \in Live(g) /\ AtGoal(a, g))
  BY ResolveOk
<1> HIDE DEF a
<1>4. a.res = "OK" /\ a.dj.dir # Self => q \in Live(g)
  BY <1>2, EntryHere, SclustOk DEF AtGoal
<1>5. f \in Work(g) /\ f.res = "NO_PATH"
  BY <1>2, FailOk DEF Results
<1> HIDE DEF q, f
<1>6. b \in Work(g) /\ (b.res = "OK" => b \in Live(g))
  BY <1>2, <1>4, <1>5 DEF Live
<1> HIDE DEF b
<1>7. b.res = "OK" => d \in Live(g)
  <2>1. b.id \in Int
    BY <1>6 DEF Work, State
  <2> QED BY <1>6, <2>1, DjIdOk
<1> HIDE DEF d
<1>8. b.res = "OK" => s \in Live(g) /\ (s.res = "OK" => s.dj.dir # Self)
  BY <1>7, DirSdi
<1> HIDE DEF s
<1>9. c \in Work(g) /\ (c.res = "OK" => c \in Live(g) /\ c.dj.dir # Self)
  BY <1>6, <1>8 DEF Live
<1> HIDE DEF c
<1>10. n \in Work(g) /\ (n.res = "OK" => n \in Live(g) /\ n.dj.dir # Self)
  BY <1>9, NoPathOk
<1> HIDE DEF n
<1>11. z \in Work(g) /\ z.res = n.res /\ z.dj.dir = n.dj.dir /\ z.type = n.type
  BY <1>10, OpenOk
<1> HIDE DEF z
<1> QED BY <1>1, <1>10, <1>11 DEF Live

LEMMA EndOfTableOk ==
  ASSUME NEW g \in Cards, NEW m \in Live(g)
  PROVE  LET a == EndOfTable(m) IN
         /\ a \in Live(g) /\ Aside(m, a) /\ (m.res = "NO_FILE" => a.dj.sect = 0)
         /\ m.res # "NO_FILE" => a = m
<1> DEFINE b == Ok(m)
           c == [b EXCEPT !.dj.sect = 0]
<1>1. EndOfTable(m) = IF m.res = "NO_FILE" THEN c ELSE m
  BY DEF EndOfTable
<1>2. b \in Live(g) /\ Aside(m, b)
  BY LiveOk
<1> HIDE DEF b
<1>3. c \in Live(g) /\ Aside(b, c)
  BY <1>2, SectCleared
<1>4. c.dj.sect = 0
  BY <1>2 DEF Live, Work, State, DirObjects
<1> HIDE DEF c
<1> QED BY <1>1, <1>2, <1>3, <1>4 DEF Aside

LEMMA FReaddir ==
  ASSUME NEW g \in Cards, NEW m \in Live(g), m.dj.dir # Self
  PROVE  LET z == f_readdir(m) IN z \in Live(g) /\ z.dj.dir # Self
<1> DEFINE a == validate(m, m.dj)
           r == dir_read(a, FALSE)
           b == EndOfTable(r)
           i == get_fileinfo(b)
           n == dir_next(i, FALSE)
           e == EndOfTable(n)
<1>1. f_readdir(m) = IF a.res = "OK" THEN IF b.res = "OK" THEN e ELSE b ELSE a
  BY DEF f_readdir, Then
<1>2. a \in Live(g) /\ a.dj.dir # Self
  <2>1. a \in Work(g) /\ Beside(m, a)
    BY ValidateOk DEF Live
  <2> HIDE DEF a
  <2> QED BY <2>1 DEF Live, Beside, Keeps
<1> HIDE DEF a
<1>3. r \in Live(g) /\ Aside(a, r) /\ (r.res = "OK" => OnEntry(r, g))
  BY <1>2, DirRead
<1> HIDE DEF r
<1>4. b \in Live(g) /\ Aside(r, b) /\ (r.res = "NO_FILE" => b.dj.sect = 0) /\ (r.res # "NO_FILE" => b = r)
  BY <1>3, EndOfTableOk
<1>5. b.dj.dir # Self
  BY <1>2, <1>3, <1>4 DEF Aside
<1> HIDE DEF b
<1>6. i \in Live(g) /\ i.dj = b.dj
  BY <1>4, <1>5, InfoGot
<1> HIDE DEF i
<1>7. n \in Live(g) /\ Aside(i, n)
  BY <1>6, DirNext
<1> HIDE DEF n
<1>8. e \in Live(g) /\ Aside(n, e)
  BY <1>7, EndOfTableOk
<1> HIDE DEF e
<1> QED BY <1>1, <1>2, <1>4, <1>5, <1>6, <1>7, <1>8 DEF Aside

LEMMA FRewinddir ==
  ASSUME NEW g \in Cards, NEW m \in Live(g), m.dj.dir # Self
  PROVE  LET z == f_rewinddir(m) IN z \in Live(g) /\ z.dj.dir # Self
<1> DEFINE a == validate(m, m.dj)
           s == dir_sdi(a, 0)
<1>1. f_rewinddir(m) = IF a.res = "OK" THEN s ELSE a
  BY DEF f_rewinddir, Then
<1>2. a \in Live(g) /\ a.dj.dir # Self
  <2>1. a \in Work(g) /\ Beside(m, a)
    BY ValidateOk DEF Live
  <2> HIDE DEF a
  <2> QED BY <2>1 DEF Live, Beside, Keeps
<1> HIDE DEF a
<1>3. s \in Live(g) /\ Aside(a, s)
  BY <1>2, DirSdi
<1> HIDE DEF s
<1> QED BY <1>1, <1>2, <1>3 DEF Aside

LEMMA FStat ==
  ASSUME NEW g \in Cards, NEW m \in Work(g), NEW path \in Paths
  PROVE  f_stat(m, path) \in Work(g)
<1> DEFINE a == Resolve(m, path)
           b == NotStart(a)
           c == get_fileinfo(b)
<1>1. f_stat(m, path) = IF b.res = "OK" THEN c ELSE b
  BY DEF f_stat, Then
<1>2. /\ a \in Work(g) /\ (a.res \in {"OK", "NO_FILE"} => a \in Live(g))
      /\ (a.res = "OK" => AtGoal(a, g))
  BY ResolveOk
<1> HIDE DEF a
<1>3. b \in Work(g) /\ (b.res \in {"OK", "NO_FILE"} => b \in Live(g)) /\ (b.res = "OK" => OnEntry(b, g))
  BY <1>2, NotStartOk
<1> HIDE DEF b
<1>4. b.res = "OK" => c \in Live(g)
  BY <1>3, InfoGot DEF OnEntry
<1> HIDE DEF c
<1> QED BY <1>1, <1>3, <1>4 DEF Live

-----------------------------------------------------------------------------
(* f_getfree.                                                              *)
SetCounts(m, c, v) == [m EXCEPT !.cnt = c, !.val = v]
LEMMA CountsOk ==
  ASSUME NEW g \in Cards, NEW m \in Live(g), NEW c \in Int, NEW v \in Int
  PROVE  LET a == SetCounts(m, c, v) IN a \in Live(g) /\ a.cnt = c /\ a.val = v /\ a.stop = m.stop
<1> DEFINE a == SetCounts(m, c, v)
<1>0. m \in State /\ m \in Work(g)
  BY DEF Live, Work
<1>1. a \in State
  BY <1>0 DEF State, SetCounts
<1>2. SameCard(m, a)
  BY <1>0 DEF State, SetCounts, SameCard
<1>3. a.dj = m.dj /\ a.f = m.f /\ a.stop = m.stop /\ a.cnt = c /\ a.val = v
  BY <1>0 DEF State, SetCounts
<1> HIDE DEF a
<1>4. a \in Work(g)
  BY <1>0, <1>1, <1>2, <1>3, StaysWork
<1> QED BY <1>2, <1>3, <1>4 DEF a, Live, SameCard

SetFree(m) == [m EXCEPT !.free = m.val, !.fsi = @ \/ m.type = "FAT32"]
LEMMA FreeOk ==
  ASSUME NEW g \in Cards, NEW m \in Live(g)
  PROVE  SetFree(m) \in Live(g)
<1> DEFINE b == m.fsi \/ m.type = "FAT32"
           a == [m EXCEPT !.free = m.val, !.fsi = b]
<1>0. m \in State /\ m \in Work(g) /\ m.val \in Int
  BY DEF Live, Work, State
<1>1. SetFree(m) = a
  BY DEF SetFree
<1>2. b \in BOOLEAN
  BY <1>0 DEF State
<1> HIDE DEF b
<1>3. a \in State
  BY <1>0, <1>2 DEF State
<1>4. SameCard(m, a)
  BY <1>0 DEF State, SameCard
<1>5. a.dj = m.dj /\ a.f = m.f
  BY <1>0 DEF State
<1> HIDE DEF a
<1>6. a \in Work(g)
  BY <1>0, <1>3, <1>4, <1>5, StaysWork
<1> QED BY <1>1, <1>4, <1>6 DEF Live, SameCard

LEMMA Free0 == \A e, left : Cardinality(FreeIn(e, left)) \in Nat
<1> TAKE e, left
<1>1. FatPer \in Nat \ {0}
  BY GeometryAssumption
<1>2. 0 \in Int /\ FatPer - 1 \in Int
  BY <1>1
<1>3. IsFiniteSet(0..FatPer-1)
  BY <1>2, FS_Interval
<1>4. FreeIn(e, left) \subseteq 0..FatPer-1
  BY DEF FreeIn
<1> QED BY <1>3, <1>4, FS_Subset, FS_CardinalityType

LEMMA InFatSector ==
  ASSUME NEW g \in Cards, NEW c \in Nat, c * FatPer < NFatEnt
  PROVE  LET s == FatBase(g) + c IN s \in Sectors /\ ~Copy(g, s)
<1> DEFINE n == FatPer
           t == NFatEnt + n - 1
           q == t \div n
           r == t % n
<1>1. n \in Nat \ {0} /\ NFatEnt \in Nat /\ NFatEnt > 2 /\ c * n < NFatEnt
  BY GeometryAssumption
<1>2. FatSize = q
  BY DEF FatSize
<1> HIDE DEF n
<1>3. t \in Nat
  BY <1>1
<1>4. q \in Nat /\ r \in 0..n-1 /\ t = n * q + r
  BY <1>1, <1>3, Divided
<1> HIDE DEF q, r
<1> DEFINE d == c + 1
<1>5. d \in Int /\ d * n = c * n + n /\ q \in Int /\ c \in Int
  BY <1>1, <1>4
<1>6. n * d = d * n /\ n * d \in Int /\ n * q \in Int /\ (n * d < n * q + n => d <= q) /\ c * n \in Int
  <2> HIDE DEF d
  <2> QED BY <1>1, <1>5, Times
<1> DEFINE u == n * d
           v == n * q
           w == c * n
<1>7. u = w + n /\ u \in Int /\ v \in Int /\ t = v + r /\ w < NFatEnt /\ w \in Int
  BY <1>1, <1>4, <1>5, <1>6
<1> HIDE DEF u, v, w
<1>8. u < v + n
  BY <1>1, <1>4, <1>7
<1>9. c < FatSize
  <2>1. d <= q
    BY <1>6, <1>8 DEF u, v
  <2> QED BY <1>2, <1>4, <2>1
<1>10. FatBase(g) \in Nat /\ FatBase(g) + FatSize <= RootBase(g) /\ RootBase(g) \in Nat
       /\ RootBase(g) + NRoot \div DirPer <= LastSector + 1 /\ NRoot \div DirPer \in Nat /\ LastSector \in Nat /\ FatSize \in Nat
  BY Regions, SizeOfFat
<1> HIDE DEF t
<1> QED BY <1>9, <1>10 DEF Sectors, Copy

Counting(g) == {y \in Live(g) : y.cnt \in Nat}
LEMMA CountTurn ==
  ASSUME NEW g \in Cards, NEW m \in Counting(g)
  PROVE  CountSector(m) \in Counting(g)
<1> DEFINE left == NFatEnt - m.cnt * FatPer
           s == Stop(m, "OK")
           a == move_window(m, FatBase(m) + m.cnt)
           k == Cardinality(FreeIn(a.win.e, left))
           b == SetCounts(a, a.cnt + 1, a.val + k)
           z == Stop(a, a.res)
<1>0. m \in Live(g) /\ m.cnt \in Nat /\ m.val \in Int /\ "OK" \in Results /\ FatBase(m) = FatBase(g)
  <2>1. m.type = g.type /\ m.bsect = g.bsect /\ m.n_fats = g.n_fats
    BY DEF Counting, Live, Work, Card, Mount
  <2> QED BY <2>1, SameRegions DEF Counting, Live, Work, State, Results
<1>1. CountSector(m) = IF left <= 0 THEN s ELSE IF a.res = "OK" THEN b ELSE z
  BY DEF CountSector, Carry, SetCounts
<1>2. s \in Counting(g)
  <2>1. s \in Live(g) /\ s.cnt = m.cnt
    BY <1>0, LiveStop, Stopped DEF Live, Work, State, Stop
  <2> QED BY <1>0, <2>1 DEF Counting
<1> HIDE DEF s
<1>3. ~(left <= 0) => a \in Live(g) /\ a.cnt = m.cnt /\ a.res \in Results
  <2>1. SUFFICES ASSUME ~(left <= 0) PROVE a \in Live(g) /\ a.cnt = m.cnt /\ a.res \in Results
    OBVIOUS
  <2>2. m.cnt * FatPer < NFatEnt
    <3> DEFINE c == m.cnt
    <3>1. c \in Nat /\ FatPer \in Nat /\ NFatEnt \in Nat
      BY <1>0, GeometryAssumption
    <3> HIDE DEF c
    <3>2. c * FatPer \in Int /\ ~(NFatEnt - c * FatPer <= 0)
      BY <2>1, <3>1 DEF c
    <3> DEFINE w == c * FatPer
    <3> HIDE DEF w
    <3>3. w < NFatEnt
      BY <3>1, <3>2 DEF w
    <3> QED BY <3>3 DEF w, c
  <2>3. FatBase(m) + m.cnt \in Sectors /\ ~Copy(g, FatBase(m) + m.cnt)
    BY <1>0, <2>2, InFatSector
  <2>4. a \in Live(g) /\ Beside(m, a) /\ a.res \in Results
    BY <1>0, <2>3, LiveWindow
  <2> HIDE DEF a
  <2> QED BY <2>4 DEF Beside
<1> HIDE DEF a
<1>4. k \in Nat
  BY Free0
<1> HIDE DEF k
<1>5. ~(left <= 0) => b \in Counting(g)
  <2>1. SUFFICES ASSUME ~(left <= 0) PROVE b \in Counting(g)
    OBVIOUS
  <2>2. a.val \in Int /\ a.cnt \in Nat
    BY <1>0, <1>3, <2>1 DEF Live, Work, State
  <2>3. a.val + k \in Int /\ a.cnt + 1 \in Int /\ a.cnt + 1 \in Nat
    BY <1>4, <2>2
  <2>4. b \in Live(g) /\ b.cnt = a.cnt + 1
    BY <1>3, <2>1, <2>3, CountsOk
  <2> HIDE DEF b
  <2> QED BY <2>3, <2>4 DEF Counting
<1>6. ~(left <= 0) => z \in Counting(g)
  <2>1. SUFFICES ASSUME ~(left <= 0) PROVE z \in Counting(g)
    OBVIOUS
  <2>2. z \in Live(g) /\ z.cnt = a.cnt
    BY <1>3, <2>1, LiveStop, Stopped DEF Live, Work, State, Stop
  <2> QED BY <1>0, <1>3, <2>1, <2>2 DEF Counting
<1> HIDE DEF b, z, left
<1> QED BY <1>1, <1>2, <1>5, <1>6

LEMMA CountsOn ==
  ASSUME NEW g \in Cards, NEW m \in Counting(g), NEW k \in Nat
  PROVE  Loop(m, CountSector, k) \in Live(g)
<1> DEFINE M == Counting(g)
           x0 == SetStop(m, FALSE)
<1>20. k \in Nat
  OBVIOUS
<1>10. x0 \in M
  <2>1. x0 \in Work(g) /\ Keeps(m, x0) /\ x0.cnt = m.cnt
    BY StopOk DEF Counting, Live
  <2> HIDE DEF x0
  <2> QED BY <2>1 DEF Counting, Live, Keeps
<1>11. \A y \in M : (IF y.stop THEN y ELSE CountSector(y)) \in M
  BY CountTurn
<1> HIDE DEF x0
<1> DEFINE step == [y \in M |-> IF y.stop THEN y ELSE CountSector(y)]
           t == CHOOSE f : f = [i \in 0..k |-> IF i = 0 THEN x0 ELSE IF f[i-1].stop THEN f[i-1] ELSE CountSector(f[i-1])]
<1> HIDE DEF M
<1>21. step \in [M -> M]
  BY <1>11
<1>22. PICK f : IsRun(f, M, x0, k, step)
  <2> HIDE DEF step
  <2> QED BY <1>10, <1>20, <1>21, Repeated
<1>23. f = [i \in 0..k |-> IF i = 0 THEN x0 ELSE IF f[i-1].stop THEN f[i-1] ELSE CountSector(f[i-1])]
  <2>1. ASSUME NEW i \in 0..k, i # 0
        PROVE  step[f[i-1]] = IF f[i-1].stop THEN f[i-1] ELSE CountSector(f[i-1])
    <3>1. i - 1 \in 0..k
      BY <1>20, <2>1
    <3>2. f[i-1] \in M
      BY <1>22, <3>1 DEF IsRun
    <3> QED BY <3>2
  <2> HIDE DEF step
  <2> QED BY <1>22, <2>1 DEF IsRun
<1>24. t = [i \in 0..k |-> IF i = 0 THEN x0 ELSE IF t[i-1].stop THEN t[i-1] ELSE CountSector(t[i-1])]
  BY <1>23
<1> HIDE DEF t, step
<1> DEFINE G == [i \in 0..k |-> M]
<1>12. x0 \in G[0]
  BY <1>10, <1>20
<1>13. \A i \in 1..k : \A y \in G[i-1] : (IF y.stop THEN y ELSE CountSector(y)) \in G[i]
  BY <1>11, <1>20
<1> HIDE DEF G
<1>25. t[k] \in G[k]
  <2>1. t[0] \in G[0]
    BY <1>12, <1>20, <1>24
  <2>2. ASSUME NEW i \in 1..k, t[i-1] \in G[i-1] PROVE t[i] \in G[i]
    <3>1. t[i] = IF t[i-1].stop THEN t[i-1] ELSE CountSector(t[i-1])
      BY <1>20, <1>24
    <3> DEFINE y == t[i-1]
    <3>2. y \in G[i-1] /\ t[i] = IF y.stop THEN y ELSE CountSector(y)
      BY <2>2, <3>1
    <3> HIDE DEF y
    <3> QED BY <1>13, <3>2
  <2> QED BY <1>20, <2>1, <2>2, Always
<1>26. t[k] \in M
  BY <1>20, <1>25 DEF G
<1> DEFINE e == t[k]
           f1 == Ended(e)
<1>3. e \in M
  BY <1>26
<1> HIDE DEF e
<1>4. f1 \in Live(g)
  <2>1. e \in Work(g) /\ e.type # "none"
    BY <1>3 DEF M, Counting, Live
  <2>2. f1 \in Work(g) /\ Keeps(e, f1)
    BY <2>1, EndedOk
  <2> HIDE DEF f1
  <2> QED BY <2>1, <2>2 DEF Live, Keeps
<1>5. Loop(m, CountSector, k) = f1
  BY DEF Loop, Turn, t, f1, e, x0, SetStop
<1> HIDE DEF f1
<1> QED BY <1>4, <1>5

LEMMA FGetfree ==
  ASSUME NEW g \in Cards, NEW m \in Work(g)
  PROVE  f_getfree(m) \in Work(g)
<1> DEFINE a == chk_mounted(m)
           v == SetVal(a, a.free)
           s == SetCounts(a, 0, 0)
           b == Loop(s, CountSector, FatSize + 1)
           c == SetFree(b)
<1>1. f_getfree(m) = IF a.res = "OK" THEN IF a.free <= NFatEnt - 2 THEN v ELSE c ELSE a
  BY DEF f_getfree, Then, After, SetVal, SetCounts, SetFree
<1>2. Mounts(a, g)
  BY ChkMounted
<1> HIDE DEF a
<1>3. v \in Work(g)
  <2>1. a \in Work(g) /\ a.free \in Int
    BY <1>2 DEF Mounts, Work, State
  <2> QED BY <2>1, ValOk
<1> HIDE DEF v
<1>4. a.res = "OK" => s \in Counting(g)
  BY <1>2, CountsOk DEF Mounts, Counting
<1> HIDE DEF s
<1>5. a.res = "OK" => b \in Live(g)
  <2>1. FatSize + 1 \in Nat
    BY SizeOfFat
  <2> QED BY <1>4, <2>1, CountsOn
<1> HIDE DEF b
<1>6. a.res = "OK" => c \in Work(g)
  BY <1>5, FreeOk DEF Live
<1> HIDE DEF c
<1> QED BY <1>1, <1>2, <1>3, <1>6 DEF Mounts

-----------------------------------------------------------------------------
(* f_unlink, f_chmod, f_utime.                                             *)
LEMMA BackOk ==
  ASSUME NEW g \in Cards, NEW m \in Live(g), NEW b \in Live(g)
  PROVE  LET a == [b EXCEPT !.dj = m.dj] IN a \in Live(g) /\ a.dj = m.dj /\ a.res = b.res
<1> DEFINE a == SetDj(b, m.dj)
<1>1. m.dj \in DirObjects /\ DirOk(m.dj, g) /\ b \in Work(g) /\ b.type # "none"
  BY DEF Live, Work, State
<1>2. a \in Work(g) /\ a.dj = m.dj /\ SameCard(b, a) /\ a.res = b.res
  BY <1>1, DjOk
<1>3. [b EXCEPT !.dj = m.dj] = a
  BY DEF SetDj
<1> HIDE DEF a
<1> QED BY <1>1, <1>2, <1>3 DEF Live, SameCard

LEMMA EmptinessOk ==
  ASSUME NEW g \in Cards, NEW m \in Live(g), OnEntry(m, g)
  PROVE  Emptiness(m) \in Live(g)
<1> DEFINE c == EntryAt(m).clust
           p == [m EXCEPT !.dj.sclust = c]
           s == dir_sdi(p, 2)
           r == dir_read(s, FALSE)
           b == IF s.res = "OK" THEN r ELSE s
           f == Fail(b, "DENIED")
           o == Ok(b)
<1>1. Emptiness(m) = IF b.res = "OK" \/ (b.res # "INT_ERR" /\ c = m.cdir) THEN f
                     ELSE IF b.res = "NO_FILE" THEN o ELSE b
  BY DEF Emptiness, After, Then
<1>2. c \in Nat
  BY EntryHere
<1> HIDE DEF c
<1>3. p \in Live(g)
  BY <1>2, SclustOk
<1> HIDE DEF p
<1>4. s \in Live(g) /\ (s.res = "OK" => s.dj.dir # Self)
  BY <1>3, DirSdi
<1> HIDE DEF s
<1>5. s.res = "OK" => r \in Live(g)
  BY <1>4, DirRead
<1> HIDE DEF r
<1>6. b \in Live(g) /\ "DENIED" \in Results
  BY <1>4, <1>5 DEF Results
<1> HIDE DEF b
<1>7. f \in Live(g) /\ o \in Live(g)
  BY <1>6, LiveFail, LiveOk
<1> HIDE DEF f, o
<1> QED BY <1>1, <1>6, <1>7

LEMMA MayUnlinkOk ==
  ASSUME NEW g \in Cards, NEW m \in Live(g), OnEntry(m, g)
  PROVE  MayUnlink(m) \in Live(g)
<1> DEFINE f == Fail(m, "DENIED")
           h == Fail(m, "INT_ERR")
           b == Emptiness(m)
           z == [b EXCEPT !.dj = m.dj]
<1>1. MayUnlink(m) \in {f, m, h, z}
  BY DEF MayUnlink
<1>2. "DENIED" \in Results /\ "INT_ERR" \in Results
  BY DEF Results
<1>3. f \in Live(g) /\ h \in Live(g)
  BY <1>2, LiveFail
<1>4. b \in Live(g)
  BY EmptinessOk
<1> HIDE DEF b
<1>5. z \in Live(g)
  BY <1>4, BackOk
<1> HIDE DEF f, h, z
<1> QED BY <1>1, <1>3, <1>5

LEMMA FUnlink ==
  ASSUME NEW g \in Cards, ~g.still, NEW m \in Work(g), NEW path \in Paths
  PROVE  f_unlink(m, path) \in Work(g)
<1> DEFINE a == ResolveEntry(m, path)
           cl == EntryAt(a).clust
           b == MayUnlink(a)
           c == dir_remove(b)
           r == remove_chain(c, cl)
           d == IF cl = 0 THEN c ELSE r
           s == sync_fs(d)
<1>1. f_unlink(m, path) = IF a.res = "OK" THEN IF b.res = "OK" THEN IF c.res = "OK" THEN IF d.res = "OK" THEN s
                          ELSE d ELSE c ELSE b ELSE a
  BY DEF f_unlink, Then
<1>2. a \in Work(g) /\ (a.res = "OK" => a \in Live(g) /\ OnEntry(a, g))
  BY ResolveEntryOk
<1> HIDE DEF a
<1>3. a.res = "OK" => b \in Live(g) /\ cl \in Nat
  BY <1>2, MayUnlinkOk, EntryHere
<1> HIDE DEF b, cl
<1>4. a.res = "OK" => c \in Live(g)
  BY <1>3, DirRemove
<1> HIDE DEF c
<1>5. a.res = "OK" => r \in Live(g)
  <2>1. a.res = "OK" => cl \in Int
    BY <1>3
  <2> QED BY <1>4, <2>1, RemoveChain
<1> HIDE DEF r
<1>6. a.res = "OK" => d \in Live(g)
  BY <1>4, <1>5
<1> HIDE DEF d
<1>7. a.res = "OK" => s \in Live(g)
  BY <1>6, SyncFs
<1> HIDE DEF s
<1> QED BY <1>1, <1>2, <1>3, <1>4, <1>6, <1>7 DEF Live

(* An entry is rewritten and the card brought up to date.                   *)
LEMMA Rewritten ==
  ASSUME NEW g \in Cards, ~g.still, NEW m \in Live(g), OnEntry(m, g), NEW e \in Entry
  PROVE  sync_fs(PutEntry(m, e)) \in Live(g)
<1> DEFINE a == PutEntry(m, e)
           b == sync_fs(a)
<1>1. a \in Live(g)
  BY PutEntryOk
<1> HIDE DEF a
<1>2. b \in Live(g)
  BY <1>1, SyncFs
<1> QED BY <1>2 DEF a

LEMMA Retouched ==
  ASSUME NEW e \in Entry, NEW at \in SUBSET Attrs, NEW c \in Nat, NEW s \in Nat
  PROVE  /\ [e EXCEPT !.attr = at] \in Entry
         /\ [e EXCEPT !.clust = c] \in Entry
         /\ [e EXCEPT !.attr = at, !.clust = c] \in Entry
         /\ [e EXCEPT !.attr = at, !.clust = c, !.size = s] \in Entry
BY DEF Entry

LEMMA FChmod ==
  ASSUME NEW g \in Cards, ~g.still, NEW m \in Work(g), NEW path \in Paths, NEW value, NEW mask
  PROVE  f_chmod(m, path, value, mask) \in Work(g)
<1> DEFINE a == ResolveEntry(m, path)
           at == (value \cap mask \cap {"RDO", "ARC"}) \cup (EntryAt(a).attr \ (mask \cap {"RDO", "ARC"}))
           e == [EntryAt(a) EXCEPT !.attr = at]
           s == sync_fs(PutEntry(a, e))
<1>1. f_chmod(m, path, value, mask) = IF a.res = "OK" THEN s ELSE a
  BY DEF f_chmod, Then
<1>2. a \in Work(g) /\ (a.res = "OK" => a \in Live(g) /\ OnEntry(a, g))
  BY ResolveEntryOk
<1> HIDE DEF a
<1>3. a.res = "OK" => e \in Entry
  <2>1. a.res = "OK" => EntryAt(a) \in Entry /\ EntryAt(a).attr \in SUBSET Attrs
    BY <1>2, EntryHere
  <2>2. a.res = "OK" => at \in SUBSET Attrs
    BY <2>1 DEF Attrs
  <2> HIDE DEF at
  <2> QED BY <2>1, <2>2 DEF Entry
<1> HIDE DEF e
<1>4. a.res = "OK" => s \in Live(g)
  BY <1>2, <1>3, Rewritten
<1> HIDE DEF s
<1> QED BY <1>1, <1>2, <1>4 DEF Live

LEMMA FUtime ==
  ASSUME NEW g \in Cards, ~g.still, NEW m \in Work(g), NEW path \in Paths
  PROVE  f_utime(m, path) \in Work(g)
<1> DEFINE a == ResolveEntry(m, path)
           s == sync_fs(PutEntry(a, EntryAt(a)))
<1>1. f_utime(m, path) = IF a.res = "OK" THEN s ELSE a
  BY DEF f_utime, Then
<1>2. a \in Work(g) /\ (a.res = "OK" => a \in Live(g) /\ OnEntry(a, g))
  BY ResolveEntryOk
<1> HIDE DEF a
<1>4. a.res = "OK" => s \in Live(g)
  BY <1>2, EntryHere, Rewritten
<1> HIDE DEF s
<1> QED BY <1>1, <1>2, <1>4 DEF Live

-----------------------------------------------------------------------------
(* f_mkdir: the table of a new directory.                                  *)
SetWork(m, u, k) == [m EXCEPT !.cur = u, !.cnt = k]
LEMMA LooseWork ==
  ASSUME NEW g \in Cards, NEW m \in Loose(g), NEW u \in Int, NEW k \in Int
  PROVE  LET a == SetWork(m, u, k) IN
         a \in Loose(g) /\ Keeps(m, a) /\ a.res = m.res /\ a.val = m.val /\ a.disk = m.disk
         /\ a.win = m.win /\ a.winsect = m.winsect /\ a.cnt = k /\ a.cur = u /\ a.stop = m.stop
<1> DEFINE a == SetWork(m, u, k)
<1>1. a \in State
  BY DEF Loose, State, SetWork
<1>2. Keeps(m, a) /\ a.res = m.res /\ a.val = m.val /\ a.cnt = k /\ a.cur = u /\ a.stop = m.stop
  BY DEF Loose, State, SetWork, Keeps
<1>3. SameCard(m, a)
  BY DEF Loose, State, SetWork, SameCard
<1> HIDE DEF a
<1>4. a \in Loose(g)
  BY <1>1, <1>2, <1>3 DEF Loose, Keeps, SameCard, Mount, Quiet
<1> QED BY <1>2, <1>3, <1>4 DEF a, SameCard

LEMMA DotSectorOk ==
  ASSUME NEW c \in Nat, NEW p \in Nat
  PROVE  DotSector(c, p) \in Content /\ DotSector(c, p).kind = "dir"
<1> DEFINE one == "."
           two == ".."
           e1 == [Blank EXCEPT !.name = one, !.attr = {"DIR"}, !.clust = c]
           e2 == [Blank EXCEPT !.name = two, !.attr = {"DIR"}, !.clust = p]
           e == [i \in 0..DirPer-1 |-> IF i = 0 THEN e1 ELSE IF i = 1 THEN e2 ELSE Blank]
<1>1. one \in Spellings /\ two \in Spellings
  BY Zenon DEF Spellings
<1>2. DotSector(c, p) = DirSector(e)
  BY DEF DotSector
<1> HIDE DEF one, two
<1>3. Blank \in Entry /\ {"DIR"} \in SUBSET Attrs
  BY BlankOk DEF Attrs
<1>4. e1 \in Entry /\ e2 \in Entry
  BY <1>1, <1>3 DEF Entry
<1> HIDE DEF e1, e2
<1>5. e \in [0..DirPer-1 -> Entry]
  BY <1>3, <1>4
<1> HIDE DEF e
<1> QED BY <1>2, <1>5 DEF DirSector, Content, DirContent

Making(y, base) ==
  /\ y.cnt \in 0..CSize /\ y.cur = base + (CSize - y.cnt) /\ y.win.kind = "dir"
  /\ y.cnt < CSize => y.winsect = y.cur - 1 /\ y.win = ZeroDir
  /\ y.cnt < CSize - 1 => y.disk[y.winsect] = ZeroDir
LEMMA TableTurn ==
  ASSUME CSize > 1, NEW g \in Cards, ~g.still, NEW y \in Loose(g), ~y.stop, NEW base \in Int,
         \A k \in 0..CSize-1 : InData(g, base + k), Making(y, base)
  PROVE  LET a == WriteTable(y) IN
         /\ Keeps(y, a)
         /\ a.stop => a \in Live(g)
         /\ ~a.stop => a \in Loose(g) /\ Making(a, base) /\ a.cnt = y.cnt - 1
<1>0. CSize \in Nat \ {0} /\ y.cnt \in Int /\ y.cur \in Int
  BY GeometryAssumption DEF Loose, State
<1>1. CASE y.cnt = 0
  <2> DEFINE a == Stop(y, "OK")
  <2>1. WriteTable(y) = a
    BY <1>1 DEF WriteTable
  <2>2. y.winsect = base + (CSize - 1) /\ y.win = ZeroDir /\ y.disk[y.winsect] = ZeroDir
    BY <1>0, <1>1 DEF Making
  <2>3. CSize - 1 \in 0..CSize-1
    BY <1>0
  <2>4. InData(g, y.winsect) /\ y.winsect \in Int
    BY <2>2, <2>3
  <2>5. y \in Live(g)
    BY <2>2, <2>4, InDataIs, Fastened
  <2>6. a \in Live(g) /\ Keeps(y, a) /\ a.stop
    BY <2>5, LiveStop DEF Results
  <2> HIDE DEF a
  <2> QED BY <2>1, <2>6
<1>2. CASE y.cnt # 0
  <2> DEFINE p == SetWin(y, y.win, y.cur)
             f == SetFlag(p, TRUE)
             w == sync_window(f)
             b == SetWin(w, ZeroDir, w.winsect)
             d == SetWork(b, b.cur + 1, b.cnt - 1)
             e == Stop(w, w.res)
  <2>1. WriteTable(y) = IF w.res = "OK" THEN [w EXCEPT !.win = ZeroDir, !.cur = @ + 1, !.cnt = @ - 1] ELSE e
    <3>1. f = [y EXCEPT !.winsect = y.cur, !.wflag = TRUE]
      BY DEF SetWin, SetFlag, Loose, State
    <3> HIDE DEF f
    <3> QED BY <1>2, <3>1 DEF WriteTable, Carry
  <2>2. CSize - y.cnt \in 0..CSize-1 /\ y.cur = base + (CSize - y.cnt) /\ y.win.kind = "dir"
    BY <1>0, <1>2 DEF Making
  <2>3. InData(g, y.cur) /\ y.cur \in Int
    <3> DEFINE k == CSize - y.cnt
    <3>1. k \in 0..CSize-1 /\ y.cur = base + k
      BY <2>2
    <3> HIDE DEF k
    <3> QED BY <1>0, <3>1
  <2>4. y.cur \in Sectors /\ RootBase(g) <= y.cur /\ FatBase(g) <= y.cur
    BY <2>3, InDataIs
  <2>5. p \in Loose(g) /\ Beside(y, p) /\ p.disk = y.disk /\ p.win = y.win /\ p.winsect = y.cur
    <3>1. y.win \in Content
      BY DEF Loose, State
    <3> QED BY <2>3, <3>1, WinOk
  <2> HIDE DEF p
  <2>6. f \in Live(g) /\ Beside(p, f) /\ f.disk = y.disk /\ f.win = y.win /\ f.winsect = y.cur /\ f.wflag
    <3>1. p.win.kind # "fat"
      BY <2>2, <2>5
    <3> QED BY <2>4, <2>5, <3>1, FlagOk
  <2> HIDE DEF f
  <2>7. /\ w \in Live(g) /\ Beside(f, w) /\ w.win = y.win /\ w.winsect = y.cur
        /\ w.res \in {"OK", "DISK_ERR"} /\ (w.res = "OK" => ~w.wflag)
    <3>1. f \in Work(g) /\ f.type # "none"
      BY <2>6 DEF Live
    <3>2. /\ w \in Work(g) /\ Beside(f, w) /\ w.win = f.win /\ w.winsect = f.winsect
          /\ w.res \in {"OK", "DISK_ERR"} /\ (w.res = "OK" => ~w.wflag)
      BY <3>1, SyncWindow
    <3> HIDE DEF w
    <3> QED BY <2>6, <3>1, <3>2 DEF Live, Beside, Keeps
  <2> HIDE DEF w
  <2>8. Keeps(y, w) /\ w.cnt = y.cnt /\ w.cur = y.cur /\ w.stop = y.stop
    BY <2>5, <2>6, <2>7 DEF Beside, Keeps
  <2>9. CASE w.res # "OK"
    <3>1. w.res \in Results
      BY <2>7 DEF Results
    <3>2. e \in Live(g) /\ Keeps(w, e) /\ e.stop
      BY <2>7, <3>1, LiveStop
    <3> HIDE DEF e
    <3> QED BY <2>1, <2>8, <2>9, <3>2 DEF Keeps
  <2>10. CASE w.res = "OK"
    <3>1. w \in Loose(g) /\ w.winsect \in Int
      BY <2>3, <2>7, <2>10, Loosened
    <3>2. w.disk[w.winsect] = y.win
      BY <2>4, <2>7, <2>10 DEF Live, Work, Card, WindowOk
    <3>3. b \in Loose(g) /\ Beside(w, b) /\ b.disk = w.disk /\ b.win = ZeroDir /\ b.winsect = w.winsect
      BY <3>1, ZeroIs, WinOk
    <3>4. d = [w EXCEPT !.win = ZeroDir, !.cur = @ + 1, !.cnt = @ - 1]
      BY <3>1 DEF b, SetWin, SetWork, Loose, State
    <3> HIDE DEF b
    <3>5. b.cnt - 1 \in Int /\ b.cur + 1 \in Int /\ b.cnt = y.cnt /\ b.cur = y.cur /\ b.stop = y.stop
      <4>1. b.cnt = y.cnt /\ b.cur = y.cur /\ b.stop = y.stop
        BY <2>8, <3>3 DEF Beside
      <4> QED BY <1>0, <4>1
    <3>6. /\ d \in Loose(g) /\ Keeps(b, d) /\ d.disk = b.disk /\ d.win = b.win /\ d.winsect = b.winsect
          /\ d.cnt = b.cnt - 1 /\ d.cur = b.cur + 1 /\ d.stop = b.stop
      BY <3>3, <3>5, LooseWork
    <3> HIDE DEF d
    <3>7. Keeps(y, d) /\ ~d.stop
      BY <2>8, <3>3, <3>5, <3>6 DEF Beside, Keeps
    <3>8. Making(d, base)
      <4>1. d.cnt = y.cnt - 1 /\ d.cur = y.cur + 1 /\ d.win = ZeroDir /\ d.winsect = y.cur /\ d.disk[y.cur] = y.win
        BY <2>7, <3>2, <3>3, <3>5, <3>6
      <4>2. d.cnt < CSize - 1 => y.win = ZeroDir
        BY <1>0, <4>1 DEF Making
      <4>3. d.cnt \in 0..CSize /\ d.cur = base + (CSize - d.cnt) /\ d.winsect = d.cur - 1
        BY <1>0, <1>2, <2>2, <4>1
      <4> QED BY <4>1, <4>2, <4>3, ZeroIs DEF Making
    <3> QED BY <2>1, <2>10, <3>4, <3>5, <3>6, <3>7, <3>8
  <2> QED BY <2>7, <2>9, <2>10
<1> QED BY <1>1, <1>2

LEMMA TableLoop ==
  ASSUME CSize > 1, NEW g \in Cards, ~g.still, NEW m \in Live(g), ~m.wflag, NEW base \in Int,
         \A k \in 0..CSize-1 : InData(g, base + k), NEW w \in Content, w.kind = "dir"
  PROVE  LET a == Loop([m EXCEPT !.cur = base, !.cnt = CSize, !.win = w], WriteTable, CSize + 1) IN
         a \in Live(g) /\ Keeps(m, a)
<1> DEFINE M == {y \in State : /\ Keeps(m, y)
                               /\ IF y.stop THEN y \in Live(g) ELSE y \in Loose(g) /\ Making(y, base)}
           n == CSize + 1
           G == [i \in 0..n |-> {y \in M : ~y.stop => y.cnt = CSize - i}]
           p == SetWin(m, w, m.winsect)
           x == SetWork(p, base, CSize)
           x0 == SetStop(x, FALSE)
<1>20. n \in Nat /\ CSize \in Nat \ {0}
  BY GeometryAssumption
<1>1. x0 \in M /\ x0.cnt = CSize
  <2>0. m.winsect \in Int /\ m \in Loose(g)
    BY Loosened DEF Live, Work, State
  <2>1. p \in Loose(g) /\ Beside(m, p) /\ p.win = w
    BY <2>0, WinOk
  <2> HIDE DEF p
  <2>2. x \in Loose(g) /\ Keeps(p, x) /\ x.win = p.win /\ x.cnt = CSize /\ x.cur = base
    <3>1. CSize \in Int
      BY <1>20
    <3> QED BY <2>1, <3>1, LooseWork
  <2> HIDE DEF x
  <2>3. x0 \in Loose(g) /\ Keeps(x, x0) /\ x0.win = x.win /\ x0.cnt = x.cnt /\ x0.cur = x.cur /\ ~x0.stop
    BY <2>2, LooseStop
  <2> HIDE DEF x0
  <2>4. x0 \in State
    BY <2>3 DEF Loose
  <2>5. Making(x0, base)
    BY <1>20, <2>1, <2>2, <2>3 DEF Making
  <2> QED BY <2>1, <2>2, <2>3, <2>4, <2>5 DEF Beside, Keeps
<1> HIDE DEF x0
<1>10. x0 \in M
  BY <1>1
<1>2. \A y \in M : ~y.stop => WriteTable(y) \in M /\ (~WriteTable(y).stop => WriteTable(y).cnt = y.cnt - 1)
  <2>1. TAKE y \in M
  <2>2. SUFFICES ASSUME ~y.stop
                 PROVE  WriteTable(y) \in M /\ (~WriteTable(y).stop => WriteTable(y).cnt = y.cnt - 1)
    OBVIOUS
  <2> DEFINE z == WriteTable(y)
  <2>3. y \in Loose(g) /\ Making(y, base) /\ Keeps(m, y)
    BY <2>2
  <2>4. /\ Keeps(y, z) /\ (z.stop => z \in Live(g))
        /\ ~z.stop => z \in Loose(g) /\ Making(z, base) /\ z.cnt = y.cnt - 1
    BY <2>2, <2>3, TableTurn
  <2> HIDE DEF z
  <2>5. z \in State
    BY <2>4 DEF Live, Work, Loose
  <2>6. Keeps(m, z)
    BY <2>3, <2>4 DEF Keeps
  <2> QED BY <2>4, <2>5, <2>6 DEF z
<1>11. \A y \in M : (IF y.stop THEN y ELSE WriteTable(y)) \in M
  BY <1>2
<1>12. x0 \in G[0]
  BY <1>1, <1>20
<1>13. \A i \in 1..n : \A y \in G[i-1] : (IF y.stop THEN y ELSE WriteTable(y)) \in G[i]
  <2>1. SUFFICES ASSUME NEW i \in 1..n, NEW y \in M, ~y.stop, y.cnt = CSize - (i - 1), ~WriteTable(y).stop
                 PROVE  WriteTable(y).cnt = CSize - i
    BY <1>11, <1>20
  <2>2. WriteTable(y).cnt = y.cnt - 1
    BY <1>2, <2>1
  <2> QED BY <1>20, <2>1, <2>2
<1>14. n = CSize + 1
  OBVIOUS
<1> HIDE DEF n
<1> HIDE DEF x0
<1> DEFINE step == [y \in M |-> IF y.stop THEN y ELSE WriteTable(y)]
           t == CHOOSE f : f = [i \in 0..n |-> IF i = 0 THEN x0 ELSE IF f[i-1].stop THEN f[i-1] ELSE WriteTable(f[i-1])]
<1> HIDE DEF M
<1>21. step \in [M -> M]
  BY <1>11
<1>22. PICK f : IsRun(f, M, x0, n, step)
  <2> HIDE DEF step
  <2> QED BY <1>10, <1>20, <1>21, Repeated
<1>23. f = [i \in 0..n |-> IF i = 0 THEN x0 ELSE IF f[i-1].stop THEN f[i-1] ELSE WriteTable(f[i-1])]
  <2>1. ASSUME NEW i \in 0..n, i # 0
        PROVE  step[f[i-1]] = IF f[i-1].stop THEN f[i-1] ELSE WriteTable(f[i-1])
    <3>1. i - 1 \in 0..n
      BY <1>20, <2>1
    <3>2. f[i-1] \in M
      BY <1>22, <3>1 DEF IsRun
    <3> QED BY <3>2
  <2> HIDE DEF step
  <2> QED BY <1>22, <2>1 DEF IsRun
<1>24. t = [i \in 0..n |-> IF i = 0 THEN x0 ELSE IF t[i-1].stop THEN t[i-1] ELSE WriteTable(t[i-1])]
  BY <1>23
<1> HIDE DEF t, step
<1> HIDE DEF G
<1>25. t[n] \in G[n]
  <2>1. t[0] \in G[0]
    BY <1>12, <1>20, <1>24
  <2>2. ASSUME NEW i \in 1..n, t[i-1] \in G[i-1] PROVE t[i] \in G[i]
    <3>1. t[i] = IF t[i-1].stop THEN t[i-1] ELSE WriteTable(t[i-1])
      BY <1>20, <1>24
    <3> DEFINE y == t[i-1]
    <3>2. y \in G[i-1] /\ t[i] = IF y.stop THEN y ELSE WriteTable(y)
      BY <2>2, <3>1
    <3> HIDE DEF y
    <3> QED BY <1>13, <3>2
  <2> QED BY <1>20, <2>1, <2>2, Always
<1> DEFINE e == t[n]
           f1 == Ended(e)
<1>3. e \in M /\ e.stop
  <2>1. e \in M /\ (~e.stop => e.cnt = CSize - n)
    BY <1>20, <1>25 DEF G
  <2>2. ~e.stop => e.cnt \in 0..CSize
    BY <2>1 DEF M, Making
  <2> HIDE DEF e
  <2> QED BY <1>14, <1>20, <2>1, <2>2
<1> HIDE DEF e
<1>4. f1 \in Live(g) /\ Keeps(m, f1)
  <2>1. e \in Work(g) /\ e.type # "none" /\ Keeps(m, e)
    BY <1>3 DEF M, Live
  <2>2. f1 \in Work(g) /\ Keeps(e, f1)
    BY <2>1, EndedOk
  <2> HIDE DEF f1
  <2> QED BY <2>1, <2>2 DEF Keeps, Live
<1>5. Loop([m EXCEPT !.cur = base, !.cnt = CSize, !.win = w], WriteTable, CSize + 1) = f1
  <2>1. [[m EXCEPT !.cur = base, !.cnt = CSize, !.win = w] EXCEPT !.stop = FALSE] = x0
    BY DEF x0, x, p, SetWin, SetWork, SetStop, Live, Work, State
  <2> HIDE DEF x0
  <2> QED BY <2>1 DEF Loop, Turn, t, f1, e, n
<1> HIDE DEF f1
<1> QED BY <1>4, <1>5

LEMMA MakeTableOk ==
  ASSUME CSize > 1, NEW g \in Cards, ~g.still, NEW m \in Live(g), NEW c \in Nat, InRange(c)
  PROVE  MakeTable(m, c) \in Live(g)
<1> DEFINE a == sync_window(m)
           base == clust2sect(a, c)
           up == IF a.type = "FAT32" /\ a.dj.sclust = DirBase(a) THEN 0 ELSE a.dj.sclust
           w == DotSector(c, up)
           l == Loop([a EXCEPT !.cur = base, !.cnt = CSize, !.win = w], WriteTable, CSize + 1)
<1>1. MakeTable(m, c) = IF a.res = "OK" THEN l ELSE a
  BY DEF MakeTable, Then
<1>2. a \in Live(g) /\ (a.res = "OK" => ~a.wflag)
  BY LiveSync
<1> HIDE DEF a
<1>3. base \in Int /\ \A k \in 0..CSize-1 : InData(g, base + k)
  <2>1. a.type = g.type /\ a.bsect = g.bsect /\ a.n_fats = g.n_fats
    BY <1>2 DEF Live, Work, Card, Mount
  <2>2. base = clust2sect(g, c)
    BY <2>1, SameRegions
  <2> QED BY <2>2, ClusterInt, ClusterSectors
<1> HIDE DEF base
<1>4. up \in Nat
  BY <1>2 DEF Live, Work, State, DirObjects
<1> HIDE DEF up
<1>5. w \in Content /\ w.kind = "dir"
  BY <1>4, DotSectorOk
<1> HIDE DEF w
<1>6. a.res = "OK" => l \in Live(g)
  BY <1>2, <1>3, <1>5, TableLoop
<1> HIDE DEF l
<1> QED BY <1>1, <1>2, <1>6

LEMMA MadeOk ==
  ASSUME CSize > 1, NEW g \in Cards, ~g.still, NEW m \in Live(g), NEW c \in Nat, Allotted(c), m.val = c
  PROVE  Made(m, c) \in Live(g)
<1> DEFINE d == Fail(m, "DENIED")
           h == Fail(m, LinkError(m))
           a == IF c = 0 THEN d ELSE h
           u == MakeTable(a, c)
           v == dir_register(u)
           b == IF a.res = "OK" THEN IF u.res = "OK" THEN v ELSE u ELSE a
           r == remove_chain(b, c)
           x == Fail(r, b.res)
           e == [EntryAt(b) EXCEPT !.attr = {"DIR"}, !.clust = c]
           y == sync_fs(PutEntry(b, e))
<1>1. Made(m, c) = IF b.res # "OK" THEN x ELSE y
  BY DEF Made, After, Then
<1>2. a \in Live(g) /\ (a.res = "OK" => InRange(c))
  <2>1. "DENIED" \in Results /\ LinkError(m) \in Results
    BY LinkErrors DEF Results
  <2>2. d \in Live(g) /\ d.res = "DENIED" /\ h \in Live(g) /\ h.res = LinkError(m)
    BY <2>1, LiveFail
  <2>3. c \in {1, DERR} => LinkError(m) # "OK"
    BY DEF LinkError
  <2> HIDE DEF d, h
  <2> QED BY <2>2, <2>3 DEF Allotted
<1> HIDE DEF a
<1>3. a.res = "OK" => u \in Live(g)
  BY <1>2, MakeTableOk
<1> HIDE DEF u
<1>4. a.res = "OK" => v \in Live(g) /\ (v.res = "OK" => OnEntry(v, g))
  BY <1>3, DirRegister
<1> HIDE DEF v
<1>5. b \in Live(g) /\ (b.res = "OK" => OnEntry(b, g)) /\ b.res \in Results
  <2>1. b \in Live(g) /\ (b.res = "OK" => OnEntry(b, g))
    BY <1>2, <1>3, <1>4
  <2> QED BY <2>1 DEF Live, Work, State
<1> HIDE DEF b
<1>6. x \in Live(g)
  <2>1. r \in Live(g)
    <3>1. c \in Int
      OBVIOUS
    <3> QED BY <1>5, <3>1, RemoveChain
  <2> HIDE DEF r
  <2> QED BY <1>5, <2>1, LiveFail
<1> HIDE DEF x
<1>7. b.res = "OK" => y \in Live(g)
  <2>1. b.res = "OK" => e \in Entry
    <3>1. {"DIR"} \in SUBSET Attrs
      BY DEF Attrs
    <3>2. b.res = "OK" => EntryAt(b) \in Entry
      BY <1>5, EntryHere
    <3> QED BY <3>1, <3>2, Retouched
  <2> HIDE DEF e
  <2> QED BY <1>5, <2>1, Rewritten
<1> HIDE DEF y
<1> QED BY <1>1, <1>6, <1>7

LEMMA FMkdir ==
  ASSUME CSize > 1, NEW g \in Cards, ~g.still, NEW m \in Work(g), NEW path \in Paths
  PROVE  f_mkdir(m, path) \in Work(g)
<1> DEFINE a == Resolve(m, path)
           f == Fail(a, "EXIST")
           h == Fail(a, "INVALID_NAME")
           b == create_chain(a, 0)
           z == Made(b, b.val)
<1>1. f_mkdir(m, path) = IF a.res = "OK" THEN f ELSE IF a.res # "NO_FILE" THEN a
                         ELSE IF a.dj.fn.dot THEN h ELSE z
  BY DEF f_mkdir, After
<1>2. /\ a \in Work(g) /\ (a.res \in {"OK", "NO_FILE"} => a \in Live(g))
  BY ResolveOk
<1> HIDE DEF a
<1>3. f \in Work(g) /\ h \in Work(g)
  <2>1. "EXIST" \in Results /\ "INVALID_NAME" \in Results
    BY DEF Results
  <2> QED BY <1>2, <2>1, FailOk
<1> HIDE DEF f, h
<1>4. a.res = "NO_FILE" => b \in Live(g) /\ Allotted(b.val) /\ b.val \in Nat
  <2>1. 0 \in Int
    OBVIOUS
  <2> QED BY <1>2, <2>1, CreateChain
<1> HIDE DEF b
<1>5. a.res = "NO_FILE" => z \in Live(g)
  BY <1>4, MadeOk
<1> HIDE DEF z
<1> QED BY <1>1, <1>2, <1>3, <1>5 DEF Live

-----------------------------------------------------------------------------
(* f_rename, labels.                                                       *)

(* f_rename.                                                                *)
LEMMA ReparentOk ==
  ASSUME DirPer > 1, NEW g \in Cards, ~g.still, NEW m \in Live(g), m.dj.dir # Self, NEW parent \in Nat
  PROVE  Reparent(m, parent) \in Live(g)
<1> DEFINE c0 == EntryAt(m).clust
           s == clust2sect(m, c0)
           up == IF m.type = "FAT32" /\ parent = DirBase(m) THEN 0 ELSE parent
           f == Fail(m, "INT_ERR")
           a == move_window(m, s)
           b == [a EXCEPT !.dj.dir = 1]
           e == [EntryAt(b) EXCEPT !.clust = up]
           p == PutEntry(b, e)
<1>1. Reparent(m, parent) \in {f, a, p} /\ (s = 0 => Reparent(m, parent) = f)
      /\ (a.res # "OK" => Reparent(m, parent) \in {f, a})
  BY DEF Reparent, Then, After
<1>2. f \in Live(g)
  BY LiveFail DEF Results
<1>3. up \in Nat
  OBVIOUS
<1> HIDE DEF f, up
<1>4. s # 0 => s \in Int /\ InData(g, s)
  <2>1. SUFFICES ASSUME s # 0 PROVE s \in Int /\ InData(g, s)
    OBVIOUS
  <2>2. c0 \in Nat
    <3>1. EntryAt(m) \in Entry
      BY EntryOk DEF Live
    <3> QED BY <3>1 DEF Entry
  <2> HIDE DEF c0
  <2>3. m.type = g.type /\ m.bsect = g.bsect /\ m.n_fats = g.n_fats
    BY DEF Live, Work, Card, Mount
  <2>4. s = clust2sect(g, c0)
    BY <2>3, SameRegions
  <2>5. InRange(c0)
    BY <2>1 DEF clust2sect
  <2>6. 0 \in 0..CSize-1 /\ c0 \in Int
    BY <2>2, GeometryAssumption
  <2>7. s \in Int
    BY <2>4, <2>6, ClusterInt
  <2> DEFINE t == clust2sect(g, c0) + 0
  <2>8. InData(g, t) /\ t = s
    <3>1. InData(g, t)
      BY <2>5, <2>6, ClusterSectors
    <3> HIDE DEF s
    <3> QED BY <2>4, <2>7, <3>1
  <2> HIDE DEF t
  <2> QED BY <2>7, <2>8
<1> HIDE DEF s
<1>5. s # 0 => a \in Live(g) /\ (a.res = "OK" => a.winsect = s)
  BY <1>4, InDataIs, LiveWindow
<1> HIDE DEF a
<1>6. s # 0 /\ a.res = "OK" => p \in Live(g)
  <2>1. SUFFICES ASSUME s # 0, a.res = "OK" PROVE p \in Live(g)
    OBVIOUS
  <2>2. 1 \in -1..DirPer-1 /\ Self # 1
    BY GeometryAssumption DEF Self
  <2>3. b \in Live(g) /\ OnlyDj(a, b) /\ b.dj.dir = 1
    BY <1>5, <2>1, <2>2, DirPtrOk
  <2> HIDE DEF b
  <2>4. OnEntry(b, g)
    BY <1>4, <1>5, <2>1, <2>2, <2>3, InDataIs DEF OnEntry, OnlyDj, SameCard
  <2>5. EntryAt(b) \in Entry
    BY <2>3, <2>4, EntryHere
  <2>6. e \in Entry
    BY <1>3, <2>5 DEF Entry
  <2> HIDE DEF e
  <2> QED BY <2>3, <2>4, <2>6, PutEntryOk
<1> HIDE DEF p
<1> QED BY <1>1, <1>2, <1>5, <1>6

LEMMA MoveEntryOk ==
  ASSUME DirPer > 1, NEW g \in Cards, ~g.still, NEW m \in Live(g), NEW dj \in DirObjects, DirOk(dj, g), NEW e \in Entry
  PROVE  MoveEntry(m, dj, e) \in Live(g)
<1> DEFINE r == dir_register(m)
           e2 == [EntryAt(r) EXCEPT !.attr = e.attr \cup {"ARC"}, !.clust = e.clust, !.size = e.size]
           p == PutEntry(r, e2)
           b == IF r.res = "OK" THEN p ELSE r
           up == m.dj.sclust
           q == Reparent(b, up)
           c == IF b.res = "OK" THEN IF dj.sclust # up /\ "DIR" \in e.attr THEN q ELSE b ELSE b
           d == SetDj(c, dj)
           x == dir_remove(d)
           s == sync_fs(x)
<1>1. MoveEntry(m, dj, e) = IF c.res = "OK" THEN IF x.res = "OK" THEN s ELSE x ELSE c
  BY DEF MoveEntry, Then, SetDj
<1>2. r \in Live(g) /\ Aside(m, r) /\ (r.res = "OK" => OnEntry(r, g))
  BY DirRegister
<1> HIDE DEF r
<1>3. r.res = "OK" => e2 \in Entry
  <2>1. e.attr \cup {"ARC"} \in SUBSET Attrs /\ e.clust \in Nat /\ e.size \in Nat
    BY DEF Entry, Attrs
  <2> DEFINE at == e.attr \cup {"ARC"}
             c1 == e.clust
             s1 == e.size
  <2>2. at \in SUBSET Attrs /\ c1 \in Nat /\ s1 \in Nat
    BY <2>1
  <2>3. e2 = [EntryAt(r) EXCEPT !.attr = at, !.clust = c1, !.size = s1]
    OBVIOUS
  <2> HIDE DEF at, c1, s1, e2
  <2>4. r.res = "OK" => EntryAt(r) \in Entry
    BY <1>2, EntryHere
  <2> QED BY <2>2, <2>3, <2>4, Retouched
<1> HIDE DEF e2
<1>4. r.res = "OK" => p \in Live(g) /\ Beside(r, p) /\ p.res = r.res /\ OnEntry(p, g)
  BY <1>2, <1>3, PutEntryOk
<1> HIDE DEF p
<1>5. b \in Live(g) /\ (b.res = "OK" => OnEntry(b, g))
  BY <1>2, <1>4
<1> HIDE DEF b
<1>6. up \in Nat
  BY DEF Live, Work, State, DirObjects
<1> HIDE DEF up
<1>7. b.res = "OK" => q \in Live(g)
  BY <1>5, <1>6, ReparentOk DEF OnEntry
<1> HIDE DEF q
<1>8. c \in Live(g)
  BY <1>5, <1>7
<1> HIDE DEF c
<1>9. d \in Live(g)
  <2>1. c \in Work(g)
    BY <1>8 DEF Live
  <2>2. d \in Work(g) /\ SameCard(c, d)
    BY <2>1, DjOk
  <2> HIDE DEF d
  <2> QED BY <1>8, <2>2 DEF Live, SameCard
<1> HIDE DEF d
<1>10. x \in Live(g)
  BY <1>9, DirRemove
<1> HIDE DEF x
<1>11. s \in Live(g)
  BY <1>10, SyncFs
<1> HIDE DEF s
<1> QED BY <1>1, <1>8, <1>10, <1>11

LEMMA FRename ==
  ASSUME DirPer > 1, NEW g \in Cards, ~g.still, NEW m \in Work(g), NEW old \in Paths, NEW new \in Paths
  PROVE  f_rename(m, old, new) \in Work(g)
<1> DEFINE a == Resolve(m, old)
           f == Fail(a, "INVALID_NAME")
           h == Fail(a, "NO_FILE")
           b == follow_path(a, new)
           k == Fail(b, "EXIST")
           z == MoveEntry(b, a.dj, EntryAt(a))
<1>1. f_rename(m, old, new) = IF a.res = "OK" THEN IF a.dj.fn.dot THEN f ELSE IF a.dj.dir = Self THEN h
         ELSE IF b.res = "OK" THEN k ELSE IF b.res # "NO_FILE" THEN b ELSE z ELSE a
  BY DEF f_rename, Then, After
<1>2. a \in Work(g) /\ (a.res = "OK" => a \in Live(g) /\ AtGoal(a, g))
  BY ResolveOk
<1> HIDE DEF a
<1>3. f \in Work(g) /\ h \in Work(g)
  <2>1. "INVALID_NAME" \in Results /\ "NO_FILE" \in Results
    BY DEF Results
  <2> QED BY <1>2, <2>1, FailOk
<1> HIDE DEF f, h
<1>4. a.res = "OK" => b \in Live(g)
  BY <1>2, FollowPath
<1> HIDE DEF b
<1>5. a.res = "OK" => k \in Live(g)
  <2>1. "EXIST" \in Results
    BY DEF Results
  <2> QED BY <1>4, <2>1, LiveFail
<1> HIDE DEF k
<1>6. a.res = "OK" /\ a.dj.dir # Self => z \in Live(g)
  <2>1. a.dj \in DirObjects /\ DirOk(a.dj, g)
    BY <1>2 DEF Work, State
  <2>2. a.res = "OK" /\ a.dj.dir # Self => EntryAt(a) \in Entry
    BY <1>2, EntryHere DEF AtGoal
  <2> QED BY <1>4, <2>1, <2>2, MoveEntryOk
<1> HIDE DEF z
<1> QED BY <1>1, <1>2, <1>3, <1>4, <1>5, <1>6 DEF Live

(* The label.                                                               *)
LEMMA LabelEntryOk ==
  ASSUME NEW g \in Cards, NEW m \in Live(g)
  PROVE  LET a == LabelEntry(m) IN a \in Live(g) /\ (a.res = "OK" => OnEntry(a, g))
<1> DEFINE z == [m EXCEPT !.dj.sclust = 0]
           s == dir_sdi(z, 0)
           r == dir_read(s, TRUE)
<1>1. LabelEntry(m) = IF s.res = "OK" THEN r ELSE s
  BY DEF LabelEntry, Then
<1>2. z \in Live(g)
  BY SclustOk
<1> HIDE DEF z
<1>3. s \in Live(g) /\ (s.res = "OK" => s.dj.dir # Self)
  BY <1>2, DirSdi
<1> HIDE DEF s
<1>4. s.res = "OK" => r \in Live(g) /\ (r.res = "OK" => OnEntry(r, g))
  BY <1>3, DirRead
<1> HIDE DEF r
<1> QED BY <1>1, <1>3, <1>4

LEMMA NoInfoOk == NoInfo \in Infos
<1> DEFINE s == ""
<1>1. s \in Spellings
  BY Zenon DEF Spellings
<1>2. NoInfo = [name |-> s, attr |-> {}, size |-> 0]
  BY DEF NoInfo
<1> HIDE DEF s
<1> QED BY <1>1, <1>2 DEF Infos

LEMMA FGetlabel ==
  ASSUME NEW g \in Cards, NEW m \in Work(g)
  PROVE  f_getlabel(m) \in Work(g)
<1> DEFINE a == chk_mounted(m)
           b == LabelEntry(a)
           i == get_fileinfo(b)
           o == Ok(b)
           n == SetInfoRec(o, NoInfo)
           c == IF b.res = "OK" THEN i ELSE IF b.res = "NO_FILE" THEN n ELSE b
           w == move_window(c, c.bsect)
<1>1. f_getlabel(m) = IF a.res = "OK" THEN IF c.res = "OK" THEN w ELSE c ELSE a
  <2>1. c = CASE b.res = "OK" -> get_fileinfo(b)
              [] b.res = "NO_FILE" -> [Ok(b) EXCEPT !.info = NoInfo]
              [] OTHER -> b
    <3> HIDE DEF b, i
    <3>1. [Ok(b) EXCEPT !.info = NoInfo] = n
      BY DEF SetInfoRec
    <3> HIDE DEF n
    <3> QED BY <3>1 DEF i
  <2> HIDE DEF c
  <2> QED BY <2>1 DEF f_getlabel, Then, After
<1>2. Mounts(a, g)
  BY ChkMounted
<1> HIDE DEF a
<1>3. a.res = "OK" => b \in Live(g) /\ (b.res = "OK" => OnEntry(b, g))
  BY <1>2, LabelEntryOk DEF Mounts
<1> HIDE DEF b
<1>4. a.res = "OK" /\ b.res = "OK" => i \in Live(g)
  BY <1>3, InfoGot DEF OnEntry
<1>5. a.res = "OK" => n \in Live(g)
  BY <1>3, LiveOk, NoInfoOk, InfoOk
<1> HIDE DEF i, n
<1>6. a.res = "OK" => c \in Live(g)
  BY <1>3, <1>4, <1>5
<1> HIDE DEF c
<1>7. a.res = "OK" => w \in Live(g)
  <2>1. SUFFICES ASSUME a.res = "OK" PROVE w \in Live(g)
    OBVIOUS
  <2>2. c.bsect = g.bsect
    BY <1>6, <2>1 DEF Live, Work, Card, Mount
  <2>3. g.bsect \in Sectors /\ ~Copy(g, g.bsect)
    <3>1. FatBase(g) = g.bsect + 2 /\ FatSize \in Nat /\ g.bsect \in {0, 1}
      BY Regions, SizeOfFat DEF Cards
    <3>2. g.bsect < FatBase(g) + FatSize
      BY <3>1
    <3> QED BY <3>1, <3>2, LowSectors DEF Copy
  <2> QED BY <1>6, <2>1, <2>2, <2>3, LiveWindow
<1> HIDE DEF w
<1> QED BY <1>1, <1>2, <1>6, <1>7 DEF Mounts, Live

LEMMA NewLabelOk == ASSUME NEW l \in Spellings PROVE NewLabel(l) \in Entry
<1>1. {"VOL"} \in SUBSET Attrs
  BY DEF Attrs
<1> QED BY <1>1, BlankOk DEF NewLabel, Entry

LEMMA FSetlabel ==
  ASSUME NEW g \in Cards, ~g.still, NEW m \in Work(g), NEW label \in Spellings
  PROVE  f_setlabel(m, label) \in Work(g)
<1> DEFINE a == chk_mounted(m)
           b == LabelEntry(a)
           none == label = ""
           nm == IF none THEN "DEL" ELSE label
           e == [EntryAt(b) EXCEPT !.name = nm]
           x == sync_fs(PutEntry(b, e))
           o == Ok(b)
           c == dir_alloc(b)
           y == sync_fs(PutEntry(c, NewLabel(label)))
           z == IF c.res = "OK" THEN y ELSE c
<1>1. f_setlabel(m, label) = IF a.res = "OK" THEN IF b.res = "OK" THEN x ELSE IF b.res # "NO_FILE" THEN b
                             ELSE IF none THEN o ELSE z ELSE a
  BY Zenon DEF f_setlabel, Then, After
<1>2. nm \in Spellings
  <2>1. "DEL" \in Spellings
    BY Zenon DEF Spellings
  <2> HIDE DEF none
  <2> QED BY <2>1
<1> HIDE DEF none, nm
<1>3. Mounts(a, g)
  BY ChkMounted
<1> HIDE DEF a
<1>4. a.res = "OK" => b \in Live(g) /\ (b.res = "OK" => OnEntry(b, g))
  BY <1>3, LabelEntryOk DEF Mounts
<1> HIDE DEF b
<1>5. a.res = "OK" /\ b.res = "OK" => x \in Live(g)
  <2>1. a.res = "OK" /\ b.res = "OK" => e \in Entry
    BY <1>2, <1>4, EntryHere, Renamed
  <2> HIDE DEF e
  <2> QED BY <1>4, <2>1, Rewritten
<1>6. a.res = "OK" => o \in Live(g)
  BY <1>4, LiveOk
<1> HIDE DEF x, o
<1>7. a.res = "OK" => c \in Live(g) /\ (c.res = "OK" => OnEntry(c, g))
  BY <1>4, DirAlloc DEF Lands
<1> HIDE DEF c
<1>8. a.res = "OK" => z \in Live(g)
  BY <1>7, NewLabelOk, Rewritten
<1> HIDE DEF z
<1> QED BY <1>1, <1>3, <1>4, <1>5, <1>6, <1>8 DEF Mounts, Live

-----------------------------------------------------------------------------
(* f_getcwd, and a listing.                                                *)

(* f_getcwd and a listing of a directory.                                   *)
LEMMA AnyName ==
  ASSUME NEW s \in Spellings, NEW b \in Bufs
  PROVE  <<s>> \o b \in Bufs /\ Append(b, s) \in Bufs /\ <<s>> \in Bufs
<1> DEFINE S == Int \cup Spellings
<1>1. s \in S /\ b \in Seq(S)
  BY DEF Bufs
<1> HIDE DEF S
<1>2. <<s>> \in Seq(S)
  BY <1>1
<1>3. <<s>> \o b \in Seq(S)
  BY <1>1, <1>2, ConcatProperties
<1>4. Append(b, s) \in Seq(S)
  BY <1>1, AppendProperties
<1> QED BY <1>2, <1>3, <1>4 DEF Bufs, S

LEMMA UpOk ==
  ASSUME NEW g \in Cards, NEW m \in Live(g)
  PROVE  Up(m) \in Live(g)
<1> DEFINE c == m.dj.sclust
           z == Stop(m, "OK")
           s == dir_sdi(m, 1)
           r == dir_read(s, FALSE)
           b == IF s.res = "OK" THEN r ELSE s
           q == [b EXCEPT !.dj.sclust = EntryAt(b).clust]
           t == dir_sdi(q, 0)
           d == IF b.res = "OK" THEN t ELSE b
           l == ChildLoop(d, c)
           e == IF d.res = "OK" THEN l ELSE d
           f == Stop(e, IF e.res = "NO_FILE" THEN "INT_ERR" ELSE e.res)
           n == SetBuf(e, <<EntryAt(e).name>> \o e.buf, e.want)
<1>2. s \in Live(g) /\ (s.res = "OK" => s.dj.dir # Self)
  BY DirSdi
<1>3. s.res = "OK" => r \in Live(g) /\ (r.res = "OK" => OnEntry(r, g))
  <2> HIDE DEF s
  <2> QED BY <1>2, DirRead
<1>4. b \in Live(g) /\ (b.res = "OK" => OnEntry(b, g))
  <2> HIDE DEF s, r
  <2> QED BY <1>2, <1>3
<1>5. b.res = "OK" => q \in Live(g)
  <2> HIDE DEF b
  <2> QED BY <1>4, EntryHere, SclustOk
<1>6. b.res = "OK" => t \in Live(g) /\ (t.res = "OK" => t.dj.sect # 0 /\ t.dj.dir # Self)
  <2> HIDE DEF b, q
  <2> QED BY <1>5, DirSdi
<1>7. d \in Live(g) /\ (d.res = "OK" => d.dj.sect # 0 /\ d.dj.dir # Self)
  <2> HIDE DEF b, t
  <2> QED BY <1>4, <1>6
<1>8. d.res = "OK" => l \in Live(g) /\ (l.res = "OK" => OnEntry(l, g))
  <2> HIDE DEF d, c
  <2> QED BY <1>7, FindsChild
<1>9. e \in Live(g) /\ (e.res = "OK" => OnEntry(e, g))
  <2> HIDE DEF d, l
  <2> QED BY <1>7, <1>8
<1>1. Up(m) = IF c = 0 THEN z ELSE IF e.res # "OK" THEN f ELSE n
  <2>1. e \in State
    BY <1>9 DEF Live, Work
  <2> DEFINE v == [e EXCEPT !.buf = <<EntryAt(e).name>> \o @]
  <2>2. Up(m) = IF c = 0 THEN z ELSE IF e.res # "OK" THEN f ELSE v
    BY DEF Up, After, Then, ChildLoop
  <2> HIDE DEF e
  <2>3. v = n
    BY <2>1 DEF SetBuf, State
  <2> HIDE DEF v, n
  <2> QED BY <2>2, <2>3
<1> HIDE DEF e
<1>10. f \in Live(g)
  <2>1. e.res \in Results /\ "INT_ERR" \in Results
    BY <1>9 DEF Live, Work, State, Results
  <2> QED BY <1>9, <2>1, LiveStop
<1>11. e.res = "OK" => n \in Live(g)
  <2>1. SUFFICES ASSUME e.res = "OK" PROVE n \in Live(g)
    OBVIOUS
  <2>2. EntryAt(e).name \in Spellings /\ e.buf \in Bufs /\ e.want \in Int
    BY <1>9, <2>1, EntryHere, OffsetIs
  <2> DEFINE nm == EntryAt(e).name
             nb == <<nm>> \o e.buf
  <2> HIDE DEF nm
  <2>3. nb \in Bufs
    BY <2>2, AnyName DEF nm
  <2> HIDE DEF nb
  <2>4. SetBuf(e, nb, e.want) \in Live(g)
    BY <1>9, <2>2, <2>3, LiveBuf
  <2> QED BY <2>4 DEF nm, nb
<1>12. z \in Live(g)
  BY LiveStop DEF Results
<1> HIDE DEF f, n, z
<1> QED BY <1>1, <1>10, <1>11, <1>12

LEMMA UpLoop ==
  ASSUME NEW g \in Cards, NEW m \in Live(g), NEW k \in Nat
  PROVE  Loop(m, Up, k) \in Live(g)
<1> DEFINE M == Live(g)
           x0 == SetStop(m, FALSE)
<1>20. k \in Nat
  OBVIOUS
<1>10. x0 \in M
  <2>1. x0 \in Work(g) /\ Keeps(m, x0)
    BY StopOk DEF Live
  <2> HIDE DEF x0
  <2> QED BY <2>1 DEF Live, Keeps
<1>11. \A y \in M : (IF y.stop THEN y ELSE Up(y)) \in M
  BY UpOk
<1> HIDE DEF x0
<1> DEFINE step == [y \in M |-> IF y.stop THEN y ELSE Up(y)]
           t == CHOOSE f : f = [i \in 0..k |-> IF i = 0 THEN x0 ELSE IF f[i-1].stop THEN f[i-1] ELSE Up(f[i-1])]
<1> HIDE DEF M
<1>21. step \in [M -> M]
  BY <1>11
<1>22. PICK f : IsRun(f, M, x0, k, step)
  <2> HIDE DEF step
  <2> QED BY <1>10, <1>20, <1>21, Repeated
<1>23. f = [i \in 0..k |-> IF i = 0 THEN x0 ELSE IF f[i-1].stop THEN f[i-1] ELSE Up(f[i-1])]
  <2>1. ASSUME NEW i \in 0..k, i # 0
        PROVE  step[f[i-1]] = IF f[i-1].stop THEN f[i-1] ELSE Up(f[i-1])
    <3>1. i - 1 \in 0..k
      BY <1>20, <2>1
    <3>2. f[i-1] \in M
      BY <1>22, <3>1 DEF IsRun
    <3> QED BY <3>2
  <2> HIDE DEF step
  <2> QED BY <1>22, <2>1 DEF IsRun
<1>24. t = [i \in 0..k |-> IF i = 0 THEN x0 ELSE IF t[i-1].stop THEN t[i-1] ELSE Up(t[i-1])]
  BY <1>23
<1> HIDE DEF t, step
<1> DEFINE G == [i \in 0..k |-> M]
<1>12. x0 \in G[0]
  BY <1>10, <1>20
<1>13. \A i \in 1..k : \A y \in G[i-1] : (IF y.stop THEN y ELSE Up(y)) \in G[i]
  BY <1>11, <1>20
<1> HIDE DEF G
<1>25. t[k] \in G[k]
  <2>1. t[0] \in G[0]
    BY <1>12, <1>20, <1>24
  <2>2. ASSUME NEW i \in 1..k, t[i-1] \in G[i-1] PROVE t[i] \in G[i]
    <3>1. t[i] = IF t[i-1].stop THEN t[i-1] ELSE Up(t[i-1])
      BY <1>20, <1>24
    <3> DEFINE y == t[i-1]
    <3>2. y \in G[i-1] /\ t[i] = IF y.stop THEN y ELSE Up(y)
      BY <2>2, <3>1
    <3> HIDE DEF y
    <3> QED BY <1>13, <3>2
  <2> QED BY <1>20, <2>1, <2>2, Always
<1>26. t[k] \in M
  BY <1>20, <1>25 DEF G
<1> DEFINE e == t[k]
           f1 == Ended(e)
<1>3. e \in M
  BY <1>26
<1> HIDE DEF e
<1>4. f1 \in Live(g)
  <2>1. e \in Work(g) /\ e.type # "none"
    BY <1>3 DEF M, Live
  <2>2. f1 \in Work(g) /\ Keeps(e, f1)
    BY <2>1, EndedOk
  <2> HIDE DEF f1
  <2> QED BY <2>1, <2>2 DEF Live, Keeps
<1>5. Loop(m, Up, k) = f1
  BY DEF Loop, Turn, t, f1, e, x0, SetStop
<1> HIDE DEF f1
<1> QED BY <1>4, <1>5

LEMMA FGetcwd ==
  ASSUME NEW g \in Cards, NEW m \in Work(g)
  PROVE  f_getcwd(m) \in Work(g)
<1> DEFINE a == chk_mounted(m)
           s == [a EXCEPT !.dj.sclust = a.cdir]
           b == SetBuf(s, <<>>, s.want)
           l == Loop(b, Up, NFatEnt)
<1>1. Mounts(a, g)
  BY ChkMounted
<1>2. f_getcwd(m) = IF a.res = "OK" THEN l ELSE a
  <2> DEFINE v == [a EXCEPT !.dj.sclust = a.cdir, !.buf = <<>>]
  <2>1. a \in State
    BY <1>1 DEF Mounts, Work
  <2>2. f_getcwd(m) = IF a.res = "OK" THEN Loop(v, Up, NFatEnt) ELSE a
    BY DEF f_getcwd, Then
  <2> HIDE DEF a
  <2>3. v = b
    BY <2>1 DEF SetBuf, State
  <2> HIDE DEF v, b
  <2> QED BY <2>2, <2>3
<1> HIDE DEF a
<1>3. a.res = "OK" => s \in Live(g)
  <2>1. a.res = "OK" => a \in Live(g) /\ a.cdir \in Nat
    BY <1>1 DEF Mounts, Live, Work, State
  <2> QED BY <2>1, SclustOk
<1> HIDE DEF s
<1>4. a.res = "OK" => b \in Live(g)
  BY <1>3, OffsetIs, NoBytes, LiveBuf
<1> HIDE DEF b
<1>5. a.res = "OK" => l \in Live(g)
  BY <1>4, UpLoop, GeometryAssumption
<1> HIDE DEF l
<1> QED BY <1>1, <1>2, <1>5 DEF Mounts, Live

InTable(g) == {y \in Live(g) : y.dj.dir # Self}
LEMMA NextNameOk ==
  ASSUME NEW g \in Cards, NEW m \in InTable(g)
  PROVE  NextName(m) \in InTable(g)
<1> DEFINE a == f_readdir(m)
           z == Stop(a, a.res)
           o == Stop(a, "OK")
           nb == Append(a.buf, a.info.name)
           n == SetBuf(a, nb, a.want)
<1>1. a \in Live(g) /\ a.dj.dir # Self
  BY FReaddir DEF InTable
<1>2. NextName(m) \in {z, o, n}
  <2> DEFINE v == [a EXCEPT !.buf = Append(@, a.info.name)]
             last0 == a.info.name = ""
  <2>1. NextName(m) = IF a.res = "OK" THEN IF last0 THEN o ELSE v ELSE z
    BY Zenon DEF NextName, Carry
  <2>2. a \in State
    BY <1>1 DEF Live, Work
  <2> HIDE DEF a, last0
  <2>3. v = n
    BY <2>2 DEF SetBuf, State
  <2> HIDE DEF v, n
  <2> QED BY <2>1, <2>3
<1> HIDE DEF a
<1>3. a.res \in Results /\ "OK" \in Results /\ a.info.name \in Spellings /\ a.buf \in Bufs /\ a.want \in Int
  BY <1>1 DEF Live, Work, State, Infos, Results
<1>4. nb \in Bufs
  BY <1>3, AnyName
<1> HIDE DEF nb
<1>5. z \in InTable(g) /\ o \in InTable(g)
  <2>1. z \in Live(g) /\ z.dj = a.dj /\ o \in Live(g) /\ o.dj = a.dj
    BY <1>1, <1>3, LiveStop
  <2> HIDE DEF z, o
  <2> QED BY <1>1, <2>1 DEF InTable
<1>6. n \in InTable(g)
  <2>1. n \in Live(g) /\ n.dj = a.dj
    BY <1>1, <1>3, <1>4, LiveBuf
  <2> HIDE DEF n
  <2> QED BY <1>1, <2>1 DEF InTable
<1> HIDE DEF z, o, n
<1> QED BY <1>2, <1>5, <1>6

LEMMA NamesOk ==
  ASSUME NEW g \in Cards, NEW m \in InTable(g)
  PROVE  Names(m) \in InTable(g)
<1> DEFINE M == InTable(g)
           b == SetBuf(m, <<>>, m.want)
           x0 == SetStop(b, FALSE)
<1>20. Turns \in Nat
  BY SizeOfFat
<1>9. b \in Live(g) /\ b.dj = m.dj
  BY OffsetIs, NoBytes, LiveBuf DEF InTable
<1>8. [m EXCEPT !.buf = <<>>] = b
  BY DEF SetBuf, InTable, Live, Work, State
<1> HIDE DEF b
<1>10. x0 \in M
  <2>1. x0 \in Work(g) /\ Keeps(b, x0)
    BY <1>9, StopOk DEF Live
  <2> HIDE DEF x0
  <2> QED BY <1>9, <2>1 DEF Live, Keeps, InTable
<1>11. \A y \in M : (IF y.stop THEN y ELSE NextName(y)) \in M
  BY NextNameOk
<1> HIDE DEF x0
<1> DEFINE step == [y \in M |-> IF y.stop THEN y ELSE NextName(y)]
           t == CHOOSE f : f = [i \in 0..Turns |-> IF i = 0 THEN x0 ELSE IF f[i-1].stop THEN f[i-1] ELSE NextName(f[i-1])]
<1> HIDE DEF M
<1>21. step \in [M -> M]
  BY <1>11
<1>22. PICK f : IsRun(f, M, x0, Turns, step)
  <2> HIDE DEF step
  <2> QED BY <1>10, <1>20, <1>21, Repeated
<1>23. f = [i \in 0..Turns |-> IF i = 0 THEN x0 ELSE IF f[i-1].stop THEN f[i-1] ELSE NextName(f[i-1])]
  <2>1. ASSUME NEW i \in 0..Turns, i # 0
        PROVE  step[f[i-1]] = IF f[i-1].stop THEN f[i-1] ELSE NextName(f[i-1])
    <3>1. i - 1 \in 0..Turns
      BY <1>20, <2>1
    <3>2. f[i-1] \in M
      BY <1>22, <3>1 DEF IsRun
    <3> QED BY <3>2
  <2> HIDE DEF step
  <2> QED BY <1>22, <2>1 DEF IsRun
<1>24. t = [i \in 0..Turns |-> IF i = 0 THEN x0 ELSE IF t[i-1].stop THEN t[i-1] ELSE NextName(t[i-1])]
  BY <1>23
<1> HIDE DEF t, step
<1> DEFINE G == [i \in 0..Turns |-> M]
<1>12. x0 \in G[0]
  BY <1>10, <1>20
<1>13. \A i \in 1..Turns : \A y \in G[i-1] : (IF y.stop THEN y ELSE NextName(y)) \in G[i]
  BY <1>11, <1>20
<1> HIDE DEF G
<1>25. t[Turns] \in G[Turns]
  <2>1. t[0] \in G[0]
    BY <1>12, <1>20, <1>24
  <2>2. ASSUME NEW i \in 1..Turns, t[i-1] \in G[i-1] PROVE t[i] \in G[i]
    <3>1. t[i] = IF t[i-1].stop THEN t[i-1] ELSE NextName(t[i-1])
      BY <1>20, <1>24
    <3> DEFINE y == t[i-1]
    <3>2. y \in G[i-1] /\ t[i] = IF y.stop THEN y ELSE NextName(y)
      BY <2>2, <3>1
    <3> HIDE DEF y
    <3> QED BY <1>13, <3>2
  <2> QED BY <1>20, <2>1, <2>2, Always
<1>26. t[Turns] \in M
  BY <1>20, <1>25 DEF G
<1> DEFINE e == t[Turns]
           f1 == Ended(e)
<1>3. e \in M
  BY <1>26
<1> HIDE DEF e
<1>4. f1 \in InTable(g)
  <2>1. e \in Work(g) /\ e.type # "none" /\ e.dj.dir # Self
    BY <1>3 DEF M, InTable, Live
  <2>2. f1 \in Work(g) /\ Keeps(e, f1)
    BY <2>1, EndedOk
  <2> HIDE DEF f1
  <2> QED BY <2>1, <2>2 DEF Live, Keeps, InTable
<1>5. Names(m) = f1
  BY <1>8 DEF Names, Loop, Turn, t, f1, e, x0, SetStop
<1> HIDE DEF f1
<1> QED BY <1>4, <1>5

LEMMA ListingOk ==
  ASSUME NEW g \in Cards, NEW m \in InTable(g)
  PROVE  Listing(m) \in Live(g)
<1> DEFINE a == Names(m)
           r == f_rewinddir(a)
           b == Names(r)
           d == <<"differs">>
           n == SetBuf(b, d, b.want)
<1>1. Listing(m) \in {b, n}
  BY Zenon DEF Listing, After, SetBuf
<1>2. a \in InTable(g)
  BY NamesOk
<1> HIDE DEF a
<1>3. r \in InTable(g)
  BY <1>2, FRewinddir DEF InTable
<1> HIDE DEF r
<1>4. b \in InTable(g)
  BY <1>3, NamesOk
<1> HIDE DEF b
<1>5. d \in Bufs
  <2>1. "differs" \in Spellings
    BY Zenon DEF Spellings
  <2> QED BY <2>1, NoBytes, AnyName
<1> HIDE DEF d
<1>6. n \in Live(g)
  BY <1>4, <1>5, OffsetIs, LiveBuf DEF InTable
<1> HIDE DEF n
<1> QED BY <1>1, <1>4, <1>6 DEF InTable

-----------------------------------------------------------------------------
(* f_mkfs: sectors written one after the other.                            *)

(* f_mkfs: the sectors that are written and what the card holds then.       *)
SectorWrites == Sectors \X Content
SetGoing(m, p) == [m EXCEPT !.path = p, !.res = "OK", !.stop = FALSE]
SetHalted(m, p) == [m EXCEPT !.path = p, !.res = "OK", !.stop = TRUE]
LEMMA PathTyped == Seq(SectorWrites) \subseteq Seq(Spellings \cup (Int \X Content))
<1> DEFINE T == Spellings \cup (Int \X Content)
<1>1. SectorWrites \subseteq T
  <2>1. Sectors \subseteq Int
    BY DEF Sectors
  <2> QED BY <2>1 DEF SectorWrites
<1> HIDE DEF T
<1>2. SUFFICES ASSUME NEW p \in Seq(SectorWrites) PROVE p \in Seq(T)
  BY DEF T
<1>3. Len(p) \in Nat /\ p \in [1..Len(p) -> SectorWrites]
  BY LenProperties
<1>4. p \in [1..Len(p) -> T]
  BY <1>1, <1>3
<1> QED BY <1>3, <1>4, Sequence

LEMMA PlaceAndPath ==
  ASSUME NEW m \in State, NEW p \in Seq(SectorWrites)
  PROVE  /\ LET a == SetGoing(m, p) IN
            a \in State /\ a.path = p /\ a.res = "OK" /\ ~a.stop /\ a.left = m.left /\ a.disk = m.disk
         /\ LET a == SetHalted(m, p) IN
            a \in State /\ a.path = p /\ a.res = "OK" /\ a.stop /\ a.left = m.left /\ a.disk = m.disk
<1>1. p \in Seq(Spellings \cup (Int \X Content))
  BY PathTyped
<1>2. SetGoing(m, p) \in State /\ SetHalted(m, p) \in State
  BY <1>1 DEF State, SetGoing, SetHalted, Results
<1> QED BY <1>2 DEF State, SetGoing, SetHalted

LEMMA NextSector ==
  ASSUME NEW m \in State, m.left = 0, ~m.stop, m.path \in Seq(SectorWrites), m.path # <<>>
  PROVE  LET a == WriteNext(m) IN
         /\ a \in State /\ a.left = 0 /\ ~a.stop /\ a.res = "OK" /\ a.path = Tail(m.path)
         /\ a.disk = [m.disk EXCEPT ![Head(m.path)[1]] = Head(m.path)[2]]
<1> DEFINE s == Head(m.path)[1]
           c == Head(m.path)[2]
           x == [m EXCEPT !.win = c]
           w == disk_write(x, s, c)
           p == Tail(m.path)
           a == [w EXCEPT !.path = p]
<1>1. s \in Sectors /\ c \in Content /\ p \in Seq(SectorWrites)
  <2>1. Head(m.path) \in SectorWrites /\ p \in Seq(SectorWrites)
    BY HeadTailProperties
  <2> HIDE DEF p
  <2> QED BY <2>1 DEF SectorWrites
<1> DEFINE z == [w EXCEPT !.path = Tail(@)]
           st == Stop(w, w.res)
<1>2. WriteNext(m) = IF w.res = "OK" THEN z ELSE st
  BY DEF WriteNext, Carry
<1> HIDE DEF s, c, p
<1>3. x \in State /\ x.left = 0 /\ x.disk = m.disk /\ ~x.stop /\ x.path = m.path
  BY <1>1 DEF State
<1> HIDE DEF x
<1>4. /\ w \in State /\ w.left = 0 /\ w.res = "OK" /\ ~w.stop /\ w.path = m.path
      /\ w.disk = [m.disk EXCEPT ![s] = c]
  BY <1>1, <1>3, DiskWrite DEF Beside, Keeps
<1> HIDE DEF w
<1>5. z = a
  BY <1>4 DEF State, p
<1> HIDE DEF z
<1>6. a = SetGoing(w, p)
  BY <1>4 DEF State, SetGoing, SetHalted
<1>7. a \in State /\ a.path = p /\ a.res = "OK" /\ ~a.stop /\ a.left = w.left /\ a.disk = w.disk
  <2>1. "OK" \in Results /\ FALSE \in BOOLEAN
    BY DEF Results
  <2> DEFINE y == SetGoing(w, p)
  <2>2. y \in State /\ y.path = p /\ y.res = "OK" /\ ~y.stop /\ y.left = w.left /\ y.disk = w.disk
    BY <1>1, <1>4, <2>1, PlaceAndPath
  <2>3. a = y
    BY <1>6
  <2> HIDE DEF y, a
  <2> QED BY <2>2, <2>3
<1> HIDE DEF a
<1> QED BY <1>2, <1>4, <1>5, <1>7 DEF s, c, p

(* What is left to write, what is written.                                  *)
Placing(y, S, i) ==
  /\ y.path \in Seq(SectorWrites) /\ Len(y.path) = Len(S) - i
  /\ \A k \in 1..Len(S) - i : y.path[k] = S[k + i]
  /\ \A k \in 1..i : y.disk[S[k][1]] = S[k][2]
LEMMA PlaceTurn ==
  ASSUME NEW S \in Seq(SectorWrites), NEW goal, \A k \in 1..Len(S) : S[k][2] = goal[S[k][1]],
         NEW i \in Nat, NEW m \in State, m.left = 0, ~m.stop, i < Len(S), Placing(m, S, i)
  PROVE  LET a == WriteNext(m) IN
         a \in State /\ a.left = 0 /\ ~a.stop /\ Placing(a, S, i + 1)
<1> DEFINE a == WriteNext(m)
           h == S[i + 1]
<1>0. Len(S) \in Nat /\ m.path \in Seq(SectorWrites) /\ Len(m.path) = Len(S) - i /\ m.path # <<>>
  <2>1. Len(S) \in Nat /\ m.path \in Seq(SectorWrites) /\ Len(m.path) = Len(S) - i
    BY LenProperties DEF Placing
  <2> QED BY <2>1, EmptySeq
<1>1. Tail(m.path) \in Seq(SectorWrites) /\ Len(Tail(m.path)) = Len(S) - (i + 1)
      /\ \A k \in 1..Len(S) - (i + 1) : Tail(m.path)[k] = m.path[k + 1]
  BY <1>0, HeadTailProperties
<1>2. Head(m.path) = h
  <2>1. Head(m.path) = m.path[1]
    BY <1>0
  <2>2. 1 \in 1..Len(S) - i
    BY <1>0
  <2> QED BY <2>1, <2>2 DEF Placing
<1>3. /\ a \in State /\ a.left = 0 /\ ~a.stop /\ a.path = Tail(m.path)
      /\ a.disk = [m.disk EXCEPT ![h[1]] = h[2]]
  BY <1>0, <1>2, NextSector
<1>4. i + 1 \in 1..Len(S) /\ \A k \in 1..Len(S) : S[k] \in SectorWrites
  BY <1>0, ElementOfSeq
<1>5. \A k \in 1..Len(S) : S[k][1] \in Sectors
  BY <1>4 DEF SectorWrites
<1>6. m.disk \in [Sectors -> Content] /\ h[1] \in Sectors
  BY <1>4, <1>5 DEF State
<1> HIDE DEF a
<1>7. \A k \in 1..Len(S) - (i + 1) : a.path[k] = S[k + (i + 1)]
  <2>1. TAKE k \in 1..Len(S) - (i + 1)
  <2>2. k + 1 \in 1..Len(S) - i /\ (k + 1) + i = k + (i + 1)
    BY <1>0
  <2>3. m.path[k + 1] = S[(k + 1) + i]
    BY <2>2 DEF Placing
  <2> QED BY <1>1, <1>3, <2>2, <2>3
<1>8. \A k \in 1..i + 1 : a.disk[S[k][1]] = S[k][2]
  <2>1. TAKE k \in 1..i + 1
  <2>2. k \in 1..Len(S) /\ (k = i + 1 \/ k \in 1..i)
    BY <1>0
  <2> DEFINE s == S[k][1]
  <2>3. s \in Sectors /\ S[k][2] = goal[s] /\ h[2] = goal[h[1]]
    BY <1>4, <1>5, <2>2
  <2>4. k \in 1..i => m.disk[s] = S[k][2]
    BY DEF Placing
  <2>5. a.disk[s] = IF s = h[1] THEN h[2] ELSE m.disk[s]
    BY <1>3, <1>6, <2>3
  <2> HIDE DEF s, h
  <2>6. CASE k = i + 1
    <3>1. s = h[1] /\ S[k] = h
      BY <2>6 DEF s, h
    <3> QED BY <2>5, <3>1 DEF s
  <2>7. CASE k \in 1..i
    <3> QED BY <2>3, <2>4, <2>5, <2>7 DEF s
  <2> QED BY <2>2, <2>6, <2>7
<1> QED BY <1>1, <1>3, <1>7, <1>8 DEF Placing, a

LEMMA WriteAllOk ==
  ASSUME NEW S \in Seq(SectorWrites), NEW goal, \A k \in 1..Len(S) : S[k][2] = goal[S[k][1]],
         NEW m \in State, m.left = 0
  PROVE  LET a == WriteAll(m, S) IN
         a \in State /\ a.left = 0 /\ a.res = "OK" /\ \A k \in 1..Len(S) : a.disk[S[k][1]] = S[k][2]
<1> DEFINE M == {y \in State : y.left = 0 /\ y.path \in Seq(SectorWrites)}
           n == Len(S) + 1
           Done(y) == y.res = "OK" /\ \A k \in 1..Len(S) : y.disk[S[k][1]] = S[k][2]
           G == [i \in 0..n |-> {y \in M : IF y.stop THEN Done(y) ELSE i <= Len(S) /\ Placing(y, S, i)}]
           x0 == SetGoing(m, S)
<1>0. Len(S) \in Nat
  BY LenProperties
<1>20. n \in Nat
  BY <1>0
<1>1. x0 \in State /\ x0.left = 0 /\ ~x0.stop /\ x0.path = S
  <2>1. "OK" \in Results /\ FALSE \in BOOLEAN
    BY DEF Results
  <2> QED BY <2>1, PlaceAndPath
<1>9. [[Ok(m) EXCEPT !.path = S] EXCEPT !.stop = FALSE] = x0
  BY DEF Ok, State, SetGoing, SetHalted
<1> HIDE DEF x0
<1>10. x0 \in M
  BY <1>1
<1>2. ASSUME NEW y \in M, ~y.stop, y.path = <<>>
      PROVE  WriteNext(y) \in M /\ WriteNext(y).stop /\ WriteNext(y).res = "OK" /\ WriteNext(y).disk = y.disk
  <2> DEFINE a == SetHalted(y, y.path)
  <2>1. WriteNext(y) = a
    BY <1>2 DEF WriteNext, Stop, State, SetGoing, SetHalted
  <2>2. "OK" \in Results /\ TRUE \in BOOLEAN
    BY DEF Results
  <2>3. y \in State /\ y.path \in Seq(SectorWrites) /\ y.left = 0
    OBVIOUS
  <2>4. a \in State /\ a.path = y.path /\ a.res = "OK" /\ a.stop /\ a.left = y.left /\ a.disk = y.disk
    BY <2>2, <2>3, PlaceAndPath
  <2> HIDE DEF a
  <2> QED BY <2>1, <2>3, <2>4
<1>11. \A y \in M : (IF y.stop THEN y ELSE WriteNext(y)) \in M
  <2>1. SUFFICES ASSUME NEW y \in M, ~y.stop PROVE WriteNext(y) \in M
    OBVIOUS
  <2>2. CASE y.path = <<>>
    BY <1>2, <2>1, <2>2
  <2>3. CASE y.path # <<>>
    <3>1. WriteNext(y) \in State /\ WriteNext(y).left = 0 /\ WriteNext(y).path = Tail(y.path)
      BY <2>1, <2>3, NextSector
    <3>2. Tail(y.path) \in Seq(SectorWrites)
      BY <2>3, HeadTailProperties
    <3> QED BY <3>1, <3>2
  <2> QED BY <2>2, <2>3
<1>12. x0 \in G[0]
  <2>1. Placing(x0, S, 0)
    BY <1>0, <1>1 DEF Placing
  <2> QED BY <1>0, <1>1, <1>10, <1>20, <2>1
<1>13. \A i \in 1..n : \A y \in G[i-1] : (IF y.stop THEN y ELSE WriteNext(y)) \in G[i]
  <2>1. TAKE i \in 1..n
  <2>2. TAKE y \in G[i-1]
  <2>3. i \in Int /\ i - 1 \in 0..n /\ i \in 0..n /\ i - 1 \in Nat /\ (i - 1) + 1 = i
    BY <1>20
  <2>4. y \in M /\ IF y.stop THEN Done(y) ELSE i - 1 <= Len(S) /\ Placing(y, S, i - 1)
    BY <2>3
  <2>5. CASE y.stop
    BY <2>3, <2>4, <2>5
  <2>6. CASE ~y.stop /\ y.path = <<>>
    <3>1. Done(y) \/ \A k \in 1..Len(S) : y.disk[S[k][1]] = S[k][2]
      <4>1. Len(y.path) = 0
        BY <2>6, EmptySeq
      <4>2. i - 1 = Len(S)
        BY <1>0, <2>3, <2>4, <2>6, <4>1 DEF Placing
      <4> QED BY <2>4, <2>6, <4>2 DEF Placing
    <3>2. WriteNext(y) \in M /\ WriteNext(y).stop /\ WriteNext(y).res = "OK" /\ WriteNext(y).disk = y.disk
      BY <1>2, <2>4, <2>6
    <3> QED BY <2>3, <2>6, <3>1, <3>2
  <2>7. CASE ~y.stop /\ y.path # <<>>
    <3>1. i - 1 < Len(S)
      <4>1. Len(y.path) \in Nat \ {0}
        BY <2>4, <2>7, EmptySeq
      <4> QED BY <1>0, <2>3, <2>4, <2>7, <4>1 DEF Placing
    <3> DEFINE a == WriteNext(y)
    <3>2. a \in State /\ a.left = 0 /\ ~a.stop /\ Placing(a, S, (i - 1) + 1)
      BY <2>3, <2>4, <2>7, <3>1, PlaceTurn
    <3> HIDE DEF a
    <3>3. a \in M /\ i <= Len(S)
      BY <1>0, <2>3, <3>1, <3>2 DEF Placing
    <3> QED BY <2>3, <2>7, <3>2, <3>3 DEF a
  <2> QED BY <2>5, <2>6, <2>7
<1>14. n = Len(S) + 1
  OBVIOUS
<1> HIDE DEF n, Done
<1> HIDE DEF x0
<1> DEFINE step == [y \in M |-> IF y.stop THEN y ELSE WriteNext(y)]
           t == CHOOSE f : f = [i \in 0..n |-> IF i = 0 THEN x0 ELSE IF f[i-1].stop THEN f[i-1] ELSE WriteNext(f[i-1])]
<1> HIDE DEF M
<1>21. step \in [M -> M]
  BY <1>11
<1>22. PICK f : IsRun(f, M, x0, n, step)
  <2> HIDE DEF step
  <2> QED BY <1>10, <1>20, <1>21, Repeated
<1>23. f = [i \in 0..n |-> IF i = 0 THEN x0 ELSE IF f[i-1].stop THEN f[i-1] ELSE WriteNext(f[i-1])]
  <2>1. ASSUME NEW i \in 0..n, i # 0
        PROVE  step[f[i-1]] = IF f[i-1].stop THEN f[i-1] ELSE WriteNext(f[i-1])
    <3>1. i - 1 \in 0..n
      BY <1>20, <2>1
    <3>2. f[i-1] \in M
      BY <1>22, <3>1 DEF IsRun
    <3> QED BY <3>2
  <2> HIDE DEF step
  <2> QED BY <1>22, <2>1 DEF IsRun
<1>24. t = [i \in 0..n |-> IF i = 0 THEN x0 ELSE IF t[i-1].stop THEN t[i-1] ELSE WriteNext(t[i-1])]
  BY <1>23
<1> HIDE DEF t, step
<1> HIDE DEF G
<1>25. t[n] \in G[n]
  <2>1. t[0] \in G[0]
    BY <1>12, <1>20, <1>24
  <2>2. ASSUME NEW i \in 1..n, t[i-1] \in G[i-1] PROVE t[i] \in G[i]
    <3>1. t[i] = IF t[i-1].stop THEN t[i-1] ELSE WriteNext(t[i-1])
      BY <1>20, <1>24
    <3> DEFINE y == t[i-1]
    <3>2. y \in G[i-1] /\ t[i] = IF y.stop THEN y ELSE WriteNext(y)
      BY <2>2, <3>1
    <3> HIDE DEF y
    <3> QED BY <1>13, <3>2
  <2> QED BY <1>20, <2>1, <2>2, Always
<1> DEFINE e == t[n]
           f1 == Ended(e)
<1>3. e \in M /\ e.stop /\ Done(e)
  <2>1. e \in M /\ IF e.stop THEN Done(e) ELSE n <= Len(S) /\ Placing(e, S, n)
    BY <1>20, <1>25 DEF G
  <2> HIDE DEF e
  <2> QED BY <1>0, <1>14, <2>1
<1> HIDE DEF e
<1>4. f1 \in State /\ f1.left = 0 /\ f1.res = "OK" /\ f1.disk = e.disk
  <2> DEFINE a == SetGoing(e, e.path)
  <2>1. e \in State /\ e.path \in Seq(SectorWrites) /\ e.left = 0 /\ e.res = "OK"
    BY <1>3 DEF M, Done
  <2>2. f1 = a
    BY <1>3, <2>1 DEF Ended, State, SetGoing, SetHalted
  <2>3. "OK" \in Results /\ FALSE \in BOOLEAN
    BY DEF Results
  <2>4. a \in State /\ a.path = e.path /\ a.res = "OK" /\ ~a.stop /\ a.left = e.left /\ a.disk = e.disk
    BY <2>1, <2>3, PlaceAndPath
  <2> HIDE DEF a, f1
  <2> QED BY <2>1, <2>2, <2>4
<1>5. WriteAll(m, S) = f1
  BY <1>9 DEF WriteAll, Loop, Turn, t, f1, e, n
<1> HIDE DEF f1
<1> QED BY <1>3, <1>4, <1>5 DEF Done


-----------------------------------------------------------------------------
(* f_mkfs: what the sectors are.                                           *)

(* What a card formatted as g is holds.                                     *)
BootOf(g) == BootSector(TRUE, g.type, g.n_fats, 0)
Mbr == BootSector(TRUE, "none", 0, 1)
FatPart(g, s) == NewFat(g.type = "FAT32")[(s - FatBase(g)) % FatSize]
Goal(g) ==
  [s \in Sectors |->
     IF s < FatBase(g) THEN (IF s = g.bsect THEN BootOf(g) ELSE Mbr)
     ELSE IF s < RootBase(g) THEN FatPart(g, s) ELSE ZeroDir]
Has(s, p) == \E i \in 1..Len(s) : s[i] = p
Placed(g) == {p \in SectorWrites : p[2] = Goal(g)[p[1]]}

LEMMA HasConcat ==
  ASSUME NEW T, NEW s \in Seq(T), NEW t \in Seq(T), NEW p, Has(s, p) \/ Has(t, p)
  PROVE  Has(s \o t, p)
<1>1. /\ Len(s) \in Nat /\ Len(t) \in Nat /\ Len(s \o t) = Len(s) + Len(t)
      /\ \A i \in 1 .. Len(s) + Len(t) : (s \o t)[i] = IF i <= Len(s) THEN s[i] ELSE t[i - Len(s)]
  BY ConcatProperties, LenProperties
<1> DEFINE u == s \o t
<1> HIDE DEF u
<1>2. CASE Has(s, p)
  <2>1. PICK i \in 1..Len(s) : s[i] = p
    BY <1>2 DEF Has
  <2>2. i \in 1..Len(s) + Len(t) /\ i <= Len(s)
    BY <1>1
  <2>3. u[i] = p /\ i \in 1..Len(u)
    BY <1>1, <2>1, <2>2 DEF u
  <2> QED BY <2>3 DEF Has, u
<1>3. CASE Has(t, p)
  <2>1. PICK i \in 1..Len(t) : t[i] = p
    BY <1>3 DEF Has
  <2> DEFINE k == i + Len(s)
  <2>2. k \in 1..Len(s) + Len(t) /\ ~(k <= Len(s)) /\ k - Len(s) = i
    BY <1>1
  <2> HIDE DEF k
  <2>3. u[k] = p /\ k \in 1..Len(u)
    BY <1>1, <2>1, <2>2 DEF u
  <2> QED BY <2>3 DEF Has, u
<1> QED BY <1>2, <1>3

LEMMA NewFatIs ==
  ASSUME NEW b \in BOOLEAN, NEW i \in 0..FatSize-1
  PROVE  NewFat(b)[i] \in Content /\ NewFat(b)[i].kind = "fat"
<1> DEFINE n == IF b THEN 3 ELSE 2
           e == [k \in 0..FatPer-1 |-> IF i * FatPer + k < n THEN EOC ELSE 0]
<1>1. NewFat(b)[i] = FatSector(e)
  BY DEF NewFat
<1>2. e \in [0..FatPer-1 -> Nat]
  BY GeometryAssumption DEF EOC
<1> HIDE DEF e
<1> QED BY <1>1, <1>2 DEF FatSector, Content, FatContent

LEMMA BootIs ==
  ASSUME NEW g \in Cards
  PROVE  /\ BootOf(g) \in Content /\ BootOf(g).kind = "boot" /\ BootOf(g).sig /\ BootOf(g).part = 0
         /\ BootOf(g).type = g.type /\ BootOf(g).n_fats = g.n_fats
         /\ LET m == Mbr IN
            m \in Content /\ m.kind = "boot" /\ m.sig /\ m.part = 1 /\ m.type = "none"
BY DEF BootOf, Mbr, BootSector, Content, BootContent, Cards, Kinds

LEMMA ModFat ==
  ASSUME NEW k \in Nat
  PROVE  k % FatSize \in 0..FatSize-1 /\ (k + FatSize) % FatSize = k % FatSize
<1>1. FatSize \in Nat \ {0}
  BY SizeOfFat
<1>2. (k + 1 * FatSize) % FatSize = k % FatSize
  BY <1>1, Remainder
<1>3. 1 * FatSize = FatSize
  BY <1>1
<1>4. k % FatSize \in 0..FatSize-1
  BY <1>1
<1> QED BY <1>2, <1>3, <1>4

LEMMA GoalAt ==
  ASSUME NEW g, NEW s \in Sectors
  PROVE  Goal(g)[s] = IF s < FatBase(g) THEN (IF s = g.bsect THEN BootOf(g) ELSE Mbr)
                      ELSE IF s < RootBase(g) THEN FatPart(g, s) ELSE ZeroDir
BY Zenon DEF Goal

LEMMA GoalIs ==
  ASSUME NEW g \in Cards, NEW d \in [Sectors -> Content],
         \A s \in Sectors : s < RootBase(g) /\ (s \in {0, g.bsect} \/ FatBase(g) <= s) => d[s] = Goal(g)[s]
  PROVE  Layout(d, g) /\ Mirrors(d, g)
<1> DEFINE c == Goal(g)
           b == BootOf(g)
           mbr == Mbr
           r(s) == FatPart(g, s)
<1>1. /\ 0 \in Sectors /\ g.bsect \in Sectors /\ FatBase(g) \in Nat /\ RootBase(g) \in Nat /\ g.bsect \in {0, 1}
      /\ FatBase(g) = g.bsect + 2 /\ FatBase(g) < RootBase(g) /\ FatSize \in Nat \ {0}
      /\ g.n_fats = 2 => RootBase(g) = FatBase(g) + 2 * FatSize
      /\ Sectors \subseteq Int
  BY LowSectors, Regions, SizeOfFat DEF Cards, Sectors
<1>2. c[g.bsect] = b /\ (g.bsect # 0 => c[0] = mbr)
  BY <1>1, GoalAt
<1>7. ASSUME g.n_fats = 2, NEW s \in Sectors, InFat(g, s)
      PROVE  /\ FatBase(g) <= s /\ s < RootBase(g) /\ FatBase(g) <= s + FatSize /\ s + FatSize < RootBase(g)
             /\ s + FatSize \in Sectors
  <2> HIDE DEF c, b, mbr, r
  <2> QED BY <1>1, <1>7, Regions DEF InFat, Sectors
<1>3. \A s \in Sectors : FatBase(g) <= s /\ s < RootBase(g) => c[s] = r(s) /\ c[s].kind = "fat"
  <2>1. TAKE s \in Sectors
  <2>2. SUFFICES ASSUME FatBase(g) <= s, s < RootBase(g) PROVE c[s] = r(s) /\ r(s).kind = "fat"
    OBVIOUS
  <2>3. c[s] = r(s)
    BY <1>1, <2>2, GoalAt
  <2>4. s - FatBase(g) \in Nat
    BY <1>1, <2>2
  <2>5. (s - FatBase(g)) % FatSize \in 0..FatSize-1
    BY <2>4, ModFat
  <2>6. r(s).kind = "fat"
    BY <2>5, NewFatIs DEF FatPart
  <2> QED BY <2>3, <2>6
<1>4. Mirrors(c, g)
  <2>1. SUFFICES ASSUME g.n_fats = 2, NEW s \in Sectors, InFat(g, s) PROVE c[s + FatSize] = c[s]
    BY DEF Mirrors
  <2>2. /\ FatBase(g) <= s /\ s < RootBase(g) /\ FatBase(g) <= s + FatSize /\ s + FatSize < RootBase(g)
        /\ s + FatSize \in Sectors
    BY <1>7, <2>1
  <2>5. /\ s - FatBase(g) \in Nat
        /\ (s + FatSize) - FatBase(g) = (s - FatBase(g)) + FatSize
    BY <1>1, <2>2
  <2>3. ((s + FatSize) - FatBase(g)) % FatSize = (s - FatBase(g)) % FatSize
    BY <2>5, ModFat
  <2>4. r(s + FatSize) = r(s)
    BY <2>3 DEF FatPart
  <2> HIDE DEF c
  <2> QED BY <1>3, <2>2, <2>4
<1> HIDE DEF c, r
<1>5. Layout(d, g)
  <2>1. d[g.bsect] = b /\ (g.bsect # 0 => d[0] = mbr)
    <3>1. 0 < RootBase(g) /\ g.bsect < RootBase(g)
      BY <1>1
    <3>2. d[0] = c[0] /\ d[g.bsect] = c[g.bsect]
      BY <1>1, <3>1 DEF c
    <3> QED BY <1>2, <3>2
  <2>2. b.kind = "boot" /\ b.sig /\ b.part = 0 /\ b.type = g.type /\ b.n_fats = g.n_fats
        /\ mbr.kind = "boot" /\ mbr.sig /\ mbr.part = 1 /\ mbr.type = "none"
    BY BootIs
  <2>3. \A s \in Sectors : FatBase(g) <= s /\ s < RootBase(g) => d[s].kind = "fat"
    BY <1>3 DEF c
  <2> HIDE DEF b, mbr
  <2> QED BY <1>1, <2>1, <2>2, <2>3 DEF Layout
<1>6. Mirrors(d, g)
  <2>1. SUFFICES ASSUME g.n_fats = 2, NEW s \in Sectors, InFat(g, s) PROVE d[s + FatSize] = d[s]
    BY DEF Mirrors
  <2>2. /\ FatBase(g) <= s /\ s < RootBase(g) /\ FatBase(g) <= s + FatSize /\ s + FatSize < RootBase(g)
        /\ s + FatSize \in Sectors
    BY <1>7, <2>1
  <2>3. c[s + FatSize] = c[s]
    BY <1>4, <2>1 DEF Mirrors
  <2> QED BY <2>2, <2>3 DEF c
<1> QED BY <1>5, <1>6
LEMMA RootSpan ==
  ASSUME NEW g \in Cards
  PROVE  /\ \A s \in 1..CSize : DataBase(g) + s - 1 \in Sectors /\ RootBase(g) <= DataBase(g) + s - 1
         /\ \A s \in 1..NRoot \div DirPer : RootBase(g) + s - 1 \in Sectors /\ RootBase(g) <= RootBase(g) + s - 1
<1> DEFINE k == (NFatEnt - 2) * CSize
           r == NRoot \div DirPer
<1>1. CSize \in Nat \ {0} /\ NFatEnt - 2 \in Nat \ {0}
  BY GeometryAssumption
<1>2. CSize <= k /\ k \in Nat
  <2> DEFINE n == NFatEnt - 2
  <2>1. n \in Int /\ 1 \in Int /\ 1 <= n
    BY GeometryAssumption
  <2> HIDE DEF n
  <2>2. n * CSize \in Int /\ CSize * n = n * CSize /\ CSize * 1 <= CSize * n
    BY <1>1, <2>1, Times
  <2>3. k = n * CSize
    BY DEF n
  <2>4. CSize * 1 = CSize
    BY <1>1
  <2> HIDE DEF k
  <2> QED BY <1>1, <2>2, <2>3, <2>4
<1>3. /\ RootBase(g) \in Nat /\ DataBase(g) \in Nat /\ RootBase(g) <= DataBase(g) /\ LastSector \in Nat
      /\ DataBase(g) + k <= LastSector + 1 /\ RootBase(g) + r <= LastSector + 1 /\ r \in Nat
  BY Regions, SizeOfFat
<1> HIDE DEF k, r
<1>4. \A s \in 1..CSize : DataBase(g) + s - 1 \in Sectors /\ RootBase(g) <= DataBase(g) + s - 1
  BY <1>1, <1>2, <1>3 DEF Sectors
<1>5. \A s \in 1..r : RootBase(g) + s - 1 \in Sectors /\ RootBase(g) <= RootBase(g) + s - 1
  BY <1>1, <1>2, <1>3 DEF Sectors
<1> QED BY <1>4, <1>5 DEF r

LEMMA Singleton == ASSUME NEW S, NEW x \in S PROVE <<x>> \in Seq(S) /\ Has(<<x>>, x)
<1>1. <<x>> \in Seq(S) /\ Len(<<x>>) = 1 /\ <<x>>[1] = x
  OBVIOUS
<1>2. 1 \in 1..Len(<<x>>)
  BY <1>1
<1> QED BY <1>1, <1>2 DEF Has

LEMMA Shift ==
  ASSUME NEW a \in Nat, NEW k \in Int, NEW l \in Nat, a + k <= l + 1, NEW s \in Int, 1 <= s, s <= k
  PROVE  a + s - 1 \in 0..l /\ a <= a + s - 1 /\ a + s - 1 < a + k /\ (a + s - 1) - a = s - 1 /\ s - 1 \in Nat
OBVIOUS
LEMMA FatSectorsOf ==
  ASSUME NEW g \in Cards, NEW s \in 1..g.n_fats * FatSize
  PROVE  /\ FatBase(g) + s - 1 \in Sectors /\ FatBase(g) <= FatBase(g) + s - 1 /\ FatBase(g) + s - 1 < RootBase(g)
         /\ (FatBase(g) + s - 1) - FatBase(g) = s - 1 /\ s - 1 \in Nat
<1> DEFINE k == g.n_fats * FatSize
<1>1. FatBase(g) \in Nat /\ RootBase(g) = FatBase(g) + k /\ RootBase(g) \in Nat /\ RootBase(g) <= DataBase(g)
      /\ DataBase(g) \in Nat /\ LastSector \in Nat
  BY Regions DEF RootBase
<1>2. RootBase(g) <= LastSector + 1
  <2> DEFINE j == (NFatEnt - 2) * CSize
  <2>1. j \in Nat /\ DataBase(g) + j <= LastSector + 1
    BY Regions
  <2> HIDE DEF j, k
  <2> QED BY <1>1, <2>1
<1>3. s \in Int /\ 1 <= s /\ s <= k /\ k \in Int
  <2>1. k \in Int
    BY SizeOfFat DEF Cards
  <2> QED BY <2>1
<1> HIDE DEF k
<1>4. FatBase(g) + k <= LastSector + 1
  BY <1>1, <1>2
<1> QED BY <1>1, <1>3, <1>4, Shift DEF Sectors

(* The sequence f_mkfs writes.                                              *)
MbrPart(sfd) == IF sfd THEN <<>> ELSE << <<0, Mbr>> >>
FatsPart(g) == [s \in 1..g.n_fats * FatSize |-> <<FatBase(g) + s - 1, NewFat(g.type = "FAT32")[(s - 1) % FatSize]>>]
RootPart(g) == IF g.type = "FAT32" THEN [s \in 1..CSize |-> <<DataBase(g) + s - 1, ZeroDir>>]
               ELSE [s \in 1..NRoot \div DirPer |-> <<RootBase(g) + s - 1, ZeroDir>>]
LEMMA FormatIs ==
  ASSUME NEW g \in Cards, NEW m \in State, NEW sfd \in BOOLEAN, g.bsect = IF sfd THEN 0 ELSE 1
  PROVE  Format(m, g.type, sfd, g.n_fats) =
           MbrPart(sfd) \o << <<g.bsect, BootOf(g)>> >> \o FatsPart(g) \o RootPart(g)
<1> DEFINE v == [m EXCEPT !.bsect = IF sfd THEN 0 ELSE 1, !.type = g.type, !.n_fats = g.n_fats]
<1>1. v.bsect = g.bsect /\ v.type = g.type /\ v.n_fats = g.n_fats
  BY DEF State
<1>2. Format(m, g.type, sfd, g.n_fats) =
        MbrPart(sfd) \o << <<v.bsect, BootOf(g)>> >>
          \o [s \in 1..g.n_fats * FatSize |-> <<FatBase(v) + s - 1, NewFat(g.type = "FAT32")[(s - 1) % FatSize]>>]
          \o (IF g.type = "FAT32" THEN [s \in 1..CSize |-> <<DataBase(v) + s - 1, ZeroDir>>]
              ELSE [s \in 1..NRoot \div DirPer |-> <<RootBase(v) + s - 1, ZeroDir>>])
  BY DEF Format, MbrPart, Mbr, BootOf
<1> HIDE DEF v
<1>3. FatBase(v) = FatBase(g) /\ RootBase(v) = RootBase(g) /\ DataBase(v) = DataBase(g)
  BY <1>1, SameRegions
<1> QED BY <1>1, <1>2, <1>3 DEF FatsPart, RootPart
LEMMA PartsPlaced ==
  ASSUME NEW g \in Cards, NEW sfd \in BOOLEAN, g.bsect = IF sfd THEN 0 ELSE 1
  PROVE  /\ MbrPart(sfd) \in Seq(Placed(g)) /\ (g.bsect # 0 => Has(MbrPart(sfd), <<0, Goal(g)[0]>>))
         /\ <<g.bsect, BootOf(g)>> \in Placed(g) /\ Goal(g)[g.bsect] = BootOf(g)
<1>1. /\ 0 \in Sectors /\ g.bsect \in Sectors /\ FatBase(g) \in Nat /\ g.bsect \in {0, 1}
      /\ FatBase(g) = g.bsect + 2
  BY LowSectors, Regions DEF Cards, Sectors
<1>2. Goal(g)[g.bsect] = BootOf(g) /\ (g.bsect # 0 => Goal(g)[0] = Mbr)
  BY <1>1, GoalAt
<1>3. BootOf(g) \in Content /\ Mbr \in Content
  BY BootIs
<1>4. <<g.bsect, BootOf(g)>> \in Placed(g)
  BY <1>1, <1>2, <1>3 DEF Placed, SectorWrites
<1>5. CASE sfd
  <2>1. MbrPart(sfd) = <<>> /\ g.bsect = 0
    BY <1>5 DEF MbrPart
  <2> QED BY <1>2, <1>4, <2>1
<1>6. CASE ~sfd
  <2>1. MbrPart(sfd) = << <<0, Mbr>> >> /\ g.bsect = 1
    BY <1>6 DEF MbrPart
  <2>2. <<0, Mbr>> \in Placed(g)
    BY <1>1, <1>2, <1>3, <2>1 DEF Placed, SectorWrites
  <2>3. << <<0, Mbr>> >> \in Seq(Placed(g)) /\ Has(<< <<0, Mbr>> >>, <<0, Mbr>>)
    BY <2>2, Singleton
  <2> QED BY <1>2, <1>4, <2>1, <2>3
<1> QED BY <1>5, <1>6

LEMMA FatsPlaced ==
  ASSUME NEW g \in Cards
  PROVE  /\ FatsPart(g) \in Seq(Placed(g))
         /\ \A s \in Sectors : FatBase(g) <= s /\ s < RootBase(g) => Has(FatsPart(g), <<s, Goal(g)[s]>>)
<1> DEFINE n == g.n_fats * FatSize
           f == FatsPart(g)
<1>1. n \in Nat /\ RootBase(g) = FatBase(g) + n /\ FatBase(g) \in Nat
  BY SizeOfFat, Regions DEF Cards, RootBase
<1>2. \A s \in 1..n : f[s] = <<FatBase(g) + s - 1, Goal(g)[FatBase(g) + s - 1]>> /\ f[s] \in Placed(g)
  <2>1. TAKE s \in 1..n
  <2> DEFINE t == FatBase(g) + s - 1
             x == NewFat(g.type = "FAT32")[(s - 1) % FatSize]
  <2>2. t \in Sectors /\ FatBase(g) <= t /\ t < RootBase(g) /\ t - FatBase(g) = s - 1 /\ s - 1 \in Nat
    BY FatSectorsOf
  <2>3. f[s] = <<t, x>>
    BY DEF FatsPart
  <2>4. x = FatPart(g, t)
    BY <2>2 DEF FatPart
  <2>5. (s - 1) % FatSize \in 0..FatSize-1
    BY <2>2, ModFat
  <2>6. x \in Content
    BY <2>5, NewFatIs
  <2> HIDE DEF f, x, n
  <2>8. FatBase(g) \in Int /\ t \in Int
    BY <1>1, <2>2 DEF Sectors
  <2> HIDE DEF t
  <2>7. Goal(g)[t] = x
    BY <2>2, <2>4, <2>8, GoalAt
  <2> QED BY <2>2, <2>3, <2>6, <2>7 DEF Placed, SectorWrites, t
<1>3. f = [s \in 1..n |-> f[s]]
  BY DEF FatsPart
<1> HIDE DEF f
<1>4. f \in [1..n -> Placed(g)]
  BY <1>2, <1>3
<1> HIDE DEF n
<1>5. f \in Seq(Placed(g)) /\ Len(f) = n
  BY <1>1, <1>4, Sequence, LenProperties
<1>6. ASSUME NEW s \in Sectors, FatBase(g) <= s, s < RootBase(g) PROVE Has(f, <<s, Goal(g)[s]>>)
  <2> DEFINE i == s - FatBase(g) + 1
  <2>1. i \in 1..n /\ FatBase(g) + i - 1 = s
    BY <1>1, <1>6 DEF Sectors
  <2> HIDE DEF i
  <2>2. f[i] = <<s, Goal(g)[s]>>
    BY <1>2, <2>1
  <2> QED BY <1>5, <2>1, <2>2 DEF Has
<1> QED BY <1>5, <1>6 DEF f

LEMMA RootPlaced ==
  ASSUME NEW g \in Cards
  PROVE  RootPart(g) \in Seq(Placed(g))
<1> DEFINE a == [s \in 1..CSize |-> <<DataBase(g) + s - 1, ZeroDir>>]
           b == [s \in 1..NRoot \div DirPer |-> <<RootBase(g) + s - 1, ZeroDir>>]
<1>1. \A t \in Sectors : RootBase(g) <= t => <<t, ZeroDir>> \in Placed(g)
  <2>1. TAKE t \in Sectors
  <2>2. SUFFICES ASSUME RootBase(g) <= t PROVE <<t, ZeroDir>> \in Placed(g)
    OBVIOUS
  <2>3. RootBase(g) \in Nat /\ FatBase(g) \in Nat /\ FatBase(g) <= RootBase(g) /\ t \in Int
    BY Regions, SizeOfFat DEF Sectors
  <2>4. Goal(g)[t] = ZeroDir
    BY <2>2, <2>3, GoalAt
  <2> QED BY <2>4, ZeroIs DEF Placed, SectorWrites
<1>2. CSize \in Int /\ NRoot \div DirPer \in Int
  BY SizeOfFat, GeometryAssumption
<1>3. a \in [1..CSize -> Placed(g)] /\ b \in [1..NRoot \div DirPer -> Placed(g)]
  BY <1>1, RootSpan
<1> HIDE DEF a, b
<1>4. a \in Seq(Placed(g)) /\ b \in Seq(Placed(g))
  BY <1>2, <1>3, Sequence
<1> QED BY <1>4 DEF RootPart, a, b

(* What a card holds once everything of the format has been written.        *)
LEMMA FormatOk ==
  ASSUME NEW g \in Cards, NEW m \in State, NEW sfd \in BOOLEAN, g.bsect = IF sfd THEN 0 ELSE 1, m.left = 0
  PROVE  LET a == WriteAll(m, Format(m, g.type, sfd, g.n_fats)) IN
         a \in State /\ a.left = 0 /\ a.res = "OK" /\ Layout(a.disk, g) /\ Mirrors(a.disk, g)
<1> DEFINE b == << <<g.bsect, BootOf(g)>> >>
           s1 == MbrPart(sfd) \o b
           s2 == s1 \o FatsPart(g)
           s == s2 \o RootPart(g)
           a == WriteAll(m, Format(m, g.type, sfd, g.n_fats))
           c == Goal(g)
<1>1. Format(m, g.type, sfd, g.n_fats) = s
  BY FormatIs
<1>2. /\ MbrPart(sfd) \in Seq(Placed(g)) /\ (g.bsect # 0 => Has(MbrPart(sfd), <<0, c[0]>>))
      /\ b \in Seq(Placed(g)) /\ Has(b, <<g.bsect, c[g.bsect]>>)
  <2>1. <<g.bsect, BootOf(g)>> \in Placed(g) /\ c[g.bsect] = BootOf(g)
    BY PartsPlaced
  <2>2. b \in Seq(Placed(g)) /\ Has(b, <<g.bsect, BootOf(g)>>)
    BY <2>1, Singleton
  <2> HIDE DEF b, c
  <2> QED BY <2>1, <2>2, PartsPlaced DEF c
<1>3. /\ FatsPart(g) \in Seq(Placed(g)) /\ RootPart(g) \in Seq(Placed(g))
      /\ \A t \in Sectors : FatBase(g) <= t /\ t < RootBase(g) => Has(FatsPart(g), <<t, c[t]>>)
  BY FatsPlaced, RootPlaced
<1> HIDE DEF b, c
<1>4. /\ s1 \in Seq(Placed(g)) /\ Has(s1, <<g.bsect, c[g.bsect]>>) /\ (g.bsect # 0 => Has(s1, <<0, c[0]>>))
  BY <1>2, ConcatProperties, HasConcat
<1> HIDE DEF s1
<1>5. /\ s2 \in Seq(Placed(g)) /\ Has(s2, <<g.bsect, c[g.bsect]>>) /\ (g.bsect # 0 => Has(s2, <<0, c[0]>>))
      /\ \A t \in Sectors : FatBase(g) <= t /\ t < RootBase(g) => Has(s2, <<t, c[t]>>)
  BY <1>3, <1>4, ConcatProperties, HasConcat
<1> HIDE DEF s2
<1>6. /\ s \in Seq(Placed(g)) /\ Has(s, <<g.bsect, c[g.bsect]>>) /\ (g.bsect # 0 => Has(s, <<0, c[0]>>))
      /\ \A t \in Sectors : FatBase(g) <= t /\ t < RootBase(g) => Has(s, <<t, c[t]>>)
  BY <1>3, <1>5, ConcatProperties, HasConcat
<1> HIDE DEF s
<1>7. s \in Seq(SectorWrites) /\ \A k \in 1..Len(s) : s[k][2] = c[s[k][1]]
  <2>1. Len(s) \in Nat /\ s \in [1..Len(s) -> Placed(g)]
    BY <1>6, LenProperties
  <2>2. \A k \in 1..Len(s) : s[k] \in Placed(g)
    BY <2>1
  <2>3. \A k \in 1..Len(s) : s[k] \in SectorWrites /\ s[k][2] = c[s[k][1]]
    BY <2>2 DEF Placed, c
  <2>4. s \in [1..Len(s) -> SectorWrites]
    BY <2>1, <2>3
  <2> QED BY <2>1, <2>3, <2>4, Sequence
<1>8. a \in State /\ a.left = 0 /\ a.res = "OK" /\ \A k \in 1..Len(s) : a.disk[s[k][1]] = s[k][2]
  BY <1>1, <1>7, WriteAllOk
<1> HIDE DEF a
<1>9. \A t : Has(s, <<t, c[t]>>) => a.disk[t] = c[t]
  <2>1. SUFFICES ASSUME NEW t, NEW k \in 1..Len(s), s[k] = <<t, c[t]>> PROVE a.disk[t] = c[t]
    BY DEF Has
  <2>2. s[k][1] = t /\ s[k][2] = c[t]
    BY <2>1
  <2> QED BY <1>8, <2>2
<1>10. \A t \in Sectors : t < RootBase(g) /\ (t \in {0, g.bsect} \/ FatBase(g) <= t) => a.disk[t] = c[t]
  BY <1>6, <1>9
<1>11. a.disk \in [Sectors -> Content]
  BY <1>8 DEF State
<1>12. Layout(a.disk, g) /\ Mirrors(a.disk, g)
  BY <1>10, <1>11, GoalIs DEF c
<1> QED BY <1>8, <1>12 DEF a

-----------------------------------------------------------------------------
(* Power on, and f_mkfs.                                                   *)

LEMMA NoDirOk == NoDir \in DirObjects /\ NoDir.sect = 0
<1> DEFINE n == ""
           fn == [name |-> n, last |-> FALSE, dot |-> FALSE]
           j == [sclust |-> 0, index |-> 0, clust |-> 0, sect |-> 0, dir |-> 0, fn |-> fn, open |-> FALSE, id |-> 0]
<1>1. n \in Spellings
  BY Zenon DEF Spellings
<1>2. NoDir = j
  BY DEF NoDir
<1> HIDE DEF n
<1>3. fn \in [name : Spellings, last : BOOLEAN, dot : BOOLEAN]
  BY <1>1
<1> HIDE DEF fn
<1>4. 0 \in -1..DirPer-1
  BY GeometryAssumption
<1>5. j \in DirObjects /\ j.sect = 0
  BY <1>3, <1>4 DEF DirObjects
<1> QED BY <1>2, <1>5

LEMMA PowerOnOk ==
  ASSUME NEW d \in [Sectors -> Content]
  PROVE  LET m == PowerOn(d) IN
         /\ m \in State /\ m.left = 0 /\ ~m.failed /\ m.disk = d /\ m.type = "none" /\ m.winsect = 0 /\ ~m.wflag
         /\ m.dj = NoDir /\ m.f = Closed
<1>1. NoDir \in DirObjects /\ NoInfo \in Infos
  BY NoDirOk, NoInfoOk
<1>2. Closed \in FileObjects
  BY DEF Closed, FileObjects
<1>3. ZeroDir \in Content
  BY ZeroIs
<1>4. <<>> \in Bufs /\ <<>> \in Seq(Spellings \cup (Int \X Content))
  BY EmptySeq DEF Bufs
<1>5. PowerOn(d) \in State
  BY <1>1, <1>2, <1>3, <1>4 DEF PowerOn, State, Kinds, Results
<1> QED BY <1>5 DEF PowerOn

SetPowered(m) == [m EXCEPT !.ready = TRUE]
LEMMA InitializeState ==
  ASSUME NEW m \in State, m.left = 0
  PROVE  LET a == disk_initialize(m) IN
         a \in State /\ a.left = 0 /\ a.failed = m.failed /\ a.ready /\ a.disk = m.disk /\ a.type = m.type
         /\ a.winsect = m.winsect /\ a.wflag = m.wflag /\ a.dj = m.dj /\ a.f = m.f
<1> DEFINE s == Spent(m)
           o == Ok(s)
           a == SetPowered(o)
<1>1. s \in State /\ Beside(m, s) /\ s.left = 0 /\ s.disk = m.disk /\ s.winsect = m.winsect
      /\ s.wflag = m.wflag /\ s.failed = (m.failed \/ m.left = 1)
  BY Spends
<1>9. m.failed \in BOOLEAN /\ s.failed \in BOOLEAN
  BY <1>1 DEF State
<1> HIDE DEF s
<1>2. /\ o \in State /\ o.left = 0 /\ o.failed = s.failed /\ o.disk = s.disk /\ o.type = s.type
      /\ o.winsect = s.winsect /\ o.wflag = s.wflag /\ o.dj = s.dj /\ o.f = s.f
  BY <1>1 DEF Ok, State, Results
<1>3. disk_initialize(m) = [o EXCEPT !.ready = @ \/ ~Fails(m)]
  BY DEF disk_initialize, disk_ioctl, Fails, s, o
<1> HIDE DEF o
<1>4. [o EXCEPT !.ready = @ \/ ~Fails(m)] = a
  <2> DEFINE r == o.ready \/ ~Fails(m)
  <2>1. r = TRUE
    BY <1>2 DEF Fails, State
  <2>2. [o EXCEPT !.ready = @ \/ ~Fails(m)] = [o EXCEPT !.ready = r]
    BY <1>2 DEF State
  <2> HIDE DEF r
  <2> QED BY <2>1, <2>2 DEF SetPowered
<1>5. /\ a \in State /\ a.left = 0 /\ a.failed = s.failed /\ a.ready /\ a.disk = s.disk /\ a.type = s.type
      /\ a.winsect = s.winsect /\ a.wflag = s.wflag /\ a.dj = s.dj /\ a.f = s.f
  BY <1>2 DEF State, SetPowered
<1> HIDE DEF a
<1>6. s.type = m.type /\ s.dj = m.dj /\ s.f = m.f
  BY <1>1 DEF Beside, Keeps
<1>7. s.failed = m.failed
  BY <1>1, <1>9
<1>8. disk_initialize(m) = a
  BY <1>3, <1>4
<1> QED BY <1>1, <1>5, <1>6, <1>7, <1>8

LEMMA InfoWritten ==
  ASSUME NEW g \in Cards, NEW m \in State, m.left = 0, Layout(m.disk, g), Mirrors(m.disk, g)
  PROVE  LET a == disk_ioctl(disk_write([m EXCEPT !.win = NewInfo], g.bsect + 1, NewInfo)) IN
         a \in State /\ a.left = 0 /\ Layout(a.disk, g) /\ Mirrors(a.disk, g)
<1> DEFINE x == [m EXCEPT !.win = NewInfo]
           w == disk_write(x, g.bsect + 1, NewInfo)
           s == Spent(w)
           a == Ok(s)
           d == m.disk
           e == [d EXCEPT ![g.bsect + 1] = NewInfo]
<1>1. NewInfo \in Content
  BY GeometryAssumption DEF NewInfo, InfoSector, Content, InfoContent
<1> HIDE DEF NewInfo
<1>2. x \in State /\ x.left = 0 /\ x.disk = d /\ d \in [Sectors -> Content]
  BY <1>1 DEF State
<1> HIDE DEF x
<1>3. g.bsect + 1 \in Sectors /\ FatBase(g) = g.bsect + 2 /\ g.bsect \in {0, 1} /\ 0 \in Sectors /\ g.bsect \in Sectors
      /\ FatBase(g) \in Nat /\ Sectors \subseteq Int
  BY LowSectors, Regions DEF Cards, Sectors
<1>4. w \in State /\ w.left = 0 /\ w.disk = e
  BY <1>1, <1>2, <1>3, DiskWrite
<1> HIDE DEF w
<1>5. s \in State /\ s.left = 0 /\ s.disk = e
  BY <1>4, Spends
<1> HIDE DEF s
<1>6. a \in State /\ a.left = 0 /\ a.disk = e
  BY <1>5 DEF Ok, State, Results
<1>7. disk_ioctl(w) = a
  BY <1>4 DEF disk_ioctl, Fails, s
<1> HIDE DEF a, d
<1>8. \A t \in Sectors : t # g.bsect + 1 => e[t] = d[t]
  BY <1>2
<1> HIDE DEF e
<1>9. Layout(e, g)
  <2>1. e[0] = d[0] /\ e[g.bsect] = d[g.bsect]
    BY <1>3, <1>8
  <2>2. ASSUME NEW t \in Sectors, FatBase(g) <= t, t < RootBase(g) PROVE e[t].kind = "fat"
    <3>1. e[t] = d[t]
      BY <1>3, <1>8, <2>2
    <3> QED BY <2>2, <3>1 DEF Layout, d
  <2>3. Layout(d, g)
    BY DEF d
  <2> QED BY <2>1, <2>2, <2>3 DEF Layout
<1>10. Mirrors(e, g)
  <2>1. SUFFICES ASSUME g.n_fats = 2, NEW t \in Sectors, InFat(g, t) PROVE e[t + FatSize] = e[t]
    BY DEF Mirrors
  <2>2. FatBase(g) <= t /\ FatBase(g) <= t + FatSize /\ t + FatSize \in Sectors
    BY <1>3, <2>1, Regions, SizeOfFat DEF InFat, Sectors
  <2>3. d[t + FatSize] = d[t]
    BY <2>1 DEF Mirrors, d
  <2>4. t # g.bsect + 1 /\ t + FatSize # g.bsect + 1
    BY <1>3, <2>2
  <2> QED BY <1>8, <2>2, <2>3, <2>4
<1> QED BY <1>6, <1>7, <1>9, <1>10 DEF w, x

LEMMA FMkfs ==
  ASSUME NEW g \in Cards, g.n_fats = 1, NEW m \in State, m.left = 0,
         NEW sfd \in BOOLEAN, g.bsect = IF sfd THEN 0 ELSE 1
  PROVE  LET a == f_mkfs(m, g.type, sfd) IN
         a \in State /\ a.left = 0 /\ Layout(a.disk, g) /\ Mirrors(a.disk, g)
<1> DEFINE x == [m EXCEPT !.type = "none"]
           a == disk_initialize(x)
           b == WriteAll(a, Format(a, g.type, sfd, 1))
           z == disk_ioctl(b)
           y == disk_ioctl(disk_write([b EXCEPT !.win = NewInfo], g.bsect + 1, NewInfo))
<1>1. x \in State /\ x.left = 0
  BY DEF State, Kinds
<1> HIDE DEF x
<1>2. a \in State /\ a.left = 0 /\ a.ready
  BY <1>1, InitializeState
<1> HIDE DEF a
<1>3. b \in State /\ b.left = 0 /\ b.res = "OK" /\ Layout(b.disk, g) /\ Mirrors(b.disk, g)
  BY <1>2, FormatOk
<1> HIDE DEF b
<1>4. f_mkfs(m, g.type, sfd) = IF g.type = "FAT32" THEN y ELSE z
  <2>1. (IF sfd THEN 1 ELSE 2) = g.bsect + 1
    OBVIOUS
  <2>2. f_mkfs(m, g.type, sfd) = disk_ioctl(IF g.type # "FAT32" THEN b
                 ELSE disk_write([b EXCEPT !.win = NewInfo], IF sfd THEN 1 ELSE 2, NewInfo))
    BY <1>2, <1>3 DEF f_mkfs, After, Then, a, b, x
  <2> QED BY <2>1, <2>2
<1>5. y \in State /\ y.left = 0 /\ Layout(y.disk, g) /\ Mirrors(y.disk, g)
  BY <1>3, InfoWritten
<1>6. z \in State /\ z.left = 0 /\ Layout(z.disk, g) /\ Mirrors(z.disk, g)
  <2> DEFINE s == Spent(b)
             o == Ok(s)
  <2>1. s \in State /\ s.left = 0 /\ s.disk = b.disk
    BY <1>3, Spends
  <2>2. z = o
    BY <1>3 DEF disk_ioctl, Fails
  <2> HIDE DEF s, z
  <2>3. o \in State /\ o.left = 0 /\ o.disk = s.disk
    BY <2>1 DEF Ok, State, Results
  <2> HIDE DEF o
  <2> QED BY <1>3, <2>1, <2>2, <2>3
<1> HIDE DEF y, z
<1> QED BY <1>4, <1>5, <1>6

-----------------------------------------------------------------------------
(* A call has returned; a card is registered.                              *)

(* Between two calls the registers of the call are at rest.                 *)
LEMMA RestOk ==
  ASSUME NEW g \in Cards, NEW m \in Work(g)
  PROVE  LET a == Rest(m) IN
         a \in Work(g) /\ a.left = 0 /\ ~a.failed /\ a.disk = m.disk
<1> DEFINE a == Rest(m)
<1>0. m \in State
  BY DEF Work
<1>1. NoDir \in DirObjects /\ NoInfo \in Infos
  BY NoDirOk, NoInfoOk
<1>2. Closed \in FileObjects /\ FileOk(Closed, g)
  BY ClosedOk
<1>4. <<>> \in Bufs /\ <<>> \in Seq(Spellings \cup (Int \X Content))
  BY EmptySeq DEF Bufs
<1>5. a \in State
  <2> DEFINE none == <<>>
             z == 0
             ok == "OK"
  <2>1. none \in Bufs /\ none \in Seq(Spellings \cup (Int \X Content)) /\ ok \in Results /\ z \in Int
    BY <1>4 DEF Results
  <2> DEFINE b == [m EXCEPT !.left = 0, !.cut = FALSE, !.failed = FALSE, !.res = ok,
                            !.val = z, !.cur = z, !.cnt = z, !.stop = FALSE]
             c == [b EXCEPT !.dj = NoDir, !.f = Closed, !.buf = none, !.want = z, !.path = none, !.info = NoInfo]
  <2>3. Closed \in FileObjects
    BY <1>2
  <2>2. a = [m EXCEPT !.left = 0, !.cut = FALSE, !.failed = FALSE, !.res = ok,
              !.val = z, !.cur = z, !.cnt = z, !.stop = FALSE, !.dj = NoDir,
              !.f = Closed, !.buf = none, !.want = z, !.path = none, !.info = NoInfo]
    BY DEF Rest
  <2>4. a = c
    BY <1>0, <2>2 DEF State
  <2> HIDE DEF none, ok, a, z
  <2>5. b \in State
    <3> DEFINE b1 == [m EXCEPT !.left = 0, !.cut = FALSE]
               b2 == [b1 EXCEPT !.failed = FALSE, !.res = ok]
               b3 == [b2 EXCEPT !.val = z, !.cur = z, !.cnt = z, !.stop = FALSE]
    <3>1. b = b3
      BY <1>0 DEF State
    <3>2. b1 \in State
      BY <1>0 DEF State
    <3> HIDE DEF b1, b
    <3>3. b2 \in State
      BY <2>1, <3>2 DEF State
    <3> HIDE DEF b2
    <3>4. b3 \in State
      BY <2>1, <3>3 DEF State
    <3> QED BY <3>1, <3>4
  <2> HIDE DEF b
  <2>6. c \in State
    <3> DEFINE b1 == [b EXCEPT !.dj = NoDir, !.f = Closed]
               b2 == [b1 EXCEPT !.buf = none, !.want = z]
               b3 == [b2 EXCEPT !.path = none, !.info = NoInfo]
    <3>1. c = b3
      BY <2>5 DEF State
    <3>2. b1 \in State
      BY <1>1, <2>3, <2>5 DEF State
    <3> HIDE DEF b1, c
    <3>3. b2 \in State
      BY <2>1, <3>2 DEF State
    <3> HIDE DEF b2
    <3>4. b3 \in State
      BY <1>1, <2>1, <3>3 DEF State
    <3> QED BY <3>1, <3>4
  <2> QED BY <2>4, <2>6
<1>6. /\ a.disk = m.disk /\ a.winsect = m.winsect /\ a.win = m.win /\ a.wflag = m.wflag
      /\ a.type = m.type /\ a.bsect = m.bsect /\ a.n_fats = m.n_fats /\ a.ready = m.ready
      /\ a.left = 0 /\ ~a.failed /\ a.dj = NoDir /\ a.f = Closed
  BY <1>0 DEF Rest, State
<1> HIDE DEF a
<1>7. DirOk(a.dj, g)
  BY <1>6, NoDirOk DEF DirOk
<1>8. a \in Work(g)
  BY <1>2, <1>5, <1>6, <1>7 DEF Work, Card, WindowOk, Seen, Mount, Quiet
<1> QED BY <1>6, <1>8 DEF a

LEMMA FileInit ==
  ASSUME NEW g \in Cards, ~g.still, NEW d \in [Sectors -> Content], DiskOk(d, g)
  PROVE  LET a == file_init(d) IN
         a \in Work(g) /\ a.left = 0 /\ ~a.failed /\ a.disk = d
<1> DEFINE p == PowerOn(d)
           b == disk_initialize(p)
           a == [Ok(b) EXCEPT !.type = "none"]
<1>1. /\ p \in State /\ p.left = 0 /\ ~p.failed /\ p.disk = d /\ p.type = "none" /\ p.winsect = 0 /\ ~p.wflag
      /\ p.dj = NoDir /\ p.f = Closed
  BY PowerOnOk
<1> HIDE DEF p
<1>2. /\ b \in State /\ b.left = 0 /\ ~b.failed /\ b.disk = d /\ b.type = "none" /\ b.winsect = 0 /\ ~b.wflag
      /\ b.dj = NoDir /\ b.f = Closed
  BY <1>1, InitializeState
<1>3. file_init(d) = a
  BY DEF file_init, f_mount, p, b
<1> HIDE DEF b
<1>4. a \in State
  BY <1>2 DEF Ok, State, Results, Kinds
<1>5. /\ a.left = 0 /\ ~a.failed /\ a.disk = d /\ a.type = "none" /\ a.winsect = 0 /\ ~a.wflag
      /\ a.dj = NoDir /\ a.f = Closed
  BY <1>2 DEF Ok, State
<1> HIDE DEF a
<1>6. DirOk(a.dj, g) /\ FileOk(a.f, g)
  BY <1>5, NoDirOk, ClosedOk DEF DirOk
<1>7. WindowOk(a, g)
  <2>1. FatBase(g) \in Nat /\ FatBase(g) > 0 /\ 0 \in Sectors /\ FatSize \in Nat
    BY LowSectors, SizeOfFat
  <2> QED BY <1>5, <2>1 DEF WindowOk, Copy
<1>8. a \in Work(g)
  BY <1>4, <1>5, <1>6, <1>7 DEF Work, Card, Seen, Mount, Quiet
<1> QED BY <1>3, <1>5, <1>8 DEF a

(* The cards at the start.                                                  *)
CardOf(v) == [bsect |-> IF v.sfd THEN 0 ELSE 1, type |-> v.type, n_fats |-> v.n_fats,
              quiet |-> TRUE, still |-> FALSE, view |-> [s \in Sectors |-> ZeroDir]]
LEMMA FormattedOk ==
  ASSUME NEW v, v.sfd \in BOOLEAN, v.type \in {"FAT16", "FAT32"}, v.n_fats \in {1, 2}
  PROVE  LET d == Formatted(v).disk IN
         CardOf(v) \in Cards /\ d \in [Sectors -> Content] /\ DiskOk(d, CardOf(v))
<1> DEFINE g == CardOf(v)
           h == [g EXCEPT !.n_fats = 1]
           d0 == [s \in 0..LastSector |-> AsData(ZeroDir)]
           p == PowerOn(d0)
           m == f_mkfs(p, v.type, v.sfd)
           w == WriteAll(m, Format(m, v.type, v.sfd, v.n_fats))
<1>1. g \in Cards /\ g.n_fats = v.n_fats /\ g.type = v.type /\ g.bsect = IF v.sfd THEN 0 ELSE 1
  BY ZeroIs DEF CardOf, Cards
<1> HIDE DEF g
<1>2. h \in Cards /\ h.n_fats = 1 /\ h.type = v.type /\ h.bsect = g.bsect
  BY <1>1 DEF Cards
<1> HIDE DEF h
<1>3. d0 \in [Sectors -> Content]
  <2>1. AsData(ZeroDir) \in Content
    BY ZeroIs DEF AsData, DataSector, Content, DataContent
  <2> QED BY <2>1 DEF Sectors
<1>4. Formatted(v) = IF v.n_fats = 1 THEN m ELSE w
  BY DEF Formatted, After
<1> HIDE DEF d0
<1>5. p \in State /\ p.left = 0
  BY <1>3, PowerOnOk
<1> HIDE DEF p
<1>6. m \in State /\ m.left = 0 /\ Layout(m.disk, h) /\ Mirrors(m.disk, h)
  <2>1. LET a == f_mkfs(p, h.type, v.sfd) IN a \in State /\ a.left = 0 /\ Layout(a.disk, h) /\ Mirrors(a.disk, h)
    BY <1>1, <1>2, <1>5, FMkfs
  <2> QED BY <1>2, <2>1
<1> HIDE DEF m
<1>7. w \in State /\ w.left = 0 /\ Layout(w.disk, g) /\ Mirrors(w.disk, g)
  <2>1. LET a == WriteAll(m, Format(m, g.type, v.sfd, g.n_fats)) IN
        a \in State /\ a.left = 0 /\ a.res = "OK" /\ Layout(a.disk, g) /\ Mirrors(a.disk, g)
    BY <1>1, <1>6, FormatOk
  <2> QED BY <1>1, <2>1
<1> HIDE DEF w
<1>8. v.n_fats = 1 => Layout(m.disk, g) /\ Mirrors(m.disk, g)
  <2>1. SUFFICES ASSUME v.n_fats = 1 PROVE Layout(m.disk, g) /\ Mirrors(m.disk, g)
    OBVIOUS
  <2>2. RootBase(h) = RootBase(g) /\ FatBase(h) = FatBase(g)
    BY <1>1, <1>2, <2>1 DEF RootBase, FatBase
  <2> QED BY <1>1, <1>2, <1>6, <2>1, <2>2 DEF Layout, Mirrors
<1> DEFINE f == Formatted(v)
<1>9. f \in State /\ Layout(f.disk, g) /\ Mirrors(f.disk, g)
  BY <1>4, <1>6, <1>7, <1>8
<1> HIDE DEF f
<1>10. f.disk \in [Sectors -> Content] /\ DiskOk(f.disk, g)
  BY <1>9 DEF DiskOk, State
<1> QED BY <1>1, <1>10 DEF g, f

-----------------------------------------------------------------------------
(* A card is filled.                                                       *)

(* A card that the calls of the library have filled, files left open.       *)
ItemOk(it) == it.path \in Paths /\ (it.is # "dir" => it.b \in Ints)
JobOk(job) == job.path \in Paths /\ job.b \in Ints
VolumeOk(v) ==
  /\ v.sfd \in BOOLEAN /\ v.type \in {"FAT16", "FAT32"} /\ v.n_fats \in {1, 2}
  /\ Len(v.items) \in Nat /\ \A i \in 1..Len(v.items) : ItemOk(v.items[i])
  /\ Len(v.opened) \in Nat /\ \A i \in 1..Len(v.opened) : JobOk(v.opened[i])

LEMMA StoredOk ==
  ASSUME CSize > 1, NEW g \in Cards, ~g.still, NEW m \in Work(g), NEW it, ItemOk(it)
  PROVE  Store(m, it) \in Work(g)
<1> DEFINE mode == {"W", "ALWAYS"}
           a == f_open(m, it.path, mode)
           b == f_write(a, it.b)
           c == f_close(b)
           d == f_mkdir(m, it.path)
<1>1. Store(m, it) = IF it.is = "dir" THEN d ELSE c
  BY DEF Store
<1>2. it.path \in Paths /\ (it.is # "dir" => it.b \in Ints)
  BY DEF ItemOk
<1> HIDE DEF mode
<1>3. d \in Work(g)
  BY <1>2, FMkdir
<1>4. a \in Work(g)
  BY <1>2, FOpen
<1> HIDE DEF a, d
<1>5. it.is # "dir" => b \in Work(g)
  BY <1>2, <1>4, FWrite
<1> HIDE DEF b
<1>6. it.is # "dir" => c \in Work(g)
  BY <1>5, FClose
<1> HIDE DEF c
<1> QED BY <1>1, <1>3, <1>6

LEMMA FilledOk ==
  ASSUME CSize > 1, NEW v, VolumeOk(v)
  PROVE  LET d == Filled(v) IN
         CardOf(v) \in Cards /\ d \in [Sectors -> Content] /\ DiskOk(d, CardOf(v))
<1> DEFINE g == CardOf(v)
           M == Work(g)
           n == Len(v.items)
           it(i) == v.items[i]
           x0 == file_init(Formatted(v).disk)
           step == [i \in 1..n |-> [y \in M |-> Store(y, it(i))]]
           put == CHOOSE f : f = [i \in 0..n |-> IF i = 0 THEN x0 ELSE Store(f[i-1], it(i))]
<1>0. n \in Nat /\ \A i \in 1..n : ItemOk(it(i))
  BY DEF VolumeOk
<1>1. g \in Cards /\ Formatted(v).disk \in [Sectors -> Content] /\ DiskOk(Formatted(v).disk, g)
  BY FormattedOk DEF VolumeOk
<1>2. ~g.still /\ g.quiet
  BY DEF CardOf
<1>9. Filled(v) = put[n].disk
  BY DEF Filled
<1> HIDE DEF g, n, it
<1>3. x0 \in M
  BY <1>1, <1>2, FileInit
<1> HIDE DEF x0
<1>4. \A i \in 1..n : \A y \in M : Store(y, it(i)) \in M
  <2>1. TAKE i \in 1..n
  <2>2. TAKE y \in M
  <2> DEFINE w == it(i)
  <2>3. ItemOk(w)
    BY <1>0, <2>1
  <2> HIDE DEF w
  <2>4. Store(y, w) \in M
    BY <1>1, <1>2, <2>2, <2>3, StoredOk
  <2> QED BY <2>4 DEF w
<1> HIDE DEF M
<1>5. step \in [1..n -> [M -> M]]
  BY <1>4
<1>6. PICK f \in [0..n -> M] : f = [i \in 0..n |-> IF i = 0 THEN x0 ELSE step[i][f[i-1]]]
  <2> HIDE DEF step
  <2> QED BY <1>0, <1>3, <1>5, Runs
<1>7. f = [i \in 0..n |-> IF i = 0 THEN x0 ELSE Store(f[i-1], it(i))]
  <2>1. ASSUME NEW i \in 0..n, i # 0 PROVE step[i][f[i-1]] = Store(f[i-1], it(i))
    <3>1. i \in 1..n /\ i - 1 \in 0..n
      BY <1>0, <2>1
    <3>2. f[i-1] \in M
      BY <1>6, <3>1
    <3> DEFINE y == f[i-1]
    <3>3. y \in M
      BY <3>2
    <3> HIDE DEF y
    <3>4. step[i][y] = Store(y, it(i))
      BY <3>1, <3>3
    <3> HIDE DEF step
    <3> QED BY <3>4 DEF y
  <2> HIDE DEF step
  <2>2. \A i \in 0..n : f[i] = IF i = 0 THEN x0 ELSE step[i][f[i-1]]
    BY <1>6
  <2> QED BY <1>6, <2>1, <2>2
<1>8. put = [i \in 0..n |-> IF i = 0 THEN x0 ELSE Store(put[i-1], it(i))]
  BY <1>7
<1> HIDE DEF put, step
<1> DEFINE G == [i \in 0..n |-> M]
<1>10. put[n] \in G[n]
  <2>1. put[0] \in G[0]
    BY <1>0, <1>3, <1>8
  <2>2. ASSUME NEW i \in 1..n, put[i-1] \in G[i-1] PROVE put[i] \in G[i]
    <3>1. i \in 0..n /\ i # 0 /\ i - 1 \in 0..n
      BY <1>0
    <3>2. put[i] = Store(put[i-1], it(i)) /\ put[i-1] \in M
      BY <1>8, <2>2, <3>1
    <3> QED BY <1>4, <3>1, <3>2
  <2> HIDE DEF G
  <2> QED BY <1>0, <2>1, <2>2, Always
<1>11. put[n] \in Work(g)
  BY <1>0, <1>10 DEF M
<1> DEFINE z == put[n]
<1> HIDE DEF z
<1>12. z \in Work(g)
  BY <1>11 DEF z
<1>13. z.disk \in [Sectors -> Content] /\ DiskOk(z.disk, g)
  BY <1>12 DEF Work, Card, State
<1> QED BY <1>1, <1>9, <1>13 DEF g, z

-----------------------------------------------------------------------------
(* Files are left open.                                                    *)

Objects(g) == {f \in FileObjects : FileOk(f, g)}
OpenStep(z, job) ==
  LET o == Begun(z, f_open(z.m, job.path, job.mode), job) IN HalfDone(o, f_write(o.m, job.b))
OpenedOk(z, g) == z.m \in Work(g) /\ z.m.left = 0 /\ ~z.m.failed /\ z.f \in Seq(Objects(g))
LEMMA OpenStepOk ==
  ASSUME NEW g \in Cards, ~g.still, NEW z, OpenedOk(z, g), NEW job, JobOk(job)
  PROVE  OpenedOk(OpenStep(z, job), g)
<1> DEFINE m == f_open(z.m, job.path, job.mode)
           w == f_write(m, job.b)
           r == Rest(w)
           was == Append(z.was, Bytewise(View(m), CHOOSE e \in Lookup(View(m), job.path) : TRUE))
           o == [m |-> m, f |-> z.f, was |-> was]
           q == Append(z.f, w.f)
           a == [o EXCEPT !.m = r, !.f = Append(@, w.f)]
<1>1. job.path \in Paths /\ job.b \in Ints /\ z.m \in Work(g) /\ z.f \in Seq(Objects(g))
  BY DEF JobOk, OpenedOk
<1>2. m \in Work(g)
  BY <1>1, FOpen
<1>3. Begun(z, m, job) = o
  BY Zenon DEF Begun
<1> HIDE DEF was
<1>4. o.m = m /\ o.f = z.f
  OBVIOUS
<1>5. OpenStep(z, job) = a
  BY <1>3, <1>4, Zenon DEF OpenStep, HalfDone
<1> HIDE DEF m
<1>6. w \in Work(g)
  BY <1>1, <1>2, FWrite
<1> HIDE DEF w
<1>7. r \in Work(g) /\ r.left = 0 /\ ~r.failed
  BY <1>6, RestOk
<1>8. w.f \in Objects(g)
  BY <1>6 DEF Objects, Work, State
<1>9. q \in Seq(Objects(g))
  BY <1>1, <1>8, AppendProperties
<1> HIDE DEF r
<1>10. a.m = r /\ a.f = q
  OBVIOUS
<1> HIDE DEF a, q
<1> QED BY <1>5, <1>7, <1>9, <1>10 DEF OpenedOk

(* A function over 0..n defined step by step exists.                        *)
LEMMA OpenSteps ==
  ASSUME NEW x, NEW jobs, NEW n \in Nat
  PROVE  \E f : f = [i \in 0..n |-> IF i = 0 THEN x ELSE OpenStep(f[i-1], jobs[i])]
<1> DEFINE Run(k, f) == f = [i \in 0..k |-> IF i = 0 THEN x ELSE OpenStep(f[i-1], jobs[i])]
           S == {k \in Nat : \E f : Run(k, f)}
<1>1. 0 \in S
  <2> DEFINE g == [i \in 0..0 |-> x]
  <2>1. Run(0, g)
    OBVIOUS
  <2> QED BY <2>1
<1>2. ASSUME NEW k \in Nat, k \in S PROVE k + 1 \in S
  <2>1. PICK f : Run(k, f)
    BY <1>2
  <2> DEFINE last1 == OpenStep(f[k], jobs[k + 1])
             g == [i \in 0..k+1 |-> IF i = k + 1 THEN last1 ELSE f[i]]
  <2>3. ASSUME NEW i \in 0..k+1 PROVE g[i] = IF i = 0 THEN x ELSE OpenStep(g[i-1], jobs[i])
    <3>1. CASE i = k + 1
      <4>1. g[k] = f[k] /\ g[k + 1] = OpenStep(f[k], jobs[k + 1])
        OBVIOUS
      <4>2. i - 1 = k /\ i # 0
        BY <3>1
      <4> HIDE DEF g
      <4> QED BY <3>1, <4>1, <4>2
    <3>2. CASE i \in 0..k
      <4>1. g[i] = f[i] /\ (i # 0 => g[i-1] = f[i-1])
        BY <3>2
      <4>2. f[i] = IF i = 0 THEN x ELSE OpenStep(f[i-1], jobs[i])
        BY <2>1, <3>2
      <4> HIDE DEF g
      <4> QED BY <4>1, <4>2
    <3> QED BY <3>1, <3>2
  <2>4. g = [i \in 0..k+1 |-> g[i]]
    OBVIOUS
  <2> HIDE DEF g
  <2>5. Run(k + 1, g)
    BY <2>3, <2>4
  <2> QED BY <2>5
<1> HIDE DEF S
<1>3. n \in S
  BY <1>1, <1>2, SetInduction
<1> QED BY <1>3 DEF S

LEMMA AllOpened ==
  ASSUME CSize > 1, NEW v, VolumeOk(v)
  PROVE  CardOf(v) \in Cards /\ OpenedOk(Opened(v), CardOf(v))
<1> DEFINE g == CardOf(v)
           n == Len(v.opened)
           jobs == v.opened
           x == [m |-> file_init(Filled(v)), f |-> <<>>, was |-> <<>>]
           at == CHOOSE f : f = [i \in 0..n |-> IF i = 0 THEN x ELSE OpenStep(f[i-1], jobs[i])]
<1>0. n \in Nat /\ \A i \in 1..n : JobOk(jobs[i])
  BY DEF VolumeOk
<1>1. g \in Cards /\ ~g.still /\ Filled(v) \in [Sectors -> Content] /\ DiskOk(Filled(v), g)
  <2>1. g \in Cards /\ Filled(v) \in [Sectors -> Content] /\ DiskOk(Filled(v), g)
    BY FilledOk
  <2>2. ~g.still
    BY DEF CardOf
  <2> QED BY <2>1, <2>2
<1>2. Opened(v) = at[n]
  BY DEF Opened, OpenStep
<1> HIDE DEF g
<1>3. OpenedOk(x, g)
  <2>1. LET a == file_init(Filled(v)) IN a \in Work(g) /\ a.left = 0 /\ ~a.failed
    BY <1>1, FileInit
  <2>2. <<>> \in Seq(Objects(g))
    BY EmptySeq
  <2> QED BY <2>1, <2>2 DEF OpenedOk
<1> HIDE DEF x, n, jobs
<1>4. at = [i \in 0..n |-> IF i = 0 THEN x ELSE OpenStep(at[i-1], jobs[i])]
  BY <1>0, OpenSteps
<1> HIDE DEF at
<1> DEFINE S == {k \in Nat : k <= n => OpenedOk(at[k], g)}
<1>5. 0 \in S
  <2>1. at[0] = x
    BY <1>0, <1>4
  <2> QED BY <1>3, <2>1
<1>6. ASSUME NEW k \in Nat, k \in S PROVE k + 1 \in S
  <2>1. SUFFICES ASSUME k + 1 <= n PROVE OpenedOk(at[k + 1], g)
    OBVIOUS
  <2>2. k + 1 \in 0..n /\ k + 1 # 0 /\ k + 1 \in 1..n /\ (k + 1) - 1 = k /\ k <= n
    BY <1>0, <2>1
  <2>3. at[k + 1] = OpenStep(at[k], jobs[k + 1])
    BY <1>4, <2>2
  <2>4. OpenedOk(at[k], g) /\ JobOk(jobs[k + 1])
    BY <1>0, <1>6, <2>2
  <2> QED BY <1>1, <2>3, <2>4, OpenStepOk
<1> HIDE DEF S
<1>7. n \in S
  BY <1>0, <1>5, <1>6, SetInduction
<1>8. OpenedOk(at[n], g)
  BY <1>0, <1>7 DEF S
<1> QED BY <1>1, <1>2, <1>8 DEF g

-----------------------------------------------------------------------------
(* The state between two calls: the inductive invariant.                   *)

LEMMA UseOk ==
  /\ \A v \in Volumes : VolumeOk(v)
  /\ Args \subseteq Paths /\ NewDirs \subseteq Paths
  /\ \A mv \in Moves : mv[1] \in Paths /\ mv[2] \in Paths
  /\ Data \subseteq Ints /\ Offsets \subseteq Nat /\ Counts \subseteq Nat
  /\ Faults \subseteq Nat /\ "L" \in Spellings
  /\ <<"/">> \in Paths /\ <<"D">> \in Paths /\ <<"..">> \in Paths
<1>1. Seq(STRING) \subseteq Paths
  <2>1. STRING \subseteq Spellings
    BY Zenon DEF Spellings
  <2> HIDE DEF Spellings
  <2> QED BY <2>1, SeqMonotonic DEF Paths
<1>2. Seq(Nat) \subseteq Ints
  BY SeqMonotonic DEF Ints
<1>3. ASSUME NEW v \in Volumes PROVE VolumeOk(v)
  <2>1. /\ v.type \in {"FAT16", "FAT32"} /\ v.sfd \in BOOLEAN /\ v.n_fats \in {1, 2}
        /\ v.items \in Seq([is : {"dir", "file"}, path : Seq(STRING), b : Seq(Nat)])
        /\ v.opened \in Seq([path : Seq(STRING), mode : SUBSET STRING, b : Seq(Nat)])
    BY UseAssumption
  <2>2. Len(v.items) \in Nat /\ \A i \in 1..Len(v.items) : v.items[i].path \in Seq(STRING) /\ v.items[i].b \in Seq(Nat)
    <3> DEFINE R == [is : {"dir", "file"}, path : Seq(STRING), b : Seq(Nat)]
    <3>1. v.items \in Seq(R)
      BY <2>1
    <3>2. \A r \in R : r.path \in Seq(STRING) /\ r.b \in Seq(Nat)
      OBVIOUS
    <3> HIDE DEF R
    <3>3. Len(v.items) \in Nat /\ \A i \in 1..Len(v.items) : v.items[i] \in R
      BY <3>1
    <3> QED BY <3>2, <3>3
  <2>3. Len(v.opened) \in Nat /\ \A i \in 1..Len(v.opened) : v.opened[i].path \in Seq(STRING) /\ v.opened[i].b \in Seq(Nat)
    <3> DEFINE R == [path : Seq(STRING), mode : SUBSET STRING, b : Seq(Nat)]
    <3>1. v.opened \in Seq(R)
      BY <2>1
    <3>2. \A r \in R : r.path \in Seq(STRING) /\ r.b \in Seq(Nat)
      OBVIOUS
    <3> HIDE DEF R
    <3>3. Len(v.opened) \in Nat /\ \A i \in 1..Len(v.opened) : v.opened[i] \in R
      BY <3>1
    <3> QED BY <3>2, <3>3
  <2>4. \A i \in 1..Len(v.items) : ItemOk(v.items[i])
    BY <1>1, <1>2, <2>2 DEF ItemOk
  <2>5. \A i \in 1..Len(v.opened) : JobOk(v.opened[i])
    BY <1>1, <1>2, <2>3 DEF JobOk
  <2> QED BY <2>1, <2>2, <2>3, <2>4, <2>5 DEF VolumeOk
<1>4. Args \subseteq Paths /\ NewDirs \subseteq Paths
  BY <1>1, UseAssumption
<1>5. \A mv \in Moves : mv[1] \in Paths /\ mv[2] \in Paths
  BY <1>1, UseAssumption
<1>6. Data \subseteq Ints /\ Offsets \subseteq Nat /\ Counts \subseteq Nat
  BY <1>2, UseAssumption
<1>7. Faults \subseteq Nat
  BY UseAssumption DEF Faults
<1>8. "L" \in Spellings
  BY Zenon DEF Spellings
<1>9. <<"/">> \in Paths /\ <<"D">> \in Paths /\ <<"..">> \in Paths
  <2>1. \A t \in Spellings : <<t>> \in Paths
    BY DEF Paths
  <2>2. "/" \in Spellings /\ "D" \in Spellings /\ ".." \in Spellings
    BY Zenon DEF Spellings
  <2> HIDE DEF Spellings
  <2> QED BY <2>1, <2>2, Zenon
<1> QED BY <1>1, <1>3, <1>4, <1>5, <1>6, <1>7, <1>8, <1>9

(* What a call may do depends on whether an access of it fails.             *)
Troubled(g, x) == IF x > 0 THEN [g EXCEPT !.quiet = FALSE] ELSE g
At(g, v, fs, n) ==
  /\ g \in Cards /\ ~g.still /\ (g.quiet <=> n = 0)
  /\ v \in Work(g) /\ v.left = 0 /\ ~v.failed
  /\ fs \in [Handles -> Objects(g)]
Inv(v, fs, n) == n \in Nat /\ \E g \in Cards : At(g, v, fs, n)

LEMMA TroubledOk ==
  ASSUME NEW g \in Cards, NEW x \in Nat
  PROVE  LET k == Troubled(g, x) IN
         /\ k \in Cards /\ k.still = g.still /\ k.quiet = (g.quiet /\ x = 0)
         /\ Work(g) \subseteq Work(k) /\ Objects(k) = Objects(g)
         /\ k.bsect = g.bsect /\ k.type = g.type /\ k.n_fats = g.n_fats
<1> DEFINE k == Troubled(g, x)
<1>0. x > 0 \/ x = 0
  OBVIOUS
<1>1. /\ k \in Cards /\ k.still = g.still /\ k.quiet = (g.quiet /\ x = 0) /\ k.view = g.view
      /\ k.bsect = g.bsect /\ k.type = g.type /\ k.n_fats = g.n_fats
  <2>1. g.quiet \in BOOLEAN
    BY DEF Cards
  <2>2. CASE x > 0
    <3>1. k = [g EXCEPT !.quiet = FALSE]
      BY <2>2 DEF Troubled
    <3>2. k \in Cards /\ k.quiet = FALSE /\ k.still = g.still /\ k.view = g.view
          /\ k.bsect = g.bsect /\ k.type = g.type /\ k.n_fats = g.n_fats
      BY <3>1 DEF Cards
    <3> HIDE DEF k
    <3>3. ~(g.quiet /\ x = 0)
      BY <2>2
    <3> QED BY <2>1, <3>2, <3>3
  <2>3. CASE x = 0
    <3>1. k = g
      BY <2>3 DEF Troubled
    <3> HIDE DEF k
    <3> QED BY <2>1, <2>3, <3>1
  <2> QED BY <1>0, <2>2, <2>3
<1> HIDE DEF k
<1>2. /\ FatBase(k) = FatBase(g) /\ RootBase(k) = RootBase(g) /\ DataBase(k) = DataBase(g)
  BY <1>1 DEF FatBase, RootBase, DataBase
<1>3. \A s : (InFat(k, s) <=> InFat(g, s)) /\ (Copy(k, s) <=> Copy(g, s)) /\ (InData(k, s) <=> InData(g, s))
  BY <1>2 DEF InFat, Copy, InData
<1>4. \A c : clust2sect(k, c) = clust2sect(g, c)
  BY <1>2 DEF clust2sect
<1>5. \A f : FileOk(f, k) <=> FileOk(f, g)
  BY <1>2, <1>3 DEF FileOk
<1>6. \A j : DirOk(j, k) <=> DirOk(j, g)
  BY <1>2, <1>4 DEF DirOk
<1>7. ASSUME NEW m, Card(m, g) PROVE Card(m, k)
  <2>1. DiskOk(m.disk, k)
    BY <1>1, <1>2, <1>3, <1>7 DEF Card, DiskOk, Layout, Mirrors
  <2>2. WindowOk(m, k)
    BY <1>2, <1>3, <1>7 DEF Card, WindowOk
  <2>3. Seen(m, k)
    BY <1>1, <1>3, <1>7 DEF Card, Seen
  <2>4. Mount(m, k) /\ Quiet(m, k)
    BY <1>1, <1>7 DEF Card, Mount, Quiet
  <2> QED BY <2>1, <2>2, <2>3, <2>4 DEF Card
<1>8. Work(g) \subseteq Work(k)
  BY <1>5, <1>6, <1>7 DEF Work
<1>9. Objects(k) = Objects(g)
  BY <1>5 DEF Objects
<1> QED BY <1>1, <1>8, <1>9 DEF k

LEMMA StartOk ==
  ASSUME NEW g \in Cards, vol \in Work(g), NEW f \in Objects(g), NEW x \in Nat, g.quiet => x = 0, ~vol.failed
  PROVE  Start(f, x) \in Work(g)
<1> DEFINE c == ~Glitch
           a == [vol EXCEPT !.f = f, !.left = x, !.cut = c]
<1>1. c \in BOOLEAN /\ f \in FileObjects /\ FileOk(f, g)
  BY DEF Objects
<1>2. Start(f, x) = a
  BY DEF Start
<1>3. vol \in State
  BY DEF Work
<1> HIDE DEF c
<1>4. a \in State
  BY <1>1, <1>3 DEF State
<1>5. /\ a.disk = vol.disk /\ a.winsect = vol.winsect /\ a.win = vol.win /\ a.wflag = vol.wflag
      /\ a.type = vol.type /\ a.bsect = vol.bsect /\ a.n_fats = vol.n_fats /\ a.ready = vol.ready
      /\ a.left = x /\ a.failed = vol.failed /\ a.dj = vol.dj /\ a.f = f
  BY <1>3 DEF State
<1> HIDE DEF a
<1>6. Card(a, g)
  BY <1>5 DEF Work, Card, WindowOk, Seen, Mount, Quiet
<1>7. DirOk(a.dj, g) /\ FileOk(a.f, g)
  BY <1>1, <1>5 DEF Work
<1> QED BY <1>2, <1>4, <1>6, <1>7 DEF Work

-----------------------------------------------------------------------------
(* A call ends; what a call that only looks may not change.                *)

(* The end of a call that found the work area and the files in order.       *)
LEMMA EndOk ==
  ASSUME NEW g \in Cards, NEW v, NEW fs, NEW n \in Nat, At(g, v, fs, n), NEW x \in Nat,
         NEW m \in Work(Troubled(g, x)), NEW fs1,
         fs1 = fs \/ \E h \in Handles : fs1 = [fs EXCEPT ![h] = m.f]
  PROVE  Inv(Rest(m), fs1, n + (IF x > 0 THEN 1 ELSE 0))
<1> DEFINE k == Troubled(g, x)
           r == Rest(m)
           n1 == n + (IF x > 0 THEN 1 ELSE 0)
<1>1. k \in Cards /\ k.still = g.still /\ k.quiet = (g.quiet /\ x = 0) /\ Objects(k) = Objects(g)
  BY TroubledOk
<1>0. m \in Work(k)
  OBVIOUS
<1> HIDE DEF k
<1>2. r \in Work(k) /\ r.left = 0 /\ ~r.failed
  BY <1>0, <1>1, RestOk
<1> HIDE DEF r
<1>3. n1 \in Nat /\ (n1 = 0 <=> n = 0 /\ x = 0)
  OBVIOUS
<1> HIDE DEF n1
<1>4. ~k.still /\ (k.quiet <=> n1 = 0)
  BY <1>1, <1>3 DEF At
<1>5. m.f \in Objects(k)
  BY DEF Objects, Work, State, k
<1>6. fs1 \in [Handles -> Objects(k)]
  BY <1>1, <1>5 DEF At
<1>7. At(k, r, fs1, n1)
  BY <1>1, <1>2, <1>4, <1>6 DEF At
<1> QED BY <1>1, <1>3, <1>7 DEF Inv, r, n1

(* What the volume shows is a card.                                         *)
LEMMA ViewIs ==
  ASSUME NEW m \in State, m.winsect \in Sectors
  PROVE  /\ View(m) \in [Sectors -> Content]
         /\ \A s \in Sectors : View(m)[s] = IF m.wflag /\ m.winsect = s THEN m.win ELSE m.disk[s]
<1>1. m.disk \in [Sectors -> Content] /\ m.win \in Content /\ DOMAIN m.disk = Sectors /\ m.wflag \in BOOLEAN
  BY DEF State
<1> DEFINE p == Put(m.disk, m.winsect, m.win)
<1>2. p = [j \in Sectors |-> IF j = m.winsect THEN m.win ELSE m.disk[j]]
  BY <1>1 DEF Put
<1>3. p \in [Sectors -> Content] /\ \A s \in Sectors : p[s] = IF m.winsect = s THEN m.win ELSE m.disk[s]
  BY <1>1, <1>2
<1>4. View(m) = IF m.wflag THEN p ELSE m.disk
  BY <1>1 DEF View
<1> HIDE DEF p
<1> QED BY <1>1, <1>3, <1>4

(* A call that only looks, begun with the view it has to keep.              *)
Watched(g, m) == [g EXCEPT !.still = TRUE, !.view = View(m)]
LEMMA WatchedOk ==
  ASSUME NEW g \in Cards, NEW m \in Work(g)
  PROVE  LET k == Watched(g, m) IN
         /\ k \in Cards /\ m \in Work(k) /\ Objects(k) = Objects(g) /\ k.quiet = g.quiet /\ k.view = View(m)
         /\ k.still /\ \A s : Copy(k, s) <=> Copy(g, s)
<1> DEFINE k == Watched(g, m)
           w == View(m)
<1>1. m \in State /\ m.winsect \in Sectors
  BY DEF Work, Card, WindowOk
<1>2. /\ w \in [Sectors -> Content]
      /\ \A s \in Sectors : w[s] = IF m.wflag /\ m.winsect = s THEN m.win ELSE m.disk[s]
  BY <1>1, ViewIs
<1> HIDE DEF w
<1>3. k = [g EXCEPT !.still = TRUE, !.view = w]
  BY DEF Watched, w
<1>4. /\ k \in Cards /\ k.still /\ k.quiet = g.quiet /\ k.view = w
      /\ k.bsect = g.bsect /\ k.type = g.type /\ k.n_fats = g.n_fats
  BY <1>2, <1>3 DEF Cards
<1> HIDE DEF k
<1>5. /\ FatBase(k) = FatBase(g) /\ RootBase(k) = RootBase(g) /\ DataBase(k) = DataBase(g)
  BY <1>4 DEF FatBase, RootBase, DataBase
<1>6. \A s : (InFat(k, s) <=> InFat(g, s)) /\ (Copy(k, s) <=> Copy(g, s)) /\ (InData(k, s) <=> InData(g, s))
  BY <1>5 DEF InFat, Copy, InData
<1>7. \A c : clust2sect(k, c) = clust2sect(g, c)
  BY <1>5 DEF clust2sect
<1>8. \A f : FileOk(f, k) <=> FileOk(f, g)
  BY <1>5, <1>6 DEF FileOk
<1>9. \A j : DirOk(j, k) <=> DirOk(j, g)
  BY <1>5, <1>7 DEF DirOk
<1>10. Card(m, k)
  <2>1. DiskOk(m.disk, k)
    BY <1>4, <1>5, <1>6 DEF Work, Card, DiskOk, Layout, Mirrors
  <2>2. WindowOk(m, k)
    BY <1>5, <1>6 DEF Work, Card, WindowOk
  <2>3. Seen(m, k)
    BY <1>2, <1>4 DEF Seen
  <2>4. Mount(m, k) /\ Quiet(m, k)
    BY <1>4 DEF Work, Card, Mount, Quiet
  <2> QED BY <2>1, <2>2, <2>3, <2>4 DEF Card
<1>11. m \in Work(k)
  BY <1>8, <1>9, <1>10 DEF Work
<1>12. Objects(k) = Objects(g)
  BY <1>8 DEF Objects
<1> QED BY <1>4, <1>6, <1>11, <1>12 DEF k, w

LEMMA SameView ==
  ASSUME NEW g \in Cards, g.still, NEW m \in Work(g), NEW s \in Sectors, ~Copy(g, s)
  PROVE  View(Rest(m))[s] = g.view[s]
<1> DEFINE r == Rest(m)
<1>1. r \in Work(g)
  BY RestOk
<1> HIDE DEF r
<1>2. r \in State /\ r.winsect \in Sectors /\ Seen(r, g)
  BY <1>1 DEF Work, Card, WindowOk
<1>3. View(r)[s] = IF r.wflag /\ r.winsect = s THEN r.win ELSE r.disk[s]
  BY <1>2, ViewIs
<1> QED BY <1>2, <1>3 DEF Seen, r

-----------------------------------------------------------------------------
(* The calls that write keep the invariant.                                *)

IInv == Inv(vol, files, faults)

LEMMA CallBegins ==
  ASSUME NEW g \in Cards, NEW f \in Objects(g), NEW x \in Nat, At(g, vol, files, faults)
  PROVE  /\ Troubled(g, x) \in Cards /\ ~Troubled(g, x).still
         /\ Start(f, x) \in Work(Troubled(g, x))
<1> DEFINE k == Troubled(g, x)
<1>1. /\ k \in Cards /\ k.still = g.still /\ k.quiet = (g.quiet /\ x = 0)
      /\ Work(g) \subseteq Work(k) /\ Objects(k) = Objects(g)
  BY TroubledOk
<1> HIDE DEF k
<1>2. vol \in Work(k) /\ f \in Objects(k) /\ ~k.still /\ ~vol.failed
  BY <1>1 DEF At
<1>3. k.quiet => x = 0
  BY <1>1
<1>4. Start(f, x) \in Work(k)
  BY <1>1, <1>2, <1>3, StartOk
<1> QED BY <1>1, <1>2, <1>4 DEF k

LEMMA AnyFile ==
  ASSUME NEW g \in Cards, At(g, vol, files, faults)
  PROVE  Closed \in Objects(g) /\ \A h \in Handles : files[h] \in Objects(g)
BY ClosedOk DEF At, Objects

LEMMA OpenKeeps ==
  ASSUME IInv, NEW h \in Handles, NEW arg \in Paths, NEW mode, NEW x \in Nat, Open(h, arg, mode, x)
  PROVE  IInv'
<1>1. faults \in Nat /\ \E g \in Cards : At(g, vol, files, faults)
  BY DEF IInv, Inv
<1>2. PICK g \in Cards : At(g, vol, files, faults)
  BY <1>1
<1> DEFINE k == Troubled(g, x)
           s == Start(Closed, x)
           m == f_open(s, arg, mode)
<1>3. Closed \in Objects(g)
  BY <1>2, AnyFile
<1>4. k \in Cards /\ ~k.still /\ s \in Work(k)
  BY <1>2, <1>3, CallBegins
<1>5. vol' = Rest(m) /\ files' = [files EXCEPT ![h] = m.f] /\ faults' = faults + (IF x > 0 THEN 1 ELSE 0)
  BY Zenon DEF Open, Opens, WithFile, Returned
<1> HIDE DEF s
<1>6. m \in Work(k)
  BY <1>4, FOpen
<1> HIDE DEF m
<1>7. Inv(Rest(m), files', faults + (IF x > 0 THEN 1 ELSE 0))
  BY <1>1, <1>2, <1>5, <1>6, EndOk
<1> QED BY <1>5, <1>7 DEF IInv

LEMMA ReadKeeps ==
  ASSUME IInv, NEW h \in Handles, NEW n \in Nat, NEW x \in Nat, Read(h, n, x)
  PROVE  IInv'
<1>1. faults \in Nat /\ \E g \in Cards : At(g, vol, files, faults)
  BY DEF IInv, Inv
<1>2. PICK g \in Cards : At(g, vol, files, faults)
  BY <1>1
<1> DEFINE k == Troubled(g, x)
           s == Start(files[h], x)
           m == f_read(s, n)
<1>3. files[h] \in Objects(g)
  BY <1>2, AnyFile
<1>4. k \in Cards /\ ~k.still /\ s \in Work(k)
  BY <1>2, <1>3, CallBegins
<1>5. vol' = Rest(m) /\ files' = [files EXCEPT ![h] = m.f] /\ faults' = faults + (IF x > 0 THEN 1 ELSE 0)
  BY Zenon DEF Read, Reads, WithFile, Returned
<1> HIDE DEF s
<1>6. m \in Work(k)
  BY <1>4, FRead
<1> HIDE DEF m
<1>7. Inv(Rest(m), files', faults + (IF x > 0 THEN 1 ELSE 0))
  BY <1>1, <1>2, <1>5, <1>6, EndOk
<1> QED BY <1>5, <1>7 DEF IInv

LEMMA WriteKeeps ==
  ASSUME IInv, NEW h \in Handles, NEW data \in Ints, NEW x \in Nat, Write(h, data, x)
  PROVE  IInv'
<1>1. faults \in Nat /\ \E g \in Cards : At(g, vol, files, faults)
  BY DEF IInv, Inv
<1>2. PICK g \in Cards : At(g, vol, files, faults)
  BY <1>1
<1> DEFINE k == Troubled(g, x)
           s == Start(files[h], x)
           m == f_write(s, data)
<1>3. files[h] \in Objects(g)
  BY <1>2, AnyFile
<1>4. k \in Cards /\ ~k.still /\ s \in Work(k)
  BY <1>2, <1>3, CallBegins
<1>5. vol' = Rest(m) /\ files' = [files EXCEPT ![h] = m.f] /\ faults' = faults + (IF x > 0 THEN 1 ELSE 0)
  BY Zenon DEF Write, Writes, WithFile, Returned
<1> HIDE DEF s
<1>6. m \in Work(k)
  BY <1>4, FWrite
<1> HIDE DEF m
<1>7. Inv(Rest(m), files', faults + (IF x > 0 THEN 1 ELSE 0))
  BY <1>1, <1>2, <1>5, <1>6, EndOk
<1> QED BY <1>5, <1>7 DEF IInv

LEMMA LseekKeeps ==
  ASSUME IInv, NEW h \in Handles, NEW ofs \in Nat, NEW x \in Nat, Lseek(h, ofs, x)
  PROVE  IInv'
<1>1. faults \in Nat /\ \E g \in Cards : At(g, vol, files, faults)
  BY DEF IInv, Inv
<1>2. PICK g \in Cards : At(g, vol, files, faults)
  BY <1>1
<1> DEFINE k == Troubled(g, x)
           s == Start(files[h], x)
           m == f_lseek(s, ofs)
<1>3. files[h] \in Objects(g)
  BY <1>2, AnyFile
<1>4. k \in Cards /\ ~k.still /\ s \in Work(k)
  BY <1>2, <1>3, CallBegins
<1>5. vol' = Rest(m) /\ files' = [files EXCEPT ![h] = m.f] /\ faults' = faults + (IF x > 0 THEN 1 ELSE 0)
  BY Zenon DEF Lseek, Seeks, WithFile, Returned
<1> HIDE DEF s
<1>6. m \in Work(k)
  BY <1>4, FLseek
<1> HIDE DEF m
<1>7. Inv(Rest(m), files', faults + (IF x > 0 THEN 1 ELSE 0))
  BY <1>1, <1>2, <1>5, <1>6, EndOk
<1> QED BY <1>5, <1>7 DEF IInv

LEMMA TruncateKeeps ==
  ASSUME IInv, NEW h \in Handles, NEW x \in Nat, Truncate(h, x)
  PROVE  IInv'
<1>1. faults \in Nat /\ \E g \in Cards : At(g, vol, files, faults)
  BY DEF IInv, Inv
<1>2. PICK g \in Cards : At(g, vol, files, faults)
  BY <1>1
<1> DEFINE k == Troubled(g, x)
           s == Start(files[h], x)
           m == f_truncate(s)
<1>3. files[h] \in Objects(g)
  BY <1>2, AnyFile
<1>4. k \in Cards /\ ~k.still /\ s \in Work(k)
  BY <1>2, <1>3, CallBegins
<1>5. vol' = Rest(m) /\ files' = [files EXCEPT ![h] = m.f] /\ faults' = faults + (IF x > 0 THEN 1 ELSE 0)
  BY Zenon DEF Truncate, Truncates, WithFile, Returned
<1> HIDE DEF s
<1>6. m \in Work(k)
  BY <1>4, FTruncate
<1> HIDE DEF m
<1>7. Inv(Rest(m), files', faults + (IF x > 0 THEN 1 ELSE 0))
  BY <1>1, <1>2, <1>5, <1>6, EndOk
<1> QED BY <1>5, <1>7 DEF IInv

LEMMA SyncKeeps ==
  ASSUME IInv, NEW h \in Handles, NEW x \in Nat, Sync(h, x)
  PROVE  IInv'
<1>1. faults \in Nat /\ \E g \in Cards : At(g, vol, files, faults)
  BY DEF IInv, Inv
<1>2. PICK g \in Cards : At(g, vol, files, faults)
  BY <1>1
<1> DEFINE k == Troubled(g, x)
           s == Start(files[h], x)
           m == f_sync(s)
<1>3. files[h] \in Objects(g)
  BY <1>2, AnyFile
<1>4. k \in Cards /\ ~k.still /\ s \in Work(k)
  BY <1>2, <1>3, CallBegins
<1>5. vol' = Rest(m) /\ files' = [files EXCEPT ![h] = m.f] /\ faults' = faults + (IF x > 0 THEN 1 ELSE 0)
  BY Zenon DEF Sync, Saves, WithFile, Returned
<1> HIDE DEF s
<1>6. m \in Work(k)
  BY <1>4, FSync
<1> HIDE DEF m
<1>7. Inv(Rest(m), files', faults + (IF x > 0 THEN 1 ELSE 0))
  BY <1>1, <1>2, <1>5, <1>6, EndOk
<1> QED BY <1>5, <1>7 DEF IInv

LEMMA CloseKeeps ==
  ASSUME IInv, NEW h \in Handles, NEW x \in Nat, Close(h, x)
  PROVE  IInv'
<1>1. faults \in Nat /\ \E g \in Cards : At(g, vol, files, faults)
  BY DEF IInv, Inv
<1>2. PICK g \in Cards : At(g, vol, files, faults)
  BY <1>1
<1> DEFINE k == Troubled(g, x)
           s == Start(files[h], x)
           m == f_close(s)
<1>3. files[h] \in Objects(g)
  BY <1>2, AnyFile
<1>4. k \in Cards /\ ~k.still /\ s \in Work(k)
  BY <1>2, <1>3, CallBegins
<1>5. vol' = Rest(m) /\ files' = [files EXCEPT ![h] = m.f] /\ faults' = faults + (IF x > 0 THEN 1 ELSE 0)
  BY Zenon DEF Close, Saves, WithFile, Returned
<1> HIDE DEF s
<1>6. m \in Work(k)
  BY <1>4, FClose
<1> HIDE DEF m
<1>7. Inv(Rest(m), files', faults + (IF x > 0 THEN 1 ELSE 0))
  BY <1>1, <1>2, <1>5, <1>6, EndOk
<1> QED BY <1>5, <1>7 DEF IInv

LEMMA UnlinkKeeps ==
  ASSUME IInv, NEW arg \in Paths, NEW x \in Nat, Unlink(arg, x)
  PROVE  IInv'
<1>1. faults \in Nat /\ \E g \in Cards : At(g, vol, files, faults)
  BY DEF IInv, Inv
<1>2. PICK g \in Cards : At(g, vol, files, faults)
  BY <1>1
<1> DEFINE k == Troubled(g, x)
           s == Start(Closed, x)
           m == f_unlink(s, arg)
<1>3. Closed \in Objects(g)
  BY <1>2, AnyFile
<1>4. k \in Cards /\ ~k.still /\ s \in Work(k)
  BY <1>2, <1>3, CallBegins
<1>5. vol' = Rest(m) /\ files' = files /\ faults' = faults + (IF x > 0 THEN 1 ELSE 0)
  BY Zenon DEF Unlink, Alters, Returned
<1> HIDE DEF s
<1>6. m \in Work(k)
  BY <1>4, FUnlink
<1> HIDE DEF m
<1>7. Inv(Rest(m), files', faults + (IF x > 0 THEN 1 ELSE 0))
  BY <1>1, <1>2, <1>5, <1>6, EndOk
<1> QED BY <1>5, <1>7 DEF IInv

LEMMA MkdirKeeps ==
  ASSUME CSize > 1, IInv, NEW arg \in Paths, NEW x \in Nat, Mkdir(arg, x)
  PROVE  IInv'
<1>1. faults \in Nat /\ \E g \in Cards : At(g, vol, files, faults)
  BY DEF IInv, Inv
<1>2. PICK g \in Cards : At(g, vol, files, faults)
  BY <1>1
<1> DEFINE k == Troubled(g, x)
           s == Start(Closed, x)
           m == f_mkdir(s, arg)
<1>3. Closed \in Objects(g)
  BY <1>2, AnyFile
<1>4. k \in Cards /\ ~k.still /\ s \in Work(k)
  BY <1>2, <1>3, CallBegins
<1>5. vol' = Rest(m) /\ files' = files /\ faults' = faults + (IF x > 0 THEN 1 ELSE 0)
  BY Zenon DEF Mkdir, Alters, Returned
<1> HIDE DEF s
<1>6. m \in Work(k)
  BY <1>4, FMkdir
<1> HIDE DEF m
<1>7. Inv(Rest(m), files', faults + (IF x > 0 THEN 1 ELSE 0))
  BY <1>1, <1>2, <1>5, <1>6, EndOk
<1> QED BY <1>5, <1>7 DEF IInv

LEMMA RenameKeeps ==
  ASSUME DirPer > 1, IInv, NEW old \in Paths, NEW new \in Paths, NEW x \in Nat, Rename(old, new, x)
  PROVE  IInv'
<1>1. faults \in Nat /\ \E g \in Cards : At(g, vol, files, faults)
  BY DEF IInv, Inv
<1>2. PICK g \in Cards : At(g, vol, files, faults)
  BY <1>1
<1> DEFINE k == Troubled(g, x)
           s == Start(Closed, x)
           m == f_rename(s, old, new)
<1>3. Closed \in Objects(g)
  BY <1>2, AnyFile
<1>4. k \in Cards /\ ~k.still /\ s \in Work(k)
  BY <1>2, <1>3, CallBegins
<1>5. vol' = Rest(m) /\ files' = files /\ faults' = faults + (IF x > 0 THEN 1 ELSE 0)
  BY Zenon DEF Rename, Renames, Returned
<1> HIDE DEF s
<1>6. m \in Work(k)
  BY <1>4, FRename
<1> HIDE DEF m
<1>7. Inv(Rest(m), files', faults + (IF x > 0 THEN 1 ELSE 0))
  BY <1>1, <1>2, <1>5, <1>6, EndOk
<1> QED BY <1>5, <1>7 DEF IInv

LEMMA ChmodKeeps ==
  ASSUME IInv, NEW arg \in Paths, NEW value, NEW x \in Nat, Chmod(arg, value, x)
  PROVE  IInv'
<1>1. faults \in Nat /\ \E g \in Cards : At(g, vol, files, faults)
  BY DEF IInv, Inv
<1>2. PICK g \in Cards : At(g, vol, files, faults)
  BY <1>1
<1> DEFINE k == Troubled(g, x)
           s == Start(Closed, x)
           m == f_chmod(s, arg, value, {"RDO"})
<1>3. Closed \in Objects(g)
  BY <1>2, AnyFile
<1>4. k \in Cards /\ ~k.still /\ s \in Work(k)
  BY <1>2, <1>3, CallBegins
<1>5. vol' = Rest(m) /\ files' = files /\ faults' = faults + (IF x > 0 THEN 1 ELSE 0)
  BY Zenon DEF Chmod, Stamps, Returned
<1> HIDE DEF s
<1>6. m \in Work(k)
  BY <1>4, FChmod
<1> HIDE DEF m
<1>7. Inv(Rest(m), files', faults + (IF x > 0 THEN 1 ELSE 0))
  BY <1>1, <1>2, <1>5, <1>6, EndOk
<1> QED BY <1>5, <1>7 DEF IInv

LEMMA UtimeKeeps ==
  ASSUME IInv, NEW arg \in Paths, NEW x \in Nat, Utime(arg, x)
  PROVE  IInv'
<1>1. faults \in Nat /\ \E g \in Cards : At(g, vol, files, faults)
  BY DEF IInv, Inv
<1>2. PICK g \in Cards : At(g, vol, files, faults)
  BY <1>1
<1> DEFINE k == Troubled(g, x)
           s == Start(Closed, x)
           m == f_utime(s, arg)
<1>3. Closed \in Objects(g)
  BY <1>2, AnyFile
<1>4. k \in Cards /\ ~k.still /\ s \in Work(k)
  BY <1>2, <1>3, CallBegins
<1>5. vol' = Rest(m) /\ files' = files /\ faults' = faults + (IF x > 0 THEN 1 ELSE 0)
  BY Zenon DEF Utime, Stamps, Returned
<1> HIDE DEF s
<1>6. m \in Work(k)
  BY <1>4, FUtime
<1> HIDE DEF m
<1>7. Inv(Rest(m), files', faults + (IF x > 0 THEN 1 ELSE 0))
  BY <1>1, <1>2, <1>5, <1>6, EndOk
<1> QED BY <1>5, <1>7 DEF IInv

LEMMA SetlabelKeeps ==
  ASSUME IInv, NEW label \in Spellings, NEW x \in Nat, Setlabel(label, x)
  PROVE  IInv'
<1>1. faults \in Nat /\ \E g \in Cards : At(g, vol, files, faults)
  BY DEF IInv, Inv
<1>2. PICK g \in Cards : At(g, vol, files, faults)
  BY <1>1
<1> DEFINE k == Troubled(g, x)
           s == Start(Closed, x)
           m == f_setlabel(s, label)
<1>3. Closed \in Objects(g)
  BY <1>2, AnyFile
<1>4. k \in Cards /\ ~k.still /\ s \in Work(k)
  BY <1>2, <1>3, CallBegins
<1>5. vol' = Rest(m) /\ files' = files /\ faults' = faults + (IF x > 0 THEN 1 ELSE 0)
  BY Zenon DEF Setlabel, Stamps, Returned
<1> HIDE DEF s
<1>6. m \in Work(k)
  BY <1>4, FSetlabel
<1> HIDE DEF m
<1>7. Inv(Rest(m), files', faults + (IF x > 0 THEN 1 ELSE 0))
  BY <1>1, <1>2, <1>5, <1>6, EndOk
<1> QED BY <1>5, <1>7 DEF IInv

-----------------------------------------------------------------------------
(* The calls that only look keep it too.                                   *)

LEMMA StatKeeps ==
  ASSUME IInv, NEW arg \in Paths, Stat(arg)
  PROVE  IInv'
<1>1. faults \in Nat /\ \E g \in Cards : At(g, vol, files, faults)
  BY DEF IInv, Inv
<1>2. PICK g \in Cards : At(g, vol, files, faults)
  BY <1>1
<1> DEFINE k == Troubled(g, 0)
           s == Start(Closed, 0)
           m == f_stat(s, arg)
<1>3. Closed \in Objects(g)
  BY <1>2, AnyFile
<1>4. k \in Cards /\ ~k.still /\ s \in Work(k)
  BY <1>2, <1>3, CallBegins
<1>5. vol' = Rest(m) /\ files' = files /\ faults' = faults + (IF 0 > 0 THEN 1 ELSE 0)
  BY Zenon DEF Stat, Ask, Answers, Now, Returned
<1> HIDE DEF s
<1>6. m \in Work(k)
  BY <1>4, FStat
<1> HIDE DEF m
<1>7. Inv(Rest(m), files', faults + (IF 0 > 0 THEN 1 ELSE 0))
  BY <1>1, <1>2, <1>5, <1>6, EndOk
<1> QED BY <1>5, <1>7 DEF IInv

LEMMA ListedOk ==
  ASSUME NEW g \in Cards, NEW m \in Work(g), NEW arg \in Paths
  PROVE  Then(f_opendir(m, arg), Listing) \in Work(g)
<1> DEFINE o == f_opendir(m, arg)
<1>1. o \in Work(g) /\ (o.res = "OK" => o \in Live(g) /\ o.dj.dir # Self)
  BY FOpendir
<1> HIDE DEF o
<1>2. o.res = "OK" => Listing(o) \in Work(g)
  BY <1>1, ListingOk DEF InTable, Live
<1>3. Then(o, Listing) = IF o.res = "OK" THEN Listing(o) ELSE o
  BY DEF Then
<1> QED BY <1>1, <1>2, <1>3 DEF o

LEMMA ListKeeps ==
  ASSUME IInv, NEW arg \in Paths, List(arg)
  PROVE  IInv'
<1>1. faults \in Nat /\ \E g \in Cards : At(g, vol, files, faults)
  BY DEF IInv, Inv
<1>2. PICK g \in Cards : At(g, vol, files, faults)
  BY <1>1
<1> DEFINE k == Troubled(g, 0)
           s == Start(Closed, 0)
           m == Then(f_opendir(s, arg), Listing)
<1>3. Closed \in Objects(g)
  BY <1>2, AnyFile
<1>4. k \in Cards /\ ~k.still /\ s \in Work(k)
  BY <1>2, <1>3, CallBegins
<1>5. vol' = Rest(m) /\ files' = files /\ faults' = faults + (IF 0 > 0 THEN 1 ELSE 0)
  BY Zenon DEF List, Ask, Answers, Now, Returned
<1> HIDE DEF s
<1>6. m \in Work(k)
  BY <1>4, ListedOk
<1> HIDE DEF m
<1>7. Inv(Rest(m), files', faults + (IF 0 > 0 THEN 1 ELSE 0))
  BY <1>1, <1>2, <1>5, <1>6, EndOk
<1> QED BY <1>5, <1>7 DEF IInv

LEMMA GetfreeKeeps ==
  ASSUME IInv, Getfree
  PROVE  IInv'
<1>1. faults \in Nat /\ \E g \in Cards : At(g, vol, files, faults)
  BY DEF IInv, Inv
<1>2. PICK g \in Cards : At(g, vol, files, faults)
  BY <1>1
<1> DEFINE k == Troubled(g, 0)
           s == Start(Closed, 0)
           m == f_getfree(s)
<1>3. Closed \in Objects(g)
  BY <1>2, AnyFile
<1>4. k \in Cards /\ ~k.still /\ s \in Work(k)
  BY <1>2, <1>3, CallBegins
<1>5. vol' = Rest(m) /\ files' = files /\ faults' = faults + (IF 0 > 0 THEN 1 ELSE 0)
  BY Zenon DEF Getfree, Ask, Answers, Now, Returned
<1> HIDE DEF s
<1>6. m \in Work(k)
  BY <1>4, FGetfree
<1> HIDE DEF m
<1>7. Inv(Rest(m), files', faults + (IF 0 > 0 THEN 1 ELSE 0))
  BY <1>1, <1>2, <1>5, <1>6, EndOk
<1> QED BY <1>5, <1>7 DEF IInv

LEMMA GetlabelKeeps ==
  ASSUME IInv, Getlabel
  PROVE  IInv'
<1>1. faults \in Nat /\ \E g \in Cards : At(g, vol, files, faults)
  BY DEF IInv, Inv
<1>2. PICK g \in Cards : At(g, vol, files, faults)
  BY <1>1
<1> DEFINE k == Troubled(g, 0)
           s == Start(Closed, 0)
           m == f_getlabel(s)
<1>3. Closed \in Objects(g)
  BY <1>2, AnyFile
<1>4. k \in Cards /\ ~k.still /\ s \in Work(k)
  BY <1>2, <1>3, CallBegins
<1>5. vol' = Rest(m) /\ files' = files /\ faults' = faults + (IF 0 > 0 THEN 1 ELSE 0)
  BY Zenon DEF Getlabel, Ask, Answers, Now, Returned
<1> HIDE DEF s
<1>6. m \in Work(k)
  BY <1>4, FGetlabel
<1> HIDE DEF m
<1>7. Inv(Rest(m), files', faults + (IF 0 > 0 THEN 1 ELSE 0))
  BY <1>1, <1>2, <1>5, <1>6, EndOk
<1> QED BY <1>5, <1>7 DEF IInv

LEMMA GetcwdKeeps ==
  ASSUME IInv, Getcwd
  PROVE  IInv'
<1>1. faults \in Nat /\ \E g \in Cards : At(g, vol, files, faults)
  BY DEF IInv, Inv
<1>2. PICK g \in Cards : At(g, vol, files, faults)
  BY <1>1
<1> DEFINE k == Troubled(g, 0)
           s == Start(Closed, 0)
           m == f_getcwd(s)
<1>3. Closed \in Objects(g)
  BY <1>2, AnyFile
<1>4. k \in Cards /\ ~k.still /\ s \in Work(k)
  BY <1>2, <1>3, CallBegins
<1>5. vol' = Rest(m) /\ files' = files /\ faults' = faults + (IF 0 > 0 THEN 1 ELSE 0)
  BY Zenon DEF Getcwd, Ask, Answers, Now, Returned
<1> HIDE DEF s
<1>6. m \in Work(k)
  BY <1>4, FGetcwd
<1> HIDE DEF m
<1>7. Inv(Rest(m), files', faults + (IF 0 > 0 THEN 1 ELSE 0))
  BY <1>1, <1>2, <1>5, <1>6, EndOk
<1> QED BY <1>5, <1>7 DEF IInv

LEMMA ChdirKeeps ==
  ASSUME IInv, NEW arg \in Paths, Chdir(arg)
  PROVE  IInv'
<1>1. faults \in Nat /\ \E g \in Cards : At(g, vol, files, faults)
  BY DEF IInv, Inv
<1>2. PICK g \in Cards : At(g, vol, files, faults)
  BY <1>1
<1> DEFINE k == Troubled(g, 0)
           s == Start(Closed, 0)
           m == f_chdir(s, arg)
<1>3. Closed \in Objects(g)
  BY <1>2, AnyFile
<1>4. k \in Cards /\ ~k.still /\ s \in Work(k)
  BY <1>2, <1>3, CallBegins
<1>5. vol' = Rest(m) /\ files' = files /\ faults' = faults + (IF 0 > 0 THEN 1 ELSE 0)
  BY Zenon DEF Chdir, ChangesTo, Now, Returned
<1> HIDE DEF s
<1>6. m \in Work(k)
  BY <1>4, FChdir
<1> HIDE DEF m
<1>7. Inv(Rest(m), files', faults + (IF 0 > 0 THEN 1 ELSE 0))
  BY <1>1, <1>2, <1>5, <1>6, EndOk
<1> QED BY <1>5, <1>7 DEF IInv

-----------------------------------------------------------------------------
(* The beginning, the loss of power, and every step.                       *)

LEMMA FatInit ==
  ASSUME CSize > 1, Init
  PROVE  IInv
<1>1. PICK v \in Volumes : InitFrom(v, Opened(v))
  BY Zenon DEF Init
<1>2. faults = 0
  BY Zenon DEF Init
<1> DEFINE g == CardOf(v)
           o == Opened(v)
<1>3. VolumeOk(v)
  BY UseOk
<1>4. g \in Cards /\ OpenedOk(o, g)
  BY <1>3, AllOpened
<1>5. ~g.still /\ (g.quiet <=> faults = 0)
  BY <1>2 DEF CardOf
<1>6. vol = o.m /\ files = [h \in Handles |-> IF h \in DOMAIN o.f THEN o.f[h] ELSE Closed]
  BY <1>1, Zenon DEF InitFrom
<1> HIDE DEF g, o
<1>7. files \in [Handles -> Objects(g)]
  <2>1. Closed \in Objects(g)
    BY <1>4, ClosedOk DEF Objects
  <2>2. \A h \in DOMAIN o.f : o.f[h] \in Objects(g)
    BY <1>4 DEF OpenedOk
  <2> QED BY <1>6, <2>1, <2>2
<1>8. At(g, vol, files, faults)
  BY <1>4, <1>5, <1>6, <1>7 DEF At, OpenedOk
<1>9. faults \in Nat
  BY <1>2
<1> QED BY <1>4, <1>8, <1>9 DEF IInv, Inv

LEMMA PowerOffKeeps ==
  ASSUME IInv, PowerOff
  PROVE  IInv'
<1>1. faults \in Nat /\ \E g \in Cards : At(g, vol, files, faults)
  BY DEF IInv, Inv
<1>2. PICK g \in Cards : At(g, vol, files, faults)
  BY <1>1
<1> DEFINE x == IF vol.wflag \/ vol.fsi \/ \E h \in Handles : files[h].open THEN 1 ELSE 0
           k == Troubled(g, x)
           d == vol.disk
           v == file_init(d)
<1>3. vol' = v /\ files' = [h \in Handles |-> Closed] /\ faults' = faults + x
  BY Zenon DEF PowerOff
<1>4. x \in Nat
  OBVIOUS
<1> HIDE DEF x
<1>5. /\ k \in Cards /\ k.still = g.still /\ k.quiet = (g.quiet /\ x = 0)
      /\ Work(g) \subseteq Work(k) /\ Objects(k) = Objects(g)
  BY <1>4, TroubledOk
<1> HIDE DEF k
<1>6. vol \in Work(k) /\ ~k.still
  BY <1>2, <1>5 DEF At
<1>7. d \in [Sectors -> Content] /\ DiskOk(d, k)
  BY <1>6 DEF Work, Card, State
<1> HIDE DEF d
<1>8. v \in Work(k) /\ v.left = 0 /\ ~v.failed
  BY <1>5, <1>6, <1>7, FileInit
<1> HIDE DEF v
<1>9. files' \in [Handles -> Objects(k)]
  <2>1. Closed \in Objects(k)
    BY <1>5, ClosedOk DEF Objects
  <2> QED BY <1>3, <2>1
<1>10. faults' \in Nat /\ (k.quiet <=> faults' = 0)
  <2>1. faults' = 0 <=> faults = 0 /\ x = 0
    BY <1>1, <1>3, <1>4
  <2>2. g.quiet <=> faults = 0
    BY <1>2 DEF At
  <2>3. faults' \in Nat
    BY <1>1, <1>3, <1>4
  <2>4. k.quiet <=> g.quiet /\ x = 0
    BY <1>5
  <2> QED BY <2>1, <2>2, <2>3, <2>4, Zenon
<1>11. At(k, vol', files', faults')
  BY <1>3, <1>5, <1>6, <1>8, <1>9, <1>10 DEF At
<1> QED BY <1>5, <1>10, <1>11 DEF IInv, Inv

LEMMA FatNext ==
  ASSUME CSize > 1, DirPer > 1, IInv, [Next]_vars
  PROVE  IInv'
<1>1. CASE UNCHANGED vars
  <2>1. vol' = vol /\ files' = files /\ faults' = faults
    BY <1>1, Zenon DEF vars
  <2> QED BY <2>1 DEF IInv
<1>2. CASE PowerOff
  BY <1>2, PowerOffKeeps
<1>3. ASSUME NEW x \in Faults, NEW h \in Handles, NEW arg \in Args, NEW mode \in Modes, Open(h, arg, mode, x) PROVE IInv'
  BY <1>3, UseOk, OpenKeeps
<1>4. ASSUME NEW x \in Faults, NEW h \in Handles, NEW n \in Counts, Read(h, n, x) PROVE IInv'
  BY <1>4, UseOk, ReadKeeps
<1>5. ASSUME NEW x \in Faults, NEW h \in Handles, NEW data \in Data, Write(h, data, x) PROVE IInv'
  BY <1>5, UseOk, WriteKeeps
<1>6. ASSUME NEW x \in Faults, NEW h \in Handles, NEW ofs \in Offsets, Lseek(h, ofs, x) PROVE IInv'
  BY <1>6, UseOk, LseekKeeps
<1>7. ASSUME NEW x \in Faults, NEW h \in Handles, Truncate(h, x) PROVE IInv'
  BY <1>7, UseOk, TruncateKeeps
<1>8. ASSUME NEW x \in Faults, NEW h \in Handles, Sync(h, x) PROVE IInv'
  BY <1>8, UseOk, SyncKeeps
<1>9. ASSUME NEW x \in Faults, NEW h \in Handles, Close(h, x) PROVE IInv'
  BY <1>9, UseOk, CloseKeeps
<1>10. ASSUME NEW x \in Faults, NEW arg \in Args, Unlink(arg, x) PROVE IInv'
  BY <1>10, UseOk, UnlinkKeeps
<1>11. ASSUME NEW x \in Faults, NEW arg \in Args, Utime(arg, x) PROVE IInv'
  BY <1>11, UseOk, UtimeKeeps
<1>12. ASSUME NEW x \in Faults, NEW arg \in Args, Chmod(arg, {"RDO"}, x) PROVE IInv'
  <2> DEFINE value == {"RDO"}
  <2>1. Chmod(arg, value, x)
    BY <1>12
  <2> HIDE DEF value
  <2> QED BY <2>1, UseOk, ChmodKeeps
<1>13. ASSUME NEW x \in Faults, NEW arg \in NewDirs, Mkdir(arg, x) PROVE IInv'
  BY <1>13, UseOk, MkdirKeeps
<1>14. ASSUME NEW x \in Faults, NEW mv \in Moves, Rename(mv[1], mv[2], x) PROVE IInv'
  BY <1>14, UseOk, RenameKeeps
<1>15. ASSUME NEW x \in Faults, Setlabel("L", x) PROVE IInv'
  BY <1>15, UseOk, SetlabelKeeps
<1>16. ASSUME NEW arg \in Args, Stat(arg) PROVE IInv'
  BY <1>16, UseOk, StatKeeps
<1>17. ASSUME NEW arg \in {<<"/">>, <<"D">>}, List(arg) PROVE IInv'
  <2>1. arg \in Paths
    BY <1>17, UseOk
  <2> QED BY <1>17, <2>1, ListKeeps
<1>18. ASSUME NEW arg \in {<<"D">>, <<"..">>}, Chdir(arg) PROVE IInv'
  <2>1. arg \in Paths
    BY <1>18, UseOk
  <2> QED BY <1>18, <2>1, ChdirKeeps
<1>19. CASE Getfree
  BY <1>19, GetfreeKeeps
<1>20. CASE Getlabel
  BY <1>20, GetlabelKeeps
<1>21. CASE Getcwd
  BY <1>21, GetcwdKeeps
<1>22. [Next]_vars
  OBVIOUS
<1> QED
  BY <1>1, <1>2, <1>3, <1>4, <1>5, <1>6, <1>7, <1>8, <1>9, <1>10, <1>11, <1>12, <1>13, <1>14,
     <1>15, <1>16, <1>17, <1>18, <1>19, <1>20, <1>21, <1>22, Zenon DEF Next

-----------------------------------------------------------------------------
(* What follows from the invariant, and calls that only look.              *)

LEMMA ShapeIs ==
  ASSUME NEW g \in Cards, NEW d \in [Sectors -> Content], Layout(d, g)
  PROVE  LET v == Shape(d) IN
         /\ v.bsect = g.bsect /\ v.type = g.type /\ v.n_fats = g.n_fats
         /\ FatBase(v) = FatBase(g) /\ FatBase(g) \in Nat /\ RootBase(g) \in Nat
         /\ RootBase(g) = FatBase(g) + g.n_fats * FatSize
         /\ g.n_fats = 1 => RootBase(g) = FatBase(g) + FatSize
         /\ g.n_fats = 2 => RootBase(g) = FatBase(g) + FatSize + FatSize /\ 2 * FatSize = FatSize + FatSize
         /\ FatSize \in Nat /\ FatBase(g)..RootBase(g) - 1 \subseteq Sectors
<1> DEFINE v == Shape(d)
<1>1. v = [bsect |-> g.bsect, type |-> g.type, n_fats |-> g.n_fats]
  BY DEF Shape, Layout
<1>2. v.bsect = g.bsect /\ v.type = g.type /\ v.n_fats = g.n_fats
  BY <1>1
<1> HIDE DEF v
<1>3. FatBase(v) = FatBase(g) /\ FatBase(g) \in Nat /\ FatSize \in Nat
  BY <1>2, LowSectors, SizeOfFat DEF FatBase
<1>4. RootBase(g) = FatBase(g) + g.n_fats * FatSize
  BY DEF RootBase
<1>5. g.n_fats = 1 => RootBase(g) = FatBase(g) + FatSize
  BY <1>3, <1>4
<1>6. g.n_fats = 2 => RootBase(g) = FatBase(g) + FatSize + FatSize /\ 2 * FatSize = FatSize + FatSize
  BY <1>3, <1>4
<1>7. RootBase(g) \in Nat /\ FatBase(g)..RootBase(g) - 1 \subseteq Sectors
  <2>1. RootBase(g) \in Nat /\ RootBase(g) <= LastSector + 1 /\ LastSector \in Int
    <3> DEFINE k == NRoot \div DirPer
    <3>1. RootBase(g) \in Nat /\ RootBase(g) + k <= LastSector + 1 /\ LastSector \in Nat /\ k \in Nat
      BY Regions, SizeOfFat
    <3> HIDE DEF k
    <3> QED BY <3>1
  <2> QED BY <1>3, <2>1 DEF Sectors
<1> QED BY <1>2, <1>3, <1>4, <1>5, <1>6, <1>7 DEF v

LEMMA CopiesAre ==
  ASSUME NEW g \in Cards, NEW d \in [Sectors -> Content], Layout(d, g), NEW s \in Sectors
  PROVE  s \in Copies(d) <=> Copy(g, s)
<1> DEFINE v == Shape(d)
<1>1. /\ v.n_fats = g.n_fats /\ FatBase(v) = FatBase(g) /\ FatBase(g) \in Nat /\ RootBase(g) \in Nat /\ FatSize \in Nat
      /\ g.n_fats = 1 => RootBase(g) = FatBase(g) + FatSize
      /\ g.n_fats = 2 => RootBase(g) = FatBase(g) + FatSize + FatSize /\ 2 * FatSize = FatSize + FatSize
  BY ShapeIs
<1>2. s \in Nat /\ (g.n_fats = 1 \/ g.n_fats = 2)
  BY DEF Sectors, Cards
<1>3. Copies(d) = IF v.n_fats = 2 THEN FatBase(v) + FatSize..FatBase(v) + 2 * FatSize - 1 ELSE {}
  BY DEF Copies
<1> HIDE DEF v
<1> DEFINE a == FatBase(g)
           b == FatSize
           r == RootBase(g)
           c == Copies(d)
<1>4. /\ a \in Nat /\ r \in Nat /\ b \in Nat
      /\ g.n_fats = 1 => r = a + b
      /\ g.n_fats = 2 => r = a + b + b
      /\ c = IF g.n_fats = 2 THEN a + b..a + (b + b) - 1 ELSE {}
  BY <1>1, <1>3
<1>5. Copy(g, s) <=> a + b <= s /\ s < r
  BY DEF Copy
<1> HIDE DEF a, b, r, c
<1> QED BY <1>2, <1>4, <1>5 DEF c

LEMMA FatTypes == IInv => TypeOK
<1> SUFFICES ASSUME IInv PROVE TypeOK
  OBVIOUS
<1>1. PICK g \in Cards : At(g, vol, files, faults)
  BY DEF IInv, Inv
<1> DEFINE d == vol.disk
           v == Shape(d)
           fat == FatBase(v)..FatBase(v) + v.n_fats * FatSize - 1
           w == vol.winsect
<1>2. d \in [Sectors -> Content] /\ Layout(d, g) /\ WindowOk(vol, g) /\ vol.wflag \in BOOLEAN
  BY <1>1 DEF At, Work, Card, DiskOk, State
<1>3. /\ v.bsect = g.bsect /\ v.n_fats = g.n_fats /\ FatBase(v) = FatBase(g)
      /\ FatBase(g) \in Nat /\ RootBase(g) \in Nat /\ FatSize \in Nat
      /\ RootBase(g) = FatBase(g) + g.n_fats * FatSize
      /\ g.n_fats = 1 => RootBase(g) = FatBase(g) + FatSize
      /\ FatBase(g)..RootBase(g) - 1 \subseteq Sectors
  BY <1>2, ShapeIs
<1>4. fat = FatBase(g)..RootBase(g) - 1
  <2> DEFINE b == v.n_fats * FatSize
             c == g.n_fats * FatSize
  <2>1. b = c /\ FatBase(v) = FatBase(g) /\ RootBase(g) = FatBase(g) + c
    BY <1>3
  <2>2. fat = FatBase(v)..FatBase(v) + b - 1
    OBVIOUS
  <2>3. c \in Nat
    <3>1. g.n_fats \in Nat /\ FatSize \in Nat
      BY <1>3 DEF Cards
    <3> QED BY <3>1, Times
  <2> HIDE DEF fat, b, c
  <2>4. FatBase(v) + b - 1 = RootBase(g) - 1
    BY <1>3, <2>1, <2>3
  <2> QED BY <2>1, <2>2, <2>4
<1> HIDE DEF fat, v
<1>5. w \in Sectors /\ ~Copy(g, w) /\ w \in Int
  BY <1>2 DEF WindowOk, Sectors
<1>6. w \in fat <=> InFat(g, w)
  <2>1. w \in fat <=> FatBase(g) <= w /\ w < RootBase(g)
    BY <1>3, <1>4, <1>5
  <2>2. InFat(g, w) => w < RootBase(g)
    <3>1. FatBase(g) + FatSize <= RootBase(g)
      BY Regions
    <3> QED BY <1>3, <1>5, <3>1 DEF InFat
  <2>3. ~(FatBase(g) + FatSize <= w /\ w < RootBase(g))
    BY <1>5 DEF Copy
  <2> QED BY <1>3, <1>5, <2>1, <2>2, <2>3 DEF InFat
<1>7. d[v.bsect].kind = "boot" /\ w \in DOMAIN d
  BY <1>2, <1>3, <1>5 DEF Layout
<1>8. \A s \in fat : d[s].kind = "fat"
  <2> TAKE s \in fat
  <2>1. s \in Sectors /\ FatBase(g) <= s /\ s < RootBase(g)
    BY <1>3, <1>4
  <2> QED BY <1>2, <2>1 DEF Layout
<1>9. vol.wflag => w >= FatBase(v) /\ (w \in fat <=> vol.win.kind = "fat")
  <2> SUFFICES ASSUME vol.wflag PROVE w >= FatBase(v) /\ (w \in fat <=> vol.win.kind = "fat")
    OBVIOUS
  <2>1. FatBase(g) <= w /\ (InFat(g, w) <=> vol.win.kind = "fat")
    BY <1>2 DEF WindowOk
  <2>2. w >= FatBase(v)
    BY <1>3, <1>5, <2>1
  <2> QED BY <1>6, <2>1, <2>2
<1>10. ~vol.wflag /\ w >= FatBase(v) => vol.win.kind = d[w].kind /\ vol.win = d[w]
  BY <1>2, <1>3, <1>5 DEF WindowOk
<1> QED BY <1>7, <1>8, <1>9, <1>10 DEF TypeOK, fat, v

LEMMA FatMirrors == IInv => Mirrored
<1> SUFFICES ASSUME IInv, faults = 0, NEW s, Shape(vol.disk).n_fats = 2,
                    s \in FatBase(Shape(vol.disk))..FatBase(Shape(vol.disk)) + FatSize - 1
             PROVE  vol.disk[s + FatSize] = vol.disk[s]
  BY DEF Mirrored
<1>1. PICK g \in Cards : At(g, vol, files, faults)
  BY DEF IInv, Inv
<1> DEFINE d == vol.disk
           v == Shape(d)
<1>2. d \in [Sectors -> Content] /\ Layout(d, g) /\ Mirrors(d, g)
  BY <1>1 DEF At, Work, Card, DiskOk, State
<1>3. /\ v.n_fats = g.n_fats /\ FatBase(v) = FatBase(g)
      /\ FatBase(g) \in Nat /\ RootBase(g) \in Nat /\ FatSize \in Nat
      /\ g.n_fats = 2 => RootBase(g) = FatBase(g) + FatSize + FatSize
      /\ FatBase(g)..RootBase(g) - 1 \subseteq Sectors
  BY <1>2, ShapeIs
<1>4. g.n_fats = 2 /\ s \in FatBase(g)..FatBase(g) + FatSize - 1
  BY <1>3
<1> HIDE DEF v
<1>5. s \in Sectors /\ FatBase(g) <= s /\ s < FatBase(g) + FatSize
  BY <1>3, <1>4
<1> QED BY <1>2, <1>4, <1>5 DEF Mirrors, InFat

(* A call that only looks, watched from its start.                          *)
LEMMA CallWatched ==
  ASSUME NEW g \in Cards, NEW f \in Objects(g), NEW x \in Nat, At(g, vol, files, faults)
  PROVE  LET j == Watched(Troubled(g, x), vol) IN
         /\ j \in Cards /\ Start(f, x) \in Work(j)
         /\ \A m \in Work(j) : \A s \in DOMAIN vol.disk \ Copies(vol.disk) : View(Rest(m))[s] = View(vol)[s]
<1> DEFINE k == Troubled(g, x)
           j == Watched(k, vol)
<1>1. /\ k \in Cards /\ k.quiet = (g.quiet /\ x = 0)
      /\ Work(g) \subseteq Work(k) /\ Objects(k) = Objects(g)
  BY TroubledOk
<1> HIDE DEF k
<1>2. vol \in Work(k) /\ f \in Objects(k) /\ ~vol.failed
  BY <1>1 DEF At
<1>3. /\ j \in Cards /\ vol \in Work(j) /\ Objects(j) = Objects(k) /\ j.quiet = k.quiet /\ j.view = View(vol)
      /\ j.still /\ \A s : Copy(j, s) <=> Copy(k, s)
  BY <1>1, <1>2, WatchedOk
<1> HIDE DEF j
<1>4. j.quiet => x = 0
  BY <1>1, <1>3
<1>5. Start(f, x) \in Work(j)
  BY <1>2, <1>3, <1>4, StartOk
<1>6. vol.disk \in [Sectors -> Content] /\ Layout(vol.disk, j)
  BY <1>3 DEF Work, Card, DiskOk, State
<1>7. ASSUME NEW m \in Work(j), NEW s \in DOMAIN vol.disk \ Copies(vol.disk)
      PROVE  View(Rest(m))[s] = View(vol)[s]
  <2>1. s \in Sectors /\ s \notin Copies(vol.disk)
    BY <1>6
  <2>2. ~Copy(j, s)
    BY <1>3, <1>6, <2>1, CopiesAre
  <2> QED BY <1>3, <2>1, <2>2, SameView
<1> QED BY <1>3, <1>5, <1>7 DEF j, k

LEMMA ReadStays ==
  ASSUME IInv, NEW h \in Handles, NEW n \in Nat, NEW x \in Nat, Read(h, n, x)
  PROVE  SameVolume
<1>1. PICK g \in Cards : At(g, vol, files, faults)
  BY DEF IInv, Inv
<1> DEFINE j == Watched(Troubled(g, x), vol)
           s == Start(files[h], x)
           m == f_read(s, n)
<1>2. files[h] \in Objects(g)
  BY <1>1, AnyFile
<1>3. /\ j \in Cards /\ s \in Work(j)
      /\ \A a \in Work(j) : \A i \in DOMAIN vol.disk \ Copies(vol.disk) : View(Rest(a))[i] = View(vol)[i]
  BY <1>1, <1>2, CallWatched
<1>4. vol' = Rest(m)
  BY Zenon DEF Read, Reads, Returned
<1> HIDE DEF s, j
<1>5. m \in Work(j)
  BY <1>3, FRead
<1> HIDE DEF m
<1> QED BY <1>3, <1>4, <1>5 DEF SameVolume

LEMMA StatStays ==
  ASSUME IInv, NEW arg \in Paths, Stat(arg)
  PROVE  SameVolume
<1>1. PICK g \in Cards : At(g, vol, files, faults)
  BY DEF IInv, Inv
<1> DEFINE j == Watched(Troubled(g, 0), vol)
           s == Start(Closed, 0)
           m == f_stat(s, arg)
<1>2. Closed \in Objects(g)
  BY <1>1, AnyFile
<1>3. /\ j \in Cards /\ s \in Work(j)
      /\ \A a \in Work(j) : \A i \in DOMAIN vol.disk \ Copies(vol.disk) : View(Rest(a))[i] = View(vol)[i]
  BY <1>1, <1>2, CallWatched
<1>4. vol' = Rest(m)
  BY Zenon DEF Stat, Ask, Answers, Now, Returned
<1> HIDE DEF s, j
<1>5. m \in Work(j)
  BY <1>3, FStat
<1> HIDE DEF m
<1> QED BY <1>3, <1>4, <1>5 DEF SameVolume

LEMMA ListStays ==
  ASSUME IInv, NEW arg \in Paths, List(arg)
  PROVE  SameVolume
<1>1. PICK g \in Cards : At(g, vol, files, faults)
  BY DEF IInv, Inv
<1> DEFINE j == Watched(Troubled(g, 0), vol)
           s == Start(Closed, 0)
           m == Then(f_opendir(s, arg), Listing)
<1>2. Closed \in Objects(g)
  BY <1>1, AnyFile
<1>3. /\ j \in Cards /\ s \in Work(j)
      /\ \A a \in Work(j) : \A i \in DOMAIN vol.disk \ Copies(vol.disk) : View(Rest(a))[i] = View(vol)[i]
  BY <1>1, <1>2, CallWatched
<1>4. vol' = Rest(m)
  BY Zenon DEF List, Ask, Answers, Now, Returned
<1> HIDE DEF s, j
<1>5. m \in Work(j)
  BY <1>3, ListedOk
<1> HIDE DEF m
<1> QED BY <1>3, <1>4, <1>5 DEF SameVolume

LEMMA GetfreeStays ==
  ASSUME IInv, Getfree
  PROVE  SameVolume
<1>1. PICK g \in Cards : At(g, vol, files, faults)
  BY DEF IInv, Inv
<1> DEFINE j == Watched(Troubled(g, 0), vol)
           s == Start(Closed, 0)
           m == f_getfree(s)
<1>2. Closed \in Objects(g)
  BY <1>1, AnyFile
<1>3. /\ j \in Cards /\ s \in Work(j)
      /\ \A a \in Work(j) : \A i \in DOMAIN vol.disk \ Copies(vol.disk) : View(Rest(a))[i] = View(vol)[i]
  BY <1>1, <1>2, CallWatched
<1>4. vol' = Rest(m)
  BY Zenon DEF Getfree, Ask, Answers, Now, Returned
<1> HIDE DEF s, j
<1>5. m \in Work(j)
  BY <1>3, FGetfree
<1> HIDE DEF m
<1> QED BY <1>3, <1>4, <1>5 DEF SameVolume

LEMMA GetlabelStays ==
  ASSUME IInv, Getlabel
  PROVE  SameVolume
<1>1. PICK g \in Cards : At(g, vol, files, faults)
  BY DEF IInv, Inv
<1> DEFINE j == Watched(Troubled(g, 0), vol)
           s == Start(Closed, 0)
           m == f_getlabel(s)
<1>2. Closed \in Objects(g)
  BY <1>1, AnyFile
<1>3. /\ j \in Cards /\ s \in Work(j)
      /\ \A a \in Work(j) : \A i \in DOMAIN vol.disk \ Copies(vol.disk) : View(Rest(a))[i] = View(vol)[i]
  BY <1>1, <1>2, CallWatched
<1>4. vol' = Rest(m)
  BY Zenon DEF Getlabel, Ask, Answers, Now, Returned
<1> HIDE DEF s, j
<1>5. m \in Work(j)
  BY <1>3, FGetlabel
<1> HIDE DEF m
<1> QED BY <1>3, <1>4, <1>5 DEF SameVolume

LEMMA GetcwdStays ==
  ASSUME IInv, Getcwd
  PROVE  SameVolume
<1>1. PICK g \in Cards : At(g, vol, files, faults)
  BY DEF IInv, Inv
<1> DEFINE j == Watched(Troubled(g, 0), vol)
           s == Start(Closed, 0)
           m == f_getcwd(s)
<1>2. Closed \in Objects(g)
  BY <1>1, AnyFile
<1>3. /\ j \in Cards /\ s \in Work(j)
      /\ \A a \in Work(j) : \A i \in DOMAIN vol.disk \ Copies(vol.disk) : View(Rest(a))[i] = View(vol)[i]
  BY <1>1, <1>2, CallWatched
<1>4. vol' = Rest(m)
  BY Zenon DEF Getcwd, Ask, Answers, Now, Returned
<1> HIDE DEF s, j
<1>5. m \in Work(j)
  BY <1>3, FGetcwd
<1> HIDE DEF m
<1> QED BY <1>3, <1>4, <1>5 DEF SameVolume

LEMMA ChdirStays ==
  ASSUME IInv, NEW arg \in Paths, Chdir(arg)
  PROVE  SameVolume
<1>1. PICK g \in Cards : At(g, vol, files, faults)
  BY DEF IInv, Inv
<1> DEFINE j == Watched(Troubled(g, 0), vol)
           s == Start(Closed, 0)
           m == f_chdir(s, arg)
<1>2. Closed \in Objects(g)
  BY <1>1, AnyFile
<1>3. /\ j \in Cards /\ s \in Work(j)
      /\ \A a \in Work(j) : \A i \in DOMAIN vol.disk \ Copies(vol.disk) : View(Rest(a))[i] = View(vol)[i]
  BY <1>1, <1>2, CallWatched
<1>4. vol' = Rest(m)
  BY Zenon DEF Chdir, ChangesTo, Now, Returned
<1> HIDE DEF s, j
<1>5. m \in Work(j)
  BY <1>3, FChdir
<1> HIDE DEF m
<1> QED BY <1>3, <1>4, <1>5 DEF SameVolume

-----------------------------------------------------------------------------
(* Theorems.                                                               *)

(* The answer of a call says which call it was.                             *)
LEMMA AnswerOf ==
  ASSUME NEW m, NEW x, NEW op, NEW got, NEW want, Returned(m, x, op, got, want)
  PROVE  last'.op = op
<1>1. last' = [op |-> op, res |-> m.res, got |-> [o \in {op} |-> got], want |-> [o \in {op} |-> want]]
  BY Zenon DEF Returned
<1> QED BY <1>1

LEMMA OtherCalls ==
  ASSUME last'.op \in {"f_open", "f_write", "f_lseek", "f_truncate", "f_sync", "f_close", "f_unlink",
                       "f_mkdir", "f_rename", "f_chmod", "f_utime", "f_setlabel", ""}
  PROVE  Still
BY Zenon DEF Still, Questions

LEMMA SilenceStill == PowerOff => Still
<1> SUFFICES ASSUME PowerOff PROVE Still
  OBVIOUS
<1> DEFINE none == ""
<1>1. Silence.op = none
  <2> DEFINE ok == "OK"
             e == <<>>
  <2>1. Silence = [op |-> none, res |-> ok, got |-> e, want |-> e]
    BY Zenon DEF Silence
  <2> HIDE DEF none, ok, e
  <2> QED BY <2>1
<1>2. last' = Silence
  BY Zenon DEF PowerOff
<1> HIDE DEF Silence
<1>3. last'.op = none
  BY <1>1, <1>2, Zenon
<1> QED BY <1>3, OtherCalls, Zenon DEF none

LEMMA OpenOther ==
  ASSUME NEW h, NEW arg, NEW mode, NEW x, Open(h, arg, mode, x)
  PROVE  Still
<1>1. \E m, got, want, y : Returned(m, y, "f_open", got, want)
  BY Zenon DEF Open, Opens
<1>2. last'.op = "f_open"
  BY <1>1, AnswerOf, Zenon
<1> QED BY <1>2, OtherCalls, Zenon

LEMMA WriteOther ==
  ASSUME NEW h, NEW data, NEW x, Write(h, data, x)
  PROVE  Still
<1>1. \E m, got, want, y : Returned(m, y, "f_write", got, want)
  BY Zenon DEF Write, Writes
<1>2. last'.op = "f_write"
  BY <1>1, AnswerOf, Zenon
<1> QED BY <1>2, OtherCalls, Zenon

LEMMA LseekOther ==
  ASSUME NEW h, NEW ofs, NEW x, Lseek(h, ofs, x)
  PROVE  Still
<1>1. \E m, got, want, y : Returned(m, y, "f_lseek", got, want)
  BY Zenon DEF Lseek, Seeks
<1>2. last'.op = "f_lseek"
  BY <1>1, AnswerOf, Zenon
<1> QED BY <1>2, OtherCalls, Zenon

LEMMA TruncateOther ==
  ASSUME NEW h, NEW x, Truncate(h, x)
  PROVE  Still
<1>1. \E m, got, want, y : Returned(m, y, "f_truncate", got, want)
  BY Zenon DEF Truncate, Truncates
<1>2. last'.op = "f_truncate"
  BY <1>1, AnswerOf, Zenon
<1> QED BY <1>2, OtherCalls, Zenon

LEMMA SyncOther ==
  ASSUME NEW h, NEW x, Sync(h, x)
  PROVE  Still
<1>1. \E m, got, want, y : Returned(m, y, "f_sync", got, want)
  BY Zenon DEF Sync, Saves
<1>2. last'.op = "f_sync"
  BY <1>1, AnswerOf, Zenon
<1> QED BY <1>2, OtherCalls, Zenon

LEMMA CloseOther ==
  ASSUME NEW h, NEW x, Close(h, x)
  PROVE  Still
<1>1. \E m, got, want, y : Returned(m, y, "f_close", got, want)
  BY Zenon DEF Close, Saves
<1>2. last'.op = "f_close"
  BY <1>1, AnswerOf, Zenon
<1> QED BY <1>2, OtherCalls, Zenon

LEMMA UnlinkOther ==
  ASSUME NEW arg, NEW x, Unlink(arg, x)
  PROVE  Still
<1>1. \E m, got, want, y : Returned(m, y, "f_unlink", got, want)
  BY Zenon DEF Unlink, Alters
<1>2. last'.op = "f_unlink"
  BY <1>1, AnswerOf, Zenon
<1> QED BY <1>2, OtherCalls, Zenon

LEMMA MkdirOther ==
  ASSUME NEW arg, NEW x, Mkdir(arg, x)
  PROVE  Still
<1>1. \E m, got, want, y : Returned(m, y, "f_mkdir", got, want)
  BY Zenon DEF Mkdir, Alters
<1>2. last'.op = "f_mkdir"
  BY <1>1, AnswerOf, Zenon
<1> QED BY <1>2, OtherCalls, Zenon

LEMMA RenameOther ==
  ASSUME NEW old, NEW new, NEW x, Rename(old, new, x)
  PROVE  Still
<1>1. \E m, got, want, y : Returned(m, y, "f_rename", got, want)
  BY Zenon DEF Rename, Renames
<1>2. last'.op = "f_rename"
  BY <1>1, AnswerOf, Zenon
<1> QED BY <1>2, OtherCalls, Zenon

LEMMA ChmodOther ==
  ASSUME NEW arg, NEW value, NEW x, Chmod(arg, value, x)
  PROVE  Still
<1>1. \E m, got, want, y : Returned(m, y, "f_chmod", got, want)
  BY Zenon DEF Chmod, Stamps
<1>2. last'.op = "f_chmod"
  BY <1>1, AnswerOf, Zenon
<1> QED BY <1>2, OtherCalls, Zenon

LEMMA UtimeOther ==
  ASSUME NEW arg, NEW x, Utime(arg, x)
  PROVE  Still
<1>1. \E m, got, want, y : Returned(m, y, "f_utime", got, want)
  BY Zenon DEF Utime, Stamps
<1>2. last'.op = "f_utime"
  BY <1>1, AnswerOf, Zenon
<1> QED BY <1>2, OtherCalls, Zenon

LEMMA SetlabelOther ==
  ASSUME NEW label, NEW x, Setlabel(label, x)
  PROVE  Still
<1>1. \E m, got, want, y : Returned(m, y, "f_setlabel", got, want)
  BY Zenon DEF Setlabel, Stamps
<1>2. last'.op = "f_setlabel"
  BY <1>1, AnswerOf, Zenon
<1> QED BY <1>2, OtherCalls, Zenon

LEMMA FatStill ==
  ASSUME IInv, [Next]_vars
  PROVE  [Still]_vars
<1>1. CASE UNCHANGED vars
  BY <1>1
<1>2. CASE PowerOff
  BY <1>2, SilenceStill
<1>3. ASSUME NEW x \in Faults, NEW h \in Handles, NEW arg \in Args, NEW mode \in Modes, Open(h, arg, mode, x) PROVE Still
  BY <1>3, OpenOther
<1>4. ASSUME NEW x \in Faults, NEW h \in Handles, NEW n \in Counts, Read(h, n, x) PROVE Still
  BY <1>4, UseOk, ReadStays DEF Still
<1>5. ASSUME NEW x \in Faults, NEW h \in Handles, NEW data \in Data, Write(h, data, x) PROVE Still
  BY <1>5, WriteOther
<1>6. ASSUME NEW x \in Faults, NEW h \in Handles, NEW ofs \in Offsets, Lseek(h, ofs, x) PROVE Still
  BY <1>6, LseekOther
<1>7. ASSUME NEW x \in Faults, NEW h \in Handles, Truncate(h, x) PROVE Still
  BY <1>7, TruncateOther
<1>8. ASSUME NEW x \in Faults, NEW h \in Handles, Sync(h, x) PROVE Still
  BY <1>8, SyncOther
<1>9. ASSUME NEW x \in Faults, NEW h \in Handles, Close(h, x) PROVE Still
  BY <1>9, CloseOther
<1>10. ASSUME NEW x \in Faults, NEW arg \in Args, Unlink(arg, x) PROVE Still
  BY <1>10, UnlinkOther
<1>11. ASSUME NEW x \in Faults, NEW arg \in Args, Utime(arg, x) PROVE Still
  BY <1>11, UtimeOther
<1>12. ASSUME NEW x \in Faults, NEW arg \in Args, Chmod(arg, {"RDO"}, x) PROVE Still
  BY <1>12, ChmodOther
<1>13. ASSUME NEW x \in Faults, NEW arg \in NewDirs, Mkdir(arg, x) PROVE Still
  BY <1>13, MkdirOther
<1>14. ASSUME NEW x \in Faults, NEW mv \in Moves, Rename(mv[1], mv[2], x) PROVE Still
  BY <1>14, RenameOther
<1>15. ASSUME NEW x \in Faults, Setlabel("L", x) PROVE Still
  BY <1>15, SetlabelOther
<1>16. ASSUME NEW arg \in Args, Stat(arg) PROVE Still
  BY <1>16, UseOk, StatStays DEF Still
<1>17. ASSUME NEW arg \in {<<"/">>, <<"D">>}, List(arg) PROVE Still
  <2>1. arg \in Paths
    BY <1>17, UseOk
  <2> QED BY <1>17, <2>1, ListStays DEF Still
<1>18. ASSUME NEW arg \in {<<"D">>, <<"..">>}, Chdir(arg) PROVE Still
  <2>1. arg \in Paths
    BY <1>18, UseOk
  <2> QED BY <1>18, <2>1, ChdirStays DEF Still
<1>19. CASE Getfree
  BY <1>19, GetfreeStays DEF Still
<1>20. CASE Getlabel
  BY <1>20, GetlabelStays DEF Still
<1>21. CASE Getcwd
  BY <1>21, GetcwdStays DEF Still
<1>22. [Next]_vars
  OBVIOUS
<1>23. Still \/ UNCHANGED vars
  BY <1>1, <1>2, <1>3, <1>4, <1>5, <1>6, <1>7, <1>8, <1>9, <1>10, <1>11, <1>12, <1>13, <1>14,
     <1>15, <1>16, <1>17, <1>18, <1>19, <1>20, <1>21, <1>22, Zenon DEF Next
<1> QED BY <1>23

LEMMA FatInvariant ==
  ASSUME CSize > 1, DirPer > 1
  PROVE  Spec => []IInv
<1>1. Init => IInv
  BY FatInit
<1>2. IInv /\ [Next]_vars => IInv'
  BY FatNext
<1> QED BY <1>1, <1>2, PTL DEF Spec

(* For any card whose clusters have more than one sector and whose sectors  *)
(* hold more than one entry, any files and directories on it, any calls and *)
(* any number of faults: FATs, boot record and window keep to their places  *)
(* (move_window, sync_window and every caller that names the window's       *)
(* sector itself, src/firmware/fatfs/ff.cpp:728).                           *)
THEOREM SectorsKeepTheirKind ==
  ASSUME CSize > 1, DirPer > 1
  PROVE  Spec => []TypeOK
BY FatInvariant, FatTypes, PTL

(* On such cards, until an access fails, the second FAT repeats the first   *)
(* sector by sector (the copy loop of sync_window, ff.cpp:745).             *)
THEOREM SecondFatRepeatsFirst ==
  ASSUME CSize > 1, DirPer > 1
  PROVE  Spec => []Mirrored
BY FatInvariant, FatMirrors, PTL

(* On such cards f_read, f_stat, f_readdir, f_getfree, f_getlabel, f_getcwd *)
(* and f_chdir never change what the volume shows, though they write the    *)
(* window back where it is dirty, and whichever access of an f_read fails.  *)
THEOREM LookingChangesNothing ==
  ASSUME CSize > 1, DirPer > 1
  PROVE  Spec => QuestionsOnlyLook
<1>1. IInv /\ [Next]_vars => [Still]_vars
  BY FatStill
<1> QED BY <1>1, FatInvariant, PTL DEF Spec, QuestionsOnlyLook
=============================================================================
