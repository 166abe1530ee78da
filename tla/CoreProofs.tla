------------------------------ MODULE CoreProofs ------------------------------
(***************************************************************************)
(* What a sketch has asked of its layers and sprites is what the graphics  *)
(* core shows, for any number of them, any files and any sizes, although   *)
(* layers are written from a cache and the Arduino may be reset while the  *)
(* coprocessor still writes into the core.  What the boot menu has loaded  *)
(* and drawn is on the screen while it is up.                              *)
(***************************************************************************)
EXTENDS Core, TLAPS

Fields == {"access", "bank", "camera", "sprite_z", "ctrl", "base", "place",
           "sprite", "palette", "window"}

WorkFields   == {"pc", "next", "alone", "text", "bg", "size", "pos", "at", "bank",
                 "shown", "whole"}
SketchFields == {"pc", "load", "at", "total", "word", "event", "polled"}
SpriteFields == {"enabled", "flags", "flip", "palette", "width", "height", "base", "x"}
Sprites      == 0..NUM_SPRITES - 1

(* The parts the argument looks at are functions and records.              *)
IsSprites(sprite) ==
  sprite = [s \in Sprites |-> [f \in SpriteFields |-> sprite[s][f]]]
IsSketch == sketch = [f \in SketchFields |-> sketch[f]]
Shape == /\ core = [f \in Fields |-> core[f]] /\ IsSprites(core.sprite)
         /\ s_tile_regs = [l \in Layers |-> s_tile_regs[l]]
         /\ asked = [layer |-> asked.layer, sprite |-> asked.sprite]
         /\ fw = [f \in WorkFields |-> fw[f]]

(* The coprocessor draws while the Arduino is held.  A sketch that has been *)
(* let go is still in begin when the coprocessor resets the display, or    *)
(* takes the Arduino again; from the reset of the coprocessor on, which    *)
(* ends begin, only the sketch writes registers and sprites, and transfers *)
(* only for a sketch that waits for one are begun.                         *)
Transfers == {"prepare", "bank", "ask", "wait"}
Clearing  == fw.pc \in {"init", "sprites"} /\ fw.next = "serve"
OneMaster ==
  /\ sketch.pc \in Starting => fw.pc \in {"boot", "serve", "programmed"} \/ Clearing
  /\ sketch.pc \notin {"held"} \cup Starting => fw.pc \in {"boot", "serve"}
  /\ sketch.pc \in Transfers => fw.pc = "serve"

(* What begin has reset stays reset: the coprocessor, if it is at the same *)
(* registers, only resets them as well.                                    *)
Off(s) == core.sprite[s].enabled = FALSE
Begun ==
  /\ sketch.pc \in Starting \ {"begin"} => core.ctrl = [l \in Layers |-> TileRegs]
  /\ sketch.pc \in {"disable", "disabling"} =>
       sketch.at \in Nat /\ \A s \in Sprites : s < sketch.at => Off(s)
  /\ sketch.pc = "rpc" => /\ s_tile_regs = [l \in Layers |-> TileRegs]
                          /\ \A s \in Sprites : Off(s)

CInv == Shape /\ OneMaster /\ Begun /\ AsAsked

-----------------------------------------------------------------------------
(* What the operators on the core leave alone.                             *)

IsCore(c) == c = [f \in Fields |-> c[f]]
SameLook(c, d) == d.ctrl = c.ctrl /\ d.sprite = c.sprite

\* The reset core is a core, whose layers are off.
LEMMA ResetShape ==
  ASSUME NEW c
  PROVE  /\ IsCore(Reset(c)) /\ Reset(c).sprite = c.sprite
         /\ Reset(c).ctrl = [l \in Layers |-> TileRegs]
BY DEF IsCore, Reset, PowerUp, Fields

\* Access, Bank and a write through the window change neither layers nor
\* sprites.
LEMMA WindowShape ==
  ASSUME NEW c, IsCore(c), NEW a, NEW v
  PROVE  /\ IsCore(Access(c, v)) /\ SameLook(c, Access(c, v))
         /\ IsCore(Bank(c, v)) /\ SameLook(c, Bank(c, v))
         /\ IsCore(Poke(c, a, v)) /\ SameLook(c, Poke(c, a, v))
BY DEF IsCore, SameLook, Access, Bank, Poke, Fields

LEMMA WindowSprites ==
  ASSUME NEW c, IsCore(c), NEW a, NEW v
  PROVE  /\ IsCore(Access(c, v)) /\ Access(c, v).sprite = c.sprite
         /\ IsCore(Bank(c, v)) /\ Bank(c, v).sprite = c.sprite
         /\ IsCore(Poke(c, a, v)) /\ Poke(c, a, v).sprite = c.sprite
BY WindowShape DEF SameLook

\* A sprite whose registers are changed, or one of them, stays one.
LEMMA SpriteOnly ==
  ASSUME NEW c, IsCore(c), NEW s, NEW r, NEW d, d = [c EXCEPT !.sprite[s] = r]
  PROVE  IsCore(d) /\ d.ctrl = c.ctrl /\ d.sprite = [c.sprite EXCEPT ![s] = r]
BY DEF IsCore, Fields

LEMMA SpriteSet ==
  ASSUME NEW m, IsSprites(m), NEW s, NEW r, r = [f \in SpriteFields |-> r[f]]
  PROVE  IsSprites([m EXCEPT ![s] = r])
BY DEF IsSprites

LEMMA SpriteField ==
  ASSUME NEW c, IsCore(c), IsSprites(c.sprite), NEW s, NEW f, NEW v
  PROVE  LET d == [c EXCEPT !.sprite[s][f] = v] IN
         IsCore(d) /\ d.ctrl = c.ctrl /\ IsSprites(d.sprite)
<1> DEFINE d == [c EXCEPT !.sprite[s][f] = v]
           m == c.sprite
           r == [m[s] EXCEPT ![f] = v]
<1>1. IsCore(d) /\ d.ctrl = c.ctrl /\ d.sprite = [m EXCEPT ![s] = r]
  BY DEF IsCore, Fields
<1>2. m = [t \in Sprites |-> [g \in SpriteFields |-> m[t][g]]]
  BY DEF IsSprites
<1> HIDE DEF m, d
<1>3. CASE s \in Sprites
  <2>1. r = [g \in SpriteFields |-> r[g]]
    BY <1>2, <1>3
  <2> HIDE DEF r
  <2>2. IsSprites([m EXCEPT ![s] = r])
    BY <1>2, <2>1 DEF IsSprites
  <2> QED BY <1>1, <2>2 DEF d
<1>4. CASE s \notin Sprites
  <2> HIDE DEF r
  <2>1. [m EXCEPT ![s] = r] = m
    BY <1>2, <1>4
  <2> QED BY <1>1, <2>1 DEF m, d
<1> QED BY <1>3, <1>4

-----------------------------------------------------------------------------
\* At power on the sketch has not begun.
LEMMA InitCInv == Init => CInv
<1> SUFFICES ASSUME Init PROVE CInv
  OBVIOUS
<1>1. Shape
  <2>1. IsSprites(core.sprite) /\ core = [f \in Fields |-> core[f]]
    BY DEF Init, DisplayInit, PowerUp, IsSprites, Sprites, SpriteFields, SpriteRegs, Fields
  <2> QED BY <2>1 DEF Init, DisplayInit, Shape, Booting, WorkFields
<1>2. sketch.pc = "begin" /\ fw.pc = "boot"
  BY DEF Init, DisplayInit, Booting, Resume
<1> QED BY <1>1, <1>2 DEF CInv, OneMaster, Begun, AsAsked, Starting, Transfers

\* display_init, before the boot menu and after it.
LEMMA ClearCInv ==
  CInv /\ (display_init \/ ResetSprite \/ SpritesReset) /\ UNCHANGED Others => CInv'
<1> SUFFICES ASSUME CInv, display_init \/ ResetSprite \/ SpritesReset, UNCHANGED Others
             PROVE  CInv'
  OBVIOUS
<1>1. /\ IsCore(core) /\ IsSprites(core.sprite) /\ fw = [f \in WorkFields |-> fw[f]]
      /\ UNCHANGED <<sketch, s_tile_regs, asked>>
  BY DEF CInv, Shape, IsCore, Others, sketchVars
<1>2. /\ fw.pc \in {"init", "sprites"} /\ fw' = [f \in WorkFields |-> fw'[f]]
      /\ fw'.next = fw.next /\ fw'.pc \in {"sprites", fw.next}
  BY <1>1 DEF display_init, ResetSprite, SpritesReset, AtWork, WorkFields
<1>3. sketch.pc \in {"held"} \cup Starting /\ (sketch.pc \in Starting => Clearing)
  BY <1>2 DEF CInv, OneMaster
<1>4. OneMaster'
  <2>1. sketch'.pc \in Starting => fw'.pc = "serve" \/ Clearing'
    BY <1>1, <1>2, <1>3 DEF Clearing
  <2> QED BY <2>1, <1>1, <1>3 DEF OneMaster, Transfers, Starting
<1>5. /\ IsCore(core') /\ IsSprites(core'.sprite)
      /\ core'.ctrl = core.ctrl \/ core'.ctrl = [l \in Layers |-> TileRegs]
      /\ \A s \in Sprites : Off(s) => Off(s)'
  <2>1. CASE display_init
    BY <2>1, <1>1, ResetShape DEF display_init, Off
  <2>2. CASE ResetSprite
    <3>1. core' = [core EXCEPT !.sprite[fw.pos] = SpriteRegs]
      BY <2>2 DEF ResetSprite
    <3>2. SpriteRegs = [f \in SpriteFields |-> SpriteRegs[f]] /\ SpriteRegs.enabled = FALSE
      BY DEF SpriteRegs, SpriteFields
    <3> HIDE DEF SpriteRegs
    <3>3. /\ IsCore(core') /\ IsSprites(core'.sprite) /\ core'.ctrl = core.ctrl
          /\ core'.sprite = [core.sprite EXCEPT ![fw.pos] = SpriteRegs]
      BY <1>1, <3>1, <3>2, SpriteOnly, SpriteSet
    <3>4. core.sprite = [s \in Sprites |-> core.sprite[s]]
      BY <1>1 DEF IsSprites
    <3> QED BY <3>2, <3>3, <3>4 DEF Off
  <2>3. CASE SpritesReset
    BY <2>3, <1>1 DEF SpritesReset, Off
  <2> QED BY <2>1, <2>2, <2>3
<1>6. Begun'
  BY <1>1, <1>5 DEF CInv, Begun
<1> QED BY <1>1, <1>2, <1>3, <1>4, <1>5, <1>6 DEF CInv, Shape, IsCore, AsAsked

\* What the coprocessor draws before and in its menu.
Painting == \/ display_text_init \/ display_bg_load_palette \/ LoadPalette \/ PaletteLoaded
            \/ display_bg_load_image \/ LoadImage \/ ImageLoaded \/ Menu
LEMMA PaintingHeld == CInv /\ Painting => sketch.pc = "held" /\ fw.pc # "serve"
BY DEF CInv, OneMaster, Clearing, Painting, Menu, display_text_init,
       display_bg_load_palette, LoadPalette, PaletteLoaded, display_bg_load_image,
       LoadImage, ImageLoaded, display_text_clear, display_text_render, Draw, AtWork

LEMMA PaintingCInv == CInv /\ Painting /\ UNCHANGED Others => CInv'
<1> SUFFICES ASSUME CInv, Painting, UNCHANGED Others PROVE CInv'
  OBVIOUS
<1>1. sketch.pc = "held" /\ UNCHANGED <<sketch, s_tile_regs, asked>>
  BY PaintingHeld DEF Others, sketchVars
<1>2. IsCore(core) /\ IsSprites(core.sprite) /\ fw = [f \in WorkFields |-> fw[f]]
  BY DEF CInv, Shape, IsCore
<1>3. IsCore(core') /\ core'.sprite = core.sprite
  <2>2. CASE display_text_init
    <3> DEFINE c == Access(Bank(core, TILEMAP_BANK), FALSE)
    <3>1. IsCore(c) /\ c.sprite = core.sprite
      <4> DEFINE e == Bank(core, TILEMAP_BANK)
      <4>1. IsCore(e) /\ e.sprite = core.sprite
        BY <1>2, WindowSprites
      <4> HIDE DEF e
      <4>2. IsCore(Access(e, FALSE)) /\ Access(e, FALSE).sprite = e.sprite
        BY <4>1, WindowSprites
      <4> QED BY <4>1, <4>2 DEF e
    <3> DEFINE w == WithFont(core)
    <3>2. IsCore(w) /\ w.sprite = core.sprite
      BY <3>1 DEF WithFont, IsCore, Fields
    <3> HIDE DEF w
    <3> DEFINE Keeps(d) == IsCore(d) /\ d.sprite = core.sprite
    <3>3. \A d : Keeps(d) =>
            \A a, b, v : /\ Keeps([d EXCEPT !.palette[a] = v])
                         /\ Keeps([d EXCEPT !.window[b][a] = v])
                         /\ Keeps([d EXCEPT !.ctrl[a] = v])
                         /\ Keeps([d EXCEPT !.base[a] = v])
      BY DEF IsCore, Fields
    <3>4. Keeps(w)
      BY <3>2
    <3> HIDE DEF Keeps
    <3>5. \A p, k, r, b : Keeps([w EXCEPT !.palette[TextLayer] = p,
                            !.window[TILEMAP_BANK][TextLayer] = k,
                            !.ctrl[TextLayer] = r, !.base[TextLayer] = b])
      BY <3>3, <3>4
    <3>6. Keeps(core')
      BY <2>2, <3>5 DEF display_text_init, w
    <3> QED BY <3>6 DEF Keeps
  <2>3. CASE LoadPalette
    BY <2>3, <1>2 DEF LoadPalette, IsCore, Fields
  <2>4. CASE display_bg_load_image
    <3> DEFINE e == Access(core, TRUE)
    <3>1. IsCore(e) /\ e.sprite = core.sprite
      BY <1>2, WindowSprites
    <3> HIDE DEF e
    <3>2. \A b : IsCore(Bank(e, b)) /\ Bank(e, b).sprite = e.sprite
      BY <3>1, WindowSprites
    <3> QED BY <2>4, <1>2, <3>1, <3>2 DEF display_bg_load_image, e
  <2>5. CASE LoadImage
    <3>1. \A v : IsCore(Poke(core, fw.at, v)) /\ Poke(core, fw.at, v).sprite = core.sprite
      BY <1>2, WindowSprites
    <3> DEFINE e == Poke(core, fw.at, Cell(BgImage, fw.pos))
    <3>2. IsCore(e) /\ e.sprite = core.sprite
      BY <3>1
    <3> HIDE DEF e
    <3>3. \A b : IsCore(Bank(e, b)) /\ Bank(e, b).sprite = e.sprite
      BY <3>2, WindowSprites
    <3> QED BY <2>5, <1>2, <3>1, <3>2, <3>3 DEF LoadImage, e
  <2>6. CASE ImageLoaded
    <3> DEFINE c == Poke(Bank(Access(core, FALSE), TILEMAP_BANK), BgLayer, Cell("tiles", 0))
    <3>1. IsCore(c) /\ c.sprite = core.sprite
      <4> DEFINE d == Access(core, FALSE)
                 e == Bank(d, TILEMAP_BANK)
      <4>1. IsCore(d) /\ d.sprite = core.sprite
        BY <1>2, WindowSprites
      <4> HIDE DEF d
      <4>2. IsCore(e) /\ e.sprite = d.sprite
        BY <4>1, WindowSprites
      <4> HIDE DEF e
      <4>3. IsCore(Poke(e, BgLayer, Cell("tiles", 0)))
            /\ Poke(e, BgLayer, Cell("tiles", 0)).sprite = e.sprite
        BY <4>2, WindowSprites
      <4> QED BY <4>1, <4>2, <4>3 DEF d, e
    <3> HIDE DEF c
    <3>2. IsCore(Shown(core)) /\ Shown(core).sprite = c.sprite
      BY <3>1 DEF Shown, IsCore, Fields, c
    <3> QED BY <2>6, <3>1, <3>2 DEF ImageLoaded
  <2>7. CASE Menu
    BY <2>7, <1>2, WindowSprites
    DEF Menu, display_text_clear, display_text_render, Draw
  <2>8. CASE display_bg_load_palette \/ PaletteLoaded
    BY <2>8, <1>2 DEF display_bg_load_palette, PaletteLoaded
  <2> QED BY <2>2, <2>3, <2>4, <2>5, <2>6, <2>7, <2>8 DEF Painting
<1>4. fw' = [f \in WorkFields |-> fw'[f]]
  BY <1>2 DEF Painting, Menu, display_text_init, WorkFields,
         display_bg_load_palette, LoadPalette, PaletteLoaded, display_bg_load_image, Opened,
         ToImage, LoadImage, Forward, ImageLoaded, display_text_clear, display_text_render, Draw
<1>5. OneMaster' /\ Begun' /\ AsAsked'
  BY <1>1 DEF OneMaster, Begun, AsAsked, Transfers, Starting
<1> QED BY <1>1, <1>2, <1>3, <1>4, <1>5 DEF CInv, Shape, IsCore

\* The coprocessor takes the Arduino or lets it go, or serves it.
LEMMA TakeCInv ==
  ASSUME CInv, Main \/ isp_reset \/ Release \/ isp_program PROVE CInv'
<1> USE DEF CInv
<1>1. /\ UNCHANGED <<core, asked>> /\ fw = [f \in WorkFields |-> fw[f]]
      /\ s_tile_regs' \in {s_tile_regs, [l \in Layers |-> TileRegs]}
  BY DEF Shape, Main, isp_reset, Release, isp_program, LetGo, Hold
<1>2. CASE sketch' = Resume("held") /\ fw' \in {ToScreen, [fw EXCEPT !.pc = "menu"]}
  <2>1. sketch'.pc = "held" /\ fw' = [f \in WorkFields |-> fw'[f]]
    BY <1>1, <1>2 DEF Resume, ToScreen, Booting, WorkFields
  <2> QED BY <2>1, <1>1 DEF Shape, OneMaster, Begun, AsAsked, Transfers, Starting, Off
<1>3. CASE /\ AtWork("menu") /\ sketch' = Resume("begin")
           /\ fw' \in {Clear, [fw EXCEPT !.pc = "programmed"]}
  <2>1. sketch'.pc = "begin" /\ fw' = [f \in WorkFields |-> fw'[f]]
        /\ (fw'.pc = "programmed" \/ Clearing')
    BY <1>1, <1>3 DEF Resume, Clear, Clearing, WorkFields
  <2> QED BY <2>1, <1>1 DEF Shape, OneMaster, Begun, AsAsked, Transfers, Starting, Off
<1>4. CASE /\ AtWork("boot") /\ UNCHANGED <<sketch, s_tile_regs>> /\ fw' = Serving
  <2>1. fw'.pc = "serve" /\ fw' = [f \in WorkFields |-> fw'[f]]
    BY <1>4 DEF Serving, Booting, WorkFields
  <2> QED BY <2>1, <1>1, <1>4 DEF Shape, OneMaster, Begun, AsAsked, Off
<1> QED BY <1>2, <1>3, <1>4 DEF Main, isp_reset, Release, isp_program, LetGo, Hold

\* DuinoCube.begin: whatever the coprocessor does to the registers meanwhile.
LEMMA BeginCInv ==
  ASSUME CInv, IsSketch,
         begin \/ DisableRead \/ DisableWrite \/ ClearCache \/ RPC_begin
  PROVE  CInv'
<1> USE DEF In, Only
<1>1. /\ IsCore(core) /\ IsSprites(core.sprite) /\ fw = [f \in WorkFields |-> fw[f]]
      /\ sketch.pc \in Starting
  BY DEF CInv, Shape, IsCore, Starting, begin, DisableRead, DisableWrite, ClearCache, RPC_begin
<1>2. CASE begin
  <2>1. /\ sketch' = Resume("disable") /\ core' = Reset(core)
        /\ fw' = [fw EXCEPT !.alone = FALSE] /\ UNCHANGED <<s_tile_regs, asked>>
    BY <1>2 DEF begin
  <2>2. sketch'.pc = "disable" /\ sketch'.at = 0
    BY <2>1 DEF Resume
  <2>3. fw' = [f \in WorkFields |-> fw'[f]] /\ fw'.pc = fw.pc /\ fw'.next = fw.next
    BY <1>1, <2>1 DEF WorkFields
  <2>4. Shape'
    BY <1>1, <2>1, <2>3, ResetShape DEF CInv, Shape, IsCore
  <2>5. OneMaster' /\ AsAsked'
    BY <1>1, <2>2, <2>3 DEF CInv, OneMaster, Clearing, AsAsked, Starting, Transfers
  <2>6. Begun'
    BY <2>1, <2>2, ResetShape DEF Begun, Sprites, Off
  <2> QED BY <2>4, <2>5, <2>6 DEF CInv
<1>3. CASE DisableRead
  <2>1. /\ sketch.pc = "disable" /\ sketch'.pc = "disabling" /\ sketch'.at = sketch.at
        /\ UNCHANGED <<core, fw, s_tile_regs, asked>>
    BY <1>3 DEF DisableRead, IsSketch, SketchFields
  <2> QED BY <2>1 DEF CInv, Shape, OneMaster, Clearing, Begun, AsAsked, Off, Starting, Transfers
<1>4. CASE DisableWrite
  <2> DEFINE at == sketch.at
             r  == Disabled(core.sprite[at], sketch.word)
  <2>1. /\ sketch.pc = "disabling" /\ sketch'.pc = "disable" /\ sketch'.at = at + 1
        /\ core' = [core EXCEPT !.sprite[at] = r]
        /\ UNCHANGED <<fw, s_tile_regs, asked>> /\ at \in Nat
    BY <1>4 DEF DisableWrite, IsSketch, SketchFields, CInv, Begun
  <2>2. at \in Sprites => r = [f \in SpriteFields |-> r[f]] /\ r.enabled = FALSE
    <3> SUFFICES ASSUME at \in Sprites
                 PROVE  r = [f \in SpriteFields |-> r[f]] /\ r.enabled = FALSE
      OBVIOUS
    <3>1. DOMAIN core.sprite[at] = SpriteFields
      BY <1>1 DEF IsSprites
    <3> QED BY <3>1 DEF Disabled, SpriteFields
  <2> HIDE DEF r, at
  <2>3. core.sprite = [s \in Sprites |-> core.sprite[s]]
    BY <1>1 DEF IsSprites
  <2>4. /\ IsCore(core') /\ core'.ctrl = core.ctrl
        /\ core'.sprite = [core.sprite EXCEPT ![at] = r] /\ IsSprites(core'.sprite)
    <3>1. IsCore(core') /\ core'.ctrl = core.ctrl
          /\ core'.sprite = [core.sprite EXCEPT ![at] = r]
      BY <1>1, <2>1 DEF IsCore, Fields
    <3>2. CASE at \in Sprites
      BY <1>1, <2>2, <3>1, <3>2, SpriteSet
    <3>3. CASE at \notin Sprites
      <4>1. [core.sprite EXCEPT ![at] = r] = core.sprite
        BY <2>3, <3>3
      <4> QED BY <1>1, <3>1, <4>1
    <3> QED BY <3>1, <3>2, <3>3
  <2>5. ASSUME NEW s \in Sprites, s < at + 1
        PROVE  core'.sprite[s].enabled = FALSE
    <3>1. CASE s = at
      BY <2>2, <2>3, <2>4, <3>1
    <3>2. CASE s # at
      <4>1. s < at
        BY <2>1, <2>5, <3>2, SizeAssumption DEF Sprites
      <4>2. core.sprite[s].enabled = FALSE
        BY <2>1, <4>1 DEF CInv, Begun, Off, at
      <4> QED BY <2>3, <2>4, <3>2, <4>2
    <3> QED BY <3>1, <3>2
  <2>6. Begun'
    <3>1. sketch'.at \in Nat /\ core'.ctrl = [l \in Layers |-> TileRegs]
      BY <2>1, <2>4 DEF CInv, Begun, Starting
    <3>2. \A s \in Sprites : s < sketch'.at => Off(s)'
      BY <2>1, <2>5 DEF Off
    <3> QED BY <2>1, <3>1, <3>2 DEF Begun
  <2> QED BY <2>1, <2>4, <2>6
          DEF CInv, Shape, IsCore, OneMaster, Clearing, AsAsked, Starting, Transfers
<1>5. CASE ClearCache
  <2>1. /\ sketch.pc = "disable" /\ sketch.at >= NUM_SPRITES /\ sketch'.pc = "rpc"
        /\ s_tile_regs' = [l \in Layers |-> TileRegs] /\ UNCHANGED <<core, fw, asked>>
    BY <1>5 DEF ClearCache, CacheCleared, Resume
  <2>2. \A s \in Sprites : Off(s)
    <3> SUFFICES ASSUME NEW s \in Sprites PROVE s < sketch.at
      BY <2>1 DEF CInv, Begun
    <3> QED BY <2>1, SizeAssumption DEF Sprites, CInv, Begun
  <2> QED BY <2>1, <2>2 DEF CInv, Shape, OneMaster, Clearing, Begun, AsAsked, Off, Starting, Transfers
<1>6. CASE RPC_begin
  <2>1. /\ sketch.pc = "rpc" /\ sketch'.pc = "idle" /\ fw' = Booting
        /\ asked' = [layer  |-> [l \in Layers |-> TileRegs],
                     sprite |-> [s \in DOMAIN core.sprite |->
                                   [core.sprite[s] EXCEPT !.enabled = FALSE]]]
        /\ UNCHANGED <<core, s_tile_regs>>
    BY <1>6 DEF RPC_begin, Restarted, Resume
  <2>2. asked'.sprite = core.sprite
    <3>1. \A s \in Sprites : [core.sprite[s] EXCEPT !.enabled = FALSE] = core.sprite[s]
      <4> TAKE s \in Sprites
      <4>1. core.sprite[s] = [f \in SpriteFields |-> core.sprite[s][f]]
        BY <1>1 DEF IsSprites
      <4>2. core.sprite[s].enabled = FALSE
        BY <2>1 DEF CInv, Begun, Off
      <4> QED BY <4>1, <4>2
    <3>2. core.sprite = [s \in Sprites |-> core.sprite[s]]
      BY <1>1 DEF IsSprites
    <3>3. asked'.sprite = [s \in Sprites |-> core.sprite[s]]
      BY <2>1, <3>1, <3>2
    <3> QED BY <3>2, <3>3
  <2>3. fw' = [f \in WorkFields |-> fw'[f]] /\ fw'.pc = "boot"
    BY <2>1 DEF Booting, WorkFields
  <2>4. AsAsked'
    BY <2>1, <2>2 DEF CInv, Begun, AsAsked, Starting
  <2> QED BY <1>1, <2>1, <2>3, <2>4
          DEF CInv, Shape, IsCore, OneMaster, Begun, Starting, Transfers
<1> QED BY <1>2, <1>3, <1>4, <1>5, <1>6

\* A step of the sketch that leaves registers, cache and history alone.
LEMMA Elsewhere ==
  ASSUME CInv, IsCore(core'), SameLook(core, core'), UNCHANGED <<s_tile_regs, asked, fw>>,
         sketch.pc \notin {"held"} \cup Starting, sketch'.pc \notin Starting \ {"begin"},
         sketch'.pc \in Transfers => fw.pc = "serve"
  PROVE  CInv'
<1>1. fw.pc \in {"boot", "serve"}
  BY DEF CInv, OneMaster
<1> QED
  BY <1>1
  DEF CInv, Shape, IsCore, SameLook, OneMaster, Clearing, Begun, AsAsked, Starting, Transfers

\* The calls that set a property of a layer or a sprite.
LEMMA LayerCInv ==
  ASSUME CInv, NEW l \in Layers, NEW f, NEW v, SetLayer(l, f, v)
  PROVE  CInv'
<1> USE DEF CInv, SetLayer, Call, In, Only
<1>1. core' = [fi \in Fields |-> core'[fi]] /\ s_tile_regs' = [k \in Layers |-> s_tile_regs'[k]]
      /\ asked' = [layer |-> asked'.layer, sprite |-> asked'.sprite] /\ fw' = fw
  BY DEF Shape, Fields
<1>2. OneMaster' /\ Begun' /\ IsSprites(core'.sprite)
  BY DEF OneMaster, Clearing, Begun, Starting, Shape, Fields
<1>3. AsAsked'
  <2>1. core.ctrl = s_tile_regs /\ asked.layer = s_tile_regs /\ asked.sprite = core.sprite
    BY DEF AsAsked, Starting
  <2>2. core'.ctrl = [core.ctrl EXCEPT ![l] = s_tile_regs'[l]] /\ core'.sprite = core.sprite
    BY DEF Shape, Fields
  <2>3. s_tile_regs' = [s_tile_regs EXCEPT ![l] = s_tile_regs'[l]]
    BY DEF Shape
  <2>4. asked'.layer = s_tile_regs' /\ asked'.sprite = asked.sprite
    BY <2>1 DEF Shape
  <2> QED BY <2>1, <2>2, <2>3, <2>4 DEF AsAsked
<1> QED BY <1>1, <1>2, <1>3 DEF Shape

\* A call that changes one property of one sprite.
LEMMA SpriteCInv ==
  ASSUME CInv, NEW s, NEW f, NEW v, SetSprite(s, f, v)
  PROVE  CInv'
<1> USE DEF CInv, SetSprite, Call, In, Only
<1>1. IsCore(core) /\ IsSprites(core.sprite)
  BY DEF Shape, IsCore
<1>2. IsCore(core') /\ IsSprites(core'.sprite) /\ core'.ctrl = core.ctrl
  BY <1>1, SpriteField
<1>3. /\ asked' = [layer |-> asked'.layer, sprite |-> asked'.sprite]
      /\ UNCHANGED <<fw, s_tile_regs>>
  BY DEF Shape
<1>4. OneMaster' /\ Begun'
  BY DEF OneMaster, Clearing, Begun, Starting
<1>5. AsAsked'
  BY DEF AsAsked, Shape, Fields
<1> QED BY <1>2, <1>3, <1>4, <1>5 DEF Shape, IsCore

\* The other registers of layers, camera and sprite depth.
LEMMA WriteCInv ==
  ASSUME CInv, NEW c, Write(c), IsCore(c), SameLook(core, c)
  PROVE  CInv'
BY Elsewhere DEF Write, Call, In, Only, Starting, Transfers

\* Every call that changes a property of a layer or a sprite.
LEMMA SetsCInv == ASSUME CInv, Sets PROVE CInv'
<1>1. IsCore(core)
  BY DEF CInv, Shape, IsCore
<1>2. ASSUME NEW l \in Layers,
             enableTileLayer(l) \/ disableTileLayer(l) \/ setTileLayerProperty(l)
      PROVE  CInv'
  <2>1. CASE enableTileLayer(l) \/ disableTileLayer(l)
    BY <1>2, <2>1, LayerCInv DEF enableTileLayer, disableTileLayer
  <2>2. ASSUME NEW flags \in SUBSET Flags, SetLayer(l, "flags", flags) PROVE CInv'
    BY <2>2, LayerCInv
  <2>3. ASSUME NEW p \in Layers, SetLayer(l, "palette", p) PROVE CInv'
    BY <2>3, LayerCInv
  <2>4. ASSUME NEW offset \in Offsets, Write([core EXCEPT !.base[l] = offset]) PROVE CInv'
    <3>1. IsCore([core EXCEPT !.base[l] = offset])
          /\ SameLook(core, [core EXCEPT !.base[l] = offset])
      BY <1>1 DEF IsCore, SameLook, Fields
    <3> QED BY <2>4, <3>1, WriteCInv
  <2> QED BY <1>2, <2>1, <2>2, <2>3, <2>4 DEF setTileLayerProperty
<1>3. ASSUME NEW l \in Layers, NEW x \in Values, moveTileLayer(l, x) PROVE CInv'
  <2>1. IsCore([core EXCEPT !.place[l] = x]) /\ SameLook(core, [core EXCEPT !.place[l] = x])
    BY <1>1 DEF IsCore, SameLook, Fields
  <2> QED BY <1>3, <2>1, WriteCInv DEF moveTileLayer
<1>4. ASSUME NEW x \in Values, moveCamera(x) \/ setSpriteDepth(x) PROVE CInv'
  <2>1. /\ IsCore([core EXCEPT !.camera = x]) /\ SameLook(core, [core EXCEPT !.camera = x])
        /\ IsCore([core EXCEPT !.sprite_z = x]) /\ SameLook(core, [core EXCEPT !.sprite_z = x])
    BY <1>1 DEF IsCore, SameLook, Fields
  <2> QED BY <1>4, <2>1, WriteCInv DEF moveCamera, setSpriteDepth
<1>5. ASSUME NEW s \in DOMAIN core.sprite,
             \/ enableSprite(s) \/ disableSprite(s) \/ setSpriteProperty(s)
             \/ \E x \in Values : moveSprite(s, x)
      PROVE  CInv'
  BY <1>5, SpriteCInv DEF enableSprite, disableSprite, setSpriteProperty, moveSprite
<1> QED BY <1>2, <1>3, <1>4, <1>5 DEF Sets

\* The calls that wait for the coprocessor or the screen, and its answers.
LEMMA SketchCInv ==
  ASSUME CInv, IsSketch,
         \/ BeginAgain \/ Prepare \/ SelectBank \/ readToCore
         \/ NextBank \/ Finish \/ Poll \/ Woken \/ Open \/ Scan
         \/ \E load \in Loads : Load(load)
         \/ \E event \in {"VBLANK_BEGIN", "VBLANK_END"} : waitForEvent(event)
  PROVE  CInv'
<1> USE DEF Only, In, Call, Answered
<1>1. IsCore(core) /\ SameLook(core, core)
  BY DEF CInv, Shape, IsCore, SameLook
<1>2. IsCore(core') /\ SameLook(core, core') /\ UNCHANGED <<s_tile_regs, asked, fw>>
  <2>1. CASE Prepare
    BY <1>1, <2>1, WindowShape DEF Prepare
  <2>2. CASE SelectBank
    BY <1>1, <2>2, WindowShape DEF SelectBank
  <2>3. CASE Finish
    BY <1>1, <2>3, WindowShape DEF Finish
  <2>4. CASE \E load \in Loads : Load(load)
    BY <1>1, <2>4 DEF Load
  <2>5. CASE \E event \in {"VBLANK_BEGIN", "VBLANK_END"} : waitForEvent(event)
    BY <1>1, <2>5 DEF waitForEvent
  <2>6. CASE BeginAgain \/ readToCore \/ NextBank \/ Poll \/ Woken \/ Open \/ Scan
    BY <1>1, <2>6
    DEF BeginAgain, readToCore, NextBank, Poll, Woken, Open, Scan, displayVars
  <2> QED BY <2>1, <2>2, <2>3, <2>4, <2>5, <2>6
<1>3. /\ sketch.pc \in {"idle", "open", "watch", "woken"} \cup Transfers
      /\ sketch'.pc \in {"idle", "open", "watch", "woken", "begin"} \cup Transfers
      /\ sketch'.pc \in Transfers => sketch.pc \in Transfers \/ fw.pc = "serve"
  <2>1. \A pc : Resume(pc).pc = pc /\ "pc" \in DOMAIN Resume(pc)
    BY DEF Resume
  <2>2. "pc" \in DOMAIN sketch
    BY DEF IsSketch, SketchFields
  <2>3. CASE Prepare \/ SelectBank \/ readToCore \/ NextBank
    BY <2>2, <2>3 DEF Prepare, SelectBank, readToCore, NextBank, Transfers
  <2>4. CASE Open
    BY <2>1, <2>2, <2>4 DEF Open, AtWork, Transfers
  <2>5. CASE Poll \/ Scan
    BY <2>2, <2>5 DEF Poll, Scan, Transfers
  <2>6. CASE BeginAgain \/ Finish \/ Woken
    BY <2>1, <2>6 DEF BeginAgain, Finish, Woken, Transfers
  <2>7. CASE \/ \E load \in Loads : Load(load)
             \/ \E event \in {"VBLANK_BEGIN", "VBLANK_END"} : waitForEvent(event)
    BY <2>7 DEF Load, waitForEvent, Resume, Transfers
  <2> QED BY <2>3, <2>4, <2>5, <2>6, <2>7
<1>4. sketch'.pc \in Transfers => fw.pc = "serve"
  BY <1>3 DEF CInv, OneMaster
<1> QED BY <1>2, <1>3, <1>4, Elsewhere DEF Starting, Transfers

\* What the coprocessor writes into palettes and windows, at any point of the
\* sketch.
LEMMA ServeCInv ==
  ASSUME CInv, rpc_file_read \/ ReadFails \/ ReadsNothing
  PROVE  CInv'
<1>1. IsCore(core) /\ SameLook(core, core)
  BY DEF CInv, Shape, IsCore, SameLook
<1>2. \A v : IsCore(Stored(v)) /\ SameLook(core, Stored(v))
  <2> TAKE v
  <2>1. CASE server.what = "palette"
    BY <1>1, <2>1 DEF Stored, IsCore, SameLook, Fields
  <2>2. CASE server.what # "palette"
    BY <1>1, <2>2, WindowShape DEF Stored
  <2> QED BY <2>1, <2>2
<1>3. IsCore(core') /\ SameLook(core, core') /\ fw' = fw /\ UNCHANGED sketchVars
  BY <1>1, <1>2 DEF rpc_file_read, ReadFails, ReadsNothing, displayVars
<1> QED
  BY <1>3 DEF CInv, Shape, IsCore, SameLook, OneMaster, Clearing, Begun, Off, AsAsked, sketchVars

\* Every step, one by one.
LEMMA NextCInv == CInv /\ IsSketch /\ [Next]_vars => CInv'
<1> SUFFICES ASSUME CInv, IsSketch, [Next]_vars PROVE CInv'
  OBVIOUS
<1>1. CASE Drawing /\ UNCHANGED Others
  BY <1>1, ClearCInv, PaintingCInv DEF Drawing, DrawScreen, Painting
<1>2. CASE Main \/ isp_reset \/ Release \/ isp_program
  BY <1>2, TakeCInv
<1>3. CASE ResetArduino
  <2>1. /\ sketch.pc # "held" /\ sketch'.pc = "begin" /\ UNCHANGED <<core, fw, asked>>
        /\ s_tile_regs' = [l \in Layers |-> TileRegs]
    BY <1>3 DEF ResetArduino, displayVars, Resume
  <2> QED BY <2>1 DEF CInv, Shape, OneMaster, Clearing, Begun, AsAsked, Starting, Transfers
<1>4. CASE begin \/ DisableRead \/ DisableWrite \/ ClearCache \/ RPC_begin
  BY <1>4, BeginCInv
<1>5. CASE Sets
  BY <1>5, SetsCInv
<1>6. CASE \/ BeginAgain \/ Prepare \/ SelectBank \/ readToCore
           \/ NextBank \/ Finish \/ Poll \/ Woken \/ Open \/ Scan
           \/ \E load \in Loads : Load(load)
           \/ \E event \in {"VBLANK_BEGIN", "VBLANK_END"} : waitForEvent(event)
  BY <1>6, SketchCInv
<1>7. CASE rpc_file_read \/ ReadFails \/ ReadsNothing
  BY <1>7, ServeCInv
<1>8. CASE UNCHANGED vars
  BY <1>8 DEF vars, displayVars, sketchVars, CInv, Shape, OneMaster, Clearing, Begun, Off, AsAsked
<1> QED
  BY <1>1, <1>2, <1>3, <1>4, <1>5, <1>6, <1>7, <1>8 DEF Next, Calls, GoOn, Serve

-----------------------------------------------------------------------------
(* An offset in the VRAM is a bank and a place in it.                      *)

B == VRAM_BANK_SIZE

\* ... with the place inside the bank.
LEMMA Banked ==
  ASSUME NEW x \in Nat
  PROVE  /\ x \div B \in Nat /\ x % B \in Nat /\ x % B < B
         /\ x = B * (x \div B) + (x % B)
<1>1. B \in Nat \ {0}
  BY SizeAssumption DEF B
<1> QED BY <1>1

\* Bank and place are determined by the offset.
LEMMA OneBank ==
  ASSUME NEW q \in Nat, NEW r \in Nat, r < B
  PROVE  (B * q + r) \div B = q /\ (B * q + r) % B = r
<1> DEFINE x == B * q + r
           d == x \div B
           m == x % B
<1>1. B \in Nat /\ B > 0 /\ x \in Nat
  BY SizeAssumption DEF B
<1>2. d \in Nat /\ m \in Nat /\ m < B /\ x = B * d + m
  BY <1>1, Banked
<1> HIDE DEF d, m
<1>3. B * (q - d) = m - r
  BY <1>1, <1>2
<1>4. q - d < 1
  <2> SUFFICES ASSUME q - d >= 1 PROVE FALSE
    BY <1>2
  <2>1. B * (q - d) >= B * 1
    BY <1>1, <1>2
  <2> QED BY <1>1, <1>2, <1>3, <2>1
<1>5. d - q < 1
  <2> SUFFICES ASSUME d - q >= 1 PROVE FALSE
    BY <1>2
  <2>1. B * (d - q) >= B * 1
    BY <1>1, <1>2
  <2>2. B * (d - q) = r - m
    BY <1>1, <1>2
  <2> QED BY <1>1, <1>2, <2>1, <2>2
<1>6. q = d
  BY <1>2, <1>4, <1>5
<1> QED BY <1>1, <1>2, <1>3, <1>6 DEF d, m

\* The next offset is the next place, or the beginning of the next bank.
LEMMA NextOffset ==
  ASSUME NEW x \in Nat
  PROVE  /\ (x % B) + 1 >= B => (x + 1) % B = 0 /\ (x + 1) \div B = x \div B + 1
         /\ (x % B) + 1 < B => (x + 1) % B = (x % B) + 1 /\ (x + 1) \div B = x \div B
<1> DEFINE q == x \div B
           r == x % B
<1>1. q \in Nat /\ r \in Nat /\ r < B /\ x = B * q + r /\ B \in Nat
  BY Banked, SizeAssumption DEF B
<1> HIDE DEF q, r
<1>2. CASE r + 1 >= B
  <2>1. r + 1 = B
    BY <1>1, <1>2
  <2>2. x + 1 = B * (q + 1) + 0
    BY <1>1, <2>1
  <2> QED BY <1>1, <1>2, <2>2, OneBank DEF q, r
<1>3. CASE r + 1 < B
  <2>1. x + 1 = B * q + (r + 1)
    BY <1>1
  <2> QED BY <1>1, <1>3, <2>1, OneBank DEF q, r
<1> QED BY <1>1, <1>2, <1>3 DEF q, r

-----------------------------------------------------------------------------
(* The boot screen.                                                        *)

VramBanks == TILEMAP_BANK..VRAM_BANK_END - 1
Window    == 0..VRAM_BANK_SIZE - 1
SameCells(c, d) == d.palette = c.palette /\ d.window = c.window

(* The parts of the graphics core that are drawn with.                     *)
Memory(c) ==
  /\ c = [f \in Fields |-> c[f]]
  /\ c.palette = [l \in Layers |-> c.palette[l]]
  /\ c.ctrl = [l \in Layers |-> c.ctrl[l]]
  /\ c.base = [l \in Layers |-> c.base[l]]
  /\ c.window = [b \in VramBanks |-> [a \in Window |-> c.window[b][a]]]

Phases   == {"init", "sprites", "text", "open palette", "palette", "open image", "image",
              "menu", "programmed"}
WithText == Phases \ {"init", "sprites", "text"}

TextReady(c) ==
  /\ c.ctrl[TextLayer].enabled /\ c.palette[TextLayer] = Cell("colors", 0)
  /\ c.base[TextLayer] = 0
  /\ \A i \in 0..FontSize - 1 : Vram(c, i) = Cell("font", i)

(* The image up to the cell n, which follows the font.                     *)
ImageUpTo(c, n) == \A i \in 0..n - 1 : Vram(c, FontSize + i) = Cell(BgImage, i)

Loading ==
  /\ fw.size = Length[BgImage] /\ fw.pos \in 0..fw.size /\ fw.bg = FontSize
  /\ fw.bank = GET_VRAM_BANK(FontSize + fw.pos)
  /\ fw.at = GET_VRAM_BANK_OFFSET(FontSize + fw.pos)
  /\ core.bank = fw.bank /\ core.access = TRUE
  /\ ImageUpTo(core, fw.pos)

(* What has been drawn, by phases of boot_run.                             *)
Drawn ==
  /\ Memory(core) /\ fw = [f \in WorkFields |-> fw[f]] /\ fw.pc \in Phases
  /\ fw.pc \in {"init", "sprites", "text"} => g_vram_used = 0 /\ fw.shown = Blank
  /\ fw.pc \notin {"menu", "programmed"} => fw.whole = FALSE
  /\ fw.pc \in WithText =>
       TextReady(core) /\ core.window[TILEMAP_BANK][TextLayer] = fw.shown
  /\ fw.pc \in {"open palette", "palette", "open image"} => g_vram_used = FontSize
  /\ fw.pc \in WithText \ {"image"} => core.bank = TILEMAP_BANK
  /\ fw.pc = "image" => Loading
  /\ fw.whole => /\ core.window[TILEMAP_BANK][BgLayer] = Cell("tiles", 0)
                 /\ core.base[BgLayer] = FontSize /\ ImageUpTo(core, Length[BgImage])

(* A sketch that begins while boot_run is at work does so when the drawing *)
(* is over: it is done for good, or a menu is left to be shown again.      *)
Screen ==
  /\ Memory(core) /\ fw = [f \in WorkFields |-> fw[f]] /\ fw.pc \in Phases
  /\ fw.next \in {"text", "serve"} /\ (fw.next = "serve" => fw.pc \in {"init", "sprites"})
  /\ fw.alone \/ fw.pc \in {"menu", "programmed"} \/ fw.next = "serve"
  /\ fw.alone /\ fw.next = "text" => Drawn

\* Offsets of the font and of the image are in the VRAM.
LEMMA InVram ==
  ASSUME NEW x \in Nat, x < NUM_VRAM_BANKS * VRAM_BANK_SIZE
  PROVE  /\ GET_VRAM_BANK(x) \in VramBanks \ {TILEMAP_BANK}
         /\ GET_VRAM_BANK(x) \in VRAM_BANK_BEGIN..VRAM_BANK_END - 1
         /\ GET_VRAM_BANK_OFFSET(x) \in Window
<1> DEFINE q == x \div B
<1>1. q \in Nat /\ x % B \in Nat /\ x % B < B /\ x = B * q + (x % B) /\ B \in Nat
  BY Banked, SizeAssumption DEF B
<1> HIDE DEF q
<1>2. q < NUM_VRAM_BANKS
  <2> SUFFICES ASSUME q >= NUM_VRAM_BANKS PROVE FALSE
    BY <1>1, SizeAssumption
  <2>1. B * q >= B * NUM_VRAM_BANKS
    BY <1>1, SizeAssumption
  <2>2. x >= B * NUM_VRAM_BANKS
    BY <1>1, <2>1, SizeAssumption
  <2> QED BY <2>2, <1>1, SizeAssumption DEF B
<1> QED
  BY <1>1, <1>2, SizeAssumption
  DEF GET_VRAM_BANK, GET_VRAM_BANK_OFFSET, VramBanks, Window, TILEMAP_BANK,
      VRAM_BANK_BEGIN, VRAM_BANK_END, q, B

\* Two offsets are never the same place.
LEMMA PlacesApart ==
  ASSUME NEW x \in Nat, NEW y \in Nat, GET_VRAM_BANK(x) = GET_VRAM_BANK(y),
         GET_VRAM_BANK_OFFSET(x) = GET_VRAM_BANK_OFFSET(y)
  PROVE  x = y
<1>1. x \div B = y \div B /\ x % B = y % B
  BY Banked DEF GET_VRAM_BANK, GET_VRAM_BANK_OFFSET, VRAM_BANK_BEGIN, B
<1> QED BY <1>1, Banked

\* A write through the window changes its cell and nothing else.
LEMMA PokeMemory ==
  ASSUME NEW c, Memory(c), NEW a \in Window, NEW v, c.bank \in VramBanks
  PROVE  /\ Memory(Poke(c, a, v))
         /\ \A f \in Fields \ {"window"} : Poke(c, a, v)[f] = c[f]
         /\ \A b \in VramBanks, p \in Window :
              (b # c.bank \/ p # a) => Poke(c, a, v).window[b][p] = c.window[b][p]
         /\ c.bank = TILEMAP_BANK => Poke(c, a, v).window[c.bank][a] = v
         /\ c.bank \in VRAM_BANK_BEGIN..VRAM_BANK_END - 1 /\ c.access =>
              Poke(c, a, v).window[c.bank][a] = v
<1>1. a < VRAM_BANK_SIZE
  BY SizeAssumption DEF Window
<1>2. CASE ~Reached(c, a)
  <2>1. Poke(c, a, v) = c
    BY <1>2 DEF Poke
  <2> QED BY <1>1, <1>2, <2>1 DEF Reached
<1>3. CASE Reached(c, a)
  <2> DEFINE d == [c EXCEPT !.window[c.bank][a] = v]
  <2>1. Poke(c, a, v) = d
    BY <1>3 DEF Poke
  <2>2. c = [f \in Fields |-> c[f]] /\ c.window = [b \in VramBanks |-> [p \in Window |-> c.window[b][p]]]
    BY DEF Memory
  <2>3. d.window = [c.window EXCEPT ![c.bank][a] = v] /\ d = [f \in Fields |-> d[f]]
        /\ \A f \in Fields \ {"window"} : d[f] = c[f]
    BY <2>2 DEF Fields
  <2>4. /\ d.window = [b \in VramBanks |-> [p \in Window |-> d.window[b][p]]]
        /\ \A b \in VramBanks, p \in Window :
             (b # c.bank \/ p # a) => d.window[b][p] = c.window[b][p]
        /\ d.window[c.bank][a] = v
    <3> DEFINE w == c.window
               e == [w EXCEPT ![c.bank][a] = v]
    <3>1. w = [b \in VramBanks |-> [p \in Window |-> w[b][p]]]
      BY <2>2
    <3> HIDE DEF w
    <3>2. /\ e = [b \in VramBanks |-> [p \in Window |-> e[b][p]]]
          /\ \A b \in VramBanks, p \in Window :
               (b # c.bank \/ p # a) => e[b][p] = w[b][p]
          /\ e[c.bank][a] = v
      BY <3>1
    <3> QED BY <2>3, <3>2 DEF w
  <2>5. Memory(d)
    BY <2>3, <2>4 DEF Memory, Fields
  <2> QED BY <2>1, <2>3, <2>4, <2>5
<1> QED BY <1>2, <1>3

\* A write through the window keeps the memory a memory, wherever it goes.
LEMMA PokeShape ==
  ASSUME NEW c, Memory(c), NEW a, NEW v
  PROVE  /\ Memory(Poke(c, a, v)) /\ Poke(c, a, v).palette = c.palette
         /\ Poke(c, a, v).access = c.access /\ Poke(c, a, v).bank = c.bank
<1>1. CASE ~Reached(c, a)
  BY <1>1 DEF Poke
<1>2. CASE Reached(c, a)
  <2> DEFINE d == [c EXCEPT !.window[c.bank][a] = v]
             w == c.window
             b == c.bank
             e == [w EXCEPT ![b][a] = v]
  <2>1. c = [f \in Fields |-> c[f]] /\ w = [k \in VramBanks |-> [p \in Window |-> w[k][p]]]
    BY DEF Memory
  <2>2. d = [f \in Fields |-> d[f]] /\ d.window = e
        /\ \A f \in Fields \ {"window"} : d[f] = c[f]
    BY <2>1 DEF Fields
  <2>3. e = [k \in VramBanks |-> [p \in Window |-> e[k][p]]]
    <3> HIDE DEF w, b
    <3> QED BY <2>1
  <2>4. Memory(d)
    <3> HIDE DEF e, d
    <3> QED BY <2>2, <2>3 DEF Memory, Fields
  <2> QED BY <1>2, <2>2, <2>4 DEF Poke, Fields
<1> QED BY <1>1, <1>2

\* A write at an offset of the VRAM puts the value there and leaves every other
\* offset, and the tile maps, as they are.
LEMMA PokeVram ==
  ASSUME NEW c, Memory(c), NEW x \in Nat, x < NUM_VRAM_BANKS * VRAM_BANK_SIZE, NEW v,
         c.bank = GET_VRAM_BANK(x), c.access = TRUE
  PROVE  LET d == Poke(c, GET_VRAM_BANK_OFFSET(x), v) IN
         /\ Memory(d) /\ \A f \in Fields \ {"window"} : d[f] = c[f]
         /\ Vram(d, x) = v
         /\ \A y \in Nat : y < NUM_VRAM_BANKS * VRAM_BANK_SIZE /\ y # x => Vram(d, y) = Vram(c, y)
         /\ \A l \in Layers : d.window[TILEMAP_BANK][l] = c.window[TILEMAP_BANK][l]
<1> DEFINE a == GET_VRAM_BANK_OFFSET(x)
           d == Poke(c, a, v)
<1>1. a \in Window /\ c.bank \in VramBanks \ {TILEMAP_BANK}
      /\ c.bank \in VRAM_BANK_BEGIN..VRAM_BANK_END - 1
  BY InVram
<1> HIDE DEF a
<1>2. /\ Memory(d) /\ \A f \in Fields \ {"window"} : d[f] = c[f]
      /\ \A b \in VramBanks, p \in Window :
           (b # c.bank \/ p # a) => d.window[b][p] = c.window[b][p]
      /\ d.window[c.bank][a] = v
  BY <1>1, PokeMemory
<1> HIDE DEF d
<1>3. Vram(d, x) = v
  BY <1>2 DEF Vram, a
<1>4. ASSUME NEW y \in Nat, y < NUM_VRAM_BANKS * VRAM_BANK_SIZE, y # x
      PROVE  Vram(d, y) = Vram(c, y)
  <2>1. GET_VRAM_BANK(y) \in VramBanks /\ GET_VRAM_BANK_OFFSET(y) \in Window
    BY <1>4, InVram
  <2>2. GET_VRAM_BANK(y) # c.bank \/ GET_VRAM_BANK_OFFSET(y) # a
    BY <1>4, PlacesApart DEF a
  <2> QED BY <1>2, <2>1, <2>2 DEF Vram
<1>5. ASSUME NEW l \in Layers PROVE d.window[TILEMAP_BANK][l] = c.window[TILEMAP_BANK][l]
  <2>1. l \in Window /\ TILEMAP_BANK \in VramBanks
    BY SizeAssumption DEF Layers, Window, VramBanks, TILEMAP_BANK, VRAM_BANK_END, VRAM_BANK_BEGIN
  <2> QED BY <1>1, <1>2, <2>1
<1> QED BY <1>2, <1>3, <1>4, <1>5 DEF d, a

\* The tile map of a layer is written in its own cell.
LEMMA PokeTilemap ==
  ASSUME NEW c, Memory(c), NEW l \in Layers, NEW v, c.bank = TILEMAP_BANK
  PROVE  LET d == Poke(c, l, v) IN
         /\ Memory(d) /\ \A f \in Fields \ {"window"} : d[f] = c[f]
         /\ d.window[TILEMAP_BANK][l] = v
         /\ \A k \in Layers \ {l} : d.window[TILEMAP_BANK][k] = c.window[TILEMAP_BANK][k]
         /\ \A y \in Nat : y < NUM_VRAM_BANKS * VRAM_BANK_SIZE => Vram(d, y) = Vram(c, y)
<1> DEFINE d == Poke(c, l, v)
<1>1. Layers \subseteq Window /\ TILEMAP_BANK \in VramBanks
  BY SizeAssumption DEF Layers, Window, VramBanks, TILEMAP_BANK, VRAM_BANK_END, VRAM_BANK_BEGIN
<1>2. /\ Memory(d) /\ \A f \in Fields \ {"window"} : d[f] = c[f]
      /\ \A b \in VramBanks, p \in Window :
           (b # c.bank \/ p # l) => d.window[b][p] = c.window[b][p]
      /\ d.window[c.bank][l] = v
  BY <1>1, PokeMemory
<1> HIDE DEF d
<1>3. ASSUME NEW y \in Nat, y < NUM_VRAM_BANKS * VRAM_BANK_SIZE PROVE Vram(d, y) = Vram(c, y)
  BY <1>2, <1>3, InVram DEF Vram
<1> QED BY <1>1, <1>2, <1>3 DEF d

\* Bank and Access change one register.
LEMMA RegisterOnly ==
  ASSUME NEW c, Memory(c), NEW v
  PROVE  /\ Memory(Bank(c, v)) /\ Bank(c, v).bank = v
         /\ \A f \in Fields \ {"bank"} : Bank(c, v)[f] = c[f]
         /\ Memory(Access(c, v)) /\ Access(c, v).access = v
         /\ \A f \in Fields \ {"access"} : Access(c, v)[f] = c[f]
BY DEF Memory, Bank, Access, Fields

\* Registers and sprites hold no memory.
LEMMA FieldMemory ==
  ASSUME NEW c, Memory(c), NEW l, NEW v, NEW f
  PROVE  /\ \A d \in {[c EXCEPT !.ctrl[l] = v], [c EXCEPT !.base[l] = v],
                      [c EXCEPT !.place[l] = v], [c EXCEPT !.camera = v],
                      [c EXCEPT !.sprite_z = v], [c EXCEPT !.sprite[l][f] = v],
                      [c EXCEPT !.sprite[l] = v]} : Memory(d) /\ SameCells(c, d)
BY DEF Memory, SameCells, Fields

LEMMA ResetMemory ==
  ASSUME NEW c, Memory(c)
  PROVE  Memory(Reset(c)) /\ SameCells(c, Reset(c))
BY DEF Memory, SameCells, Reset, PowerUp, Fields

\* The offsets of the font.
LEMMA FontOffset ==
  ASSUME NEW i \in 0..FontSize - 1
  PROVE  /\ GET_VRAM_BANK(i) = VRAM_BANK_BEGIN /\ GET_VRAM_BANK_OFFSET(i) = i
         /\ i \in Nat /\ i < NUM_VRAM_BANKS * VRAM_BANK_SIZE
<1>1. i \in Nat /\ i < B /\ i = B * 0 + i /\ B \in Nat
  BY SizeAssumption DEF B
<1>2. i \div B = 0 /\ i % B = i
  BY <1>1, OneBank
<1> QED
  BY <1>1, <1>2, SizeAssumption
  DEF GET_VRAM_BANK, GET_VRAM_BANK_OFFSET, VRAM_BANK_BEGIN, B

\* What a write to a register or a tile map keeps of font, text and image.
LEMMA TextKept ==
  ASSUME NEW c, NEW d, d.ctrl[TextLayer] = c.ctrl[TextLayer],
         d.palette[TextLayer] = c.palette[TextLayer], d.base[TextLayer] = c.base[TextLayer],
         \A y \in Nat : y < FontSize => Vram(d, y) = Vram(c, y),
         TextReady(c)
  PROVE  TextReady(d)
BY SizeAssumption DEF TextReady

\* The image lies in the VRAM, behind the font.
LEMMA ImageOffset ==
  ASSUME NEW i \in 0..Length[BgImage] - 1
  PROVE  FontSize + i \in Nat /\ FontSize + i < NUM_VRAM_BANKS * VRAM_BANK_SIZE
         /\ FontSize + i >= FontSize /\ i < Length[BgImage]
<1> DEFINE n == NUM_VRAM_BANKS * VRAM_BANK_SIZE
<1>1. n \in Nat /\ FontSize + Length[BgImage] <= n
  BY SizeAssumption
<1> HIDE DEF n
<1>2. FontSize \in Nat /\ Length[BgImage] \in Nat
  BY SizeAssumption
<1> QED BY <1>1, <1>2 DEF n

\* Before display_init nothing has been drawn.
LEMMA StartScreen ==
  ASSUME Memory(core'), g_vram_used' = 0, fw' = ToScreen
  PROVE  Screen'
<1>1. /\ fw' = [f \in WorkFields |-> fw'[f]]
      /\ fw'.pc = "init" /\ fw'.next = "text" /\ fw'.alone
      /\ fw'.shown = Blank /\ fw'.whole = FALSE
  BY DEF ToScreen, Booting, WorkFields
<1> QED BY <1>1 DEF Screen, Drawn, Phases, WithText

\* display_init resets registers and sprites, in which nothing has been drawn
\* yet, or nothing is to be kept any more.
LEMMA ClearMemory ==
  ASSUME Memory(core), display_init \/ ResetSprite \/ SpritesReset
  PROVE  Memory(core') /\ SameCells(core, core')
<1>1. CASE display_init
  BY <1>1, ResetMemory DEF display_init
<1>2. CASE ResetSprite
  <2>1. core' = [core EXCEPT !.sprite[fw.pos] = SpriteRegs]
    BY <1>2 DEF ResetSprite
  <2> QED BY <2>1, FieldMemory
<1>3. CASE SpritesReset
  BY <1>3 DEF SpritesReset, SameCells
<1> QED BY <1>1, <1>2, <1>3

LEMMA ClearScreen ==
  ASSUME Screen, display_init \/ ResetSprite \/ SpritesReset
  PROVE  Screen' \/ fw'.pc = "serve"
<1>1. Memory(core') /\ fw = [f \in WorkFields |-> fw[f]] /\ g_vram_used' = g_vram_used
  BY ClearMemory DEF Screen, display_init, ResetSprite, SpritesReset
<1>2. /\ fw.pc \in {"init", "sprites"} /\ fw' = [f \in WorkFields |-> fw'[f]]
      /\ fw'.pc = "sprites" \/ fw'.pc = fw.next
      /\ \A f \in {"next", "alone", "shown", "whole"} : fw'[f] = fw[f]
  BY <1>1 DEF display_init, ResetSprite, SpritesReset, AtWork, WorkFields
<1>3. fw.alone /\ fw.next = "text" => g_vram_used = 0 /\ fw.shown = Blank /\ fw.whole = FALSE
  BY <1>2 DEF Screen, Drawn
<1> QED BY <1>1, <1>2, <1>3 DEF Screen, Drawn, Phases, WithText

\* The font is at the beginning of the VRAM, and counted.
LEMMA TextDrawn == Drawn /\ display_text_init => Drawn'
<1> SUFFICES ASSUME Drawn, display_text_init PROVE Drawn'
  OBVIOUS
<1>1. fw' = [f \in WorkFields |-> fw'[f]] /\ fw'.pc = "open palette"
      /\ fw'.shown = Blank /\ fw'.whole = FALSE /\ g_vram_used = 0 /\ g_vram_used' = FontSize
  <2>1. fw.pc = "text" /\ fw.shown = Blank /\ fw.whole = FALSE /\ g_vram_used = 0
    BY DEF Drawn, display_text_init, AtWork
  <2>2. g_vram_used' = FontSize
    BY <2>1, SizeAssumption DEF display_text_init, TextClaimed
  <2>3. fw = [f \in WorkFields |-> fw[f]]
    BY DEF Drawn
  <2> QED BY <2>1, <2>2, <2>3 DEF WorkFields, display_text_init
<1> DEFINE c == Access(Bank(core, TILEMAP_BANK), FALSE)
           w == WithFont(core)
<1>2. Memory(c) /\ c.bank = TILEMAP_BANK
  <2>1. Memory(Bank(core, TILEMAP_BANK)) /\ Bank(core, TILEMAP_BANK).bank = TILEMAP_BANK
    BY DEF Drawn, Memory, Bank, Fields
  <2> DEFINE e == Bank(core, TILEMAP_BANK)
  <2> HIDE DEF e
  <2>2. Memory(Access(e, FALSE)) /\ Access(e, FALSE).bank = e.bank
    BY <2>1 DEF Access, Memory, Fields, e
  <2> QED BY <2>1, <2>2 DEF e
<1> HIDE DEF c
<1>3. VRAM_BANK_BEGIN \in VramBanks /\ TILEMAP_BANK \in VramBanks
      /\ VRAM_BANK_BEGIN # TILEMAP_BANK
      /\ 0..FontSize - 1 \subseteq Window /\ TextLayer \in Window
  BY SizeAssumption
  DEF VramBanks, VRAM_BANK_BEGIN, TILEMAP_BANK, VRAM_BANK_END, Window, Layers
<1>4. /\ Memory(w) /\ w.bank = TILEMAP_BANK
      /\ \A i \in 0..FontSize - 1 : w.window[VRAM_BANK_BEGIN][i] = Cell("font", i)
  <2>1. w = [c EXCEPT !.window[VRAM_BANK_BEGIN] =
               [a \in DOMAIN @ |-> IF a < FontSize THEN Cell("font", a) ELSE @[a]]]
    BY DEF WithFont, c
  <2>2. /\ w = [f \in Fields |-> w[f]]
        /\ \A f \in Fields \ {"window"} : w[f] = c[f]
        /\ w.window = [c.window EXCEPT ![VRAM_BANK_BEGIN] =
               [a \in DOMAIN @ |-> IF a < FontSize THEN Cell("font", a) ELSE @[a]]]
    BY <2>1, <1>2 DEF Memory, Fields
  <2> HIDE DEF w
  <2>3. c.window = [b \in VramBanks |-> [a \in Window |-> c.window[b][a]]]
    BY <1>2 DEF Memory
  <2>4. w.window = [b \in VramBanks |-> [a \in Window |-> w.window[b][a]]]
        /\ \A i \in 0..FontSize - 1 : w.window[VRAM_BANK_BEGIN][i] = Cell("font", i)
    <3> DEFINE m == c.window
               e == [m EXCEPT ![VRAM_BANK_BEGIN] =
                       [a \in DOMAIN @ |-> IF a < FontSize THEN Cell("font", a) ELSE @[a]]]
    <3> HIDE DEF m
    <3>1. e = [b \in VramBanks |-> [a \in Window |-> e[b][a]]]
      BY <2>3, <1>3 DEF m
    <3>2. \A i \in 0..FontSize - 1 : e[VRAM_BANK_BEGIN][i] = Cell("font", i)
      <4> TAKE i \in 0..FontSize - 1
      <4>1. i < FontSize /\ i \in Window
        BY <1>3, SizeAssumption
      <4>2. m = [b \in VramBanks |-> [a \in Window |-> m[b][a]]]
        BY <2>3 DEF m
      <4> QED BY <4>1, <4>2, <1>3
    <3>3. w.window = e
      BY <2>2 DEF m
    <3> HIDE DEF e
    <3> QED BY <3>1, <3>2, <3>3
  <2> QED BY <1>2, <2>2, <2>4 DEF Memory, Fields
<1> HIDE DEF w
<1>5. core' = [w EXCEPT !.palette[TextLayer] = Cell("colors", 0),
                 !.window[TILEMAP_BANK][TextLayer] = Blank,
                 !.ctrl[TextLayer] = [enabled |-> TRUE, palette |-> TextLayer,
                                      flags |-> {"8x8", "8 bit", "transparent", "shift"}],
                 !.base[TextLayer] = 0]
  BY <1>1 DEF display_text_init, w
<1>6. /\ core' = [fi \in Fields |-> core'[fi]] /\ core'.bank = TILEMAP_BANK
      /\ core'.palette = [w.palette EXCEPT ![TextLayer] = Cell("colors", 0)]
      /\ core'.window = [w.window EXCEPT ![TILEMAP_BANK][TextLayer] = Blank]
      /\ core'.ctrl = [w.ctrl EXCEPT ![TextLayer] = [enabled |-> TRUE, palette |-> TextLayer,
                                      flags |-> {"8x8", "8 bit", "transparent", "shift"}]]
      /\ core'.base = [w.base EXCEPT ![TextLayer] = 0]
  BY <1>4, <1>5 DEF Memory, Fields
<1>7. /\ core'.window = [b \in VramBanks |-> [a \in Window |-> core'.window[b][a]]]
      /\ core'.window[TILEMAP_BANK][TextLayer] = Blank
      /\ core'.window[VRAM_BANK_BEGIN] = w.window[VRAM_BANK_BEGIN]
  <2>1. w.window = [b \in VramBanks |-> [a \in Window |-> w.window[b][a]]]
    BY <1>4 DEF Memory
  <2> DEFINE m == w.window
             e == [m EXCEPT ![TILEMAP_BANK][TextLayer] = Blank]
  <2>2. m = [b \in VramBanks |-> [a \in Window |-> m[b][a]]]
    BY <2>1
  <2> HIDE DEF m
  <2>3. /\ e = [b \in VramBanks |-> [a \in Window |-> e[b][a]]]
        /\ e[TILEMAP_BANK][TextLayer] = Blank
        /\ e[VRAM_BANK_BEGIN] = m[VRAM_BANK_BEGIN]
    BY <2>2, <1>3
  <2>4. core'.window = e
    BY <1>6 DEF m
  <2> HIDE DEF e
  <2> QED BY <2>3, <2>4 DEF m
<1>8. /\ core'.palette = [l \in Layers |-> core'.palette[l]]
      /\ core'.ctrl = [l \in Layers |-> core'.ctrl[l]]
      /\ core'.base = [l \in Layers |-> core'.base[l]]
      /\ core'.palette[TextLayer] = Cell("colors", 0) /\ core'.ctrl[TextLayer].enabled
      /\ core'.base[TextLayer] = 0
  <2>1. TextLayer \in Layers
    BY SizeAssumption
  <2>2. /\ w.palette = [l \in Layers |-> w.palette[l]]
        /\ w.ctrl = [l \in Layers |-> w.ctrl[l]]
        /\ w.base = [l \in Layers |-> w.base[l]]
    BY <1>4 DEF Memory
  <2>3. core'.palette = [l \in Layers |-> core'.palette[l]]
        /\ core'.palette[TextLayer] = Cell("colors", 0)
    <3>1. core'.palette = [w.palette EXCEPT ![TextLayer] = Cell("colors", 0)]
      BY <1>6
    <3> QED BY <3>1, <2>1, <2>2
  <2>4. core'.ctrl = [l \in Layers |-> core'.ctrl[l]] /\ core'.ctrl[TextLayer].enabled
    <3> DEFINE r == [enabled |-> TRUE, palette |-> TextLayer,
                     flags |-> {"8x8", "8 bit", "transparent", "shift"}]
    <3>1. r.enabled
      OBVIOUS
    <3>2. core'.ctrl = [w.ctrl EXCEPT ![TextLayer] = r]
      BY <1>6
    <3> HIDE DEF r
    <3> QED BY <3>1, <3>2, <2>1, <2>2
  <2>5. core'.base = [l \in Layers |-> core'.base[l]] /\ core'.base[TextLayer] = 0
    BY <1>6, <2>1, <2>2
  <2> QED BY <2>3, <2>4, <2>5
<1>9. \A i \in 0..FontSize - 1 : Vram(core', i) = Cell("font", i)
  BY <1>4, <1>7, FontOffset DEF Vram
<1>10. Memory(core') /\ TextReady(core')
  BY <1>6, <1>7, <1>8, <1>9 DEF Memory, TextReady
<1> QED BY <1>1, <1>6, <1>7, <1>10 DEF Drawn, Phases, WithText

\* The palette of the background is another one than that of the text.
LEMMA PaletteDrawn ==
  Drawn /\ (display_bg_load_palette \/ LoadPalette \/ PaletteLoaded) => Drawn'
<1> SUFFICES ASSUME Drawn, display_bg_load_palette \/ LoadPalette \/ PaletteLoaded
             PROVE  Drawn'
  OBVIOUS
<1>1. /\ fw.pc \in {"open palette", "palette"} /\ fw.whole = FALSE /\ g_vram_used = FontSize
      /\ core.bank = TILEMAP_BANK /\ TextReady(core)
      /\ core.window[TILEMAP_BANK][TextLayer] = fw.shown
      /\ Memory(core) /\ fw = [f \in WorkFields |-> fw[f]]
  BY DEF Drawn, display_bg_load_palette, LoadPalette, PaletteLoaded, AtWork, WithText, Phases
<1>2. /\ fw'.pc \in {"palette", "open image"} /\ fw'.whole = FALSE /\ fw'.shown = fw.shown
      /\ fw' = [f \in WorkFields |-> fw'[f]] /\ g_vram_used' = FontSize
  BY <1>1 DEF display_bg_load_palette, Opened, LoadPalette, PaletteLoaded, WorkFields, AtWork
<1>3. core' = core \/ core' = [core EXCEPT !.palette[BgLayer] = Cell(BgPalette, fw.pos)]
  BY DEF display_bg_load_palette, LoadPalette, PaletteLoaded
<1>4. Memory(core') /\ core'.bank = core.bank /\ core'.window = core.window
      /\ core'.ctrl = core.ctrl /\ core'.base = core.base
      /\ core'.palette[TextLayer] = core.palette[TextLayer]
  <2>1. CASE core' = core
    BY <1>1, <2>1
  <2>2. CASE core' = [core EXCEPT !.palette[BgLayer] = Cell(BgPalette, fw.pos)]
    <3>1. core = [f \in Fields |-> core[f]] /\ core.palette = [l \in Layers |-> core.palette[l]]
      BY <1>1 DEF Memory
    <3>2. /\ core' = [fi \in Fields |-> core'[fi]]
          /\ core'.palette = [core.palette EXCEPT ![BgLayer] = Cell(BgPalette, fw.pos)]
          /\ \A f \in Fields \ {"palette"} : core'[f] = core[f]
      BY <2>2, <3>1 DEF Fields
    <3>3. core'.palette = [l \in Layers |-> core'.palette[l]]
          /\ core'.palette[TextLayer] = core.palette[TextLayer]
      BY <3>1, <3>2, SizeAssumption
    <3> QED BY <1>1, <3>2, <3>3 DEF Memory, Fields
  <2> QED BY <1>3, <2>1, <2>2
<1>5. TextReady(core')
  BY <1>1, <1>4, TextKept DEF Vram
<1> QED BY <1>1, <1>2, <1>4, <1>5 DEF Drawn, Phases, WithText

\* The image begins behind the font, or is left out.
LEMMA OpenImageDrawn == Drawn /\ display_bg_load_image => Drawn'
<1> SUFFICES ASSUME Drawn, display_bg_load_image PROVE Drawn'
  OBVIOUS
<1>1. /\ fw.pc = "open image" /\ fw.whole = FALSE /\ g_vram_used = FontSize
      /\ core.bank = TILEMAP_BANK /\ TextReady(core)
      /\ core.window[TILEMAP_BANK][TextLayer] = fw.shown
      /\ Memory(core) /\ fw = [f \in WorkFields |-> fw[f]]
  BY DEF Drawn, display_bg_load_image, AtWork, WithText, Phases
<1>2. fw' = ToImage \/ fw' = [fw EXCEPT !.pc = "menu"]
  BY DEF display_bg_load_image, Opened
<1>3. CASE fw' = ToImage
  <2>1. /\ fw'.pc = "image" /\ fw'.whole = FALSE /\ fw'.shown = fw.shown
        /\ fw' = [f \in WorkFields |-> fw'[f]]
        /\ fw'.size = Length[BgImage] /\ fw'.pos = 0 /\ fw'.bg = FontSize
        /\ fw'.at = GET_VRAM_BANK_OFFSET(FontSize) /\ fw'.bank = GET_VRAM_BANK(FontSize)
    BY <1>1, <1>3 DEF ToImage, WorkFields
  <2>2. core' = Bank(Access(core, TRUE), GET_VRAM_BANK(FontSize))
    BY <1>1, <2>1 DEF display_bg_load_image
  <2>3. /\ Memory(core') /\ core'.bank = GET_VRAM_BANK(FontSize) /\ core'.access = TRUE
        /\ core'.window = core.window /\ core'.ctrl = core.ctrl /\ core'.base = core.base
        /\ core'.palette = core.palette
    BY <1>1, <2>2 DEF Bank, Access, Memory, Fields
  <2>4. TextReady(core')
    BY <1>1, <2>3, TextKept DEF Vram
  <2>5. Loading'
    <3>1. FontSize + 0 = FontSize /\ 0 \in 0..Length[BgImage] /\ 0..0 - 1 = {}
      BY SizeAssumption
    <3>2. ImageUpTo(core', 0)
      BY <3>1 DEF ImageUpTo
    <3> QED BY <2>1, <2>3, <3>1, <3>2 DEF Loading
  <2> QED BY <1>1, <2>1, <2>3, <2>4, <2>5 DEF Drawn, Phases, WithText
<1>4. CASE fw' = [fw EXCEPT !.pc = "menu"]
  <2>1. /\ fw'.pc = "menu" /\ fw'.whole = FALSE /\ fw'.shown = fw.shown
        /\ fw' = [f \in WorkFields |-> fw'[f]]
    BY <1>1, <1>4 DEF WorkFields
  <2>2. core' = core
    BY <2>1 DEF display_bg_load_image
  <2> QED BY <1>1, <2>1, <2>2 DEF Drawn, Phases, WithText
<1> QED BY <1>2, <1>3, <1>4

\* A cell of the image goes behind those before it, in this bank or the next.
LEMMA ImageDrawn == Drawn /\ LoadImage => Drawn'
<1> SUFFICES ASSUME Drawn, LoadImage PROVE Drawn'
  OBVIOUS
<1>1. /\ fw.pc = "image" /\ fw.whole = FALSE /\ TextReady(core)
      /\ core.window[TILEMAP_BANK][TextLayer] = fw.shown
      /\ Memory(core) /\ fw = [f \in WorkFields |-> fw[f]] /\ Loading
  BY DEF Drawn, LoadImage, AtWork, WithText, Phases
<1> DEFINE x == FontSize + fw.pos
<1>2. /\ fw.pos \in 0..Length[BgImage] - 1 /\ x \in Nat
      /\ x < NUM_VRAM_BANKS * VRAM_BANK_SIZE
  <2>1. fw.pos \in 0..Length[BgImage] - 1
    BY <1>1, SizeAssumption DEF Loading, LoadImage
  <2> QED BY <2>1, ImageOffset
<1>3. core.bank = GET_VRAM_BANK(x) /\ fw.at = GET_VRAM_BANK_OFFSET(x) /\ fw.bank = core.bank
      /\ core.access = TRUE
  BY <1>1 DEF Loading
<1> HIDE DEF x
<1>4. ASSUME NEW v
      PROVE  LET d == Poke(core, fw.at, v) IN
             /\ Memory(d) /\ \A f \in Fields \ {"window"} : d[f] = core[f]
             /\ d.window[TILEMAP_BANK][TextLayer] = fw.shown
             /\ TextReady(d) /\ Vram(d, x) = v
             /\ ImageUpTo(d, fw.pos)
  <2> DEFINE d == Poke(core, fw.at, v)
  <2>1. /\ Memory(d) /\ \A f \in Fields \ {"window"} : d[f] = core[f]
        /\ Vram(d, x) = v
        /\ \A y \in Nat : y < NUM_VRAM_BANKS * VRAM_BANK_SIZE /\ y # x =>
             Vram(d, y) = Vram(core, y)
        /\ \A l \in Layers : d.window[TILEMAP_BANK][l] = core.window[TILEMAP_BANK][l]
    <3> DEFINE e == Poke(core, GET_VRAM_BANK_OFFSET(x), v)
    <3>1. /\ Memory(e) /\ \A f \in Fields \ {"window"} : e[f] = core[f]
          /\ Vram(e, x) = v
          /\ \A y \in Nat : y < NUM_VRAM_BANKS * VRAM_BANK_SIZE /\ y # x =>
               Vram(e, y) = Vram(core, y)
          /\ \A l \in Layers : e.window[TILEMAP_BANK][l] = core.window[TILEMAP_BANK][l]
      BY <1>1, <1>2, <1>3, PokeVram
    <3>2. d = e
      BY <1>3
    <3> HIDE DEF d, e
    <3> QED BY <3>1, <3>2
  <2> HIDE DEF d
  <2>2. d.window[TILEMAP_BANK][TextLayer] = fw.shown
    BY <1>1, <2>1, SizeAssumption
  <2>3. \A i \in 0..FontSize - 1 : Vram(d, i) = Vram(core, i)
    <3> TAKE i \in 0..FontSize - 1
    <3>1. i \in Nat /\ i < NUM_VRAM_BANKS * VRAM_BANK_SIZE
      BY FontOffset
    <3>2. i # x
      BY <1>2, SizeAssumption DEF x
    <3> QED BY <2>1, <3>1, <3>2
  <2>4. TextReady(d)
    BY <1>1, <2>1, <2>3 DEF TextReady, Fields
  <2>5. ImageUpTo(d, fw.pos)
    <3> SUFFICES ASSUME NEW i \in 0..fw.pos - 1
                 PROVE  Vram(d, FontSize + i) = Cell(BgImage, i)
      BY DEF ImageUpTo
    <3>1. i \in 0..Length[BgImage] - 1 /\ i # fw.pos
      BY <1>2, SizeAssumption
    <3>2. FontSize + i \in Nat /\ FontSize + i < NUM_VRAM_BANKS * VRAM_BANK_SIZE
      BY <3>1, ImageOffset
    <3>3. FontSize + i # x
      BY <1>2, <3>1, SizeAssumption DEF x
    <3>4. Vram(core, FontSize + i) = Cell(BgImage, i)
      BY <1>1 DEF Loading, ImageUpTo
    <3> QED BY <2>1, <3>2, <3>3, <3>4
  <2> QED BY <2>1, <2>2, <2>4, <2>5 DEF d
<1>5. g_vram_used' = g_vram_used
  BY DEF LoadImage
<1>6. CASE fw' = Forward /\ core' = Bank(Poke(core, fw.at, Cell(BgImage, fw.pos)), Forward.bank)
  <2> DEFINE d == Poke(core, fw.at, Cell(BgImage, fw.pos))
  <2>1. /\ Memory(d) /\ \A f \in Fields \ {"window"} : d[f] = core[f]
        /\ d.window[TILEMAP_BANK][TextLayer] = fw.shown
        /\ TextReady(d) /\ Vram(d, x) = Cell(BgImage, fw.pos)
        /\ ImageUpTo(d, fw.pos)
    BY <1>4
  <2>2. core' = Bank(d, fw'.bank)
    BY <1>6
  <2> HIDE DEF d
  <2>3. /\ Memory(core') /\ core'.bank = fw'.bank /\ core'.access = TRUE
        /\ core'.window = d.window /\ core'.ctrl = d.ctrl /\ core'.base = d.base
        /\ core'.palette = d.palette
    BY <1>3, <2>1, <2>2 DEF Bank, Memory, Fields
  <2>4. TextReady(core')
    BY <2>1, <2>3, TextKept DEF Vram
  <2>5. /\ fw'.pc = "image" /\ fw'.whole = FALSE /\ fw'.shown = fw.shown
        /\ fw' = [f \in WorkFields |-> fw'[f]]
        /\ fw'.size = fw.size /\ fw'.pos = fw.pos + 1 /\ fw'.bg = fw.bg
    BY <1>1, <1>6 DEF Forward, WorkFields
  <2>6. NextInVram = fw.bank + 1
    <3>1. fw.bank \in VRAM_BANK_BEGIN..VRAM_BANK_END - 1
      BY <1>2, <1>3, InVram
    <3>2. VRAM_BANK_END \in Nat /\ VRAM_BANK_BEGIN \in Nat
      BY SizeAssumption DEF VRAM_BANK_END, VRAM_BANK_BEGIN
    <3>3. fw.bank + 1 \in Nat /\ fw.bank + 1 < UINT16
      BY <3>1, <3>2, SizeAssumption
    <3>4. (fw.bank + 1) % UINT16 = fw.bank + 1
      BY <3>3, SizeAssumption
    <3> QED BY <3>4 DEF NextInVram
  <2>7. fw'.bank = GET_VRAM_BANK(x + 1) /\ fw'.at = GET_VRAM_BANK_OFFSET(x + 1)
    <3>1. fw.at = x % B /\ fw.bank = VRAM_BANK_BEGIN + (x \div B) /\ x \div B \in Nat
      BY <1>2, <1>3, Banked DEF GET_VRAM_BANK, GET_VRAM_BANK_OFFSET, B
    <3>2. CASE fw.at + 1 >= B
      <4>1. fw'.at = 0 /\ fw'.bank = fw.bank + 1
        BY <1>1, <1>6, <2>6, <3>2 DEF Forward, WorkFields, B
      <4>2. (x + 1) % B = 0 /\ (x + 1) \div B = (x \div B) + 1
        BY <1>2, <3>1, <3>2, NextOffset
      <4> QED BY <3>1, <4>1, <4>2 DEF GET_VRAM_BANK, GET_VRAM_BANK_OFFSET, VRAM_BANK_BEGIN, B
    <3>3. CASE ~(fw.at + 1 >= B)
      <4>1. fw'.at = fw.at + 1 /\ fw'.bank = fw.bank
        BY <1>1, <1>6, <3>3 DEF Forward, WorkFields, B
      <4>2. fw.at + 1 < B
        BY <1>2, <3>1, <3>3, Banked, SizeAssumption DEF B
      <4>3. (x + 1) % B = fw.at + 1 /\ (x + 1) \div B = x \div B
        BY <1>2, <3>1, <4>2, NextOffset
      <4> QED BY <3>1, <4>1, <4>3 DEF GET_VRAM_BANK, GET_VRAM_BANK_OFFSET, B
    <3> QED BY <3>2, <3>3
  <2>8. ImageUpTo(core', fw.pos + 1)
    <3> SUFFICES ASSUME NEW i \in 0..(fw.pos + 1) - 1
                 PROVE  Vram(core', FontSize + i) = Cell(BgImage, i)
      BY DEF ImageUpTo
    <3>1. CASE i = fw.pos
      BY <2>1, <2>3, <3>1 DEF Vram, x
    <3>2. CASE i # fw.pos
      <4>1. i \in 0..fw.pos - 1
        BY <1>2, <3>2, SizeAssumption
      <4> QED BY <2>1, <2>3, <4>1 DEF ImageUpTo, Vram
    <3> QED BY <3>1, <3>2
  <2>9. Loading'
    <3>1. x + 1 = FontSize + (fw.pos + 1) /\ fw.pos + 1 \in 0..Length[BgImage]
      BY <1>2, SizeAssumption DEF x
    <3> QED BY <1>1, <2>3, <2>5, <2>7, <2>8, <3>1 DEF Loading
  <2> QED BY <2>1, <2>3, <2>4, <2>5, <2>9 DEF Drawn, Phases, WithText
<1>7. CASE fw' = fw /\ core' \in {core, Poke(core, fw.at, Torn)}
  <2>1. /\ Memory(core') /\ \A f \in Fields \ {"window"} : core'[f] = core[f]
        /\ core'.window[TILEMAP_BANK][TextLayer] = fw.shown
        /\ TextReady(core') /\ ImageUpTo(core', fw.pos)
    BY <1>1, <1>4, <1>7 DEF Loading
  <2>2. Loading'
    BY <1>1, <1>7, <2>1 DEF Loading, Fields
  <2> QED BY <1>1, <1>7, <2>1, <2>2 DEF Drawn, Phases, WithText
<1> QED BY <1>6, <1>7 DEF LoadImage

\* The whole image is shown: its tiles, its place in the VRAM, its registers.
LEMMA ShownDrawn == Drawn /\ ImageLoaded => Drawn'
<1> SUFFICES ASSUME Drawn, ImageLoaded PROVE Drawn'
  OBVIOUS
<1>1. /\ fw.pc = "image" /\ fw.whole = FALSE /\ TextReady(core)
      /\ core.window[TILEMAP_BANK][TextLayer] = fw.shown
      /\ Memory(core) /\ fw = [f \in WorkFields |-> fw[f]] /\ Loading
  BY DEF Drawn, ImageLoaded, AtWork, WithText, Phases
<1>2. fw.pos = Length[BgImage] /\ fw.bg = FontSize
  BY <1>1, SizeAssumption DEF Loading, ImageLoaded
<1>3. /\ fw'.pc = "menu" /\ fw'.shown = fw.shown /\ fw' = [f \in WorkFields |-> fw'[f]]
  BY <1>1 DEF ImageLoaded, WorkFields
<1> DEFINE c == Bank(Access(core, FALSE), TILEMAP_BANK)
           d == Poke(c, BgLayer, Cell("tiles", 0))
<1>4. /\ Memory(c) /\ c.bank = TILEMAP_BANK /\ c.window = core.window /\ c.ctrl = core.ctrl
      /\ c.base = core.base /\ c.palette = core.palette
  BY <1>1 DEF Bank, Access, Memory, Fields
<1> HIDE DEF c
<1>5. /\ Memory(d) /\ \A f \in Fields \ {"window"} : d[f] = c[f]
      /\ d.window[TILEMAP_BANK][BgLayer] = Cell("tiles", 0)
      /\ \A k \in Layers \ {BgLayer} : d.window[TILEMAP_BANK][k] = c.window[TILEMAP_BANK][k]
      /\ \A y \in Nat : y < NUM_VRAM_BANKS * VRAM_BANK_SIZE => Vram(d, y) = Vram(c, y)
  BY <1>4, PokeTilemap, SizeAssumption
<1> HIDE DEF d
<1> DEFINE r == [enabled |-> TRUE, flags |-> {}, palette |-> BgLayer]
<1>6. core' = [d EXCEPT !.base[BgLayer] = FontSize, !.ctrl[BgLayer] = r]
  BY <1>2 DEF ImageLoaded, Shown, c, d
<1> HIDE DEF r
<1>7. /\ core' = [fi \in Fields |-> core'[fi]]
      /\ core'.base = [d.base EXCEPT ![BgLayer] = FontSize]
      /\ core'.ctrl = [d.ctrl EXCEPT ![BgLayer] = r]
      /\ core'.window = d.window /\ core'.palette = d.palette /\ core'.bank = d.bank
  BY <1>5, <1>6 DEF Memory, Fields
<1>8. /\ core'.base = [l \in Layers |-> core'.base[l]] /\ core'.base[BgLayer] = FontSize
      /\ core'.base[TextLayer] = d.base[TextLayer]
  <2>1. d.base = [l \in Layers |-> d.base[l]]
    BY <1>5 DEF Memory
  <2> QED BY <1>7, <2>1, SizeAssumption
<1>9. core'.ctrl = [l \in Layers |-> core'.ctrl[l]] /\ core'.ctrl[TextLayer] = d.ctrl[TextLayer]
  <2>1. d.ctrl = [l \in Layers |-> d.ctrl[l]]
    BY <1>5 DEF Memory
  <2> QED BY <1>7, <2>1, SizeAssumption
<1>10. Memory(core')
  BY <1>5, <1>7, <1>8, <1>9 DEF Memory
<1>11. \A y \in Nat : y < NUM_VRAM_BANKS * VRAM_BANK_SIZE => Vram(core', y) = Vram(core, y)
  BY <1>4, <1>5, <1>7 DEF Vram
<1>12. TextReady(core')
  BY <1>1, <1>4, <1>5, <1>7, <1>8, <1>9, <1>11, FontOffset DEF TextReady, Fields
<1>13. ImageUpTo(core', Length[BgImage])
  BY <1>1, <1>2, <1>11, ImageOffset DEF Loading, ImageUpTo
<1>14. core'.bank = TILEMAP_BANK
       /\ core'.window[TILEMAP_BANK][TextLayer] = fw'.shown
       /\ core'.window[TILEMAP_BANK][BgLayer] = Cell("tiles", 0)
  BY <1>1, <1>3, <1>4, <1>5, <1>7, SizeAssumption DEF Fields
<1> QED BY <1>3, <1>8, <1>10, <1>12, <1>13, <1>14 DEF Drawn, Phases, WithText

\* The menu draws into the tile map of the text, and nowhere else.
LEMMA MenuDrawn == Drawn /\ Menu => Drawn'
<1> SUFFICES ASSUME Drawn, NEW v, Draw(v) PROVE Drawn'
  BY DEF Menu, display_text_clear, display_text_render
<1>1. /\ fw.pc = "menu" /\ TextReady(core) /\ core.bank = TILEMAP_BANK
      /\ core.window[TILEMAP_BANK][TextLayer] = fw.shown
      /\ Memory(core) /\ fw = [f \in WorkFields |-> fw[f]]
      /\ fw.whole => /\ core.window[TILEMAP_BANK][BgLayer] = Cell("tiles", 0)
                     /\ core.base[BgLayer] = FontSize /\ ImageUpTo(core, Length[BgImage])
  BY DEF Drawn, Draw, AtWork, WithText, Phases
<1>2. /\ fw'.pc = "menu" /\ fw'.shown = v /\ fw'.whole = fw.whole
      /\ fw' = [f \in WorkFields |-> fw'[f]]
  BY <1>1 DEF Draw, WorkFields
<1>3. /\ Memory(core') /\ \A f \in Fields \ {"window"} : core'[f] = core[f]
      /\ core'.window[TILEMAP_BANK][TextLayer] = v
      /\ \A k \in Layers \ {TextLayer} :
           core'.window[TILEMAP_BANK][k] = core.window[TILEMAP_BANK][k]
      /\ \A y \in Nat : y < NUM_VRAM_BANKS * VRAM_BANK_SIZE => Vram(core', y) = Vram(core, y)
  <2>1. core' = Poke(core, TextLayer, v)
    BY DEF Draw
  <2> QED BY <1>1, <2>1, PokeTilemap, SizeAssumption
<1>4. TextReady(core')
  BY <1>1, <1>3, FontOffset DEF TextReady, Fields
<1>5. fw'.whole => /\ core'.window[TILEMAP_BANK][BgLayer] = Cell("tiles", 0)
                   /\ core'.base[BgLayer] = FontSize /\ ImageUpTo(core', Length[BgImage])
  BY <1>1, <1>2, <1>3, ImageOffset, SizeAssumption DEF ImageUpTo, Fields
<1> QED BY <1>1, <1>2, <1>3, <1>4, <1>5 DEF Drawn, Phases, WithText, Fields

\* Until the menu is up the coprocessor is alone with the graphics core.
LEMMA PaintScreen == Screen /\ Painting => Screen'
<1> SUFFICES ASSUME Screen, Painting PROVE Screen'
  OBVIOUS
<1>1. /\ fw = [f \in WorkFields |-> fw[f]] /\ Memory(core)
      /\ fw.next = "text" /\ (fw.alone \/ fw.pc \in {"menu", "programmed"})
      /\ fw.alone => Drawn
  BY DEF Painting, Menu, display_text_init, display_bg_load_palette, LoadPalette, PaletteLoaded,
         display_bg_load_image, LoadImage, ImageLoaded, display_text_clear,
         display_text_render, Draw, AtWork, Screen
<1>2. /\ fw' = [f \in WorkFields |-> fw'[f]] /\ fw'.next = fw.next /\ fw'.alone = fw.alone
  BY <1>1 DEF Painting, Menu, display_text_init, WorkFields,
         display_bg_load_palette, LoadPalette, PaletteLoaded, display_bg_load_image, Opened,
         ToImage, LoadImage, Forward, ImageLoaded, display_text_clear, display_text_render, Draw
<1>3. CASE fw.alone
  <2>1. Drawn'
    BY <1>1, <1>3, TextDrawn, PaletteDrawn, OpenImageDrawn, ImageDrawn, ShownDrawn, MenuDrawn
       DEF Painting
  <2> QED BY <1>1, <1>2, <1>3, <2>1 DEF Screen, Drawn
<1>4. CASE ~fw.alone
  <2>1. fw.pc \in {"menu", "programmed"}
    BY <1>1, <1>4
  <2>2. Menu
    BY <2>1 DEF Painting, display_text_init, display_bg_load_palette, LoadPalette,
           PaletteLoaded, display_bg_load_image, LoadImage, ImageLoaded, AtWork
  <2>3. fw'.pc = "menu" /\ Memory(core')
    BY <1>1, <2>2, PokeShape DEF Menu, display_text_clear, display_text_render, Draw, AtWork,
                                 WorkFields
  <2> QED BY <1>1, <1>2, <1>4, <2>3 DEF Screen, Phases
<1> QED BY <1>3, <1>4

\* The steps of display.cpp, one by one.
LEMMA DrawingScreen == Screen /\ Drawing => Screen' \/ fw'.pc = "serve"
BY ClearScreen, PaintScreen DEF Drawing, DrawScreen, Painting

\* What has been drawn depends on the memory, on the registers of layers and
\* windows, and on how far the drawing is.
LEMMA ScreenKept ==
  ASSUME Screen, Memory(core'), \A f \in Fields \ {"sprite"} : core'[f] = core[f],
         UNCHANGED <<fw, g_vram_used>>
  PROVE  Screen'
<1>1. Drawn => Drawn'
  BY DEF Drawn, Loading, TextReady, ImageUpTo, Vram, Fields
<1> QED BY <1>1 DEF Screen

\* The menu goes on, or ends, or programs the Arduino.
LEMMA MenuEnds ==
  ASSUME Screen, Release \/ isp_program \/ isp_reset
  PROVE  Screen'
<1>1. /\ UNCHANGED <<core, g_vram_used>> /\ fw = [f \in WorkFields |-> fw[f]] /\ Memory(core)
      /\ fw.pc \in {"menu", "programmed"}
  BY DEF Screen, Release, isp_program, isp_reset, LetGo, AtWork
<1>2. CASE Release
  <2>1. fw' = [f \in WorkFields |-> fw'[f]] /\ fw'.pc = "init" /\ fw'.next = "serve"
    BY <1>1, <1>2 DEF Release, LetGo, Clear, WorkFields
  <2> QED BY <1>1, <2>1 DEF Screen, Phases
<1>3. CASE isp_program \/ isp_reset
  <2>1. /\ fw' = [f \in WorkFields |-> fw'[f]] /\ fw'.pc \in {"menu", "programmed"}
        /\ \A f \in WorkFields \ {"pc"} : fw'[f] = fw[f]
    BY <1>1, <1>3 DEF isp_program, isp_reset, LetGo, WorkFields
  <2>2. Drawn => Drawn'
    BY <1>1, <2>1 DEF Drawn, Loading, TextReady, ImageUpTo, Vram, WorkFields, Phases, WithText
  <2> QED BY <1>1, <2>1, <2>2 DEF Screen, WorkFields, Phases
<1> QED BY <1>2, <1>3

\* Before it serves a sketch the coprocessor reads no file for one, and counts
\* the VRAM of its own pictures only.
BInv == /\ fw.pc = "boot" => g_vram_used = 0
        /\ fw.pc \in Phases => Screen
        /\ fw.pc # "serve" => ~server.busy

LEMMA InitBInv == Init => BInv
<1> SUFFICES ASSUME Init PROVE BInv
  OBVIOUS
<1>1. fw.pc = "boot" /\ g_vram_used = 0 /\ server = Unused
  BY DEF Init, DisplayInit, Booting
<1>2. ~server.busy
  BY <1>1 DEF Unused
<1> QED BY <1>1, <1>2 DEF BInv, Phases

\* What begin resets while boot_run is at work is drawn no more.
LEMMA BeginBInv ==
  ASSUME CInv, BInv, Memory(core),
         begin \/ DisableRead \/ DisableWrite \/ ClearCache \/ RPC_begin
  PROVE  BInv'
<1>1. CASE begin
  <2>1. /\ sketch.pc = "begin" /\ UNCHANGED <<g_vram_used, server>> /\ core' = Reset(core)
        /\ fw' = [fw EXCEPT !.alone = FALSE]
    BY <1>1 DEF begin, In
  <2>2. /\ fw = [f \in WorkFields |-> fw[f]] /\ fw' = [f \in WorkFields |-> fw'[f]]
        /\ fw'.pc = fw.pc /\ fw'.next = fw.next /\ fw'.alone = FALSE
    BY <2>1 DEF CInv, Shape, WorkFields
  <2>3. fw.pc \in Phases => fw.pc = "programmed" \/ fw.next = "serve"
    BY <2>1 DEF CInv, OneMaster, Clearing, Starting, Phases
  <2>4. Memory(core')
    BY <2>1, ResetMemory
  <2> QED BY <2>1, <2>2, <2>3, <2>4 DEF BInv, Screen
<1>2. CASE DisableRead \/ ClearCache
  <2>1. UNCHANGED <<core, fw, g_vram_used, server>>
    BY <1>2 DEF DisableRead, ClearCache, Only
  <2> QED BY <2>1, ScreenKept DEF BInv
<1>3. CASE DisableWrite
  <2>1. /\ UNCHANGED <<fw, g_vram_used, server>>
        /\ core' = [core EXCEPT !.sprite[sketch.at] = Disabled(core.sprite[sketch.at], sketch.word)]
    BY <1>3 DEF DisableWrite, Only
  <2>2. Memory(core')
    BY <2>1, FieldMemory
  <2>3. \A f \in Fields \ {"sprite"} : core'[f] = core[f]
    BY <2>1 DEF Memory, Fields
  <2> QED BY <2>1, <2>2, <2>3, ScreenKept DEF BInv
<1>4. CASE RPC_begin
  BY <1>4 DEF RPC_begin, Restarted, Booting, Unused, BInv, Phases
<1> QED BY <1>1, <1>2, <1>3, <1>4

\* Nobody but display.cpp writes the VRAM while the Arduino is held.
LEMMA NextBInv == CInv /\ BInv /\ Memory(core) /\ [Next]_vars => BInv'
<1> SUFFICES ASSUME CInv, BInv, Memory(core), [Next]_vars PROVE BInv'
  OBVIOUS
<1>1. CASE Drawing /\ UNCHANGED Others
  <2>1. fw.pc \in Phases /\ fw.pc # "serve"
    BY <1>1 DEF Drawing, DrawScreen, Menu, display_init, ResetSprite, SpritesReset,
         display_text_init, display_bg_load_palette, LoadPalette, PaletteLoaded,
         display_bg_load_image, LoadImage, ImageLoaded, display_text_clear,
         display_text_render, Draw, AtWork, Phases
  <2>2. Screen' \/ fw'.pc = "serve"
    BY <1>1, <2>1, DrawingScreen DEF BInv
  <2>3. ~server'.busy
    BY <1>1, <2>1 DEF BInv, Others
  <2> QED BY <2>2, <2>3 DEF BInv, Screen, Phases
<1>2. CASE Main
  <2>1. fw.pc = "boot" /\ g_vram_used = 0 /\ ~server.busy /\ UNCHANGED <<core, g_vram_used, server>>
    BY <1>2 DEF Main, AtWork, BInv
  <2>2. CASE fw' = ToScreen
    <3>1. Memory(core') /\ g_vram_used' = 0
      BY <2>1
    <3>2. Screen'
      BY <2>2, <3>1, StartScreen
    <3>3. ~server'.busy
      BY <2>1
    <3> QED BY <3>1, <3>2, <3>3 DEF BInv
  <2>3. CASE fw' = Serving
    BY <2>1, <2>3 DEF BInv, Serving, Booting, Phases
  <2> QED BY <1>2, <2>2, <2>3 DEF Main
<1>3. CASE Release \/ isp_program \/ isp_reset
  <2>1. fw.pc \in Phases \ {"boot", "serve"} /\ server' = server
    BY <1>3 DEF Release, isp_program, isp_reset, LetGo, AtWork, Phases
  <2>2. Screen'
    BY <1>3, <2>1, MenuEnds DEF BInv
  <2> QED BY <2>1, <2>2 DEF BInv, Screen, Phases
<1>4. CASE UNCHANGED <<core, fw, g_vram_used, server>>
  BY <1>4, ScreenKept DEF BInv
<1>5. CASE begin \/ DisableRead \/ DisableWrite \/ ClearCache \/ RPC_begin
  BY <1>5, BeginBInv
<1>6. CASE rpc_file_read \/ ReadFails \/ ReadsNothing
  BY <1>6 DEF BInv, rpc_file_read, ReadFails, ReadsNothing, More, displayVars, Phases
<1>7. CASE /\ sketch.pc \notin {"held"} \cup Starting /\ UNCHANGED <<fw, g_vram_used>>
           /\ server' = server \/ sketch.pc \in Transfers \/ fw.pc = "serve"
  BY <1>7 DEF CInv, OneMaster, BInv, Phases
<1>8. ASSUME \/ Calls \/ Open \/ Scan \/ Prepare \/ SelectBank \/ readToCore
             \/ NextBank \/ Finish \/ Poll \/ Woken
      PROVE  /\ sketch.pc \notin {"held"} \cup Starting /\ UNCHANGED <<fw, g_vram_used>>
             /\ server' = server \/ sketch.pc \in Transfers \/ fw.pc = "serve"
  BY <1>8
  DEF Prepare, SelectBank, readToCore, NextBank, Finish, AtWork,
      Answered, Poll, Woken, Open, Scan, Calls, BeginAgain, Load, waitForEvent, Call, In, Only,
      Sets, enableTileLayer, disableTileLayer, setTileLayerProperty, moveTileLayer, SetLayer,
      Write, enableSprite, disableSprite, setSpriteProperty, moveSprite, SetSprite,
      moveCamera, setSpriteDepth, displayVars, Starting, Transfers
<1>9. ResetArduino \/ UNCHANGED vars => UNCHANGED <<core, fw, g_vram_used, server>>
  BY DEF vars, displayVars, ResetArduino
<1> QED BY <1>1, <1>2, <1>3, <1>4, <1>5, <1>6, <1>7, <1>8, <1>9 DEF Next, Serve, GoOn

\* What Screen says of the menu is what the property says.
LEMMA ScreenShown == Screen /\ AtWork("menu") => BootScreen
<1> SUFFICES ASSUME Screen, fw.pc = "menu" PROVE BootScreen
  BY DEF AtWork
<1>1. \A i \in 0..FontSize - 1 : 0 + i = i
  BY SizeAssumption
<1> QED BY <1>1 DEF Screen, Drawn, TextReady, ImageUpTo, BootScreen, WithText, Phases

(***************************************************************************)
(* What a sketch has loaded.                                               *)
(***************************************************************************)

ServerFields == {"file", "pos", "failed", "busy", "what", "to", "left", "got"}

(* The cells a load can go to, and what one holds.                         *)
Cells        == ({0} \X Layers) \cup (VramBanks \X Window)
CellOf(c, p) == IF p[1] = 0 THEN c.palette[p[2]] ELSE c.window[p[1]][p[2]]


(* What there is to bring before the coprocessor answers.                  *)
Due == IF sketch.load.what = "image" THEN Remaining ELSE Length[sketch.load.file]

(* A transfer under way: what has been read of the file is where it        *)
(* belongs, and a card that has not failed is read where the sketch        *)
(* expects it to be.                                                       *)
Placed(c, load, n) == \A i \in 0..n - 1 : CellOf(c, Place(load, i)) = Cell(load.file, i)
Progress ==
  /\ server.file = sketch.load.file /\ server.pos \in 0..Length[sketch.load.file]
  /\ sketch.total \in Nat /\ sketch.at \in Nat
  /\ server.failed => server.pos < Length[sketch.load.file]
  /\ Placed(core, sketch.load, server.pos)
  /\ ~server.failed => sketch.at = sketch.load.dst + sketch.total
  /\ sketch.pc # "wait" => server.pos = sketch.total
  /\ sketch.pc = "prepare" \/ sketch.load.what # "image" => sketch.total = 0
Selected ==
  /\ sketch.pc = "bank" => sketch.load.what = "image"
  /\ sketch.load.what = "image" /\ sketch.pc # "prepare" => core.access = TRUE
  /\ sketch.load.what = "image" /\ sketch.pc \in {"ask", "wait"} =>
       core.bank = GET_VRAM_BANK(sketch.at)
  /\ sketch.load.what = "tilemap" /\ sketch.pc # "prepare" => core.bank = TILEMAP_BANK

Answering ==
  /\ server.busy /\ server.what = sketch.load.what
  /\ server.got \in Nat /\ server.left \in Nat
  /\ server.pos = sketch.total + server.got
  /\ server.to = IF sketch.load.what = "image" THEN GET_VRAM_BANK_OFFSET(sketch.at)
                 ELSE sketch.load.dst
  /\ ~server.failed => \/ server.got + server.left = Due
                       \/ server.left = 0 /\ server.pos = Length[sketch.load.file]

LShape ==
  /\ Memory(core) /\ DOMAIN want \subseteq Cells
  /\ sketch = [f \in SketchFields |-> sketch[f]]
  /\ server = [f \in ServerFields |-> server[f]]

(* The coprocessor writes only while the sketch waits for it, or for a     *)
(* sketch before, of which nothing is wanted any more.                     *)
OwnTransfer ==
  /\ sketch.pc = "held" => want = Nothing /\ ~server.busy
  /\ server.busy => sketch.pc = "wait" \/ (sketch.pc \in Starting /\ want = Nothing)

LInv ==
  /\ LShape /\ OwnTransfer
  /\ \A p \in DOMAIN want : CellOf(core, p) = want[p]
  /\ sketch.pc \in Transfers \cup {"open"} =>
       sketch.load \in Loads /\ DOMAIN want \cap Places(sketch.load) = {}
  /\ sketch.pc = "open" => sketch.total = 0 /\ sketch.at = sketch.load.dst
  /\ sketch.pc \in Transfers => Progress /\ Selected
  /\ sketch.pc = "wait" => Answering

-----------------------------------------------------------------------------
(* Places.                                                                 *)

LEMMA PlaceIs ==
  ASSUME NEW load \in Loads, NEW i \in 0..Length[load.file] - 1
  PROVE  /\ load.dst \in Nat /\ Length[load.file] \in Nat /\ i \in Nat
         /\ load.what \in {"palette", "tilemap", "image"}
         /\ load.what = "palette" => Place(load, i) = <<0, load.dst>>
              /\ load.dst \in Layers /\ Length[load.file] <= 1
         /\ load.what = "tilemap" => Place(load, i) = <<TILEMAP_BANK, load.dst + i>>
              /\ load.dst + i \in Window
         /\ load.what = "image" =>
              /\ Place(load, i) = <<GET_VRAM_BANK(load.dst + i), GET_VRAM_BANK_OFFSET(load.dst + i)>>
              /\ load.dst + i \in Nat /\ load.dst + i < NUM_VRAM_BANKS * VRAM_BANK_SIZE
<1>1. /\ load.dst \in Nat /\ Length[load.file] \in Nat
      /\ \/ load.what = "palette" /\ load.dst \in Layers /\ Length[load.file] <= 1
         \/ load.what = "tilemap" /\ load.dst + Length[load.file] <= VRAM_BANK_SIZE
         \/ /\ load.what = "image"
            /\ load.dst + Length[load.file] <= NUM_VRAM_BANKS * VRAM_BANK_SIZE
  BY LoadAssumption
<1>2. i \in Nat /\ i < Length[load.file]
  BY <1>1
<1>3. VRAM_BANK_SIZE \in Nat /\ NUM_VRAM_BANKS * VRAM_BANK_SIZE \in Nat
  BY SizeAssumption
<1> DEFINE n == Length[load.file]
           all == NUM_VRAM_BANKS * VRAM_BANK_SIZE
<1> HIDE DEF n, all
<1>4. CASE load.what = "palette"
  BY <1>1, <1>2, <1>4 DEF Place
<1>5. CASE load.what = "tilemap"
  <2>1. load.dst + i \in 0..VRAM_BANK_SIZE - 1
    BY <1>1, <1>2, <1>3, <1>5 DEF n
  <2> QED BY <1>1, <1>2, <1>5, <2>1 DEF Place, Window
<1>6. CASE load.what = "image"
  <2>1. load.dst + i \in Nat /\ load.dst + i < all
    BY <1>1, <1>2, <1>3, <1>6 DEF n, all
  <2> QED BY <1>1, <1>2, <1>6, <2>1 DEF Place, all
<1> QED BY <1>1, <1>4, <1>5, <1>6

\* A load goes to cells that are there, each part of it to one of its own.
LEMMA PlaceInCells ==
  ASSUME NEW load \in Loads, NEW i \in 0..Length[load.file] - 1
  PROVE  Place(load, i) \in Cells
<1>1. TILEMAP_BANK \in VramBanks
  BY SizeAssumption DEF VramBanks, TILEMAP_BANK, VRAM_BANK_END, VRAM_BANK_BEGIN
<1>2. CASE load.what = "image"
  <2>1. /\ GET_VRAM_BANK(load.dst + i) \in VramBanks
        /\ GET_VRAM_BANK_OFFSET(load.dst + i) \in Window
    BY <1>2, PlaceIs, InVram
  <2> QED BY <1>2, <2>1, PlaceIs DEF Cells
<1> QED BY <1>1, <1>2, PlaceIs DEF Cells

LEMMA PlacesDistinct ==
  ASSUME NEW load \in Loads, NEW i \in 0..Length[load.file] - 1,
         NEW j \in 0..Length[load.file] - 1, i # j
  PROVE  Place(load, i) # Place(load, j)
<1> DEFINE n == Length[load.file]
<1>1. load.dst \in Nat /\ n \in Nat /\ i \in Nat /\ j \in Nat /\ i < n /\ j < n
  BY PlaceIs
<1> HIDE DEF n
<1>2. CASE load.what = "palette"
  <2>1. n <= 1
    BY <1>2, PlaceIs DEF n
  <2> QED BY <1>1, <2>1
<1>3. CASE load.what = "tilemap"
  <2>1. load.dst + i # load.dst + j
    BY <1>1
  <2> QED BY <1>3, <2>1, PlaceIs
<1>4. CASE load.what = "image"
  <2>1. load.dst + i \in Nat /\ load.dst + j \in Nat /\ load.dst + i # load.dst + j
    BY <1>1
  <2>2. \/ GET_VRAM_BANK(load.dst + i) # GET_VRAM_BANK(load.dst + j)
        \/ GET_VRAM_BANK_OFFSET(load.dst + i) # GET_VRAM_BANK_OFFSET(load.dst + j)
    BY <2>1, PlacesApart
  <2> QED BY <1>4, <2>2, PlaceIs
<1> QED BY <1>2, <1>3, <1>4, PlaceIs

-----------------------------------------------------------------------------
(* The memory of the core.                                                 *)

LEMMA StoredShape ==
  ASSUME Memory(core), NEW v
  PROVE  Memory(Stored(v)) /\ Stored(v).access = core.access /\ Stored(v).bank = core.bank
<1>1. CASE server.what = "palette"
  BY <1>1 DEF Stored, Memory, Fields
<1>2. CASE server.what # "palette"
  BY <1>2, PokeShape DEF Stored
<1> QED BY <1>1, <1>2

\* A part of a file that is put where the sketch wanted it leaves every other
\* cell as it is.
LEMMA StoredAt ==
  ASSUME Memory(core), NEW load \in Loads, NEW i \in 0..Length[load.file] - 1, NEW v,
         server.what = load.what,
         load.what = "palette" => server.to = load.dst,
         load.what = "tilemap" =>
           core.bank = TILEMAP_BANK /\ server.to + server.got = load.dst + i,
         load.what = "image" =>
           /\ core.access = TRUE /\ core.bank = GET_VRAM_BANK(load.dst + i)
           /\ server.to + server.got = GET_VRAM_BANK_OFFSET(load.dst + i)
  PROVE  /\ CellOf(Stored(v), Place(load, i)) = v
         /\ \A p \in Cells : p # Place(load, i) => CellOf(Stored(v), p) = CellOf(core, p)
<1>1. 0 \notin VramBanks /\ TILEMAP_BANK \in VramBanks
  BY SizeAssumption DEF VramBanks, TILEMAP_BANK, VRAM_BANK_END, VRAM_BANK_BEGIN
<1>2. CASE load.what = "palette"
  <2>1. Place(load, i) = <<0, load.dst>> /\ load.dst \in Layers
    BY <1>2, PlaceIs
  <2>2. Stored(v) = [core EXCEPT !.palette[load.dst] = v]
    BY <1>2 DEF Stored
  <2>3. /\ Stored(v).window = core.window
        /\ Stored(v).palette = [core.palette EXCEPT ![load.dst] = v]
        /\ core.palette = [l \in Layers |-> core.palette[l]]
    BY <2>2 DEF Memory, Fields
  <2> DEFINE d == Stored(v)
  <2>4. \A l \in Layers : d.palette[l] = IF l = load.dst THEN v ELSE core.palette[l]
    BY <2>3
  <2> HIDE DEF d
  <2>5. CellOf(d, Place(load, i)) = v
    BY <2>1, <2>4 DEF CellOf
  <2>6. ASSUME NEW p \in Cells, p # Place(load, i)
        PROVE  CellOf(d, p) = CellOf(core, p)
    <3>1. CASE p \in {0} \X Layers
      <4>1. p = <<p[1], p[2]>> /\ p[1] = 0 /\ p[2] \in Layers
        BY <3>1
      <4>2. p[2] # load.dst
        BY <2>1, <2>6, <4>1
      <4> QED BY <2>4, <4>1, <4>2 DEF CellOf
    <3>2. CASE p \in VramBanks \X Window
      BY <1>1, <2>3, <3>2 DEF CellOf, d
    <3> QED BY <2>6, <3>1, <3>2 DEF Cells
  <2> QED BY <2>5, <2>6 DEF d
<1>3. CASE load.what \in {"tilemap", "image"}
  <2> DEFINE b == core.bank
             a == server.to + server.got
             d == Poke(core, a, v)
  <2>1. /\ Place(load, i) = <<b, a>> /\ b \in VramBanks /\ a \in Window
        /\ b = TILEMAP_BANK \/ (b \in VRAM_BANK_BEGIN..VRAM_BANK_END - 1 /\ core.access)
    <3>1. CASE load.what = "tilemap"
      BY <1>1, <3>1, PlaceIs
    <3>2. CASE load.what = "image"
      <4>1. load.dst + i \in Nat /\ load.dst + i < NUM_VRAM_BANKS * VRAM_BANK_SIZE
        BY <3>2, PlaceIs
      <4> QED BY <3>2, <4>1, PlaceIs, InVram
    <3> QED BY <1>3, <3>1, <3>2
  <2>2. Stored(v) = d
    BY <1>3 DEF Stored
  <2> HIDE DEF a
  <2>3. /\ \A f \in Fields \ {"window"} : d[f] = core[f]
        /\ \A k \in VramBanks, p \in Window :
             (k # b \/ p # a) => d.window[k][p] = core.window[k][p]
        /\ d.window[b][a] = v
    BY <2>1, PokeMemory
  <2> HIDE DEF b, d
  <2>4. CellOf(d, <<b, a>>) = v
    BY <1>1, <2>1, <2>3 DEF CellOf
  <2>5. ASSUME NEW p \in Cells, p # <<b, a>>
        PROVE  CellOf(d, p) = CellOf(core, p)
    <3>1. CASE p \in {0} \X Layers
      BY <2>3, <3>1 DEF CellOf, Fields
    <3>2. CASE p \in VramBanks \X Window
      <4>1. p = <<p[1], p[2]>> /\ p[1] \in VramBanks /\ p[2] \in Window /\ p[1] # 0
        BY <1>1, <3>2
      <4> QED BY <2>3, <2>5, <4>1 DEF CellOf
    <3> QED BY <2>5, <3>1, <3>2 DEF Cells
  <2> QED BY <2>1, <2>2, <2>4, <2>5
<1> QED BY <1>2, <1>3, PlaceIs

LEMMA RegisterMemory ==
  ASSUME NEW c, Memory(c), NEW v
  PROVE  /\ Memory(Bank(c, v)) /\ SameCells(c, Bank(c, v))
         /\ Memory(Access(c, v)) /\ SameCells(c, Access(c, v))
BY RegisterOnly DEF SameCells, Fields

LEMMA SameCellsHeld ==
  ASSUME NEW c, NEW d, SameCells(c, d)
  PROVE  \A p : CellOf(d, p) = CellOf(c, p)
BY DEF SameCells, CellOf

-----------------------------------------------------------------------------
(* The steps outside a transfer.                                           *)

LEMMA ResumeIs ==
  ASSUME NEW pc
  PROVE  /\ Resume(pc) = [f \in SketchFields |-> Resume(pc)[f]]
         /\ Resume(pc).pc = pc /\ Resume(pc).total = 0
         /\ Unused = [f \in ServerFields |-> Unused[f]] /\ ~Unused.busy
BY DEF Resume, SketchFields, Unused, ServerFields

LEMMA InitLInv == Init => LInv
<1> SUFFICES ASSUME Init PROVE LInv
  OBVIOUS
<1>1. core = PowerUp /\ want = Nothing /\ server = Unused
      /\ sketch = Resume("begin")
  BY DEF Init, DisplayInit
<1>3. Memory(core)
  BY <1>1 DEF PowerUp, Memory, Fields, VramBanks, Window
<1>4. DOMAIN want = {}
  BY <1>1 DEF Nothing
<1>5. LShape
  BY <1>1, <1>3, <1>4, ResumeIs DEF LShape
<1>6. OwnTransfer
  BY <1>1, ResumeIs DEF OwnTransfer
<1> QED BY <1>1, <1>4, <1>5, <1>6, ResumeIs DEF LInv, Transfers

\* A step after which the sketch waits for no transfer, and which leaves the
\* memory alone or forgets what was wanted of it.
LEMMA Settled ==
  ASSUME LInv, Memory(core'), sketch' = [f \in SketchFields |-> sketch'[f]],
         server' = [f \in ServerFields |-> server'[f]],
         sketch'.pc \notin Transfers \cup {"open"},
         want' = Nothing \/ (want' = want /\ SameCells(core, core')),
         sketch'.pc = "held" => want' = Nothing /\ ~server'.busy,
         server'.busy => sketch'.pc \in Starting /\ want' = Nothing
  PROVE  LInv'
<1>1. DOMAIN want' \subseteq Cells /\ \A p \in DOMAIN want' : CellOf(core', p) = want'[p]
  <2>1. CASE want' = Nothing
    BY <2>1 DEF Nothing
  <2>2. CASE want' = want /\ SameCells(core, core')
    BY <2>2, SameCellsHeld DEF LInv, LShape
  <2> QED BY <2>1, <2>2
<1>2. LShape' /\ OwnTransfer'
  BY <1>1 DEF LShape, OwnTransfer
<1> QED BY <1>1, <1>2 DEF LInv, Transfers

LEMMA SameLInv ==
  ASSUME LInv, UNCHANGED <<core, sketch, server, want>>
  PROVE  LInv'
BY DEF LInv, LShape, OwnTransfer, Progress, Selected, Answering, Due, Remaining

\* What draws in the menu has the Arduino held, and what resets the display
\* after it leaves the memory alone.
LEMMA DrawingLInv ==
  ASSUME CInv, BInv, LInv, Drawing, UNCHANGED Others
  PROVE  LInv'
<1>1. fw.pc \in Phases /\ UNCHANGED <<sketch, server, want>>
  BY DEF Drawing, DrawScreen, Menu, display_init, ResetSprite, SpritesReset,
         display_text_init, display_bg_load_palette, LoadPalette, PaletteLoaded,
         display_bg_load_image, LoadImage, ImageLoaded, display_text_clear,
         display_text_render, Draw, AtWork, Phases, Others, sketchVars
<1>2. Screen /\ ~server.busy
  BY <1>1 DEF BInv, Phases
<1>3. CASE display_init \/ ResetSprite \/ SpritesReset
  <2>1. sketch.pc \in {"held"} \cup Starting
    BY <1>3 DEF CInv, OneMaster, display_init, ResetSprite, SpritesReset, AtWork
  <2>2. Memory(core') /\ SameCells(core, core')
    BY <1>2, <1>3, ClearMemory DEF Screen
  <2>3. sketch.pc = "held" => want = Nothing
    BY DEF LInv, OwnTransfer
  <2> QED BY <1>1, <1>2, <2>1, <2>2, <2>3, Settled DEF LInv, LShape, Starting, Transfers
<1>4. CASE Painting
  <2>1. sketch.pc = "held" /\ Memory(core')
    BY <1>2, <1>4, PaintingHeld, PaintScreen DEF Screen
  <2>2. want' = Nothing /\ ~server'.busy
    BY <1>1, <2>1 DEF LInv, OwnTransfer
  <2> QED BY <1>1, <2>1, <2>2, Settled DEF LInv, LShape, Transfers
<1> QED BY <1>3, <1>4 DEF Drawing, DrawScreen, Painting

\* The coprocessor takes the Arduino or lets it go.
LEMMA TakeLInv ==
  ASSUME CInv, BInv, LInv, Main \/ isp_reset \/ Release \/ isp_program
  PROVE  LInv'
<1>1. CASE Release \/ isp_program
  <2>1. sketch.pc = "held"
    BY <1>1 DEF Release, isp_program, LetGo, AtWork, CInv, OneMaster, Clearing
  <2>2. sketch' = Resume("begin") /\ UNCHANGED <<core, server, want>>
    BY <1>1 DEF Release, isp_program, LetGo
  <2>3. want = Nothing /\ ~server.busy
    BY <2>1 DEF LInv, OwnTransfer
  <2> QED BY <2>2, <2>3, ResumeIs, Settled DEF LInv, LShape, Transfers, SameCells
<1>2. CASE Hold /\ UNCHANGED <<core, server>> /\ fw.pc \in {"boot", "programmed"}
  <2>1. sketch' = Resume("held") /\ want' = Nothing /\ ~server'.busy
    BY <1>2 DEF Hold, BInv
  <2> QED BY <1>2, <2>1, ResumeIs, Settled DEF LInv, LShape, Transfers
<1>3. CASE UNCHANGED <<core, sketch, server, want>>
  BY <1>3, SameLInv
<1> QED BY <1>1, <1>2, <1>3 DEF Main, isp_reset, AtWork

\* The sketch starts: what the coprocessor may still write for another one,
\* nobody wants.
LEMMA StartLInv ==
  ASSUME LInv,
         ResetArduino \/ begin \/ DisableRead \/ DisableWrite \/ ClearCache \/ RPC_begin
  PROVE  LInv'
<1>1. CASE ResetArduino
  <2>1. sketch' = Resume("begin") /\ UNCHANGED <<core, server>> /\ want' = Nothing
    BY <1>1 DEF ResetArduino, displayVars
  <2> QED BY <2>1, ResumeIs, Settled DEF LInv, LShape, Transfers, Starting
<1>2. CASE begin \/ DisableRead \/ DisableWrite \/ ClearCache
  <2>1. sketch.pc \in Starting /\ UNCHANGED <<server, want>>
    BY <1>2 DEF begin, DisableRead, DisableWrite, ClearCache, In, Only, Starting
  <2>2. server.busy => want = Nothing
    BY <2>1 DEF LInv, OwnTransfer, Starting
  <2>3. /\ sketch' = [f \in SketchFields |-> sketch'[f]]
        /\ sketch'.pc \in {"disable", "disabling", "rpc"}
    <3>1. sketch = [f \in SketchFields |-> sketch[f]]
      BY DEF LInv, LShape
    <3>2. CASE begin \/ ClearCache
      BY <3>2, ResumeIs DEF begin, ClearCache
    <3>3. CASE DisableRead \/ DisableWrite
      BY <3>1, <3>3 DEF DisableRead, DisableWrite, SketchFields
    <3> QED BY <1>2, <3>2, <3>3
  <2>4. Memory(core') /\ SameCells(core, core')
    <3>1. Memory(core)
      BY DEF LInv, LShape
    <3>2. CASE begin
      BY <3>1, <3>2, ResetMemory DEF begin
    <3>3. CASE DisableWrite
      <4>1. PICK r : core' = [core EXCEPT !.sprite[sketch.at] = r]
        BY <3>3 DEF DisableWrite
      <4> QED BY <3>1, <4>1, FieldMemory
    <3>4. CASE DisableRead \/ ClearCache
      BY <3>1, <3>4 DEF DisableRead, ClearCache, SameCells
    <3> QED BY <1>2, <3>2, <3>3, <3>4
  <2> QED BY <2>1, <2>2, <2>3, <2>4, Settled DEF LInv, LShape, Transfers, Starting
<1>3. CASE RPC_begin
  <2>1. sketch' = Resume("idle") /\ server' = Unused /\ UNCHANGED <<core, want>>
    BY <1>3 DEF RPC_begin
  <2> QED BY <2>1, ResumeIs, Settled DEF LInv, LShape, Transfers, SameCells
<1> QED BY <1>1, <1>2, <1>3

\* A call that is one step: the sketch is not waiting before or after it.
LEMMA QuietLInv ==
  ASSUME LInv, sketch.pc \in {"idle", "watch", "woken"}, UNCHANGED <<server, want>>,
         Memory(core'), SameCells(core, core'),
         sketch' = [f \in SketchFields |-> sketch'[f]],
         sketch'.pc \in {"idle", "watch", "woken", "begin"}
  PROVE  LInv'
<1>1. ~server.busy
  BY DEF LInv, OwnTransfer, Starting
<1> QED BY <1>1, Settled DEF LInv, LShape, Transfers

LEMMA SetsLInv == ASSUME LInv, Sets PROVE LInv'
<1>1. Memory(core) /\ sketch = [f \in SketchFields |-> sketch[f]]
  BY DEF LInv, LShape
<1>2. ASSUME sketch.pc = "idle", UNCHANGED <<sketch, server, want>>,
             Memory(core'), SameCells(core, core')
      PROVE  LInv'
  BY <1>1, <1>2, QuietLInv
<1>3. ASSUME NEW l \in Layers, NEW f, NEW v, SetLayer(l, f, v) PROVE LInv'
  <2>1. core' = [core EXCEPT !.ctrl[l] = s_tile_regs'[l]]
        /\ sketch.pc = "idle" /\ UNCHANGED <<sketch, server, want>>
    BY <1>3 DEF SetLayer, Call, In, Only
  <2>2. Memory(core') /\ SameCells(core, core')
    BY <1>1, <2>1, FieldMemory
  <2> QED BY <1>2, <2>1, <2>2
<1>4. ASSUME NEW s, NEW f, NEW v, SetSprite(s, f, v) PROVE LInv'
  <2>1. core' = [core EXCEPT !.sprite[s][f] = v]
        /\ sketch.pc = "idle" /\ UNCHANGED <<sketch, server, want>>
    BY <1>4 DEF SetSprite, Call, In, Only
  <2>2. Memory(core') /\ SameCells(core, core')
    BY <1>1, <2>1, FieldMemory
  <2> QED BY <1>2, <2>1, <2>2
<1>5. ASSUME NEW c, Write(c), Memory(c), SameCells(core, c) PROVE LInv'
  BY <1>2, <1>5 DEF Write, Call, In, Only
<1>6. ASSUME NEW l \in Layers,
             enableTileLayer(l) \/ disableTileLayer(l) \/ setTileLayerProperty(l)
      PROVE  LInv'
  <2>1. ASSUME NEW offset \in Offsets, Write([core EXCEPT !.base[l] = offset]) PROVE LInv'
    BY <1>1, <1>5, <2>1, FieldMemory
  <2> QED
    BY <1>3, <1>6, <2>1 DEF enableTileLayer, disableTileLayer, setTileLayerProperty
<1>7. ASSUME NEW l \in Layers, NEW x \in Values, moveTileLayer(l, x) PROVE LInv'
  BY <1>1, <1>5, <1>7, FieldMemory DEF moveTileLayer
<1>8. ASSUME NEW x \in Values, moveCamera(x) \/ setSpriteDepth(x) PROVE LInv'
  BY <1>1, <1>5, <1>8, FieldMemory DEF moveCamera, setSpriteDepth
<1>9. ASSUME NEW s \in DOMAIN core.sprite,
             \/ enableSprite(s) \/ disableSprite(s) \/ setSpriteProperty(s)
             \/ \E x \in Values : moveSprite(s, x)
      PROVE  LInv'
  BY <1>4, <1>9 DEF enableSprite, disableSprite, setSpriteProperty, moveSprite
<1> QED BY <1>6, <1>7, <1>8, <1>9 DEF Sets

LEMMA WaitLInv ==
  ASSUME LInv,
         \/ BeginAgain \/ Poll \/ Woken \/ Scan
         \/ \E event \in {"VBLANK_BEGIN", "VBLANK_END"} : waitForEvent(event)
  PROVE  LInv'
<1>1. /\ sketch.pc \in {"idle", "watch", "woken"} /\ UNCHANGED <<core, server, want>>
      /\ \/ \E pc \in {"begin", "idle"} : sketch' = Resume(pc)
         \/ \E e : sketch' = [Resume("watch") EXCEPT !.event = e]
         \/ sketch.pc = "watch" /\ \E p : sketch' = [sketch EXCEPT !.polled = p]
         \/ sketch' = [sketch EXCEPT !.pc = "woken"]
  BY DEF BeginAgain, Poll, Woken, Scan, waitForEvent, Call, In, Only, displayVars
<1>2. sketch = [f \in SketchFields |-> sketch[f]] /\ Memory(core)
  BY DEF LInv, LShape
<1>3. /\ sketch' = [f \in SketchFields |-> sketch'[f]]
      /\ sketch'.pc \in {"idle", "watch", "woken", "begin"}
  <2>1. CASE \E pc \in {"begin", "idle"} : sketch' = Resume(pc)
    BY <2>1, ResumeIs
  <2>2. CASE \E e : sketch' = [Resume("watch") EXCEPT !.event = e]
    BY <2>2, ResumeIs DEF SketchFields
  <2>3. CASE sketch.pc = "watch" /\ \E p : sketch' = [sketch EXCEPT !.polled = p]
    BY <1>2, <2>3 DEF SketchFields
  <2>4. CASE sketch' = [sketch EXCEPT !.pc = "woken"]
    BY <1>2, <2>4 DEF SketchFields
  <2> QED BY <1>1, <2>1, <2>2, <2>3, <2>4
<1> QED BY <1>1, <1>2, <1>3, QuietLInv DEF SameCells

-----------------------------------------------------------------------------
(* The steps of a load.                                                    *)

\* A step of a load that leaves the memory alone.
LEMMA Going ==
  ASSUME LInv, Memory(core'), SameCells(core, core'), want' = want,
         sketch' = [f \in SketchFields |-> sketch'[f]],
         server' = [f \in ServerFields |-> server'[f]],
         sketch.pc \in Transfers \cup {"open"}, sketch'.pc \in Transfers,
         sketch'.load = sketch.load, server'.busy => sketch'.pc = "wait",
         Progress', Selected', sketch'.pc = "wait" => Answering'
  PROVE  LInv'
<1>1. \A p \in DOMAIN want' : CellOf(core', p) = want'[p]
  BY SameCellsHeld DEF LInv
<1>2. LShape' /\ OwnTransfer'
  BY DEF LInv, LShape, OwnTransfer, Transfers
<1>3. sketch'.load \in Loads /\ DOMAIN want' \cap Places(sketch'.load) = {}
  BY DEF LInv
<1> QED BY <1>1, <1>2, <1>3 DEF LInv, Transfers

\* What has been brought stays while the memory does.
LEMMA PlacedKept ==
  ASSUME NEW c, NEW d, NEW load, NEW n, Placed(c, load, n), SameCells(c, d)
  PROVE  Placed(d, load, n)
BY SameCellsHeld DEF Placed

LEMMA LoadLInv ==
  ASSUME LInv, NEW load \in Loads, Load(load)
  PROVE  LInv'
<1>1. /\ sketch.pc = "idle" /\ UNCHANGED <<core, server>>
      /\ sketch' = [Resume("open") EXCEPT !.load = load, !.at = load.dst]
      /\ want' = [p \in DOMAIN want \ Places(load) |-> want[p]]
  BY DEF Load, Call, In, Only
<1>2. /\ sketch' = [f \in SketchFields |-> sketch'[f]] /\ sketch'.pc = "open"
      /\ sketch'.load = load /\ sketch'.at = load.dst /\ sketch'.total = 0
  BY <1>1 DEF Resume, SketchFields
<1>3. ~server'.busy
  BY <1>1 DEF LInv, OwnTransfer, Starting
<1>4. /\ DOMAIN want' \subseteq Cells /\ DOMAIN want' \cap Places(load) = {}
      /\ \A p \in DOMAIN want' : CellOf(core', p) = want'[p]
  BY <1>1 DEF LInv, LShape
<1>5. LShape' /\ OwnTransfer'
  BY <1>1, <1>2, <1>3, <1>4 DEF LInv, LShape, OwnTransfer
<1> QED BY <1>2, <1>4, <1>5 DEF LInv, Transfers

LEMMA OpenLInv ==
  ASSUME LInv, Open
  PROVE  LInv'
<1>1. /\ sketch.pc = "open" /\ UNCHANGED <<core, want>>
      /\ \/ /\ server' = [Unused EXCEPT !.file = sketch.load.file]
            /\ sketch' = [sketch EXCEPT !.pc = "prepare"]
         \/ server' = Unused /\ sketch' = Resume("idle")
  BY DEF Open, In, displayVars
<1>2. /\ sketch = [f \in SketchFields |-> sketch[f]] /\ Memory(core)
      /\ sketch.load \in Loads /\ sketch.total = 0 /\ sketch.at = sketch.load.dst
  BY <1>1 DEF LInv, LShape
<1>3. sketch.load.dst \in Nat /\ Length[sketch.load.file] \in Nat
  BY <1>2, LoadAssumption
<1>4. CASE server' = Unused /\ sketch' = Resume("idle")
  BY <1>1, <1>2, <1>4, ResumeIs, Settled DEF SameCells, Transfers
<1>5. CASE /\ server' = [Unused EXCEPT !.file = sketch.load.file]
           /\ sketch' = [sketch EXCEPT !.pc = "prepare"]
  <2>1. /\ sketch' = [f \in SketchFields |-> sketch'[f]] /\ sketch'.pc = "prepare"
        /\ sketch'.load = sketch.load /\ sketch'.total = 0 /\ sketch'.at = sketch.load.dst
    BY <1>2, <1>5 DEF SketchFields
  <2>2. /\ server' = [f \in ServerFields |-> server'[f]] /\ ~server'.busy /\ ~server'.failed
        /\ server'.file = sketch.load.file /\ server'.pos = 0
    BY <1>5 DEF Unused, ServerFields
  <2>3. Placed(core', sketch'.load, 0)
    BY DEF Placed
  <2>4. Progress' /\ Selected'
    BY <1>3, <2>1, <2>2, <2>3 DEF Progress, Selected
  <2> QED BY <1>1, <1>2, <2>1, <2>2, <2>4, Going DEF SameCells, Transfers
<1> QED BY <1>1, <1>4, <1>5

\* Window and bank are selected before the coprocessor is asked to write.
LEMMA SelectLInv ==
  ASSUME LInv, Prepare \/ SelectBank
  PROVE  LInv'
<1>1. /\ UNCHANGED <<server, want>> /\ sketch.pc \in {"prepare", "bank"}
      /\ sketch' = [sketch EXCEPT !.pc =
                      IF sketch.pc = "prepare" /\ sketch.load.what = "image"
                        THEN "bank" ELSE "ask"]
      /\ sketch.pc = "prepare" =>
           core' = CASE sketch.load.what = "tilemap" -> Bank(core, TILEMAP_BANK)
                     [] sketch.load.what = "image"   -> Access(core, TRUE)
                     [] OTHER -> core
      /\ sketch.pc = "bank" => core' = Bank(core, GET_VRAM_BANK(sketch.at))
  BY DEF Prepare, SelectBank, BankOf, In, Only
<1>2. /\ sketch = [f \in SketchFields |-> sketch[f]] /\ Memory(core) /\ LShape
      /\ ~server.busy /\ Progress /\ Selected
  BY <1>1 DEF LInv, LShape, OwnTransfer, Transfers, Starting
<1>3. /\ sketch' = [f \in SketchFields |-> sketch'[f]]
      /\ sketch'.load = sketch.load /\ sketch'.total = sketch.total /\ sketch'.at = sketch.at
      /\ sketch'.pc = IF sketch.pc = "prepare" /\ sketch.load.what = "image"
                        THEN "bank" ELSE "ask"
  BY <1>1, <1>2 DEF SketchFields
<1>4. /\ Memory(core') /\ SameCells(core, core')
      /\ sketch.pc = "prepare" /\ sketch.load.what = "tilemap" => core'.bank = TILEMAP_BANK
      /\ sketch.pc = "prepare" /\ sketch.load.what = "image" => core'.access = TRUE
      /\ sketch.pc = "bank" => /\ core'.bank = GET_VRAM_BANK(sketch.at)
                               /\ core'.access = core.access
  <2>1. CASE sketch.pc = "prepare" /\ sketch.load.what \notin {"tilemap", "image"}
    BY <1>1, <1>2, <2>1 DEF SameCells
  <2>2. CASE sketch.pc = "prepare" /\ sketch.load.what = "tilemap"
    <3>1. core' = Bank(core, TILEMAP_BANK)
      BY <1>1, <2>2
    <3> QED BY <1>2, <2>2, <3>1, RegisterMemory, RegisterOnly
  <2>3. CASE sketch.pc = "prepare" /\ sketch.load.what = "image"
    <3>1. core' = Access(core, TRUE)
      BY <1>1, <2>3
    <3> QED BY <1>2, <2>3, <3>1, RegisterMemory, RegisterOnly
  <2>4. CASE sketch.pc = "bank"
    <3>1. core' = Bank(core, GET_VRAM_BANK(sketch.at))
      BY <1>1, <2>4
    <3> QED BY <1>2, <2>4, <3>1, RegisterMemory, RegisterOnly DEF Fields
  <2> QED BY <1>1, <2>1, <2>2, <2>3, <2>4
<1>5. Progress'
  <2>1. Placed(core', sketch'.load, server'.pos)
    BY <1>1, <1>2, <1>3, <1>4, PlacedKept DEF Progress
  <2> QED BY <1>1, <1>2, <1>3, <2>1 DEF Progress
<1>6. Selected'
  BY <1>1, <1>2, <1>3, <1>4 DEF Selected
<1> QED
  BY <1>1, <1>2, <1>3, <1>4, <1>5, <1>6, Going DEF LShape, Transfers

LEMMA AtIs ==
  ASSUME NEW x \in Nat
  PROVE  /\ GET_VRAM_BANK_OFFSET(x) \in Nat /\ GET_VRAM_BANK_OFFSET(x) < VRAM_BANK_SIZE
         /\ VRAM_BANK_SIZE \in Nat /\ VRAM_BANK_SIZE - GET_VRAM_BANK_OFFSET(x) \in Nat
<1>1. x % B \in Nat /\ x % B < B
  BY Banked
<1> QED BY <1>1, SizeAssumption DEF GET_VRAM_BANK_OFFSET, B

LEMMA AskLInv ==
  ASSUME LInv, readToCore
  PROVE  LInv'
<1>1. /\ sketch.pc = "ask" /\ sketch' = [sketch EXCEPT !.pc = "wait"]
      /\ UNCHANGED <<core, want>>
      /\ server' = [server EXCEPT !.busy = TRUE, !.what = sketch.load.what, !.got = 0,
                      !.to = IF sketch.load.what = "image" THEN GET_VRAM_BANK_OFFSET(sketch.at)
                             ELSE sketch.load.dst,
                      !.left = IF sketch.load.what = "image" THEN Remaining
                               ELSE Length[sketch.load.file]]
  BY DEF readToCore, In, displayVars
<1>2. /\ sketch = [f \in SketchFields |-> sketch[f]] /\ Memory(core)
      /\ server = [f \in ServerFields |-> server[f]]
      /\ Progress /\ Selected /\ sketch.load \in Loads
  BY <1>1 DEF LInv, LShape, Transfers
<1>3. Due \in Nat
  BY <1>2, AtIs, LoadAssumption DEF Due, Remaining, Progress
<1>4. /\ sketch' = [f \in SketchFields |-> sketch'[f]] /\ sketch'.pc = "wait"
      /\ sketch'.load = sketch.load /\ sketch'.total = sketch.total /\ sketch'.at = sketch.at
  BY <1>1, <1>2 DEF SketchFields
<1>5. /\ server' = [f \in ServerFields |-> server'[f]] /\ server'.busy
      /\ server'.what = sketch.load.what /\ server'.got = 0 /\ server'.left = Due
      /\ server'.to = IF sketch.load.what = "image" THEN GET_VRAM_BANK_OFFSET(sketch.at)
                      ELSE sketch.load.dst
      /\ server'.file = server.file /\ server'.pos = server.pos
      /\ server'.failed = server.failed
  BY <1>1, <1>2 DEF ServerFields, Due
<1>6. SameCells(core, core')
  BY <1>1 DEF SameCells
<1>7. Progress'
  <2>1. Placed(core', sketch'.load, server'.pos)
    BY <1>2, <1>4, <1>5, <1>6, PlacedKept DEF Progress
  <2> QED BY <1>1, <1>2, <1>4, <1>5, <2>1 DEF Progress
<1>8. Selected'
  BY <1>1, <1>2, <1>4 DEF Selected
<1>9. Answering'
  <2>1. Due' = Due
    BY <1>4 DEF Due, Remaining
  <2>2. server'.pos = sketch'.total + server'.got
    <3>1. server.pos = sketch.total /\ sketch.total \in Nat
      BY <1>1, <1>2 DEF Progress
    <3> QED BY <1>4, <1>5, <3>1
  <2> QED BY <1>3, <1>4, <1>5, <2>1, <2>2 DEF Answering
<1> QED BY <1>1, <1>2, <1>4, <1>5, <1>6, <1>7, <1>8, <1>9, Going DEF Transfers

\* The part of the file that comes next belongs where the coprocessor writes.
LEMMA NextPart ==
  ASSUME LInv, sketch.pc = "wait", server.left > 0, ~server.failed,
         server.pos < Length[server.file], NEW v
  PROVE  /\ server.pos \in 0..Length[sketch.load.file] - 1
         /\ CellOf(Stored(v), Place(sketch.load, server.pos)) = v
         /\ \A p \in Cells : p # Place(sketch.load, server.pos) =>
              CellOf(Stored(v), p) = CellOf(core, p)
<1> DEFINE load == sketch.load
           i    == server.pos
           at   == sketch.at
<1>1. Memory(core) /\ Progress /\ Selected /\ Answering /\ load \in Loads
  BY DEF LInv, LShape, Transfers
<1>2. /\ load.dst \in Nat /\ i \in 0..Length[load.file] - 1 /\ i \in Nat
      /\ at \in Nat /\ sketch.total \in Nat /\ server.got \in Nat /\ server.left \in Nat
      /\ i = sketch.total + server.got /\ at = load.dst + sketch.total
      /\ load.dst + i = at + server.got
      /\ server.left > 0 /\ server.got + server.left = Due
  <2>1. /\ load.dst \in Nat /\ Length[load.file] \in Nat
    BY <1>1, LoadAssumption
  <2>2. server.file = load.file /\ i \in 0..Length[load.file] /\ i < Length[load.file]
    BY <1>1 DEF Progress
  <2>3. at \in Nat /\ sketch.total \in Nat /\ at = load.dst + sketch.total
    BY <1>1 DEF Progress
  <2>4. server.got \in Nat /\ server.left \in Nat /\ i = sketch.total + server.got
    BY <1>1 DEF Answering
  <2>5. server.got + server.left = Due
    <3>1. server.left # 0
      BY <2>4
    <3> QED BY <1>1, <3>1 DEF Answering
  <2> QED BY <2>1, <2>2, <2>3, <2>4, <2>5
<1>3. server.what = load.what
  BY <1>1 DEF Answering
<1>4. load.what = "palette" => server.to = load.dst
  BY <1>1 DEF Answering
<1>5. load.what = "tilemap" =>
        core.bank = TILEMAP_BANK /\ server.to + server.got = load.dst + i
  <2>1. load.what = "tilemap" =>
          core.bank = TILEMAP_BANK /\ server.to = load.dst /\ sketch.total = 0
    BY <1>1 DEF Answering, Progress, Selected
  <2> QED BY <1>2, <2>1
<1>6. ASSUME load.what = "image"
      PROVE  /\ core.access = TRUE /\ core.bank = GET_VRAM_BANK(load.dst + i)
             /\ server.to + server.got = GET_VRAM_BANK_OFFSET(load.dst + i)
  <2>1. /\ core.access = TRUE /\ core.bank = GET_VRAM_BANK(at)
        /\ server.to = GET_VRAM_BANK_OFFSET(at)
    BY <1>1, <1>6 DEF Answering, Selected
  <2>2. server.got + server.left = VRAM_BANK_SIZE - GET_VRAM_BANK_OFFSET(at)
    BY <1>2, <1>6 DEF Due, Remaining
  <2> DEFINE q == at \div B
             r == at % B
  <2>3. q \in Nat /\ r \in Nat /\ r < B /\ at = B * q + r /\ B \in Nat
    BY <1>2, Banked, SizeAssumption DEF B
  <2>4. server.got + server.left = B - r
    BY <2>2 DEF GET_VRAM_BANK_OFFSET, B
  <2> HIDE DEF q, r
  <2>5. r + server.got \in Nat /\ r + server.got < B
    BY <1>2, <2>3, <2>4
  <2>6. load.dst + i = B * q + (r + server.got)
    <3>1. B * q \in Nat
      BY <2>3
    <3> QED BY <1>2, <2>3, <3>1
  <2>7. (load.dst + i) \div B = q /\ (load.dst + i) % B = r + server.got
    BY <2>3, <2>5, <2>6, OneBank
  <2> QED
    BY <2>1, <2>7 DEF GET_VRAM_BANK, GET_VRAM_BANK_OFFSET, B, q, r
<1> HIDE DEF load, i
<1>7. /\ CellOf(Stored(v), Place(load, i)) = v
      /\ \A p \in Cells : p # Place(load, i) => CellOf(Stored(v), p) = CellOf(core, p)
  BY <1>1, <1>2, <1>3, <1>4, <1>5, <1>6, StoredAt
<1> QED BY <1>2, <1>7 DEF load, i

\* What the write of the next part leaves of what was wanted and brought.
LEMMA PartKeeps ==
  ASSUME LInv, sketch.pc = "wait", server.left > 0, ~server.failed,
         server.pos < Length[server.file], NEW v
  PROVE  /\ \A p \in DOMAIN want : CellOf(Stored(v), p) = want[p]
         /\ Placed(Stored(v), sketch.load, server.pos)
         /\ v = Cell(sketch.load.file, server.pos) =>
              Placed(Stored(v), sketch.load, server.pos + 1)
<1> DEFINE load == sketch.load
           i    == server.pos
<1>1. /\ i \in 0..Length[load.file] - 1 /\ CellOf(Stored(v), Place(load, i)) = v
      /\ \A p \in Cells : p # Place(load, i) => CellOf(Stored(v), p) = CellOf(core, p)
  BY NextPart
<1>2. /\ DOMAIN want \subseteq Cells /\ DOMAIN want \cap Places(load) = {}
      /\ \A p \in DOMAIN want : CellOf(core, p) = want[p]
      /\ load \in Loads /\ Placed(core, load, i)
  BY DEF LInv, LShape, Transfers, Progress
<1>3. Length[load.file] \in Nat
  BY <1>2, LoadAssumption
<1> HIDE DEF load, i
<1>4. Place(load, i) \in Places(load)
  BY <1>1 DEF Places
<1>5. \A p \in DOMAIN want : CellOf(Stored(v), p) = want[p]
  BY <1>1, <1>2, <1>4
<1>6. ASSUME NEW j \in 0..i - 1
      PROVE  CellOf(Stored(v), Place(load, j)) = Cell(load.file, j)
  <2>1. j \in 0..Length[load.file] - 1 /\ j # i
    BY <1>1, <1>3
  <2>2. Place(load, j) \in Cells /\ Place(load, j) # Place(load, i)
    BY <1>1, <1>2, <2>1, PlaceInCells, PlacesDistinct
  <2> QED BY <1>1, <1>2, <2>2 DEF Placed
<1>7. Placed(Stored(v), load, i)
  BY <1>6 DEF Placed
<1>8. ASSUME v = Cell(load.file, i)
      PROVE  Placed(Stored(v), load, i + 1)
  <2> SUFFICES ASSUME NEW j \in 0..(i + 1) - 1
               PROVE  CellOf(Stored(v), Place(load, j)) = Cell(load.file, j)
    BY DEF Placed
  <2>1. j = i \/ j \in 0..i - 1
    BY <1>1, <1>3
  <2> QED BY <1>1, <1>6, <1>8, <2>1
<1> QED BY <1>5, <1>7, <1>8 DEF load, i

\* A step of the coprocessor while the sketch waits: the sketch and what it
\* wants stay, and so does what has been brought.
LEMMA PartServed ==
  ASSUME LInv, sketch.pc = "wait", UNCHANGED <<sketch, want>>, Memory(core'),
         core'.access = core.access, core'.bank = core.bank,
         server' = [f \in ServerFields |-> server'[f]],
         \A p \in DOMAIN want : CellOf(core', p) = want[p],
         Progress', Answering'
  PROVE  LInv'
<1>1. LShape' /\ OwnTransfer'
  BY DEF LInv, LShape, OwnTransfer
<1>2. Selected'
  BY DEF LInv, Transfers, Selected
<1> QED BY <1>1, <1>2 DEF LInv, Transfers

\* What the coprocessor still writes for a sketch that is gone.
LEMMA LeftOver ==
  ASSUME LInv, server.busy, sketch.pc # "wait", UNCHANGED <<sketch, want>>, Memory(core'),
         server' = [f \in ServerFields |-> server'[f]]
  PROVE  LInv'
<1>1. sketch.pc \in Starting /\ want = Nothing
  BY DEF LInv, OwnTransfer
<1> QED BY <1>1, Settled DEF LInv, LShape, Transfers, Starting

LEMMA ServeLInv ==
  ASSUME LInv, rpc_file_read \/ ReadFails \/ ReadsNothing
  PROVE  LInv'
<1>1. /\ server.busy /\ server.left > 0 /\ UNCHANGED <<sketch, want>>
      /\ server = [f \in ServerFields |-> server[f]] /\ Memory(core)
  BY DEF rpc_file_read, ReadFails, ReadsNothing, More, sketchVars, LInv, LShape
<1>2. /\ server' = [f \in ServerFields |-> server'[f]]
      /\ server'.busy /\ server'.file = server.file /\ server'.what = server.what
      /\ server'.to = server.to
  BY <1>1 DEF rpc_file_read, ReadFails, ReadsNothing, ServerFields
<1>3. Memory(core') /\ core'.access = core.access /\ core'.bank = core.bank
  BY <1>1, StoredShape DEF rpc_file_read, ReadFails, ReadsNothing, displayVars
<1>4. CASE sketch.pc # "wait"
  BY <1>1, <1>2, <1>3, <1>4, LeftOver
<1>5. CASE sketch.pc = "wait"
  <2>1. Progress /\ Selected /\ Answering /\ sketch.load \in Loads
    BY <1>5 DEF LInv, Transfers
  <2>2. /\ server.file = sketch.load.file /\ Length[sketch.load.file] \in Nat
        /\ server.pos \in 0..Length[sketch.load.file]
        /\ server.got \in Nat /\ server.left \in Nat /\ server.left > 0
        /\ sketch.total \in Nat /\ server.pos = sketch.total + server.got
        /\ Due' = Due /\ Placed(core, sketch.load, server.pos)
    BY <1>1, <2>1, LoadAssumption DEF Progress, Answering, Due, Remaining
  <2>3. CASE rpc_file_read
    <3>1. /\ ~server.failed /\ server.pos < Length[server.file]
          /\ core' = Stored(Cell(sketch.load.file, server.pos))
          /\ server' = [server EXCEPT !.pos = @ + 1, !.left = @ - 1, !.got = @ + 1]
      BY <2>2, <2>3 DEF rpc_file_read
    <3>2. /\ \A p \in DOMAIN want : CellOf(core', p) = want[p]
          /\ Placed(core', sketch.load, server.pos + 1)
      BY <1>1, <1>5, <3>1, PartKeeps
    <3>3. /\ server'.pos = server.pos + 1 /\ server'.left = server.left - 1
          /\ server'.got = server.got + 1 /\ server'.failed = server.failed
      BY <1>1, <3>1 DEF ServerFields
    <3>4. server.got + server.left = Due
      <4>1. server.left # 0
        BY <2>2
      <4> QED BY <2>1, <3>1, <4>1 DEF Answering
    <3>5. /\ server'.pos \in 0..Length[sketch.load.file] /\ server'.got \in Nat
          /\ server'.left \in Nat /\ server'.pos = sketch.total + server'.got
          /\ server'.got + server'.left = Due
      BY <2>2, <3>1, <3>3, <3>4
    <3>6. Progress'
      BY <1>1, <1>2, <1>5, <2>1, <3>1, <3>2, <3>3, <3>5 DEF Progress
    <3>7. Answering'
      BY <1>1, <1>2, <2>1, <2>2, <3>5 DEF Answering
    <3> QED BY <1>1, <1>2, <1>3, <1>5, <3>2, <3>6, <3>7, PartServed
  <2>4. CASE ReadFails
    <3>1. /\ ~server.failed /\ server.pos < Length[server.file]
          /\ core' = core \/ core' = Stored(Torn)
          /\ server' = [server EXCEPT !.failed = TRUE, !.left = 0]
      BY <2>4 DEF ReadFails
    <3>2. /\ \A p \in DOMAIN want : CellOf(core', p) = want[p]
          /\ Placed(core', sketch.load, server.pos)
      <4>1. CASE core' = core
        BY <2>2, <4>1 DEF LInv
      <4>2. CASE core' = Stored(Torn)
        BY <1>1, <1>5, <3>1, <4>2, PartKeeps
      <4> QED BY <3>1, <4>1, <4>2
    <3>3. /\ server'.pos = server.pos /\ server'.left = 0
          /\ server'.got = server.got /\ server'.failed
      BY <1>1, <3>1 DEF ServerFields
    <3>4. Progress'
      BY <1>1, <1>2, <1>5, <2>1, <2>2, <3>1, <3>2, <3>3 DEF Progress
    <3>5. Answering'
      BY <1>1, <1>2, <2>1, <2>2, <3>3 DEF Answering
    <3> QED BY <1>1, <1>2, <1>3, <1>5, <3>2, <3>4, <3>5, PartServed
  <2>5. CASE ReadsNothing
    <3>1. /\ server.failed \/ server.pos = Length[server.file]
          /\ core' = core /\ server' = [server EXCEPT !.left = 0]
      BY <2>5 DEF ReadsNothing, displayVars
    <3>2. /\ server'.pos = server.pos /\ server'.left = 0
          /\ server'.got = server.got /\ server'.failed = server.failed
      BY <1>1, <3>1 DEF ServerFields
    <3>3. \A p \in DOMAIN want : CellOf(core', p) = want[p]
      BY <3>1 DEF LInv
    <3>4. Progress'
      BY <1>1, <1>2, <1>5, <2>1, <2>2, <3>1, <3>2 DEF Progress
    <3>5. Answering'
      BY <1>1, <1>2, <2>1, <2>2, <3>1, <3>2 DEF Answering
    <3> QED BY <1>1, <1>2, <1>3, <1>5, <3>3, <3>4, <3>5, PartServed
  <2> QED BY <2>3, <2>4, <2>5
<1> QED BY <1>4, <1>5

\* The next bank begins where the last one ended.
LEMMA NextBankLInv ==
  ASSUME LInv, NextBank
  PROVE  LInv'
<1>1. /\ sketch.pc = "wait" /\ server.left = 0 /\ sketch.load.what = "image" /\ ~EndOfData
      /\ sketch' = [sketch EXCEPT !.pc = "bank", !.total = Total,
                                  !.at = (sketch.at + Remaining) % UINT32]
      /\ server' = [server EXCEPT !.busy = FALSE] /\ UNCHANGED <<core, want>>
  BY DEF NextBank, Answered, In, displayVars
<1>2. /\ sketch = [f \in SketchFields |-> sketch[f]] /\ Memory(core)
      /\ server = [f \in ServerFields |-> server[f]]
      /\ Progress /\ Selected /\ Answering /\ sketch.load \in Loads
  BY <1>1 DEF LInv, LShape, Transfers
<1>3. /\ sketch' = [f \in SketchFields |-> sketch'[f]] /\ sketch'.pc = "bank"
      /\ sketch'.load = sketch.load /\ sketch'.total = Total
      /\ sketch'.at = (sketch.at + Remaining) % UINT32
  BY <1>1, <1>2 DEF SketchFields
<1>4. /\ server' = [f \in ServerFields |-> server'[f]] /\ ~server'.busy
      /\ server'.file = server.file /\ server'.pos = server.pos
      /\ server'.failed = server.failed
  BY <1>1, <1>2 DEF ServerFields
<1>5. /\ sketch.load.dst \in Nat /\ Length[sketch.load.file] \in Nat
      /\ sketch.load.dst + Length[sketch.load.file] < UINT32
      /\ UINT32 \in Nat /\ UINT32 > 0
  <2>1. /\ sketch.load.dst \in Nat /\ Length[sketch.load.file] \in Nat
        /\ sketch.load.dst + Length[sketch.load.file] <= NUM_VRAM_BANKS * VRAM_BANK_SIZE
    BY <1>1, <1>2, LoadAssumption
  <2>2. NUM_VRAM_BANKS * VRAM_BANK_SIZE \in Nat
        /\ UINT32 \in Nat /\ NUM_VRAM_BANKS * VRAM_BANK_SIZE < UINT32
    BY LoadAssumption, SizeAssumption
  <2> QED BY <2>1, <2>2
<1>6. /\ sketch.at \in Nat /\ sketch.total \in Nat /\ server.got \in Nat
      /\ Total \in Nat /\ Total < Length[sketch.load.file] /\ server.pos = Total
      /\ Remaining \in Nat
  <2>1. sketch.at \in Nat /\ sketch.total \in Nat
    BY <1>2 DEF Progress
  <2>2. server.got \in Nat /\ server.pos = sketch.total + server.got
    BY <1>2 DEF Answering
  <2>3. ~(Total >= Length[sketch.load.file])
    BY <1>1 DEF EndOfData
  <2> QED BY <1>5, <2>1, <2>2, <2>3, AtIs DEF Total, Remaining
<1>7. sketch'.at \in Nat
  BY <1>3, <1>5, <1>6
<1>8. ASSUME ~server.failed
      PROVE  sketch'.at = sketch.load.dst + Total
  <2>1. sketch.at = sketch.load.dst + sketch.total
    BY <1>2, <1>8 DEF Progress
  <2>2. server.got + server.left = Remaining
    BY <1>1, <1>2, <1>5, <1>6, <1>8 DEF Answering, Due
  <2>3. server.got = Remaining
    BY <1>1, <1>6, <2>2
  <2>4. sketch.at + Remaining = sketch.load.dst + Total
    BY <1>5, <1>6, <2>1, <2>3 DEF Total
  <2>5. sketch.load.dst + Total \in 0..UINT32 - 1
    BY <1>5, <1>6
  <2> QED BY <1>3, <1>5, <2>4, <2>5
<1>9. SameCells(core, core')
  BY <1>1 DEF SameCells
<1>10. Progress'
  <2>1. Placed(core', sketch'.load, server'.pos)
    BY <1>2, <1>3, <1>4, <1>9, PlacedKept DEF Progress
  <2> QED BY <1>1, <1>2, <1>3, <1>4, <1>6, <1>7, <1>8, <2>1 DEF Progress
<1>11. Selected'
  BY <1>1, <1>2, <1>3 DEF Selected
<1> QED BY <1>1, <1>2, <1>3, <1>4, <1>9, <1>10, <1>11, Going DEF Transfers

\* A load that brought the whole file has put every part of it in its place.
LEMMA FinishLInv ==
  ASSUME LInv, Finish
  PROVE  LInv'
<1> DEFINE load == sketch.load
           more == Brought(load)
<1>1. /\ sketch.pc = "wait" /\ sketch' = Resume("idle") /\ server' = Unused
      /\ want' = IF Total = Length[load.file] THEN Kept(more) ELSE want
      /\ core' = IF load.what = "image" THEN Access(core, FALSE) ELSE core
  BY DEF Finish, Answered, In
<1>2. /\ Memory(core) /\ Progress /\ Answering /\ load \in Loads
      /\ DOMAIN want \subseteq Cells
      /\ \A p \in DOMAIN want : CellOf(core, p) = want[p]
  BY <1>1 DEF LInv, LShape, Transfers
<1>3. Memory(core') /\ SameCells(core, core')
  <2>1. Memory(Access(core, FALSE)) /\ SameCells(core, Access(core, FALSE))
    BY <1>2, RegisterMemory
  <2> QED BY <1>1, <1>2, <2>1 DEF SameCells
<1>4. \A p : CellOf(core', p) = CellOf(core, p)
  BY <1>3, SameCellsHeld
<1>5. CASE want' = want
  BY <1>1, <1>3, <1>5, ResumeIs, Settled DEF Transfers
<1>6. CASE Total = Length[load.file]
  <2>1. server.pos = Length[load.file]
    BY <1>2, <1>6 DEF Answering, Total
  <2>2. DOMAIN more = Places(load) /\ Places(load) \subseteq Cells
    BY <1>2, PlaceInCells DEF Brought, Places
  <2>3. ASSUME NEW p \in Places(load)
        PROVE  CellOf(core, p) = more[p]
    <3> DEFINE i == CHOOSE k \in 0..Length[load.file] - 1 : Place(load, k) = p
    <3>1. i \in 0..Length[load.file] - 1 /\ Place(load, i) = p
      BY <2>3 DEF Places
    <3>2. more[p] = Cell(load.file, i)
      BY <2>3 DEF Brought
    <3>3. Placed(core, load, Length[load.file])
      BY <1>2, <2>1 DEF Progress
    <3> HIDE DEF i
    <3>4. CellOf(core, Place(load, i)) = Cell(load.file, i)
      BY <3>1, <3>3 DEF Placed
    <3> QED BY <3>1, <3>2, <3>4
  <2> HIDE DEF more
  <2>4. /\ DOMAIN Kept(more) = DOMAIN want \cup DOMAIN more
        /\ \A p \in DOMAIN want \cup DOMAIN more :
             Kept(more)[p] = IF p \in DOMAIN more THEN more[p] ELSE want[p]
    BY DEF Kept
  <2>5. want' = Kept(more)
    BY <1>1, <1>6 DEF more
  <2>6. /\ DOMAIN want' \subseteq Cells
        /\ \A p \in DOMAIN want' : CellOf(core', p) = want'[p]
    BY <1>2, <1>4, <2>2, <2>3, <2>4, <2>5
  <2>7. LShape' /\ OwnTransfer'
    BY <1>1, <1>3, <2>6, ResumeIs DEF LShape, OwnTransfer
  <2> QED BY <1>1, <2>6, <2>7, ResumeIs DEF LInv, Transfers
<1> QED BY <1>1, <1>5, <1>6

LEMMA NextLInv == CInv /\ BInv /\ LInv /\ [Next]_vars => LInv'
<1> SUFFICES ASSUME CInv, BInv, LInv, [Next]_vars PROVE LInv'
  OBVIOUS
<1>1. CASE Drawing /\ UNCHANGED Others
  BY <1>1, DrawingLInv
<1>2. CASE \/ Main \/ isp_reset \/ Release \/ isp_program \/ ResetArduino \/ begin
           \/ DisableRead \/ DisableWrite \/ ClearCache \/ RPC_begin
  BY <1>2, TakeLInv, StartLInv
<1>3. CASE Sets
  BY <1>3, SetsLInv
<1>4. CASE \/ BeginAgain \/ Poll \/ Woken \/ Scan
           \/ \E event \in {"VBLANK_BEGIN", "VBLANK_END"} : waitForEvent(event)
  BY <1>4, WaitLInv
<1>5. CASE \E load \in Loads : Load(load)
  BY <1>5, LoadLInv
<1>6. CASE Open \/ Prepare \/ SelectBank \/ readToCore \/ NextBank \/ Finish
  BY <1>6, OpenLInv, SelectLInv, AskLInv, NextBankLInv, FinishLInv
<1>7. CASE rpc_file_read \/ ReadFails \/ ReadsNothing
  BY <1>7, ServeLInv
<1>8. CASE UNCHANGED vars
  BY <1>8, SameLInv DEF vars, displayVars, sketchVars
<1> QED
  BY <1>1, <1>2, <1>3, <1>4, <1>5, <1>6, <1>7, <1>8 DEF Next, Calls, GoOn, Serve


(***************************************************************************)
(* Theorems.                                                               *)
(***************************************************************************)

\* One argument for all three: that only one of the two writes registers and
\* sprites (CInv), what is on the boot screen (BInv), and what has been loaded
\* (LInv), each of which rests on the others.
AllInv == CInv /\ BInv /\ LInv

LEMMA Always == Spec => []AllInv
<1>1. Init => AllInv
  BY InitCInv, InitBInv, InitLInv DEF AllInv
<1>2. AllInv /\ [Next]_vars => AllInv'
  <2>1. LInv => IsSketch /\ Memory(core)
    BY DEF LInv, LShape, IsSketch
  <2> QED BY <2>1, NextCInv, NextBInv, NextLInv DEF AllInv
<1> QED  BY <1>1, <1>2, PTL DEF Spec

\* For any number of layers and sprites, any files, banks and resets: from the
\* end of begin on, every layer and sprite is as the sketch's calls have set
\* it, and the cache of layer registers agrees with the core
\* (DuinoCube/core.cpp), although the coprocessor resets all of them sprite by
\* sprite in the middle of begin, which reads each and writes it back
\* (firmware/boot.cpp:425), reads the boot switch anew after every reset, and
\* lets the Arduino run for a moment when it has been programmed.
THEOREM CoreIsAsAsked == Spec => []AsAsked
<1>1. AllInv => AsAsked
  BY DEF AllInv, CInv
<1> QED  BY Always, <1>1, PTL

\* For fonts and images of any size that fit, and banks of any size: when the
\* menu is up its text has its font, its colours and the line drawn last, and
\* the image, if all of it was read, is in the VRAM cell by cell, from the end
\* of the font across any number of banks (firmware/display.cpp), whatever
\* sketches before it have left in the graphics core, unless a sketch resets
\* the core while programming lets it run.
THEOREM BootScreenIsWhole == Spec => []BootScreen
<1>1. AllInv => BootScreen
  BY ScreenShown DEF AllInv, BInv, AtWork, BootScreen, Phases
<1> QED  BY Always, <1>1, PTL

\* For any loads that fit their memory, files and banks of any size, and any
\* resets: what a load reported as brought in full is in the palette, the tile
\* map or the VRAM, every part in its place and across banks, until the sketch
\* loads over it; neither a later load, a card that fails on the way, nor a
\* transfer for a sketch that was reset goes over it (DuinoCube/core.cpp,
\* firmware/rpc_file.cpp).
THEOREM LoadsStay == Spec => []Loaded
<1>1. AllInv => Loaded
  BY DEF AllInv, LInv, Loaded, HeldAt, CellOf
<1> QED  BY Always, <1>1, PTL
=============================================================================
