------------------------------- MODULE Display -------------------------------
(***************************************************************************)
(* The graphics core as its two masters see it (DuinoCube/core_defs.h),    *)
(* and what the coprocessor draws with it in its boot menu                 *)
(* (firmware/display.cpp): the font, a background image and its palette    *)
(* from the card, and lines of text.                                       *)
(*                                                                         *)
(* Memory is counted in cells of 256 bytes, what both sides read from a    *)
(* file at a time.  A window shows one bank: the tile maps, one cell for   *)
(* each layer, or a part of the VRAM, which takes writes only while a bit  *)
(* of SYS_CTRL is set.  Palettes and registers are always there.           *)
(***************************************************************************)
EXTENDS Naturals, Sequences

CONSTANTS NUM_TILE_LAYERS, NUM_SPRITES,
          VRAM_BANK_SIZE, NUM_VRAM_BANKS,    \* in cells, and how many
          UINT16,                            \* the values of a bank number
          Length,                            \* the files: name -> cells
          FontSize, BgImage, BgPalette, TextLayer, BgLayer, Texts

VARIABLES core,        \* the graphics core
          fw,          \* the coprocessor: what it is doing, and g_text_params, g_bg_params
          g_vram_used,
          failed       \* the card has failed, and goes on failing
displayVars == <<core, fw, g_vram_used, failed>>

Files   == DOMAIN Length
Layers  == 0..NUM_TILE_LAYERS - 1
Blank   == [of |-> "nothing", i |-> 0]
Torn    == [of |-> "torn", i |-> 0]
Cell(f, i) == [of |-> f, i |-> i]

TILEMAP_BANK == 1
VRAM_BANK_BEGIN == 2
GET_VRAM_BANK(offset) == VRAM_BANK_BEGIN + offset \div VRAM_BANK_SIZE
GET_VRAM_BANK_OFFSET(offset) == offset % VRAM_BANK_SIZE
VRAM_BANK_END == VRAM_BANK_BEGIN + NUM_VRAM_BANKS

(* A tile map window shows all layers; the font ends in the first bank, the *)
(* image in the VRAM; the numbers of its banks do not wrap around.         *)
ASSUME SizeAssumption ==
  /\ NUM_TILE_LAYERS \in Nat /\ VRAM_BANK_SIZE \in Nat /\ NUM_TILE_LAYERS <= VRAM_BANK_SIZE
  /\ NUM_SPRITES \in Nat
  /\ NUM_VRAM_BANKS \in Nat \ {0} /\ UINT16 \in Nat /\ VRAM_BANK_END < UINT16
  /\ TextLayer \in Layers /\ BgLayer \in Layers /\ TextLayer # BgLayer
  /\ FontSize \in 1..VRAM_BANK_SIZE /\ Length[BgPalette] \in Nat /\ Length[BgImage] \in Nat
  /\ FontSize + Length[BgImage] <= NUM_VRAM_BANKS * VRAM_BANK_SIZE

(* The fields of TILE_CTRL_0 and of a sprite's two control registers.      *)
TileRegs   == [enabled |-> FALSE, flags |-> {}, palette |-> 0]
SpriteRegs == [enabled |-> FALSE, flags |-> {}, flip |-> {}, palette |-> 0,
               width |-> 0, height |-> 0, base |-> 0, x |-> 0]
PowerUp ==
  [access |-> FALSE, bank |-> 0, camera |-> 0, sprite_z |-> 0,
   ctrl    |-> [l \in Layers |-> TileRegs],
   base    |-> [l \in Layers |-> 0], place |-> [l \in Layers |-> 0],
   sprite  |-> [s \in 0..NUM_SPRITES - 1 |-> [SpriteRegs EXCEPT !.enabled = TRUE]],
   palette |-> [l \in Layers |-> Blank],
   window  |-> [b \in TILEMAP_BANK..VRAM_BANK_END - 1 |->
                  [a \in 0..VRAM_BANK_SIZE - 1 |-> Blank]]]
(* The reset clears the registers; sprites and memory stay.                *)
Reset(c) == [PowerUp EXCEPT !.sprite = c.sprite, !.palette = c.palette, !.window = c.window]
Access(c, on) == [c EXCEPT !.access = on]
Bank(c, b)    == [c EXCEPT !.bank = b]
Reached(c, a) == /\ a < VRAM_BANK_SIZE
                 /\ \/ c.bank = TILEMAP_BANK
                    \/ c.access /\ c.bank \in VRAM_BANK_BEGIN..VRAM_BANK_END - 1
Poke(c, a, v) == IF Reached(c, a) THEN [c EXCEPT !.window[c.bank][a] = v] ELSE c
Vram(c, offset) == c.window[GET_VRAM_BANK(offset)][GET_VRAM_BANK_OFFSET(offset)]

-----------------------------------------------------------------------------
(* The coprocessor after a reset, while it draws for boot_run (alone: no   *)
(* sketch has been at the graphics core since, history), while it serves.  *)
AtWork(pc) == fw.pc = pc
Booting == [pc |-> "boot", next |-> "text", alone |-> TRUE, text |-> 0, bg |-> 0,
            size |-> 0, pos |-> 0, at |-> 0, bank |-> 0, shown |-> Blank, whole |-> FALSE]
ToScreen == [Booting EXCEPT !.pc = "init"]
Serving  == [Booting EXCEPT !.pc = "serve"]

(* display_init, which boot_run calls twice: before it draws, with the     *)
(* Arduino held in reset, and when it has let the Arduino go.  Each sprite *)
(* is a write of its own.                                                  *)
display_init ==
  /\ AtWork("init") /\ fw' = [fw EXCEPT !.pc = "sprites", !.pos = 0]
  /\ core' = Reset(core) /\ UNCHANGED <<g_vram_used, failed>>
ResetSprite ==
  /\ AtWork("sprites") /\ fw.pos < NUM_SPRITES /\ fw' = [fw EXCEPT !.pos = @ + 1]
  /\ core' = [core EXCEPT !.sprite[fw.pos] = SpriteRegs]
  /\ UNCHANGED <<g_vram_used, failed>>
SpritesReset ==
  /\ AtWork("sprites") /\ fw.pos >= NUM_SPRITES /\ fw' = [fw EXCEPT !.pc = fw.next]
  /\ UNCHANGED <<core, g_vram_used, failed>>

(* The font goes to the beginning of the VRAM, the register points to      *)
(* g_text_params.vram_offset.                                              *)
WithFont(c) ==
  [Access(Bank(c, TILEMAP_BANK), FALSE) EXCEPT
     !.window[VRAM_BANK_BEGIN] =
        [a \in DOMAIN @ |-> IF a < FontSize THEN Cell("font", a) ELSE @[a]]]
\* The memory of the font is not counted as used.
TextUnclaimed(used) == used
TextClaimed(used) == used + FontSize
display_text_init ==
  /\ AtWork("text") /\ fw' = [fw EXCEPT !.pc = "open palette", !.text = g_vram_used]
  /\ g_vram_used' = TextClaimed(g_vram_used)
  /\ core' = [WithFont(core) EXCEPT
                !.palette[TextLayer] = Cell("colors", 0),
                !.window[TILEMAP_BANK][TextLayer] = Blank,
                !.ctrl[TextLayer] = [enabled |-> TRUE, palette |-> TextLayer,
                                     flags |-> {"8x8", "8 bit", "transparent", "shift"}],
                !.base[TextLayer] = g_vram_used]
  /\ UNCHANGED failed

(* display_bg_load_palette and the read loop of display_bg_load_image,     *)
(* after display_bg_init.  A file that is missing is passed over.  A read  *)
(* that fails brings nothing, or a part.                                   *)
Opened(next, skipped) ==
  \/ ~failed /\ fw' = next /\ UNCHANGED failed
  \/ fw' = [fw EXCEPT !.pc = skipped] /\ failed' \in {failed, TRUE}
display_bg_load_palette ==
  /\ AtWork("open palette")
  /\ Opened([fw EXCEPT !.pc = "palette", !.size = Length[BgPalette], !.pos = 0], "open image")
  /\ UNCHANGED <<core, g_vram_used>>
LoadPalette ==
  /\ AtWork("palette") /\ fw.pos < fw.size /\ fw.pos < 1
  /\ \/ /\ ~failed /\ fw' = [fw EXCEPT !.pos = @ + 1]
        /\ core' = [core EXCEPT !.palette[BgLayer] = Cell(BgPalette, fw.pos)]
        /\ UNCHANGED failed
     \/ failed' = TRUE /\ UNCHANGED <<core, fw>>
  /\ UNCHANGED g_vram_used
PaletteLoaded ==
  /\ AtWork("palette") /\ (fw.pos >= fw.size \/ fw.pos >= 1)
  /\ fw' = [fw EXCEPT !.pc = "open image"]
  /\ UNCHANGED <<core, g_vram_used, failed>>

ToImage == [fw EXCEPT !.pc = "image", !.size = Length[BgImage], !.pos = 0,
              !.bg = g_vram_used, !.at = GET_VRAM_BANK_OFFSET(g_vram_used),
              !.bank = GET_VRAM_BANK(g_vram_used)]
display_bg_load_image ==
  /\ AtWork("open image") /\ Opened(ToImage, "menu")
  /\ IF fw'.pc = "image"
     THEN /\ g_vram_used' = g_vram_used + Length[BgImage]
          /\ core' = Bank(Access(core, TRUE), GET_VRAM_BANK(g_vram_used))
     ELSE UNCHANGED <<core, g_vram_used>>
NextInVram == (fw.bank + 1) % UINT16
\* At the end of a bank the count starts over with the offset in the window.
ForwardAnew == IF fw.at + 1 >= VRAM_BANK_SIZE
               THEN [fw EXCEPT !.pos = 0, !.at = 0, !.bank = NextInVram]
               ELSE [fw EXCEPT !.pos = @ + 1, !.at = @ + 1]
Forward == IF fw.at + 1 >= VRAM_BANK_SIZE
           THEN [fw EXCEPT !.pos = @ + 1, !.at = 0, !.bank = NextInVram]
           ELSE [fw EXCEPT !.pos = @ + 1, !.at = @ + 1]
LoadImage ==
  /\ AtWork("image") /\ fw.pos < fw.size
  /\ \/ /\ ~failed /\ fw' = Forward /\ UNCHANGED failed
        /\ core' = Bank(Poke(core, fw.at, Cell(BgImage, fw.pos)), Forward.bank)
     \/ /\ failed' = TRUE /\ UNCHANGED fw
        /\ core' \in {core} \cup (IF failed THEN {} ELSE {Poke(core, fw.at, Torn)})
  /\ UNCHANGED g_vram_used
Shown(c) ==
  [Poke(Bank(Access(c, FALSE), TILEMAP_BANK), BgLayer, Cell("tiles", 0)) EXCEPT
     !.base[BgLayer] = fw.bg,
     !.ctrl[BgLayer] = [enabled |-> TRUE, flags |-> {}, palette |-> BgLayer]]
ImageLoaded ==
  /\ AtWork("image") /\ fw.pos >= fw.size
  /\ fw' = [fw EXCEPT !.pc = "menu", !.whole = TRUE] /\ core' = Shown(core)
  /\ UNCHANGED <<g_vram_used, failed>>

(* The menu draws: a text, or blanks over one.                             *)
Draw(v) == /\ AtWork("menu")
           /\ core' = Poke(core, TextLayer, v) /\ fw' = [fw EXCEPT !.shown = v]
           /\ UNCHANGED <<g_vram_used, failed>>
display_text_render(text) == Draw(Cell("text", text))
display_text_clear == Draw(Blank)

DisplayInit == core = PowerUp /\ fw = Booting /\ g_vram_used = 0 /\ failed = FALSE
DrawScreen == \/ display_init \/ ResetSprite \/ SpritesReset \/ display_text_init
              \/ display_bg_load_palette \/ LoadPalette \/ PaletteLoaded
              \/ display_bg_load_image \/ LoadImage \/ ImageLoaded

(* While the menu is up, the text layer finds its font, its tile map holds *)
(* the text drawn last, and the background, if all of it has been read,    *)
(* is the image: nothing drawn later went over what was there before, nor  *)
(* did what a sketch left in the graphics core stay in the way.  (A sketch *)
(* that resets the core in the moment programming lets it go clears the    *)
(* screen: alone.)                                                         *)
BootScreen ==
  AtWork("menu") /\ fw.alone =>
    /\ core.ctrl[TextLayer].enabled /\ core.palette[TextLayer] = Cell("colors", 0)
    /\ \A i \in 0..FontSize - 1 : Vram(core, core.base[TextLayer] + i) = Cell("font", i)
    /\ core.window[TILEMAP_BANK][TextLayer] = fw.shown
    /\ fw.whole =>
         /\ core.window[TILEMAP_BANK][BgLayer] = Cell("tiles", 0)
         /\ \A i \in 0..Length[BgImage] - 1 :
              Vram(core, core.base[BgLayer] + i) = Cell(BgImage, i)
=============================================================================
