--------------------------------- MODULE Core ---------------------------------
(***************************************************************************)
(* The library a sketch draws with (DuinoCube/core.cpp and the reads into  *)
(* the core of file.cpp) and the part of the coprocessor that serves it    *)
(* (firmware/rpc_file.cpp), which writes into the graphics core while the  *)
(* sketch waits.  The handshake of a call is that of Rpc.tla, here one     *)
(* step each way.  The Arduino may be reset at any point; DuinoCube.begin  *)
(* resets the graphics core first and the coprocessor last, so a transfer  *)
(* for the sketch before may still be writing in between, or display_init  *)
(* at the end of the boot menu.                                            *)
(***************************************************************************)
EXTENDS Display

CONSTANTS Loads,        \* what a sketch loads: [what, file, dst]
          Flags, Flips, Values,      \* arguments of the layer and sprite calls
          Offsets,                   \* of a picture's data in VRAM
          UINT32,                    \* the values of a VRAM offset, cells
          MaxCalls, MaxResets

(* A sketch loads into memory that is there: a palette into a palette, a   *)
(* tile map into its window, an image into the VRAM, whose offsets do not  *)
(* wrap around.                                                            *)
ASSUME LoadAssumption ==
  /\ UINT32 \in Nat /\ NUM_VRAM_BANKS * VRAM_BANK_SIZE < UINT32
  /\ \A load \in Loads :
       /\ load.dst \in Nat /\ Length[load.file] \in Nat
       /\ \/ load.what = "palette" /\ load.dst \in Layers /\ Length[load.file] <= 1
          \/ load.what = "tilemap" /\ load.dst + Length[load.file] <= VRAM_BANK_SIZE
          \/ /\ load.what = "image"
             /\ load.dst + Length[load.file] <= NUM_VRAM_BANKS * VRAM_BANK_SIZE

VARIABLES sketch,       \* the Arduino: where it is, and the load or wait under way
          s_tile_regs,  \* the cached copy of the layers' control registers
          server,       \* the coprocessor's open file and its read
          blank,        \* the screen is in its vertical blank
          asked,        \* history: what layers and sprites have been set to
          want,         \* history: what has been loaded, cell by cell
          calls, resets
sketchVars == <<sketch, s_tile_regs, asked, want>>
vars == <<displayVars, sketchVars, server, blank, calls, resets>>

Nothing == [at \in {} |-> Blank]
NoLoad  == [what |-> "", file |-> "", dst |-> 0]
NoWord  == [flags |-> {}, flip |-> {}, palette |-> 0]       \* of SPRITE_CTRL_0
Resume(pc) == [pc |-> pc, load |-> NoLoad, at |-> 0, total |-> 0, word |-> NoWord,
               event |-> "", polled |-> FALSE]
Unused  == [file |-> "", pos |-> 0, failed |-> FALSE,
            busy |-> FALSE, what |-> "", to |-> 0, left |-> 0, got |-> 0]
(* Power-up: both processors start.                                        *)
Init ==
  /\ DisplayInit /\ sketch = Resume("begin")
  /\ s_tile_regs = [l \in Layers |-> TileRegs] /\ server = Unused /\ blank = FALSE
  /\ asked = [layer |-> s_tile_regs, sprite |-> core.sprite] /\ want = Nothing
  /\ calls = 0 /\ resets = 0

(* main: with the boot switch on, boot_run takes the Arduino, and what its *)
(* sketch had in its variables is gone.                                    *)
Hold == /\ sketch' = Resume("held") /\ s_tile_regs' = [l \in Layers |-> TileRegs]
        /\ want' = Nothing
Main == /\ AtWork("boot")
        /\ \/ fw' = ToScreen /\ Hold
           \/ fw' = Serving /\ UNCHANGED <<sketch, s_tile_regs, want>>
        /\ UNCHANGED <<core, g_vram_used, failed, server, blank, asked, calls, resets>>
(* The menu ends: it lets the Arduino run, then resets the display again.  *)
Clear == [fw EXCEPT !.pc = "init", !.next = "serve"]
LetGo(doing) == /\ AtWork("menu") /\ fw' = doing /\ sketch' = Resume("begin")
                /\ UNCHANGED <<core, g_vram_used, failed, s_tile_regs, server, blank,
                               asked, want, calls, resets>>
Release == LetGo(Clear)
(* isp_program, one step (see Isp), ends with isp_release; then program_file *)
(* takes the Arduino again.                                                *)
isp_program == LetGo([fw EXCEPT !.pc = "programmed"])
isp_reset ==
  /\ AtWork("programmed") /\ fw' = [fw EXCEPT !.pc = "menu"] /\ Hold
  /\ UNCHANGED <<core, g_vram_used, failed, server, blank, asked, calls, resets>>
(* A reset starts the sketch anew.                                         *)
ResetArduino ==
  /\ sketch.pc # "held" /\ resets < MaxResets /\ resets' = resets + 1
  /\ sketch' = Resume("begin") /\ s_tile_regs' = [l \in Layers |-> TileRegs] /\ want' = Nothing
  /\ UNCHANGED <<displayVars, server, blank, asked, calls>>

-----------------------------------------------------------------------------
(* DuinoCube.begin: Core::begin, later RPC::begin.                         *)
In(pc) == sketch.pc = pc
Only == UNCHANGED <<fw, g_vram_used, failed, server, blank, resets>>
\* The cache survives a second call of begin.
CacheKept == s_tile_regs
CacheCleared == [l \in Layers |-> TileRegs]
begin ==
  /\ In("begin") /\ sketch' = Resume("disable")
  /\ core' = Reset(core) /\ fw' = [fw EXCEPT !.alone = FALSE]
  /\ UNCHANGED <<g_vram_used, failed, s_tile_regs, server, blank, asked, want, calls, resets>>
(* Each sprite's control word is read, and written back disabled.          *)
DisableRead ==
  /\ In("disable") /\ sketch.at < NUM_SPRITES
  /\ sketch' = [sketch EXCEPT !.pc = "disabling",
                  !.word = [f \in DOMAIN NoWord |-> core.sprite[sketch.at][f]]]
  /\ UNCHANGED <<core, s_tile_regs, asked, want, calls>> /\ Only
Disabled(regs, word) == [f \in DOMAIN regs |-> IF f = "enabled" THEN FALSE
                           ELSE IF f \in DOMAIN word THEN word[f] ELSE regs[f]]
DisableWrite ==
  /\ In("disabling")
  /\ core' = [core EXCEPT !.sprite[sketch.at] = Disabled(@, sketch.word)]
  /\ sketch' = [sketch EXCEPT !.pc = "disable", !.at = @ + 1, !.word = NoWord]
  /\ UNCHANGED <<s_tile_regs, asked, want, calls>> /\ Only
ClearCache ==
  /\ In("disable") /\ sketch.at >= NUM_SPRITES /\ sketch' = Resume("rpc")
  /\ s_tile_regs' = CacheCleared
  /\ UNCHANGED <<core, asked, want, calls>> /\ Only
(* The coprocessor is reset, whatever it was doing.  Everything is switched *)
(* off now, and sprites are otherwise as they were left.                   *)
\* Without the reset it would go on with what it was doing.
GoesOn == fw
Restarted == Booting
RPC_begin ==
  /\ In("rpc") /\ sketch' = Resume("idle") /\ server' = Unused
  /\ fw' = Restarted /\ g_vram_used' = 0 /\ failed' = FALSE
  /\ asked' = [layer  |-> [l \in Layers |-> TileRegs],
               sprite |-> [s \in DOMAIN core.sprite |-> [core.sprite[s] EXCEPT !.enabled = FALSE]]]
  /\ UNCHANGED <<core, s_tile_regs, blank, want, calls, resets>>
Call == In("idle") /\ calls < MaxCalls /\ calls' = calls + 1
BeginAgain == /\ Call /\ sketch' = Resume("begin")
              /\ UNCHANGED <<core, s_tile_regs, asked, want>> /\ Only

-----------------------------------------------------------------------------
(* loadPalette, loadTilemap, loadImageData.                                *)
Place(load, i) ==
  CASE load.what = "palette" -> <<0, load.dst>>
    [] load.what = "tilemap" -> <<TILEMAP_BANK, load.dst + i>>
    [] load.what = "image"   -> <<GET_VRAM_BANK(load.dst + i), GET_VRAM_BANK_OFFSET(load.dst + i)>>
Places(load) == {Place(load, i) : i \in 0..Length[load.file] - 1}
HeldAt(place) == IF place[1] = 0 THEN core.palette[place[2]] ELSE core.window[place[1]][place[2]]
Load(load) ==
  /\ Call /\ sketch' = [Resume("open") EXCEPT !.load = load, !.at = load.dst]
  /\ want' = [p \in DOMAIN want \ Places(load) |-> want[p]]
  /\ UNCHANGED <<core, s_tile_regs, asked>> /\ Only
(* The coprocessor opens the file; if it cannot, the load returns.         *)
Open ==
  /\ In("open") /\ AtWork("serve")
  /\ \E ok \in BOOLEAN :
       /\ server' = IF ok THEN [Unused EXCEPT !.file = sketch.load.file] ELSE Unused
       /\ sketch' = IF ok THEN [sketch EXCEPT !.pc = "prepare"] ELSE Resume("idle")
  /\ UNCHANGED <<displayVars, s_tile_regs, blank, asked, want, calls, resets>>
Prepare ==
  /\ In("prepare")
  /\ core' = CASE sketch.load.what = "tilemap" -> Bank(core, TILEMAP_BANK)
               [] sketch.load.what = "image"   -> Access(core, TRUE)
               [] OTHER -> core                                     \* a palette
  /\ sketch' = [sketch EXCEPT !.pc = IF sketch.load.what = "image" THEN "bank" ELSE "ask"]
  /\ UNCHANGED <<s_tile_regs, asked, want, calls>> /\ Only
\* The bank is selected once, for the beginning of the image.
FirstBank(offset) == GET_VRAM_BANK(sketch.load.dst)
BankOf(offset) == GET_VRAM_BANK(offset)
SelectBank ==
  /\ In("bank") /\ core' = Bank(core, BankOf(sketch.at))
  /\ sketch' = [sketch EXCEPT !.pc = "ask"]
  /\ UNCHANGED <<s_tile_regs, asked, want, calls>> /\ Only
Remaining == VRAM_BANK_SIZE - GET_VRAM_BANK_OFFSET(sketch.at)
readToCore ==
  /\ In("ask") /\ sketch' = [sketch EXCEPT !.pc = "wait"]
  /\ server' = [server EXCEPT !.busy = TRUE, !.what = sketch.load.what, !.got = 0,
                  !.to = IF sketch.load.what = "image" THEN GET_VRAM_BANK_OFFSET(sketch.at)
                         ELSE sketch.load.dst,
                  !.left = IF sketch.load.what = "image" THEN Remaining
                           ELSE Length[sketch.load.file]]
  /\ UNCHANGED <<displayVars, s_tile_regs, blank, asked, want, calls, resets>>

(* rpc_file_read: a buffer at a time from the file into the core, until    *)
(* the end of the request, of the file, or of the card's patience.         *)
Stored(v) == IF server.what = "palette" THEN [core EXCEPT !.palette[server.to] = v]
             ELSE Poke(core, server.to + server.got, v)
More == server.busy /\ server.left > 0
rpc_file_read ==
  /\ More /\ ~server.failed /\ server.pos < Length[server.file]
  /\ core' = Stored(Cell(server.file, server.pos))
  /\ server' = [server EXCEPT !.pos = @ + 1, !.left = @ - 1, !.got = @ + 1]
  /\ UNCHANGED <<fw, g_vram_used, failed, sketchVars, blank, calls, resets>>
ReadFails ==
  /\ More /\ ~server.failed /\ server.pos < Length[server.file]
  /\ core' \in {core, Stored(Torn)}
  /\ server' = [server EXCEPT !.failed = TRUE, !.left = 0]
  /\ UNCHANGED <<fw, g_vram_used, failed, sketchVars, blank, calls, resets>>
ReadsNothing ==
  /\ More /\ (server.failed \/ server.pos = Length[server.file])
  /\ server' = [server EXCEPT !.left = 0]
  /\ UNCHANGED <<displayVars, sketchVars, blank, calls, resets>>

(* The answer.  An image goes on in the next bank.                         *)
Brought(load) == [p \in Places(load) |->
                     Cell(load.file, CHOOSE i \in 0..Length[load.file] - 1 : Place(load, i) = p)]
Kept(more) == [p \in DOMAIN want \cup DOMAIN more |->
                 IF p \in DOMAIN more THEN more[p] ELSE want[p]]
Total == sketch.total + server.got
\* A read that brings nothing is not taken for the end.
EndOfSize == Total >= Length[sketch.load.file]
EndOfData == server.got = 0 \/ Total >= Length[sketch.load.file]
Answered == In("wait") /\ server.busy /\ server.left = 0
NextBank ==
  /\ Answered /\ sketch.load.what = "image" /\ ~EndOfData
  /\ sketch' = [sketch EXCEPT !.pc = "bank", !.total = Total, !.at = (@ + Remaining) % UINT32]
  /\ server' = [server EXCEPT !.busy = FALSE]
  /\ UNCHANGED <<displayVars, s_tile_regs, blank, asked, want, calls, resets>>
Finish ==
  /\ Answered /\ (sketch.load.what = "image" => EndOfData)
  /\ sketch' = Resume("idle") /\ server' = Unused
  /\ want' = IF Total = Length[sketch.load.file] THEN Kept(Brought(sketch.load)) ELSE want
  /\ core' = IF sketch.load.what = "image" THEN Access(core, FALSE) ELSE core
  /\ UNCHANGED <<fw, g_vram_used, failed, s_tile_regs, asked, blank, calls, resets>>

-----------------------------------------------------------------------------
(* Tile layers: the cached register is changed and written as a whole.     *)
SetLayer(l, field, v) ==
  /\ Call
  /\ s_tile_regs' = [s_tile_regs EXCEPT ![l][field] = v]
  /\ core' = [core EXCEPT !.ctrl[l] = s_tile_regs'[l]]
  /\ asked' = [asked EXCEPT !.layer[l][field] = v]
  /\ UNCHANGED <<sketch, want>> /\ Only
enableTileLayer(l) == SetLayer(l, "enabled", TRUE)
disableTileLayer(l) == SetLayer(l, "enabled", FALSE)
Write(c) == Call /\ core' = c /\ UNCHANGED <<sketch, s_tile_regs, asked, want>> /\ Only
setTileLayerProperty(l) ==
  \/ \E flags \in SUBSET Flags : SetLayer(l, "flags", flags)
  \/ \E p \in Layers : SetLayer(l, "palette", p)
  \/ \E offset \in Offsets : Write([core EXCEPT !.base[l] = offset])
moveTileLayer(l, x) == Write([core EXCEPT !.place[l] = x])
moveCamera(x) == Write([core EXCEPT !.camera = x])
setSpriteDepth(z) == Write([core EXCEPT !.sprite_z = z])
(* Sprites: the register is read, changed and written back.                *)
SetSprite(s, field, v) ==
  /\ Call /\ core' = [core EXCEPT !.sprite[s][field] = v]
  /\ asked' = [asked EXCEPT !.sprite[s][field] = v]
  /\ UNCHANGED <<sketch, s_tile_regs, want>> /\ Only
enableSprite(s) == SetSprite(s, "enabled", TRUE)
disableSprite(s) == SetSprite(s, "enabled", FALSE)
moveSprite(s, x) == SetSprite(s, "x", x)
setSpriteProperty(s) ==
  \/ \E flags \in SUBSET Flags : SetSprite(s, "flags", flags)
  \/ \E flip \in SUBSET Flips : SetSprite(s, "flip", flip)
  \/ \E p \in Layers : SetSprite(s, "palette", p)
  \/ \E v \in Values : SetSprite(s, "width", v) \/ SetSprite(s, "height", v)
  \/ \E offset \in Offsets : SetSprite(s, "base", offset)

(* waitForEvent polls the status.  Bound: a level of the signal lasts until *)
(* a poll has seen it.                                                     *)
waitForEvent(event) ==
  /\ Call /\ sketch' = [Resume("watch") EXCEPT !.event = event] /\ blank' \in BOOLEAN
  /\ UNCHANGED <<core, s_tile_regs, asked, want, fw, g_vram_used, failed, server, resets>>
\* false_mask & status, as true_mask: either mask is met by a level that is up.
Met(event) == blank
Poll ==
  /\ In("watch") /\ ~sketch.polled
  /\ sketch' = IF Met(sketch.event) THEN [sketch EXCEPT !.pc = "woken"]
               ELSE [sketch EXCEPT !.polled = TRUE]
  /\ UNCHANGED <<core, s_tile_regs, asked, want, calls>> /\ Only
Woken == In("woken") /\ sketch' = Resume("idle")
         /\ UNCHANGED <<core, s_tile_regs, asked, want, calls>> /\ Only
Scan == /\ In("watch") /\ sketch.polled /\ blank' = ~blank
        /\ sketch' = [sketch EXCEPT !.polled = FALSE]
        /\ UNCHANGED <<displayVars, s_tile_regs, server, asked, want, calls, resets>>

-----------------------------------------------------------------------------
Sets == \/ \E l \in Layers : \/ enableTileLayer(l) \/ disableTileLayer(l)
                             \/ setTileLayerProperty(l)
                             \/ \E x \in Values : moveTileLayer(l, x)
        \/ \E s \in DOMAIN core.sprite :
             \/ enableSprite(s) \/ disableSprite(s) \/ setSpriteProperty(s)
             \/ \E x \in Values : moveSprite(s, x)
        \/ \E x \in Values : moveCamera(x) \/ setSpriteDepth(x)
Calls == \/ BeginAgain \/ Sets \/ \E load \in Loads : Load(load)
         \/ \E event \in {"VBLANK_BEGIN", "VBLANK_END"} : waitForEvent(event)
GoOn == \/ begin \/ DisableRead \/ DisableWrite \/ ClearCache \/ RPC_begin \/ Prepare \/ SelectBank \/ readToCore
        \/ NextBank \/ Finish \/ Poll \/ Woken
Serve == Open \/ rpc_file_read \/ ReadFails \/ ReadsNothing
Menu == display_text_clear \/ \E text \in Texts : display_text_render(text)
Drawing == DrawScreen \/ Menu
Others == <<sketchVars, server, blank, calls, resets>>
BootRun == (DrawScreen /\ UNCHANGED Others) \/ Main \/ isp_reset
Next == \/ Drawing /\ UNCHANGED Others
        \/ Main \/ Release \/ isp_program \/ isp_reset
        \/ ResetArduino \/ Calls \/ GoOn \/ Serve \/ Scan
(* The processors and the scan of the screen go on; the calls of a sketch, *)
(* resets and the user's choices need not come.                            *)
Spec == /\ Init /\ [][Next]_vars
        /\ WF_vars(BootRun) /\ WF_vars(GoOn) /\ WF_vars(Serve) /\ WF_vars(Scan)

-----------------------------------------------------------------------------
(* What a load that reported the whole file brought stays where the sketch *)
(* wanted it, across banks, until the sketch loads over it: no short read, *)
(* later load or transfer left from before a reset goes over it.           *)
Loaded == \A p \in DOMAIN want : HeldAt(p) = want[p]

(* From the end of begin on, layers and sprites are as the calls since have *)
(* set them, each call changing one property only, although layers are     *)
(* written from a cache, a sketch may be started, or may call begin, again, *)
(* and the boot menu, when it has let the Arduino go, resets the display   *)
(* while begin is at it.                                                   *)
Starting == {"begin", "disable", "disabling", "rpc"}
AsAsked == sketch.pc \notin {"held"} \cup Starting =>
             /\ asked.layer = core.ctrl /\ asked.layer = s_tile_regs
             /\ asked.sprite = core.sprite

(* The menu comes up, or the coprocessor gets to serving, after every reset *)
(* and whatever files are missing, unless the card fails: the loops that   *)
(* read palette and image have no other end.                               *)
MenuComes == []<>(AtWork("menu") \/ AtWork("serve") \/ failed)

(* Every call of a sketch returns, also when a read brings nothing.        *)
SketchGoesOn == []<>(In("idle") \/ In("held"))

(* A wait for the end of the blank returns with the blank over: "The       *)
(* |false_mask| is used to detect if certain bits are set to 0"            *)
(* (core.cpp:72).  It fails: the mask is compared with the bits that are 1.*)
EndSeen == In("woken") /\ sketch.event = "VBLANK_END" => ~blank
=============================================================================
