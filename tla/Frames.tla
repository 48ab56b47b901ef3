---------------------------------- MODULE Frames ----------------------------------
(***************************************************************************)
(* Presenting frames (glutil.c): the pointer main sets and the SDL thread  *)
(* draws over each frame, the GL state the drawing borrows, the timing of  *)
(* eglSwapBuffers_soloader and the pool compressed textures come from.     *)
(* A call of gl_pointer_set is known by its number; the engine's GL state  *)
(* is what it last set.                                                    *)
(***************************************************************************)
EXTENDS Integers, FiniteSets

CONSTANTS
  MaxSets,         \* bound: calls of gl_pointer_set
  MaxSwaps,        \* bound: frames presented
  Window,          \* frames between two timing lines: 120
  PoolSize         \* units in vitaGL's pool
ASSUME FramesAssumption == Window \in Nat /\ Window > 5 /\ PoolSize \in Nat

VARIABLES
  pointer_screen_x, pointer_screen_y, pointer_visible,
  sets, setting_visible, ppc,     \* main inside gl_pointer_set: ppc
  shownBy,                        \* the set that last turned visible on
  dpc, drawn, drawnShownBy,       \* the SDL thread inside gl_draw_pointer
  glState, owned, saved,          \* GL's state, what the engine set, the copy
  swap_count, windowStart, lines, \* lines: at which frame, over how many
  texpc, pool, held, decoded        \* the upload; units free, in textures, in a copy

pointerVars == <<pointer_screen_x, pointer_screen_y, pointer_visible, sets,
                 setting_visible, ppc, shownBy>>
drawVars == <<dpc, drawn, drawnShownBy, glState, owned, saved>>
swapVars == <<swap_count, windowStart, lines>>
poolVars == <<texpc, pool, held, decoded>>
frameVars == <<pointerVars, drawVars, swapVars>>

EngineStates == [scissor : BOOLEAN, box : {"full", "own"}, clear : {"own"}, mask : {"own"},
                 framebuffer : {0, 1}]

FrameInit ==
  /\ pointer_screen_x = 0 /\ pointer_screen_y = 0 /\ pointer_visible = FALSE
  /\ sets = 0 /\ setting_visible = FALSE /\ ppc = "out" /\ shownBy = 0
  /\ dpc = "engine" /\ drawn = [x |-> 0, y |-> 0] /\ drawnShownBy = 0
  /\ glState \in EngineStates /\ owned = glState /\ saved = glState
  /\ swap_count = 0 /\ windowStart = 0 /\ lines = {}
  /\ texpc = "out" /\ pool = PoolSize /\ held = 0 /\ decoded = 0

\* gl_pointer_set, store by store: the barrier keeps visible last.
Stores == <<"x", "y", "visible">>
PointerSet ==
  /\ ppc = "out" /\ sets < MaxSets
  /\ sets' = sets + 1 /\ ppc' = Stores[1]
  /\ setting_visible' \in BOOLEAN
  /\ UNCHANGED <<pointer_screen_x, pointer_screen_y, pointer_visible, shownBy,
                 drawVars, swapVars, poolVars>>

PointerStore ==
  \E i \in 1..3 :
    /\ ppc = Stores[i]
    /\ ppc' = IF i = 3 THEN "out" ELSE Stores[i + 1]
    /\ pointer_screen_x' = IF ppc = "x" THEN sets ELSE pointer_screen_x
    /\ pointer_screen_y' = IF ppc = "y" THEN sets ELSE pointer_screen_y
    /\ pointer_visible' = IF ppc = "visible" THEN setting_visible ELSE pointer_visible
    /\ shownBy' = IF pointer_visible' /\ ~pointer_visible THEN sets ELSE shownBy
    /\ UNCHANGED <<sets, setting_visible, drawVars, swapVars, poolVars>>

\* eglSwapBuffers_soloader: the count and the timing line, then the pointer.
\* `lines` keeps how many frame times each line divides Window by.
NextStart(n) == IF n = 1 \/ (n > 5 /\ n % Window = 0) THEN n ELSE windowStart
SwapBegins ==
  /\ dpc = "engine" /\ swap_count < MaxSwaps
  /\ swap_count' = swap_count + 1
  /\ windowStart' = NextStart(swap_count')
  /\ lines' = IF swap_count' > 5 /\ swap_count' % Window = 0
              THEN lines \cup {[at |-> swap_count', span |-> swap_count' - windowStart]} ELSE lines
  /\ dpc' = "look"
  /\ UNCHANGED <<drawn, drawnShownBy, glState, owned, saved, pointerVars, poolVars>>

\* gl_draw_pointer: visible and the framebuffer, then the state it borrows.
DrawLook ==
  /\ dpc = "look"
  /\ dpc' = IF pointer_visible /\ glState.framebuffer = 0 THEN "borrow" ELSE "engine"
  /\ drawnShownBy' = shownBy
  /\ saved' = glState
  /\ UNCHANGED <<drawn, glState, owned, pointerVars, swapVars, poolVars>>

DrawReadsX ==
  /\ dpc = "borrow" /\ dpc' = "y"
  /\ drawn' = [drawn EXCEPT !.x = pointer_screen_x]
  /\ UNCHANGED <<drawnShownBy, glState, owned, saved, pointerVars, swapVars, poolVars>>

DrawReadsY ==
  /\ dpc = "y" /\ dpc' = "clear"
  /\ drawn' = [drawn EXCEPT !.y = pointer_screen_y]
  /\ glState' = [glState EXCEPT !.scissor = TRUE, !.mask = "all"]
  /\ UNCHANGED <<drawnShownBy, owned, saved, pointerVars, swapVars, poolVars>>

\* The four rectangles; one that is clipped away leaves box and colour alone.
DrawClears ==
  /\ dpc = "clear" /\ dpc' = "restore"
  /\ glState' \in {glState, [glState EXCEPT !.box = "cross", !.clear = "cross"]}
  /\ UNCHANGED <<drawn, drawnShownBy, owned, saved, pointerVars, swapVars, poolVars>>

DrawRestores ==
  /\ dpc = "restore" /\ dpc' = "engine"
  /\ glState' = saved
  /\ UNCHANGED <<drawn, drawnShownBy, owned, saved, pointerVars, swapVars, poolVars>>

\* Between two frames the engine sets what it likes.
EngineDraws ==
  /\ dpc = "engine"
  /\ owned' \in EngineStates /\ glState' = owned'
  /\ UNCHANGED <<dpc, drawn, drawnShownBy, saved, pointerVars, swapVars, poolVars>>

\* glCompressedTexImage2D_soloader.  ETC2 texels are decoded into a copy of
\* four units, if there is room for it.
Upload(etc2) ==
  /\ texpc = "out"
  /\ IF etc2 /\ pool >= 4
     THEN decoded' = 4 /\ pool' = pool - 4 /\ texpc' = "decoded"
     ELSE texpc' = (IF etc2 THEN "refused" ELSE "compressed") /\ UNCHANGED <<pool, decoded>>
  /\ UNCHANGED <<held, pointerVars, drawVars, swapVars>>

\* vitaGL makes the texture, of four units from the copy and one from a format
\* it knows, where there is room.
MakeTexture(units, from, to) ==
  /\ texpc = from /\ texpc' = to
  /\ IF pool >= units
     THEN pool' = pool - units /\ held' = held + units
     ELSE UNCHANGED <<pool, held>>
  /\ UNCHANGED <<decoded, pointerVars, drawVars, swapVars>>

\* It does not know ETC2, which it is handed where there was no room to decode.
Refuses ==
  /\ texpc = "refused" /\ texpc' = "out"
  /\ UNCHANGED <<pool, held, decoded, pointerVars, drawVars, swapVars>>

\* The copy is freed, whether or not there was room for the texture as well.
VglFree ==
  /\ texpc = "made" /\ texpc' = "out"
  /\ pool' = pool + decoded /\ decoded' = 0
  /\ UNCHANGED <<held, pointerVars, drawVars, swapVars>>

FrameNext ==
  \/ PointerSet \/ PointerStore \/ SwapBegins \/ DrawLook \/ DrawReadsX \/ DrawReadsY
  \/ DrawClears \/ DrawRestores \/ EngineDraws

TextureNext ==
  \/ \E etc2 \in BOOLEAN : Upload(etc2)
  \/ MakeTexture(4, "decoded", "made") \/ MakeTexture(1, "compressed", "out")
  \/ Refuses \/ VglFree

FrameSpec == FrameInit /\ [][FrameNext \/ TextureNext]_<<frameVars, poolVars>>

------------------------------------------------------------------------------
\* The pointer is never drawn at a place older than the call that made it
\* visible, though the two threads share three plain words.
PointerIsFresh ==
  dpc \in {"clear", "restore"} => drawn.x >= drawnShownBy /\ drawn.y >= drawnShownBy

\* The engine finds the GL state it left, whatever the pointer needed of it.
StateIsPutBack == dpc = "engine" => glState = owned

\* A timing line says "last 120 frames": each spans as many but the first, which
\* spans one less.
LinesSpanWindow ==
  \A line \in lines : line.span = IF line.at = Window THEN Window - 1 ELSE Window

\* Between two uploads the pool is in textures and nowhere else: no copy is left
\* behind, wherever an upload found too little room.
NoCopyIsLeft == texpc = "out" => pool + held = PoolSize

FramesAreClean == PointerIsFresh /\ StateIsPutBack /\ LinesSpanWindow /\ NoCopyIsLeft
==============================================================================
