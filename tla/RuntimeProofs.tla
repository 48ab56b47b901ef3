------------------------------ MODULE RuntimeProofs ------------------------------
(***************************************************************************)
(* Proofs about start-up, the graphics glue, patch.c and what the imports  *)
(* are bound to: for any latency of the threads below the delay, any number *)
(* of shaders, sources, frames and textures, whatever the engine  *)
(* exports and wherever it is loaded.                                      *)
(***************************************************************************)
EXTENDS Runtime, InOrderProofs, SequenceTheorems, TLAPS

(* Frames.                                                                 *)

\* The only multiple of the window below it is zero.
LEMMA SmallMultiple ==
  ASSUME NEW x \in Int, x * Window >= 0, x * Window < Window
  PROVE  x = 0
<1>1. CASE x >= 1
  <2>1. PICK y \in Nat : x = y + 1
    BY <1>1
  <2>2. x * Window = y * Window + Window /\ y * Window >= 0
    BY <2>1, FramesAssumption
  <2>. QED
    BY <2>2, FramesAssumption
<1>2. CASE x <= -1
  <2>1. PICK y \in Nat : x = -(y + 1)
    BY <1>2
  <2>2. x * Window = -(y * Window) - Window /\ y * Window >= 0
    BY <2>1, FramesAssumption
  <2>. QED
    BY <2>2, FramesAssumption
<1>. QED
  BY <1>1, <1>2

\* What is left by a division, and the multiple it is left from.
LEMMA Divides ==
  ASSUME NEW n \in Nat, NEW w \in Nat, w > 0
  PROVE  n % w \in 0..(w - 1) /\ \E k \in Int : n = k * w + (n % w)
OBVIOUS

\* The window is such a divisor.
LEMMA WindowDivides ==
  ASSUME NEW n \in Nat
  PROVE  n % Window \in 0..(Window - 1) /\ \E k \in Int : n = k * Window + (n % Window)
<1>1. Window \in Nat /\ Window > 0
  BY FramesAssumption
<1>. QED
  BY ONLY <1>1, Divides, Zenon

\* A multiple of the window is followed by no other within the window.
LEMMA NoMultipleBetween ==
  ASSUME NEW s \in Nat, NEW n \in Nat, s % Window = 0, s < n, n < s + Window
  PROVE  n % Window # 0
<1>. SUFFICES ASSUME n % Window = 0 PROVE FALSE
  OBVIOUS
<1>1. PICK k \in Int : s = k * Window + (s % Window)
  BY WindowDivides, Zenon
<1>2. PICK j \in Int : n = j * Window + (n % Window)
  BY WindowDivides, Zenon
<1>3. (j - k) * Window = n - s
  BY <1>1, <1>2, FramesAssumption
<1>4. j - k = 0
  BY <1>3, SmallMultiple, FramesAssumption
<1>. QED
  BY <1>3, <1>4, FramesAssumption

\* The window after a multiple is one.
LEMMA NextMultiple ==
  ASSUME NEW s \in Nat, s % Window = 0
  PROVE  (s + Window) % Window = 0
<1>. DEFINE n == s + Window
            r == n % Window
<1>1. n \in Nat
  BY FramesAssumption
<1>2. PICK k \in Int : s = k * Window + (s % Window)
  BY WindowDivides, Zenon
<1>3. r \in 0..(Window - 1) /\ \E q \in Int : n = q * Window + r
  BY <1>1, WindowDivides, Zenon
<1>. HIDE DEF r
<1>4. PICK q \in Int : s + Window = q * Window + r
  BY <1>3
<1>5. (k + 1 - q) * Window = r
  BY <1>2, <1>3, <1>4, FramesAssumption
<1>6. k + 1 - q = 0
  BY <1>3, <1>5, SmallMultiple, FramesAssumption
<1>7. r = 0
  BY <1>5, <1>6, FramesAssumption
<1>. QED
  BY <1>7 DEF r

------------------------------------------------------------------------------
\* gl_pointer_set numbers its calls: the stores before `visible` are those of
\* the call that may turn it on, and later calls only write larger numbers.
PointerInv ==
  /\ sets \in Nat /\ shownBy \in Nat
  /\ pointer_screen_x \in Nat /\ pointer_screen_y \in Nat
  /\ ppc \in {"out", "x", "y", "visible"}
  /\ pointer_screen_x <= sets /\ pointer_screen_y <= sets
  /\ shownBy <= pointer_screen_x /\ shownBy <= pointer_screen_y
  /\ ppc \in {"y", "visible"} => pointer_screen_x = sets
  /\ ppc = "visible" => pointer_screen_y = sets

\* Where the SDL thread is in gl_draw_pointer, with what it has read so far.
DrawInv ==
  /\ dpc \in {"engine", "look", "borrow", "y", "clear", "restore"}
  /\ drawn \in [x : Nat, y : Nat] /\ drawnShownBy \in Nat
  /\ drawnShownBy <= shownBy
  /\ dpc \in {"y", "clear", "restore"} => drawn.x >= drawnShownBy
  /\ dpc \in {"clear", "restore"} => drawn.y >= drawnShownBy
  /\ dpc \in {"engine", "look"} => glState = owned
  /\ dpc \in {"borrow", "y", "clear", "restore"} => saved = owned

\* The timing starts at the first frame and again at every multiple of Window.
SwapInv ==
  /\ swap_count \in Nat /\ windowStart \in Nat
  /\ \/ swap_count = 0 /\ windowStart = 0
     \/ swap_count \in 1..(Window - 1) /\ windowStart = 1
     \/ /\ windowStart % Window = 0 /\ windowStart >= Window
        /\ windowStart <= swap_count /\ swap_count < windowStart + Window
  /\ LinesSpanWindow

\* The pool is in textures and in the copy, which exists during an upload only.
PoolInv ==
  /\ pool \in Nat /\ held \in Nat /\ decoded \in Nat
  /\ texpc \in {"out", "decoded", "refused", "compressed", "made"}
  /\ pool + held + decoded = PoolSize
  /\ texpc \notin {"decoded", "made"} => decoded = 0

FrameInv == PointerInv /\ DrawInv /\ SwapInv /\ PoolInv

\* Before the first frame nothing is shown, drawn or uploaded.
LEMMA FramesStart == FrameInit => FrameInv
<1>. SUFFICES ASSUME FrameInit PROVE FrameInv
  OBVIOUS
<1>1. PointerInv
  BY DEF FrameInit, PointerInv
<1>2. DrawInv
  BY DEF FrameInit, DrawInv
<1>3. SwapInv
  BY DEF FrameInit, SwapInv, LinesSpanWindow
<1>4. PoolInv
  BY FramesAssumption DEF FrameInit, PoolInv
<1>. QED
  BY <1>1, <1>2, <1>3, <1>4 DEF FrameInv

\* A call of gl_pointer_set starts: its number is above what the words hold.
LEMMA SetKeepsPointer == PointerInv /\ PointerSet => PointerInv' /\ shownBy' = shownBy
BY DEF PointerInv, PointerSet, Stores

\* Each store keeps the order of the numbers; the words never decrease, and
\* the call that is seen changes only when the store of `visible` turns it on.
LEMMA StoreKeepsPointer ==
  ASSUME PointerInv, PointerStore
  PROVE  PointerInv' /\ shownBy' >= shownBy
<1>. PICK i \in 1..3 :
       /\ ppc = Stores[i] /\ ppc' = IF i = 3 THEN "out" ELSE Stores[i + 1]
       /\ pointer_screen_x' = IF ppc = "x" THEN sets ELSE pointer_screen_x
       /\ pointer_screen_y' = IF ppc = "y" THEN sets ELSE pointer_screen_y
       /\ pointer_visible' = IF ppc = "visible" THEN setting_visible ELSE pointer_visible
       /\ shownBy' = IF pointer_visible' /\ ~pointer_visible THEN sets ELSE shownBy
       /\ UNCHANGED <<sets, setting_visible>>
  BY DEF PointerStore
<1>1. CASE i = 1
  BY <1>1 DEF PointerInv, Stores
<1>2. CASE i = 2
  BY <1>2 DEF PointerInv, Stores
<1>3. CASE i = 3
  BY <1>3 DEF PointerInv, Stores
<1>. QED
  BY <1>1, <1>2, <1>3

\* What the drawing has read stays fresh while the other thread stores on.
LEMMA DrawSurvives ==
  ASSUME DrawInv, shownBy \in Nat, shownBy' \in Nat, shownBy' >= shownBy, UNCHANGED drawVars
  PROVE  DrawInv'
BY DEF DrawInv, drawVars

\* A frame is counted, and a line is written where a window is full.
LEMMA SwapKeeps ==
  ASSUME SwapInv, SwapBegins
  PROVE  SwapInv'
<1>. DEFINE n == swap_count + 1
<1>1. /\ swap_count' = n /\ windowStart' = NextStart(n)
      /\ lines' = IF n > 5 /\ n % Window = 0 THEN lines \cup {[at |-> n, span |-> n - windowStart]} ELSE lines
  BY DEF SwapBegins
<1>2. n \in Nat /\ Window \in Nat /\ Window > 5
  BY FramesAssumption DEF SwapInv
<1>3. CASE swap_count = 0 /\ windowStart = 0
  BY <1>1, <1>2, <1>3 DEF SwapInv, NextStart, LinesSpanWindow
<1>4. CASE swap_count \in 1..(Window - 1) /\ windowStart = 1
  <2>1. CASE n = Window
    <3>1. 0 % Window = 0 /\ (0 + Window) % Window = 0
      BY <1>2, NextMultiple
    <3>2. n % Window = 0
      BY <2>1, <3>1, <1>2
    <3>. QED
      BY <1>1, <1>2, <1>4, <2>1, <3>2 DEF SwapInv, NextStart, LinesSpanWindow
  <2>2. CASE n < Window
    <3>1. n % Window # 0
      BY <1>2, <1>4, <2>2
    <3>. QED
      BY <1>1, <1>2, <1>4, <2>2, <3>1 DEF SwapInv, NextStart, LinesSpanWindow
  <2>. QED
    BY <1>2, <1>4, <2>1, <2>2
<1>5. CASE /\ windowStart % Window = 0 /\ windowStart >= Window
           /\ windowStart <= swap_count /\ swap_count < windowStart + Window
  <2>0. windowStart \in Nat /\ swap_count \in Nat
    BY DEF SwapInv
  <2>1. CASE n = windowStart + Window
    <3>1. n % Window = 0
      BY <1>5, <2>0, <2>1, NextMultiple
    <3>. QED
      BY <1>1, <1>2, <1>5, <2>0, <2>1, <3>1 DEF SwapInv, NextStart, LinesSpanWindow
  <2>2. CASE n < windowStart + Window
    <3>1. n % Window # 0
      <4>1. windowStart < n /\ n < windowStart + Window /\ windowStart % Window = 0
        BY <1>2, <1>5, <2>0, <2>2
      <4>. HIDE DEF n
      <4>. QED
        BY <1>2, <2>0, <4>1, NoMultipleBetween
    <3>. QED
      BY <1>1, <1>2, <1>5, <2>0, <2>2, <3>1 DEF SwapInv, NextStart, LinesSpanWindow
  <2>. QED
    BY <1>2, <1>5, <2>0, <2>1, <2>2
<1>. QED
  BY <1>3, <1>4, <1>5 DEF SwapInv

\* What an upload takes goes into a texture or its decoded copy, and the copy
\* goes back.
LEMMA TextureKeeps ==
  ASSUME PoolInv, TextureNext
  PROVE  PoolInv'
<1>1. CASE VglFree
  BY <1>1, FramesAssumption DEF VglFree, PoolInv
<1>2. ASSUME NEW etc2 \in BOOLEAN, Upload(etc2) PROVE PoolInv'
  <2>1. CASE etc2 /\ pool >= 4
    BY <1>2, <2>1, FramesAssumption DEF Upload, PoolInv
  <2>2. CASE ~(etc2 /\ pool >= 4)
    <3>1. UNCHANGED <<pool, decoded, held>> /\ texpc = "out" /\ texpc' \in {"refused", "compressed"}
      BY <1>2, <2>2, Zenon DEF Upload
    <3>. QED
      BY <3>1 DEF PoolInv
  <2>. QED
    BY <2>1, <2>2
<1>3. CASE MakeTexture(4, "decoded", "made") \/ MakeTexture(1, "compressed", "out")
  BY <1>3, FramesAssumption DEF MakeTexture, PoolInv
<1>4. CASE Refuses
  BY <1>4, FramesAssumption DEF Refuses, PoolInv
<1>. QED
  BY <1>1, <1>2, <1>3, <1>4 DEF TextureNext

\* What nobody touches stays as it was.
LEMMA PointerUntouched == PointerInv /\ UNCHANGED pointerVars => PointerInv'
BY DEF PointerInv, pointerVars
LEMMA SwapUntouched == SwapInv /\ UNCHANGED swapVars => SwapInv'
BY DEF SwapInv, swapVars, LinesSpanWindow
LEMMA PoolUntouched == PoolInv /\ UNCHANGED poolVars => PoolInv'
BY DEF PoolInv, poolVars

\* One step of the drawing, while main's words stand still.
LEMMA DrawKeeps ==
  ASSUME PointerInv, DrawInv, UNCHANGED pointerVars,
         SwapBegins \/ DrawLook \/ DrawReadsX \/ DrawReadsY
           \/ DrawClears \/ DrawRestores \/ EngineDraws
  PROVE  DrawInv'
<1>1. CASE SwapBegins
  BY <1>1 DEF SwapBegins, DrawInv, pointerVars
<1>2. CASE DrawLook
  BY <1>2 DEF DrawLook, DrawInv, PointerInv, pointerVars
<1>3. CASE DrawReadsX
  BY <1>3 DEF DrawReadsX, DrawInv, PointerInv, pointerVars
<1>4. CASE DrawReadsY
  BY <1>4 DEF DrawReadsY, DrawInv, PointerInv, pointerVars
<1>5. CASE DrawClears
  BY <1>5 DEF DrawClears, DrawInv, pointerVars
<1>6. CASE DrawRestores
  BY <1>6 DEF DrawRestores, DrawInv, pointerVars
<1>7. CASE EngineDraws
  BY <1>7 DEF EngineDraws, DrawInv, pointerVars
<1>. QED
  BY <1>1, <1>2, <1>3, <1>4, <1>5, <1>6, <1>7

\* A step of either thread keeps the invariant.
LEMMA FramesKeep == FrameInv /\ [FrameNext \/ TextureNext]_<<frameVars, poolVars>> => FrameInv'
<1>. SUFFICES ASSUME FrameInv, [FrameNext \/ TextureNext]_<<frameVars, poolVars>>
              PROVE  FrameInv'
  OBVIOUS
<1>. USE DEF FrameInv
<1>1. CASE PointerSet
  <2>1. UNCHANGED <<drawVars, swapVars, poolVars>>
    BY <1>1 DEF PointerSet
  <2>2. PointerInv' /\ shownBy' = shownBy
    BY <1>1, SetKeepsPointer
  <2>3. shownBy \in Nat
    BY DEF PointerInv
  <2>. QED
    BY <2>1, <2>2, <2>3, DrawSurvives, SwapUntouched, PoolUntouched
<1>2. CASE PointerStore
  <2>1. UNCHANGED <<drawVars, swapVars, poolVars>>
    BY <1>2 DEF PointerStore
  <2>2. PointerInv' /\ shownBy' >= shownBy
    BY <1>2, StoreKeepsPointer
  <2>3. shownBy \in Nat /\ shownBy' \in Nat
    BY <2>2 DEF PointerInv
  <2>. QED
    BY <2>1, <2>2, <2>3, DrawSurvives, SwapUntouched, PoolUntouched
<1>3. CASE SwapBegins
  <2>1. UNCHANGED <<pointerVars, poolVars>>
    BY <1>3 DEF SwapBegins
  <2>. QED
    BY <1>3, <2>1, SwapKeeps, DrawKeeps, PointerUntouched, PoolUntouched
<1>4. CASE DrawLook \/ DrawReadsX \/ DrawReadsY \/ DrawClears \/ DrawRestores \/ EngineDraws
  <2>1. UNCHANGED <<pointerVars, swapVars, poolVars>>
    BY <1>4 DEF DrawLook, DrawReadsX, DrawReadsY, DrawClears, DrawRestores, EngineDraws
  <2>. QED
    BY <1>4, <2>1, DrawKeeps, PointerUntouched, SwapUntouched, PoolUntouched
<1>5. CASE TextureNext
  <2>1. UNCHANGED <<pointerVars, drawVars, swapVars>>
    BY <1>5 DEF TextureNext, VglFree, Upload, MakeTexture, Refuses
  <2>2. shownBy \in Nat /\ shownBy' = shownBy
    BY <2>1 DEF PointerInv, pointerVars
  <2>. QED
    BY <1>5, <2>1, <2>2, TextureKeeps, DrawSurvives, PointerUntouched, SwapUntouched
<1>6. CASE UNCHANGED <<frameVars, poolVars>>
  <2>1. UNCHANGED <<pointerVars, drawVars, swapVars, poolVars>>
    BY <1>6 DEF frameVars
  <2>2. shownBy \in Nat /\ shownBy' = shownBy
    BY <2>1 DEF PointerInv, pointerVars
  <2>. QED
    BY <2>1, <2>2, DrawSurvives, PointerUntouched, SwapUntouched, PoolUntouched
<1>. QED
  BY <1>1, <1>2, <1>3, <1>4, <1>5, <1>6 DEF FrameNext

\* The pointer is drawn where it was last shown or later, the engine finds its
\* GL state, a timing line spans a window, the first one frame less, and an
\* upload leaves no copy behind, for any bounds.
LEMMA FrameInvImplies == FrameInv => FramesAreClean
<1>. SUFFICES ASSUME FrameInv PROVE FramesAreClean
  OBVIOUS
<1>1. PointerIsFresh
  BY DEF FrameInv, DrawInv, PointerIsFresh
<1>2. StateIsPutBack
  BY DEF FrameInv, DrawInv, StateIsPutBack
<1>3. LinesSpanWindow
  BY DEF FrameInv, SwapInv
<1>4. NoCopyIsLeft
  BY FramesAssumption DEF FrameInv, PoolInv, NoCopyIsLeft
<1>. QED
  BY <1>1, <1>2, <1>3, <1>4 DEF FramesAreClean

\* The same of every behaviour of frames and textures.
THEOREM FramesSafe == FrameSpec => []FramesAreClean
BY FramesStart, FramesKeep, FrameInvImplies, PTL DEF FrameSpec

------------------------------------------------------------------------------
(* The patches.                                                            *)

Values == {"nil", "table", "number", "string", "error", "traceback"}
LuaStates == [stack : Seq(Values), globals : [Names -> Values]]

\* The state with the hooks and the one without, side by side.
Like(L, P) ==
  /\ L \in LuaStates /\ P \in LuaStates
  /\ Len(L.stack) = Len(P.stack)
  /\ \A i \in 1..Len(L.stack) : SameValue(L.stack[i], P.stack[i])
  /\ \A name \in Names : SameValue(L.globals[name], P.globals[name])

\* A Lua state is its stack and its globals.
LEMMA SetStack ==
  ASSUME NEW L \in LuaStates, NEW stack
  PROVE  [L EXCEPT !.stack = stack] = [stack |-> stack, globals |-> L.globals]
BY DEF LuaStates
LEMMA SetGlobals ==
  ASSUME NEW L \in LuaStates, NEW globals
  PROVE  [L EXCEPT !.globals = globals] = [stack |-> L.stack, globals |-> globals]
BY DEF LuaStates

\* Two stacks and two sets of globals that agree make two states that do.
LEMMA LikeParts ==
  ASSUME NEW a \in Seq(Values), NEW b \in Seq(Values), Len(a) = Len(b),
         \A i \in 1..Len(a) : SameValue(a[i], b[i]),
         NEW g \in [Names -> Values], NEW h \in [Names -> Values],
         \A name \in Names : SameValue(g[name], h[name])
  PROVE  Like([stack |-> a, globals |-> g], [stack |-> b, globals |-> h])
BY DEF Like, LuaStates

\* A value and what it stands for, pushed on both sides.
LEMMA PushLike ==
  ASSUME NEW L, NEW P, Like(L, P), NEW v \in Values, NEW w \in Values, SameValue(v, w)
  PROVE  Like(Push(L, v), Push(P, w))
<1>. DEFINE s == L.stack
            t == P.stack
<1>1. s \in Seq(Values) /\ t \in Seq(Values) /\ Len(s) = Len(t)
  BY DEF Like, LuaStates
<1>2. /\ Push(L, v) = [stack |-> Append(s, v), globals |-> L.globals]
      /\ Push(P, w) = [stack |-> Append(t, w), globals |-> P.globals]
  BY SetStack DEF Like, Push
<1>3. /\ Append(s, v) \in Seq(Values) /\ Append(t, w) \in Seq(Values)
      /\ Len(Append(s, v)) = Len(s) + 1 /\ Len(Append(t, w)) = Len(s) + 1
  BY <1>1
<1>4. \A i \in 1 .. Len(s) + 1 : SameValue(Append(s, v)[i], Append(t, w)[i])
  <2>. TAKE i \in 1 .. Len(s) + 1
  <2>1. CASE i = Len(s) + 1
    BY <1>1, <2>1
  <2>2. CASE i \in 1..Len(s)
    <3>1. Append(s, v)[i] = s[i] /\ Append(t, w)[i] = t[i]
      BY <1>1, <2>2
    <3>. QED
      BY <2>2, <3>1 DEF Like
  <2>. QED
    BY <1>1, <2>1, <2>2
<1>. HIDE DEF s, t
<1>. QED
  BY <1>2, <1>3, <1>4 DEF Like, LuaStates

\* The top value dropped on both sides.
LEMMA PopLike ==
  ASSUME NEW L, NEW P, Like(L, P), L.stack # <<>>
  PROVE  /\ Like(Pop(L, 1), Pop(P, 1))
         /\ Last(L.stack) \in Values /\ Last(P.stack) \in Values
         /\ SameValue(Last(L.stack), Last(P.stack))
         /\ P.stack # <<>>
<1>. DEFINE s == L.stack
            t == P.stack
            n == Len(s)
<1>1. s \in Seq(Values) /\ t \in Seq(Values) /\ Len(t) = n /\ n \in Nat /\ n >= 1
  BY DEF Like, LuaStates
<1>2. /\ Pop(L, 1) = [stack |-> SubSeq(s, 1, n - 1), globals |-> L.globals]
      /\ Pop(P, 1) = [stack |-> SubSeq(t, 1, n - 1), globals |-> P.globals]
  BY SetStack DEF Like, Pop
<1>3. /\ SubSeq(s, 1, n - 1) \in Seq(Values) /\ SubSeq(t, 1, n - 1) \in Seq(Values)
      /\ Len(SubSeq(s, 1, n - 1)) = n - 1 /\ Len(SubSeq(t, 1, n - 1)) = n - 1
      /\ \A i \in 1 .. n - 1 : SubSeq(s, 1, n - 1)[i] = s[i] /\ SubSeq(t, 1, n - 1)[i] = t[i]
  BY <1>1, SubSeqProperties
<1>4. /\ Last(s) = s[n] /\ Last(t) = t[n]
      /\ s[n] \in Values /\ t[n] \in Values /\ SameValue(s[n], t[n])
  BY <1>1 DEF Last, Like
<1>5. \A i \in 1 .. n - 1 : SameValue(SubSeq(s, 1, n - 1)[i], SubSeq(t, 1, n - 1)[i])
  BY <1>1, <1>3 DEF Like
<1>6. t # <<>>
  BY <1>1
<1>7. Like(Pop(L, 1), Pop(P, 1))
  <2>1. /\ L.globals \in [Names -> Values] /\ P.globals \in [Names -> Values]
        /\ \A name \in Names : SameValue(L.globals[name], P.globals[name])
    BY DEF Like, LuaStates
  <2>2. \A i \in 1..Len(SubSeq(s, 1, n - 1)) : SameValue(SubSeq(s, 1, n - 1)[i], SubSeq(t, 1, n - 1)[i])
    BY <1>3, <1>5
  <2>3. Len(SubSeq(s, 1, n - 1)) = Len(SubSeq(t, 1, n - 1))
    BY <1>3
  <2>4. Like([stack |-> SubSeq(s, 1, n - 1), globals |-> L.globals],
             [stack |-> SubSeq(t, 1, n - 1), globals |-> P.globals])
    BY <1>3, <2>1, <2>2, <2>3, LikeParts, Zenon
  <2>. QED
    BY <1>2, <2>4, Zenon
<1>. QED
  BY <1>4, <1>6, <1>7

\* A value assigned to the same global on both sides.
LEMMA AssignLike ==
  ASSUME NEW L, NEW P, Like(L, P), NEW v \in Values, NEW w \in Values, SameValue(v, w),
         NEW name \in Names
  PROVE  Like([L EXCEPT !.globals[name] = v], [P EXCEPT !.globals[name] = w])
<1>. DEFINE g == [L.globals EXCEPT ![name] = v]
            h == [P.globals EXCEPT ![name] = w]
<1>1. /\ L.stack \in Seq(Values) /\ P.stack \in Seq(Values)
      /\ Len(L.stack) = Len(P.stack)
      /\ \A i \in 1..Len(L.stack) : SameValue(L.stack[i], P.stack[i])
  BY DEF Like, LuaStates
<1>2. /\ g \in [Names -> Values] /\ h \in [Names -> Values]
      /\ \A other \in Names : SameValue(g[other], h[other])
  BY DEF Like, LuaStates
<1>3. /\ [L EXCEPT !.globals[name] = v] = [stack |-> L.stack, globals |-> g]
      /\ [P EXCEPT !.globals[name] = w] = [stack |-> P.stack, globals |-> h]
  BY DEF Like, LuaStates
<1>. HIDE DEF g, h
<1>4. Like([stack |-> L.stack, globals |-> g], [stack |-> P.stack, globals |-> h])
  BY <1>1, <1>2, LikeParts, Zenon
<1>. QED
  BY <1>3, <1>4, Zenon

\* lua_setglobal on both sides.
LEMMA SetGlobalLike ==
  ASSUME NEW L, NEW P, Like(L, P), L.stack # <<>>, NEW name \in Names
  PROVE  Like(SetGlobal(L, name), SetGlobal(P, name))
<1>. DEFINE M == [L EXCEPT !.globals[name] = Last(L.stack)]
            Q == [P EXCEPT !.globals[name] = Last(P.stack)]
<1>1. /\ Last(L.stack) \in Values /\ Last(P.stack) \in Values
      /\ SameValue(Last(L.stack), Last(P.stack))
  BY PopLike
<1>2. Like(M, Q)
  BY <1>1, AssignLike
<1>3. M.stack # <<>>
  BY DEF Like, LuaStates
<1>4. Like(Pop(M, 1), Pop(Q, 1))
  BY <1>2, <1>3, PopLike
<1>. QED
  BY <1>4 DEF SetGlobal

\* What was pushed can be taken off again: the state is as before.
LEMMA PushThenPop ==
  ASSUME NEW L \in LuaStates, NEW v \in Values
  PROVE  /\ Push(L, v) \in LuaStates
         /\ Pop(Push(L, v), 1) = L
         /\ SetTop(Push(L, v), Len(L.stack)) = L
         /\ Last(Push(L, v).stack) = v
<1>. DEFINE s == L.stack
            a == Append(s, v)
<1>1. s \in Seq(Values) /\ L = [stack |-> s, globals |-> L.globals]
      /\ L.globals \in [Names -> Values]
  BY DEF LuaStates
<1>2. Push(L, v) = [stack |-> a, globals |-> L.globals]
  BY SetStack DEF Push
<1>3. a \in Seq(Values) /\ Len(a) = Len(s) + 1 /\ a[Len(a)] = v /\ Len(s) \in Nat
  BY <1>1
<1>4. SubSeq(a, 1, Len(s)) = s
  BY <1>1, AppendProperties, SubSeqProperties
<1>5. Push(L, v) \in LuaStates
  BY <1>1, <1>2, <1>3 DEF LuaStates
<1>6. Push(L, v).stack = a /\ Push(L, v).globals = L.globals
  BY <1>2
<1>. HIDE DEF a
<1>7. [Push(L, v) EXCEPT !.stack = s] = L
  BY <1>1, <1>5, <1>6, SetStack
<1>8. SetTop(Push(L, v), Len(s)) = L
  BY <1>4, <1>6, <1>7 DEF SetTop
<1>9. Pop(Push(L, v), 1) = L
  <2>1. Len(a) - 1 = Len(s)
    BY <1>3
  <2>. QED
    BY <1>4, <1>6, <1>7, <2>1 DEF Pop
<1>10. Last(Push(L, v).stack) = v
  BY <1>3, <1>6 DEF Last
<1>. QED
  BY <1>5, <1>8, <1>9, <1>10

\* inject_pending_chargen_name leaves stack and globals as they were: only the
\* table it finds has changed.
LEMMA InjectRestores ==
  ASSUME NEW L \in LuaStates
  PROVE  Inject(L) = L
<1>. DEFINE got == GetGlobal(L, "chargen")
            g == L.globals["chargen"]
<1>1. g \in Values /\ got = Push(L, g) /\ "string" \in Values
  BY DEF LuaStates, Names, GetGlobal, Values
<1>2. got \in LuaStates /\ SetTop(got, Len(L.stack)) = L
  BY <1>1, PushThenPop
<1>3. Pop(Push(got, "string"), 1) = got
  BY <1>1, <1>2, PushThenPop
<1>. HIDE DEF got
<1>. QED
  BY <1>2, <1>3 DEF Inject, got

\* Reading the message turns a number into a string where it lies, and that is
\* all log_lua_error leaves behind.
LEMMA TolstringLike ==
  ASSUME NEW L, NEW P, Like(L, P), L.stack # <<>>
  PROVE  Like(Tolstring(L), P)
<1>1. CASE Last(L.stack) = "number"
  <2>1. Last(P.stack) = "number" /\ P.stack # <<>>
    BY <1>1, PopLike DEF SameValue
  <2>2. Like(Push(Pop(L, 1), "string"), Push(Pop(P, 1), "number"))
    BY PopLike, PushLike DEF Values, SameValue
  <2>3. Push(Pop(P, 1), Last(P.stack)) = P
    <3>. DEFINE t == P.stack
                n == Len(t)
    <3>1. P \in LuaStates /\ t \in Seq(Values) /\ n \in Nat /\ n >= 1
      BY <2>1 DEF Like, LuaStates
    <3>2. Pop(P, 1) = [stack |-> SubSeq(t, 1, n - 1), globals |-> P.globals]
      BY <3>1, SetStack DEF Pop
    <3>3. SubSeq(t, 1, n - 1) \in Seq(Values)
      BY <3>1, SubSeqProperties
    <3>4. Append(SubSeq(t, 1, n - 1), t[n]) = t
      BY <3>1, SubSeqProperties, AppendProperties
    <3>5. Push(Pop(P, 1), t[n]) = [stack |-> t, globals |-> P.globals]
      <4>1. Pop(P, 1) \in LuaStates
        BY <3>1, <3>2, <3>3 DEF LuaStates
      <4>2. Pop(P, 1).stack = SubSeq(t, 1, n - 1) /\ Pop(P, 1).globals = P.globals
        BY <3>2
      <4>. DEFINE M == Pop(P, 1)
      <4>3. Push(M, t[n]) = [stack |-> Append(M.stack, t[n]), globals |-> M.globals]
        BY <4>1, SetStack DEF Push
      <4>. QED
        BY <3>4, <4>2, <4>3
    <3>. QED
      BY <3>1, <3>5 DEF Last, LuaStates
  <2>. QED
    BY <1>1, <2>1, <2>2, <2>3 DEF Tolstring
<1>2. CASE Last(L.stack) # "number"
  BY <1>2 DEF Tolstring
<1>. QED
  BY <1>1, <1>2

LEMMA LogLike ==
  ASSUME NEW L, NEW P, Like(L, P), L.stack # <<>>
  PROVE  Like(log_lua_error(L), P)
<1>1. Like(Tolstring(L), P)
  BY TolstringLike
<1>2. Tolstring(L) \in LuaStates /\ "traceback" \in Values
  BY <1>1 DEF Like, Values
<1>3. SetTop(Push(Tolstring(L), "traceback"), Len(Tolstring(L).stack)) = Tolstring(L)
  BY <1>2, PushThenPop
<1>. QED
  BY <1>1, <1>3 DEF log_lua_error

\* The engine's read of a global, with the table the hook is there to make.
LEMMA ReadLike ==
  ASSUME NEW L, NEW P, Like(L, P), NEW name \in Names
  PROVE  LET made == IF P.globals[name] = "nil" /\ name = "actionBarTooltip"
                     THEN [P EXCEPT !.globals[name] = "table"] ELSE P
         IN Like(HookedGetGlobal(L, name), GetGlobal(made, name))
<1>1. /\ L.globals[name] \in Values /\ P.globals[name] \in Values
      /\ SameValue(L.globals[name], P.globals[name])
      /\ L \in LuaStates /\ P \in LuaStates
  BY DEF Like, LuaStates
<1>2. L.globals[name] = "nil" <=> P.globals[name] = "nil"
  BY <1>1 DEF SameValue
<1>3. GetGlobal(L, name) = Push(L, L.globals[name]) /\ Last(GetGlobal(L, name).stack) = L.globals[name]
  BY <1>1, PushThenPop DEF GetGlobal
<1>4. CASE name = "actionBarTooltip" /\ L.globals[name] = "nil"
  <2>. DEFINE Q == [P EXCEPT !.globals[name] = "table"]
              M == [L EXCEPT !.globals[name] = "table"]
  <2>1. Like(M, Q)
    BY AssignLike DEF Values, SameValue
  <2>2. M.globals[name] = "table" /\ Q.globals[name] = "table"
    BY <1>1 DEF LuaStates
  <2>3. Like(Push(M, "table"), Push(Q, "table"))
    BY <2>1, PushLike DEF Values, SameValue
  <2>4. HookedGetGlobal(L, name) = Push(M, "table")
    <3>1. HookedGetGlobal(L, name) = InPlaceOfNil(GetGlobal(L, name), name)
      BY <1>3, <1>4 DEF HookedGetGlobal
    <3>2. Pop(GetGlobal(L, name), 1) = L
      BY <1>1, <1>3, PushThenPop
    <3>. DEFINE one == Push(L, "table")
                two == Push(one, "table")
    <3>3. one \in LuaStates /\ two \in LuaStates /\ Pop(two, 1) = one /\ Last(two.stack) = "table"
      BY <1>1, PushThenPop DEF Values
    <3>4. InPlaceOfNil(GetGlobal(L, name), name) = SetGlobal(two, name)
      BY <3>2 DEF InPlaceOfNil
    <3>. DEFINE set == [two EXCEPT !.globals[name] = "table"]
    <3>5. SetGlobal(two, name) = Pop(set, 1)
      BY <3>3 DEF SetGlobal
    <3>6. /\ set = [stack |-> two.stack, globals |-> [two.globals EXCEPT ![name] = "table"]]
          /\ set \in LuaStates
      <4>1. two.globals \in [Names -> Values] /\ two.stack \in Seq(Values)
        BY <3>3 DEF LuaStates
      <4>2. [two.globals EXCEPT ![name] = "table"] \in [Names -> Values]
        BY <4>1 DEF Values
      <4>3. set = [stack |-> two.stack, globals |-> [two.globals EXCEPT ![name] = "table"]]
        BY <3>3 DEF LuaStates
      <4>. QED
        BY <4>1, <4>2, <4>3 DEF LuaStates
    <3>7. two.globals = L.globals /\ one.globals = L.globals /\ one.stack = Append(L.stack, "table")
      BY <1>1 DEF Push, LuaStates
    <3>8. Pop(set, 1).stack = one.stack
      <4>1. Pop(set, 1).stack = SubSeq(two.stack, 1, Len(two.stack) - 1)
        BY <3>6 DEF Pop, LuaStates
      <4>2. Pop(two, 1).stack = SubSeq(two.stack, 1, Len(two.stack) - 1)
        BY <3>3 DEF Pop, LuaStates
      <4>. QED
        BY <3>3, <4>1, <4>2
    <3>9. Pop(set, 1) = [stack |-> one.stack, globals |-> [L.globals EXCEPT ![name] = "table"]]
      <4>1. Pop(set, 1) = [stack |-> SubSeq(set.stack, 1, Len(set.stack) - 1), globals |-> set.globals]
        BY <3>6, SetStack DEF Pop
      <4>. QED
        BY <3>6, <3>7, <3>8, <4>1
    <3>10. Push(M, "table") = [stack |-> Append(L.stack, "table"), globals |-> [L.globals EXCEPT ![name] = "table"]]
      BY <1>1, <2>1, SetStack DEF Push, Like, LuaStates
    <3>. QED
      BY <3>1, <3>4, <3>5, <3>7, <3>9, <3>10
  <2>. QED
    BY <1>2, <1>4, <2>2, <2>3, <2>4 DEF GetGlobal
<1>5. CASE ~(name = "actionBarTooltip" /\ L.globals[name] = "nil")
  <2>1. HookedGetGlobal(L, name) = Push(L, L.globals[name])
    BY <1>3, <1>5 DEF HookedGetGlobal
  <2>2. Like(Push(L, L.globals[name]), Push(P, P.globals[name]))
    BY <1>1, PushLike
  <2>. QED
    BY <1>2, <1>5, <2>1, <2>2 DEF GetGlobal
<1>. QED
  BY <1>4, <1>5

------------------------------------------------------------------------------
\* The segments and the page, what was found, and the two Lua states.
PatchInv ==
  /\ text \in Segments /\ data \in Segments
  /\ page \in {"unmapped", "fatal", "mapped"} /\ PageIsFree
  /\ hooks = "installed" => Required \subseteq found
  /\ CallsAreFound
  /\ Like(lua, plain)

\* The page and a segment are told apart by their bounds alone.
LEMMA ApartWhereNoOverlap ==
  ASSUME NEW s \in Segments, ~ranges_overlap(PageBase, PageSize, s.base, s.size)
  PROVE  InSegment(s) \cap InSegment(HelperPage) = {}
<1>1. s.base \in Nat /\ s.size \in Nat /\ PageBase \in Nat /\ PageSize \in Nat
      /\ Address \subseteq Nat
  <2>1. s \in [base : Address, size : 0..3] /\ Address \subseteq Nat
    BY PageAssumption DEF Segments
  <2>2. s.base \in Address /\ s.size \in 0..3
    BY <2>1
  <2>3. s.base \in Nat
    BY <2>1, <2>2
  <2>4. s.size \in Nat
    BY <2>2
  <2>. QED
    BY <2>1, <2>3, <2>4, PageAssumption
<1>2. s.base + s.size <= PageBase \/ PageBase + PageSize <= s.base
  BY <1>1 DEF ranges_overlap
<1>3. HelperPage.base = PageBase /\ HelperPage.size = PageSize
  BY DEF HelperPage
<1>4. ASSUME NEW n \in InSegment(s), n \in InSegment(HelperPage) PROVE FALSE
  <2>1. n \in Nat /\ s.base <= n /\ n < s.base + s.size
    BY <1>1, <1>4 DEF InSegment
  <2>2. PageBase <= n /\ n < PageBase + PageSize
    BY <1>3, <1>4 DEF InSegment
  <2>. QED
    BY <1>1, <1>2, <2>1, <2>2
<1>. QED
  BY <1>4

\* Unsourced is mapped, installed or called at first.
LEMMA PatchStarts == PatchInit => PatchInv
<1>. SUFFICES ASSUME PatchInit PROVE PatchInv
  OBVIOUS
<1>1. PICK c \in {"nil", "table"} :
        lua = [stack |-> <<>>, globals |-> [name \in Names |-> IF name = "chargen" THEN c ELSE "nil"]]
  BY DEF PatchInit
<1>2. <<>> \in Seq(Values) /\ Len(<<>>) = 0
  OBVIOUS
<1>3. [name \in Names |-> IF name = "chargen" THEN c ELSE "nil"] \in [Names -> Values]
  BY DEF Values
<1>4. Like(lua, lua)
  <2>1. Like([stack |-> <<>>, globals |-> [name \in Names |-> IF name = "chargen" THEN c ELSE "nil"]],
             [stack |-> <<>>, globals |-> [name \in Names |-> IF name = "chargen" THEN c ELSE "nil"]])
    BY <1>2, <1>3, LikeParts DEF SameValue
  <2>. QED
    BY <1>1, <2>1, Zenon
<1>. QED
  BY <1>4 DEF PatchInit, PatchInv, PageIsFree, CallsAreFound

\* A mapped page is free, whatever the segments are.
LEMMA MapKeeps ==
  ASSUME PatchInv, kuser_patch
  PROVE  PatchInv'
<1>1. UNCHANGED <<text, data, found, hooks, crashed, lua, plain>>
  BY DEF kuser_patch
<1>2. page' \in {"fatal", "mapped"}
  BY DEF kuser_patch
<1>3. page' = "mapped" => \A s \in {text, data} : ~ranges_overlap(PageBase, PageSize, s.base, s.size)
  BY DEF kuser_patch
<1>4. PageIsFree'
  BY <1>1, <1>3, ApartWhereNoOverlap DEF PageIsFree, PatchInv, InSegment, HelperPage
<1>. QED
  BY <1>1, <1>2, <1>4 DEF PatchInv, Like, Required, CallsAreFound

\* A step in Lua leaves the page and the hooks as they are.
LEMMA LuaStepKeeps ==
  ASSUME PatchInv, UNCHANGED PatchVarsBut, CallsAreFound', Like(lua', plain')
  PROVE  PatchInv'
<1>1. UNCHANGED <<text, data, page, found, hooks>>
  BY DEF PatchVarsBut
<1>2. PageIsFree'
  BY <1>1 DEF PatchInv, PageIsFree, InSegment, HelperPage
<1>. QED
  BY <1>1, <1>2 DEF PatchInv

\* What no step touches was found as before.
LEMMA CallsStayFound ==
  ASSUME PatchInv, UNCHANGED <<found, crashed>>
  PROVE  CallsAreFound'
BY DEF PatchInv, CallsAreFound

\* What the hooks call is insisted on but for the two functions.
LEMMA NeedsAreRequired ==
  ASSUME NEW needs \in SUBSET (ToMakeTable \cup ToInject \cup ToReadError),
         Required \subseteq found, ~(needs \subseteq found)
  PROVE  \E f \in {"lua_gettop", "lua_settop", "lua_getinfo"} : f \notin found
BY DEF ToMakeTable, ToReadGlobal, ToInject, ToReadError, Required, LuaFunctions

\* A hook that ends well leaves two states that agree; one that does not was
\* missing a function.
LEMMA HookKeeps ==
  ASSUME PatchInv, NEW needs \in SUBSET (ToMakeTable \cup ToInject \cup ToReadError),
         NEW L, NEW P, LuaReady, HookEnds(needs, L, P), Like(L, P)
  PROVE  PatchInv'
<1>1. UNCHANGED PatchVarsBut /\ UNCHANGED <<text, data, page, found, hooks>>
  BY DEF HookEnds, PatchVarsBut
<1>2. Required \subseteq found /\ Like(lua, plain)
  BY DEF PatchInv, LuaReady
<1>3. CASE needs \subseteq found
  <2>1. lua' = L /\ plain' = P /\ crashed' = crashed
    BY <1>3 DEF HookEnds
  <2>2. CallsAreFound'
    BY <1>1, <2>1, CallsStayFound
  <2>3. Like(lua', plain')
    BY <2>1
  <2>. QED
    BY <1>1, <2>2, <2>3, LuaStepKeeps
<1>4. CASE ~(needs \subseteq found)
  <2>1. lua' = lua /\ plain' = plain
    BY <1>4 DEF HookEnds
  <2>2. CallsAreFound'
    BY <1>1, <1>2, <1>4, NeedsAreRequired DEF CallsAreFound
  <2>3. Like(lua', plain')
    BY <1>2, <2>1
  <2>. QED
    BY <1>1, <2>2, <2>3, LuaStepKeeps
<1>. QED
  BY <1>3, <1>4

\* The call takes its argument and leaves what it returned, or an error.
LEMMA CallKeeps ==
  ASSUME PatchInv, NEW outcome \in {"table", "error", "number"}, hooked_lua_pcallk(outcome)
  PROVE  PatchInv'
<1>. DEFINE injected == IF queued THEN Inject(lua) ELSE lua
<1>1. Like(lua, plain) /\ lua.stack # <<>> /\ lua \in LuaStates
  BY DEF PatchInv, hooked_lua_pcallk, Like
<1>2. injected = lua
  BY <1>1, InjectRestores
<1>3. Like(Call(lua, outcome), Call(plain, outcome))
  BY <1>1, PopLike, PushLike DEF Call, Values, SameValue
<1>4. Call(lua, outcome).stack # <<>>
  <2>1. Pop(lua, 1) \in LuaStates
    BY <1>1, PopLike DEF Like
  <2>2. Call(lua, outcome).stack = Append(Pop(lua, 1).stack, outcome)
    BY <2>1, SetStack DEF Call, Push
  <2>3. Pop(lua, 1).stack \in Seq(Values) /\ outcome \in Values
    BY <2>1 DEF LuaStates, Values
  <2>. QED
    BY <2>2, <2>3
<1>5. Like(log_lua_error(Call(lua, outcome)), Call(plain, outcome))
  BY <1>3, <1>4, LogLike
<1>. DEFINE needs == (IF queued THEN ToInject ELSE {})
                       \cup (IF outcome \in {"error", "number"} THEN ToReadError ELSE {})
            after == IF outcome \in {"error", "number"}
                     THEN log_lua_error(Call(lua, outcome)) ELSE Call(lua, outcome)
<1>6. LuaReady /\ HookEnds(needs, after, Call(plain, outcome))
  BY <1>2 DEF hooked_lua_pcallk
<1>7. needs \in SUBSET (ToMakeTable \cup ToInject \cup ToReadError)
  OBVIOUS
<1>8. Like(after, Call(plain, outcome))
  BY <1>3, <1>5
<1>. HIDE DEF needs, after
<1>. QED
  BY <1>6, <1>7, <1>8, HookKeeps

\* A load that fails has its message read where it lies.
LEMMA LoadKeeps ==
  ASSUME PatchInv, NEW outcome \in {"table", "error", "number"}, hooked_load(outcome)
  PROVE  PatchInv'
<1>1. Like(lua, plain) /\ lua \in LuaStates /\ outcome \in Values /\ SameValue(outcome, outcome)
  BY DEF PatchInv, Like, Values, SameValue
<1>2. Like(Push(lua, outcome), Push(plain, outcome))
  BY <1>1, PushLike
<1>3. Push(lua, outcome).stack # <<>>
  <2>1. Push(lua, outcome).stack = Append(lua.stack, outcome) /\ lua.stack \in Seq(Values)
    BY <1>1, SetStack DEF Push, LuaStates
  <2>. QED
    BY <1>1, <2>1
<1>4. Like(Tolstring(Push(lua, outcome)), Push(plain, outcome))
  BY <1>2, <1>3, TolstringLike
<1>. DEFINE needs == IF outcome # "table" THEN ToReadError ELSE {}
            after == IF outcome # "table"
                     THEN Tolstring(Push(lua, outcome)) ELSE Push(lua, outcome)
<1>5. LuaReady /\ HookEnds(needs, after, Push(plain, outcome))
  BY DEF hooked_load
<1>6. needs \in SUBSET (ToMakeTable \cup ToInject \cup ToReadError)
  OBVIOUS
<1>7. Like(after, Push(plain, outcome))
  BY <1>2, <1>4
<1>. HIDE DEF needs, after
<1>. QED
  BY <1>5, <1>6, <1>7, HookKeeps

\* The value that is thrown is read where it lies.
LEMMA ThrowKeeps ==
  ASSUME PatchInv, hooked_luaD_throw
  PROVE  PatchInv'
<1>1. Like(lua, plain) /\ lua.stack # <<>> /\ LuaReady
      /\ HookEnds(ToReadError, log_lua_error(lua), plain)
  BY DEF PatchInv, hooked_luaD_throw
<1>2. Like(log_lua_error(lua), plain)
  BY <1>1, LogLike
<1>. QED
  BY <1>1, <1>2, HookKeeps

\* A step of the loader or of the engine keeps the invariant.
LEMMA PatchKeeps == PatchInv /\ [PatchNext]_patchVars => PatchInv'
<1>. SUFFICES ASSUME PatchInv, [PatchNext]_patchVars PROVE PatchInv'
  OBVIOUS
<1>1. CASE kuser_patch
  BY <1>1, MapKeeps
<1>2. CASE install_lua_diagnostics
  <2>1. /\ UNCHANGED <<text, data, page, found, lua, plain>>
        /\ hooks' = "installed" => Required \subseteq found
        /\ crashed' => "lua_getinfo" \notin found
    BY <1>2 DEF install_lua_diagnostics
  <2>2. PageIsFree'
    BY <2>1 DEF PatchInv, PageIsFree, InSegment, HelperPage
  <2>3. CallsAreFound'
    BY <2>1 DEF CallsAreFound
  <2>. QED
    BY <2>1, <2>2, <2>3 DEF PatchInv
<1>3. CASE QueueName
  BY <1>3, LuaStepKeeps, CallsStayFound DEF QueueName, PatchInv, PatchVarsBut
<1>4. ASSUME NEW name \in Names, ReadGlobal(name) PROVE PatchInv'
  <2>. DEFINE makes == name = "actionBarTooltip" /\ plain.globals[name] = "nil"
              made == IF makes THEN [plain EXCEPT !.globals[name] = "table"] ELSE plain
              needs == IF makes THEN ToMakeTable ELSE ToReadGlobal
  <2>1. LuaReady /\ HookEnds(needs, HookedGetGlobal(lua, name), GetGlobal(made, name))
    BY <1>4 DEF ReadGlobal
  <2>2. Like(lua, plain)
    BY DEF PatchInv
  <2>3. Like(HookedGetGlobal(lua, name), GetGlobal(made, name))
    BY <2>2, ReadLike
  <2>4. needs \in SUBSET (ToMakeTable \cup ToInject \cup ToReadError)
    BY DEF ToMakeTable
  <2>. HIDE DEF needs, made
  <2>. QED
    BY <2>1, <2>3, <2>4, HookKeeps
<1>5. ASSUME NEW name \in Names, EngineSets(name) PROVE PatchInv'
  <2>1. Like(lua, plain) /\ lua.stack # <<>>
    BY <1>5 DEF PatchInv, EngineSets
  <2>2. Like(lua', plain') /\ UNCHANGED PatchVarsBut /\ UNCHANGED <<found, crashed>>
    BY <1>5, <2>1, SetGlobalLike DEF EngineSets, PatchVarsBut
  <2>. QED
    BY <2>2, LuaStepKeeps, CallsStayFound
<1>6. ASSUME NEW v \in {"nil", "table", "number"}, EnginePushes(v) PROVE PatchInv'
  <2>1. Like(lua, plain) /\ v \in Values /\ SameValue(v, v)
    BY DEF PatchInv, Values, SameValue
  <2>2. Like(lua', plain') /\ UNCHANGED PatchVarsBut /\ UNCHANGED <<found, crashed>>
    BY <1>6, <2>1, PushLike DEF EnginePushes, PatchVarsBut
  <2>. QED
    BY <2>2, LuaStepKeeps, CallsStayFound
<1>7. ASSUME NEW outcome \in {"table", "error", "number"},
             hooked_lua_pcallk(outcome) \/ hooked_load(outcome)
      PROVE  PatchInv'
  BY <1>7, CallKeeps, LoadKeeps
<1>8. CASE UNCHANGED patchVars
  BY <1>8, LuaStepKeeps, CallsStayFound DEF patchVars, PatchVarsBut, PatchInv
<1>9. CASE hooked_luaD_throw
  BY <1>9, ThrowKeeps
<1>. QED
  BY <1>1, <1>2, <1>3, <1>4, <1>5, <1>6, <1>7, <1>8, <1>9 DEF PatchNext

\* The helper page lies on no byte of the engine, hooks call only what was
\* found, and the engine's Lua is as it would be without them, for a machine of
\* any size, any engine and any sequence of calls.
THEOREM PatchesSafe == PatchSpec => []PatchesAreSound
<1>1. PatchInv => PatchesAreSound
  <2>. SUFFICES ASSUME PatchInv PROVE PatchesAreSound
    OBVIOUS
  <2>1. CallsAreFound
    BY DEF PatchInv
  <2>2. HooksAreTransparent
    BY DEF PatchInv, Like, HooksAreTransparent
  <2>. QED
    BY <2>1, <2>2 DEF PatchInv, PatchesAreSound
<1>. QED
  BY PatchStarts, PatchKeeps, <1>1, PTL DEF PatchSpec
------------------------------------------------------------------------------
(* Start-up.                                                               *)

StageList ==
  <<"bg2v_log_reset", "app_event", "fios_init", "kubridge", "so_exists",
    "so_file_load", "settings_load", "so_relocate", "resolve_imports", "so_patch",
    "so_flush_caches", "so_initialize", "gl_preload", "jni_init", "controls_init",
    "require_jni_on_load", "JNI_OnLoad", "gl_init", "require_sdl_native_init",
    "require_sdl_input_bridges", "make_sdl_arguments", "create_thread", "start_thread",
    "delay", "onNativeResize", "onNativeSurfaceChanged">>

\* Two sequences, one after the other.
LEMMA Concatenated ==
  ASSUME NEW S, NEW s \in Seq(S), NEW t \in Seq(S), NEW r, r = s \o t
  PROVE  /\ r \in Seq(S) /\ Len(r) = Len(s) + Len(t)
         /\ \A i \in 1 .. Len(s) + Len(t) : r[i] = IF i <= Len(s) THEN s[i] ELSE t[i - Len(s)]
BY ConcatProperties

\* s lies in the list behind its first m stages.
PartAt(s, m) == \A k \in 1..Len(s) : s[k] = StageList[k + m]

\* A part of the list and the one after it.
LEMMA Joined ==
  ASSUME NEW S, NEW s \in Seq(S), NEW t \in Seq(S), PartAt(s, 0), PartAt(t, Len(s)),
         NEW r, r = s \o t
  PROVE  PartAt(r, 0)
<1>. DEFINE m == Len(s)
            n == Len(t)
<1>1. /\ r \in Seq(S) /\ Len(r) = Len(s) + Len(t)
      /\ \A i \in 1 .. Len(s) + Len(t) : r[i] = IF i <= Len(s) THEN s[i] ELSE t[i - Len(s)]
  BY ONLY Concatenated, s \in Seq(S), t \in Seq(S), r = s \o t
<1>2. \A k \in 1..m : s[k] = StageList[k + 0]
  BY DEF PartAt
<1>3. \A k \in 1..n : t[k] = StageList[k + m]
  BY DEF PartAt
<1>4. m \in Nat /\ n \in Nat
  BY LenProperties
<1>5. \A i \in 1 .. m + n : r[i] = IF i <= m THEN s[i] ELSE t[i - m]
  BY <1>1
<1>. HIDE DEF m, n
<1>6. ASSUME NEW k \in 1 .. m + n PROVE r[k] = StageList[k + 0]
  <2>1. r[k] = IF k <= m THEN s[k] ELSE t[k - m]
    BY <1>5
  <2>2. CASE k <= m
    <3>1. k \in 1..m
      BY <1>4, <2>2
    <3>. QED
      BY <1>2, <2>1, <2>2, <3>1
  <2>3. CASE k > m
    <3>1. k - m \in 1..n
      BY <1>4, <2>3
    <3>2. t[k - m] = StageList[(k - m) + m] /\ (k - m) + m = k + 0
      BY <1>3, <1>4, <3>1
    <3>3. ~(k <= m)
      BY <1>4, <2>3
    <3>. QED
      BY <2>1, <3>2, <3>3
  <2>4. k <= m \/ k > m
    BY <1>4
  <2>. QED
    BY <2>2, <2>3, <2>4
<1>. QED
  BY <1>1, <1>6 DEF m, n, PartAt

\* The stages one after the other.
LEMMA StagesListed ==
  /\ Len(Stages) = 26 /\ DOMAIN Stages = 1..26
  /\ \A k \in 1..26 : Stages[k] = StageList[k]
<1>. DEFINE S == {StageList[k] : k \in 1..26}
            a == <<"bg2v_log_reset">>
            b == soloader_init_all
            c == <<"require_jni_on_load", "JNI_OnLoad">>
            d == PrepareSdl
            e == <<"onNativeResize", "onNativeSurfaceChanged">>
            ab == a \o b
            abc == ab \o c
            abcd == abc \o d
<1>1. a \in Seq(S) /\ Len(a) = 1 /\ PartAt(a, 0)
  BY DEF StageList, PartAt
<1>2. b \in Seq(S) /\ Len(b) = 14 /\ PartAt(b, 1)
  BY DEF StageList, PartAt, soloader_init_all
<1>3. c \in Seq(S) /\ Len(c) = 2 /\ PartAt(c, 15)
  BY DEF StageList, PartAt
<1>4. d \in Seq(S) /\ Len(d) = 7 /\ PartAt(d, 17)
  BY DEF StageList, PartAt, PrepareSdl
<1>5. e \in Seq(S) /\ Len(e) = 2 /\ PartAt(e, 24)
  BY DEF StageList, PartAt
<1>6. ab = a \o b /\ abc = ab \o c /\ abcd = abc \o d /\ Stages = abcd \o e
  BY DEF Stages
<1>. HIDE DEF S, a, b, c, d, e, ab, abc, abcd
<1>7. ab \in Seq(S) /\ Len(ab) = 15 /\ PartAt(ab, 0)
  <2>0. a \in Seq(S) /\ b \in Seq(S) /\ ab = a \o b
    BY <1>1, <1>2, <1>6
  <2>1. ab \in Seq(S) /\ Len(ab) = Len(a) + Len(b)
    BY ONLY <2>0, Concatenated
  <2>2. PartAt(ab, 0)
    BY ONLY <1>1, <1>2, <1>6, Joined
  <2>. QED
    BY <1>1, <1>2, <2>1, <2>2
<1>8. abc \in Seq(S) /\ Len(abc) = 17 /\ PartAt(abc, 0)
  <2>0. ab \in Seq(S) /\ c \in Seq(S) /\ abc = ab \o c
    BY <1>7, <1>3, <1>6
  <2>1. abc \in Seq(S) /\ Len(abc) = Len(ab) + Len(c)
    BY ONLY <2>0, Concatenated
  <2>2. PartAt(abc, 0)
    BY ONLY <1>7, <1>3, <1>6, Joined
  <2>. QED
    BY <1>7, <1>3, <2>1, <2>2
<1>9. abcd \in Seq(S) /\ Len(abcd) = 24 /\ PartAt(abcd, 0)
  <2>0. abc \in Seq(S) /\ d \in Seq(S) /\ abcd = abc \o d
    BY <1>8, <1>4, <1>6
  <2>1. abcd \in Seq(S) /\ Len(abcd) = Len(abc) + Len(d)
    BY ONLY <2>0, Concatenated
  <2>2. PartAt(abcd, 0)
    BY ONLY <1>8, <1>4, <1>6, Joined
  <2>. QED
    BY <1>8, <1>4, <2>1, <2>2
<1>10. Stages \in Seq(S) /\ Len(Stages) = 26 /\ PartAt(Stages, 0)
  <2>0. abcd \in Seq(S) /\ e \in Seq(S) /\ Stages = abcd \o e
    BY <1>9, <1>5, <1>6
  <2>1. Stages \in Seq(S) /\ Len(Stages) = Len(abcd) + Len(e)
    BY ONLY <2>0, Concatenated
  <2>2. PartAt(Stages, 0)
    BY ONLY <1>9, <1>5, <1>6, Joined
  <2>. QED
    BY <1>9, <1>5, <2>1, <2>2
<1>11. DOMAIN Stages = 1..26
  BY <1>10, LenProperties
<1>12. \A k \in 1..26 : Stages[k] = StageList[k]
  <2>1. \A k \in 1..26 : Stages[k] = StageList[k + 0]
    BY <1>10 DEF PartAt
  <2>2. \A k \in 1..26 : k + 0 = k
    OBVIOUS
  <2>. QED
    BY <2>1, <2>2
<1>. QED
  BY <1>10, <1>11, <1>12

LEMMA StagesDiffer ==
  \A j, k \in 1..26 : Stages[j] = Stages[k] => j = k
BY StagesListed DEF StageList


\* Where the stages that the others wait for stand.
LEMMA StagesNamed ==
  /\ Stages[6] = "so_file_load" /\ Stages[7] = "settings_load" /\ Stages[8] = "so_relocate"
  /\ Stages[9] = "resolve_imports" /\ Stages[10] = "so_patch"
  /\ Stages[11] = "so_flush_caches" /\ Stages[12] = "so_initialize"
  /\ Stages[17] = "JNI_OnLoad" /\ Stages[18] = "gl_init"
  /\ Stages[20] = "require_sdl_input_bridges" /\ Stages[22] = "create_thread"
  /\ Stages[23] = "start_thread" /\ Stages[24] = "delay" /\ Stages[25] = "onNativeResize"
BY StagesListed DEF StageList

\* The loop and the three ends of start-up are no stages.
LEMMA EndsAreNoStages ==
  \A k \in 1..26 : Stages[k] \notin {"loop", "stuck", "fatal", "configurator"}
BY StagesListed DEF StageList

\* After leads through the stages in their order, to the loop.
LEMMA AfterStage ==
  ASSUME NEW k \in 1..26
  PROVE  After(Stages[k]) = IF k = 26 THEN "loop" ELSE Stages[k + 1]
<1>. DEFINE i == CHOOSE j \in DOMAIN Stages : Stages[j] = Stages[k]
<1>1. i \in 1..26 /\ Stages[i] = Stages[k]
  BY StagesListed
<1>2. i = k
  BY <1>1, StagesDiffer
<1>. QED
  BY <1>2, StagesListed DEF After

\* The stages completed so far begin the list, and main is at the first that
\* is not among them.
Progress ==
  /\ \A j, k \in 1..26 : j <= k /\ Stages[k] \in done => Stages[j] \in done
  /\ \A k \in 1..26 : stage = Stages[k] => \A j \in 1..26 : Stages[j] \in done <=> j < k

LEMMA CompleteProgresses ==
  ASSUME Progress, NEW n \in 1..26, stage = Stages[n], Complete
  PROVE  Progress'
<1>1. \A j \in 1..26 : Stages[j] \in done' <=> j <= n
  <2>. SUFFICES ASSUME NEW j \in 1..26
                PROVE  Stages[j] \in done' <=> j <= n
    OBVIOUS
  <2>1. Stages[j] \in done' <=> Stages[j] \in done \/ Stages[j] = Stages[n]
    BY DEF Complete
  <2>2. Stages[j] \in done <=> j < n
    BY DEF Progress
  <2>3. Stages[j] = Stages[n] <=> j = n
    BY StagesDiffer
  <2>. QED
    BY <2>1, <2>2, <2>3
<1>2. stage' = IF n = 26 THEN "loop" ELSE Stages[n + 1]
  BY AfterStage DEF Complete
<1>3. ASSUME NEW k \in 1..26, stage' = Stages[k]
      PROVE  k = n + 1
  <2>1. n # 26
    BY <1>2, <1>3, EndsAreNoStages
  <2>2. n + 1 \in 1..26 /\ Stages[n + 1] = Stages[k]
    BY <1>2, <1>3, <2>1
  <2>. QED
    BY <2>2, StagesDiffer
<1>4. \A j, k \in 1..26 : j <= k /\ Stages[k] \in done' => Stages[j] \in done'
  BY <1>1
<1>5. \A k \in 1..26 : stage' = Stages[k] => \A j \in 1..26 : Stages[j] \in done' <=> j < k
  BY <1>1, <1>3
<1>. QED
  BY <1>4, <1>5 DEF Progress

LEMMA EndingProgresses ==
  ASSUME Progress, stage' \in {"loop", "stuck", "fatal", "configurator"}, done' = done
  PROVE  Progress'
BY EndsAreNoStages DEF Progress

\* What has come before a stage that was completed, or that main is at.
LEMMA StagesInOrder ==
  ASSUME Progress
  PROVE  /\ ("so_initialize" \in done \/ "JNI_OnLoad" \in done \/ "create_thread" \in done) =>
              {"so_file_load", "so_relocate", "resolve_imports", "so_patch", "so_flush_caches"}
                \subseteq done
         /\ "create_thread" \in done => "gl_init" \in done
         /\ "start_thread" \in done => "create_thread" \in done
         /\ "delay" \in done => "start_thread" \in done
         /\ "onNativeResize" \in done => "delay" \in done
         /\ stage = "gl_init" => "gl_init" \notin done
         /\ stage = "create_thread" => /\ "gl_init" \in done /\ "create_thread" \notin done
                                       /\ "start_thread" \notin done
         /\ stage = "start_thread" => /\ "create_thread" \in done /\ "start_thread" \notin done
                                      /\ "delay" \notin done
         /\ stage = "delay" => "start_thread" \in done /\ "delay" \notin done
<1>. USE StagesNamed DEF Progress
<1>1. \A j \in {6, 8, 9, 10, 11} : \A k \in {12, 17, 22} : Stages[k] \in done => Stages[j] \in done
  OBVIOUS
<1>2. ("so_initialize" \in done \/ "JNI_OnLoad" \in done \/ "create_thread" \in done) =>
        {"so_file_load", "so_relocate", "resolve_imports", "so_patch", "so_flush_caches"}
          \subseteq done
  BY <1>1
<1>3. Stages[22] \in done => Stages[18] \in done
  OBVIOUS
<1>4. Stages[23] \in done => Stages[22] \in done
  OBVIOUS
<1>5. Stages[24] \in done => Stages[23] \in done
  OBVIOUS
<1>6. Stages[25] \in done => Stages[24] \in done
  OBVIOUS
<1>7. stage = Stages[18] => Stages[18] \notin done
  OBVIOUS
<1>8. stage = Stages[22] => /\ Stages[18] \in done /\ Stages[22] \notin done
                            /\ Stages[23] \notin done
  OBVIOUS
<1>9. stage = Stages[23] => /\ Stages[22] \in done /\ Stages[23] \notin done
                            /\ Stages[24] \notin done
  OBVIOUS
<1>10. stage = Stages[24] => Stages[23] \in done /\ Stages[24] \notin done
  OBVIOUS
<1>. QED
  BY <1>2, <1>3, <1>4, <1>5, <1>6, <1>7, <1>8, <1>9, <1>10


\* The SDL thread: created and started by the stages of that name, entered
\* within MaxLatency ticks of its start.
SdlInv ==
  /\ sdl \in {"none", "created", "ready", "inside", "ended"}
  /\ bootstrap_state = "NOT_STARTED" <=> sdl \in {"none", "created", "ready"}
  /\ sdl # "none" => "create_thread" \in done
  /\ sdl \in {"ready", "inside", "ended"} <=> "start_thread" \in done
  /\ waited \in Nat
  /\ "start_thread" \notin done => waited = 0
  /\ sdl = "ready" => waited <= MaxLatency
  /\ "delay" \in done => sdl \in {"inside", "ended"}

\* gl_init: main initializes vitaGL, and the engine's thread finds it done.
GlInv ==
  /\ glpc \in [Threads -> {"out", "checked", "past"}]
  /\ glpc["sdl"] # "checked"
  /\ glpc["main"] # "past" => ~initialized /\ vglInits = 0
  /\ glpc["main"] = "past" => initialized /\ vglInits = 1
  /\ "gl_init" \in done => glpc["main"] = "past"

\* No bridge is missing once they were required.
BridgeInv ==
  /\ missing \subseteq Exported
  /\ "require_sdl_input_bridges" \in done => missing = {}

StartInv == Progress /\ SdlInv /\ GlInv /\ BridgeInv

LEMMA StartInvInit == StartInit => StartInv
<1>. SUFFICES ASSUME StartInit PROVE StartInv
  OBVIOUS
<1>1. Progress
  <2>0. 1 \in 1..26 /\ Stages[1] = "bg2v_log_reset"
    BY StagesListed DEF StageList
  <2>1. done = {} /\ stage = Stages[1]
    BY <2>0 DEF StartInit
  <2>2. ASSUME NEW k \in 1..26, stage = Stages[k] PROVE k = 1
    BY <2>0, <2>1, <2>2, StagesDiffer
  <2>. QED
    BY <2>1, <2>2 DEF Progress
<1>2. SdlInv
  BY LatencyAssumption DEF StartInit, SdlInv
<1>3. GlInv
  BY DEF StartInit, GlInv, Threads
<1>4. BridgeInv
  BY DEF StartInit, BridgeInv
<1>. QED
  BY <1>1, <1>2, <1>3, <1>4 DEF StartInv

\* Main goes on to the next stage, ends start-up or stays where it is.
LEMMA MainProgresses ==
  ASSUME Progress, StartNext
  PROVE  Progress'
<1>1. ASSUME stage' = stage, done' = done
      PROVE  Progress'
  BY <1>1 DEF Progress
<1>2. CASE PlainStage
  <2>1. PICK n \in 1..26 : stage = Stages[n]
    BY <1>2, StagesListed DEF PlainStage
  <2>. QED
    BY <1>2, <2>1, CompleteProgresses, EndingProgresses DEF PlainStage
<1>3. CASE AppEvent
  <2>1. stage = Stages[2]
    BY <1>3, StagesListed DEF AppEvent, StageList
  <2>. QED
    BY <1>3, <2>1, CompleteProgresses, EndingProgresses DEF AppEvent
<1>4. CASE SettingsLoad
  <2>1. stage = Stages[7]
    BY <1>4, StagesNamed DEF SettingsLoad
  <2>2. Complete \/ (stage' = "stuck" /\ done' = done)
    BY <1>4 DEF SettingsLoad
  <2>. QED
    BY <2>1, <2>2, CompleteProgresses, EndingProgresses
<1>5. CASE GlReturns
  <2>1. stage = Stages[18]
    BY <1>5, StagesNamed DEF GlReturns
  <2>. QED
    BY <1>5, <2>1, CompleteProgresses DEF GlReturns
<1>6. CASE RequireBridges
  <2>1. stage = Stages[20]
    BY <1>6, StagesNamed DEF RequireBridges
  <2>. QED
    BY <1>6, <2>1, CompleteProgresses, EndingProgresses DEF RequireBridges
<1>7. CASE LaunchThread
  <2>1. stage = Stages[22] \/ stage = Stages[23]
    BY <1>7, StagesNamed DEF LaunchThread
  <2>. QED
    BY <1>7, <2>1, CompleteProgresses, EndingProgresses DEF LaunchThread
<1>8. CASE Delay
  <2>1. stage = Stages[24]
    BY <1>8, StagesNamed DEF Delay
  <2>2. Complete \/ (stage' = stage /\ done' = done)
    BY <1>8 DEF Delay
  <2>. QED
    BY <1>1, <2>1, <2>2, CompleteProgresses
<1>9. CASE SdlEnters \/ NativeReturns
  BY <1>1, <1>9 DEF SdlEnters, NativeReturns
<1>10. CASE LoopHead
  BY <1>1, <1>10, EndingProgresses DEF LoopHead
<1>11. CASE \E t \in Threads : GlCheck(t) \/ GlInitialize(t)
  BY <1>1, <1>11 DEF GlCheck, GlInitialize
<1>. QED
  BY <1>2, <1>3, <1>4, <1>5, <1>6, <1>7, <1>8, <1>9, <1>10, <1>11 DEF StartNext

\* A stage that starts no thread and waits for none.
LEMMA SdlIsLeft ==
  ASSUME SdlInv, UNCHANGED <<sdl, bootstrap_state, waited>>,
         done' = done \/ done' = done \cup {stage},
         done' # done => stage \notin {"create_thread", "start_thread", "delay"}
  PROVE  SdlInv'
<1>1. \A s \in {"create_thread", "start_thread", "delay"} : s \in done' <=> s \in done
  OBVIOUS
<1>. QED
  BY <1>1 DEF SdlInv

LEMMA SdlKept ==
  ASSUME Progress, SdlInv, StartNext
  PROVE  SdlInv'
<1>1. CASE PlainStage
  BY <1>1, SdlIsLeft DEF PlainStage, Complete
<1>2. CASE AppEvent \/ SettingsLoad \/ GlReturns \/ RequireBridges
  <2>1. stage \notin {"create_thread", "start_thread", "delay"}
    BY <1>2 DEF AppEvent, SettingsLoad, GlReturns, RequireBridges
  <2>2. UNCHANGED <<sdl, bootstrap_state, waited>>
    BY <1>2 DEF AppEvent, SettingsLoad, GlReturns, RequireBridges
  <2>3. done' = done \/ done' = done \cup {stage}
    BY <1>2 DEF AppEvent, SettingsLoad, GlReturns, RequireBridges, Complete
  <2>. QED
    BY <2>1, <2>2, <2>3, SdlIsLeft
<1>3. CASE LaunchThread
  <2>1. UNCHANGED <<bootstrap_state, waited>>
    BY <1>3 DEF LaunchThread
  <2>2. CASE stage \in faults
    <3>1. done' = done /\ sdl' = sdl
      BY <1>3, <2>2 DEF LaunchThread
    <3>. QED
      BY <2>1, <3>1, SdlIsLeft
  <2>3. CASE stage = "create_thread" /\ stage \notin faults
    <3>1. done' = done \cup {"create_thread"} /\ sdl' = "created"
      BY <1>3, <2>3 DEF LaunchThread, Complete
    <3>2. "create_thread" \notin done /\ "start_thread" \notin done /\ "delay" \notin done
      BY <2>3, StagesInOrder
    <3>3. sdl = "none" /\ bootstrap_state = "NOT_STARTED" /\ waited = 0
      BY <3>2 DEF SdlInv
    <3>. QED
      BY <2>1, <3>1, <3>2, <3>3 DEF SdlInv
  <2>4. CASE stage = "start_thread" /\ stage \notin faults
    <3>1. done' = done \cup {"start_thread"} /\ sdl' = "ready"
      BY <1>3, <2>4 DEF LaunchThread, Complete
    <3>2. "create_thread" \in done /\ "start_thread" \notin done /\ "delay" \notin done
      BY <2>4, StagesInOrder
    <3>3. sdl \in {"none", "created"} /\ bootstrap_state = "NOT_STARTED" /\ waited = 0
      BY <3>2 DEF SdlInv
    <3>. QED
      BY <2>1, <3>1, <3>2, <3>3, LatencyAssumption DEF SdlInv
  <2>. QED
    BY <1>3, <2>2, <2>3, <2>4 DEF LaunchThread
<1>4. CASE Delay
  <2>1. stage = "delay" /\ "start_thread" \in done /\ "delay" \notin done
    BY <1>4, StagesInOrder DEF Delay
  <2>2. UNCHANGED <<sdl, bootstrap_state>>
    BY <1>4 DEF Delay
  <2>3. CASE waited >= DelayTicks
    <3>1. waited' = waited /\ done' = done \cup {"delay"}
      BY <1>4, <2>1, <2>3 DEF Delay, Ticks250, Complete
    <3>2. sdl \in {"inside", "ended"}
      BY <2>1, <2>3, LatencyAssumption DEF SdlInv
    <3>. QED
      BY <2>1, <2>2, <3>1, <3>2 DEF SdlInv
  <2>4. CASE ~(waited >= DelayTicks)
    <3>1. waited' = waited + 1 /\ done' = done /\ (sdl = "ready" => waited < MaxLatency)
      BY <1>4, <2>4 DEF Delay, Ticks250
    <3>. QED
      BY <2>1, <2>2, <3>1, LatencyAssumption DEF SdlInv
  <2>. QED
    BY <2>3, <2>4
<1>5. CASE SdlEnters
  <2>1. done' = done /\ waited' = waited
    BY <1>5 DEF SdlEnters
  <2>2. sdl = "ready" /\ sdl' = "inside" /\ bootstrap_state' = "ENTERED"
    BY <1>5 DEF SdlEnters
  <2>. QED
    BY <2>1, <2>2 DEF SdlInv
<1>6. CASE NativeReturns
  <2>1. done' = done /\ waited' = waited
    BY <1>6 DEF NativeReturns
  <2>2. sdl = "inside" /\ sdl' = "ended" /\ bootstrap_state' = "RETURNED"
    BY <1>6 DEF NativeReturns
  <2>. QED
    BY <2>1, <2>2 DEF SdlInv
<1>7. CASE LoopHead \/ \E t \in Threads : GlCheck(t) \/ GlInitialize(t)
  <2>1. done' = done /\ UNCHANGED <<sdl, bootstrap_state, waited>>
    BY <1>7 DEF LoopHead, GlCheck, GlInitialize
  <2>. QED
    BY <2>1, SdlIsLeft
<1>. QED
  BY <1>1, <1>2, <1>3, <1>4, <1>5, <1>6, <1>7 DEF StartNext

\* The engine's thread runs after main has returned from gl_init.
LEMMA GlKept ==
  ASSUME Progress, SdlInv, GlInv, StartNext
  PROVE  GlInv'
<1>1. ASSUME UNCHANGED <<glpc, initialized, vglInits>>,
             "gl_init" \in done' => "gl_init" \in done
      PROVE  GlInv'
  BY <1>1 DEF GlInv
<1>2. CASE PlainStage
  <2>1. UNCHANGED <<glpc, initialized, vglInits>> /\ stage # "gl_init"
    BY <1>2 DEF PlainStage
  <2>2. done' = done \/ done' = done \cup {stage}
    BY <1>2 DEF PlainStage, Complete
  <2>. QED
    BY <1>1, <2>1, <2>2
<1>3. CASE AppEvent \/ SettingsLoad \/ RequireBridges \/ LaunchThread \/ Delay
  <2>1. UNCHANGED <<glpc, initialized, vglInits>>
    BY <1>3 DEF AppEvent, SettingsLoad, RequireBridges, LaunchThread, Delay
  <2>2. stage # "gl_init"
    BY <1>3 DEF AppEvent, SettingsLoad, RequireBridges, LaunchThread, Delay
  <2>3. done' = done \/ done' = done \cup {stage}
    BY <1>3 DEF AppEvent, SettingsLoad, RequireBridges, LaunchThread, Delay, Complete
  <2>. QED
    BY <1>1, <2>1, <2>2, <2>3
<1>4. CASE GlReturns
  <2>1. UNCHANGED <<glpc, initialized, vglInits>> /\ glpc["main"] = "past"
    BY <1>4 DEF GlReturns
  <2>. QED
    BY <2>1 DEF GlInv
<1>5. CASE SdlEnters \/ NativeReturns \/ LoopHead
  BY <1>1, <1>5 DEF SdlEnters, NativeReturns, LoopHead
<1>6. ASSUME NEW t \in Threads, GlCheck(t)
      PROVE  GlInv'
  <2>1. UNCHANGED <<initialized, vglInits, done>> /\ glpc[t] = "out"
    BY <1>6 DEF GlCheck
  <2>2. CASE t = "main"
    <3>1. stage = "gl_init" /\ ~initialized /\ vglInits = 0
      BY <1>6, <2>1, <2>2 DEF GlCheck, GlInv
    <3>2. "gl_init" \notin done
      BY <3>1, StagesInOrder
    <3>3. glpc' = [glpc EXCEPT !["main"] = "checked"]
      BY <1>6, <2>2, <3>1 DEF GlCheck
    <3>. QED
      BY <2>1, <3>1, <3>2, <3>3 DEF GlInv, Threads
  <2>3. CASE t = "sdl"
    <3>1. sdl = "inside"
      BY <1>6, <2>3 DEF GlCheck
    <3>2. "gl_init" \in done
      BY <3>1, StagesInOrder DEF SdlInv
    <3>3. initialized
      BY <3>2 DEF GlInv
    <3>4. glpc' = [glpc EXCEPT !["sdl"] = "past"]
      BY <1>6, <2>3, <3>3 DEF GlCheck
    <3>. QED
      BY <2>1, <3>4 DEF GlInv, Threads
  <2>. QED
    BY <2>2, <2>3 DEF Threads
<1>7. ASSUME NEW t \in Threads, GlInitialize(t)
      PROVE  GlInv'
  <2>1. t = "main"
    BY <1>7 DEF GlInitialize, GlInv, Threads
  <2>2. vglInits = 0 /\ vglInits' = vglInits + 1 /\ initialized' = TRUE /\ done' = done
    BY <1>7, <2>1 DEF GlInitialize, GlInv
  <2>3. glpc' = [glpc EXCEPT !["main"] = "past"]
    BY <1>7, <2>1 DEF GlInitialize
  <2>4. vglInits' = 1
    BY <2>2
  <2>. QED
    BY <2>2, <2>3, <2>4 DEF GlInv, Threads
<1>. QED
  BY <1>2, <1>3, <1>4, <1>5, <1>6, <1>7 DEF StartNext

LEMMA BridgesKept ==
  ASSUME BridgeInv, StartNext
  PROVE  BridgeInv'
<1>1. missing' = missing
  <2>1. CASE PlainStage \/ AppEvent \/ SettingsLoad \/ GlReturns \/ RequireBridges
    BY <2>1, Zenon DEF PlainStage, AppEvent, SettingsLoad, GlReturns, RequireBridges
  <2>2. CASE LaunchThread \/ Delay \/ SdlEnters \/ NativeReturns \/ LoopHead
    <3>1. CASE LaunchThread \/ Delay
      BY <3>1 DEF LaunchThread, Delay
    <3>2. CASE SdlEnters \/ NativeReturns \/ LoopHead
      BY <3>2 DEF SdlEnters, NativeReturns, LoopHead
    <3>. QED
      BY <2>2, <3>1, <3>2
  <2>3. CASE \E t \in Threads : GlCheck(t) \/ GlInitialize(t)
    BY <2>3, Zenon DEF GlCheck, GlInitialize
  <2>. QED
    BY <2>1, <2>2, <2>3 DEF StartNext
<1>2. CASE RequireBridges
  <2>1. ASSUME NEW name \in missing PROVE Bridge(name) = "NULL" /\ name \in Checked
    <3>1. name \in Exported /\ name \notin Derived
      BY <2>1 DEF BridgeInv, Exported, Derived
    <3>. QED
      BY <2>1, <3>1 DEF Bridge, Checked
  <2>2. CASE missing = {}
    BY <1>1, <2>2 DEF BridgeInv
  <2>3. CASE missing # {}
    <3>1. done' = done
      BY <1>2, <2>1, <2>3 DEF RequireBridges
    <3>. QED
      BY <1>1, <3>1 DEF BridgeInv
  <2>. QED
    BY <2>2, <2>3
<1>3. ASSUME "require_sdl_input_bridges" \in done' => "require_sdl_input_bridges" \in done
      PROVE  BridgeInv'
  BY <1>1, <1>3 DEF BridgeInv
<1>4. CASE PlainStage
  BY <1>3, <1>4 DEF PlainStage, Complete
<1>5. CASE AppEvent \/ SettingsLoad \/ GlReturns \/ LaunchThread \/ Delay
  <2>1. stage # "require_sdl_input_bridges"
    BY <1>5 DEF AppEvent, SettingsLoad, GlReturns, LaunchThread, Delay
  <2>2. done' = done \/ done' = done \cup {stage}
    BY <1>5 DEF AppEvent, SettingsLoad, GlReturns, LaunchThread, Delay, Complete
  <2>. QED
    BY <1>3, <2>1, <2>2
<1>6. CASE \/ SdlEnters \/ NativeReturns \/ LoopHead
           \/ \E t \in Threads : GlCheck(t) \/ GlInitialize(t)
  BY <1>3, <1>6 DEF SdlEnters, NativeReturns, LoopHead, GlCheck, GlInitialize
<1>. QED
  BY <1>2, <1>4, <1>5, <1>6 DEF StartNext

LEMMA StartInvKept ==
  ASSUME StartInv, [StartNext]_startVars
  PROVE  StartInv'
<1>1. CASE StartNext
  BY <1>1, MainProgresses, SdlKept, GlKept, BridgesKept DEF StartInv
<1>2. CASE UNCHANGED startVars
  BY <1>2 DEF startVars, StartInv, Progress, SdlInv, GlInv, BridgeInv
<1>. QED
  BY <1>1, <1>2

LEMMA StartInvImplies == StartInv => StartsInOrder
<1>. SUFFICES ASSUME StartInv PROVE StartsInOrder
  OBVIOUS
<1>1. EngineIsPrepared
  BY StagesInOrder DEF StartInv, SdlInv, EngineIsPrepared
<1>2. VglOnce
  BY DEF StartInv, GlInv, VglOnce
<1>3. SurfaceFindsEntry
  BY StagesInOrder DEF StartInv, SdlInv, SurfaceFindsEntry
<1>4. BridgesAreCode
  BY DEF StartInv, BridgeInv, BridgesAreCode, Bridge, Exported, Derived
<1>. QED
  BY <1>1, <1>2, <1>3, <1>4 DEF StartsInOrder


------------------------------------------------------------------------------
(* The EGL stubs.                                                          *)

\* The attributes of the only configuration and surface add up.
LEMMA SurfaceAddsUp == SurfaceIsAnnounced
BY DEF SurfaceIsAnnounced, ConfigAddsUp, eglGetConfigAttrib, eglQuerySurface, EglWidth, EglHeight


------------------------------------------------------------------------------
(* The shaders.                                                            *)

TextKinds == {"source", "cut", "overread", "dummy"}
ShaderKinds == TextKinds \cup {"none", "binary", "broken"}
Contents == Sources \cup ShaderKinds \cup {"absent", "truncated"}
Loaded == [kind : ShaderKinds, of : Contents \cup {NoSource}]

ShaderTyped ==
  /\ next_shader_fname \in Sources \cup {NoSource}
  /\ loaded \in [ShaderIds -> Loaded]
  /\ given \in [ShaderIds -> Sources \cup {NoSource}]
  /\ \A sh \in ShaderIds : loaded[sh].kind \in TextKinds => loaded[sh].of \in Sources
  /\ gxp \in [Sources -> Contents]
  /\ saving \subseteq [to : Sources, what : Loaded]
  /\ \A s \in saving : s.what.kind = "source" => s.what.of \in Sources
  /\ \A s, r \in saving : s = r

\* A file is cut short while it is saved, or by a kill.
CutShort ==
  /\ \A t \in Sources : gxp[t] = "truncated" => killed \/ \E s \in saving : s.to = t
  /\ \A sh \in ShaderIds : loaded[sh].kind = "broken" => killed

\* What a shader without a compile under way is made of, but for a broken file.
Settled(sh) ==
  /\ loaded[sh].kind \in TextKinds => sh \in ran
  /\ loaded[sh].kind = "binary" => sh \notin ran

\* The flag is set only between a source and its compile, and then there is
\* nothing to compile; when it is not, there is a text.
FlagInv ==
  build # "GXP" /\ paired =>
    /\ \A sh, other \in pending : sh = other
    /\ \A sh \in ShaderIds \ pending : Settled(sh)
    /\ pending = {} => ~skip_next_compile
    /\ \A sh \in pending : skip_next_compile => Settled(sh)
    /\ \A sh \in pending : ~skip_next_compile => loaded[sh].kind \in TextKinds

\* The dump that follows saves the text it is named after.
DumpInv ==
  build = "GLSL dump" /\ paired =>
    /\ \A sh \in pending :
         ~skip_next_compile => loaded[sh] = [kind |-> "source", of |-> next_shader_fname]
    /\ \A s \in saving : s.what = [kind |-> "source", of |-> s.to]
    /\ \A t \in Sources : gxp[t] \in {"absent", t, "truncated"}

\* In the builds for GLSL nothing is translated, so that a shader is made of the
\* text the engine gave, or of a binary saved under its name.
GivenInv ==
  build \in {"GLSL", "GLSL dump"} =>
    /\ \A t \in Sources : cg[t] = "absent"
    /\ paired => \A sh \in ShaderIds : loaded[sh].kind # "broken" =>
         loaded[sh].kind \in {"none", "source", "binary"} /\ loaded[sh].of = given[sh]

ShaderInv ==
  /\ pending \subseteq ShaderIds
  /\ ShaderTyped /\ CutShort /\ FlagInv /\ DumpInv /\ GivenInv

LEMMA ShaderInvInit == ShaderInit => ShaderInv
<1>. SUFFICES ASSUME ShaderInit PROVE ShaderInv
  OBVIOUS
<1>0. loaded = [sh \in ShaderIds |-> Unsourced] /\ saving = {} /\ pending = {}
  BY DEF ShaderInit
<1>1. gxp \in [Sources -> Contents] /\ \A t \in Sources : gxp[t] \in {"absent", t}
  <2>1. CASE gxp \in [Sources -> {"absent"}]
    BY <2>1 DEF Contents
  <2>2. CASE \E S \in SUBSET Sources : gxp = [t \in Sources |-> IF t \in S THEN t ELSE "absent"]
    BY <2>2 DEF Contents
  <2>. QED
    BY <2>1, <2>2 DEF ShaderInit
<1>2. ShaderTyped
  <2>1. Unsourced \in Loaded /\ Unsourced.kind = "none"
    BY DEF Unsourced, Loaded, ShaderKinds
  <2>2. next_shader_fname = NoSource
    BY DEF ShaderInit
  <2>. QED
    BY <1>0, <1>1, <2>1, <2>2 DEF ShaderTyped, ShaderInit, TextKinds
<1>3. CutShort
  BY <1>0, <1>1, ShaderAssumption DEF CutShort, Unsourced
<1>4. FlagInv
  <2>1. \A sh \in ShaderIds : Settled(sh)
    BY <1>0 DEF Settled, Unsourced, TextKinds
  <2>2. ~skip_next_compile
    BY DEF ShaderInit
  <2>. QED
    BY <1>0, <2>1, <2>2 DEF FlagInv
<1>5. DumpInv
  BY <1>0, <1>1 DEF DumpInv
<1>6. GivenInv
  <2>0. given = [sh \in ShaderIds |-> NoSource]
    BY DEF ShaderInit
  <2>1. \A sh \in ShaderIds :
          loaded[sh].kind = "none" /\ loaded[sh].of = NoSource /\ given[sh] = NoSource
    BY <1>0, <2>0 DEF Unsourced
  <2>2. CASE build \in {"GLSL", "GLSL dump"}
    <3>1. cg \in [Sources -> {"absent"}]
      BY <2>2 DEF ShaderInit
    <3>. QED
      BY <2>1, <3>1 DEF GivenInv
  <2>. QED
    BY <2>2 DEF GivenInv
<1>. QED
  BY <1>0, <1>2, <1>3, <1>4, <1>5, <1>6 DEF ShaderInv

\* What the three ways to give a shader a source have in common, for all that
\* is proved of them: no save is under way, the files stay, and the flag.
LEMMA SourceGiven ==
  ASSUME NEW sh \in ShaderIds, NEW t \in Sources, NEW what \in Loaded, NEW skip, ShaderInv,
         saving = {}, Sourced(sh, t, what, skip), UNCHANGED <<build, gxp, cg, saving, killed>>,
         next_shader_fname' \in Sources \cup {NoSource},
         what.kind \in TextKinds => what.of \in Sources,
         what.kind = "broken" => killed,
         build # "GXP" /\ ~skip_next_compile => (skip <=> what.kind \notin TextKinds),
         build = "GLSL dump" /\ ~skip => what = [kind |-> "source", of |-> next_shader_fname'],
         build \in {"GLSL", "GLSL dump"} /\ paired /\ what.kind # "broken" =>
            what.kind \in {"source", "binary"} /\ what.of = t
  PROVE  ShaderInv'
<1>0. /\ loaded' = [loaded EXCEPT ![sh] = what] /\ ran' = ran \ {sh} /\ pending' = {sh}
      /\ loaded'[sh] = what /\ \A o \in ShaderIds : o # sh => loaded'[o] = loaded[o]
  BY DEF Sourced, ShaderInv, ShaderTyped
<1>1. ShaderTyped'
  <2>1. loaded' \in [ShaderIds -> Loaded]
    BY <1>0 DEF ShaderInv, ShaderTyped
  <2>2. \A o \in ShaderIds : loaded'[o].kind \in TextKinds => loaded'[o].of \in Sources
    BY <1>0 DEF ShaderInv, ShaderTyped
  <2>3. given' \in [ShaderIds -> Sources \cup {NoSource}]
    BY DEF Sourced, ShaderInv, ShaderTyped
  <2>. QED
    BY <2>1, <2>2, <2>3 DEF ShaderInv, ShaderTyped
<1>2. CutShort'
  BY <1>0 DEF ShaderInv, CutShort
<1>3. FlagInv'
  <2>. SUFFICES ASSUME build' # "GXP", paired'
                PROVE  FlagInv'
    BY DEF FlagInv
  <2>1. build # "GXP" /\ paired /\ pending = {}
    BY DEF Sourced
  <2>2. ~skip_next_compile /\ \A o \in ShaderIds : Settled(o)
    BY <2>1 DEF ShaderInv, FlagInv
  <2>3. \A o \in ShaderIds : o # sh => Settled(o)'
    BY <1>0, <2>2 DEF Settled
  <2>4. skip_next_compile' = skip
    BY DEF Sourced
  <2>5. skip <=> what.kind \notin TextKinds
    BY <2>1, <2>2
  <2>6. what.kind \notin TextKinds => Settled(sh)'
    BY <1>0 DEF Settled
  <2>. QED
    BY <1>0, <2>3, <2>4, <2>5, <2>6 DEF FlagInv
<1>4. DumpInv'
  <2>. SUFFICES ASSUME build' = "GLSL dump", paired'
                PROVE  DumpInv'
    BY DEF DumpInv
  <2>1. build = "GLSL dump" /\ paired
    BY DEF Sourced
  <2>2. skip_next_compile' = skip
    BY DEF Sourced
  <2>3. \A o \in pending' :
          ~skip_next_compile' => loaded'[o] = [kind |-> "source", of |-> next_shader_fname']
    BY <1>0, <2>1, <2>2
  <2>. QED
    BY <2>1, <2>3 DEF ShaderInv, DumpInv
<1>5. GivenInv'
  <2>1. given' = [given EXCEPT ![sh] = t] /\ (paired' => paired)
    BY DEF Sourced
  <2>2. ASSUME build \in {"GLSL", "GLSL dump"}, paired', NEW o \in ShaderIds,
               loaded'[o].kind # "broken"
        PROVE  loaded'[o].kind \in {"none", "source", "binary"} /\ loaded'[o].of = given'[o]
    <3>1. CASE o = sh
      <4>1. given'[sh] = t
        BY <2>1 DEF ShaderInv, ShaderTyped
      <4>. QED
        BY <1>0, <2>1, <2>2, <3>1, <4>1
    <3>2. CASE o # sh
      <4>1. given'[o] = given[o]
        BY <2>1, <3>2 DEF ShaderInv, ShaderTyped
      <4>. QED
        BY <1>0, <2>1, <2>2, <3>2, <4>1 DEF ShaderInv, GivenInv
    <3>. QED
      BY <3>1, <3>2
  <2>. QED
    BY <2>2 DEF ShaderInv, GivenInv
<1>. QED
  BY <1>0, <1>1, <1>2, <1>3, <1>4, <1>5 DEF ShaderInv

LEMMA CachedKept ==
  ASSUME ShaderInv, NEW sh \in ShaderIds, NEW t \in Sources, SourceCached(sh, t)
  PROVE  ShaderInv'
<1>. DEFINE what == FromCache(sh, t)
            skip == skip_next_compile \/ build # "GXP"
<1>1. gxp[t] \in Contents /\ saving = {}
  BY DEF ShaderInv, ShaderTyped, SourceCached
<1>2. what \in Loaded /\ what.kind \in {"broken", "binary"}
  BY <1>1 DEF FromCache, Loaded, ShaderKinds, TextKinds
<1>3. what.kind = "broken" => killed
  BY <1>1 DEF ShaderInv, CutShort, FromCache
<1>4. Sourced(sh, t, what, skip) /\ UNCHANGED <<build, next_shader_fname, gxp, cg, saving, killed>>
  BY DEF SourceCached
<1>5. next_shader_fname \in Sources \cup {NoSource}
  BY DEF ShaderInv, ShaderTyped
<1>6. build # "GXP" => skip
  OBVIOUS
<1>7. what.kind \notin TextKinds
  BY <1>2 DEF TextKinds
<1>8. build \in {"GLSL", "GLSL dump"} /\ paired /\ what.kind # "broken" =>
         what.kind \in {"source", "binary"} /\ what.of = t
  BY DEF SourceCached, ShaderInv, DumpInv, FromCache
<1>. HIDE DEF what, skip
<1>. QED
  BY <1>1, <1>2, <1>3, <1>4, <1>5, <1>6, <1>7, <1>8, SourceGiven

LEMMA TextKept ==
  ASSUME ShaderInv, NEW sh \in ShaderIds, NEW t \in Sources, SourceText(sh, t)
  PROVE  ShaderInv'
<1>. DEFINE what == [kind |-> Passed(t), of |-> t]
            skip == IF build = "CG dump" THEN FALSE ELSE skip_next_compile
<1>1. saving = {} /\ Sourced(sh, t, what, skip) /\ UNCHANGED <<build, gxp, cg, saving, killed>>
  BY DEF SourceText
<1>2. what \in Loaded /\ what.kind \in TextKinds /\ what.of = t
  BY DEF Loaded, ShaderKinds, TextKinds, Contents, Passed
<1>0. build \in {"GLSL", "GLSL dump"} => what = [kind |-> "source", of |-> t]
  BY DEF ShaderInv, GivenInv, Passed
<1>3. next_shader_fname' \in Sources \cup {NoSource}
  BY DEF SourceText, NextName, ShaderInv, ShaderTyped
<1>4. build = "GLSL dump" => what = [kind |-> "source", of |-> next_shader_fname']
  BY <1>0 DEF SourceText, NextName
<1>6. what.kind # "broken"
  BY <1>2 DEF TextKinds
<1>7. build \in {"GLSL", "GLSL dump"} => what.kind = "source"
  BY <1>0
<1>5. ~skip_next_compile => ~skip
  OBVIOUS
<1>. HIDE DEF what, skip
<1>. QED
  BY <1>1, <1>2, <1>3, <1>4, <1>5, <1>6, <1>7, SourceGiven

LEMMA DummyKept ==
  ASSUME ShaderInv, NEW sh \in ShaderIds, NEW t \in Sources, SourceDummy(sh, t)
  PROVE  ShaderInv'
<1>. DEFINE what == [kind |-> "dummy", of |-> t]
            skip == IF build = "CG dump" THEN FALSE ELSE skip_next_compile
<1>1. /\ saving = {} /\ Sourced(sh, t, what, skip) /\ build \notin {"GLSL", "GLSL dump"}
      /\ UNCHANGED <<build, next_shader_fname, gxp, cg, saving, killed>>
  BY DEF SourceDummy
<1>2. /\ what \in Loaded /\ what.kind \in TextKinds /\ what.kind # "broken"
      /\ what.of \in Sources
  BY DEF Loaded, ShaderKinds, TextKinds, Contents
<1>3. next_shader_fname \in Sources \cup {NoSource}
  BY DEF ShaderInv, ShaderTyped
<1>4. ~skip_next_compile => ~skip
  OBVIOUS
<1>. HIDE DEF what, skip
<1>. QED
  BY <1>1, <1>2, <1>3, <1>4, SourceGiven


LEMMA NullKept ==
  ASSUME ShaderInv, NEW sh \in ShaderIds, SourceNull(sh)
  PROVE  ShaderInv'
<1>1. /\ pending' = {sh}
      /\ UNCHANGED <<build, loaded, given, ran, next_shader_fname, gxp, cg, saving, killed>>
  BY DEF SourceNull
<1>2. skip_next_compile' /\ (paired' => paired /\ pending = {})
  BY DEF SourceNull
<1>3. ShaderTyped' /\ CutShort' /\ GivenInv'
  BY <1>1, <1>2 DEF ShaderInv, ShaderTyped, CutShort, GivenInv
<1>4. FlagInv'
  <2>. SUFFICES ASSUME build' # "GXP", paired'
                PROVE  FlagInv'
    BY DEF FlagInv
  <2>1. \A o \in ShaderIds : Settled(o)
    BY <1>1, <1>2 DEF ShaderInv, FlagInv
  <2>2. \A o \in ShaderIds : Settled(o)'
    BY <1>1, <2>1 DEF Settled
  <2>. QED
    BY <1>1, <1>2, <2>2 DEF FlagInv
<1>5. DumpInv'
  BY <1>1, <1>2 DEF ShaderInv, DumpInv
<1>. QED
  BY <1>1, <1>3, <1>4, <1>5 DEF ShaderInv

LEMMA CompileKept ==
  ASSUME ShaderInv, NEW sh \in ShaderIds, Compile(sh)
  PROVE  ShaderInv'
<1>1. /\ saving = {} /\ pending' = {} /\ UNCHANGED <<build, next_shader_fname, loaded, given, cg, killed>>
      /\ ran \subseteq ran' /\ (Compiles(sh) => sh \in ran')
      /\ \A o \in ran' : o \in ran \/ (o = sh /\ Compiles(sh))
  BY DEF Compile
<1>2. paired' => paired /\ pending = {sh}
  BY DEF Compile
<1>3. \/ saving' = {} /\ gxp' = gxp
      \/ /\ next_shader_fname \in Sources /\ Compiles(sh)
         /\ saving' = {[to |-> next_shader_fname, what |-> loaded[sh]]}
         /\ gxp' = [gxp EXCEPT ![next_shader_fname] = "truncated"]
  BY DEF Compile, ShaderInv, ShaderTyped
<1>4. ShaderTyped'
  <2>1. saving' \subseteq [to : Sources, what : Loaded]
    BY <1>3 DEF ShaderInv, ShaderTyped
  <2>2. gxp' \in [Sources -> Contents]
    BY <1>3 DEF ShaderInv, ShaderTyped, Contents
  <2>3. \A s \in saving' : s.what.kind = "source" => s.what.of \in Sources
    BY <1>3 DEF ShaderInv, ShaderTyped, TextKinds
  <2>4. \A s, r \in saving' : s = r
    BY <1>3
  <2>. QED
    BY <1>1, <2>1, <2>2, <2>3, <2>4 DEF ShaderInv, ShaderTyped
<1>5. CutShort'
  <2>1. ASSUME NEW t \in Sources, gxp'[t] = "truncated"
        PROVE  killed' \/ \E s \in saving' : s.to = t
    <3>1. CASE gxp[t] = "truncated"
      BY <1>1, <3>1 DEF ShaderInv, CutShort
    <3>2. CASE gxp[t] # "truncated"
      <4>1. saving' = {[to |-> next_shader_fname, what |-> loaded[sh]]} /\ t = next_shader_fname
        BY <1>3, <2>1, <3>2 DEF ShaderInv, ShaderTyped
      <4>. QED
        BY <4>1
    <3>. QED
      BY <3>1, <3>2
  <2>. QED
    BY <1>1, <2>1 DEF ShaderInv, CutShort
<1>6. FlagInv'
  <2>. SUFFICES ASSUME build' # "GXP", paired'
                PROVE  FlagInv'
    BY DEF FlagInv
  <2>1. build # "GXP" /\ paired /\ pending = {sh}
    BY <1>1, <1>2
  <2>2. ~skip_next_compile'
    BY <2>1 DEF Compile
  <2>3. ASSUME NEW o \in ShaderIds, o # sh
        PROVE  Settled(o)'
    <3>1. Settled(o)
      BY <2>1, <2>3 DEF ShaderInv, FlagInv
    <3>. QED
      BY <1>1, <2>3, <3>1 DEF Settled
  <2>4. CASE skip_next_compile
    <3>1. Settled(sh) /\ ~Compiles(sh)
      BY <2>1, <2>4 DEF ShaderInv, FlagInv, Compiles
    <3>2. Settled(sh)'
      BY <1>1, <3>1 DEF Settled
    <3>. QED
      BY <1>1, <2>2, <2>3, <3>2 DEF FlagInv
  <2>5. CASE ~skip_next_compile
    <3>1. loaded[sh].kind \in TextKinds /\ sh \in ran'
      BY <1>1, <2>1, <2>5 DEF ShaderInv, FlagInv, Compiles
    <3>2. Settled(sh)'
      BY <1>1, <3>1 DEF Settled, TextKinds
    <3>. QED
      BY <1>1, <2>2, <2>3, <3>2 DEF FlagInv
  <2>. QED
    BY <2>4, <2>5
<1>7. DumpInv'
  <2>. SUFFICES ASSUME build' = "GLSL dump", paired'
                PROVE  DumpInv'
    BY DEF DumpInv
  <2>1. build = "GLSL dump" /\ paired /\ pending = {sh}
    BY <1>1, <1>2
  <2>2. Compiles(sh) => loaded[sh] = [kind |-> "source", of |-> next_shader_fname]
    BY <2>1 DEF ShaderInv, DumpInv, Compiles
  <2>3. ASSUME NEW s \in saving'
        PROVE  s.what = [kind |-> "source", of |-> s.to]
    <3>1. Compiles(sh) /\ s = [to |-> next_shader_fname, what |-> loaded[sh]]
      BY <1>3, <2>3
    <3>2. s.to = next_shader_fname /\ s.what = loaded[sh]
      BY <3>1
    <3>. QED
      BY <2>2, <3>1, <3>2
  <2>4. \A t \in Sources : gxp'[t] \in {"absent", t, "truncated"}
    BY <1>3, <2>1 DEF ShaderInv, ShaderTyped, DumpInv
  <2>. QED
    BY <1>1, <2>3, <2>4 DEF DumpInv
<1>8. GivenInv'
  BY <1>1, <1>2 DEF ShaderInv, GivenInv
<1>. QED
  BY <1>1, <1>4, <1>5, <1>6, <1>7, <1>8 DEF ShaderInv

LEMMA SaveEndKept ==
  ASSUME ShaderInv, SaveEnds
  PROVE  ShaderInv'
<1>1. PICK save \in saving :
        gxp' = [gxp EXCEPT ![save.to] = MadeFrom(save.what)]
  BY DEF SaveEnds
<1>2. /\ saving' = {}
      /\ UNCHANGED <<build, skip_next_compile, next_shader_fname, loaded, given, ran, cg,
                     pending, paired, killed>>
  BY DEF SaveEnds
<1>3. /\ save.to \in Sources /\ (save.what.kind = "source" => save.what.of \in Sources)
      /\ \A s \in saving : s = save
  BY <1>1 DEF ShaderInv, ShaderTyped
<1>4. PICK c : c \in Sources \cup ShaderKinds /\ gxp' = [gxp EXCEPT ![save.to] = c]
              /\ (save.what.kind = "source" => c = save.what.of)
  <2>1. save.what.kind \in ShaderKinds
    BY <1>1 DEF ShaderInv, ShaderTyped, Loaded
  <2>. QED
    BY <1>1, <1>3, <2>1 DEF MadeFrom
<1>5. ShaderTyped'
  BY <1>2, <1>3, <1>4 DEF ShaderInv, ShaderTyped, Contents
<1>6. CutShort'
  <2>1. c # "truncated"
    BY <1>4, ShaderAssumption DEF ShaderKinds, TextKinds
  <2>2. \A t \in Sources : gxp'[t] = "truncated" => t # save.to /\ gxp[t] = "truncated"
    BY <1>3, <1>4, <2>1 DEF ShaderInv, ShaderTyped
  <2>3. \A t \in Sources : gxp'[t] = "truncated" => killed
    BY <1>3, <2>2 DEF ShaderInv, CutShort
  <2>. QED
    BY <1>2, <2>3 DEF ShaderInv, CutShort
<1>7. FlagInv'
  BY <1>2 DEF ShaderInv, FlagInv, Settled
<1>8. DumpInv'
  <2>. SUFFICES ASSUME build' = "GLSL dump", paired'
                PROVE  DumpInv'
    BY DEF DumpInv
  <2>1. build = "GLSL dump" /\ paired
    BY <1>2
  <2>2. c = save.to
    <3>1. save.what = [kind |-> "source", of |-> save.to]
      BY <1>1, <2>1 DEF ShaderInv, DumpInv
    <3>2. PICK f : f = save.to
      OBVIOUS
    <3>3. save.what = [kind |-> "source", of |-> f]
      BY <3>1, <3>2
    <3>4. save.what.kind = "source" /\ save.what.of = f
      BY ONLY <3>3
    <3>. QED
      BY <1>4, <3>2, <3>4
  <2>3. \A t \in Sources : gxp'[t] \in {"absent", t, "truncated"}
    BY <1>3, <1>4, <2>1, <2>2 DEF ShaderInv, ShaderTyped, DumpInv
  <2>. QED
    BY <1>2, <2>1, <2>3 DEF ShaderInv, DumpInv
<1>9. GivenInv' /\ pending' \subseteq ShaderIds
  BY <1>2 DEF ShaderInv, GivenInv
<1>. QED
  BY <1>5, <1>6, <1>7, <1>8, <1>9 DEF ShaderInv

LEMMA RestartKept ==
  ASSUME ShaderInv, Restart
  PROVE  ShaderInv'
<1>1. /\ next_shader_fname' = NoSource /\ loaded' = [sh \in ShaderIds |-> Unsourced]
      /\ given' = [sh \in ShaderIds |-> NoSource]
      /\ saving' = {} /\ pending' = {} /\ UNCHANGED <<build, gxp, cg>>
  BY DEF Restart
<1>2. Unsourced \in Loaded /\ Unsourced.kind = "none" /\ Unsourced.of = NoSource
  BY DEF Unsourced, Loaded, ShaderKinds
<1>3. \A sh \in ShaderIds : loaded'[sh] = Unsourced
  BY <1>1
<1>4. ShaderTyped'
  <2>1. loaded' \in [ShaderIds -> Loaded]
    BY <1>1, <1>2
  <2>. QED
    BY <1>1, <1>2, <1>3, <2>1 DEF ShaderInv, ShaderTyped, TextKinds
<1>5. CutShort'
  <2>1. (killed \/ saving # {}) => killed'
    BY DEF Restart
  <2>2. \A t \in Sources : gxp[t] = "truncated" => killed \/ saving # {}
    BY DEF ShaderInv, CutShort
  <2>. QED
    BY <1>1, <1>2, <1>3, <2>1, <2>2 DEF CutShort
<1>6. FlagInv'
  <2>1. ~skip_next_compile'
    BY DEF Restart
  <2>2. \A sh \in ShaderIds : Settled(sh)'
    BY <1>2, <1>3 DEF Settled, TextKinds
  <2>. QED
    BY <1>1, <2>1, <2>2 DEF FlagInv
<1>7. DumpInv'
  BY <1>1 DEF Restart, ShaderInv, DumpInv
<1>8. GivenInv'
  BY <1>1, <1>2, <1>3 DEF ShaderInv, GivenInv
<1>. QED
  BY <1>1, <1>4, <1>5, <1>6, <1>7, <1>8 DEF ShaderInv

LEMMA ShaderInvKept ==
  ASSUME ShaderInv, [ShaderNext]_shaderVars
  PROVE  ShaderInv'
<1>1. CASE UNCHANGED shaderVars
  BY <1>1 DEF shaderVars, ShaderInv, ShaderTyped, CutShort, FlagInv, Settled, DumpInv, GivenInv
<1>. QED
  BY <1>1, NullKept, CompileKept, CachedKept, TextKept, DummyKept, SaveEndKept, RestartKept
     DEF ShaderNext

LEMMA ShaderInvImplies == ShaderInv => ShadersAreTrue
<1>. SUFFICES ASSUME ShaderInv PROVE ShadersAreTrue
  OBVIOUS
<1>1. CacheIsTrue
  BY DEF ShaderInv, CutShort, DumpInv, CacheIsTrue
<1>2. CompiledAsGiven
  BY DEF ShaderInv, CutShort, FlagInv, GivenInv, Settled, TextKinds, CompiledAsGiven
<1>. QED
  BY <1>1, <1>2 DEF ShaderInv, ShadersAreTrue


------------------------------------------------------------------------------
(* The bindings.                                                           *)

BindInv ==
  /\ \A o \in objects : o.kind \in Kinds /\ o.maker \in Makers(o.kind) /\ o.lib = Library(o.maker)
  /\ BindingsAgree

\* What the bridge answers itself is in no row of stdio's.
LEMMA BridgeRows ==
  ASSUME NEW row \in ThreadRows \cup IoRows
  PROVE  Library(row) = "bridge" /\ LibraryOf(row) = "bridge"
<1>0. row \notin SwitchedRows
  BY DEF ThreadRows, MutexRows, IoRows, SwitchedRows
<1>1. Library(row) = "bridge"
  BY <1>0 DEF Library
<1>. QED
  BY <1>1 DEF LibraryOf

\* A stream is made, and used, by the library the build has chosen, or by libc.
LEMMA StreamRows ==
  /\ \A row \in SwitchedRows : Library(row) = IF sce_io THEN "SceLibc" ELSE "libc"
  /\ \A row \in LibcStreams \cup LibcStreamUsers : Library(row) = "libc"
<1>1. /\ \A row \in SwitchedRows : row \notin ThreadRows \cup IoRows
      /\ \A row \in LibcStreams \cup LibcStreamUsers :
           row \notin ThreadRows \cup IoRows /\ row \notin SwitchedRows
  BY DEF SwitchedRows, LibcStreams, LibcStreamUsers, ThreadRows, MutexRows, IoRows
<1>. QED
  BY <1>1 DEF Library

\* Who makes an object of a kind, and who is handed it, are of one library,
\* but for what libc keeps.
LEMMA MakerAndUserAgree ==
  ASSUME NEW kind \in Kinds, NEW maker \in Makers(kind), NEW user \in Users(kind),
         LibraryOf(user) # Library(maker)
  PROVE  \/ maker = "lstat"
         \/ sce_io /\ (maker \in LibcStreams <=> user \notin LibcStreamUsers)
<1>1. CASE kind = "FILE"
  <2>1. maker \in {"fopen", "fdopen", "freopen"} \/ maker \in LibcStreams
    BY <1>1 DEF Makers
  <2>2. maker \in SwitchedRows \/ maker \in LibcStreams
    BY <2>1 DEF SwitchedRows
  <2>3. /\ user \in SwitchedRows \/ user \in LibcStreamUsers
        /\ user # "engine"
    BY <1>1 DEF Users, SwitchedRows, LibcStreamUsers
  <2>4. LibraryOf(user) = Library(user)
    BY <2>3 DEF LibraryOf
  <2>. QED
    BY <2>2, <2>3, <2>4, StreamRows
<1>2. CASE kind = "DIR"
  <2>1. maker = "opendir" /\ user \in {"readdir", "readdir_r", "closedir"}
    BY <1>2 DEF Makers, Users
  <2>2. maker \in IoRows /\ user \in IoRows /\ user # "engine"
    BY <2>1 DEF IoRows
  <2>. QED
    BY BridgeRows, <2>2
<1>3. CASE kind = "stat"
  <2>1. maker \in {"stat", "fstat", "lstat"} /\ user = "engine"
    BY <1>3 DEF Makers, Users
  <2>2. maker # "lstat" => maker \in IoRows
    BY <2>1 DEF IoRows
  <2>. QED
    BY BridgeRows, <2>1, <2>2 DEF LibraryOf
<1>4. CASE kind \notin {"FILE", "DIR", "stat"}
  <2>1. maker \in ThreadRows
    BY <1>4 DEF Makers, ThreadRows, MutexRows, Kinds
  <2>2. user \in ThreadRows /\ user # "engine"
    BY <1>4 DEF Users, ThreadRows, MutexRows, Kinds
  <2>. QED
    BY BridgeRows, <2>1, <2>2
<1>. QED
  BY <1>1, <1>2, <1>3, <1>4

LEMMA BindInvInit == BindInit => BindInv
BY DEF BindInit, BindInv, BindingsAgree

LEMMA BindInvKept ==
  ASSUME BindInv, [BindNext]_bindVars
  PROVE  BindInv'
<1>1. ASSUME NEW kind \in Kinds, NEW maker \in Makers(kind), Make(kind, maker)
      PROVE  BindInv'
  <2>1. UNCHANGED <<sce_io, clashes>>
    BY <1>1 DEF Make
  <2>2. \A o \in objects' : o.kind = kind /\ o.maker = maker /\ o.lib = Library(maker)
    BY <1>1 DEF Make
  <2>3. Library(maker)' = Library(maker)
    BY <2>1 DEF Library
  <2>4. \A o \in objects' :
          o.kind \in Kinds /\ o.maker \in Makers(o.kind) /\ o.lib = Library(o.maker)'
    BY <1>1, <2>2, <2>3 
  <2>5. BindingsAgree'
    BY <2>1 DEF BindInv, BindingsAgree
  <2>. QED
    BY <2>4, <2>5 DEF BindInv
<1>2. ASSUME NEW o \in objects, NEW user \in Users(o.kind), Use(o, user)
      PROVE  BindInv'
  <2>1. UNCHANGED <<sce_io, objects>>
    BY <1>2 DEF Use
  <2>2. o.kind \in Kinds /\ o.maker \in Makers(o.kind) /\ o.lib = Library(o.maker)
    BY DEF BindInv
  <2>3. \A c \in clashes' : c[1] = o.maker /\ c[2] = user /\ LibraryOf(user) # Library(o.maker)
    BY <1>2, <2>2 DEF Use
  <2>4. BindingsAgree'
    BY <2>1, <2>2, <2>3, MakerAndUserAgree DEF BindingsAgree
  <2>5. \A p : Library(p)' = Library(p)
    BY <2>1 DEF Library
  <2>. QED
    BY <2>1, <2>4, <2>5 DEF BindInv
<1>3. CASE UNCHANGED bindVars
  BY <1>3 DEF bindVars, BindInv, BindingsAgree, Library
<1>. QED
  BY <1>1, <1>2, <1>3 DEF BindNext

------------------------------------------------------------------------------
(* The units together.                                                     *)

\* Whichever unit runs, the others keep still.
LEMMA OneRuns ==
  [RuntimeNext]_runtimeVars =>
    /\ [StartNext]_startVars /\ [ShaderNext]_shaderVars
    /\ [FrameNext \/ TextureNext]_<<frameVars, poolVars>>
    /\ [PatchNext]_patchVars /\ [BindNext]_bindVars
<1>. SUFFICES ASSUME [RuntimeNext]_runtimeVars
              PROVE  /\ [StartNext]_startVars /\ [ShaderNext]_shaderVars
                     /\ [FrameNext \/ TextureNext]_<<frameVars, poolVars>>
                     /\ [PatchNext]_patchVars /\ [BindNext]_bindVars
  OBVIOUS
<1>1. CASE RuntimeNext
  <2>1. FrameNext \/ TextureNext \/ (UNCHANGED frameVars /\ UNCHANGED poolVars)
    BY <1>1, Zenon DEF RuntimeNext, Others
  <2>2. /\ [StartNext]_startVars /\ [ShaderNext]_shaderVars
        /\ [PatchNext]_patchVars /\ [BindNext]_bindVars
    BY <1>1, Zenon DEF RuntimeNext, Others
  <2>. QED
    BY <2>1, <2>2
<1>2. CASE UNCHANGED runtimeVars
  BY <1>2 DEF runtimeVars
<1>. QED
  BY <1>1, <1>2

RuntimeInv == StartInv /\ ShaderInv /\ FrameInv /\ BindInv

LEMMA RuntimeKept == RuntimeSpec => []RuntimeInv
<1>1. RuntimeInit => RuntimeInv
  BY StartInvInit, ShaderInvInit, FramesStart, BindInvInit DEF RuntimeInit, RuntimeInv
<1>2. RuntimeInv /\ [RuntimeNext]_runtimeVars => RuntimeInv'
  BY OneRuns, StartInvKept, ShaderInvKept, FramesKeep, BindInvKept DEF RuntimeInv
<1>. QED
  BY <1>1, <1>2, PTL DEF RuntimeSpec

\* No code of the engine runs before its image is ready, vitaGL is initialized
\* once by two threads that share no lock, the size of the surface reaches an
\* engine that was entered and no bridge is missing, whichever stage fails and
\* whatever the latency, as long as it is below the delay.
THEOREM StartUpIsOrdered == RuntimeSpec => []StartsInOrder
BY RuntimeKept, StartInvImplies, PTL DEF RuntimeInv

\* A dump build's GLSL cache holds each shader's own binary, a shader is made of
\* the text given for it in the two builds for GLSL, a frame is drawn over a GL
\* state that comes back, and no decoded copy is left, for any shaders and
\* sources, killed at any time.
THEOREM GraphicsStayTrue == RuntimeSpec => []GraphicsAreTrue
<1>1. RuntimeInv => GraphicsAreTrue
  BY ShaderInvImplies, FrameInvImplies, SurfaceAddsUp DEF RuntimeInv, GraphicsAreTrue
<1>. QED
  BY RuntimeKept, <1>1, PTL

\* No function is handed an object of another library but for the ones named,
\* with SceLibc's stdio and without it.
THEOREM BindingsStayAgreed == RuntimeSpec => []BindingsAgree
<1>1. RuntimeInv => BindingsAgree
  BY DEF RuntimeInv, BindInv
<1>. QED
  BY RuntimeKept, <1>1, PTL

==============================================================================
