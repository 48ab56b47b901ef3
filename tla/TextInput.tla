----------------------------- MODULE TextInput -----------------------------
(***************************************************************************)
(* The on-screen keyboard: how a text the engine asks for is taken from    *)
(* the Vita keyboard and handed to the game's Lua state.                   *)
(*                                                                         *)
(* Two threads run it.  The main thread (main.c) repeats one loop: it      *)
(* takes a request, opens the keyboard, waits for it to close, waits some  *)
(* frames, clicks into the game's edit box, waits again and queues the     *)
(* text.  The engine thread raises requests from showTextInput (java.c)    *)
(* while it handles input events, and copies a queued text into Lua from   *)
(* the next lua_pcallk (patch.c).  They share requested and busy (java.c), *)
(* buffer and ready (patch.c), bootstrap_state (main.c) and SDL's event    *)
(* queue.  One step of the model reads or writes one of these.             *)
(***************************************************************************)
EXTENDS Texts, Sequences

CONSTANTS
    RefocusDelay,  \* iterations from the keyboard's end to the refocus click
    CommitDelay,   \* iterations from that click to queueing the text
    PendingRoom,   \* bytes the main thread retains of a text
    NameRoom,      \* bytes the name buffer keeps
    MaxClicks,     \* BOUND: clicks of the player waiting in SDL's queue
    SlowPlayer     \* TRUE: the keyboard stays open until the engine has made
                   \* its next Lua call; FALSE: the engine may be arbitrarily
                   \* slow

ASSUME TextInputAssumption ==
    /\ RefocusDelay \in Nat
    /\ CommitDelay \in Nat
    /\ PendingRoom \in Nat \ {0}
    /\ NameRoom \in Nat \ {0}
    /\ NameRoom =< PendingRoom
    /\ MaxClicks \in Nat
    /\ SlowPlayer \in BOOLEAN

VARIABLES
    m,             \* where the main thread is in its loop
    ime_active,    \* the main thread's locals: the keyboard is open,
    phase,         \*   ime_delivery_phase,
    delay,         \*   ime_delivery_delay
    pending,       \*   and ime_pending_text
    dialog,        \* Sony's IME dialog: its status and its text
    msg,           \* Sony's message dialog: its status
    e,             \* where the engine thread is
    bootstrap_state,
    cause,         \* whose click the engine is handling
    clicks,        \* the clicks in SDL's event queue
    requested,     \* text_input_requested
    busy,          \* text_input_busy
    buffer,        \* pending_chargen_name, as the two halves strncpy copies
    ready,         \* pending_chargen_name_ready
    copy,          \* the engine's local copy of the buffer
    charNameEdit,  \* the Lua global bound to the edit box
    chargenName    \* chargen.name, the game's own copy

mainVars == <<ime_active, phase, delay, pending>>
flagVars == <<requested, busy>>
nameVars == <<buffer, ready>>
luaVars == <<copy, charNameEdit, chargenName>>
engineVars == <<e, bootstrap_state, cause>>
vars == <<m, mainVars, dialog, msg, engineVars, clicks, flagVars, nameVars,
          luaVars>>

Clicks == {"player", "refocus"}
Injecting == {"copy", "copy2", "assign", "clear"}

NoDialog == [status |-> "none", text |-> Empty]

Init ==
    /\ m = "top"
    /\ ime_active = FALSE
    /\ phase = 0
    /\ delay = 0
    /\ pending = Empty
    /\ dialog = NoDialog
    /\ msg = "none"
    /\ e = "created"
    /\ bootstrap_state = "NOT_STARTED"
    /\ cause = "player"
    /\ clicks = <<>>
    /\ requested = FALSE
    /\ busy = FALSE
    /\ buffer = [i \in 1..2 |-> Empty]
    /\ ready = FALSE
    /\ copy = [i \in 1..2 |-> Empty]
    /\ charNameEdit = Empty
    /\ chargenName = Empty

-----------------------------------------------------------------------------
(* The main thread: one iteration of the loop in main().                   *)

\* A slip: the session stays open.
ForgetTextInput == busy' = busy

\* bg2v_finish_text_input
FinishTextInput == busy' = FALSE

\* A slip: one frame too many is counted.
DueLate == delay < 0

\* The frames of ime_delivery_delay have passed.
Due == delay = 0

CheckBootstrap ==
    /\ m = "top"
    /\ m' = IF bootstrap_state = "RETURNED" THEN "fatal" ELSE "take"
    /\ UNCHANGED <<mainVars, dialog, msg, engineVars, clicks, flagVars,
                   nameVars, luaVars>>

\* bg2v_take_text_input_request is called and its compare-and-swap succeeds.
TakeRequest ==
    /\ m = "take"
    /\ ~ime_active
    /\ phase = 0
    /\ requested
    /\ requested' = FALSE
    /\ m' = "mark"
    /\ UNCHANGED <<mainVars, dialog, msg, engineVars, clicks, busy, nameVars,
                   luaVars>>

\* It is not called, or its compare-and-swap fails.
NoRequest ==
    /\ m = "take"
    /\ ime_active \/ phase # 0 \/ ~requested
    /\ m' = "step"
    /\ UNCHANGED <<mainVars, dialog, msg, engineVars, clicks, flagVars,
                   nameVars, luaVars>>

\* The second half of bg2v_take_text_input_request.
MarkBusy ==
    /\ m = "mark"
    /\ busy' = TRUE
    /\ m' = "open"
    /\ UNCHANGED <<mainVars, dialog, msg, engineVars, clicks, requested,
                   nameVars, luaVars>>

OpenKeyboard ==
    /\ m = "open"
    /\ dialog' = [status |-> "running", text |-> Empty]
    /\ ime_active' = TRUE
    /\ m' = "step"
    /\ UNCHANGED <<phase, delay, pending, msg, engineVars, clicks, flagVars,
                   nameVars, luaVars>>

OpenFails ==
    /\ m = "open"
    /\ FinishTextInput
    /\ m' = "step"
    /\ UNCHANGED <<mainVars, dialog, msg, engineVars, clicks, requested,
                   nameVars, luaVars>>

AwaitKeyboard ==
    /\ m = "step"
    /\ ime_active
    /\ dialog.status # "finished"
    /\ m' = "top"
    /\ UNCHANGED <<mainVars, dialog, msg, engineVars, clicks, flagVars,
                   nameVars, luaVars>>

\* get_ime_dialog_result returns a text, which is retained for delivery.
ReadText ==
    /\ m = "step"
    /\ ime_active
    /\ dialog.status = "finished"
    /\ dialog.text # Empty
    /\ pending' = Cut(dialog.text, PendingRoom)
    /\ dialog' = NoDialog
    /\ ime_active' = FALSE
    /\ phase' = 1
    /\ delay' = RefocusDelay
    /\ m' = "top"
    /\ UNCHANGED <<msg, engineVars, clicks, flagVars, nameVars, luaVars>>

\* It returns "": the keyboard was cancelled or left empty.
ReadNothing ==
    /\ m = "step"
    /\ ime_active
    /\ dialog.status = "finished"
    /\ dialog.text = Empty
    /\ pending' = Empty
    /\ dialog' = NoDialog
    /\ ime_active' = FALSE
    /\ FinishTextInput
    /\ m' = "top"
    /\ UNCHANGED <<phase, delay, msg, engineVars, clicks, requested,
                   nameVars, luaVars>>

CountDown ==
    /\ m = "step"
    /\ ~ime_active
    /\ phase # 0
    /\ ~Due
    /\ delay' = delay - 1
    /\ m' = "top"
    /\ UNCHANGED <<ime_active, phase, pending, dialog, msg, engineVars, clicks,
                   flagVars, nameVars, luaVars>>

\* bg2v_refocus_text_field: a click of our own enters SDL's queue.
Refocus ==
    /\ m = "step"
    /\ ~ime_active
    /\ phase = 1
    /\ Due
    /\ clicks' = Append(clicks, "refocus")
    /\ phase' = 2
    /\ delay' = CommitDelay
    /\ m' = "top"
    /\ UNCHANGED <<ime_active, pending, dialog, msg, engineVars, flagVars,
                   nameVars, luaVars>>

\* bg2v_queue_chargen_name is entered; an empty name is not queued.
Commit ==
    /\ m = "step"
    /\ ~ime_active
    /\ phase = 2
    /\ Due
    /\ m' = IF pending = Empty THEN "finish" ELSE "fill"
    /\ UNCHANGED <<mainVars, dialog, msg, engineVars, clicks, flagVars,
                   nameVars, luaVars>>

\* A slip: the copy is not bounded by the buffer.
StoredWhole == pending

\* What bg2v_queue_chargen_name keeps of the name.
StoredName == Cut(pending, NameRoom)

\* Its strncpy writes the buffer byte after byte, first half, second half.
Fill ==
    /\ m \in {"fill", "fill2"}
    /\ \/ /\ m = "fill"
          /\ buffer' = [buffer EXCEPT ![1] = StoredName]
          /\ m' = "fill2"
       \/ /\ m = "fill2"
          /\ buffer' = [buffer EXCEPT ![2] = StoredName]
          /\ m' = "publish"
    /\ UNCHANGED <<mainVars, dialog, msg, engineVars, clicks, flagVars, ready,
                   luaVars>>

Publish ==
    /\ m = "publish"
    /\ ready' = TRUE
    /\ m' = "finish"
    /\ UNCHANGED <<mainVars, dialog, msg, engineVars, clicks, flagVars, buffer,
                   luaVars>>

\* A slip: the delivery is not over.
FinishKeepsPhase ==
    /\ m = "finish"
    /\ pending' = Empty
    /\ FinishTextInput
    /\ m' = "top"
    /\ UNCHANGED <<ime_active, phase, delay, dialog, msg, engineVars, clicks,
                   requested, nameVars, luaVars>>

\* ime_pending_text and ime_delivery_phase are reset, and
\* bg2v_finish_text_input ends the session.
Finish ==
    /\ m = "finish"
    /\ pending' = Empty
    /\ phase' = 0
    /\ FinishTextInput
    /\ m' = "top"
    /\ UNCHANGED <<ime_active, delay, dialog, msg, engineVars, clicks,
                   requested, nameVars, luaVars>>

\* controls_poll: without a session the player's input reaches the engine.
PollControls ==
    /\ m = "step"
    /\ ~ime_active
    /\ phase = 0
    /\ \/ clicks' = clicks
       \/ /\ Len(clicks) < MaxClicks
          /\ clicks' = Append(clicks, "player")
    /\ m' = "top"
    /\ UNCHANGED <<mainVars, dialog, msg, engineVars, flagVars, nameVars,
                   luaVars>>

(* fatal_error: a message dialog, spun on until the player closes it.  The *)
(* system shows one common dialog at a time, and the result of             *)
(* init_msg_dialog is not looked at.                                       *)

\* A slip: the dialog is never opened.
FatalSilent ==
    /\ m = "fatal"
    /\ m' = "wait"
    /\ UNCHANGED <<mainVars, dialog, msg, engineVars, clicks, flagVars,
                   nameVars, luaVars>>

Fatal ==
    /\ m = "fatal"
    /\ msg' = IF dialog.status = "none" THEN "running" ELSE msg
    /\ m' = "wait"
    /\ UNCHANGED <<mainVars, dialog, engineVars, clicks, flagVars, nameVars,
                   luaVars>>

FatalExit ==
    /\ m = "wait"
    /\ msg = "finished"
    /\ m' = "exited"
    /\ msg' = "none"
    /\ UNCHANGED <<mainVars, dialog, engineVars, clicks, flagVars, nameVars,
                   luaVars>>

\* vglSwapBuffers while the dialog has not finished; after the exit, nothing.
FatalSpin ==
    /\ \/ m = "wait" /\ msg # "finished"
       \/ m = "exited"
    /\ UNCHANGED vars

Main ==
    \/ CheckBootstrap \/ TakeRequest \/ NoRequest \/ MarkBusy
    \/ OpenKeyboard \/ OpenFails \/ AwaitKeyboard \/ ReadText \/ ReadNothing
    \/ CountDown \/ Refocus \/ Commit \/ Fill \/ Publish \/ Finish
    \/ PollControls \/ Fatal \/ FatalExit

-----------------------------------------------------------------------------
(* The engine thread: bg2_sdl_thread and what the engine calls from it.    *)

EnterNativeInit ==
    /\ e = "created"
    /\ bootstrap_state' = "ENTERED"
    /\ e' = "run"
    /\ UNCHANGED <<m, mainVars, dialog, msg, cause, clicks, flagVars, nameVars,
                   luaVars>>

\* The engine handles the oldest click.  Where it gives an edit box the
\* focus, SDL asks for a keyboard through showTextInput.
HandleClick ==
    /\ e = "run"
    /\ clicks # <<>>
    /\ clicks' = Tail(clicks)
    /\ cause' = Head(clicks)
    /\ e' \in {"run", "show"}
    /\ UNCHANGED <<m, mainVars, dialog, msg, bootstrap_state, flagVars,
                   nameVars, luaVars>>

\* showTextInput reads text_input_busy ...
ReadBusy ==
    /\ e = "show"
    /\ e' = IF busy THEN "run" ELSE "swap"
    /\ UNCHANGED <<m, mainVars, dialog, msg, bootstrap_state, cause, clicks,
                   flagVars, nameVars, luaVars>>

\* ... and swaps text_input_requested from 0 to 1, or leaves it at 1.
RaiseRequest ==
    /\ e = "swap"
    /\ requested' = TRUE
    /\ e' = "run"
    /\ UNCHANGED <<m, mainVars, dialog, msg, bootstrap_state, cause, clicks,
                   busy, nameVars, luaVars>>

\* A slip: the flag is not looked at.
LuaCallAlways ==
    /\ e = "run"
    /\ e' = "copy"
    /\ UNCHANGED <<m, mainVars, dialog, msg, bootstrap_state, cause, clicks,
                   flagVars, nameVars, luaVars>>

\* hooked_lua_pcallk: inject_pending_chargen_name finds a name.
LuaCall ==
    /\ e = "run"
    /\ ready
    /\ e' = "copy"
    /\ UNCHANGED <<m, mainVars, dialog, msg, bootstrap_state, cause, clicks,
                   flagVars, nameVars, luaVars>>

CopyName ==
    /\ e \in {"copy", "copy2"}
    /\ \/ /\ e = "copy"
          /\ copy' = [copy EXCEPT ![1] = buffer[1]]
          /\ e' = "copy2"
       \/ /\ e = "copy2"
          /\ copy' = [copy EXCEPT ![2] = buffer[2]]
          /\ e' = "assign"
    /\ UNCHANGED <<m, mainVars, dialog, msg, bootstrap_state, cause, clicks,
                   flagVars, nameVars, charNameEdit, chargenName>>

\* A text with halves of different names.
Torn == [word |-> NoWord, len |-> 1]

\* A slip: the terminator cuts off the last byte.
CopiedShort == Cut(copy[1], NameRoom - 1)

\* The engine's copy, as a text.
CopiedText == IF copy[1] = copy[2] THEN copy[1] ELSE Torn

\* charNameEdit is assigned, and chargen.name where chargen is a table.
AssignName ==
    /\ e = "assign"
    /\ charNameEdit' = CopiedText
    /\ chargenName' \in {chargenName, CopiedText}
    /\ e' = "clear"
    /\ UNCHANGED <<m, mainVars, dialog, msg, bootstrap_state, cause, clicks,
                   flagVars, nameVars, copy>>

ClearReady ==
    /\ e = "clear"
    /\ ready' = FALSE
    /\ e' = "run"
    /\ UNCHANGED <<m, mainVars, dialog, msg, bootstrap_state, cause, clicks,
                   flagVars, buffer, luaVars>>

NativeInitReturns ==
    /\ e = "run"
    /\ bootstrap_state' = "RETURNED"
    /\ e' = "returned"
    /\ UNCHANGED <<m, mainVars, dialog, msg, cause, clicks, flagVars, nameVars,
                   luaVars>>

Engine ==
    \/ EnterNativeInit \/ HandleClick \/ ReadBusy \/ RaiseRequest
    \/ LuaCall \/ CopyName \/ AssignName \/ ClearReady \/ NativeInitReturns

-----------------------------------------------------------------------------
(* The player and Sony's dialogs.                                          *)

\* ENTER closes the keyboard with a text, anything else with none.
CloseKeyboard ==
    /\ dialog.status = "running"
    /\ SlowPlayer => ~ready
    /\ \E t \in Typed : dialog' = [status |-> "finished", text |-> t]
    /\ UNCHANGED <<m, mainVars, msg, engineVars, clicks, flagVars, nameVars,
                   luaVars>>

CloseMessage ==
    /\ msg = "running"
    /\ msg' = "finished"
    /\ UNCHANGED <<m, mainVars, dialog, engineVars, clicks, flagVars, nameVars,
                   luaVars>>

Player == CloseKeyboard \/ CloseMessage

Next == Main \/ FatalSpin \/ Engine \/ Player

Spec == Init /\ [][Next]_vars

(* Both threads are scheduled, the engine handles the clicks that wait and *)
(* keeps making Lua calls (its menus are Lua), and the player closes what  *)
(* is on the screen.  Nothing makes nativeInit return, a keyboard fail to  *)
(* open or the player touch the screen.                                    *)
Fairness ==
    /\ WF_vars(Main)
    /\ WF_vars(EnterNativeInit)
    /\ WF_vars(ReadBusy)
    /\ WF_vars(RaiseRequest)
    /\ SF_vars(LuaCall)
    /\ WF_vars(CopyName)
    /\ WF_vars(AssignName)
    /\ WF_vars(ClearReady)
    /\ WF_vars(Player)

FairSpec == Spec /\ Fairness

-----------------------------------------------------------------------------
(* Properties                                                              *)

\* Every variable keeps its type.
TypeOK ==
    /\ m \in {"top", "take", "mark", "open", "step", "fill", "fill2",
              "publish", "finish", "fatal", "wait", "exited"}
    /\ ime_active \in BOOLEAN
    /\ phase \in 0..2
    /\ delay \in Nat
    /\ pending \in MaybeText
    /\ dialog \in [status : {"none", "running", "finished"}, text : MaybeText]
    /\ msg \in {"none", "running", "finished"}
    /\ e \in {"created", "run", "show", "swap", "returned"} \cup Injecting
    /\ bootstrap_state \in {"NOT_STARTED", "ENTERED", "RETURNED"}
    /\ cause \in Clicks
    /\ clicks \in Seq(Clicks)
    /\ requested \in BOOLEAN
    /\ busy \in BOOLEAN
    /\ buffer \in [1..2 -> MaybeText]
    /\ ready \in BOOLEAN
    /\ copy \in [1..2 -> MaybeText]
    /\ charNameEdit \in MaybeText \cup {Torn}
    /\ chargenName \in MaybeText \cup {Torn}

Stopped == m \in {"fatal", "wait", "exited"}

\* text_input_busy is set exactly while the main loop has a session: from
\* the request it took, over the keyboard and the frames of the delivery, to
\* the name it queued.  A path of the loop that forgot finish would suppress
\* every later request; one that called it early would let one in.
SessionOwnsBusy == busy <=> (m = "open" \/ ime_active \/ phase # 0)

\* The delivery runs only once Sony's dialog is gone and with a text to
\* deliver, and the main loop stops only after the engine has returned.
DeliveryHasText ==
    /\ phase # 0 <=> pending # Empty
    /\ ime_active <=> dialog.status # "none"
    /\ ~(ime_active /\ phase # 0)
    /\ Stopped => e = "returned"

\* The name buffer has one owner: while ready is set it holds one whole name,
\* the main loop has no further text on the way and the engine's copy is the
\* buffer's; the engine works on a name only while ready is set.
BufferHasOneOwner ==
    /\ ready => /\ dialog.status # "finished"
                /\ phase # 0 => m = "finish"
                /\ buffer[1] = buffer[2] /\ buffer[1] # Empty
    /\ e \in Injecting => ready
    /\ e = "copy2" => copy[1] = buffer[1]
    /\ e \in {"assign", "clear"} => copy = buffer
    /\ e = "clear" => charNameEdit = buffer[1]

(* The inductive strengthenings of the invariants above.                   *)

LoopInv ==
    /\ SessionOwnsBusy
    /\ DeliveryHasText
    /\ m \in {"mark", "open"} => ~ime_active /\ phase = 0
    /\ m \in {"fill", "fill2", "publish", "finish"} => phase = 2
    /\ bootstrap_state = "RETURNED" => e = "returned"

BufferInv ==
    /\ BufferHasOneOwner
    /\ m # "fill2" => buffer[1] = buffer[2]
    /\ m \in {"fill2", "publish"} => buffer[1] = Cut(pending, NameRoom)

\* The engine clears ready only after it assigned the name the buffer holds:
\* no name is lost between bg2v_queue_chargen_name and the Lua global.
ClearsOnlyAssigned ==
    [][ready /\ ~ready' => buffer = [i \in 1..2 |-> charNameEdit]]_vars

\* What main.c says of the commit (340-342), "Queue the retained value for
\* assignment to UI.MENU's charNameEdit variable from the next Lua call on the
\* engine thread.": a name that is published, and is not being overwritten, is
\* withdrawn only after it was assigned.  After the withdrawal nothing publishes
\* it again.
PublishedIsAssigned ==
    [][ready /\ ~ready' /\ m \notin {"fill2", "publish"} =>
          charNameEdit = buffer[1]]_vars

\* The keyboard bridge keeps its promise: texts go through a mailbox of one
\* place and reach the field once, in order and cut to the buffer's size.
Entry == INSTANCE TextEntry WITH
    Room <- NameRoom,
    keyboard <- ime_active,
    held <- IF m = "finish" THEN Empty ELSE pending,
    mailbox <- IF ready /\ e # "clear" THEN buffer[1] ELSE Empty,
    field <- charNameEdit

EntrySpec == Entry!Spec

\* A request of the engine is taken by the main loop, unless the loop stopped:
\* a request raised while another session runs waits for its end.
RequestIsTaken == requested ~> (m = "mark" \/ Stopped)

\* A session ends, with or without a text, so that the engine's next request
\* is not suppressed for good.
SessionEnds == busy ~> (~busy \/ Stopped)

\* Every text the player confirms reaches charNameEdit, cut to what the two
\* buffers keep, unless the engine has returned.
NameArrives ==
    \A t \in Typed \ {Empty} :
        (dialog.status = "finished" /\ dialog.text = t)
            ~> (charNameEdit = Cut(t, NameRoom) \/ bootstrap_state = "RETURNED")

\* Once nativeInit has returned the player gets to read why and the process
\* ends, unless the keyboard was on the screen when the loop noticed.
FatalEnds == (m = "fatal" /\ dialog.status = "none") ~> m = "exited"

\* What main.c says of the refocus click (114-115), "Keeping text_input_busy
\* set suppresses the second Vita keyboard request.", and what showTextInput
\* in java.c tries to keep: no request is raised while text_input_busy is set.
NoRequestWhileBusy == [][~requested /\ requested' => ~busy]_vars

=============================================================================
