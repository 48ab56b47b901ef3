--------------------------------- MODULE Startup ---------------------------------
(***************************************************************************)
(* Starting the game: soloader_init_all (init.c), main up to and including *)
(* its loop, and the SDL thread that runs nativeInit (main.c).  The main   *)
(* thread works through Stages; a stage whose precondition fails ends in   *)
(* fatal_error.  Both threads can call gl_init (glutil.c): main once, the  *)
(* engine from eglInitialize.  settings_load (settings.c) is a stage too.  *)
(*                                                                         *)
(* Assumed of the system: a thread that was started runs within MaxLatency *)
(* ticks while main sleeps for DelayTicks, the 250 ms of the code.         *)
(***************************************************************************)
EXTENDS Integers, Sequences, FiniteSets

CONSTANTS DelayTicks, MaxLatency
ASSUME LatencyAssumption ==
  DelayTicks \in Nat /\ MaxLatency \in Nat /\ MaxLatency < DelayTicks

VARIABLES
  faults,           \* the stage the machine is not ready for, or nothing
  missing,          \* the SDL entry point the engine does not export, or nothing
  settings_file,    \* the settings file: "absent", "saved" or "leading space"
  setting,          \* "unset", "default" or "saved"
  stage,            \* a stage of main, "loop", "stuck", "fatal" or "configurator"
  done,             \* the stages main has completed
  bootstrap_state,
  sdl,              \* the SDL thread: "none", "created", "ready", "inside", "ended"
  waited,           \* ticks since the SDL thread was started
  glpc,             \* glpc[t]: "out" of gl_init, "checked" or "past" it
  initialized,
  vglInits,         \* how often vglInitExtended was called
  elapsed_ms,
  milestone_logged

startVars == <<faults, missing, settings_file, setting, stage, done, bootstrap_state,
               sdl, waited, glpc, initialized, vglInits, elapsed_ms, milestone_logged>>

soloader_init_all ==
  <<"app_event", "fios_init", "kubridge", "so_exists", "so_file_load", "settings_load",
    "so_relocate", "resolve_imports", "so_patch",
    "so_flush_caches", "so_initialize", "gl_preload", "jni_init", "controls_init">>

PrepareSdl == <<"gl_init", "require_sdl_native_init", "require_sdl_input_bridges",
  "make_sdl_arguments", "create_thread", "start_thread", "delay">>
Stages ==
  <<"bg2v_log_reset">> \o soloader_init_all \o <<"require_jni_on_load", "JNI_OnLoad">>
    \o PrepareSdl \o <<"onNativeResize", "onNativeSurfaceChanged">>

After(s) ==
  LET i == CHOOSE k \in DOMAIN Stages : Stages[k] = s
  IN IF i = Len(Stages) THEN "loop" ELSE Stages[i + 1]

\* The stages that check something and end in fatal_error when it is not so.
Fatal == {"kubridge", "so_exists", "so_file_load", "so_patch", "gl_preload",
          "require_jni_on_load", "JNI_OnLoad", "require_sdl_native_init",
          "make_sdl_arguments", "create_thread", "start_thread"}

\* What require_sdl_input_bridges resolves, and what it derives from one of
\* them by subtracting an offset: never NULL, but wild when that one is.
Exported == {"onNativeKeyDown", "onNativeKeyUp", "onNativeTouch", "onNativeResize",
             "onNativeSurfaceChanged", "onNativeMouse", "onNativeTap", "onNativePan",
             "nativeCommitText", "SDL_StartTextInput"}
Derived == {"SDL_SendKeyboardText", "SDL_SendEditingText"}
Bridge(name) ==
  CASE name \in Derived -> IF "nativeCommitText" \in missing THEN "wild" ELSE "code"
    [] OTHER -> IF name \in missing THEN "NULL" ELSE "code"
Checked == Exported \cup Derived

Threads == {"main", "sdl"}

StartInit ==
  /\ faults \in {{}} \cup {{f} : f \in Fatal}
  /\ missing \in {{}} \cup {{e} : e \in Exported}
  /\ settings_file \in {"absent", "saved", "leading space"}
  /\ setting = "unset"
  /\ stage = "bg2v_log_reset" /\ done = {}
  /\ bootstrap_state = "NOT_STARTED" /\ sdl = "none" /\ waited = 0
  /\ glpc = [t \in Threads |-> "out"] /\ initialized = FALSE /\ vglInits = 0
  /\ elapsed_ms = 0 /\ milestone_logged = FALSE

Complete == stage' = After(stage) /\ done' = done \cup {stage}

\* A stage with no effect the rest of this module sees, but for its check.
PlainStage ==
  /\ stage \in {Stages[i] : i \in DOMAIN Stages} \ {"app_event", "settings_load", "gl_init",
       "require_sdl_input_bridges", "create_thread", "start_thread", "delay"}
  /\ IF stage \in faults
     THEN stage' = "fatal" /\ UNCHANGED done
     ELSE Complete
  /\ UNCHANGED <<faults, missing, settings_file, setting, bootstrap_state, sdl, waited,
                 glpc, initialized, vglInits, elapsed_ms, milestone_logged>>

\* The -config event loads the configurator in place of the game; nobody looks
\* at whether that worked.
AppEvent ==
  /\ stage = "app_event"
  /\ \/ stage' = "configurator" /\ UNCHANGED done
     \/ Complete
  /\ UNCHANGED <<faults, missing, settings_file, setting, bootstrap_state, sdl, waited,
                 glpc, initialized, vglInits, elapsed_ms, milestone_logged>>

\* settings_load: defaults, then what the file says.  "%[^ ] %d\n" converts
\* nothing, and consumes nothing, at a space, which is not EOF either.
SettingsLoad ==
  /\ stage = "settings_load"
  /\ IF settings_file = "leading space"
     THEN stage' = "stuck" /\ setting' = "default" /\ UNCHANGED done
     ELSE /\ Complete
          /\ setting' = IF settings_file = "saved" THEN "saved" ELSE "default"
  /\ UNCHANGED <<faults, missing, settings_file, bootstrap_state, sdl, waited,
                 glpc, initialized, vglInits, elapsed_ms, milestone_logged>>

\* gl_init: a look at the flag, then the initialization and the flag.
GlCheck(t) ==
  /\ glpc[t] = "out"
  /\ \/ t = "main" /\ stage = "gl_init"
     \/ t = "sdl" /\ sdl = "inside"
  /\ glpc' = [glpc EXCEPT ![t] = IF initialized THEN "past" ELSE "checked"]
  /\ UNCHANGED <<faults, missing, settings_file, setting, stage, done, bootstrap_state, sdl,
                 waited, initialized, vglInits, elapsed_ms, milestone_logged>>

GlInitialize(t) ==
  /\ glpc[t] = "checked"
  /\ vglInits' = vglInits + 1
  /\ initialized' = TRUE
  /\ glpc' = [glpc EXCEPT ![t] = "past"]
  /\ UNCHANGED <<faults, missing, settings_file, setting, stage, done, bootstrap_state, sdl,
                 waited, elapsed_ms, milestone_logged>>

GlReturns ==
  /\ stage = "gl_init" /\ glpc["main"] = "past"
  /\ Complete
  /\ UNCHANGED <<faults, missing, settings_file, setting, bootstrap_state, sdl, waited,
                 glpc, initialized, vglInits, elapsed_ms, milestone_logged>>

RequireBridges ==
  /\ stage = "require_sdl_input_bridges"
  /\ IF \E name \in Checked : Bridge(name) = "NULL"
     THEN stage' = "fatal" /\ UNCHANGED done
     ELSE Complete
  /\ UNCHANGED <<faults, missing, settings_file, setting, bootstrap_state, sdl, waited,
                 glpc, initialized, vglInits, elapsed_ms, milestone_logged>>

\* sceKernelCreateThread and sceKernelStartThread.
LaunchThread ==
  /\ stage \in {"create_thread", "start_thread"}
  /\ IF stage \in faults
     THEN stage' = "fatal" /\ UNCHANGED <<done, sdl>>
     ELSE Complete /\ sdl' = IF stage = "create_thread" THEN "created" ELSE "ready"
  /\ UNCHANGED <<faults, missing, settings_file, setting, bootstrap_state, waited,
                 glpc, initialized, vglInits, elapsed_ms, milestone_logged>>

NoTicks == 0
Ticks250 == DelayTicks
Delay ==
  /\ stage = "delay"
  /\ IF waited >= Ticks250
     THEN Complete /\ UNCHANGED waited
     ELSE /\ sdl = "ready" => waited < MaxLatency
          /\ waited' = waited + 1
          /\ UNCHANGED <<stage, done>>
  /\ UNCHANGED <<faults, missing, settings_file, setting, bootstrap_state, sdl,
                 glpc, initialized, vglInits, elapsed_ms, milestone_logged>>

SdlEnters ==
  /\ sdl = "ready"
  /\ sdl' = "inside" /\ bootstrap_state' = "ENTERED"
  /\ UNCHANGED <<faults, missing, settings_file, setting, stage, done, waited,
                 glpc, initialized, vglInits, elapsed_ms, milestone_logged>>

\* nativeInit returns, when the engine gives up, outside gl_init.
NativeReturns ==
  /\ sdl = "inside" /\ glpc["sdl"] # "checked"
  /\ sdl' = "ended" /\ bootstrap_state' = "RETURNED"
  /\ UNCHANGED <<faults, missing, settings_file, setting, stage, done, waited,
                 glpc, initialized, vglInits, elapsed_ms, milestone_logged>>

\* The head of main's loop; its other half is in TextInput and Pad.
UntilMilestone == bootstrap_state = "RETURNED" /\ ~milestone_logged
SeesReturn == bootstrap_state = "RETURNED"
LoopHead ==
  /\ stage = "loop"
  /\ IF SeesReturn
     THEN stage' = "fatal" /\ UNCHANGED <<elapsed_ms, milestone_logged>>
     ELSE /\ elapsed_ms' = IF milestone_logged THEN elapsed_ms ELSE elapsed_ms + 100
          /\ milestone_logged' = (milestone_logged \/ elapsed_ms' >= 15000)
          /\ UNCHANGED stage
  /\ UNCHANGED <<faults, missing, settings_file, setting, done, bootstrap_state, sdl, waited,
                 glpc, initialized, vglInits>>

StartNext ==
  \/ PlainStage \/ AppEvent \/ SettingsLoad \/ GlReturns \/ RequireBridges
  \/ LaunchThread \/ Delay \/ SdlEnters \/ NativeReturns \/ LoopHead
  \/ \E t \in Threads : GlCheck(t) \/ GlInitialize(t)

MainSteps == PlainStage \/ AppEvent \/ SettingsLoad \/ GlReturns \/ RequireBridges
  \/ LaunchThread \/ Delay \/ LoopHead \/ GlCheck("main") \/ GlInitialize("main")

\* The kernel runs both threads; nothing makes nativeInit return.
StartFairness == WF_startVars(MainSteps) /\ WF_startVars(SdlEnters)

------------------------------------------------------------------------------
\* No instruction of the engine runs, on either thread, before its image was
\* loaded, relocated, bound, patched and flushed from the data cache.
EngineIsPrepared ==
  ("so_initialize" \in done \/ "JNI_OnLoad" \in done \/ bootstrap_state # "NOT_STARTED") =>
    {"so_file_load", "so_relocate", "resolve_imports", "so_patch", "so_flush_caches"}
      \subseteq done

\* vitaGL is initialized once, though both threads call gl_init and its test
\* of the flag is no lock.
VglOnce == vglInits <= 1

\* When the surface is announced, nativeInit has been entered: the engine gets
\* the size after its thread has begun, given that threads start in time.
SurfaceFindsEntry == "onNativeResize" \in done => bootstrap_state # "NOT_STARTED"

\* Whoever creates the SDL thread can call every bridge, the derived ones too.
BridgesAreCode ==
  "require_sdl_input_bridges" \in done => \A b \in Exported \cup Derived : Bridge(b) = "code"

\* Start-up in one invariant.
StartsInOrder == EngineIsPrepared /\ VglOnce /\ SurfaceFindsEntry /\ BridgesAreCode

\* A nativeInit that has returned is noticed, after the 15 seconds as well,
\* unless start-up itself had failed.
ReturnIsNoticed == (bootstrap_state = "RETURNED") ~> (stage = "fatal")
==============================================================================
