---------------------------------- MODULE Runtime ----------------------------------
(***************************************************************************)
(* Start-up, the engine's patches and bindings and the graphics glue.  They *)
(* share no state, so a behaviour runs one of them, `unit`, and leaves the  *)
(* others as they were.                                                     *)
(***************************************************************************)
EXTENDS Startup, Shaders, Frames, EglStubs, EnginePatch, Bindings

VARIABLE unit

Others(u) ==
  /\ unit = u /\ unit' = unit
  /\ u # "start" => UNCHANGED startVars
  /\ u # "shader" => UNCHANGED shaderVars
  /\ u # "frame" => UNCHANGED frameVars
  /\ u # "texture" => UNCHANGED poolVars
  /\ u # "patch" => UNCHANGED patchVars
  /\ u # "bind" => UNCHANGED bindVars

\* A unit that is not run starts in one state; the segments vary where no hook
\* is installed, the exported functions where they do not.
RuntimeInit ==
  /\ PatchInit
  /\ unit # "patch" => text.base = 0 /\ text.size = 0 /\ data = text /\ found = LuaFunctions
                       /\ lua.globals["chargen"] = "nil"
  /\ found # LuaFunctions \ {"lua_pcallk"} => text.base = 0 /\ text.size = 0 /\ data = text
  /\ BindInit
  /\ unit # "bind" => sce_io
  /\ FrameInit
  /\ unit # "frame" => owned = [scissor |-> FALSE, box |-> "full", clear |-> "own",
                                mask |-> "own", framebuffer |-> 0]
  /\ ShaderInit
  /\ unit # "shader" => build = "GLSL"
  /\ StartInit
  /\ unit # "start" => faults = {} /\ missing = {} /\ settings_file = "absent"

RuntimeNext ==
  \/ Others("start") /\ StartNext
  \/ Others("shader") /\ ShaderNext
  \/ Others("frame") /\ FrameNext
  \/ Others("texture") /\ TextureNext
  \/ Others("patch") /\ PatchNext
  \/ Others("bind") /\ BindNext

runtimeVars == <<startVars, shaderVars, frameVars, poolVars, patchVars, bindVars, unit>>
RuntimeSpec == RuntimeInit /\ [][RuntimeNext]_runtimeVars /\ StartFairness

\* eglQuerySurface and main's announcement to SDL, 960 x 544.
SurfaceIsAnnounced == ConfigAddsUp(960, 544)
GraphicsAreTrue == ShadersAreTrue /\ FramesAreClean /\ SurfaceIsAnnounced
==============================================================================
