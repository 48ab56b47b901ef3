--------------------------------- MODULE EglStubs ---------------------------------
(***************************************************************************)
(* egl.c: what the EGL the engine sees in place of a driver answers.  Its   *)
(* contexts, surfaces and configurations are heap strings nothing looks     *)
(* into; they are left out.                                                 *)
(***************************************************************************)
EXTENDS Integers

\* What the query functions answer; "none" is EGL_FALSE, value untouched.
EglWidth == 960
EglHeight == 544
eglQuerySurface(attribute) ==
  CASE attribute = "WIDTH" -> EglWidth
    [] attribute = "HEIGHT" -> EglHeight
    [] attribute \in {"CONFIG_ID", "MIPMAP_LEVEL", "LARGEST_PBUFFER", "MIPMAP_TEXTURE", "TIMESTAMPS"} -> 0
    [] attribute \in {"HORIZONTAL_RESOLUTION", "VERTICAL_RESOLUTION"} -> 220 * 10000
    [] attribute = "PIXEL_ASPECT_RATIO" -> (EglWidth \div EglHeight) * 10000
    [] OTHER -> -1

eglGetConfigAttrib(attribute) ==
  CASE attribute \in {"RED_SIZE", "GREEN_SIZE", "BLUE_SIZE", "ALPHA_SIZE",
         "ALPHA_MASK_SIZE", "STENCIL_SIZE"} -> 8
    [] attribute = "BUFFER_SIZE" -> 32
    [] attribute = "DEPTH_SIZE" -> 24
    [] attribute \in {"CONFIG_ID", "SAMPLES", "SAMPLE_BUFFERS", "MAX_SWAP_INTERVAL",
         "MIN_SWAP_INTERVAL", "NATIVE_RENDERABLE", "LUMINANCE_SIZE"} -> 0
    [] OTHER -> -1

------------------------------------------------------------------------------
\* The colour buffer is as deep as its channels, and the surface as large as
\* what main announces to SDL and the pointer is clipped to.
ConfigAddsUp(announcedW, announcedH) ==
  /\ eglGetConfigAttrib("BUFFER_SIZE") =
       eglGetConfigAttrib("RED_SIZE") + eglGetConfigAttrib("GREEN_SIZE")
         + eglGetConfigAttrib("BLUE_SIZE") + eglGetConfigAttrib("ALPHA_SIZE")
  /\ eglQuerySurface("WIDTH") = announcedW /\ eglQuerySurface("HEIGHT") = announcedH
==============================================================================
