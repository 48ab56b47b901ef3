--------------------------------- MODULE Shaders ---------------------------------
(***************************************************************************)
(* glShaderSource, glCompileShader and load_shader of glutil.c, in the five *)
(* builds CMake offers: `build` is the source format and whether compiled   *)
(* binaries are dumped.  Files are named by the SHA-1 of the source text,   *)
(* taken to be collision free; they outlive the process, which may be       *)
(* killed at any time, while a file is saved too.                           *)
(***************************************************************************)
EXTENDS FiniteSets

CONSTANTS ShaderIds, Sources, NoSource
ASSUME ShaderAssumption ==
  /\ NoSource \notin Sources
  /\ \A mark \in {"absent", "truncated", "dummy", "cut", "overread"} : mark \notin Sources

Builds == {"GLSL", "GLSL dump", "CG", "CG dump", "GXP"}

VARIABLES
  build,
  skip_next_compile,
  next_shader_fname,   \* the source whose gxp file the next dump is saved as
  loaded,              \* loaded[sh]: [kind, of] as vitaGL holds it
  given,               \* history: given[sh] is the text the engine gave last
  ran,                 \* the shaders whose present source was compiled
  gxp,                 \* the cache: gxp[t] is what the file of t was made from
  cg,                  \* the translations: how long that of t is, beside t
  saving,              \* the dump under way: [to, what] or nothing
  pending,             \* the shader sourced but not compiled yet
  paired,              \* so far each source was compiled before the next came
  killed

shaderVars == <<build, skip_next_compile, next_shader_fname, loaded, given, ran, gxp, cg,
                saving, pending, paired, killed>>

Unsourced == [kind |-> "none", of |-> NoSource]

ShaderInit ==
  /\ build \in Builds
  /\ skip_next_compile = FALSE /\ next_shader_fname = NoSource
  /\ loaded = [sh \in ShaderIds |-> Unsourced] /\ given = [sh \in ShaderIds |-> NoSource]
  /\ ran = {}
  /\ gxp \in [Sources -> {"absent"}] \cup
            (IF build = "GXP" THEN {[t \in Sources |-> IF t \in S THEN t ELSE "absent"] :
                                      S \in SUBSET Sources} ELSE {})
  /\ cg \in [Sources -> IF build \in {"CG", "CG dump"}
                        THEN {"absent", "shorter", "as long", "longer"} ELSE {"absent"}]
  /\ saving = {} /\ pending = {} /\ paired = TRUE /\ killed = FALSE

\* A call made while a save is under way comes from the same thread: never.
Sourced(sh, t, what, skip) ==
  /\ loaded' = [loaded EXCEPT ![sh] = what]
  /\ given' = [given EXCEPT ![sh] = t]
  /\ ran' = ran \ {sh}
  /\ skip_next_compile' = skip
  /\ pending' = {sh} /\ paired' = (paired /\ pending = {})

\* No source: the compile that follows is skipped, whichever shader it is for.
SourceNull(sh) ==
  /\ saving = {}
  /\ skip_next_compile' = TRUE
  /\ pending' = {sh} /\ paired' = (paired /\ pending = {})
  /\ UNCHANGED <<build, loaded, given, ran, next_shader_fname, gxp, cg, saving, killed>>

FromCache(sh, t) ==
  [kind |-> IF gxp[t] = "truncated" THEN "broken" ELSE "binary", of |-> gxp[t]]

\* load_shader finds a binary: the GXP build has no compile to skip.
SourceCached(sh, t) ==
  /\ saving = {}
  /\ build \in {"GLSL dump", "CG dump", "GXP"} /\ gxp[t] # "absent"
  /\ Sourced(sh, t, FromCache(sh, t), skip_next_compile \/ build # "GXP")
  /\ UNCHANGED <<build, next_shader_fname, gxp, cg, saving, killed>>

\* load_shader hands the text to vitaGL.  With a translation on disk the CG
\* builds do so too: the file's bytes are read and freed unused, its size is
\* given as the length of the GLSL text, which is cut or read past its end.
Passed(t) ==
  CASE cg[t] = "shorter" -> "cut"
    [] cg[t] = "longer" -> "overread"
    [] OTHER -> "source"
KeepsOldName(t) == IF next_shader_fname = NoSource THEN t ELSE next_shader_fname
NextName(t) == IF build \in {"GLSL dump", "CG dump"} THEN t ELSE next_shader_fname
SourceText(sh, t) ==
  /\ saving = {}
  /\ \/ build = "GLSL"
     \/ build = "GLSL dump" /\ gxp[t] = "absent"
     \/ build = "CG dump" /\ gxp[t] = "absent" /\ cg[t] # "absent"
     \/ build = "CG" /\ cg[t] # "absent"
  /\ Sourced(sh, t, [kind |-> Passed(t), of |-> t],
             IF build = "CG dump" THEN FALSE ELSE skip_next_compile)
  /\ next_shader_fname' = NextName(t)
  /\ UNCHANGED <<build, gxp, cg, saving, killed>>

\* Untranslated: the text is saved for someone to translate, which nothing here
\* waits for, and a dummy takes its place.  A name left from an earlier shader
\* stays.
SourceDummy(sh, t) ==
  /\ saving = {}
  /\ \/ build \in {"CG", "CG dump"} /\ cg[t] = "absent"
     \/ build = "GXP"
  /\ build \in {"CG dump", "GXP"} => gxp[t] = "absent"
  /\ Sourced(sh, t, [kind |-> "dummy", of |-> t],
             IF build = "CG dump" THEN FALSE ELSE skip_next_compile)
  /\ UNCHANGED <<build, next_shader_fname, gxp, cg, saving, killed>>

Compiles(sh) == build # "GXP" /\ ~skip_next_compile
Compile(sh) ==
  /\ saving = {}
  /\ ran' = IF Compiles(sh) THEN ran \cup {sh} ELSE ran
  /\ saving' = IF Compiles(sh) /\ build \in {"GLSL dump", "CG dump"} /\ next_shader_fname # NoSource
               THEN {[to |-> next_shader_fname, what |-> loaded[sh]]} ELSE {}
  /\ gxp' = IF saving' # {} THEN [gxp EXCEPT ![next_shader_fname] = "truncated"] ELSE gxp
  /\ skip_next_compile' = (build = "GXP" /\ skip_next_compile)
  /\ pending' = {} /\ paired' = (paired /\ pending = {sh})
  /\ UNCHANGED <<build, next_shader_fname, loaded, given, cg, killed>>

\* The end of file_save.
MadeFrom(what) == IF what.kind = "source" THEN what.of ELSE what.kind
SaveEnds ==
  /\ \E save \in saving : gxp' = [gxp EXCEPT ![save.to] = MadeFrom(save.what)]
  /\ saving' = {}
  /\ UNCHANGED <<build, skip_next_compile, next_shader_fname, loaded, given, ran, cg,
                 pending, paired, killed>>

\* The process is killed and started again: the files are all that is left.
Restart ==
  /\ killed' = (killed \/ saving # {})
  /\ skip_next_compile' = FALSE /\ next_shader_fname' = NoSource
  /\ loaded' = [sh \in ShaderIds |-> Unsourced] /\ given' = [sh \in ShaderIds |-> NoSource]
  /\ ran' = {}
  /\ saving' = {} /\ pending' = {}
  /\ UNCHANGED <<build, gxp, cg, paired>>

ShaderNext ==
  \/ \E sh \in ShaderIds :
       \/ SourceNull(sh) \/ Compile(sh)
       \/ \E t \in Sources : SourceCached(sh, t) \/ SourceText(sh, t) \/ SourceDummy(sh, t)
  \/ SaveEnds \/ Restart

------------------------------------------------------------------------------
\* An engine that compiles each shader right after giving its source never
\* fills the GLSL cache with another shader's binary; a file can be cut short
\* only when the process was killed while it was saved.
CacheIsTrue ==
  build = "GLSL dump" /\ paired =>
    \A t \in Sources :
      gxp[t] \in {"absent", t} \/ (gxp[t] = "truncated" /\ (killed \/ \E s \in saving : s.to = t))

\* For such an engine the flag skips no compile but that of a shader without
\* a source or with a binary, and where nothing is translated, in the builds for
\* GLSL, each shader is made of the text the engine gave for it, uncut, or of a
\* file a kill cut short, even where its binary was left by an earlier process.
CompiledAsGiven ==
  paired /\ build # "GXP" =>
    \A sh \in ShaderIds \ pending :
      /\ loaded[sh].kind \in {"source", "cut", "overread", "dummy"} => sh \in ran
      /\ loaded[sh].kind = "binary" => sh \notin ran
      /\ loaded[sh].kind = "broken" => killed
      /\ build \in {"GLSL", "GLSL dump"} /\ loaded[sh].kind # "broken" =>
           loaded[sh].kind \in {"none", "source", "binary"} /\ loaded[sh].of = given[sh]

ShadersAreTrue == CacheIsTrue /\ CompiledAsGiven
==============================================================================
