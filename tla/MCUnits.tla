----------------------------------- MODULE MCUnits -----------------------------------
(***************************************************************************)
(* The parts of the bridge that share no state, for TLC: the C library it  *)
(* gives the engine, which only computes, tells the time or reads and      *)
(* writes files; start-up; the engine's patches and bindings; and the       *)
(* graphics glue.  A behaviour runs one of them, `unit`, and leaves the     *)
(* others as they were.  The inputs are the days around the turns of years  *)
(* that the calendar treats differently and around the ends of 32-bit time, *)
(* every pattern of up to three characters, and small strings, screens and  *)
(* images.                                                                  *)
(***************************************************************************)
EXTENDS Conversions, Raster, SystemCalls, Files, Runtime

MCYears == 1 .. 2800
TurningYears == {-800, 0, 1, 1200, 1599, 1600, 1601, 1700, 1799, 1800, 1801, 1899,
                 1900, 1901, 1902, 1969, 1970, 1971, 1972, 2000, 2001, 2007, 2008,
                 2009, 2037, 2038, 2039, 2040, 2044, 2099, 2100, 2101, 2200, 2300,
                 2400, 2401, 2404, 2500, 9999, 10000}
MCDays == UNION {{CivilDay(y, 0, 1) + d : d \in {-2, -1, 0, 1, 58, 59, 60, 366}} :
                   y \in TurningYears}
MCSeconds == {0, 59, 3600, 86399}
MCZones == {-43200, -12600, 0, 50400}

\* Strings over a set of characters, of at most the given length.
StringsOver(chars, length) == UNION {[1..n -> chars] : n \in 0..length}

FlagSets == {{}, {"PATHNAME"}, {"PERIOD"}, {"PATHNAME", "PERIOD"}, {"CASEFOLD"},
             {"PATHNAME", "LEADING_DIR"}, {"NOESCAPE", "PERIOD"}}
Letter == 97
Upper == 65
MCGlobs ==
  [pattern : StringsOver({Letter, Star, Query, Dot, Slash, Escape}, 3),
   name : StringsOver({Upper, Letter, Dot, Slash}, 2) \cup
          {<<Letter, Slash, Dot>>, <<Letter, Dot, Letter>>, <<Dot, Slash, Letter>>},
   flags : FlagSets]
  \cup
  [pattern : {<<Bracket>> \o s \o <<Close>> \o t :
                s \in StringsOver({Letter, Dash, Bang, Escape, Close, 99}, 3),
                t \in {<<>>, <<Star>>}},
   name : {<<>>, <<Letter>>, <<98>>, <<Upper>>, <<Dash>>, <<Dot>>, <<Slash>>,
           <<Close, Letter>>},
   flags : {{}, {"CASEFOLD"}, {"PATHNAME", "PERIOD"}, {"NOESCAPE"}}]

MCOpens ==
  [path : {"/proc/cpuinfo", "/proc/meminfo", "/dev/urandom", "/data/override/dialog.tlk"},
   flags : SUBSET {"WRONLY", "RDWR", "CREAT", "APPEND", "TRUNC", "DIRECTORY", "_TMPFILE"}]

MCStrings == StringsOver({1, 2}, 3)
\* Units at the edges of the encodings' lengths, and of the surrogates.
MCCodeUnits == [1..1 -> 1..4096 \cup {55295, 55296, 56319, 56320, 57343, 57344, 65535}]
           \cup [1..2 -> {1, 127, 128, 2047, 2048, 55295, 57344, 65535}]

MCPlaces == (-10 .. Width + 10) \X (-10 .. Height + 10)
MCImages == (-1..9) \X (0..9) \X {-1, 8 * 2, 8 * 4, 8 * 6, 8 * 9}

Alone(u) ==
  /\ unit = u
  /\ u # "convert" => UNCHANGED call
  /\ u # "raster" => UNCHANGED pixels
  /\ u # "times" => UNCHANGED converted
  /\ u # "clock" => UNCHANGED sysVars
  /\ u # "mmap" => UNCHANGED fileVars
  /\ u # "scan" => UNCHANGED scanVars
  /\ u # "asset" => UNCHANGED assetVars
  /\ u # "utils" => UNCHANGED utilsVars

LibraryInit ==
  /\ ConvInit /\ PixelsInit /\ CalendarInit /\ SysInit
  /\ FileInit /\ ScanInit /\ AssetInit /\ UtilsInit
  /\ unit # "utils" => source = "none" /\ target = "none"

\* A translation just as long as its source is passed as in the builds for GLSL.
Init ==
  /\ unit \in {"convert", "raster", "times", "clock", "mmap", "scan", "asset", "utils",
              "start", "shader", "frame", "texture", "patch", "bind"}
  /\ LibraryInit /\ RuntimeInit
  /\ \A t \in Sources : cg[t] # "as long"

LibraryNext ==
  \/ Alone("convert") /\ ConvNext
  \/ Alone("raster") /\ PixelsNext
  \/ Alone("times") /\ CalendarNext
  \/ Alone("clock") /\ SysNext
  \/ Alone("mmap") /\ FileNext
  \/ Alone("scan") /\ ScanNext
  \/ Alone("asset") /\ AssetNext
  \/ Alone("utils") /\ UtilsNext

libraryVars == <<call, pixels, converted, sysVars, fileVars, scanVars, assetVars, utilsVars>>

Next ==
  \/ LibraryNext /\ UNCHANGED runtimeVars
  \/ RuntimeNext /\ UNCHANGED libraryVars

Spec == Init /\ [][Next]_<<libraryVars, runtimeVars>> /\ StartFairness
==============================================================================
