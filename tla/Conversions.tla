------------------------------ MODULE Conversions ------------------------------
(***************************************************************************)
(* The functions of the bridge that only translate patterns, paths, flags  *)
(* and strings: one is called at a time, and `call` keeps its name, its    *)
(* arguments and what it returned, so that an invariant can relate them.   *)
(***************************************************************************)
EXTENDS Matching

CONSTANTS
  Globs,           \* patterns, names and flag sets of fnmatch
  Opens,           \* paths and flag sets of open and fopen
  Strings,         \* strings of str_replace, str_remove, str_starts_with...
  Units            \* UTF-16 strings of the keyboard

VARIABLE call

None == [op |-> "none"]

CallFnmatch == call = None /\ \E g \in Globs :
  call' = [op |-> "fnmatch", glob |-> g,
           match |-> fnmatch(g.pattern, g.name, g.flags)]
CallOpen == call = None /\ \E o \in Opens :
  call' = [op |-> "open", arg |-> o, opened |-> open_soloader(o.path, o.flags),
           fopened |-> fopen_path(o.path)]
CallString == call = None /\ \E s, n, r \in Strings :
  call' = [op |-> "string", s |-> s, n |-> n, r |-> r,
           replaced |-> str_replace(s, n, r), removed |-> str_remove(s, n),
           starts |-> str_starts_with(s, n), ends |-> str_ends_with(s, n)]
CallIme == call = None /\ \E u \in Units :
  call' = [op |-> "ime", text |-> u, utf8 |-> utf16_to_utf8(u)]
CallReturns == call # None /\ call' = None

ConvNext == \/ CallFnmatch \/ CallOpen \/ CallString \/ CallIme \/ CallReturns
ConvInit == call = None

------------------------------------------------------------------------------
(* Reference for fnmatch: the pattern is a list of elements, and the set of *)
(* positions of the name reached after each of them is folded over it.     *)
RECURSIVE Elements(_, _)
Elements(pat, flags) ==
  IF pat = <<>> THEN <<>>
  ELSE LET class == fnmatch_range(Tail(pat), 0, flags)
           lit == Escaped(pat, flags)
       IN CASE Head(pat) = Star -> <<[kind |-> "star"]>> \o Elements(Tail(pat), flags)
            [] Head(pat) = Query -> <<[kind |-> "any"]>> \o Elements(Tail(pat), flags)
            [] Head(pat) = Bracket /\ class.result >= 0 ->
                 <<[kind |-> "class", of |-> Tail(pat)]>>
                 \o Elements(class.pattern, flags)
            [] OTHER -> <<[kind |-> "char", c |-> Head(lit)]>>
                        \o Elements(Tail(lit), flags)

Matches(g) ==
  LET name == g.name
      N == Len(name)
      path == "PATHNAME" \in g.flags
      slash(p) == path /\ p < N /\ name[p + 1] = Slash
      hidden(p) == /\ "PERIOD" \in g.flags /\ p < N /\ name[p + 1] = Dot
                   /\ p = 0 \/ (path /\ name[p] = Slash)
      step(e, p) ==
        CASE e.kind = "star" -> IF hidden(p) THEN {}
               ELSE {q \in p..N : \A i \in p .. q - 1 : ~slash(i)}
          [] p = N -> {}
          [] e.kind = "char" ->
               IF fnmatch_char_equal(e.c, name[p + 1], g.flags) THEN {p + 1} ELSE {}
          [] hidden(p) \/ slash(p) -> {}
          [] e.kind = "any" -> {p + 1}
          [] OTHER -> IF fnmatch_range(e.of, name[p + 1], g.flags).result = 1
                      THEN {p + 1} ELSE {}
      reached == FoldLeft(LAMBDA S, e : UNION {step(e, p) : p \in S}, {0},
                          Elements(g.pattern, g.flags))
  IN \/ N \in reached
     \/ "LEADING_DIR" \in g.flags /\ \E p \in reached : p < N /\ name[p + 1] = Slash

\* An escaped '/' or '.' is taken for no explicit match by the code, so that
\* "a\/b" does not match "a/b" with FNM_PATHNAME.
EscapesSeparator(g) ==
  \E i \in 1 .. Len(g.pattern) - 1 :
    g.pattern[i] = Escape /\ g.pattern[i + 1] \in {Slash, Dot}

\* fnmatch_impl's backtracking finds a match exactly where one exists: stars
\* stop at a '/' under FNM_PATHNAME, and a leading period is only matched by
\* itself, also behind an empty star.  Patterns that escape a separator are
\* excepted.
FnmatchIsMatch ==
  call.op = "fnmatch" /\ ~EscapesSeparator(call.glob)
    => call.match = Matches(call.glob)

\* Every flag the engine gives to open reaches newlib, the access mode is the
\* one asked for, and nothing is created that the engine did not ask to create,
\* for flag sets without O_DIRECTORY alone (which the code takes for O_TMPFILE).
OpenKeepsFlags ==
  call.op = "open" /\ ("DIRECTORY" \in call.arg.flags => "_TMPFILE" \in call.arg.flags)
    => LET f == call.arg.flags
           out == call.opened.flags
       IN /\ \A x \in {"NONBLOCK", "APPEND", "TRUNC", "EXCL"} : x \in f <=> x \in out
          /\ "CREAT" \in f => "CREAT" \in out /\ call.opened.mode
          /\ {"WRONLY", "RDWR"} \cap f # {} => "RDONLY" \notin out
          /\ "RDWR" \in f => "RDWR" \in out
          /\ "CREAT" \in out => {"CREAT", "_TMPFILE"} \cap f # {}
          /\ call.arg.path # "/dev/urandom" => call.opened.path = call.fopened

\* str_replace computes the length before it copies: what it writes ends where
\* it said and fits; it replaces the leftmost occurrences that do not overlap,
\* and str_remove, which works in place, agrees with replacing by nothing.
StringsAgree ==
  call.op = "string" =>
    /\ Len(call.replaced.str) = call.replaced.end
    /\ call.replaced.end <= call.replaced.room
    /\ call.n # <<>> => call.replaced.str = ReplaceAllSubSeqs(call.r, call.n, call.s)
    /\ call.removed = str_replace(call.s, call.n, <<>>).str
    /\ call.starts = IsPrefix(call.n, call.s)
    /\ call.ends = IsSuffix(call.n, call.s)

\* Text of the basic plane survives the way from the keyboard to the engine
\* and back, and needs at most three bytes per unit.
ImeRoundTrip ==
  call.op = "ime" /\ (\A i \in DOMAIN call.text :
                        ~HighSurrogate(call.text[i]) /\ ~LowSurrogate(call.text[i]))
    => /\ utf8_to_utf16(call.utf8) = call.text
       /\ \A i \in DOMAIN call.utf8 : call.utf8[i] \in 1..255
       /\ Len(call.utf8) <= 3 * Len(call.text)

\* What is translated for the engine means there what it meant before.
TextsAreKept == FnmatchIsMatch /\ OpenKeepsFlags /\ StringsAgree /\ ImeRoundTrip
==============================================================================
