------------------------------- MODULE Matching -------------------------------
(***************************************************************************)
(* The string functions of the bridge: fnmatch and the path redirections   *)
(* of reimpl/io.c, the flags of reimpl/bits/_struct_converters.c, the      *)
(* string helpers of utils/utils.c and the encodings of utils/dialog.c.    *)
(* A string is a sequence of character codes without its terminating NUL.  *)
(***************************************************************************)
EXTENDS Integers, Sequences, SequencesExt

Star == 42
Query == 63
Bracket == 91
Close == 93
Escape == 92
Dash == 45
Bang == 33
Caret == 94
Dot == 46
Slash == 47

\* *s: the character a pointer shows, NUL at the end.
At(s) == IF s = <<>> THEN 0 ELSE Head(s)
Rest(s) == IF s = <<>> THEN s ELSE Tail(s)
tolower(c) == IF c \in 65..90 THEN c + 32 ELSE c

fnmatch_char_equal(left, right, flags) ==
  IF "CASEFOLD" \in flags THEN tolower(left) = tolower(right) ELSE left = right

\* One character of a bracket expression, after its escape.
Escaped(pat, flags) ==
  IF At(pat) = Escape /\ "NOESCAPE" \notin flags /\ Rest(pat) # <<>>
  THEN Rest(pat) ELSE pat

\* The loop of fnmatch_range: `previous` is 0 where there is none.
RECURSIVE ScanRange(_, _, _, _, _)
ScanRange(pat, value, flags, previous, matched) ==
  IF At(pat) \in {0, Close} THEN [cursor |-> pat, matched |-> matched]
  ELSE
    LET here == Escaped(pat, flags)
        current == Head(here)
        next == Tail(here)
        last == Escaped(next, flags)
        fold(c) == IF "CASEFOLD" \in flags THEN tolower(c) ELSE c
    IN IF current = Dash /\ previous # 0 /\ At(next) \notin {0, Close}
       THEN ScanRange(Tail(last), value, flags, 0,
                      matched \/ (fold(previous) <= fold(value)
                                  /\ fold(value) <= fold(Head(last))))
       ELSE ScanRange(next, value, flags, current,
                      matched \/ fnmatch_char_equal(current, value, flags))

\* fnmatch_range: whether the value is in the class that starts after the '[',
\* and the pattern after it; result -1 where the class is not closed.
fnmatch_range(pat, value, flags) ==
  LET negate == At(pat) \in {Bang, Caret}
      scan == ScanRange(IF negate THEN Tail(pat) ELSE pat, value, flags, 0, FALSE)
  IN IF At(scan.cursor) # Close THEN [result |-> -1, pattern |-> pat]
     ELSE [result |-> IF scan.matched # negate THEN 1 ELSE 0,
           pattern |-> Tail(scan.cursor)]

RECURSIVE DropStars(_)
DropStars(pat) == IF At(pat) = Star THEN DropStars(Tail(pat)) ELSE pat

\* A slip: as StartAfterStar, with the flag left as it was.
StartKeptAfterStar(start) == start
\* Whether a character after a star starts a component: the code clears
\* at_component_start once the star has taken one.
StartAfterStar(start) == FALSE

RECURSIVE fnmatch_impl(_, _, _, _), StarTries(_, _, _, _)
StarTries(pat, str, flags, start) ==
  \/ fnmatch_impl(pat, str, flags, start)
  \/ /\ str # <<>>
     /\ ~("PATHNAME" \in flags /\ Head(str) = Slash)
     /\ StarTries(pat, Tail(str), flags, StartAfterStar(start))

fnmatch_impl(pat, str, flags, start) ==
  LET token == At(pat)
      value == At(str)
      rest == Rest(pat)
      stars == DropStars(rest)
      class == fnmatch_range(rest, value, flags)
      escaped == token = Escape /\ "NOESCAPE" \notin flags /\ rest # <<>>
      literal == IF escaped THEN Head(rest) ELSE token
  IN CASE token = 0 ->
            value = 0 \/ ("LEADING_DIR" \in flags /\ value = Slash)
       [] token = Star ->
            /\ ~("PERIOD" \in flags /\ start /\ value = Dot)
            /\ IF stars = <<>>
               THEN \/ "PATHNAME" \notin flags
                    \/ "LEADING_DIR" \in flags
                    \/ ~Contains(str, Slash)
               ELSE StarTries(stars, str, flags, start)
       [] value = 0 -> FALSE
       [] "PATHNAME" \in flags /\ value = Slash /\ token # Slash -> FALSE
       [] "PERIOD" \in flags /\ start /\ value = Dot /\ token # Dot -> FALSE
       [] token = Query -> fnmatch_impl(rest, Tail(str), flags, FALSE)
       [] token = Bracket /\ class.result >= 0 ->
            /\ class.result = 1
            /\ fnmatch_impl(class.pattern, Tail(str), flags, FALSE)
       [] OTHER ->
            /\ fnmatch_char_equal(literal, value, flags)
            /\ fnmatch_impl(IF escaped THEN Tail(rest) ELSE rest, Tail(str),
                            flags, "PATHNAME" \in flags /\ literal = Slash)

fnmatch(pat, str, flags) == fnmatch_impl(pat, str, flags, TRUE)

------------------------------------------------------------------------------
(* A path is its name here: the bridge only compares whole paths.          *)
Redirect(path) ==
  CASE path = "/proc/cpuinfo" -> "app0:/cpuinfo"
    [] path = "/proc/meminfo" -> "app0:/meminfo"
    [] OTHER -> path
fopen_path(path) == Redirect(path)
open_path(path) == IF path = "/dev/urandom" THEN "app0:/urandom" ELSE Redirect(path)

\* open() flags as sets of names.  `flags & BIONIC_O_TMPFILE` holds as soon as
\* one of the two bits is there.
TMPFILE == {"_TMPFILE", "DIRECTORY"}
oflags_bionic_to_newlib(flags) ==
  {IF "RDWR" \in flags THEN "RDWR" ELSE IF "WRONLY" \in flags THEN "WRONLY" ELSE "RDONLY"}
  \cup (flags \cap {"NONBLOCK", "APPEND", "TRUNC", "EXCL"})
  \cup (IF "CREAT" \in flags \/ flags \cap TMPFILE # {} THEN {"CREAT"} ELSE {})
\* open_soloader: what it opens, how, and whether it reads a mode argument.
open_soloader(path, flags) ==
  [path |-> open_path(path), flags |-> oflags_bionic_to_newlib(flags),
   mode |-> "CREAT" \in flags \/ TMPFILE \subseteq flags]

------------------------------------------------------------------------------
(* utils.c                                                                 *)

\* strstr: the offset of the first occurrence, -1 for NULL.
strstr(s, needle) ==
  LET hits == {i \in 0 .. Len(s) - Len(needle) :
                 SubSeq(s, i + 1, i + Len(needle)) = needle}
  IN IF hits = {} THEN -1 ELSE CHOOSE i \in hits : \A j \in hits : i <= j

\* The counting loop of str_replace.
RECURSIVE CountNeedles(_, _)
CountNeedles(s, needle) ==
  LET i == strstr(s, needle)
  IN IF i < 0 THEN 0
     ELSE 1 + CountNeedles(SubSeq(s, i + Len(needle) + 1, Len(s)), needle)

\* The copying loop.
RECURSIVE CopyReplaced(_, _, _)
CopyReplaced(s, needle, replacement) ==
  LET i == strstr(s, needle)
  IN IF i < 0 THEN s
     ELSE SubSeq(s, 1, i) \o replacement
          \o CopyReplaced(SubSeq(s, i + Len(needle) + 1, Len(s)), needle, replacement)

\* The string str_replace leaves, what it allocated for it beside the NUL, and
\* the length at which it writes the last NUL.
str_replace(s, needle, replacement) ==
  LET count == CountNeedles(s, needle)
      final_len == Len(s) + Len(replacement) * count - Len(needle) * count
  IN IF needle = <<>> \/ s = <<>> \/ count = 0
     THEN [str |-> s, room |-> Len(s), end |-> Len(s)]
     ELSE [str |-> CopyReplaced(s, needle, replacement),
           room |-> IF final_len > Len(s) THEN final_len ELSE Len(s),
           end |-> final_len]

\* str_remove moves the pieces between the occurrences down in place: `kept`
\* is what lies before q, s from p on is still to be looked at.
RECURSIVE RemoveLoop(_, _, _)
RemoveLoop(kept, s, needle) ==
  LET i == strstr(s, needle)
  IN IF i < 0 THEN kept \o s
     ELSE RemoveLoop(kept \o SubSeq(s, 1, i),
                     SubSeq(s, i + Len(needle) + 1, Len(s)), needle)
str_remove(s, needle) == IF needle = <<>> THEN s ELSE RemoveLoop(<<>>, s, needle)

\* The loop of str_starts_with ends at the first difference or end.
str_starts_with(s, prefix) ==
  \/ prefix = <<>>
  \/ LET n == IF Len(s) < Len(prefix) THEN Len(s) ELSE Len(prefix)
     IN /\ \A i \in 1..n : prefix[i] = s[i]
        /\ Len(s) >= Len(prefix)
str_ends_with(s, suffix) ==
  /\ Len(s) >= Len(suffix)
  /\ SubSeq(s, Len(s) - Len(suffix) + 1, Len(s)) = suffix

------------------------------------------------------------------------------
(* dialog.c: the IME's UTF-16 to the engine's UTF-8 and back, with the     *)
(* shifts and masks written as divisions and remainders.                   *)
HighSurrogate(u) == u \in 55296..56319     \* D800..DBFF
LowSurrogate(u) == u \in 56320..57343      \* DC00..DFFF

\* The last two bytes of a character beyond the basic plane: the third comes
\* from bits 8-9 of the high surrogate and the low bits of the low one.
SurrogateTail(hi, lo) ==
  <<128 + 16 * ((hi \div 256) % 4) + ((4 * lo) % 16), 128 + (lo % 64)>>

ThreeBytes(u) == <<224 + ((u \div 4096) % 16), 128 + ((u \div 64) % 64), 128 + (u % 64)>>

RECURSIVE utf16_to_utf8(_)
utf16_to_utf8(src) ==
  IF src = <<>> THEN <<>>
  ELSE LET u == Head(src)
       IN CASE u < 128 -> <<u>> \o utf16_to_utf8(Tail(src))
            [] u \in 128..2047 ->
                 <<192 + (u \div 64), 128 + (u % 64)>> \o utf16_to_utf8(Tail(src))
            [] HighSurrogate(u) /\ LowSurrogate(At(Tail(src))) ->
                 <<240 + (((u + 64) \div 256) % 4),
                   128 + (((u \div 4) + 16) % 64)>>
                 \o SurrogateTail(u, src[2]) \o utf16_to_utf8(Tail(Tail(src)))
            [] OTHER -> ThreeBytes(u) \o utf16_to_utf8(Tail(src))

\* A byte beyond the end reads the NUL that ends the string.
ByteAt(src, i) == IF i <= Len(src) THEN src[i] ELSE 0

RECURSIVE utf8_to_utf16(_)
utf8_to_utf16(src) ==
  IF src = <<>> THEN <<>>
  ELSE LET b == Head(src)
           from(n) == utf8_to_utf16(SubSeq(src, n + 1, Len(src)))
       IN CASE b >= 224 ->
                 <<4096 * (b % 16) + 64 * (ByteAt(src, 2) % 64)
                   + (ByteAt(src, 3) % 64)>> \o from(3)
            [] b \in 192..223 ->
                 <<64 * (b % 32) + (ByteAt(src, 2) % 64)>> \o from(2)
            [] OTHER -> <<b>> \o from(1)
==============================================================================
