-------------------------------- MODULE EnginePatch --------------------------------
(***************************************************************************)
(* patch.c: the page of atomic helpers put beside the engine, and the hooks *)
(* on the engine's Lua.  A Lua state is its stack and its globals; `plain`  *)
(* is the state a Lua without hooks would be in, but for the tables and the *)
(* name the hooks are there to add.                                         *)
(***************************************************************************)
EXTENDS Integers, Sequences, FiniteSets, SequencesExt

CONSTANTS
  Address,     \* the addresses of the small machine, 0..n
  PageBase, PageSize,
  MaxDepth     \* bound: values on the Lua stack
ASSUME PageAssumption ==
  PageBase \in Nat /\ PageSize \in Nat \ {0} /\ Address \subseteq Nat

VARIABLES text, data, page,              \* two segments, and "unmapped", "fatal" or "mapped"
          found, hooks,                  \* exported Lua functions; "none", "fatal" or "installed"
          crashed,                       \* a hook was put, or called, where nothing is
          lua, plain, queued

patchVars == <<text, data, page, found, hooks, crashed, lua, plain, queued>>

------------------------------------------------------------------------------
\* The helper page

ranges_overlap(a, a_size, b, b_size) == a < b + b_size /\ b < a + a_size

Segments == {s \in [base : Address, size : 0..3] : s.base + s.size - 1 \in Address \/ s.size = 0}
InSegment(s) == {n \in Address : s.base <= n /\ n < s.base + s.size}
HelperPage == [base |-> PageBase, size |-> PageSize]

kuser_patch ==
  /\ page = "unmapped"
  /\ IF \E s \in {text, data} : ranges_overlap(PageBase, PageSize, s.base, s.size)
     THEN page' = "fatal"
     ELSE page' \in {"mapped", "fatal"}      \* the kernel may refuse the block
  /\ UNCHANGED <<text, data, found, hooks, crashed, lua, plain, queued>>

------------------------------------------------------------------------------
\* Installing the hooks

LuaFunctions == {"lua_pcallk", "luaL_loadbufferx", "luaL_loadfilex", "lua_getglobal", "PLT",
  "lua_tolstring", "lua_gettop", "lua_settop", "lua_type", "lua_createtable", "lua_pushvalue",
  "lua_pushlstring", "lua_setglobal", "lua_setfield", "luaL_traceback", "lua_getinfo"}
\* What install_lua_diagnostics insists on.
Required == LuaFunctions \ {"lua_gettop", "lua_settop", "luaL_traceback", "lua_getinfo"}

\* luaD_throw is not exported: it is hooked at a distance from lua_getinfo,
\* found or not.  Without it the hook is written near address 0, which may end
\* the program or change nothing.
install_lua_diagnostics ==
  /\ page = "mapped" /\ hooks = "none"
  /\ hooks' = IF Required \subseteq found THEN "installed" ELSE "fatal"
  /\ crashed' \in IF hooks' = "installed" /\ "lua_getinfo" \notin found THEN BOOLEAN ELSE {FALSE}
  /\ UNCHANGED <<text, data, page, found, lua, plain, queued>>

------------------------------------------------------------------------------
\* Lua, as far as the hooks use it

Names == {"actionBarTooltip", "chargen"}
Push(L, v) == [L EXCEPT !.stack = Append(@, v)]
Pop(L, n) == [L EXCEPT !.stack = SubSeq(@, 1, Len(@) - n)]
SetTop(L, n) == [L EXCEPT !.stack = SubSeq(@, 1, n)]
GetGlobal(L, name) == Push(L, L.globals[name])
SetGlobal(L, name) == Pop([L EXCEPT !.globals[name] = Last(L.stack)], 1)
\* lua_tolstring turns a number into a string where it lies.
Tolstring(L) ==
  IF Last(L.stack) = "number" THEN Push(Pop(L, 1), "string") ELSE L

\* The table is made where the engine first reads the missing global.
OverNil(L, name) == SetGlobal(Push(Push(L, "table"), "table"), name)
InPlaceOfNil(L, name) == SetGlobal(Push(Push(Pop(L, 1), "table"), "table"), name)
HookedGetGlobal(L, name) ==
  LET got == GetGlobal(L, name)
  IN IF name = "actionBarTooltip" /\ Last(got.stack) = "nil" THEN InPlaceOfNil(got, name) ELSE got

\* inject_pending_chargen_name, with the name queued: a table gets the field.
Inject(L) ==
  LET got == GetGlobal(L, "chargen")
      set == IF Last(got.stack) = "table" THEN Pop(Push(got, "string"), 1) ELSE got
  IN SetTop(set, Len(L.stack))

\* log_lua_error: the message, then a traceback that is pushed and dropped.
log_lua_error(L) ==
  LET read == Tolstring(L)
  IN IF {"lua_gettop", "lua_settop", "luaL_traceback"} \subseteq found
     THEN SetTop(Push(read, "traceback"), Len(read.stack))
     ELSE read

LuaReady == hooks = "installed" /\ ~crashed
PatchVarsBut == <<text, data, page, found, hooks>>

\* What a hook calls on the engine's Lua without a look at the pointer; one that
\* was not found ends the program, whatever the hook had done by then.
ToReadGlobal == {"lua_getglobal", "lua_type"}
ToMakeTable == ToReadGlobal \cup {"lua_settop", "lua_createtable", "lua_pushvalue", "lua_setglobal"}
ToInject == {"lua_gettop", "lua_pushlstring", "lua_setglobal", "lua_getglobal", "lua_type",
             "lua_setfield", "lua_settop"}
ToReadError == {"lua_tolstring"}

\* A hook that calls `needs` leaves the engine's Lua as `L`, the Lua without
\* hooks is then `P`.
HookEnds(needs, L, P) ==
  /\ IF needs \subseteq found
     THEN lua' = L /\ plain' = P /\ UNCHANGED crashed
     ELSE crashed' = TRUE /\ UNCHANGED <<lua, plain>>
  /\ UNCHANGED PatchVarsBut

\* The engine reads a global through the PLT, where the hook is.
ReadGlobal(name) ==
  /\ LuaReady /\ Len(lua.stack) < MaxDepth
  /\ LET missing == name = "actionBarTooltip" /\ plain.globals[name] = "nil"
         made == IF missing THEN [plain EXCEPT !.globals[name] = "table"] ELSE plain
     IN HookEnds(IF missing THEN ToMakeTable ELSE ToReadGlobal,
                 HookedGetGlobal(lua, name), GetGlobal(made, name))
  /\ UNCHANGED queued

\* The engine assigns a global or drops what it no longer needs.
EngineSets(name) ==
  /\ LuaReady /\ lua.stack # <<>> /\ plain.stack # <<>>
  /\ lua' = SetGlobal(lua, name) /\ plain' = SetGlobal(plain, name)
  /\ UNCHANGED <<PatchVarsBut, crashed, queued>>

EnginePushes(v) ==
  /\ LuaReady /\ Len(lua.stack) < MaxDepth
  /\ lua' = Push(lua, v) /\ plain' = Push(plain, v)
  /\ UNCHANGED <<PatchVarsBut, crashed, queued>>

\* hooked_lua_pcallk on the value at the top: injection, then the call, whose
\* error stays on the stack for the engine.
Call(L, outcome) == Push(Pop(L, 1), outcome)
hooked_lua_pcallk(outcome) ==
  /\ LuaReady /\ lua.stack # <<>> /\ plain.stack # <<>>
  /\ LET injected == IF queued THEN Inject(lua) ELSE lua
         called == Call(injected, outcome)
         failed == outcome \in {"error", "number"}
     IN HookEnds((IF queued THEN ToInject ELSE {}) \cup (IF failed THEN ToReadError ELSE {}),
                 IF failed THEN log_lua_error(called) ELSE called, Call(plain, outcome))
  /\ queued' = FALSE

\* hooked_luaL_loadbufferx and _loadfilex: what the load pushed is read if it
\* failed.
hooked_load(outcome) ==
  /\ LuaReady /\ Len(lua.stack) < MaxDepth
  /\ LET loaded == Push(lua, outcome)
         failed == outcome # "table"
     IN HookEnds(IF failed THEN ToReadError ELSE {},
                 IF failed THEN Tolstring(loaded) ELSE loaded, Push(plain, outcome))
  /\ UNCHANGED queued

\* hooked_luaD_throw, where it could be hooked: the value at the top is logged
\* as an error.  It is one, which the call that catches it then drops, or what
\* a coroutine yields, which Lua throws just the same.
hooked_luaD_throw ==
  /\ LuaReady /\ "lua_getinfo" \in found /\ lua.stack # <<>>
  /\ HookEnds(ToReadError, log_lua_error(lua), plain)
  /\ UNCHANGED queued

QueueName == LuaReady /\ queued' = TRUE /\ UNCHANGED <<PatchVarsBut, crashed, lua, plain>>

PatchInit ==
  /\ text \in Segments /\ data \in Segments /\ page = "unmapped"
  /\ found \in {LuaFunctions} \cup {LuaFunctions \ {f} : f \in LuaFunctions}
  /\ hooks = "none" /\ crashed = FALSE
  /\ \E c \in {"nil", "table"} :
       lua = [stack |-> <<>>, globals |-> [name \in Names |-> IF name = "chargen" THEN c ELSE "nil"]]
  /\ plain = lua /\ queued = FALSE

PatchNext ==
  \/ kuser_patch \/ install_lua_diagnostics \/ QueueName \/ hooked_luaD_throw
  \/ \E name \in Names : ReadGlobal(name) \/ EngineSets(name)
  \/ \E v \in {"nil", "table", "number"} : EnginePushes(v)
  \/ \E outcome \in {"table", "error", "number"} :
       hooked_lua_pcallk(outcome) \/ hooked_load(outcome)

PatchSpec == PatchInit /\ [][PatchNext]_patchVars

------------------------------------------------------------------------------
\* The page is mapped only where neither segment of the engine has a byte.
PageIsFree ==
  page = "mapped" => \A s \in {text, data} : InSegment(s) \cap InSegment(HelperPage) = {}

\* No hook calls, or is put, where nothing is, but for the three lookups the
\* check forgets: lua_gettop and lua_settop, which hooks call, and lua_getinfo,
\* which the place of luaD_throw is reckoned from.
CallsAreFound ==
  crashed => \E f \in {"lua_gettop", "lua_settop", "lua_getinfo"} : f \notin found

\* The engine finds its Lua stack as it would without the hooks, through any
\* sequence of reads, calls, errors and yields; only a number that was thrown
\* as an error, or yielded, has become a string, because the log asked for its
\* text.
SameValue(v, w) == v = w \/ (w = "number" /\ v = "string")
HooksAreTransparent ==
  /\ Len(lua.stack) = Len(plain.stack)
  /\ \A i \in 1..Len(lua.stack) : SameValue(lua.stack[i], plain.stack[i])
  /\ \A name \in Names : SameValue(lua.globals[name], plain.globals[name])

PatchesAreSound == PageIsFree /\ CallsAreFound /\ HooksAreTransparent
==============================================================================
