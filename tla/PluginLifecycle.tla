--------------------------- MODULE PluginLifecycle ---------------------------
(***************************************************************************)
(* How the plugin gets between the engine and the game's bone set-up, and  *)
(* out again: OnMetaAttach, dlsym_hook (GetProcAddressHooked on Windows is *)
(* the same), Server_GetBlendingInterface and OnMetaDetach of              *)
(* src/main.cpp, with the hooks of dep/subhook.                            *)
(*                                                                         *)
(* The engine asks the game library for Server_GetBlendingInterface by     *)
(* name, calls it with the address of its table pointer, and from then on  *)
(* poses players through SV_StudioSetupBones of the table pointed to.      *)
(* A game library that has the function points the engine to its own       *)
(* table; one that does not leaves it pointing to the engine's.            *)
(*                                                                         *)
(* The engine is asked through the API of a ReHLDS; in an HLDS the plugin  *)
(* finds svs and sv by their use in the engine's code (PatternScan).  That *)
(* code is in engine_i486.so on Linux; on Windows in hw.dll of a listen    *)
(* server and in swds.dll of a dedicated one, where the plugin looks for   *)
(* svs only: it looks for sv in hw.dll all the same.                       *)
(***************************************************************************)
EXTENDS PatternScan

CONSTANTS
  Engines,     \* engines of the instance, of "rehlds", "oldrehlds", "hlds"
  Images,      \* contents that the module of an HLDS engine may have
  SvsPattern,  \* the patterns of hlds_api::Init
  SvPattern,
  Dirs,        \* game directories, of "cstrike", "valve", "other"
  Versions,    \* interface versions the engine may have, of "current", "other"
  MaxRequest   \* bound: calls of Server_GetBlendingInterface

ASSUME LifecycleAssumption ==
  /\ Engines \subseteq {"rehlds", "oldrehlds", "hlds"}
  /\ Dirs \subseteq {"cstrike", "valve", "other"}
  /\ Versions \subseteq {"current", "other"}
  /\ MaxRequest \in Nat

\* A module lies within the address space, and nothing at the bottom of it; the patterns
\* are of bytes with an operand between them.
ASSUME ImagesAssumption ==
  /\ \A m \in Images : m \in Seq(0..255) /\ Base + Len(m) <= AddrSpace
  /\ \A p \in {SvsPattern, SvPattern} :
       LET q == ParsePattern(p) IN
       /\ q.bytes \in Seq(0..255 \cup {Wild})
       /\ q.deref /\ q.offset \in Nat /\ q.offset + WordSize <= Len(q.bytes)
       /\ LLength(p) <= Base

Modules   == {"engine_i486.so", "hw.dll", "swds.dll"}
Tables    == {"engine", "game"}
\* A function: a table's own one, the plugin's for one of the two games, or none.
Ours      == {"CS_StudioSetupBones", "HL_StudioSetupBones"}
Function  == Tables \cup Ours \cup {"null"}
HookState == {"null", "removed", "installed"}   \* a subhook_t

VARIABLES
  engine,      \* external: which engine
  version,     \* external: the version of its blending interface
  moduleName,  \* external: the name of an HLDS's module
  image,       \* external: what is in that module, or Absent
  dir,         \* external: the game directory
  exports,     \* external: the game library has Server_GetBlendingInterface
  accepts,     \* external: and that takes the version
  plugin,      \* "new", "attached", "refused" or "unloaded", or "crashed"
  svs, sv,     \* members of hlds_api
  gameType,    \* g_eGameType
  orig,        \* Server_GetBlendingInterfaceOrig is set
  hook,        \* Server_GetBlendingInterfaceHook
  dlsymHook,   \* dlsymHook
  found,       \* external: what the engine's look-up gave: "none", "game", "ours"
  current,     \* external: the table the engine's pointer points to
  table,       \* SV_StudioSetupBones of both tables
  saved,       \* orig_interface.SV_StudioSetupBones
  asked,       \* orig_ppinterface is set
  requests     \* external: calls of Server_GetBlendingInterface

hosts == <<engine, version, moduleName, image, dir, exports, accepts>>
vars  == <<hosts, plugin, svs, sv, gameType, orig, hook, dlsymHook, found, current, table,
           saved, asked, requests>>

Init ==
  /\ engine \in Engines /\ version \in Versions /\ dir \in Dirs /\ exports \in BOOLEAN
  /\ accepts \in IF version = "current" THEN {TRUE} ELSE BOOLEAN
  /\ IF engine = "hlds" THEN moduleName \in Modules /\ image \in Images
                        ELSE moduleName = "none" /\ image = Absent
  /\ plugin = "new"
  /\ svs = 0 /\ sv = 0
  /\ gameType = "uninitialized"
  /\ orig = FALSE
  /\ hook = "null" /\ dlsymHook = "null"
  /\ found = "none"
  /\ current = "engine"
  /\ table = [t \in Tables |-> t]
  /\ saved = "null"
  /\ asked = FALSE
  /\ requests = 0

-----------------------------------------------------------------------------
(* Helpers.  X_Y is X with a slip Y, used by no action.                    *)

\* subhook_install and subhook_remove: on no hook, or one in that state, an error
\* that nobody looks at.
Install(h) == IF h = "null" THEN h ELSE "installed"
Remove_Never(h) == h
Remove(h) == IF h = "null" THEN h ELSE "removed"

\* FindPattern by name.  Windows tells nothing, or of the executable, where no module has
\* the name, and GetModuleInfo then takes what it has: the search ends in a fault, without
\* a place, or with 1 for a word of some other place.
Windows == moduleName # "engine_i486.so"
Named(name) == IF name = moduleName THEN image ELSE Absent
FindIn(pattern, name) ==
  IF Windows /\ Named(name) = Absent THEN {Fault, 0, 1}
                                     ELSE {FindPattern(pattern, Named(name))}

\* What hlds_api::Init finds: it looks for both, and a fault ends the process.
Globals ==
  IF Windows
    THEN FindIn(SvsPattern, IF Named("hw.dll") # Absent THEN "hw.dll" ELSE "swds.dll")
           \X FindIn(SvPattern, "hw.dll")
    ELSE FindIn(SvsPattern, "engine_i486.so") \X FindIn(SvPattern, "engine_i486.so")

\* rehlds_api or hlds_api initialises; an old ReHLDS is refused.
ApiOf(globals) == CASE engine = "rehlds"    -> "ready"
                    [] engine = "oldrehlds" -> "refused"
                    [] OTHER -> IF Fault \in {globals[1], globals[2]} THEN "crashed"
                                ELSE IF 0 \in {globals[1], globals[2]} THEN "refused"
                                ELSE "ready"

GameOf_Name(d) == IF d = "cstrike" THEN "CStrike" ELSE d
GameOf(d) ==
  IF d = "cstrike" THEN "CStrike" ELSE IF d = "valve" THEN "HL1" ELSE "unsupported"

OurFunction_ByTable(type) ==
  IF current = "game" THEN "CS_StudioSetupBones" ELSE "HL_StudioSetupBones"
OurFunction(type) == IF type = "CStrike" THEN "CS_StudioSetupBones" ELSE "HL_StudioSetupBones"

\* The game's own Server_GetBlendingInterface, called with the table pointer.
PointedTo == IF orig /\ accepts THEN "game" ELSE current

\* What OnMetaDetach writes back.
Restored_Nothing == table
Restored == [table EXCEPT ![current] = saved]

-----------------------------------------------------------------------------
(* The plugin.                                                             *)

\* Meta_Attach.  made: subhook_new had the memory for the hook.
OnMetaAttach(made) ==
  \E globals \in IF engine = "hlds" THEN Globals ELSE {<<0, 0>>} :
    LET api == ApiOf(globals) IN
    /\ plugin = "new"
    /\ svs' = IF api = "crashed" THEN svs ELSE globals[1]
    /\ sv'  = IF api = "crashed" THEN sv ELSE globals[2]
    /\ gameType' = IF api = "ready" THEN GameOf(dir) ELSE gameType
    /\ IF api = "ready" /\ GameOf(dir) # "unsupported"
         THEN /\ plugin' = "attached"
              /\ orig' = exports
              /\ hook' = IF exports /\ made THEN "installed" ELSE hook
              /\ dlsymHook' = IF ~exports /\ made THEN "installed" ELSE dlsymHook
         ELSE /\ plugin' = IF api = "crashed" THEN "crashed" ELSE "refused"
              /\ UNCHANGED <<orig, hook, dlsymHook>>
    /\ UNCHANGED <<hosts, found, current, table, saved, asked, requests>>

\* Somebody looks up a name.  dlsym_hook leaves itself removed once the name is
\* Server_GetBlendingInterface, and puts itself back after any other.
Dlsym(name) ==
  LET hooked == dlsymHook = "installed"
      ours   == name = "Server_GetBlendingInterface"
  IN
  /\ plugin # "crashed"
  /\ IF hooked /\ plugin = "unloaded"
       THEN plugin' = "crashed" /\ UNCHANGED <<dlsymHook, found>>
       ELSE /\ dlsymHook' = IF ~hooked THEN dlsymHook
                            ELSE IF ours THEN Remove(dlsymHook)
                            ELSE Install(Remove(dlsymHook))
            /\ found' = IF ~ours THEN found
                        ELSE IF hooked THEN "ours"
                        ELSE IF exports THEN "game" ELSE "none"
            /\ UNCHANGED plugin
  /\ UNCHANGED <<hosts, svs, sv, gameType, orig, hook, current, table, saved, asked, requests>>

\* The plugin's Server_GetBlendingInterface: the game's function with its hook lifted,
\* then what is in the table is saved and replaced.  It refuses another version, but
\* only after that call and the saving.
Server_GetBlendingInterface ==
  /\ asked' = TRUE
  /\ hook' = Install(Remove(hook))
  /\ saved' = table[PointedTo]
  /\ IF version = "current"
       THEN /\ table' = [table EXCEPT ![PointedTo] = OurFunction(gameType)]
            /\ current' = PointedTo
       ELSE /\ current' = "engine"     \* the engine takes its own table again
            /\ UNCHANGED table

\* The engine calls what it found; the game's function leads to the plugin while hooked.
Request ==
  /\ plugin # "crashed" /\ found # "none" /\ requests < MaxRequest
  /\ requests' = requests + 1
  /\ IF found = "ours" \/ hook = "installed"
       THEN IF plugin = "unloaded"
              THEN plugin' = "crashed" /\ UNCHANGED <<hook, current, table, saved, asked>>
              ELSE Server_GetBlendingInterface /\ UNCHANGED plugin
       ELSE /\ current' = IF accepts THEN "game" ELSE "engine"
            /\ UNCHANGED <<plugin, hook, table, saved, asked>>
  /\ UNCHANGED <<hosts, svs, sv, gameType, orig, dlsymHook, found>>

\* Meta_Detach: without orig_ppinterface it dereferences a null pointer.
OnMetaDetach ==
  /\ plugin = "attached"
  /\ hook' = Remove(hook)
  /\ IF asked THEN table' = Restored /\ plugin' = "unloaded"
              ELSE UNCHANGED table /\ plugin' = "crashed"
  /\ UNCHANGED <<hosts, svs, sv, gameType, orig, dlsymHook, found, current, saved, asked, requests>>

Next ==
  \/ \E made \in BOOLEAN : OnMetaAttach(made)
  \/ \E name \in {"Server_GetBlendingInterface", "another"} : Dlsym(name)
  \/ Request
  \/ OnMetaDetach

Spec == Init /\ [][Next]_vars

-----------------------------------------------------------------------------
(* Properties.                                                             *)

\* Types of the variables.
TypeOK ==
  /\ plugin \in {"new", "attached", "refused", "unloaded", "crashed"}
  /\ svs \in Nat /\ sv \in Nat
  /\ gameType \in {"uninitialized", "unsupported", "CStrike", "HL1"}
  /\ orig \in BOOLEAN /\ asked \in BOOLEAN
  /\ hook \in HookState /\ dlsymHook \in HookState
  /\ found \in {"none", "game", "ours"}
  /\ current \in Tables
  /\ table \in [Tables -> Function]
  /\ saved \in Function
  /\ requests \in 0..MaxRequest

\* A pose that goes through the plugin finds its fallback (fix switched off, nofind, not
\* a player): the function that would have posed without the plugin, and it is of the
\* plugin's game type.
Fallback ==
  table[current] \in Ours =>
    /\ saved = current
    /\ table[current] = OurFunction(GameOf(dir))

\* Once unloaded the plugin leaves nothing behind that leads into it, and with an engine
\* of the version it is made for both tables are as they were.
CleanUnload ==
  plugin = "unloaded" =>
    /\ \A t \in Tables : table[t] \notin Ours
    /\ version = "current" => table = [t \in Tables |-> t]
    /\ hook # "installed" /\ dlsymHook # "installed"

\* svs and sv of an HLDS whose module is there are the operands where the code they are
\* known by first occurs in it; none of it is overlooked, and nothing else is taken for it.
\* Of sv that is not so on a dedicated server on Windows (api.h:51 looks into hw.dll).
FoundFirst ==
  plugin \in {"attached", "refused"} /\ engine = "hlds" /\ image # Absent =>
    /\ svs = IF Places(SvsPattern, image) = {} THEN 0 ELSE Operand(SvsPattern, image)
    /\ moduleName # "swds.dll" =>
         sv = IF Places(SvPattern, image) = {} THEN 0 ELSE Operand(SvPattern, image)

\* The plugin brings the process down by the search only if the engine has no such module,
\* or is the dedicated server on Windows, where it searches a module that is not there
\* (api.h:51): however short a module is, nothing behind it is read.
FaultOnlyAbsent ==
  plugin = "crashed" /\ gameType = "uninitialized" =>
    image = Absent \/ moduleName = "swds.dll"

\* meta_api.cpp:22, "PT_ANYTIME, // (when) unloadable".
UnloadAnytime == plugin # "crashed"
=============================================================================
