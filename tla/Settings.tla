------------------------------ MODULE Settings ----------------------------
(***************************************************************************)
(* The configuration of an application, framework/config: built-in         *)
(* defaults, a global and a project file and the environment, one over the *)
(* other, and the reload of the project file while the program runs.       *)
(*                                                                         *)
(* A key is a word, as a sequence of "l" (lower case) and "U" (upper case) *)
(* letters, and stands for its whole path: mergeConfigMaps merges the      *)
(* sections key by key.  Every source of values has one value of its own,  *)
(* so that a value tells where it comes from; a project file may also      *)
(* hold a value that the struct cannot take or that Validate refuses.      *)
(***************************************************************************)
EXTENDS Naturals, Sequences

CONSTANTS
  Keys,          \* the fields of the target
  BuiltIn,       \* those with a default of applyBuiltInDefaults
  PoolKey,       \* the one with a deprecated twin, Db.MaxIdleConns
  Environments,  \* [search, plain, split]: the keys variables are set for
  GlobalFiles,   \* [found, parses, has], has in [Keys -> {Unset, "global"}]
  ProjectFiles,  \* the same with ProjectValues
  MaxEdits       \* bound: changes of the project file

Unset == "unset"

WrongType == "mistyped"   \* Unmarshal cannot decode it

Refused == "refused"        \* Validate returns an error

ProjectValues == {Unset, "project", WrongType, Refused}

SettingsAssumption ==
  /\ PoolKey \in Keys
  /\ GlobalFiles \subseteq
       [found : BOOLEAN, parses : BOOLEAN, has : [Keys -> {Unset, "global"}]]
  /\ ProjectFiles \subseteq
       [found : BOOLEAN, parses : BOOLEAN, has : [Keys -> ProjectValues]]

VARIABLES
  env,       \* the environment, and how EnableEnvSearcher was called
  global,    \* the global file
  project,   \* the project file
  edition,     \* changes of it so far
  changed,   \* fsnotify holds an event
  override,  \* viper: the values set by Set
  config,    \* viper: the values of the files
  target,    \* the struct
  legacy,    \* its deprecated twin of PoolKey
  phase,     \* "new", "failed", "loaded", "watched" or "handled"
  reloaded,  \* the target has been unmarshalled again
  handled    \* history: what the handler was last called with

settingsVars == <<env, global, project, edition, changed, override, config,
                  target, legacy, phase, reloaded, handled>>

NoValues == [k \in Keys |-> Unset]

Init ==
  /\ env \in Environments
  /\ global \in GlobalFiles
  /\ project \in ProjectFiles
  /\ edition = 0
  /\ changed = FALSE
  /\ override = NoValues
  /\ config = NoValues
  /\ target = [k \in Keys |-> "zero"]
  /\ legacy = "zero"
  /\ phase = "new"
  /\ reloaded = FALSE
  /\ handled = [called |-> FALSE, target |-> target, legacy |-> "zero",
                file |-> NoValues]

-----------------------------------------------------------------------------
(* Where splitCamel puts an underscore; a key without one has no variable  *)
(* in the split form.                                                      *)
splitCamel(word) ==
  {i \in 2 .. Len(word) :
     /\ word[i] = "U"
     /\ \/ word[i - 1] = "l"
        \/ i < Len(word) /\ word[i + 1] = "l"}

applySplitEnvOverrides ==
  [k \in Keys |->
     IF env.search = "prefix" /\ splitCamel(k) # {} /\ k \in env.split
     THEN "split" ELSE override[k]]

(* BindEnv: the variable of the key, read whenever the key is.             *)
Bound(k) ==
  IF env.search # "off" /\ k \in env.plain THEN "env" ELSE Unset

applyBuiltInDefaults(k) == IF k \in BuiltIn THEN "default" ELSE Unset

(* A value of one layer, and where it has none that of the layers below.   *)
Over(value, below) == IF value # Unset THEN value ELSE below

(* Mutant: the global file is merged over the project file.                *)
MergedTheOtherWay(base, src) == [k \in Keys |-> Over(base[k], src[k])]

mergeConfigMaps(base, src) == [k \in Keys |-> Over(src[k], base[k])]

(* viper's order of precedence.                                            *)
Get(over, conf, k) ==
  Over(over[k], Over(Bound(k), Over(conf[k], applyBuiltInDefaults(k))))

(* A field without a value keeps the one it has, and so does one whose     *)
(* value has the wrong type; the others are set even then.                 *)
Unmarshalled(over, conf) ==
  [k \in Keys |-> IF Get(over, conf, k) \in {Unset, WrongType}
                  THEN target[k] ELSE Get(over, conf, k)]

Decodes(over, conf) == \A k \in Keys : Get(over, conf, k) # WrongType

Validate(values) == \A k \in Keys : values[k] # Refused

normalizeBuiltInConfiguration(values) == values[PoolKey]

(* loadLayers, the content of the files; a global file that is missing is  *)
(* left out, every other failure is an error.                              *)
Content(file) == IF file.found /\ file.parses THEN file.has ELSE NoValues

LayersFail ==
  \/ ~ project.found \/ ~ project.parses
  \/ global.found /\ ~ global.parses

(* LoadToStruct; the target is written before it is validated.             *)
LoadToStruct ==
  /\ phase = "new"
  /\ config' = mergeConfigMaps(Content(global), Content(project))
  /\ override' = IF env.search = "off" THEN override
                 ELSE applySplitEnvOverrides
  /\ IF LayersFail
     THEN UNCHANGED <<target, legacy>> /\ phase' = "failed"
     ELSE /\ target' = Unmarshalled(override', config')
          /\ legacy' = IF Decodes(override', config')
                       THEN normalizeBuiltInConfiguration(target')
                       ELSE legacy
          /\ phase' = IF Decodes(override', config') /\ Validate(target')
                      THEN "loaded" ELSE "failed"
  /\ UNCHANGED <<env, global, project, edition, changed, reloaded, handled>>

(* Watch: viper watches the file before it knows the callback.             *)
WatchConfig ==
  /\ phase = "loaded"
  /\ phase' = "watched"
  /\ UNCHANGED <<env, global, project, edition, changed, override, config,
                 target, legacy, reloaded, handled>>

OnConfigChange ==
  /\ phase = "watched"
  /\ phase' = "handled"
  /\ UNCHANGED <<env, global, project, edition, changed, override, config,
                 target, legacy, reloaded, handled>>

(* An operator writes the file, which may not parse or not be complete.    *)
Edit(file) ==
  /\ phase \in {"loaded", "watched", "handled"}
  /\ edition < MaxEdits
  /\ file.found
  /\ file # project
  /\ edition' = edition + 1
  /\ project' = file
  /\ changed' = (phase # "loaded")
  /\ UNCHANGED <<env, global, override, config, target, legacy, phase,
                 reloaded, handled>>

(* Mutant: what was reloaded is not validated.                             *)
HandledUnvalidated(conf) == Decodes(override, conf)

(* Does the reload reach the handler?                                      *)
Succeeds(conf) ==
  Decodes(override, conf) /\ Validate(Unmarshalled(override, conf))

(* The goroutine of WatchConfig: viper reads the project file, which takes *)
(* the place of all the files' values, and calls the callback, also when   *)
(* the file did not parse.                                                 *)
Reload ==
  /\ changed
  /\ changed' = FALSE
  /\ config' = IF project.parses THEN project.has ELSE config
  /\ IF phase = "handled"
     THEN /\ reloaded' = TRUE
          /\ target' = Unmarshalled(override, config')
          /\ legacy' = IF Decodes(override, config')
                       THEN normalizeBuiltInConfiguration(target')
                       ELSE legacy
          /\ handled' = IF Succeeds(config')
                        THEN [called |-> TRUE, target |-> target',
                              legacy |-> legacy', file |-> config']
                        ELSE handled
     ELSE UNCHANGED <<reloaded, target, legacy, handled>>
  /\ UNCHANGED <<env, global, project, edition, override, phase>>

Next ==
  \/ LoadToStruct \/ WatchConfig \/ OnConfigChange \/ Reload
  \/ \E file \in ProjectFiles : Edit(file)

Spec == Init /\ [][Next]_settingsVars

-----------------------------------------------------------------------------
(* Properties.                                                             *)

(* A field set by the environment has its variable's value, the split one  *)
(* first.                                                                  *)
FromEnvironment(values) ==
  \A k \in Keys :
    /\ (env.search = "prefix" /\ k \in env.split /\ splitCamel(k) # {}) =>
         values[k] = "split"
    /\ (env.search # "off" /\ k \in env.plain) =>
         values[k] \in {"env", "split"}

(* A configuration that is loaded is the environment over the project file *)
(* over the global file over the defaults; and whatever is written to the  *)
(* file later, the handler only ever sees values that decode and validate, *)
(* with the environment still on top, those of the file below and the      *)
(* deprecated fields in step.                                              *)
SettingsLayered ==
  /\ (phase \in {"loaded", "watched", "handled"} /\ ~ reloaded) =>
       /\ FromEnvironment(target)
       /\ legacy = target[PoolKey]
       /\ \A k \in Keys :
            /\ target[k] = "global" => global.has[k] # Unset
            /\ target[k] = "default" =>
                 override[k] = Unset /\ k \in BuiltIn
            /\ (target[k] \in {"zero", "default"} /\ edition = 0) =>
                 project.has[k] = Unset /\ Content(global)[k] = Unset
            /\ (target[k] = "global" /\ edition = 0) => project.has[k] = Unset
  /\ handled.called =>
       /\ FromEnvironment(handled.target)
       /\ handled.legacy = handled.target[PoolKey]
       /\ \A k \in Keys :
            /\ handled.target[k] \notin {WrongType, Refused}
            /\ handled.target[k] = "default" => handled.file[k] = Unset

(* "The global configuration is loaded before the project's; equal keys of *)
(* the project override it": what the global file alone sets has its value *)
(* whenever the handler is called, as it had when it was loaded.           *)
LayersKept ==
  \A k \in Keys :
    (/\ handled.called
     /\ Content(global)[k] # Unset
     /\ handled.file[k] = Unset
     /\ Bound(k) = Unset /\ override[k] = Unset) =>
       handled.target[k] = "global"

-----------------------------------------------------------------------------
FileValues == ProjectValues \cup {"global"}

TargetValues == {"zero", "default", "global", "project", Refused, "env", "split"}

TypeOK ==
  /\ global \in GlobalFiles /\ project \in ProjectFiles /\ edition \in Nat
  /\ override \in [Keys -> {Unset, "split"}]
  /\ config \in [Keys -> FileValues]
  /\ target \in [Keys -> TargetValues]

(* Before it is loaded there is nothing; then the values set by Set are    *)
(* those of the environment, for good.                                     *)
OverridesSet ==
  IF phase = "new"
  THEN /\ override = NoValues /\ target = [k \in Keys |-> "zero"]
       /\ edition = 0 /\ ~ handled.called
  ELSE override = IF env.search = "off" THEN NoValues ELSE applySplitEnvOverrides

IInv == TypeOK /\ OverridesSet /\ SettingsLayered
=============================================================================
