------------------------ MODULE InstrumentationConfig ------------------------
(***************************************************************************)
(* The configuration that instrumentation reads: values set in code by the *)
(* Tracer's Set* methods, on any goroutine, and values set centrally, which *)
(* the tracer loop receives from a config watcher (config.go and the       *)
(* configWatcher, configChanges and configCommands cases of Tracer.loop).  *)
(*                                                                         *)
(* A config is published by swapping a pointer, which its number of swaps  *)
(* identifies.  updateInstrumentationConfig loads the pointer, lets a      *)
(* function change a copy, and swaps the copy in unless the pointer has    *)
(* changed, in which case it starts again.  The copy is shallow: all       *)
(* copies share one `local` map, which is changed in place.                *)
(***************************************************************************)
EXTENDS Integers, FiniteSets

CONSTANTS
    Field,          \* the settings, each also the name of an environment variable
    Value,          \* values of a setting
    Bad,            \* an attribute that cannot be parsed or is not supported
    Default,        \* the value of every setting in TracerOptions
    Call,           \* the calls of Set* methods
    CallField,      \* CallField[c]: the setting c sets
    CallValue,      \* CallValue[c]: the value c sets it to
    Loop,           \* the tracer loop
    WatcherCloses,  \* whether a watcher may close its channel, on a fatal condition
    MaxChanges,     \* bound: changes received from watchers
    MaxWatches      \* bound: calls of SetConfigWatcher

Process == Call \cup {Loop}

ASSUME InstrumentationConfigAssumption ==
    /\ "recording" \in Field
    /\ Default \in Value
    /\ Bad \notin Value
    /\ Loop \notin Call
    /\ CallField \in [Call -> Field] /\ CallValue \in [Call -> Value]
    /\ WatcherCloses \in BOOLEAN
    /\ MaxChanges \in Nat /\ MaxWatches \in Nat

VARIABLES
    config,            \* the published config: [swaps, values, remote]
    local,             \* the map all configs share: key -> what its function sets
    pc,                \* where each process stands
    old, new,          \* oldConfig and newConfig of each process
    watching,          \* configChanges # nil
    attrs,             \* the attributes the loop is applying, else empty
    lastConfigChange,  \* the attributes applied last
    recording,         \* tracerConfig.recording, for the loop's own use
    changes, watches,  \* bounded
    set,               \* history: the value set last in code, per setting
    reset              \* no change seen since the start, or since a watcher was replaced

vars == <<config, local, pc, old, new, watching, attrs, lastConfigChange, recording,
          changes, watches, set, reset>>
watchVars == <<watching, attrs, lastConfigChange, changes, watches, reset>>

NoConfig == [swaps |-> 0, values |-> [f \in Field |-> Default], remote |-> {}]
Empty == [k \in {} |-> Default]
Attrs(S) == UNION {[D -> S] : D \in SUBSET Field}

-----------------------------------------------------------------------------
(* updateInstrumentationConfig *)

Load(p) ==
    /\ pc[p] \in {"idle", "load"}
    /\ old' = [old EXCEPT ![p] = config]
    /\ pc' = [pc EXCEPT ![p] = "apply"]
    /\ UNCHANGED <<config, local, new, recording, set, watchVars>>

\* The key under which a Set* method keeps the function that sets field f: the
\* methods for these four settings pass the key of another one.
EnvKey(f) ==
    IF f \in {"spanStackTraceMinDuration", "stackTraceLimit", "captureHeaders",
              "captureBody"}
    THEN "maxSpans" ELSE f

\* Mutant: a value set in code is put into effect over a central one.
TakesEffectAlways(cfg, key) == TRUE

TakesEffect(cfg, key) == key \notin cfg.remote

\* The function setLocalInstrumentationConfig passes.
ApplyLocal(c) ==
    LET f == CallField[c]
        key == EnvKey(f)
    IN  /\ pc[c] = "apply"
        /\ local' = [local EXCEPT ![key] = [field |-> f, value |-> CallValue[c]]]
        /\ new' = [new EXCEPT ![c] =
               IF TakesEffect(old[c], key)
               THEN [old[c] EXCEPT !.values[f] = CallValue[c]]
               ELSE old[c]]
        /\ pc' = [pc EXCEPT ![c] = "swap"]
        /\ UNCHANGED <<config, old, recording, set, watchVars>>

\* The attributes of a that differ from the last ones, and those that are gone.
Updated(a) == {k \in DOMAIN a :
                  ~(k \in DOMAIN lastConfigChange /\ lastConfigChange[k] = a[k])}
Removed(a) == DOMAIN lastConfigChange \ DOMAIN a

\* The function updateRemoteConfig passes: updates first, then the functions
\* kept for the removed keys, in the order of a map's iteration.
ApplyRemote ==
    /\ pc[Loop] = "apply"
    /\ \E values \in [Field -> Value] :
           /\ \A f \in Field :
                  LET reverts == {k \in Removed(attrs) : local[k].field = f}
                  IN  IF reverts # {} THEN \E k \in reverts : values[f] = local[k].value
                      ELSE IF f \in Updated(attrs) THEN values[f] = attrs[f]
                      ELSE values[f] = old[Loop].values[f]
           /\ new' = [new EXCEPT ![Loop] =
                  [old[Loop] EXCEPT !.values = values, !.remote = DOMAIN attrs]]
    /\ pc' = [pc EXCEPT ![Loop] = "swap"]
    /\ UNCHANGED <<config, local, old, recording, set, watchVars>>

\* Mutant: the pointer is stored, whatever was stored meanwhile.
SwapsAlways(p) == TRUE

\* atomic.CompareAndSwapPointer
Swaps(p) == old[p].swaps = config.swaps

\* The local variables go out of scope with the turn of the loop.
Forget(p) ==
    /\ old' = [old EXCEPT ![p] = NoConfig]
    /\ new' = [new EXCEPT ![p] = NoConfig]

\* What follows the swap: SetRecording also sends the loop a command, and the
\* loop, when a change from the watcher was applied, carries on with one.
SwapLocal(c) ==
    /\ pc[c] = "swap"
    /\ IF Swaps(c)
       THEN /\ config' = [new[c] EXCEPT !.swaps = config.swaps + 1]
            /\ set' = [set EXCEPT ![CallField[c]] = CallValue[c]]
            /\ pc' = [pc EXCEPT ![c] = IF CallField[c] = "recording" THEN "send" ELSE "done"]
       ELSE /\ pc' = [pc EXCEPT ![c] = "load"]
            /\ UNCHANGED <<config, set>>
    /\ Forget(c)
    /\ UNCHANGED <<local, recording, watchVars>>

SwapRemote ==
    /\ pc[Loop] = "swap"
    /\ IF Swaps(Loop)
       THEN /\ config' = [new[Loop] EXCEPT !.swaps = config.swaps + 1]
            /\ lastConfigChange' = attrs
            /\ attrs' = Empty
            /\ pc' = [pc EXCEPT ![Loop] = IF reset THEN "select" ELSE "command"]
       ELSE /\ pc' = [pc EXCEPT ![Loop] = "load"]
            /\ UNCHANGED <<config, lastConfigChange, attrs>>
    /\ Forget(Loop)
    /\ UNCHANGED <<local, watching, recording, changes, watches, set, reset>>

-----------------------------------------------------------------------------
(* The tracer loop *)

\* Mutant: only what cannot be parsed now and was not set before is dropped.
AppliedAll(a) == a

\* updateRemoteConfig deletes from a what it cannot apply.
Applied(a) == [k \in {k \in DOMAIN a : a[k] # Bad} |-> a[k]]

\* case change := <-configChanges, for a change without an error; one with an
\* error is only logged.
CaseConfigChanges(a) ==
    /\ pc[Loop] = "select"
    /\ watching
    /\ changes < MaxChanges
    /\ changes' = changes + 1
    /\ reset' = FALSE
    /\ IF Updated(Applied(a)) \cup Removed(Applied(a)) = {}
       THEN /\ pc' = [pc EXCEPT ![Loop] = "command"]
            /\ UNCHANGED attrs
       ELSE /\ pc' = [pc EXCEPT ![Loop] = "load"]
            /\ attrs' = Applied(a)
    /\ UNCHANGED <<config, local, old, new, watching, lastConfigChange, recording, watches,
                   set>>

\* The same case when the channel is closed.
CaseConfigChangesClosed ==
    /\ pc[Loop] = "select"
    /\ watching /\ WatcherCloses
    /\ watching' = FALSE
    /\ UNCHANGED <<config, local, pc, old, new, attrs, lastConfigChange, recording, changes,
                   watches, set, reset>>

\* The command that follows a change.
CommandAfterChange ==
    /\ pc[Loop] = "command"
    /\ recording' = config.values["recording"]
    /\ pc' = [pc EXCEPT ![Loop] = "select"]
    /\ UNCHANGED <<config, local, old, new, set, watchVars>>

\* Mutant: what the previous watcher said is kept.
RevertsNever == FALSE

Reverts == watching

\* case cw := <-t.configWatcher, for a watcher (w) or nil.
CaseConfigWatcher(w) ==
    /\ pc[Loop] = "select"
    /\ watches < MaxWatches
    /\ watches' = watches + 1
    /\ watching' = w
    /\ reset' = (reset \/ watching)
    /\ pc' = [pc EXCEPT ![Loop] = IF Reverts /\ Removed(Empty) # {} THEN "load" ELSE "select"]
    /\ UNCHANGED <<config, local, old, new, attrs, lastConfigChange, recording, changes, set>>

\* Mutant: the value the call set is taken to be in effect.
CommandRecordingCalled(c) == CallValue[c]

CommandRecording(c) == config.values["recording"]

\* case cmd := <-t.configCommands, for the command SetRecording sends.
CaseConfigCommand(c) ==
    /\ pc[Loop] = "select"
    /\ pc[c] = "send"
    /\ recording' = CommandRecording(c)
    /\ pc' = [pc EXCEPT ![c] = "done"]
    /\ UNCHANGED <<config, local, old, new, set, watchVars>>

-----------------------------------------------------------------------------

\* newTracer sets every setting locally, once, before anything else runs; the
\* loop starts with a watcher.
Init ==
    /\ config = NoConfig
    /\ local = [f \in Field |-> [field |-> f, value |-> Default]]
    /\ pc = [p \in Process |-> IF p = Loop THEN "select" ELSE "idle"]
    /\ old = [p \in Process |-> NoConfig] /\ new = [p \in Process |-> NoConfig]
    /\ watching = TRUE /\ attrs = Empty /\ lastConfigChange = Empty
    /\ recording = Default
    /\ changes = 0 /\ watches = 0
    /\ set = [f \in Field |-> Default] /\ reset = TRUE

Next ==
    \/ \E p \in Process : Load(p)
    \/ \E c \in Call : ApplyLocal(c) \/ SwapLocal(c) \/ CaseConfigCommand(c)
    \/ ApplyRemote \/ SwapRemote \/ CommandAfterChange
    \/ \E a \in Attrs(Value \cup {Bad}) : CaseConfigChanges(a)
    \/ CaseConfigChangesClosed
    \/ \E w \in BOOLEAN : CaseConfigWatcher(w)

Spec == Init /\ [][Next]_vars

-----------------------------------------------------------------------------
(* Properties *)

ConfigType == [swaps : Nat, values : [Field -> Value], remote : SUBSET Field]

\* Every variable has its type; in particular no unparsed attribute is ever
\* a setting's value or taken for an applied one.
TypeOK ==
    /\ config \in ConfigType
    /\ local \in [Field -> [field : Field, value : Value]]
    /\ pc \in [Process -> {"select", "idle", "load", "apply", "swap", "send", "command",
                        "done"}]
    /\ old \in [Process -> ConfigType] /\ new \in [Process -> ConfigType]
    /\ watching \in BOOLEAN /\ reset \in BOOLEAN
    /\ attrs \in Attrs(Value) /\ lastConfigChange \in Attrs(Value)
    /\ recording \in Value
    /\ changes \in Nat /\ watches \in Nat
    /\ set \in [Field -> Value]

\* Central configuration takes precedence: in every config ever published each
\* setting that is configured centrally has its central value, whatever Set*
\* calls run at the same time.
RemotePrecedence ==
    /\ config.remote = DOMAIN lastConfigChange
    /\ \A k \in config.remote : config.values[k] = lastConfigChange[k]

\* Once the calls under way are over, every setting that is not configured
\* centrally, or no longer, has the value set last in code: no update is lost
\* to another, to a central change or to its removal, and none comes back.
LocalInEffect ==
    (\A p \in Process : pc[p] \notin {"load", "apply", "swap"}) =>
        \A f \in Field \ config.remote : config.values[f] = set[f]

\* The loop's own recording flag, which governs metrics and profiling, agrees
\* with the one instrumentation uses once no command is on its way, unless
\* SetConfigWatcher has just reverted the latter: the loop's is not.
RecordingAgrees ==
    /\ \A p \in Process : pc[p] \in {"select", "idle", "done"}
    /\ reset => watches = 0
    => recording = config.values["recording"]

\* SetConfigWatcher, replacing a watcher that has not closed its channel,
\* discards central configuration: nothing is configured centrally until the
\* new watcher reports a change.
WatcherReset == reset /\ pc[Loop] = "select" => config.remote = {}

\* Central configuration is in effect exactly while it lasts, also across a
\* change that cannot be parsed and a new watcher.
CentralExact == TypeOK /\ RemotePrecedence /\ WatcherReset
=============================================================================
