------------------------ MODULE ConfigurationProofs -------------------------
(***************************************************************************)
(* Theorems about what is configured: about InstrumentationConfig, for     *)
(* every value of its constants in which each Set* method uses its own key *)
(* (OwnKeys), and about the patterns and options of Settings, for patterns *)
(* and texts of any length.                                                *)
(***************************************************************************)
EXTENDS InstrumentationConfig, Settings, SequenceTheorems, WellFoundedInduction, TLAPS

\* The calls are of Set* methods that pass the key of the setting they set.  For
\* the four that pass the key of max_spans the properties below do not hold.
OwnKeys == \A c \in Call : EnvKey(CallField[c]) = CallField[c]

-----------------------------------------------------------------------------
(* The invariants *)

\* A process between Load and the swap.
Updating == {"load", "apply", "swap"}

\* The config p loaded is still the published one.
Fresh(p) == old[p].swaps = config.swaps

\* What the function of call c makes of the config it is given.
LocalCopy(c) ==
    IF CallField[c] \notin old[c].remote
    THEN [old[c] EXCEPT !.values[CallField[c]] = CallValue[c]]
    ELSE old[c]

\* The inductive invariant behind CentralExact.  What a process is about to swap
\* in was made from the published config, unless the swap fails; the loop's
\* holds the attributes it is applying, which are none after a watcher has been
\* replaced.
CentralInv ==
    /\ TypeOK
    /\ \A k \in Field : local[k].field = k
    /\ pc[Loop] \in {"select", "load", "apply", "swap", "command"}
    /\ \A p \in Process : old[p].swaps <= config.swaps
    /\ \A p \in Process : pc[p] \in {"apply", "swap"} /\ Fresh(p) => old[p] = config
    /\ \A c \in Call : pc[c] = "swap" => new[c] = LocalCopy(c)
    /\ pc[Loop] = "swap" => new[Loop].remote = DOMAIN attrs
    /\ pc[Loop] = "swap" /\ Fresh(Loop) =>
           \A k \in DOMAIN attrs : new[Loop].values[k] = attrs[k]
    /\ reset \/ pc[Loop] \in {"select", "command"} => DOMAIN attrs = {}
    /\ pc[Loop] = "command" => ~reset
    /\ RemotePrecedence /\ WatcherReset

\* A call other than c that sets f is under way.
Other(c, f) == \E d \in Call \ {c} : CallField[d] = f /\ pc[d] \in Updating

\* A call that sets f is under way.
Pending(f) == \E c \in Call : CallField[c] = f /\ pc[c] \in Updating

\* The inductive invariant behind LocalInEffect: the function kept for a setting
\* and, unless it is configured centrally, its published value are those of the
\* call that came last, or a call that sets it is still under way, and will keep
\* its function and publish its value again.
LocalInv ==
    /\ \A f \in Field : local[f].value = set[f] \/ Pending(f)
    /\ \A f \in Field \ config.remote : config.values[f] = set[f] \/ Pending(f)
    /\ \A c \in Call : pc[c] = "swap" /\ Fresh(c) =>
           local[CallField[c]].value = CallValue[c] \/ Other(c, CallField[c])
    /\ pc[Loop] = "swap" /\ Fresh(Loop) =>
           \A f \in Field \ DOMAIN attrs : new[Loop].values[f] = set[f] \/ Pending(f)

\* The inductive invariant behind RecordingAgrees: the loop's flag agrees, or a
\* command or a change is on its way to it, or a watcher has been replaced.
RecordingInv ==
    /\ \/ recording = config.values["recording"]
       \/ \E c \in Call : pc[c] = "send"
       \/ pc[Loop] # "select"
       \/ reset /\ watches > 0
    /\ reset /\ pc[Loop] # "select" => watches > 0

-----------------------------------------------------------------------------
(* Lemmas about the operators *)

\* A copy differs from its original at most in the value set.
LEMMA LocalCopyIs ==
    ASSUME NEW c \in Call, old[c] \in ConfigType
    PROVE  /\ LocalCopy(c) \in ConfigType
           /\ LocalCopy(c).remote = old[c].remote
           /\ LocalCopy(c).swaps = old[c].swaps
           /\ \A f \in Field : LocalCopy(c).values[f] =
                  IF f = CallField[c] /\ f \notin old[c].remote THEN CallValue[c]
                  ELSE old[c].values[f]
BY InstrumentationConfigAssumption DEF LocalCopy, ConfigType

\* A config that is swapped in.
LEMMA Swapped ==
    ASSUME NEW cfg \in ConfigType, NEW n \in Nat
    PROVE  LET s == [cfg EXCEPT !.swaps = n] IN
           s \in ConfigType /\ s.swaps = n /\ s.remote = cfg.remote /\ s.values = cfg.values
BY DEF ConfigType

\* The attributes that can be applied.
LEMMA AppliedType ==
    ASSUME NEW a \in Attrs(Value \cup {Bad})
    PROVE  Applied(a) \in Attrs(Value)
<1>1. PICK D \in SUBSET Field : a \in [D -> Value \cup {Bad}]
  BY DEF Attrs
<1>2. {k \in DOMAIN a : a[k] # Bad} \in SUBSET Field
  BY <1>1
<1>3. Applied(a) \in [{k \in DOMAIN a : a[k] # Bad} -> Value]
  BY <1>1 DEF Applied
<1> QED
  BY <1>2, <1>3 DEF Attrs

\* Attributes are a function from settings.
LEMMA AttrsType ==
    ASSUME NEW a \in Attrs(Value)
    PROVE  DOMAIN a \subseteq Field /\ \A k \in DOMAIN a : a[k] \in Value
BY DEF Attrs

\* No attributes.
LEMMA EmptyType == Empty \in Attrs(Value) /\ DOMAIN Empty = {}
<1>1. Empty \in [{} -> Value] /\ {} \in SUBSET Field /\ DOMAIN Empty = {}
  BY DEF Empty
<1> QED
  BY <1>1 DEF Attrs

\* The config a local variable that has gone out of scope stands for.
LEMMA NoConfigType ==
    NoConfig \in ConfigType /\ NoConfig.swaps = 0 /\ NoConfig.remote = {}
BY InstrumentationConfigAssumption DEF NoConfig, ConfigType

-----------------------------------------------------------------------------
(* The central configuration *)

\* The invariant holds initially.
LEMMA CentralInit == Init => CentralInv
<1> SUFFICES ASSUME Init PROVE CentralInv
  OBVIOUS
<1>1. TypeOK
  BY InstrumentationConfigAssumption, EmptyType, NoConfigType DEF Init, TypeOK, Process
<1>2. RemotePrecedence /\ WatcherReset
  BY EmptyType, NoConfigType DEF Init, RemotePrecedence, WatcherReset
<1> QED
  BY <1>1, <1>2, InstrumentationConfigAssumption, EmptyType, NoConfigType
  DEF Init, CentralInv, Process

\* What the actions of a call do to its copies, its place and the map.
LEMMA ApplyLocalIs ==
    ASSUME OwnKeys, NEW c \in Call, ApplyLocal(c)
    PROVE  /\ pc[c] = "apply" /\ pc' = [pc EXCEPT ![c] = "swap"]
           /\ local' = [local EXCEPT ![CallField[c]] =
                           [field |-> CallField[c], value |-> CallValue[c]]]
           /\ new' = [new EXCEPT ![c] = LocalCopy(c)]
           /\ UNCHANGED <<config, old, recording, set, watchVars>>
BY DEF OwnKeys, ApplyLocal, LocalCopy, TakesEffect

\* The values the loop puts into its copy: a setting that is configured centrally
\* has its attribute or the value it had, one that is no longer is given what the
\* function kept for it sets, and any other keeps its value.
LEMMA ApplyRemoteIs ==
    ASSUME CentralInv, ApplyRemote
    PROVE  \E values \in [Field -> Value] :
              /\ new' = [new EXCEPT ![Loop] =
                     [old[Loop] EXCEPT !.values = values, !.remote = DOMAIN attrs]]
              /\ \A f \in Field :
                    values[f] = IF f \in Removed(attrs) THEN local[f].value
                                ELSE IF f \in Updated(attrs) THEN attrs[f]
                                ELSE old[Loop].values[f]
<1>1. PICK values \in [Field -> Value] :
         /\ \A f \in Field :
                  LET reverts == {k \in Removed(attrs) : local[k].field = f}
                  IN  IF reverts # {} THEN \E k \in reverts : values[f] = local[k].value
                      ELSE IF f \in Updated(attrs) THEN values[f] = attrs[f]
                      ELSE values[f] = old[Loop].values[f]
         /\ new' = [new EXCEPT ![Loop] =
                  [old[Loop] EXCEPT !.values = values, !.remote = DOMAIN attrs]]
  BY DEF ApplyRemote
<1>2. Removed(attrs) \subseteq Field
  BY AttrsType DEF CentralInv, TypeOK, Removed
<1>3. ASSUME NEW f \in Field
      PROVE  values[f] = IF f \in Removed(attrs) THEN local[f].value
                         ELSE IF f \in Updated(attrs) THEN attrs[f]
                         ELSE old[Loop].values[f]
  <2>1. {k \in Removed(attrs) : local[k].field = f} = IF f \in Removed(attrs) THEN {f} ELSE {}
    BY <1>2 DEF CentralInv
  <2>2. CASE f \in Removed(attrs)
    BY <1>1, <2>1, <2>2
  <2>3. CASE f \notin Removed(attrs)
    BY <1>1, <2>1, <2>3
  <2> QED
    BY <2>2, <2>3
<1> QED
  BY <1>1, <1>3

\* Every step of a call and of the loop preserves the invariant.
LEMMA CentralStep == OwnKeys /\ CentralInv /\ [Next]_vars => CentralInv'
<1> SUFFICES ASSUME OwnKeys, CentralInv, [Next]_vars PROVE CentralInv'
  OBVIOUS
<1> USE InstrumentationConfigAssumption DEF Process
<1>1. ASSUME NEW p \in Process, Load(p) PROVE CentralInv'
  <2>1. /\ pc[p] \in {"idle", "load"} /\ old' = [old EXCEPT ![p] = config]
        /\ pc' = [pc EXCEPT ![p] = "apply"]
        /\ UNCHANGED <<config, local, new, recording, set, watching, attrs,
                       lastConfigChange, changes, watches, reset>>
    BY <1>1 DEF Load, watchVars
  <2>2. TypeOK'
    BY <2>1 DEF CentralInv, TypeOK
  <2>3. RemotePrecedence' /\ WatcherReset'
    BY <2>1 DEF CentralInv, TypeOK, RemotePrecedence, WatcherReset
  <2>4. \A q \in Process : /\ old'[q].swaps <= config'.swaps
                           /\ pc'[q] \in {"apply", "swap"} /\ Fresh(q)' => old'[q] = config'
    BY <2>1 DEF CentralInv, TypeOK, Fresh, ConfigType
  <2> QED
    BY <2>1, <2>2, <2>3, <2>4 DEF CentralInv, TypeOK, Fresh, LocalCopy
<1>2. ASSUME NEW c \in Call, ApplyLocal(c) PROVE CentralInv'
  <2>1. /\ pc[c] = "apply" /\ pc' = [pc EXCEPT ![c] = "swap"]
        /\ local' = [local EXCEPT ![CallField[c]] =
                        [field |-> CallField[c], value |-> CallValue[c]]]
        /\ new' = [new EXCEPT ![c] = LocalCopy(c)]
        /\ UNCHANGED <<config, old, recording, set, watching, attrs,
                       lastConfigChange, changes, watches, reset>>
    BY <1>2, ApplyLocalIs DEF watchVars
  <2>2. TypeOK'
    <3>1. LocalCopy(c) \in ConfigType
      BY LocalCopyIs DEF CentralInv, TypeOK
    <3> QED
      BY <2>1, <3>1 DEF CentralInv, TypeOK
  <2>3. RemotePrecedence' /\ WatcherReset'
    BY <2>1 DEF CentralInv, TypeOK, RemotePrecedence, WatcherReset
  <2>4. \A k \in Field : local'[k].field = k
    BY <2>1 DEF CentralInv, TypeOK
  <2>5. \A d \in Call : pc'[d] = "swap" => new'[d] = LocalCopy(d)'
    BY <2>1 DEF CentralInv, TypeOK, LocalCopy
  <2> QED
    BY <2>1, <2>2, <2>3, <2>4, <2>5 DEF CentralInv, TypeOK, Fresh
<1>3. ASSUME NEW c \in Call, SwapLocal(c) PROVE CentralInv'
  <2>1. /\ pc[c] = "swap"
        /\ old' = [old EXCEPT ![c] = NoConfig] /\ new' = [new EXCEPT ![c] = NoConfig]
        /\ UNCHANGED <<local, recording, watching, attrs, lastConfigChange, changes, watches,
                       reset>>
    BY <1>3 DEF SwapLocal, Forget, watchVars
  <2>2. CASE Fresh(c)
    <3>1. /\ config' = [new[c] EXCEPT !.swaps = config.swaps + 1]
          /\ set' = [set EXCEPT ![CallField[c]] = CallValue[c]]
          /\ pc' = [pc EXCEPT ![c] = IF CallField[c] = "recording" THEN "send" ELSE "done"]
      BY <1>3, <2>2 DEF SwapLocal, Swaps, Fresh
    <3>2. new[c] = LocalCopy(c) /\ old[c] = config /\ old[c] \in ConfigType
      BY <2>1, <2>2 DEF CentralInv, TypeOK
    <3>3. /\ config' \in ConfigType /\ config'.swaps = config.swaps + 1
          /\ config'.remote = config.remote
          /\ \A f \in config.remote : config'.values[f] = config.values[f]
      <4>1. config.swaps + 1 \in Nat
        BY DEF CentralInv, TypeOK, ConfigType
      <4>2. config'.values = LocalCopy(c).values /\ config'.remote = LocalCopy(c).remote
              /\ config' \in ConfigType /\ config'.swaps = config.swaps + 1
        BY <3>1, <3>2, <4>1, LocalCopyIs, Swapped
      <4>3. config.remote \subseteq Field
        BY DEF CentralInv, TypeOK, ConfigType
      <4> QED
        BY <3>2, <4>2, <4>3, LocalCopyIs
    <3>4. TypeOK'
      BY <2>1, <3>1, <3>3, NoConfigType DEF CentralInv, TypeOK
    <3>5. RemotePrecedence' /\ WatcherReset'
      BY <2>1, <3>1, <3>3 DEF CentralInv, TypeOK, RemotePrecedence, WatcherReset
    <3>6. \A q \in Process : q # c => ~Fresh(q)' /\ old'[q].swaps <= config'.swaps
      BY <2>1, <3>3 DEF CentralInv, TypeOK, Fresh, ConfigType
    <3>7. old'[c].swaps <= config'.swaps
      BY <2>1, <3>3, NoConfigType DEF CentralInv, TypeOK, ConfigType
    <3> QED
      BY <2>1, <3>1, <3>4, <3>5, <3>6, <3>7 DEF CentralInv, TypeOK, LocalCopy
  <2>3. CASE ~Fresh(c)
    <3>1. pc' = [pc EXCEPT ![c] = "load"] /\ UNCHANGED <<config, set>>
      BY <1>3, <2>3 DEF SwapLocal, Swaps, Fresh
    <3>2. TypeOK'
      BY <2>1, <3>1, NoConfigType DEF CentralInv, TypeOK
    <3>3. RemotePrecedence' /\ WatcherReset'
      BY <2>1, <3>1 DEF CentralInv, TypeOK, RemotePrecedence, WatcherReset
    <3>4. \A q \in Process : old'[q].swaps <= config'.swaps
      BY <2>1, <3>1, NoConfigType DEF CentralInv, TypeOK, ConfigType
    <3> QED
      BY <2>1, <3>1, <3>2, <3>3, <3>4 DEF CentralInv, TypeOK, LocalCopy, Fresh
  <2> QED
    BY <2>2, <2>3
<1>4. ASSUME NEW c \in Call, CaseConfigCommand(c) PROVE CentralInv'
  <2>1. /\ pc[c] = "send" /\ pc' = [pc EXCEPT ![c] = "done"]
        /\ recording' = config.values["recording"]
        /\ UNCHANGED <<config, local, old, new, set, watching, attrs, lastConfigChange,
                       changes, watches, reset>>
    BY <1>4 DEF CaseConfigCommand, CommandRecording, watchVars
  <2>2. TypeOK'
    BY <2>1 DEF CentralInv, TypeOK, ConfigType
  <2>3. RemotePrecedence' /\ WatcherReset'
    BY <2>1 DEF CentralInv, TypeOK, RemotePrecedence, WatcherReset
  <2> QED
    BY <2>1, <2>2, <2>3 DEF CentralInv, TypeOK, Fresh, LocalCopy
<1>5. CASE ApplyRemote
  <2>1. PICK values \in [Field -> Value] :
           /\ new' = [new EXCEPT ![Loop] =
                  [old[Loop] EXCEPT !.values = values, !.remote = DOMAIN attrs]]
           /\ \A f \in Field :
                 values[f] = IF f \in Removed(attrs) THEN local[f].value
                             ELSE IF f \in Updated(attrs) THEN attrs[f]
                             ELSE old[Loop].values[f]
    BY <1>5, ApplyRemoteIs
  <2>2. /\ pc[Loop] = "apply" /\ pc' = [pc EXCEPT ![Loop] = "swap"]
        /\ UNCHANGED <<config, local, old, recording, set, watching, attrs,
                       lastConfigChange, changes, watches, reset>>
    BY <1>5 DEF ApplyRemote, watchVars
  <2>3. DOMAIN attrs \subseteq Field /\ old[Loop] \in ConfigType
    BY AttrsType DEF CentralInv, TypeOK
  <2>4. /\ new'[Loop] \in ConfigType /\ new'[Loop].values = values
        /\ new'[Loop].remote = DOMAIN attrs
    BY <2>1, <2>3 DEF CentralInv, TypeOK, ConfigType
  <2>5. TypeOK'
    BY <2>1, <2>2, <2>4 DEF CentralInv, TypeOK
  <2>6. RemotePrecedence' /\ WatcherReset'
    BY <2>2 DEF CentralInv, TypeOK, RemotePrecedence, WatcherReset
  <2>7. ASSUME Fresh(Loop), NEW k \in DOMAIN attrs PROVE values[k] = attrs[k]
    <3>1. k \notin Removed(attrs) /\ k \in Field
      BY <2>3 DEF Removed
    <3>2. CASE k \in Updated(attrs)
      BY <2>1, <3>1, <3>2
    <3>3. CASE k \notin Updated(attrs)
      <4>1. k \in DOMAIN lastConfigChange /\ lastConfigChange[k] = attrs[k]
        BY <3>3 DEF Updated
      <4>2. old[Loop].values[k] = lastConfigChange[k]
        BY <2>2, <2>7, <4>1 DEF CentralInv, RemotePrecedence
      <4> QED
        BY <2>1, <3>1, <3>3, <4>1, <4>2
    <3> QED
      BY <3>2, <3>3
  <2> QED
    BY <2>1, <2>2, <2>4, <2>5, <2>6, <2>7 DEF CentralInv, TypeOK, Fresh, LocalCopy
<1>6. CASE SwapRemote
  <2>1. /\ pc[Loop] = "swap"
        /\ old' = [old EXCEPT ![Loop] = NoConfig] /\ new' = [new EXCEPT ![Loop] = NoConfig]
        /\ UNCHANGED <<local, watching, recording, changes, watches, set, reset>>
    BY <1>6 DEF SwapRemote, Forget
  <2>2. CASE Fresh(Loop)
    <3>1. /\ config' = [new[Loop] EXCEPT !.swaps = config.swaps + 1]
          /\ lastConfigChange' = attrs /\ attrs' = Empty
          /\ pc' = [pc EXCEPT ![Loop] = IF reset THEN "select" ELSE "command"]
      BY <1>6, <2>2 DEF SwapRemote, Swaps, Fresh
    <3>2. /\ config' \in ConfigType /\ config'.swaps = config.swaps + 1
          /\ config'.remote = DOMAIN attrs
          /\ \A k \in DOMAIN attrs : config'.values[k] = attrs[k]
      <4>1. config.swaps + 1 \in Nat /\ new[Loop] \in ConfigType
        BY DEF CentralInv, TypeOK, ConfigType
      <4>2. config' \in ConfigType /\ config'.swaps = config.swaps + 1
              /\ config'.remote = new[Loop].remote /\ config'.values = new[Loop].values
        BY <3>1, <4>1, Swapped
      <4> QED
        BY <2>1, <2>2, <4>2 DEF CentralInv
    <3>3. TypeOK'
      BY <2>1, <3>1, <3>2, NoConfigType, EmptyType DEF CentralInv, TypeOK
    <3>4. RemotePrecedence' /\ WatcherReset'
      BY <2>1, <3>1, <3>2 DEF CentralInv, TypeOK, RemotePrecedence, WatcherReset
    <3>5. \A q \in Process : q # Loop => ~Fresh(q)' /\ old'[q].swaps <= config'.swaps
      BY <2>1, <3>2 DEF CentralInv, TypeOK, Fresh, ConfigType
    <3>6. old'[Loop].swaps <= config'.swaps
      BY <2>1, <3>2, NoConfigType DEF CentralInv, TypeOK, ConfigType
    <3>7. DOMAIN attrs' = {}
      BY <3>1, EmptyType
    <3> QED
      BY <2>1, <3>1, <3>3, <3>4, <3>5, <3>6, <3>7 DEF CentralInv, TypeOK, LocalCopy
  <2>3. CASE ~Fresh(Loop)
    <3>1. pc' = [pc EXCEPT ![Loop] = "load"] /\ UNCHANGED <<config, lastConfigChange, attrs>>
      BY <1>6, <2>3 DEF SwapRemote, Swaps, Fresh
    <3>2. TypeOK'
      BY <2>1, <3>1, NoConfigType DEF CentralInv, TypeOK
    <3>3. RemotePrecedence' /\ WatcherReset'
      BY <2>1, <3>1 DEF CentralInv, TypeOK, RemotePrecedence, WatcherReset
    <3>4. \A q \in Process : old'[q].swaps <= config'.swaps
      BY <2>1, <3>1, NoConfigType DEF CentralInv, TypeOK, ConfigType
    <3> QED
      BY <2>1, <3>1, <3>2, <3>3, <3>4 DEF CentralInv, TypeOK, LocalCopy, Fresh
  <2> QED
    BY <2>2, <2>3
<1>7. CASE CommandAfterChange
  <2>1. /\ pc[Loop] = "command" /\ pc' = [pc EXCEPT ![Loop] = "select"]
        /\ recording' = config.values["recording"]
        /\ UNCHANGED <<config, local, old, new, set, watching, attrs, lastConfigChange,
                       changes, watches, reset>>
    BY <1>7 DEF CommandAfterChange, watchVars
  <2>2. TypeOK'
    BY <2>1 DEF CentralInv, TypeOK, ConfigType
  <2>3. RemotePrecedence' /\ WatcherReset'
    BY <2>1 DEF CentralInv, TypeOK, RemotePrecedence, WatcherReset
  <2> QED
    BY <2>1, <2>2, <2>3 DEF CentralInv, TypeOK, Fresh, LocalCopy
<1>8. ASSUME NEW a \in Attrs(Value \cup {Bad}), CaseConfigChanges(a) PROVE CentralInv'
  <2>1. /\ pc[Loop] = "select" /\ changes' = changes + 1 /\ reset' = FALSE
        /\ \/ pc' = [pc EXCEPT ![Loop] = "command"] /\ attrs' = attrs
           \/ pc' = [pc EXCEPT ![Loop] = "load"] /\ attrs' = Applied(a)
        /\ UNCHANGED <<config, local, old, new, watching, lastConfigChange, recording,
                       watches, set>>
    BY <1>8 DEF CaseConfigChanges
  <2>2. TypeOK'
    <3>1. Applied(a) \in Attrs(Value)
      BY <1>8, AppliedType
    <3>2. attrs' \in Attrs(Value)
      BY <2>1, <3>1 DEF CentralInv, TypeOK
    <3>3. changes' \in Nat
      BY <2>1 DEF CentralInv, TypeOK
    <3>4. reset' \in BOOLEAN
      BY <2>1
    <3> QED
      BY <2>1, <3>2, <3>3, <3>4 DEF CentralInv, TypeOK
  <2>3. RemotePrecedence' /\ WatcherReset'
    BY <2>1 DEF CentralInv, TypeOK, RemotePrecedence, WatcherReset
  <2> QED
    BY <2>1, <2>2, <2>3 DEF CentralInv, TypeOK, Fresh, LocalCopy
<1>9. CASE CaseConfigChangesClosed
  <2>1. /\ watching' = FALSE
        /\ UNCHANGED <<config, local, pc, old, new, attrs, lastConfigChange, recording,
                       changes, watches, set, reset>>
    BY <1>9 DEF CaseConfigChangesClosed
  <2>2. TypeOK' /\ RemotePrecedence' /\ WatcherReset'
    BY <2>1 DEF CentralInv, TypeOK, RemotePrecedence, WatcherReset
  <2> QED
    BY <2>1, <2>2 DEF CentralInv, Fresh, LocalCopy
<1>10. ASSUME NEW w \in BOOLEAN, CaseConfigWatcher(w) PROVE CentralInv'
  <2>1. /\ pc[Loop] = "select" /\ watches' = watches + 1 /\ watching' = w
        /\ reset' \in BOOLEAN
        /\ UNCHANGED <<config, local, old, new, attrs, lastConfigChange, recording, changes,
                       set>>
    BY <1>10 DEF CaseConfigWatcher
  <2>2. \/ pc' = [pc EXCEPT ![Loop] = "load"]
        \/ pc' = pc /\ (reset' => reset \/ Removed(Empty) = {})
    BY <1>10, <2>1 DEF CaseConfigWatcher, Reverts, CentralInv, TypeOK
  <2>3. TypeOK'
    BY <2>1, <2>2 DEF CentralInv, TypeOK
  <2>4. Removed(Empty) = config.remote
    BY EmptyType DEF Removed, CentralInv, RemotePrecedence
  <2>5. RemotePrecedence' /\ WatcherReset'
    BY <2>1, <2>2, <2>4 DEF CentralInv, TypeOK, RemotePrecedence, WatcherReset
  <2> QED
    BY <2>1, <2>2, <2>3, <2>5 DEF CentralInv, TypeOK, Fresh, LocalCopy
<1>11. CASE UNCHANGED vars
  <2>1. TypeOK' /\ RemotePrecedence' /\ WatcherReset'
    BY <1>11 DEF vars, CentralInv, TypeOK, RemotePrecedence, WatcherReset
  <2> QED
    BY <1>11, <2>1 DEF vars, CentralInv, Fresh, LocalCopy
<1> QED
  BY <1>1, <1>2, <1>3, <1>4, <1>5, <1>6, <1>7, <1>8, <1>9, <1>10, <1>11 DEF Next

\* The invariant holds throughout.
LEMMA CentralInvariant == OwnKeys => (Spec => []CentralInv)
<1> SUFFICES ASSUME OwnKeys PROVE Spec => []CentralInv
  OBVIOUS
<1>1. CentralInv /\ [Next]_vars => CentralInv'
  BY CentralStep
<1> QED
  BY <1>1, CentralInit, PTL DEF Spec

\* Whatever Set* methods, config watchers and the swaps of
\* updateInstrumentationConfig (config.go) do at the same time, every setting that
\* is configured centrally has its central value in every config ever published,
\* and a watcher that replaces another leaves none.
THEOREM CentralIsExact == OwnKeys => (Spec => []CentralExact)
<1>1. CentralInv => CentralExact
  BY DEF CentralInv, CentralExact
<1> QED
  BY <1>1, CentralInvariant, PTL

-----------------------------------------------------------------------------
(* The values set in code *)

\* A step after which every call under way still is preserves that a setting's
\* value is in effect or on its way.
LEMMA PendingFrame ==
    ASSUME \A c \in Call : pc[c] \in Updating => pc'[c] \in Updating
    PROVE  /\ \A f : Pending(f) => Pending(f)'
           /\ \A c \in Call : \A f : Other(c, f) => Other(c, f)'
BY DEF Pending, Other

\* When call c ends, the calls under way that remain are those of other settings
\* and the others of its own.
LEMMA PendingEnds ==
    ASSUME NEW c \in Call, \A d \in Call \ {c} : pc'[d] = pc[d]
    PROVE  /\ \A f : f # CallField[c] /\ Pending(f) => Pending(f)'
           /\ \A f : Other(c, f) => Pending(f)'
BY DEF Pending, Other

\* Every step of a call and of the loop preserves the invariant.
LEMMA LocalStep == OwnKeys /\ CentralInv /\ LocalInv /\ [Next]_vars => LocalInv'
<1> SUFFICES ASSUME OwnKeys, CentralInv, LocalInv, [Next]_vars PROVE LocalInv'
  OBVIOUS
<1> USE InstrumentationConfigAssumption DEF Process
<1>1. ASSUME NEW p \in Process, Load(p) PROVE LocalInv'
  <2>1. /\ pc[p] \in {"idle", "load"} /\ old' = [old EXCEPT ![p] = config]
        /\ pc' = [pc EXCEPT ![p] = "apply"]
        /\ UNCHANGED <<config, local, new, set, attrs>>
    BY <1>1 DEF Load, watchVars
  <2>2. \A c \in Call : pc[c] \in Updating => pc'[c] \in Updating
    BY <2>1 DEF CentralInv, TypeOK, Updating
  <2>3. \A q \in Process : pc'[q] = "swap" => pc[q] = "swap" /\ (Fresh(q)' => Fresh(q))
    BY <2>1 DEF CentralInv, TypeOK, Fresh
  <2> QED
    BY <2>1, <2>2, <2>3, PendingFrame DEF LocalInv, CentralInv, TypeOK
<1>2. ASSUME NEW c \in Call, ApplyLocal(c) PROVE LocalInv'
  <2>1. /\ pc[c] = "apply" /\ pc' = [pc EXCEPT ![c] = "swap"]
        /\ local' = [local EXCEPT ![CallField[c]] =
                        [field |-> CallField[c], value |-> CallValue[c]]]
        /\ new' = [new EXCEPT ![c] = LocalCopy(c)]
        /\ UNCHANGED <<config, old, set, attrs>>
    BY <1>2, ApplyLocalIs DEF watchVars
  <2>2. \A d \in Call : pc[d] \in Updating => pc'[d] \in Updating
    BY <2>1 DEF CentralInv, TypeOK, Updating
  <2>3. Pending(CallField[c])' /\ \A d \in Call \ {c} : Other(d, CallField[c])'
    BY <2>1 DEF Pending, Other, CentralInv, TypeOK, Updating
  <2>4. \A f \in Field : local'[f].value = set'[f] \/ Pending(f)'
    BY <2>1, <2>2, <2>3, PendingFrame DEF LocalInv, CentralInv, TypeOK
  <2>5. \A d \in Call : pc'[d] = "swap" /\ Fresh(d)' =>
             local'[CallField[d]].value = CallValue[d] \/ Other(d, CallField[d])'
    <3> SUFFICES ASSUME NEW d \in Call, pc'[d] = "swap", Fresh(d)'
                 PROVE  local'[CallField[d]].value = CallValue[d] \/ Other(d, CallField[d])'
      OBVIOUS
    <3>1. CASE d = c
      BY <2>1, <3>1 DEF CentralInv, TypeOK
    <3>2. CASE d # c /\ CallField[d] = CallField[c]
      BY <2>3, <3>2
    <3>3. CASE d # c /\ CallField[d] # CallField[c]
      BY <2>1, <2>2, <3>3, PendingFrame DEF LocalInv, CentralInv, TypeOK, Fresh
    <3> QED
      BY <3>1, <3>2, <3>3
  <2>6. pc'[Loop] = pc[Loop] /\ new'[Loop] = new[Loop] /\ (Fresh(Loop)' <=> Fresh(Loop))
    BY <2>1 DEF CentralInv, TypeOK, Fresh
  <2> QED
    BY <2>1, <2>2, <2>4, <2>5, <2>6, PendingFrame DEF LocalInv
<1>3. ASSUME NEW c \in Call, SwapLocal(c) PROVE LocalInv'
  <2>1. /\ pc[c] = "swap"
        /\ old' = [old EXCEPT ![c] = NoConfig] /\ new' = [new EXCEPT ![c] = NoConfig]
        /\ UNCHANGED <<local, attrs>>
    BY <1>3 DEF SwapLocal, Forget, watchVars
  <2>2. CASE Fresh(c)
    <3>1. /\ config' = [new[c] EXCEPT !.swaps = config.swaps + 1]
          /\ set' = [set EXCEPT ![CallField[c]] = CallValue[c]]
          /\ pc' = [pc EXCEPT ![c] = IF CallField[c] = "recording" THEN "send" ELSE "done"]
      BY <1>3, <2>2 DEF SwapLocal, Swaps, Fresh
    <3>2. new[c] = LocalCopy(c) /\ old[c] = config /\ old[c] \in ConfigType
      BY <2>1, <2>2 DEF CentralInv, TypeOK
    <3>3. /\ config'.swaps = config.swaps + 1 /\ config'.remote = config.remote
          /\ \A f \in Field : config'.values[f] =
                 IF f = CallField[c] /\ f \notin config.remote THEN CallValue[c]
                 ELSE config.values[f]
      <4>1. config.swaps + 1 \in Nat
        BY DEF CentralInv, TypeOK, ConfigType
      <4>2. config'.values = LocalCopy(c).values /\ config'.remote = LocalCopy(c).remote
              /\ config'.swaps = config.swaps + 1
        BY <3>1, <3>2, <4>1, LocalCopyIs, Swapped
      <4> QED
        BY <3>2, <4>2, LocalCopyIs
    <3>4. \A d \in Call \ {c} : pc'[d] = pc[d]
      BY <3>1 DEF CentralInv, TypeOK
    <3>5. \A q \in Process : pc'[q] = "swap" => ~Fresh(q)'
      BY <2>1, <3>1, <3>3 DEF CentralInv, TypeOK, Fresh, ConfigType
    <3>6. \A f \in Field : local'[f].value = set'[f] \/ Pending(f)'
      <4> SUFFICES ASSUME NEW f \in Field PROVE local'[f].value = set'[f] \/ Pending(f)'
        OBVIOUS
      <4>1. CASE f = CallField[c]
        BY <2>1, <2>2, <3>1, <3>4, <4>1, PendingEnds DEF LocalInv, CentralInv, TypeOK
      <4>2. CASE f # CallField[c]
        BY <2>1, <3>1, <3>4, <4>2, PendingEnds DEF LocalInv, CentralInv, TypeOK
      <4> QED
        BY <4>1, <4>2
    <3>7. \A f \in Field \ config'.remote : config'.values[f] = set'[f] \/ Pending(f)'
      <4> SUFFICES ASSUME NEW f \in Field, f \notin config.remote
                   PROVE  config'.values[f] = set'[f] \/ Pending(f)'
        BY <3>3
      <4>1. CASE f = CallField[c]
        BY <3>1, <3>3, <4>1 DEF CentralInv, TypeOK
      <4>2. CASE f # CallField[c]
        BY <3>1, <3>3, <3>4, <4>2, PendingEnds DEF LocalInv, CentralInv, TypeOK
      <4> QED
        BY <4>1, <4>2
    <3> QED
      BY <3>5, <3>6, <3>7 DEF LocalInv
  <2>3. CASE ~Fresh(c)
    <3>1. pc' = [pc EXCEPT ![c] = "load"] /\ UNCHANGED <<config, set>>
      BY <1>3, <2>3 DEF SwapLocal, Swaps, Fresh
    <3>2. \A d \in Call : pc[d] \in Updating => pc'[d] \in Updating
      BY <3>1 DEF CentralInv, TypeOK, Updating
    <3>3. \A q \in Process : pc'[q] = "swap" =>
              pc[q] = "swap" /\ (Fresh(q)' => Fresh(q)) /\ new'[q] = new[q]
      BY <2>1, <3>1 DEF CentralInv, TypeOK, Fresh
    <3> QED
      BY <2>1, <3>1, <3>2, <3>3, PendingFrame DEF LocalInv
  <2> QED
    BY <2>2, <2>3
<1>4. ASSUME NEW c \in Call, CaseConfigCommand(c) PROVE LocalInv'
  <2>1. /\ pc[c] = "send" /\ pc' = [pc EXCEPT ![c] = "done"]
        /\ UNCHANGED <<config, local, old, new, set, attrs>>
    BY <1>4 DEF CaseConfigCommand, watchVars
  <2>2. \A d \in Call : pc[d] \in Updating => pc'[d] \in Updating
    BY <2>1 DEF CentralInv, TypeOK, Updating
  <2>3. \A q \in Process : pc'[q] = "swap" => pc[q] = "swap"
    BY <2>1 DEF CentralInv, TypeOK
  <2> QED
    BY <2>1, <2>2, <2>3, PendingFrame DEF LocalInv, Fresh
<1>5. CASE ApplyRemote
  <2>1. PICK values \in [Field -> Value] :
           /\ new' = [new EXCEPT ![Loop] =
                  [old[Loop] EXCEPT !.values = values, !.remote = DOMAIN attrs]]
           /\ \A f \in Field :
                 values[f] = IF f \in Removed(attrs) THEN local[f].value
                             ELSE IF f \in Updated(attrs) THEN attrs[f]
                             ELSE old[Loop].values[f]
    BY <1>5, ApplyRemoteIs
  <2>2. /\ pc[Loop] = "apply" /\ pc' = [pc EXCEPT ![Loop] = "swap"]
        /\ UNCHANGED <<config, local, old, set, attrs>>
    BY <1>5 DEF ApplyRemote, watchVars
  <2>3. \A d \in Call : pc'[d] = pc[d]
    BY <2>2 DEF CentralInv, TypeOK
  <2>4. new'[Loop].values = values
    BY <2>1 DEF CentralInv, TypeOK, ConfigType
  <2>5. ASSUME Fresh(Loop), NEW f \in Field \ DOMAIN attrs
        PROVE  values[f] = set[f] \/ Pending(f)
    <3>1. CASE f \in Removed(attrs)
      BY <2>1, <3>1 DEF LocalInv
    <3>2. CASE f \notin Removed(attrs)
      <4>1. f \notin config.remote
        BY <2>5, <3>2 DEF Removed, CentralInv, RemotePrecedence
      <4>2. values[f] = config.values[f]
        BY <2>1, <2>2, <2>5, <3>2 DEF Updated, CentralInv
      <4> QED
        BY <4>1, <4>2 DEF LocalInv
    <3> QED
      BY <3>1, <3>2
  <2>6. \A d \in Call : pc[d] \in Updating => pc'[d] \in Updating
    BY <2>3
  <2> QED
    BY <2>2, <2>3, <2>4, <2>5, <2>6, PendingFrame DEF LocalInv, Fresh
<1>6. CASE SwapRemote
  <2>1. /\ pc[Loop] = "swap"
        /\ old' = [old EXCEPT ![Loop] = NoConfig] /\ new' = [new EXCEPT ![Loop] = NoConfig]
        /\ UNCHANGED <<local, set>>
    BY <1>6 DEF SwapRemote, Forget
  <2>2. CASE Fresh(Loop)
    <3>1. /\ config' = [new[Loop] EXCEPT !.swaps = config.swaps + 1]
          /\ pc' = [pc EXCEPT ![Loop] = IF reset THEN "select" ELSE "command"]
      BY <1>6, <2>2 DEF SwapRemote, Swaps, Fresh
    <3>2. /\ config'.swaps = config.swaps + 1 /\ config'.remote = DOMAIN attrs
          /\ config'.values = new[Loop].values
      <4>1. config.swaps + 1 \in Nat /\ new[Loop] \in ConfigType
        BY DEF CentralInv, TypeOK, ConfigType
      <4> QED
        BY <2>1, <3>1, <4>1, Swapped DEF CentralInv
    <3>3. \A d \in Call : pc[d] \in Updating => pc'[d] \in Updating
      BY <3>1 DEF CentralInv, TypeOK
    <3>4. \A q \in Process : pc'[q] = "swap" => ~Fresh(q)'
      BY <2>1, <3>1, <3>2 DEF CentralInv, TypeOK, Fresh, ConfigType
    <3> QED
      BY <2>1, <2>2, <3>2, <3>3, <3>4, PendingFrame DEF LocalInv
  <2>3. CASE ~Fresh(Loop)
    <3>1. pc' = [pc EXCEPT ![Loop] = "load"] /\ UNCHANGED <<config, attrs>>
      BY <1>6, <2>3 DEF SwapRemote, Swaps, Fresh
    <3>2. \A d \in Call : pc'[d] = pc[d] /\ old'[d] = old[d]
      BY <2>1, <3>1 DEF CentralInv, TypeOK
    <3>3. pc'[Loop] # "swap" /\ \A d \in Call : pc[d] \in Updating => pc'[d] \in Updating
      BY <3>1, <3>2 DEF CentralInv, TypeOK
    <3> QED
      BY <2>1, <3>1, <3>2, <3>3, PendingFrame DEF LocalInv, Fresh
  <2> QED
    BY <2>2, <2>3
<1>7. ASSUME \/ CommandAfterChange
             \/ \E a \in Attrs(Value \cup {Bad}) : CaseConfigChanges(a)
             \/ CaseConfigChangesClosed
             \/ \E w \in BOOLEAN : CaseConfigWatcher(w)
             \/ UNCHANGED vars
      PROVE  LocalInv'
  <2>1. UNCHANGED <<config, local, old, new, set>>
    BY <1>7 DEF CommandAfterChange, CaseConfigChanges, CaseConfigChangesClosed,
                CaseConfigWatcher, vars
  <2>2. \A d \in Call : pc'[d] = pc[d]
    BY <1>7 DEF CommandAfterChange, CaseConfigChanges, CaseConfigChangesClosed,
                CaseConfigWatcher, vars, CentralInv, TypeOK
  <2>3. pc'[Loop] = "swap" => pc[Loop] = "swap" /\ attrs' = attrs
    BY <1>7 DEF CommandAfterChange, CaseConfigChanges, CaseConfigChangesClosed,
                CaseConfigWatcher, vars, CentralInv, TypeOK
  <2>4. \A d \in Call : pc[d] \in Updating => pc'[d] \in Updating
    BY <2>2
  <2> QED
    BY <2>1, <2>2, <2>3, <2>4, PendingFrame DEF LocalInv, Fresh
<1> QED
  BY <1>1, <1>2, <1>3, <1>4, <1>5, <1>6, <1>7 DEF Next

\* However Set* calls race with each other and with central changes and their
\* removal (config.go, updateInstrumentationConfig), once they are over every
\* setting that is not configured centrally has the value set last in code.
THEOREM LocalTakesEffect == OwnKeys => (Spec => []LocalInEffect)
<1> SUFFICES ASSUME OwnKeys PROVE Spec => []LocalInEffect
  OBVIOUS
<1>1. Init => LocalInv
  BY InstrumentationConfigAssumption DEF Init, LocalInv, Process, NoConfig
<1>2. CentralInv /\ LocalInv /\ [Next]_vars => LocalInv'
  BY LocalStep
<1>3. LocalInv => LocalInEffect
  BY DEF LocalInv, LocalInEffect, Pending, Updating, Process
<1>4. Spec => []CentralInv
  BY CentralInvariant
<1> QED
  BY <1>1, <1>2, <1>3, <1>4, PTL DEF Spec

-----------------------------------------------------------------------------
(* The loop's recording flag *)

\* Every step of a call and of the loop preserves the invariant.
LEMMA RecordingStep == OwnKeys /\ CentralInv /\ RecordingInv /\ [Next]_vars => RecordingInv'
<1> SUFFICES ASSUME OwnKeys, CentralInv, RecordingInv, [Next]_vars PROVE RecordingInv'
  OBVIOUS
<1> USE InstrumentationConfigAssumption DEF Process
<1>1. ASSUME NEW p \in Process, Load(p) PROVE RecordingInv'
  BY <1>1 DEF Load, watchVars, RecordingInv, CentralInv, TypeOK
<1>2. ASSUME NEW c \in Call, ApplyLocal(c) PROVE RecordingInv'
  BY <1>2 DEF ApplyLocal, watchVars, RecordingInv, CentralInv, TypeOK
<1>3. ASSUME NEW c \in Call, SwapLocal(c) PROVE RecordingInv'
  <2>1. pc[c] = "swap" /\ UNCHANGED <<recording, watches, reset>>
    BY <1>3 DEF SwapLocal, watchVars
  <2>2. CASE Fresh(c)
    <3>1. /\ config' = [new[c] EXCEPT !.swaps = config.swaps + 1]
          /\ pc' = [pc EXCEPT ![c] = IF CallField[c] = "recording" THEN "send" ELSE "done"]
      BY <1>3, <2>2 DEF SwapLocal, Swaps, Fresh
    <3>2. new[c] = LocalCopy(c) /\ old[c] = config /\ old[c] \in ConfigType
      BY <2>1, <2>2 DEF CentralInv, TypeOK
    <3>3. config'.values = LocalCopy(c).values
      <4>1. config.swaps + 1 \in Nat
        BY DEF CentralInv, TypeOK, ConfigType
      <4> QED
        BY <3>1, <3>2, <4>1, LocalCopyIs, Swapped
    <3>4. CASE CallField[c] = "recording"
      BY <2>1, <3>1, <3>4 DEF RecordingInv, CentralInv, TypeOK
    <3>5. CASE CallField[c] # "recording"
      <4>1. config'.values["recording"] = config.values["recording"]
        BY <3>2, <3>3, <3>5, LocalCopyIs
      <4>2. \A d \in Call : pc[d] = "send" => pc'[d] = "send"
        BY <2>1, <3>1 DEF CentralInv, TypeOK
      <4>3. pc'[Loop] = pc[Loop]
        BY <3>1 DEF CentralInv, TypeOK
      <4> QED
        BY <2>1, <4>1, <4>2, <4>3 DEF RecordingInv
    <3> QED
      BY <3>4, <3>5
  <2>3. CASE ~Fresh(c)
    <3>1. pc' = [pc EXCEPT ![c] = "load"] /\ UNCHANGED config
      BY <1>3, <2>3 DEF SwapLocal, Swaps, Fresh
    <3> QED
      BY <2>1, <3>1 DEF RecordingInv, CentralInv, TypeOK
  <2> QED
    BY <2>2, <2>3
<1>4. ASSUME NEW c \in Call, CaseConfigCommand(c) PROVE RecordingInv'
  BY <1>4 DEF CaseConfigCommand, CommandRecording, watchVars, RecordingInv, CentralInv,
              TypeOK
<1>5. CASE ApplyRemote
  BY <1>5 DEF ApplyRemote, watchVars, RecordingInv, CentralInv, TypeOK
<1>6. CASE SwapRemote
  BY <1>6 DEF SwapRemote, RecordingInv, CentralInv, TypeOK
<1>7. CASE CommandAfterChange
  BY <1>7 DEF CommandAfterChange, watchVars, RecordingInv, CentralInv, TypeOK
<1>8. ASSUME NEW a \in Attrs(Value \cup {Bad}), CaseConfigChanges(a) PROVE RecordingInv'
  BY <1>8 DEF CaseConfigChanges, RecordingInv, CentralInv, TypeOK
<1>9. CASE CaseConfigChangesClosed
  BY <1>9 DEF CaseConfigChangesClosed, RecordingInv, CentralInv, TypeOK
<1>10. ASSUME NEW w \in BOOLEAN, CaseConfigWatcher(w) PROVE RecordingInv'
  BY <1>10 DEF CaseConfigWatcher, RecordingInv, CentralInv, TypeOK
<1>11. CASE UNCHANGED vars
  BY <1>11 DEF vars, RecordingInv
<1> QED
  BY <1>1, <1>2, <1>3, <1>4, <1>5, <1>6, <1>7, <1>8, <1>9, <1>10, <1>11 DEF Next

\* Once no command of SetRecording and no change is on its way, the flag by which
\* the loop (tracer.go) gathers metrics and profiles is the one instrumentation
\* uses, unless SetConfigWatcher has reverted the latter.
THEOREM RecordingDoesAgree == OwnKeys => (Spec => []RecordingAgrees)
<1> SUFFICES ASSUME OwnKeys PROVE Spec => []RecordingAgrees
  OBVIOUS
<1>1. Init => RecordingInv
  BY InstrumentationConfigAssumption DEF Init, RecordingInv, Process, NoConfig
<1>2. CentralInv /\ RecordingInv /\ [Next]_vars => RecordingInv'
  BY RecordingStep
<1>3. CentralInv /\ RecordingInv => RecordingAgrees
  BY DEF CentralInv, TypeOK, RecordingInv, RecordingAgrees, Process
<1>4. Spec => []CentralInv
  BY CentralInvariant
<1> QED
  BY <1>1, <1>2, <1>3, <1>4, PTL DEF Spec

-----------------------------------------------------------------------------
(* Patterns *)

\* Every nonempty set of natural numbers has a least element.
LEMMA LeastElement ==
    ASSUME NEW T \in SUBSET Nat, T # {}
    PROVE  \E x \in T : \A y \in T : x <= y
<1> DEFINE R == OpToRel(<, Nat)
<1>1. IsWellFoundedOn(R, Nat)
  BY NatLessThanWellFounded
<1>2. \A x, y \in Nat : y < x => <<y, x>> \in R
  BY DEF OpToRel
<1> HIDE DEF R
<1>3. PICK x \in T : \A y \in T : ~(<<y, x>> \in R)
  BY <1>1, WFMin
<1>4. ASSUME NEW y \in T PROVE x <= y
  <2>1. x \in Nat /\ y \in Nat
    OBVIOUS
  <2>2. ~(y < x)
    BY <1>2, <1>3, <2>1, Zenon
  <2> QED
    BY <2>1, <2>2
<1> QED
  BY <1>4

Wildcard == "*"
Pattern == Seq(Letters \cup {Wildcard})
Text == Seq(Letters)
Part == {w \in Text : w # <<>>}

\* The loops of NewMatcher, of Match and of what a pattern means, one step each.
NextParts(p, cs, i, t) ==
    IF p[i] = "*" THEN t
    ELSE IF i = 1 \/ p[i - 1] = "*" THEN Append(t, <<Folded(p[i], cs)>>)
    ELSE [t EXCEPT ![Len(t)] = Append(@, Folded(p[i], cs))]
FromPlace(s, part, cs, from, anchored) ==
    LET j == FirstPlace(Places(s, from, part, cs, anchored))
    IN IF from = -1 \/ j = -1 THEN -1 ELSE j + Len(part)
NextFrom(s, cs, begin, parts, i, from) == FromPlace(s, parts[i], cs, from, i = 1 /\ ~begin)
NextMatched(p, cs, s, i, lens) ==
    IF p[i] = "*" THEN {j \in 0..Len(s) : \E k \in lens : k <= j}
    ELSE {j \in 1..Len(s) : Folded(p[i], cs) = Folded(s[j], cs) /\ j - 1 \in lens}

StepsOfParts(g, p, cs, n) == g = [i \in 0..n |-> IF i = 0 THEN <<>> ELSE NextParts(p, cs, i, g[i - 1])]
StepsOfFrom(g, s, cs, begin, parts, n) ==
    g = [i \in 0..n |-> IF i = 0 THEN 0 ELSE NextFrom(s, cs, begin, parts, i, g[i - 1])]
StepsOfMatched(g, p, cs, s, n) ==
    g = [i \in 0..n |-> IF i = 0 THEN {0} ELSE NextMatched(p, cs, s, i, g[i - 1])]

\* These loops end.
LEMMA PartsSteps == ASSUME NEW p, NEW cs, NEW m \in Nat PROVE \E g : StepsOfParts(g, p, cs, m)
<1> DEFINE T == {n \in Nat : ~\E g : StepsOfParts(g, p, cs, n)}
<1> SUFFICES ASSUME T # {} PROVE FALSE
  OBVIOUS
<1>1. PICK n \in T : \A k \in T : n <= k
  BY LeastElement
<1>2. n # 0
  <2>1. StepsOfParts([i \in 0..0 |-> <<>>], p, cs, 0)
    BY DEF StepsOfParts
  <2> QED
    BY <2>1
<1>3. n - 1 \in Nat /\ ~(n <= n - 1)
  BY <1>2
<1>4. PICK g : StepsOfParts(g, p, cs, n - 1)
  BY <1>1, <1>3
<1> DEFINE h == [i \in 0..n |-> IF i = n THEN NextParts(p, cs, n, g[n - 1]) ELSE g[i]]
<1>5. \A i \in 0..n - 1 : g[i] = IF i = 0 THEN <<>> ELSE NextParts(p, cs, i, g[i - 1])
  BY <1>4 DEF StepsOfParts
<1>6. \A i \in 0..n - 1 : h[i] = g[i]
  BY <1>3
<1>7. ASSUME NEW i \in 0..n PROVE h[i] = IF i = 0 THEN <<>> ELSE NextParts(p, cs, i, h[i - 1])
  <2>1. CASE i = n
    <3>1. h[n] = NextParts(p, cs, n, g[n - 1]) /\ n - 1 \in 0..n - 1
      BY <1>3
    <3>2. h[n] = NextParts(p, cs, n, h[n - 1])
      BY <1>6, <3>1
    <3> QED
      BY <1>2, <2>1, <3>2
  <2>2. CASE i # n
    <3>1. i \in 0..n - 1 /\ (i # 0 => i - 1 \in 0..n - 1)
      BY <1>3, <2>2
    <3> QED
      BY <1>5, <1>6, <3>1
  <2> QED
    BY <2>1, <2>2
<1>8. StepsOfParts(h, p, cs, n)
  <2>1. h = [i \in 0..n |-> h[i]]
    OBVIOUS
  <2> HIDE DEF h
  <2> QED
    BY <1>7, <2>1 DEF StepsOfParts
<1> QED
  BY <1>8

LEMMA FromSteps == ASSUME NEW s, NEW cs, NEW begin, NEW parts, NEW m \in Nat PROVE \E g : StepsOfFrom(g, s, cs, begin, parts, m)
<1> DEFINE T == {n \in Nat : ~\E g : StepsOfFrom(g, s, cs, begin, parts, n)}
<1> SUFFICES ASSUME T # {} PROVE FALSE
  OBVIOUS
<1>1. PICK n \in T : \A k \in T : n <= k
  BY LeastElement
<1>2. n # 0
  <2>1. StepsOfFrom([i \in 0..0 |-> 0], s, cs, begin, parts, 0)
    BY DEF StepsOfFrom
  <2> QED
    BY <2>1
<1>3. n - 1 \in Nat /\ ~(n <= n - 1)
  BY <1>2
<1>4. PICK g : StepsOfFrom(g, s, cs, begin, parts, n - 1)
  BY <1>1, <1>3
<1> DEFINE h == [i \in 0..n |-> IF i = n THEN NextFrom(s, cs, begin, parts, n, g[n - 1]) ELSE g[i]]
<1>5. \A i \in 0..n - 1 : g[i] = IF i = 0 THEN 0 ELSE NextFrom(s, cs, begin, parts, i, g[i - 1])
  BY <1>4 DEF StepsOfFrom
<1>6. \A i \in 0..n - 1 : h[i] = g[i]
  BY <1>3
<1>7. ASSUME NEW i \in 0..n PROVE h[i] = IF i = 0 THEN 0 ELSE NextFrom(s, cs, begin, parts, i, h[i - 1])
  <2>1. CASE i = n
    <3>1. h[n] = NextFrom(s, cs, begin, parts, n, g[n - 1]) /\ n - 1 \in 0..n - 1
      BY <1>3
    <3>2. h[n] = NextFrom(s, cs, begin, parts, n, h[n - 1])
      BY <1>6, <3>1
    <3> QED
      BY <1>2, <2>1, <3>2
  <2>2. CASE i # n
    <3>1. i \in 0..n - 1 /\ (i # 0 => i - 1 \in 0..n - 1)
      BY <1>3, <2>2
    <3> QED
      BY <1>5, <1>6, <3>1
  <2> QED
    BY <2>1, <2>2
<1>8. StepsOfFrom(h, s, cs, begin, parts, n)
  <2>1. h = [i \in 0..n |-> h[i]]
    OBVIOUS
  <2> HIDE DEF h
  <2> QED
    BY <1>7, <2>1 DEF StepsOfFrom
<1> QED
  BY <1>8

LEMMA MatchedSteps == ASSUME NEW p, NEW cs, NEW s, NEW m \in Nat PROVE \E g : StepsOfMatched(g, p, cs, s, m)
<1> DEFINE T == {n \in Nat : ~\E g : StepsOfMatched(g, p, cs, s, n)}
<1> SUFFICES ASSUME T # {} PROVE FALSE
  OBVIOUS
<1>1. PICK n \in T : \A k \in T : n <= k
  BY LeastElement
<1>2. n # 0
  <2>1. StepsOfMatched([i \in 0..0 |-> {0}], p, cs, s, 0)
    BY DEF StepsOfMatched
  <2> QED
    BY <2>1
<1>3. n - 1 \in Nat /\ ~(n <= n - 1)
  BY <1>2
<1>4. PICK g : StepsOfMatched(g, p, cs, s, n - 1)
  BY <1>1, <1>3
<1> DEFINE h == [i \in 0..n |-> IF i = n THEN NextMatched(p, cs, s, n, g[n - 1]) ELSE g[i]]
<1>5. \A i \in 0..n - 1 : g[i] = IF i = 0 THEN {0} ELSE NextMatched(p, cs, s, i, g[i - 1])
  BY <1>4 DEF StepsOfMatched
<1>6. \A i \in 0..n - 1 : h[i] = g[i]
  BY <1>3
<1>7. ASSUME NEW i \in 0..n PROVE h[i] = IF i = 0 THEN {0} ELSE NextMatched(p, cs, s, i, h[i - 1])
  <2>1. CASE i = n
    <3>1. h[n] = NextMatched(p, cs, s, n, g[n - 1]) /\ n - 1 \in 0..n - 1
      BY <1>3
    <3>2. h[n] = NextMatched(p, cs, s, n, h[n - 1])
      BY <1>6, <3>1
    <3> QED
      BY <1>2, <2>1, <3>2
  <2>2. CASE i # n
    <3>1. i \in 0..n - 1 /\ (i # 0 => i - 1 \in 0..n - 1)
      BY <1>3, <2>2
    <3> QED
      BY <1>5, <1>6, <3>1
  <2> QED
    BY <2>1, <2>2
<1>8. StepsOfMatched(h, p, cs, s, n)
  <2>1. h = [i \in 0..n |-> h[i]]
    OBVIOUS
  <2> HIDE DEF h
  <2> QED
    BY <1>7, <2>1 DEF StepsOfMatched
<1> QED
  BY <1>8

\* What the operators are in terms of these loops.
LEMMA MatcherParts ==
    ASSUME NEW p, NEW cs, Len(p) \in Nat
    PROVE  \E g : StepsOfParts(g, p, cs, Len(p)) /\ NewMatcher(p, cs).parts = g[Len(p)]
<1> DEFINE f == CHOOSE g : StepsOfParts(g, p, cs, Len(p))
<1>1. StepsOfParts(f, p, cs, Len(p))
  BY PartsSteps
<1>2. NewMatcher(p, cs).parts = f[Len(p)]
  BY DEF NewMatcher, StepsOfParts, NextParts
<1> QED
  BY <1>1, <1>2

LEMMA MatchPartsIs ==
    ASSUME NEW m, NEW parts, NEW s, Len(parts) \in Nat
    PROVE  \E g : /\ StepsOfFrom(g, s, m.caseSensitive, m.wildcardBegin, parts, Len(parts))
                  /\ MatchParts(m, parts, s) <=> g[Len(parts)] # -1
<1> DEFINE f == CHOOSE g : StepsOfFrom(g, s, m.caseSensitive, m.wildcardBegin, parts, Len(parts))
<1>1. StepsOfFrom(f, s, m.caseSensitive, m.wildcardBegin, parts, Len(parts))
  BY FromSteps
<1>2. MatchParts(m, parts, s) <=> f[Len(parts)] # -1
  BY DEF MatchParts, StepsOfFrom, NextFrom, FromPlace
<1> QED
  BY <1>1, <1>2

LEMMA MeansIs ==
    ASSUME NEW p, NEW cs, NEW s, Len(p) \in Nat
    PROVE  \E g : StepsOfMatched(g, p, cs, s, Len(p)) /\ (Means(p, cs, s) <=> Len(s) \in g[Len(p)])
<1> DEFINE f == CHOOSE g : StepsOfMatched(g, p, cs, s, Len(p))
<1>1. StepsOfMatched(f, p, cs, s, Len(p))
  BY MatchedSteps
<1>2. Means(p, cs, s) <=> Len(s) \in f[Len(p)]
  BY DEF Means, StepsOfMatched, NextMatched
<1> QED
  BY <1>1, <1>2

-----------------------------------------------------------------------------

\* What is left of the text when `from` of its characters are matched, as the
\* lengths a wildcard can reach; and where a part can end in it.
Rest(s, from) == IF from = -1 THEN {} ELSE from..Len(s)
Ends(s, part, cs, from, anchored) ==
    IF from = -1 THEN {} ELSE {off + Len(part) : off \in Places(s, from, part, cs, anchored)}

LEMMA FirstPlaceIs ==
    ASSUME NEW T \in SUBSET Nat
    PROVE  IF T = {} THEN FirstPlace(T) = -1
           ELSE FirstPlace(T) \in T /\ \A x \in T : FirstPlace(T) <= x
<1>1. CASE T = {}
  BY <1>1 DEF FirstPlace
<1>2. CASE T # {}
  <2>1. PICK x \in T : \A y \in T : x <= y
    BY <1>2, LeastElement
  <2> QED
    BY <1>2, <2>1 DEF FirstPlace
<1> QED
  BY <1>1, <1>2

\* A wildcard can match any of the rest.
LEMMA WildcardRest ==
    ASSUME NEW s \in Text, NEW from \in -1..Len(s)
    PROVE  {j \in 0..Len(s) : \E k \in Rest(s, from) : k <= j} = Rest(s, from)
BY DEF Rest, Text

\* A wildcard behind a part can match any of what follows its first place.
LEMMA WildcardAfterPart ==
    ASSUME NEW s \in Text, NEW part \in Text, NEW from \in -1..Len(s), NEW cs, NEW anchored
    PROVE  /\ FromPlace(s, part, cs, from, anchored) \in -1..Len(s)
           /\ {j \in 0..Len(s) : \E k \in Ends(s, part, cs, from, anchored) : k <= j}
              = Rest(s, FromPlace(s, part, cs, from, anchored))
<1> DEFINE T == Places(s, from, part, cs, anchored)
           j0 == FirstPlace(T)
<1>1. Len(s) \in Nat /\ Len(part) \in Nat
  BY DEF Text
<1>2. CASE from = -1
  BY <1>1, <1>2 DEF FromPlace, Ends, Rest
<1>3. CASE from # -1
  <2>1. T \in SUBSET Nat /\ \A x \in T : x + Len(part) <= Len(s)
    BY <1>1, <1>3 DEF Places, HasPrefixAt
  <2>2. CASE T = {}
    <3>1. j0 = -1
      BY <2>1, <2>2, FirstPlaceIs
    <3>2. Ends(s, part, cs, from, anchored) = {}
      BY <1>3, <2>2 DEF Ends
    <3>3. FromPlace(s, part, cs, from, anchored) = -1
      BY <3>1 DEF FromPlace
    <3> QED
      BY <1>1, <3>2, <3>3 DEF Rest
  <2>3. CASE T # {}
    <3>1. j0 \in T /\ \A x \in T : j0 <= x
      BY <2>1, <2>3, FirstPlaceIs
    <3>2. j0 \in Nat /\ j0 + Len(part) <= Len(s)
      BY <2>1, <3>1
    <3>3. FromPlace(s, part, cs, from, anchored) = j0 + Len(part)
      BY <1>3, <3>2 DEF FromPlace
    <3>4. Ends(s, part, cs, from, anchored) = {x + Len(part) : x \in T}
      BY <1>3 DEF Ends
    <3> HIDE DEF j0, T
    <3>5. \A j \in 0..Len(s) :
              (\E k \in {x + Len(part) : x \in T} : k <= j) <=> j0 + Len(part) <= j
      <4> SUFFICES ASSUME NEW j \in 0..Len(s)
                   PROVE  (\E k \in {x + Len(part) : x \in T} : k <= j) <=> j0 + Len(part) <= j
        OBVIOUS
      <4>1. ASSUME NEW x \in T, x + Len(part) <= j PROVE j0 + Len(part) <= j
        BY <1>1, <2>1, <3>1, <3>2, <4>1
      <4> QED
        BY <3>1, <4>1
    <3>6. Rest(s, j0 + Len(part)) = j0 + Len(part)..Len(s)
      BY <1>1, <3>2 DEF Rest
    <3> QED
      BY <1>1, <3>2, <3>3, <3>4, <3>5, <3>6
  <2> QED
    BY <2>2, <2>3
<1> QED
  BY <1>2, <1>3

\* The lengths that are one more than those in T, where c follows.
OneFurther(s, c, cs, T) == {j \in 1..Len(s) : c = Folded(s[j], cs) /\ j - 1 \in T}

\* A part with one more character ends one further, where that one follows.
LEMMA LongerPart ==
    ASSUME NEW s \in Text, NEW part \in Text, NEW from \in -1..Len(s), NEW cs, NEW anchored,
           NEW c
    PROVE  Ends(s, Append(part, c), cs, from, anchored)
           = OneFurther(s, c, cs, Ends(s, part, cs, from, anchored))
<1> DEFINE w == Append(part, c)
<1>1. /\ Len(s) \in Nat /\ Len(part) \in Nat /\ Len(w) = Len(part) + 1
      /\ w[Len(part) + 1] = c /\ \A k \in 1..Len(part) : w[k] = part[k]
      /\ DOMAIN w = 1..Len(part) + 1 /\ DOMAIN part = 1..Len(part)
  BY DEF Text
<1> HIDE DEF w
<1>2. CASE from = -1
  BY <1>2 DEF Ends, OneFurther
<1>3. CASE from # -1
  <2>1. from \in Nat
    BY <1>1, <1>3
  <2>2. ASSUME NEW off \in Nat
        PROVE  HasPrefixAt(s, off, w, cs)
               <=> /\ HasPrefixAt(s, off, part, cs) /\ off + Len(part) + 1 <= Len(s)
                   /\ c = Folded(s[off + Len(part) + 1], cs)
    <3>1. off + Len(w) = off + Len(part) + 1 /\ off + (Len(part) + 1) = off + Len(part) + 1
      BY <1>1
    <3> QED
      BY <1>1, <3>1 DEF HasPrefixAt
  <2>3. ASSUME NEW off \in Nat
        PROVE  off \in Places(s, from, w, cs, anchored)
               <=> /\ off \in Places(s, from, part, cs, anchored) /\ off + Len(part) + 1 <= Len(s)
                   /\ c = Folded(s[off + Len(part) + 1], cs)
    <3>1. off \in from..(Len(s) - Len(w))
          <=> off \in from..(Len(s) - Len(part)) /\ off + Len(part) + 1 <= Len(s)
      BY <1>1, <2>1
    <3> QED
      BY <2>2, <3>1, Zenon DEF Places
  <2>4. /\ \A off \in Places(s, from, w, cs, anchored) : off \in Nat
        /\ \A off \in Places(s, from, part, cs, anchored) : off \in Nat
    BY <2>1, <1>1 DEF Places
  <2>5. Ends(s, w, cs, from, anchored)
        = {off + Len(part) + 1 : off \in Places(s, from, w, cs, anchored)}
    BY <1>1, <1>3, <2>4 DEF Ends
  <2>6. Ends(s, part, cs, from, anchored)
        = {off + Len(part) : off \in Places(s, from, part, cs, anchored)}
    BY <1>3 DEF Ends
  <2>7. ASSUME NEW j \in Ends(s, w, cs, from, anchored)
        PROVE  /\ j \in 1..Len(s) /\ c = Folded(s[j], cs)
               /\ j - 1 \in Ends(s, part, cs, from, anchored)
    <3>1. PICK off \in Places(s, from, w, cs, anchored) : j = off + Len(part) + 1
      BY <2>5
    <3>2. off \in Nat
      BY <2>4
    <3>3. /\ off \in Places(s, from, part, cs, anchored) /\ off + Len(part) + 1 <= Len(s)
          /\ c = Folded(s[off + Len(part) + 1], cs)
      BY <2>3, <3>2
    <3>4. j - 1 = off + Len(part) /\ j \in 1..Len(s)
      BY <1>1, <3>1, <3>2, <3>3
    <3> QED
      BY <2>6, <3>1, <3>3, <3>4
  <2>8. ASSUME NEW j \in 1..Len(s), c = Folded(s[j], cs), j - 1 \in Ends(s, part, cs, from, anchored)
        PROVE  j \in Ends(s, w, cs, from, anchored)
    <3>1. PICK off \in Places(s, from, part, cs, anchored) : j - 1 = off + Len(part)
      BY <2>6, <2>8
    <3>2. off \in Nat
      BY <2>4
    <3>3. j = off + Len(part) + 1
      BY <1>1, <3>1, <3>2
    <3>4. off \in Places(s, from, w, cs, anchored)
      BY <2>3, <2>8, <3>1, <3>2, <3>3
    <3> QED
      BY <2>5, <3>3, <3>4
  <2> QED
    BY <2>7, <2>8 DEF w, OneFurther
<1> QED
  BY <1>2, <1>3 DEF w

\* A part of no characters ends where it begins.
LEMMA EmptyPart ==
    ASSUME NEW s \in Text, NEW from \in -1..Len(s), NEW cs, NEW anchored
    PROVE  Ends(s, <<>>, cs, from, anchored)
           = IF anchored /\ from # -1 THEN {from} ELSE Rest(s, from)
<1>1. Len(s) \in Nat
  BY DEF Text
<1>2. ASSUME from # -1
      PROVE  Places(s, from, <<>>, cs, anchored) = IF anchored THEN {from} ELSE from..Len(s)
  BY <1>1, <1>2 DEF Places, HasPrefixAt
<1>3. ASSUME from # -1 PROVE \A off \in Places(s, from, <<>>, cs, anchored) : off + Len(<<>>) = off
  BY <1>1, <1>2, <1>3
<1> QED
  BY <1>1, <1>2, <1>3 DEF Ends, Rest

-----------------------------------------------------------------------------

\* f are the places that the loop of Match reaches behind the first n parts.
Follows(f, s, cs, begin, parts, n) ==
    /\ f[0] = 0
    /\ \A k \in 1..n : f[k] = NextFrom(s, cs, begin, parts, k, f[k - 1])

\* The i-th character of p belongs to a part; and the parts before that.
InPart(p, i) == i > 0 /\ p[i] # "*"
Before(p, i, t) == IF InPart(p, i) THEN Len(t) - 1 ELSE Len(t)

\* The first i characters of the pattern p, which make the parts t, match `lens`:
\* what can follow the place that Match reaches, or where the part that is not
\* complete can end behind it.
Reached(p, cs, s, i, t, lens) ==
    /\ t \in Seq(Part)
    /\ i = 0 => t = <<>> /\ lens = {0}
    /\ i > 0 /\ t = <<>> => p[1] = "*"
    /\ InPart(p, i) => t # <<>>
    /\ i > 0 => \A f : Follows(f, s, cs, p[1] = "*", t, Before(p, i, t)) =>
           /\ f[Before(p, i, t)] \in -1..Len(s)
           /\ lens = IF InPart(p, i)
                     THEN Ends(s, t[Len(t)], cs, f[Before(p, i, t)], Len(t) = 1 /\ ~(p[1] = "*"))
                     ELSE Rest(s, f[Before(p, i, t)])

LEMMA FollowsSame ==
    ASSUME NEW f, NEW s, NEW cs, NEW begin, NEW a, NEW b, NEW n \in Nat,
           \A k \in 1..n : a[k] = b[k], Follows(f, s, cs, begin, b, n)
    PROVE  Follows(f, s, cs, begin, a, n)
BY DEF Follows, NextFrom

LEMMA ReachedWildcard ==
    ASSUME NEW p \in Pattern, NEW cs \in BOOLEAN, NEW s \in Text, NEW i \in 1..Len(p),
           NEW t, NEW lens, Reached(p, cs, s, i - 1, t, lens), p[i] = "*"
    PROVE  Reached(p, cs, s, i, NextParts(p, cs, i, t), NextMatched(p, cs, s, i, lens))
<1> DEFINE to == NextMatched(p, cs, s, i, lens)
<1>1. /\ Len(s) \in Nat /\ i \in Nat /\ i > 0 /\ NextParts(p, cs, i, t) = t /\ ~InPart(p, i)
      /\ to = {j \in 0..Len(s) : \E k \in lens : k <= j}
  BY DEF Text, Pattern, NextParts, NextMatched, InPart
<1>2. t \in Seq(Part) /\ Len(t) \in Nat /\ Before(p, i, t) = Len(t)
  BY <1>1 DEF Reached, Before
<1>3. t = <<>> => p[1] = "*"
  BY <1>1 DEF Reached
<1>4. ASSUME NEW f, Follows(f, s, cs, p[1] = "*", t, Len(t))
      PROVE  f[Len(t)] \in -1..Len(s) /\ to = Rest(s, f[Len(t)])
  <2>1. CASE i = 1
    <3>1. t = <<>> /\ lens = {0} /\ Len(t) = 0
      BY <2>1 DEF Reached
    <3>2. f[0] = 0
      BY <1>4 DEF Follows
    <3> QED
      BY <1>1, <3>1, <3>2 DEF Rest
  <2>2. CASE i # 1 /\ ~InPart(p, i - 1)
    <3>1. i - 1 > 0 /\ Before(p, i - 1, t) = Len(t)
      BY <1>1, <2>2 DEF Before
    <3>2. f[Len(t)] \in -1..Len(s) /\ lens = Rest(s, f[Len(t)])
      BY <1>4, <2>2, <3>1 DEF Reached
    <3> QED
      BY <1>1, <3>2, WildcardRest
  <2>3. CASE i # 1 /\ InPart(p, i - 1)
    <3> DEFINE n == Len(t)
    <3>1. i - 1 > 0 /\ Before(p, i - 1, t) = n - 1 /\ t # <<>>
      BY <1>1, <2>3 DEF Before, Reached
    <3>2. n \in Nat /\ n > 0 /\ t[n] \in Text
      BY <1>2, <3>1 DEF Part
    <3>3. Follows(f, s, cs, p[1] = "*", t, n - 1) /\ f[n] = NextFrom(s, cs, p[1] = "*", t, n, f[n - 1])
      BY <1>4, <3>2 DEF Follows
    <3> HIDE DEF n
    <3>4. /\ f[n - 1] \in -1..Len(s)
          /\ lens = Ends(s, t[n], cs, f[n - 1], n = 1 /\ ~(p[1] = "*"))
      BY <2>3, <3>1, <3>3 DEF Reached, n
    <3>5. f[n] = FromPlace(s, t[n], cs, f[n - 1], n = 1 /\ ~(p[1] = "*"))
      BY <3>3 DEF NextFrom
    <3>6. f[n] \in -1..Len(s) /\ to = Rest(s, f[n])
      BY <1>1, <3>2, <3>4, <3>5, WildcardAfterPart
    <3> QED
      BY <3>6 DEF n
  <2> QED
    BY <2>1, <2>2, <2>3
<1> HIDE DEF to
<1>5. Reached(p, cs, s, i, t, to)
  <2> DEFINE n == Len(t)
  <2>1. \A f : Follows(f, s, cs, p[1] = "*", t, n) => f[n] \in -1..Len(s) /\ to = Rest(s, f[n])
    BY <1>4
  <2>2. Before(p, i, t) = n
    BY <1>2
  <2> HIDE DEF n
  <2>3. \A f : Follows(f, s, cs, p[1] = "*", t, Before(p, i, t)) =>
           /\ f[Before(p, i, t)] \in -1..Len(s)
           /\ to = IF InPart(p, i)
                   THEN Ends(s, t[Len(t)], cs, f[Before(p, i, t)], Len(t) = 1 /\ ~(p[1] = "*"))
                   ELSE Rest(s, f[Before(p, i, t)])
    BY <1>1, <2>1, <2>2
  <2>4. i # 0
    BY <1>1
  <2> QED
    BY <1>1, <1>2, <1>3, <2>3, <2>4, Zenon DEF Reached
<1> QED
  BY <1>1, <1>5 DEF to

LEMMA FoldedLetter == \A c \in Letters, cs \in BOOLEAN : Folded(c, cs) \in Letters
BY DEF Letters, Folded, ToLower

LEMMA ReachedLetter ==
    ASSUME NEW p \in Pattern, NEW cs \in BOOLEAN, NEW s \in Text, NEW i \in 1..Len(p),
           NEW t, NEW lens, Reached(p, cs, s, i - 1, t, lens), p[i] # "*"
    PROVE  Reached(p, cs, s, i, NextParts(p, cs, i, t), NextMatched(p, cs, s, i, lens))
<1> DEFINE to == NextMatched(p, cs, s, i, lens)
           c == Folded(p[i], cs)
           u == NextParts(p, cs, i, t)
<1>1. /\ Len(s) \in Nat /\ i \in Nat /\ i > 0 /\ InPart(p, i)
      /\ to = OneFurther(s, c, cs, lens)
  BY DEF Text, Pattern, NextMatched, InPart, OneFurther
<1>2. c \in Letters
  <2>1. p[i] \in Letters
    BY DEF Pattern, Wildcard
  <2> QED
    BY <2>1, FoldedLetter
<1>3. t \in Seq(Part) /\ Len(t) \in Nat
  BY DEF Reached
<1> HIDE DEF c
<1>4. CASE ~InPart(p, i - 1)
  <2>1. u = Append(t, <<c>>)
    BY <1>1, <1>4 DEF InPart, NextParts, c
  <2>2. <<c>> \in Part /\ <<c>> = Append(<<>>, c) /\ <<>> \in Text
    BY <1>2 DEF Part, Text
  <2>3. /\ u \in Seq(Part) /\ Len(u) = Len(t) + 1 /\ u[Len(u)] = <<c>> /\ u # <<>>
        /\ \A k \in 1..Len(t) : u[k] = t[k]
    BY <1>3, <2>1, <2>2
  <2>4. Before(p, i, u) = Len(t)
    BY <1>1, <1>3, <2>3 DEF Before
  <2> HIDE DEF u
  <2>5. ASSUME NEW f, Follows(f, s, cs, p[1] = "*", u, Len(t))
        PROVE  /\ f[Len(t)] \in -1..Len(s)
               /\ to = Ends(s, <<c>>, cs, f[Len(t)], Len(u) = 1 /\ ~(p[1] = "*"))
    <3> DEFINE from == f[Len(t)]
               anchored == Len(u) = 1 /\ ~(p[1] = "*")
    <3>1. Follows(f, s, cs, p[1] = "*", t, Len(t))
      BY <1>3, <2>3, <2>5, FollowsSame
    <3>2. /\ from \in -1..Len(s)
          /\ lens = IF anchored /\ from # -1 THEN {from} ELSE Rest(s, from)
      <4>1. CASE i = 1
        <5>1. t = <<>> /\ lens = {0} /\ Len(t) = 0 /\ Len(u) = 1
          BY <2>3, <4>1 DEF Reached
        <5>2. f[0] = 0 /\ p[1] # "*"
          BY <3>1, <4>1, <1>1 DEF Follows, InPart
        <5> QED
          BY <1>1, <5>1, <5>2
      <4>2. CASE i # 1
        <5>1. i - 1 > 0 /\ Before(p, i - 1, t) = Len(t)
          BY <1>1, <1>4, <4>2 DEF Before
        <5>2. from \in -1..Len(s) /\ lens = Rest(s, from)
          BY <1>4, <3>1, <5>1 DEF Reached
        <5>3. ~anchored
          <6>1. Len(u) = 1 => t = <<>>
            BY <1>3, <2>3
          <6> QED
            BY <5>1, <6>1 DEF Reached
        <5> QED
          BY <5>2, <5>3
      <4> QED
        BY <4>1, <4>2
    <3> HIDE DEF from, anchored
    <3>3. Ends(s, <<>>, cs, from, anchored) = lens
      BY <3>2, EmptyPart
    <3>4. Ends(s, <<c>>, cs, from, anchored) = to
      <4> DEFINE none == <<>>
      <4>1. none \in Text /\ <<c>> = Append(none, c) /\ Ends(s, none, cs, from, anchored) = lens
        BY <2>2, <3>3
      <4>3. from \in -1..Len(s)
        BY <3>2
      <4> HIDE DEF none
      <4>2. Ends(s, Append(none, c), cs, from, anchored)
            = OneFurther(s, c, cs, Ends(s, none, cs, from, anchored))
        BY <4>1, <4>3, LongerPart
      <4> QED
        BY <1>1, <4>1, <4>2
    <3> QED
      BY <3>2, <3>4 DEF from, anchored
  <2> HIDE DEF to
  <2>6. Reached(p, cs, s, i, u, to)
    BY <1>1, <2>3, <2>4, <2>5 DEF Reached
  <2> QED
    BY <2>6 DEF u, to
<1>5. CASE InPart(p, i - 1)
  <2> DEFINE n == Len(t)
  <2>1. i # 1 /\ i - 1 > 0 /\ t # <<>> /\ Before(p, i - 1, t) = n - 1
    BY <1>1, <1>5 DEF InPart, Before, Reached
  <2>2. n \in Nat /\ n > 0 /\ t[n] \in Part /\ t[n] \in Text
    BY <1>3, <2>1 DEF Part
  <2>3. u = [t EXCEPT ![n] = Append(@, c)]
    BY <1>1, <1>5, <2>1 DEF InPart, NextParts, c
  <2>4. Append(t[n], c) \in Part
    BY <1>2, <2>2 DEF Part, Text
  <2>5. /\ u \in Seq(Part) /\ Len(u) = n /\ u[n] = Append(t[n], c) /\ u # <<>>
        /\ \A k \in 1..(n - 1) : u[k] = t[k]
    BY <1>3, <2>2, <2>3, <2>4
  <2>6. Before(p, i, u) = n - 1
    BY <1>1, <2>5 DEF Before
  <2> HIDE DEF u, n
  <2>7. ASSUME NEW f, Follows(f, s, cs, p[1] = "*", u, n - 1)
        PROVE  /\ f[n - 1] \in -1..Len(s)
               /\ to = Ends(s, u[n], cs, f[n - 1], n = 1 /\ ~(p[1] = "*"))
    <3>1. Follows(f, s, cs, p[1] = "*", t, n - 1)
      BY <2>2, <2>5, <2>7, FollowsSame
    <3>2. /\ f[n - 1] \in -1..Len(s)
          /\ lens = Ends(s, t[n], cs, f[n - 1], n = 1 /\ ~(p[1] = "*"))
      BY <1>5, <2>1, <3>1 DEF Reached, n
    <3> QED
      BY <1>1, <2>2, <2>5, <3>2, LongerPart
  <2> HIDE DEF to
  <2>8. Reached(p, cs, s, i, u, to)
    BY <1>1, <2>1, <2>5, <2>6, <2>7 DEF Reached
  <2> QED
    BY <2>8 DEF u, to
<1> QED
  BY <1>4, <1>5

\* What Match finds before a part that it looks for at the end of the text.
LEMMA ReachedAll ==
    ASSUME NEW p \in Pattern, NEW cs \in BOOLEAN, NEW s \in Text, NEW g, NEW h,
           StepsOfParts(g, p, cs, Len(p)), StepsOfMatched(h, p, cs, s, Len(p))
    PROVE  Reached(p, cs, s, Len(p), g[Len(p)], h[Len(p)])
<1>1. Len(p) \in Nat
  BY DEF Pattern
<1>2. /\ \A i \in 0..Len(p) : g[i] = IF i = 0 THEN <<>> ELSE NextParts(p, cs, i, g[i - 1])
      /\ \A i \in 0..Len(p) : h[i] = IF i = 0 THEN {0} ELSE NextMatched(p, cs, s, i, h[i - 1])
  BY DEF StepsOfParts, StepsOfMatched
<1> DEFINE T == {i \in 0..Len(p) : ~Reached(p, cs, s, i, g[i], h[i])}
<1> SUFFICES ASSUME T # {} PROVE FALSE
  BY <1>1
<1>3. PICK i \in T : \A j \in T : i <= j
  <2>1. T \in SUBSET Nat
    BY <1>1
  <2> HIDE DEF T
  <2> QED
    BY <2>1, LeastElement
<1>4. i # 0
  <2>1. g[0] = <<>> /\ h[0] = {0} /\ ~InPart(p, 0)
    BY <1>1, <1>2 DEF InPart
  <2>2. <<>> \in Seq(Part)
    OBVIOUS
  <2>3. Reached(p, cs, s, 0, g[0], h[0])
    BY <2>1, <2>2 DEF Reached
  <2> QED
    BY <2>3
<1>5. i \in 1..Len(p) /\ i - 1 \in 0..Len(p) /\ ~(i <= i - 1)
  BY <1>1, <1>4
<1>6. Reached(p, cs, s, i - 1, g[i - 1], h[i - 1])
  BY <1>3, <1>5
<1>7. g[i] = NextParts(p, cs, i, g[i - 1]) /\ h[i] = NextMatched(p, cs, s, i, h[i - 1])
  BY <1>2, <1>4, <1>5
<1>8. Reached(p, cs, s, i, g[i], h[i])
  <2>1. CASE p[i] = "*"
    BY <1>5, <1>6, <1>7, <2>1, ReachedWildcard
  <2>2. CASE p[i] # "*"
    BY <1>5, <1>6, <1>7, <2>2, ReachedLetter
  <2> QED
    BY <2>1, <2>2
<1> QED
  BY <1>8

LEMMA FollowsSteps ==
    ASSUME NEW f, NEW s, NEW cs, NEW begin, NEW parts, NEW n \in Nat,
           StepsOfFrom(f, s, cs, begin, parts, n)
    PROVE  Follows(f, s, cs, begin, parts, n)
BY DEF StepsOfFrom, Follows

\* Match finds what the pattern means, and nothing else unless the last part may
\* overlap with the one before.
LEMMA MatchIsMeant ==
    ASSUME NEW p \in Pattern, NEW cs \in BOOLEAN, NEW s \in Text
    PROVE  LET m == NewMatcher(p, cs) IN
           /\ Means(p, cs, s) => Match(m, s)
           /\ Match(m, s) /\ ~(~m.wildcardEnd /\ Len(m.parts) > 1) => Means(p, cs, s)
<1> DEFINE m == NewMatcher(p, cs)
           l == Len(p)
           t == m.parts
           n == Len(t)
           begin == p[1] = "*"
<1>1. l \in Nat /\ Len(s) \in Nat
  BY DEF Pattern, Text
<1>2. PICK g : StepsOfParts(g, p, cs, l) /\ t = g[l]
  BY <1>1, MatcherParts
<1>3. PICK h : StepsOfMatched(h, p, cs, s, l) /\ (Means(p, cs, s) <=> Len(s) \in h[l])
  BY <1>1, MeansIs
<1>4. Reached(p, cs, s, l, t, h[l])
  BY <1>2, <1>3, ReachedAll
<1>5. m.caseSensitive = cs
  BY DEF NewMatcher
<1>6. /\ m.wildcardBegin <=> l > 0 /\ p[1] = "*"
      /\ m.wildcardEnd <=> l > 0 /\ p[l] = "*"
  <2>1. p # <<>> <=> l > 0
    BY <1>1 DEF Pattern
  <2>2. l > 0 => Head(p) = p[1] /\ Last(p) = p[l]
    BY <2>1 DEF Pattern, Last
  <2>3. m.wildcardBegin = (p # <<>> /\ Head(p) = "*") /\ m.wildcardEnd = (p # <<>> /\ Last(p) = "*")
    BY DEF NewMatcher
  <2> QED
    BY <2>1, <2>2, <2>3
<1>7. t \in Seq(Part) /\ n \in Nat
  BY <1>4 DEF Reached
<1> HIDE DEF m, l, n
<1>8. CASE l = 0
  <2>1. t = <<>> /\ h[l] = {0} /\ n = 0
    BY <1>4, <1>8 DEF Reached, n
  <2>2. Match(m, s) <=> s = <<>>
    BY <1>6, <1>8, <2>1 DEF Match, n
  <2>3. s = <<>> <=> Len(s) = 0
    BY DEF Text
  <2> QED
    BY <1>3, <2>1, <2>2, <2>3 DEF m
<1>9. CASE l > 0 /\ p[l] = "*"
  <2>1. Match(m, s) <=> MatchParts(m, t, s)
    BY <1>6, <1>7, <1>9 DEF Match, n
  <2>2. PICK f : /\ StepsOfFrom(f, s, cs, m.wildcardBegin, t, n)
                 /\ MatchParts(m, t, s) <=> f[n] # -1
    BY <1>5, <1>7, MatchPartsIs DEF n
  <2>3. Follows(f, s, cs, m.wildcardBegin, t, n)
    BY <1>7, <2>2, FollowsSteps
  <2>4. Follows(f, s, cs, p[1] = "*", t, n)
    <3>1. m.wildcardBegin <=> p[1] = "*"
      BY <1>6, <1>9
    <3> QED
      BY <2>3, <3>1 DEF Follows, NextFrom
  <2>5. ~InPart(p, l) /\ Before(p, l, t) = n
    BY <1>9 DEF InPart, Before, n
  <2>6. f[n] \in -1..Len(s) /\ h[l] = Rest(s, f[n])
    BY <1>4, <1>9, <2>4, <2>5 DEF Reached
  <2>7. Len(s) \in h[l] <=> f[n] # -1
    BY <1>1, <2>6 DEF Rest
  <2> QED
    BY <1>3, <2>1, <2>2, <2>7 DEF m
<1>10. CASE l > 0 /\ p[l] # "*"
  <2> DEFINE begun == SubSeq(t, 1, n - 1)
             last == t[n]
             anchored == n = 1 /\ ~(p[1] = "*")
  <2>1. InPart(p, l) /\ Before(p, l, t) = n - 1
    BY <1>10 DEF InPart, Before, n
  <2>2. t # <<>>
    BY <1>4, <2>1 DEF Reached
  <2>3. n > 0 /\ n - 1 \in Nat /\ last \in Part /\ Len(begun) = n - 1 /\ \A k \in 1..(n - 1) : begun[k] = t[k]
    BY <1>7, <2>2 DEF n
  <2>4. Len(last) \in Nat /\ Len(last) > 0
    BY <2>3 DEF Part, Text
  <2>5. (m.wildcardBegin <=> p[1] = "*") /\ ~m.wildcardEnd
    BY <1>6, <1>10
  <2>6. ASSUME NEW f, Follows(f, s, cs, p[1] = "*", t, n - 1)
        PROVE  f[n - 1] \in -1..Len(s) /\ h[l] = Ends(s, last, cs, f[n - 1], anchored)
    BY <1>4, <1>10, <2>1, <2>6 DEF Reached, n
  <2>7. PICK f : /\ StepsOfFrom(f, s, cs, m.wildcardBegin, begun, n - 1)
                 /\ MatchParts(m, begun, s) <=> f[n - 1] # -1
    <3> HIDE DEF begun
    <3>1. PICK f : /\ StepsOfFrom(f, s, m.caseSensitive, m.wildcardBegin, begun, Len(begun))
                   /\ MatchParts(m, begun, s) <=> f[Len(begun)] # -1
      BY <2>3, MatchPartsIs
    <3> QED
      BY <1>5, <2>3, <3>1
  <2>8. Follows(f, s, cs, m.wildcardBegin, begun, n - 1)
    BY <2>3, <2>7, FollowsSteps
  <2>9. Follows(f, s, cs, p[1] = "*", t, n - 1)
    BY <2>3, <2>5, <2>8 DEF Follows, NextFrom
  <2> DEFINE from == f[n - 1]
  <2>10. from \in -1..Len(s) /\ h[l] = Ends(s, last, cs, from, anchored)
    BY <2>6, <2>9
  <2>11. Len(s) \in h[l] <=> /\ from # -1 /\ from <= Len(s) - Len(last)
                             /\ HasPrefixAt(s, Len(s) - Len(last), last, cs)
                             /\ anchored => Len(s) - Len(last) = from
    <3>1. \A off \in Places(s, from, last, cs, anchored) : off \in Int
      BY DEF Places
    <3>2. \A off \in Int : Len(s) = off + Len(last) <=> off = Len(s) - Len(last)
      BY <1>1, <2>4
    <3>3. Len(s) \in h[l] <=> from # -1 /\ Len(s) - Len(last) \in Places(s, from, last, cs, anchored)
      BY <2>10, <3>1, <3>2 DEF Ends
    <3>4. Len(s) - Len(last) \in Places(s, from, last, cs, anchored)
          <=> /\ from <= Len(s) - Len(last)
              /\ HasPrefixAt(s, Len(s) - Len(last), last, cs)
              /\ anchored => Len(s) - Len(last) = from
      BY <1>1, <2>4, <2>10 DEF Places
    <3> QED
      BY <3>3, <3>4
  <2>12. n = 1 => from = 0
    BY <2>9 DEF Follows
  <2>13. CASE anchored
    <3>1. Match(m, s) <=> Len(s) = Len(last) /\ HasPrefixAt(s, 0, last, cs)
      BY <1>5, <1>7, <2>3, <2>5, <2>13 DEF Match, n
    <3> QED
      BY <1>1, <1>3, <2>4, <2>11, <2>12, <2>13, <3>1 DEF m
  <2>14. CASE ~anchored
    <3>1. Match(m, s) <=> HasPrefixAt(s, Len(s) - Len(last), last, cs) /\ MatchParts(m, begun, s)
      BY <1>5, <1>7, <2>3, <2>5, <2>14 DEF Match, n
    <3>2. Means(p, cs, s) => Match(m, s)
      BY <1>3, <2>7, <2>11, <3>1
    <3>3. ASSUME Match(m, s), n = 1 PROVE Means(p, cs, s)
      <4>1. HasPrefixAt(s, Len(s) - Len(last), last, cs) => 0 <= Len(s) - Len(last)
        BY <1>1, <2>4 DEF HasPrefixAt
      <4> QED
        BY <1>1, <1>3, <2>4, <2>11, <2>12, <2>14, <3>1, <3>3, <4>1
    <3>4. ~(n > 1) => n = 1
      BY <1>7, <2>3
    <3> QED
      BY <2>5, <3>2, <3>3, <3>4 DEF m, n
  <2> QED
    BY <2>13, <2>14
<1> QED
  BY <1>1, <1>8, <1>9, <1>10

-----------------------------------------------------------------------------
(* Options *)

\* What the parsers make of a quantity is a number, and no negative one for a
\* duration.
LEMMA ParsedDuration ==
    ASSUME NEW q \in Durations, NEW default \in Nat, NEW minUnit \in {"us", "ms"}
    PROVE  LET r == ParseDurationEnv(q, default, minUnit) IN
           r.v \in Nat
<1> DEFINE r == ParseDurationEnv(q, default, minUnit)
<1>1. CASE q = NotSet
  BY <1>1 DEF ParseDurationEnv, Parsed
<1>2. CASE q # NotSet
  <2>1. q.n \in {-1, 0, 1, 6} /\ q.unit \in {"us", "ms", "s", "none", "x"}
    BY <1>2 DEF Durations, Quantity
  <2>2. /\ DOMAIN DurationUnit = {"us", "ms", "s", "m"}
        /\ DurationUnit["us"] = 10 /\ DurationUnit["ms"] = 100 /\ DurationUnit["s"] = 1000
    BY DEF DurationUnit
  <2>3. CASE q.unit \in {"none", "x"} \/ q.n = -1
    BY <1>2, <2>2, <2>3 DEF ParseDurationEnv, ParseDuration, Failed
  <2>4. CASE q.unit \in {"us", "ms", "s"} /\ q.n \in {0, 1, 6}
    <3>1. DurationUnit[q.unit] * q.n \in Nat
      BY <2>2, <2>4
    <3> QED
      BY <1>2, <3>1 DEF ParseDurationEnv, ParseDuration, Failed, Parsed
  <2> QED
    BY <2>1, <2>3, <2>4
<1> QED
  BY <1>1, <1>2

LEMMA BufferSizeUsable ==
    ASSUME NEW q \in Sizes
    PROVE  LET r == InitialAPIBufferSize(q) IN
           r.ok => r.v \in MinSize..MaxSize
<1>1. ParseSizeEnv(q, DefaultSize).v \in Int
  <2>1. CASE q = NotSet
    BY <2>1 DEF ParseSizeEnv, Parsed, DefaultSize
  <2>2. CASE q # NotSet
    <3>1. /\ q.n \in {-1, 0, 1, 6} /\ q.unit \in {"b", "kb", "mb", "gb", "none", "x"}
          /\ q.neg \in BOOLEAN
      BY <2>2 DEF Sizes, Quantity
    <3>2. /\ DOMAIN SizeUnit = {"b", "kb", "mb", "gb"}
          /\ \A u \in {"b", "kb", "mb", "gb"} : SizeUnit[u] \in Int
      BY DEF SizeUnit
    <3>3. CASE q.unit \in {"none", "x"} \/ q.n = -1
      BY <2>2, <3>2, <3>3 DEF ParseSizeEnv, ParseSize, Failed
    <3>4. CASE q.unit \in {"b", "kb", "mb", "gb"} /\ q.n \in {0, 1, 6}
      <4>1. (IF q.unit = "b" /\ q.neg THEN -1 ELSE SizeUnit[q.unit]) * q.n \in Int
        BY <3>2, <3>4
      <4> QED
        BY <2>2, <4>1 DEF ParseSizeEnv, ParseSize, Failed, Parsed
    <3> QED
      BY <3>1, <3>3, <3>4
  <2> QED
    BY <2>1, <2>2
<1> QED
  BY <1>1 DEF InitialAPIBufferSize, Failed, MinSize, MaxSize

LEMMA ProfileUsable ==
    ASSUME NEW interval \in Durations, NEW duration \in Durations
    PROVE  LET r == InitialCPUProfile(interval, duration) IN
           /\ r[2].ok <=> r[1].ok
           /\ r[1].ok => (r[1].v > 0 <=> r[2].v > 0)
<1> DEFINE i == ParseDurationEnv(interval, 0, "ms")
           d == ParseDurationEnv(duration, 0, "ms")
<1>1. i.v \in Nat /\ d.v \in Nat
  BY ParsedDuration
<1> HIDE DEF i, d
<1>2. InitialCPUProfile(interval, duration)
      = IF ~i.ok THEN <<Failed, Failed>> ELSE IF i.v <= 0 THEN <<Parsed(0), Parsed(0)>>
        ELSE IF ~d.ok THEN <<Failed, Failed>> ELSE IF d.v <= 0 THEN <<Parsed(0), Parsed(0)>>
        ELSE <<i, d>>
  BY DEF InitialCPUProfile, i, d
<1> QED
  BY <1>1, <1>2 DEF Failed, Parsed

-----------------------------------------------------------------------------

\* The inductive invariant behind SettingsFaithful: the matcher is what NewMatcher
\* made of the pattern, and the cells are never written.
SettingsInv ==
    /\ matcher.pattern \in Pattern /\ matcher.caseSensitive \in BOOLEAN
    /\ matcher.m = NewMatcher(matcher.pattern, matcher.caseSensitive)
    /\ text \in Text /\ header \in {"none", "request", "redacted"}
    /\ cells = [request |-> "value", redacted |-> "[REDACTED]"]
    /\ env.size \in Sizes /\ env.one \in Durations /\ env.other \in Durations
    /\ OptionsUsable

LEMMA TextsAreSequences == \A chars, n : n \in Nat => Texts(chars, n) \subseteq Seq(chars)
BY DEF Texts

LEMMA SettingsInvInit == ConfiguredInit => SettingsInv
<1> SUFFICES ASSUME WildcardInit, SettingsInit PROVE SettingsInv
  BY DEF ConfiguredInit
<1>1. PICK p \in Texts(Letters \cup {"*"}, MaxPattern), cs \in BOOLEAN : WildcardStart(p, cs)
  BY DEF WildcardInit
<1>2. p \in Pattern
  BY TextsAreSequences, SettingsBounds DEF Pattern, Wildcard
<1>3. <<>> \in Text
  BY DEF Text
<1>4. env.size \in Sizes /\ env.one \in Durations /\ env.other \in Durations
  BY DEF SettingsInit, Sizes, Durations
<1>5. OptionsUsable
  BY DEF SettingsInit, OptionsUsable, NoOpts
<1> QED
  BY <1>1, <1>2, <1>3, <1>4, <1>5 DEF WildcardStart, SettingsInv

LEMMA SettingsInvNext ==
    SettingsInv /\ [ConfiguredNext]_<<wildcardVars, settingsVars>> => SettingsInv'
<1> SUFFICES ASSUME SettingsInv, [ConfiguredNext]_<<wildcardVars, settingsVars>> PROVE SettingsInv'
  OBVIOUS
<1> USE DEF SettingsInv
<1>1. CASE WildcardNext /\ UNCHANGED settingsVars
  <2>1. OptionsUsable'
    BY <1>1 DEF settingsVars, OptionsUsable
  <2>2. ASSUME NEW s \in Texts(Letters, MaxText), SetHTTPRequest(s) PROVE SettingsInv'
    <3>1. s \in Text
      BY TextsAreSequences, SettingsBounds DEF Text
    <3> QED
      BY <1>1, <2>1, <2>2, <3>1 DEF SetHTTPRequest, settingsVars
  <2>3. CASE SanitizeHeaders
    BY <1>1, <2>1, <2>3 DEF SanitizeHeaders, settingsVars
  <2> QED
    BY <1>1, <2>2, <2>3 DEF WildcardNext
<1>2. CASE SettingsNext /\ UNCHANGED wildcardVars
  <2>1. PICK continueOnError \in BOOLEAN : InitDefaults(continueOnError)
    BY <1>2 DEF SettingsNext
  <2> DEFINE size == InitialAPIBufferSize(env.size)
             min == InitialSpanStackTraceMinDuration(env.one, env.other)
             cpu == InitialCPUProfile(env.one, env.other)
             exit == ParseDurationEnv(env.one, DurationUnit.ms, "us")
             OrDefault(r, default) == IF r.ok THEN r.v ELSE default
  <2>2. size.ok => size.v \in MinSize..MaxSize
    BY BufferSizeUsable
  <2>3. (cpu[2].ok <=> cpu[1].ok) /\ (cpu[1].ok => (cpu[1].v > 0 <=> cpu[2].v > 0))
    BY ProfileUsable
  <2>4. DurationUnit.ms \in Nat
    BY DEF DurationUnit
  <2>5. exit.v \in Nat
    BY <2>4, ParsedDuration
  <2>6. \/ opts' = [made |-> FALSE, err |-> TRUE]
        \/ opts' = [made |-> TRUE, bufferSize |-> OrDefault(size, DefaultSize),
                    spanStackTraceMinDuration |-> OrDefault(min, DefaultMinDuration),
                    cpuProfileInterval |-> OrDefault(cpu[1], 0), cpuProfileDuration |-> OrDefault(cpu[2], 0),
                    exitSpanMinDuration |-> OrDefault(exit, DurationUnit.ms)]
    BY <2>1 DEF InitDefaults
  <2>7. /\ OrDefault(size, DefaultSize) \in MinSize..MaxSize
        /\ OrDefault(exit, DurationUnit.ms) >= 0
        /\ OrDefault(cpu[1], 0) > 0 <=> OrDefault(cpu[2], 0) > 0
    BY <2>2, <2>3, <2>4, <2>5 DEF DefaultSize, MinSize, MaxSize
  <2> HIDE DEF size, min, cpu, exit, OrDefault
  <2>8. OptionsUsable'
    BY <2>6, <2>7 DEF OptionsUsable
  <2> QED
    BY <1>2, <2>1, <2>8 DEF InitDefaults, wildcardVars
<1>3. CASE UNCHANGED <<wildcardVars, settingsVars>>
  BY <1>3 DEF wildcardVars, settingsVars, OptionsUsable
<1> QED
  BY <1>1, <1>2, <1>3 DEF ConfiguredNext

LEMMA SettingsInvImplies == SettingsInv => SettingsFaithful
<1> SUFFICES ASSUME SettingsInv PROVE SettingsFaithful
  OBVIOUS
<1>1. PatternsMatch
  BY MatchIsMeant DEF SettingsInv, PatternsMatch
<1>2. RequestUntouched
  BY DEF SettingsInv, RequestUntouched
<1> QED
  BY <1>1, <1>2 DEF SettingsInv, SettingsFaithful

\* Match (internal/wildcard/matcher.go) finds every text that a pattern means, for
\* patterns and texts of any length, and others only if parts of the pattern
\* overlap; sanitising leaves the request alone (sanitizer.go); and initDefaults
\* makes usable options of every environment (config.go).
THEOREM SettingsAreFaithful == ConfiguredSpec => []SettingsFaithful
<1> QED
  BY SettingsInvInit, SettingsInvNext, SettingsInvImplies, PTL DEF ConfiguredSpec
=============================================================================
