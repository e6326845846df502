------------------------------ MODULE Settings ------------------------------
(***************************************************************************)
(* Configuration that is read as text: wildcard patterns and what they     *)
(* redact (internal/wildcard, sanitizer.go), sizes and durations           *)
(* (internal/configutil), and the settings that initDefaults takes from    *)
(* the environment (config.go, tracer.go).  A text is a sequence of        *)
(* characters where matching looks at them; otherwise it is the parts that *)
(* a parser finds in it.  Letters have one byte.                           *)
(***************************************************************************)
EXTENDS Integers, Sequences, SequencesExt

CONSTANTS
    MaxPattern,     \* length of a pattern
    MaxText         \* length of the text that is matched

ASSUME SettingsBounds == {MaxPattern, MaxText} \subseteq Nat

-----------------------------------------------------------------------------
(* Wildcards *)

Letters == {"a", "A", "b"}

ToLower(c) == IF c = "A" THEN "a" ELSE c

\* A character as it is compared.
Folded(c, caseSensitive) == IF caseSensitive THEN c ELSE ToLower(c)

Texts(chars, n) == UNION {[1..k -> chars] : k \in 0..n}

\* NewMatcher: the parts between the wildcards, without the empty ones.
NewMatcher(p, caseSensitive) ==
    LET parts[i \in 0..Len(p)] ==
            IF i = 0 THEN <<>>
            ELSE IF p[i] = "*" THEN parts[i - 1]
            ELSE IF i = 1 \/ p[i - 1] = "*" THEN Append(parts[i - 1], <<Folded(p[i], caseSensitive)>>)
            ELSE [parts[i - 1] EXCEPT ![Len(parts[i - 1])] = Append(@, Folded(p[i], caseSensitive))]
    IN [parts |-> parts[Len(p)],
        wildcardBegin |-> p # <<>> /\ Head(p) = "*",
        wildcardEnd |-> p # <<>> /\ Last(p) = "*",
        caseSensitive |-> caseSensitive]

\* strings.HasPrefix(s[off:], part), or hasPrefixLower(s[off:], part) = 0.
HasPrefixAt(s, off, part, caseSensitive) ==
    /\ off >= 0 /\ off + Len(part) <= Len(s)
    /\ \A k \in DOMAIN part : Folded(s[off + k], caseSensitive) = part[k]

\* Where a part may be in the text from `from` on: anywhere, or only there if the
\* pattern does not begin with a wildcard.
Places(s, from, part, caseSensitive, anchored) ==
    {off \in from..(Len(s) - Len(part)) : /\ HasPrefixAt(s, off, part, caseSensitive)
                                          /\ anchored => off = from}

\* Mutant: the last place instead of the first.
LastPlace(places) == IF places = {} THEN -1 ELSE CHOOSE off \in places : \A o \in places : o <= off

\* The first place; -1 if there is none.
FirstPlace(places) == IF places = {} THEN -1 ELSE CHOOSE off \in places : \A o \in places : off <= o

\* The loop of Match: each part is looked for in what follows the one before.  The
\* rest of the text begins behind from[i] characters, or there is none at -1.
MatchParts(m, parts, s) ==
    LET from[i \in 0..Len(parts)] ==
            IF i = 0 THEN 0
            ELSE LET j == FirstPlace(Places(s, from[i - 1], parts[i], m.caseSensitive,
                                            i = 1 /\ ~m.wildcardBegin))
                 IN IF from[i - 1] = -1 \/ j = -1 THEN -1 ELSE j + Len(parts[i])
    IN from[Len(parts)] # -1

\* Match.  The last part is compared with the end of the text, which is not cut.
Match(m, s) ==
    LET n == Len(m.parts)
        EndsWithLast == HasPrefixAt(s, Len(s) - Len(m.parts[n]), m.parts[n], m.caseSensitive)
    IN CASE n = 0 /\ ~m.wildcardBegin /\ ~m.wildcardEnd -> s = <<>>
         [] n = 1 /\ ~m.wildcardBegin /\ ~m.wildcardEnd ->
                Len(s) = Len(m.parts[1]) /\ HasPrefixAt(s, 0, m.parts[1], m.caseSensitive)
         [] n > 0 /\ ~m.wildcardEnd /\ ~(n = 1 /\ ~m.wildcardBegin) ->
                EndsWithLast /\ MatchParts(m, SubSeq(m.parts, 1, n - 1), s)
         [] OTHER -> MatchParts(m, m.parts, s)

VARIABLES
    matcher,    \* a pattern, whether it is case-sensitive, and what NewMatcher made of it
    text,       \* the key of a header, as it is matched
    header,     \* the header of an event: its key and the cell that holds its values
    cells       \* the values of the request's header, and the shared redacted value

wildcardVars == <<matcher, text, header, cells>>

\* Nothing is matched yet by the pattern p.
WildcardStart(p, caseSensitive) ==
    /\ matcher = [pattern |-> p, caseSensitive |-> caseSensitive, m |-> NewMatcher(p, caseSensitive)]
    /\ text = <<>> /\ header = "none"
    /\ cells = [request |-> "value", redacted |-> "[REDACTED]"]

WildcardInit ==
    \E p \in Texts(Letters \cup {"*"}, MaxPattern), cs \in BOOLEAN : WildcardStart(p, cs)

NoWildcards == WildcardStart(<<>>, FALSE)

\* An event takes over the header of the request, without a copy of its values.
SetHTTPRequest(s) ==
    /\ header = "none"
    /\ text' = s /\ header' = "request" /\ UNCHANGED <<matcher, cells>>

\* Mutant: the values are overwritten in place.
SanitizeInPlace ==
    /\ header = "request" /\ Match(matcher.m, text)
    /\ cells' = [cells EXCEPT !.request = "[REDACTED]"] /\ header' = "redacted"
    /\ UNCHANGED <<matcher, text>>

\* sanitizeHeaders for a header with values other than :authority.
SanitizeHeaders ==
    /\ header = "request" /\ Match(matcher.m, text)
    /\ header' = "redacted" /\ UNCHANGED <<matcher, text, cells>>

WildcardNext ==
    \/ \E s \in Texts(Letters, MaxText) : SetHTTPRequest(s)
    \/ SanitizeHeaders

-----------------------------------------------------------------------------
(* Settings from the environment *)

\* The text of a size or duration as the parsers take it apart: a sign, a number
\* or none, and a unit, "none" if it is missing and "x" if there is no such unit.
Quantity(units) == [neg : BOOLEAN, n : {-1, 0, 1, 6}, unit : units \cup {"none", "x"}]

\* Units of time; only their order matters, and that -1 is shorter than each.
DurationUnit == [us |-> 10, ms |-> 100, s |-> 1000, m |-> 60000]

\* Units of size, scaled likewise.
SizeUnit == [b |-> 1, kb |-> 10, mb |-> 100, gb |-> 1000]

Failed == [ok |-> FALSE, v |-> 0]
Parsed(v) == [ok |-> TRUE, v |-> v]

\* ParseDurationOptions: the unit's factor replaces the sign.
ParseDuration(q, minUnit) ==
    IF q.unit \notin DOMAIN DurationUnit \/ q.n = -1 THEN Failed
    ELSE IF DurationUnit[q.unit] < DurationUnit[minUnit] THEN Failed
    ELSE Parsed(DurationUnit[q.unit] * q.n)

\* ParseSize: only "b" keeps the sign.
ParseSize(q) ==
    IF q.unit \notin DOMAIN SizeUnit \/ q.n = -1 THEN Failed
    ELSE Parsed((IF q.unit = "b" /\ q.neg THEN -1 ELSE SizeUnit[q.unit]) * q.n)

NotSet == [neg |-> FALSE, n |-> -1, unit |-> "not set"]

\* ParseDurationEnvOptions and ParseSizeEnv.
ParseDurationEnv(q, default, minUnit) == IF q = NotSet THEN Parsed(default) ELSE ParseDuration(q, minUnit)
ParseSizeEnv(q, default) == IF q = NotSet THEN Parsed(default) ELSE ParseSize(q)

\* The limits of a size and its default, scaled.
MinSize == 10
MaxSize == 500
DefaultSize == 60

\* initialAPIBufferSize, and initialAPIRequestSize and initialMetricsBufferSize
\* likewise.
InitialAPIBufferSize(q) ==
    LET size == ParseSizeEnv(q, DefaultSize)
    IN IF size.ok /\ (size.v < MinSize \/ size.v > MaxSize) THEN Failed ELSE size

DefaultMinDuration == 5 * DurationUnit.ms

\* initialSpanStackTraceMinDuration, with the deprecated setting.
InitialSpanStackTraceMinDuration(q, deprecated) ==
    LET v == ParseDurationEnv(q, DefaultMinDuration, "ms")
        d == ParseDurationEnv(deprecated, DefaultMinDuration, "ms")
    IN IF ~v.ok \/ v.v # DefaultMinDuration THEN v
       ELSE IF ~d.ok THEN d
       ELSE CASE d.v = 0 -> Parsed(-1) [] d.v = -1 -> Parsed(0) [] OTHER -> d

\* Mutant: the durations of profiles are taken as they are.
InitialCPUProfileEach(interval, duration) ==
    <<ParseDurationEnv(interval, 0, "ms"), ParseDurationEnv(duration, 0, "ms")>>

\* initialCPUProfileIntervalDuration: an interval and a duration, or neither.
InitialCPUProfile(interval, duration) ==
    LET i == ParseDurationEnv(interval, 0, "ms")
        d == ParseDurationEnv(duration, 0, "ms")
    IN IF ~i.ok THEN <<Failed, Failed>> ELSE IF i.v <= 0 THEN <<Parsed(0), Parsed(0)>>
       ELSE IF ~d.ok THEN <<Failed, Failed>> ELSE IF d.v <= 0 THEN <<Parsed(0), Parsed(0)>>
       ELSE <<i, d>>

VARIABLES
    env,    \* the environment
    opts    \* the options of the tracer, once it is made

settingsVars == <<env, opts>>

NoOpts == [made |-> FALSE]

Durations == Quantity({"us", "ms", "s"}) \cup {NotSet}
Sizes == Quantity({"b", "kb", "mb", "gb"}) \cup {NotSet}

NoSettings == opts = NoOpts /\ env = [size |-> NotSet, one |-> NotSet, other |-> NotSet]

SettingsInit ==
    /\ opts = NoOpts
    /\ \/ \E size \in Sizes : env = [size |-> size, one |-> NotSet, other |-> NotSet]
       \/ \E one, other \in Durations : env = [size |-> NotSet, one |-> one, other |-> other]

\* initDefaults for a size and two pairs of durations, as for all the settings: one
\* that cannot be parsed gets its default, or makes NewTracerOptions fail.
InitDefaults(continueOnError) ==
    /\ opts = NoOpts
    /\ LET size == InitialAPIBufferSize(env.size)
           min == InitialSpanStackTraceMinDuration(env.one, env.other)
           cpu == InitialCPUProfile(env.one, env.other)
           exit == ParseDurationEnv(env.one, DurationUnit.ms, "us")
           Value(r, default) == IF r.ok THEN r.v ELSE default
       IN opts' = IF ~continueOnError /\ ~(size.ok /\ min.ok /\ cpu[1].ok /\ exit.ok) THEN [made |-> FALSE, err |-> TRUE]
                  ELSE [made |-> TRUE, bufferSize |-> Value(size, DefaultSize),
                        spanStackTraceMinDuration |-> Value(min, DefaultMinDuration),
                        cpuProfileInterval |-> Value(cpu[1], 0), cpuProfileDuration |-> Value(cpu[2], 0),
                        exitSpanMinDuration |-> Value(exit, DurationUnit.ms)]
    /\ UNCHANGED env

SettingsNext == \E continueOnError \in BOOLEAN : InitDefaults(continueOnError)

\* Patterns and options have nothing to do with each other.
ConfiguredInit == WildcardInit /\ SettingsInit
ConfiguredNext ==
    \/ WildcardNext /\ UNCHANGED settingsVars
    \/ SettingsNext /\ UNCHANGED wildcardVars
ConfiguredSpec == ConfiguredInit /\ [][ConfiguredNext]_<<wildcardVars, settingsVars>>

-----------------------------------------------------------------------------
(* Properties *)

\* What a wildcard pattern means: matched[i] are the beginnings of the text, by
\* their length, that the first i characters of the pattern match.
Means(p, caseSensitive, s) ==
    LET Same(c, d) == Folded(c, caseSensitive) = Folded(d, caseSensitive)
        matched[i \in 0..Len(p)] ==
            IF i = 0 THEN {0}
            ELSE IF p[i] = "*" THEN {j \in 0..Len(s) : \E k \in matched[i - 1] : k <= j}
            ELSE {j \in 1..Len(s) : Same(p[i], s[j]) /\ j - 1 \in matched[i - 1]}
    IN Len(s) \in matched[Len(p)]

\* What the user wants redacted is redacted, and nothing else: Match finds every
\* text that the pattern means, and only those unless parts of a pattern that
\* does not end with a wildcard overlap in the text ("a*a" also matches "a").
PatternsMatch ==
    header = "request" =>
        LET m == matcher.m
            means == Means(matcher.pattern, matcher.caseSensitive, text)
            Overlap == ~m.wildcardEnd /\ Len(m.parts) > 1
        IN /\ means => Match(m, text)
           /\ Match(m, text) /\ ~Overlap => means

\* Sanitising an event does not touch the request that the program still uses,
\* nor the value that all events share, and hides the values of the event.
RequestUntouched ==
    /\ cells = [request |-> "value", redacted |-> "[REDACTED]"]
    /\ header = "redacted" => cells[header] # "value"

\* Whatever the environment says, the tracer's buffer has a size within the
\* limits, no minimum of an exit span's duration is negative, and a CPU profile
\* has a duration exactly if it has an interval.
OptionsUsable ==
    opts.made =>
        /\ opts.bufferSize \in MinSize..MaxSize
        /\ opts.exitSpanMinDuration >= 0
        /\ opts.cpuProfileInterval > 0 <=> opts.cpuProfileDuration > 0

\* What is configured is what happens: to the fields to be sanitised and to the
\* options of the tracer.
SettingsFaithful == PatternsMatch /\ RequestUntouched /\ OptionsUsable
=============================================================================
