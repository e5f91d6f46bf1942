----------------------------- MODULE MCCtcPeriod -----------------------------
(***************************************************************************)
(* Ctc with a stopwatch on every channel.  It counts what the channel      *)
(* divides: the ticks of the divider for a timer, the zero counts of       *)
(* channel 2 for channel 3 as a counter; both as late as they reach the    *)
(* edge detector's output, two edges after their cause.                    *)
(***************************************************************************)
EXTENDS Ctc

\* Both are taps of one counter, the one of the longer period at a higher bit.
ASSUME TapAssumption == \E m \in 1 .. Tap256 : Tap256 = m * Tap16

VARIABLES
    late,                   \* the last two edges' ticks and zero counts
    since,                  \* divided pulses since the last load
    loaded,                 \* the time constant loaded then
    settled,                \* an edge was counted since the source was chosen
    clean                   \* counting from a load after that

history == <<late, since, loaded, settled, clean>>

Now == [tick |-> ctcClkEn,
        zero |-> IF 2 \in Channels /\ ZeroCount(2) THEN 1 ELSE 0]

\* The pulses of a channel's source that arrive after the next edge.
Arriving(c) ==
    IF prog[c].source = "trigger" THEN (IF c = 3 THEN late[1].zero ELSE 0)
    ELSE late[1].tick

\* Pulses per count.
Ratio(c) ==
    CASE prog[c].source = "prescaler16"  -> 2 * Tap16
      [] prog[c].source = "prescaler256" -> 2 * Tap256
      [] prog[c].source = "trigger"      -> 1

PInit ==
    /\ Init
    /\ late = <<Now, Now>>
    /\ since = [c \in Channels |-> 0]
    /\ loaded = [c \in Channels |-> 0]
    /\ settled = [c \in Channels |-> FALSE]
    /\ clean = [c \in Channels |-> FALSE]

\* The channel counts zero counts of channel 2.
Cascaded(c) == c = 3 /\ 2 \in Channels /\ prog[c].source = "trigger"

\* The channel goes on with the same source.  With time constant 1 zc_to of
\* channel 2 stays high, which leaves channel 3 nothing to count.
Steady(c) ==
    /\ prog[c].running = 1 /\ prog'[c].running = 1 /\ prog'[c].source = prog[c].source
    /\ Cascaded(c) => prog[2].timeConstant # 1

\* Choosing a source while it is high looks like an edge, so the first count
\* does not start the watch.
Watch ==
    /\ settled' = [c \in Channels |-> Steady(c) /\ (settled[c] \/ Event(c))]
    /\ clean' = [c \in Channels |->
           Steady(c) /\ (clean[c] \/ (settled[c] /\ ZeroCount(c)))]
    /\ loaded' = [c \in Channels |->
           IF ~clean'[c] THEN 0
           ELSE IF ZeroCount(c) THEN prog[c].timeConstant ELSE loaded[c]]
    /\ since' = [c \in Channels |->
           IF ~clean'[c] THEN 0
           ELSE IF ZeroCount(c) THEN Arriving(c) ELSE since[c] + Arriving(c)]

PNext == Next /\ late' = <<Now, late[1]>> /\ Watch

\* The clock runs; what the program does and how long is its choice.
PSpec == PInit /\ [][PNext]_<<vars, history>> /\ WF_<<vars, history>>(PNext)

-----------------------------------------------------------------------------
\* From a load to the next zero count a channel divides by exactly its
\* prescaler and the time constant loaded: no pulse is lost or counted twice,
\* wherever program writes fall; a time constant written meanwhile waits for
\* the next load; and each zero count of channel 2 is one count of channel 3,
\* unless channel 2 has time constant 1.
ExactPeriod ==
    \A c \in Channels :
        ZeroCount(c) /\ clean[c] => since[c] = Ratio(c) * loaded[c]

\* A channel that the program lets run, as a timer, or as the counter of a
\* running timer, keeps requesting.
Undisturbed(c) ==
    /\ bus = Idle
    /\ prog[c].running = 1
    /\ prog[c].source = "trigger" =>
           prog[2].running = 1 /\ prog[2].source # "trigger" /\ prog[2].timeConstant # 1

KeepsCounting ==
    \A c \in Channels :
        <>[]Undisturbed(c) /\ (c # 3 => <>[](prog[c].source # "trigger"))
            => []<>ZeroCount(c)
=============================================================================
