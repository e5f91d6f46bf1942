----------------------------- MODULE MCPs2Frames -----------------------------
(***************************************************************************)
(* Ps2If with a record of the frames.  A frame is clean if the clock had   *)
(* been high for Resync clocks when it began; the frames before it may have*)
(* been cut off, given up, or started while the receiver was not ready.    *)
(***************************************************************************)
EXTENDS Ps2If

CONSTANT Resync

TwoCodes == {<<0, 1>>, <<1, 1>>}

\* The receiver's clock is fast enough for the keyboard's: a level of the clock
\* wire outlasts the debounce register and the state machine, the timeout a
\* level of it, and half the timeout the debounce register.  The silence before
\* a clean frame is longer than the timeout.
ASSUME ResyncAssumption ==
    /\ Resync \in MinGap .. MaxGap
    /\ DebounceLen + 2 <= MinPhase /\ DebounceLen + 2 <= MinGap
    /\ MaxPhase <= maxTimeout /\ DebounceLen + 1 < maxTimeout \div 2
    /\ maxTimeout + 2 <= Resync

VARIABLES
    clean,                  \* the frame the keyboard sends is clean
    expected,               \* the clean frame that is complete, not reported
    waited,                 \* clocks since it is complete
    dirty                   \* an unclean frame came after the last clean one

history == <<clean, expected, waited, dirty>>

None == <<>>

Complete == kbd.phase = "low" /\ kbd'.phase = "idle"

HInit ==
    Init /\ clean = FALSE /\ expected = None /\ waited = 0 /\ dirty = FALSE

HNext ==
    /\ Next
    /\ clean' = IF kbd.phase = "idle" /\ kbd'.phase = "low" THEN kbd.age >= Resync
                ELSE clean /\ kbd'.phase # "idle"
    /\ expected' = IF Complete /\ clean THEN kbd.frame
                   ELSE IF rx.rcvd = 1 THEN None ELSE expected
    /\ waited' = IF expected = None \/ expected' = None THEN 0 ELSE waited + 1
    /\ dirty' = IF clean' THEN FALSE ELSE dirty \/ (kbd'.phase # "idle" /\ ~clean')

\* The clock of the receiver never stops.
HSpec == HInit /\ [][HNext]_<<vars, history>> /\ WF_<<vars, history>>(HNext)

-----------------------------------------------------------------------------
\* The clocks the debounce register and the state machine take.
Deadline == DebounceLen + 2

Code(frame) == SubSeq(frame, 2, DataBits + 1)
Disturbed(frame) == frame[DataBits + 2] # Parity(Code(frame))

\* Whatever came before it, a clean frame is reported in time with its code,
\* and as an error exactly if its parity was disturbed.
CleanFrameReported ==
    expected # None =>
        /\ waited <= Deadline
        /\ rx.rcvd = 1 => /\ rx.data = Code(expected)
                          /\ rx.error = IF Disturbed(expected) THEN 1 ELSE 0

\* Nothing is reported but frames: the bit the receiver takes from its own
\* hold of the clock never leads to a report by itself.
OnlyFramesReported ==
    rx.rcvd = 1 => expected # None \/ dirty

\* Whatever arrives, the receiver comes back to the beginning of a frame.
Recovers == []<>(rx.bitCount = Start)
=============================================================================
