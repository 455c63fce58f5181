-------------------------- MODULE DebounceWindow --------------------------
(***************************************************************************)
(* The arithmetic of debounce_service.py: how long the open texts of a     *)
(* conversation wait for another one.  Times are whole units.              *)
(***************************************************************************)
EXTENDS Naturals

CONSTANTS
    Adaptive,           \* DEBOUNCE_ADAPTIVE_ENABLED
    DebounceSeconds,    \* DEBOUNCE_SECONDS
    DebounceMax,        \* DEBOUNCE_MAX_SECONDS
    AdaptiveMin,        \* DEBOUNCE_MIN_MS
    AdaptiveMax,        \* DEBOUNCE_MAX_MS
    Increment,          \* DEBOUNCE_INCREMENT_MS
    FragmentLimit       \* DEBOUNCE_MAX_MESSAGES

\* what config.py demands of the settings
ASSUME DebounceAssumption ==
    /\ Adaptive \in BOOLEAN
    /\ DebounceSeconds \in Nat
    /\ DebounceMax \in Nat /\ DebounceSeconds <= DebounceMax
    /\ AdaptiveMin \in Nat
    /\ AdaptiveMax \in Nat /\ AdaptiveMin <= AdaptiveMax
    /\ Increment \in Nat
    /\ FragmentLimit \in Nat \ {0}

Smaller(a, b) == IF a <= b THEN a ELSE b

\* a DEBOUNCE_MAX_MS of 0 is falsy and falls back on DEBOUNCE_MAX_SECONDS
MaxWindow ==
    IF Adaptive /\ AdaptiveMax # 0 THEN AdaptiveMax ELSE DebounceMax

\* _debounce_window_seconds of n >= 1 texts
Window(n) ==
    IF Adaptive
    THEN Smaller(AdaptiveMin + (n - 1) * Increment, MaxWindow)
    ELSE DebounceSeconds

\* Mutant: the end of the window still belongs to it
Waits_AtBorder(n, sinceFirst, sinceLast) ==
    /\ n < FragmentLimit
    /\ sinceLast <= Window(n)
    /\ sinceFirst < MaxWindow

\* should_wait
Waits(n, sinceFirst, sinceLast) ==
    /\ n < FragmentLimit
    /\ sinceLast < Window(n)
    /\ sinceFirst < MaxWindow

\* Mutant: the time the window has already lasted is not taken off
Remaining_Whole(n, sinceFirst, sinceLast) == Window(n)

\* remaining, where should_wait holds
Remaining(n, sinceFirst, sinceLast) ==
    Smaller(Window(n) - sinceLast, MaxWindow - sinceFirst)

===========================================================================
