------------------------------ MODULE StderrTail ------------------------------
(***************************************************************************)
(* tail: the end of what a PostgreSQL program printed, cut to a number of  *)
(* bytes but never inside a character.  A text is a sequence of bytes:     *)
(* "space", another one-byte character "ascii", or the "lead" byte of a    *)
(* longer character and its "cont"inuation bytes.  The slice s is kept as  *)
(* its two ends in the text.                                               *)
(***************************************************************************)
EXTENDS Naturals, Sequences

CONSTANTS Limit, MaxBytes  \* STDERR_LIMIT; bound of the model

ASSUME TailAssumption == {Limit, MaxBytes} \subseteq Nat

VARIABLES text, start, end, phase

tailVars == <<text, start, end, phase>>

Bytes == {"space", "ascii", "lead", "cont"}

\* One to three continuation bytes follow a lead byte, and nothing else.
IsUtf8(t) ==
    /\ \A i \in 1..Len(t) :
         /\ t[i] = "cont" => i > 1 /\ t[i - 1] \in {"lead", "cont"}
         /\ t[i] = "lead" => i < Len(t) /\ t[i + 1] = "cont"
    /\ \A i \in 1..Len(t) - 3 : \E k \in i..i + 3 : t[k] # "cont"

Texts == {t \in UNION {[1..n -> Bytes] : n \in 0..MaxBytes} : IsUtf8(t)}

\* str::is_char_boundary of the slice: also true at its end.
IsCharBoundary(i) == i = end \/ text[i + 1] # "cont"

\* s.trim_end()
TrimEnd ==
    /\ phase = "trim"
    /\ LET ends == {n \in 0..Len(text) : \A i \in n + 1..Len(text) : text[i] = "space"}
       IN  end' = CHOOSE n \in ends : \A m \in ends : n <= m
    /\ phase' = "cut" /\ UNCHANGED <<text, start>>

\* s.len().saturating_sub(limit)
Cut ==
    /\ phase = "cut"
    /\ start' = IF end > Limit THEN end - Limit ELSE 0
    /\ phase' = "align" /\ UNCHANGED <<text, end>>

\* Mutant: backwards to the boundary, past the limit.
AlignBack ==
    /\ phase = "align"
    /\ IF IsCharBoundary(start) THEN phase' = "done" /\ UNCHANGED start
       ELSE start' = start - 1 /\ UNCHANGED phase
    /\ UNCHANGED <<text, end>>

\* The loop forward to the next boundary.
Align ==
    /\ phase = "align"
    /\ IF IsCharBoundary(start) THEN phase' = "done" /\ UNCHANGED start
       ELSE start' = start + 1 /\ UNCHANGED phase
    /\ UNCHANGED <<text, end>>

TailInit == text \in Texts /\ start = 0 /\ end = Len(text) /\ phase = "trim"

TailNext == TrimEnd \/ Cut \/ Align \/ (phase = "done" /\ UNCHANGED tailVars)

TailSpec == TailInit /\ [][TailNext]_tailVars

\* The result loses nothing but blanks at its end, begins with a character
\* (the slice panics anywhere else), fits in the limit, and is the longest
\* end of the text that does.
TailIsLongestFit ==
    phase = "done" =>
      /\ start <= end /\ end <= Len(text)
      /\ \A i \in end + 1..Len(text) : text[i] = "space"
      /\ end > 0 => text[end] # "space"
      /\ IsCharBoundary(start) /\ end - start <= Limit
      /\ \A i \in 0..start - 1 : IsCharBoundary(i) => end - i > Limit
=============================================================================
