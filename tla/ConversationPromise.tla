------------------------- MODULE ConversationPromise -------------------------
(***************************************************************************)
(* What a voice conversation promises its listener: once he has begun      *)
(* another turn, cut in or left, no words and no speech of a turn are sent *)
(* any more; the pieces of a turn are spoken in order; the list that       *)
(* completes a turn names what was spoken, and nothing is spoken after it. *)
(* A turn he cut in on may still be completed, and its whole text be sent. *)
(***************************************************************************)
EXTENDS Naturals, Sequences

CONSTANTS Turns, Indexes, None

VARIABLES
    latest,     \* the turn begun last, None before any and when he has left
    cutIn,      \* the turns he cut in on
    written,    \* of every turn, the number of pieces of text
    spoken,     \* of every turn, the indexes of the pieces that were spoken
    claimed,    \* of every turn, the indexes said to be spoken, or None
    finished    \* the turns whose whole text was sent

promiseVars == <<latest, cutIn, written, spoken, claimed, finished>>

Init ==
    /\ latest = None /\ cutIn = {}
    /\ written = [n \in Turns |-> 0]
    /\ spoken = [n \in Turns |-> <<>>]
    /\ claimed = [n \in Turns |-> None]
    /\ finished = {}

Begin(n) ==
    /\ written[n] = 0 /\ spoken[n] = <<>> /\ n \notin cutIn
    /\ latest' = n
    /\ UNCHANGED <<cutIn, written, spoken, claimed, finished>>

CutIn ==
    /\ cutIn' = cutIn \cup ({latest} \cap Turns)
    /\ UNCHANGED <<latest, written, spoken, claimed, finished>>

Leave ==
    /\ latest' = None
    /\ UNCHANGED <<cutIn, written, spoken, claimed, finished>>

\* The turn is being answered.
Open(n) == latest = n /\ n \notin cutIn /\ claimed[n] = None

Write(n) ==
    /\ Open(n)
    /\ written' = [written EXCEPT ![n] = @ + 1]
    /\ UNCHANGED <<latest, cutIn, spoken, claimed, finished>>

Speak(n, i) ==
    /\ Open(n)
    /\ spoken[n] = <<>> \/ i > spoken[n][Len(spoken[n])]
    /\ spoken' = [spoken EXCEPT ![n] = Append(@, i)]
    /\ UNCHANGED <<latest, cutIn, written, claimed, finished>>

\* The list may lack the piece during which he cut in.
Complete(n) ==
    /\ latest = n /\ claimed[n] = None
    /\ \E missing \in IF n \in cutIn THEN 0..1 ELSE {0} :
          /\ missing <= Len(spoken[n])
          /\ claimed' = [claimed EXCEPT
                             ![n] = SubSeq(spoken[n], 1, Len(spoken[n]) - missing)]
    /\ UNCHANGED <<latest, cutIn, written, spoken, finished>>

Finish(n) ==
    /\ latest = n \/ (latest # None /\ n \in cutIn)
    /\ claimed[n] # None
    /\ finished' = finished \cup {n}
    /\ UNCHANGED <<latest, cutIn, written, spoken, claimed>>

Next ==
    \/ CutIn \/ Leave
    \/ \E n \in Turns : \/ Begin(n) \/ Write(n) \/ Complete(n) \/ Finish(n)
                        \/ \E i \in Indexes : Speak(n, i)

Spec == Init /\ [][Next]_promiseVars
==============================================================================
