----------------------------- MODULE PressInbox -----------------------------
(***************************************************************************)
(* What the service promises about the presses of its buttons: the presses *)
(* a bot receives wait in one queue, are taken from it one at a time, each *)
(* once and in the order they were made, and one that waits is dropped     *)
(* only while the bot's polling is being stopped.                          *)
(***************************************************************************)
EXTENDS Naturals, Sequences, SequencesExt

CONSTANTS Tokens, MaxPresses

VARIABLES
    inbox,      \* the presses of each bot that wait, numbered as they were made
    fate,       \* what became of each press
    stopping    \* the bots whose polling is being stopped

vars == <<inbox, fate>>

Fates == {"unmade", "waiting", "ignored", "answering", "answered", "unanswered", "dropped"}

Init ==
    /\ inbox = [t \in Tokens |-> <<>>]
    /\ fate = [t \in Tokens |-> [i \in 1..MaxPresses |-> "unmade"]]

Becomes(t, i, to) == fate' = [fate EXCEPT ![t][i] = to]

Make(t, i) ==
    /\ fate[t][i] = "unmade"
    /\ \A j \in 1..i - 1 : fate[t][j] # "unmade"
    /\ Becomes(t, i, "waiting")
    /\ inbox' = [inbox EXCEPT ![t] = Append(@, i)]

\* The oldest waiting press is taken, when none is being answered.
Take(t, to) ==
    /\ inbox[t] # <<>>
    /\ \A i \in 1..MaxPresses : fate[t][i] # "answering"
    /\ Becomes(t, Head(inbox[t]), to)
    /\ inbox' = [inbox EXCEPT ![t] = Tail(@)]

Reply(t, i, to) ==
    /\ fate[t][i] = "answering"
    /\ Becomes(t, i, to)
    /\ UNCHANGED inbox

\* The n-th of those that wait is dropped.
Drop(t, n) ==
    /\ t \in stopping
    /\ Becomes(t, inbox[t][n], "dropped")
    /\ inbox' = [inbox EXCEPT ![t] = RemoveAt(@, n)]

Next ==
    \E t \in Tokens :
        \/ \E to \in {"answering", "ignored"} : Take(t, to)
        \/ \E i \in 1..MaxPresses :
              Make(t, i) \/ \E to \in {"answered", "unanswered"} : Reply(t, i, to)
        \/ \E n \in DOMAIN inbox[t] : Drop(t, n)

Spec == Init /\ [][Next]_vars
=============================================================================
