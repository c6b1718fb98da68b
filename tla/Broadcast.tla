------------------------------ MODULE Broadcast ------------------------------
(***************************************************************************)
(* What the event stream of an incident promises to a listener: between two *)
(* (re)subscriptions it hears what was sent since, in order, without a gap   *)
(* and without a repetition; of what was sent before it hears nothing.  The  *)
(* abstract specification of EventStream.                                   *)
(***************************************************************************)
EXTENDS Integers, Sequences

CONSTANTS
    Listener,    \* connections to GET /incidents/{id}/stream
    Event        \* what may be sent

VARIABLES
    log,     \* everything that was sent
    heard    \* heard[c]: does c listen, since where in the log, and what it heard

vars == <<log, heard>>

Deaf == [on |-> FALSE, from |-> 0, said |-> <<>>]

Init ==
    /\ log = <<>>
    /\ heard = [c \in Listener |-> Deaf]

Send(e) ==
    /\ log' = Append(log, e)
    /\ UNCHANGED heard

\* Listen from now on, for the first time or anew.
Tune(c) ==
    /\ ~heard[c].on
    /\ heard' = [heard EXCEPT ![c] = [on |-> TRUE, from |-> Len(log), said |-> <<>>]]
    /\ UNCHANGED log

\* The next thing that was sent.
Hear(c) ==
    LET next == heard[c].from + Len(heard[c].said) + 1
    IN  /\ heard[c].on
        /\ next <= Len(log)
        /\ heard' = [heard EXCEPT ![c].said = Append(@, log[next])]
        /\ UNCHANGED log

Leave(c) ==
    /\ heard[c].on
    /\ heard' = [heard EXCEPT ![c] = Deaf]
    /\ UNCHANGED log

Next ==
    \/ \E e \in Event : Send(e)
    \/ \E c \in Listener : Tune(c) \/ Hear(c) \/ Leave(c)

Spec == Init /\ [][Next]_vars

=============================================================================
