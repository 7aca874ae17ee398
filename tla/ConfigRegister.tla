----------------------------- MODULE ConfigRegister ----------------------------
(***************************************************************************)
(* What the configuration store promises, without locks, files or crashes: *)
(* one value that is replaced as a whole, under a generation that never    *)
(* stood for another configuration.  The file that holds it may become     *)
(* unreadable; recovery then brings back a configuration it once held.     *)
(***************************************************************************)
EXTENDS Naturals

CONSTANTS Configs, NoConfig, Gens

VARIABLES
    value,          \* the current configuration and its generation
    log             \* the configuration each generation has stood for

registerVars == <<value, log>>

Missing == [kind |-> "missing", gen |-> 0, config |-> NoConfig]
Invalid == [kind |-> "invalid", gen |-> 0, config |-> NoConfig]
Valid(g, c) == [kind |-> "valid", gen |-> g, config |-> c]

Used == {g \in Gens : log[g] # NoConfig}

\* A new configuration under a generation beyond all others.
Replace(g, c) ==
    /\ \A h \in Used : h < g
    /\ value' = Valid(g, c)
    /\ log' = [log EXCEPT ![g] = c]

Lose ==
    /\ value.kind = "valid"
    /\ value' = Invalid
    /\ UNCHANGED log

\* An old configuration comes back, under a generation that is new or was already its own.
Recover(g, h) ==
    /\ value.kind = "invalid"
    /\ h \in Used
    /\ g \in Used => log[g] = log[h]
    /\ value' = Valid(g, log[h])
    /\ log' = [log EXCEPT ![g] = log[h]]

RegisterInit == value = Missing /\ log = [g \in Gens |-> NoConfig]
RegisterNext ==
    \/ \E g \in Gens, c \in Configs : Replace(g, c)
    \/ Lose
    \/ \E g, h \in Gens : Recover(g, h)
RegisterSpec == RegisterInit /\ [][RegisterNext]_registerVars
===============================================================================
